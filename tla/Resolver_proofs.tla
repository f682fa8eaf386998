-------------------------- MODULE Resolver_proofs --------------------------
(***************************************************************************)
(* Proofs about Resolver, for every set of PIDs, programs and scores, and  *)
(* every history of processes, packages and failing commands.              *)
(***************************************************************************)
EXTENDS Resolver, UidCache_proofs, FiniteSetTheorems, WellFoundedInduction

\* Those of S above p.
Above(S, p) == {q \in S : p < q}

(* A finite set of numbers has a highest one: among the sets Above(S, p)    *)
(* one has no strict subset of that kind, and it is empty.                  *)
LEMMA HighestOne ==
  ASSUME NEW S \in SUBSET Pids, S # {}
  PROVE  Highest(S) \in S /\ \A q \in S : q <= Highest(S)
<1>1. S \in SUBSET Nat /\ IsFiniteSet(S)
  BY ResolverConstantsOK, FS_Subset DEF ResolverConstantsOK
<1> DEFINE F == {Above(S, p) : p \in S}
<1>2. F \subseteq FiniteSubsetsOf(S) /\ F # {}
  <2>1. ASSUME NEW p \in S PROVE Above(S, p) \in FiniteSubsetsOf(S)
    <3>1. Above(S, p) \in SUBSET S
      BY DEF Above
    <3>2. QED
      BY <1>1, <3>1, FS_Subset DEF FiniteSubsetsOf
  <2>2. QED
    BY <2>1
<1>3. PICK A \in F : \A B \in F : <<B, A>> \notin StrictSubsetOrdering(S)
  <2>1. IsWellFoundedOn(StrictSubsetOrdering(S), FiniteSubsetsOf(S))
    BY FS_StrictSubsetOrderingWellFounded
  <2> HIDE DEF F
  <2>2. QED
    BY <1>2, <2>1, WFMin
<1>4. PICK p \in S : A = Above(S, p)
  OBVIOUS
<1>5. ASSUME NEW q \in A PROVE FALSE
  <2>1. q \in S /\ p < q
    BY <1>4, <1>5 DEF Above
  <2>2. Above(S, q) \subseteq A /\ q \notin Above(S, q)
    <3>1. p \in Nat /\ q \in Nat /\ \A r \in S : r \in Nat
      BY <1>1, <2>1
    <3>2. ASSUME NEW r \in Above(S, q) PROVE r \in Above(S, p)
      <4>1. r \in S /\ q < r
        BY DEF Above
      <4>2. p < r
        BY <2>1, <3>1, <4>1
      <4>3. QED
        BY <4>1, <4>2 DEF Above
    <3>3. q \notin Above(S, q)
      BY <3>1 DEF Above
    <3>4. QED
      BY <1>4, <3>2, <3>3
  <2>3. <<Above(S, q), A>> \in StrictSubsetOrdering(S)
    <3>1. Above(S, q) \in SUBSET S /\ A \in SUBSET S /\ Above(S, q) # A
      BY <1>4, <1>5, <2>2 DEF Above
    <3>2. QED
      BY <2>2, <3>1 DEF StrictSubsetOrdering
  <2>4. QED
    BY <1>3, <2>1, <2>3
<1>6. \A q \in S : q <= p
  BY <1>1, <1>4, <1>5 DEF Above
<1>7. QED
  BY <1>6 DEF Highest

(* What is assumed of the constants, in the form the steps use it.          *)
LEMMA ResolverConstants ==
  /\ Pids \subseteq Nat
  /\ \A o \in Scores : o \in Int
  /\ Nil \notin Scores /\ Nil \notin Pids /\ Nil # "" /\ Nil \notin Packages
  /\ "" \notin Packages /\ Nil \notin Processes
  /\ \A g \in Programs : UidOf[g] \in AppUids \cup {Nil} /\ CmdOf[g] \in Packages
  /\ \A f \in FirstScreens : f \in [Pids -> Processes \cup {Nil}]
  /\ \A x \in Arrivals : x \in Processes
<1>1. Nat \subseteq Int
  OBVIOUS
<1>2. QED
  BY <1>1, ResolverConstantsOK, CacheConstantsOK DEF ResolverConstantsOK, CacheConstantsOK

LEMMA MovesBounded == MaxMoves \in Nat
  BY ResolverConstantsOK DEF ResolverConstantsOK

LEMMA ProcessFields ==
  ASSUME NEW x \in Processes
  PROVE  /\ x.prog \in Programs /\ x.oom \in Scores
         /\ x.top \in BOOLEAN /\ x.populated \in BOOLEAN
  BY DEF Processes

(* In every step of the resolver the cache does a step of its own, or none. *)
LEMMA StepOfCache ==
  ASSUME ResolverTypeOK, [Next]_vars
  PROVE  [CacheNext]_cacheVars
<1>1. CASE World
  BY <1>1 DEF World, Spawn, Die, Shift, Become, Moves
<1>2. CASE Cache
  BY <1>2, CacheConstants DEF Cache, CacheNext
<1>3. ASSUME NEW p \in Pids, App(p) PROVE CacheNext
  <2>1. procs[p] \in Processes
    BY <1>3 DEF App, Populated, ResolverTypeOK
  <2>2. UidOf[procs[p].prog] \in AppUids
    BY <1>3, <2>1, ProcessFields, ResolverConstants DEF App
  <2>3. QED
    BY <1>3, <2>2, CacheConstants DEF App, CacheNext
<1>4. CASE clear_pid_cache \/ Begin \/ Filtered \/ Answer \/ Return
  BY <1>4 DEF clear_pid_cache, Begin, Filtered, Answer, Return
<1>5. ASSUME NEW p \in Pids,
             NotPopulated(p) \/ Cached(p) \/ SystemProcess(p) \/ Score(p) \/ Gone(p)
      PROVE  UNCHANGED cacheVars
  BY <1>5 DEF NotPopulated, Cached, SystemProcess, Score, Gone
<1>6. CASE UNCHANGED vars
  BY <1>6 DEF vars
<1>7. QED
  BY <1>1, <1>2, <1>3, <1>4, <1>5, <1>6 DEF Next, Resolve

----------------------------------------------------------------------------
(* Where resolve() is: its locals are set only where it uses them.          *)

Where ==
  /\ pc \in {"idle", "filter"} => NoChoice
  /\ pc = "idle" => filtered = {}
  /\ pc = "filter" => filtered \cap todo = {}
  /\ pc \in {"select", "done"} => todo \subseteq filtered

\* The verdict on a PID that has passed the filter.
Passed == \A p \in filtered : pid_cache[p] \in Packages /\ Admit(pid_cache[p])

\* What it answers is the verdict on the chosen PID.
Named == pc = "done" /\ answer # Nil => best_pid \in filtered /\ answer = pid_cache[best_pid]

\* The program of a process has run under its PID.
Recorded == \A p \in Pids : procs[p] # Nil => procs[p].prog \in been[p]

ScanInv == ResolverTypeOK /\ Where /\ Passed /\ Named /\ Recorded

(* What a verdict is.                                                       *)
LEMMA VerdictOnApp ==
  ASSUME CacheTypeOK', NEW g \in Programs, UidOf[g] \in AppUids, NEW read
  PROVE  AppVerdict(g, mapping'[Daemon][UidOf[g]], read) \in Packages \cup {""}
<1>1. mapping'[Daemon] \in Mappings
  BY CacheConstants DEF CacheTypeOK
<1>2. mapping'[Daemon][UidOf[g]] \in Packages \cup {Nil}
  BY <1>1 DEF Mappings
<1>3. QED
  BY <1>2 DEF AppVerdict

(* Deciding about one PID.                                                  *)
LEMMA DecideStep ==
  ASSUME ScanInv, NEW p \in Pids, NEW verdict \in Packages \cup {""}, Decide(p, verdict),
         unread' \subseteq Pids
  PROVE  ScanInv'
<1> USE DEF Decide, Filtering, world, choice
<1>0. ResolverTypeOK /\ Where /\ Passed /\ Named /\ Recorded
  BY DEF ScanInv
<1>1. p \in todo /\ pc = "filter" /\ p \notin filtered
  BY <1>0, HighestOne DEF Next1, Where, ResolverTypeOK
<1>2. pid_cache' \in [Pids -> Verdicts] /\ pid_cache'[p] = verdict
      /\ \A q \in Pids \ {p} : pid_cache'[q] = pid_cache[q]
  BY <1>0 DEF ResolverTypeOK, Verdicts
<1>3. filtered' \subseteq filtered \cup {p} /\ (p \in filtered' => Admit(verdict))
      /\ filtered \subseteq filtered' /\ NoChoice /\ NoChoice'
  BY <1>0, <1>1 DEF NoChoice, Where
<1>4. ResolverTypeOK'
  <2>1. todo' \subseteq v1_pids' /\ filtered' \subseteq v1_pids'
    BY <1>0, <1>1, <1>3 DEF ResolverTypeOK
  <2>2. best_pid' \in filtered' \cup {Nil} /\ min_oom' \in Scores \cup {Nil}
        /\ best_is_low_prio' \in BOOLEAN
    BY <1>3 DEF NoChoice
  <2>3. QED
    BY <1>0, <1>2, <2>1, <2>2 DEF ResolverTypeOK
<1>5. Where'
  BY <1>0, <1>1, <1>3 DEF Where
<1>6. Passed'
  <2>1. filtered \subseteq Pids
    BY <1>0 DEF ResolverTypeOK
  <2>2. QED
    BY <1>0, <1>1, <1>2, <1>3, <2>1 DEF Passed, Admit
<1>7. Named' /\ Recorded'
  BY <1>0, <1>1, <1>2 DEF Named, Recorded
<1>8. QED
  BY <1>4, <1>5, <1>6, <1>7 DEF ScanInv

(* A process starts, dies or moves.                                         *)
LEMMA MovesStep ==
  ASSUME ScanInv, NEW p \in Pids, NEW x \in Processes \cup {Nil}, Moves(p, x)
  PROVE  ScanInv'
<1> USE DEF Moves, choice, scan, verdicts
<1>0. ResolverTypeOK /\ Where /\ Passed /\ Named /\ Recorded
  BY DEF ScanInv
<1>1. ResolverTypeOK'
  <2>1. procs' \in [Pids -> Processes \cup {Nil}]
    BY <1>0 DEF ResolverTypeOK
  <2>2. moves' \in 0..MaxMoves /\ been' \in [Pids -> SUBSET Programs]
    <3>1. moves' \in 0..MaxMoves
      BY <1>0, MovesBounded DEF ResolverTypeOK
    <3>2. Running(p)' \subseteq Programs
      BY <2>1, ProcessFields DEF Running
    <3>3. been' \in [Pids -> SUBSET Programs]
      BY <1>0, <3>2 DEF ResolverTypeOK
    <3>4. QED
      BY <3>1, <3>3
  <2>3. QED
    BY <1>0, <2>1, <2>2 DEF ResolverTypeOK
<1>2. Where' /\ Passed' /\ Named'
  BY <1>0 DEF Where, NoChoice, Passed, Named
<1>3. Recorded'
  BY <1>0 DEF Recorded, Running, ResolverTypeOK
<1>4. QED
  BY <1>1, <1>2, <1>3 DEF ScanInv

LEMMA WorldStep == ScanInv /\ World => ScanInv'
<1> SUFFICES ASSUME ScanInv, World PROVE ScanInv'
  OBVIOUS
<1>1. PICK p \in Pids : \/ Die(p)
                        \/ \E x \in Arrivals : Spawn(p, x)
                        \/ \E oom \in Scores, top, populated \in BOOLEAN :
                             Shift(p, oom, top, populated)
                        \/ \E g \in Programs : Become(p, g)
  BY DEF World
<1>2. CASE Die(p)
  BY <1>2, MovesStep DEF Die
<1>3. CASE \E x \in Arrivals : Spawn(p, x)
  BY <1>3, MovesStep, ResolverConstants DEF Spawn
<1>4. ASSUME NEW oom \in Scores, NEW top \in BOOLEAN, NEW populated \in BOOLEAN,
             Shift(p, oom, top, populated)
      PROVE  ScanInv'
  <2>1. procs[p] \in Processes
    BY <1>4 DEF Shift, ScanInv, ResolverTypeOK
  <2> DEFINE x == [prog |-> procs[p].prog, oom |-> oom, top |-> top,
                   populated |-> populated]
  <2>2. x \in Processes
    BY <2>1 DEF Processes
  <2>3. Moves(p, x)
    BY <1>4 DEF Shift
  <2> HIDE DEF x
  <2>4. QED
    BY <2>2, <2>3, MovesStep
<1>5. ASSUME NEW g \in Programs, Become(p, g) PROVE ScanInv'
  <2>1. procs[p] \in Processes
    BY <1>5 DEF Become, ScanInv, ResolverTypeOK
  <2>2. [procs[p] EXCEPT !.prog = g] \in Processes
    BY <2>1 DEF Processes
  <2>3. QED
    BY <1>5, <2>2, MovesStep DEF Become
<1>6. QED
  BY <1>1, <1>2, <1>3, <1>4, <1>5

(* The steps of resolve() itself.                                           *)
LEMMA ScanStep == CacheTypeOK' /\ ScanInv /\ [Next]_vars => ScanInv'
<1> SUFFICES ASSUME CacheTypeOK', ScanInv, [Next]_vars PROVE ScanInv'
  OBVIOUS
<1>0. ResolverTypeOK /\ Where /\ Passed /\ Named /\ Recorded
  BY DEF ScanInv
<1> USE DEF world, verdicts, scan, choice, resolver
<1>1. CASE World
  BY <1>1, WorldStep
<1>2. CASE Cache \/ UNCHANGED vars
  <2>1. UNCHANGED <<world, resolver>>
    BY <1>2 DEF Cache, vars
  <2>2. QED
    BY <1>0, <2>1 DEF ScanInv, ResolverTypeOK, Where, NoChoice, Passed, Named, Recorded
<1>3. CASE clear_pid_cache
  <2>1. ResolverTypeOK'
    <3>1. \A p \in Pids : Running(p) \subseteq Programs
      BY <1>0, ProcessFields DEF Running, ResolverTypeOK
    <3>2. QED
      BY <1>0, <1>3, <3>1 DEF clear_pid_cache, ResolverTypeOK, Verdicts
  <2>2. Where' /\ Passed' /\ Named' /\ Recorded'
    BY <1>0, <1>3 DEF clear_pid_cache, Where, NoChoice, Passed, Named, Recorded, Running
  <2>3. QED
    BY <2>1, <2>2 DEF ScanInv
<1>4. CASE Begin
  <2>1. ResolverTypeOK'
    BY <1>0, <1>4 DEF Begin, ResolverTypeOK, OnTop, Where, NoChoice
  <2>2. Where' /\ Passed' /\ Named' /\ Recorded'
    BY <1>0, <1>4 DEF Begin, Where, NoChoice, Passed, Named, Recorded
  <2>3. QED
    BY <2>1, <2>2 DEF ScanInv
<1>5. ASSUME NEW p \in Pids, NotPopulated(p) \/ Cached(p) PROVE ScanInv'
  <2>1. p \in todo /\ p \in v1_pids /\ p \notin filtered /\ pc = "filter"
    BY <1>0, <1>5, HighestOne
       DEF NotPopulated, Cached, Filtering, Next1, ResolverTypeOK, Where
  <2>2. /\ filtered' \subseteq filtered \cup {p}
        /\ p \in filtered' => pid_cache[p] # Nil /\ Admit(pid_cache[p])
        /\ filtered \subseteq filtered'
    BY <1>5, <2>1 DEF NotPopulated, Cached, Filtering
  <2>3. todo' = todo \ {p} /\ UNCHANGED <<world, v1_pids, pc, choice, answer, still, verdicts>>
    BY <1>5 DEF NotPopulated, Cached, Filtering
  <2>4. ResolverTypeOK'
    BY <1>0, <2>1, <2>2, <2>3 DEF ResolverTypeOK
  <2>5. Where'
    BY <1>0, <2>1, <2>2, <2>3 DEF Where, NoChoice
  <2>6. Passed'
    BY <1>0, <2>1, <2>2, <2>3 DEF Passed, ResolverTypeOK, Verdicts, Admit
  <2>7. Named' /\ Recorded'
    BY <1>0, <2>1, <2>3 DEF Named, Recorded
  <2>8. QED
    BY <2>4, <2>5, <2>6, <2>7 DEF ScanInv
<1>6. ASSUME NEW p \in Pids, App(p) PROVE ScanInv'
  <2>1. procs[p].prog \in Programs
    BY <1>0, <1>6, ProcessFields DEF App, Populated, ResolverTypeOK
  <2>2. UidOf[procs[p].prog] \in AppUids
    BY <1>6, <2>1, ResolverConstants DEF App
  <2>3. PICK read \in BOOLEAN :
          /\ Decide(p, AppVerdict(procs[p].prog, mapping'[Daemon][UidOf[procs[p].prog]], read))
          /\ unread' \subseteq Pids
    BY <1>0, <1>6 DEF App, Reading, ResolverTypeOK
  <2>4. AppVerdict(procs[p].prog, mapping'[Daemon][UidOf[procs[p].prog]], read)
          \in Packages \cup {""}
    BY <2>1, <2>2, VerdictOnApp
  <2>5. QED
    BY <2>3, <2>4, DecideStep
<1>7. ASSUME NEW p \in Pids, SystemProcess(p) PROVE ScanInv'
  <2>1. CmdOf[procs[p].prog] \in Packages
    BY <1>0, <1>7, ProcessFields, ResolverConstants
       DEF SystemProcess, Populated, ResolverTypeOK
  <2>2. PICK verdict \in Packages \cup {""} : Decide(p, verdict) /\ unread' \subseteq Pids
    BY <1>0, <1>7, <2>1 DEF SystemProcess, Reading, ResolverTypeOK
  <2>3. QED
    BY <2>2, DecideStep
<1>8. CASE Filtered
  <2>1. ResolverTypeOK'
    BY <1>0, <1>8 DEF Filtered, ResolverTypeOK
  <2>2. Where' /\ Passed' /\ Named' /\ Recorded'
    BY <1>0, <1>8 DEF Filtered, Where, Passed, Named, Recorded
  <2>3. QED
    BY <2>1, <2>2 DEF ScanInv
<1>9. ASSUME NEW p \in Pids, Score(p) PROVE ScanInv'
  <2>1. p \in todo /\ p \in filtered /\ pc = "select"
    BY <1>0, <1>9, HighestOne DEF Score, Next1, ResolverTypeOK, Where
  <2>2. procs[p].oom \in Scores /\ LowPriority(pid_cache[p]) \in BOOLEAN
    BY <1>0, <1>9, ProcessFields DEF Score, ResolverTypeOK, LowPriority
  <2>3. /\ best_pid' \in filtered \cup {Nil} /\ min_oom' \in Scores \cup {Nil}
        /\ best_is_low_prio' \in BOOLEAN
    BY <1>0, <1>9, <2>1, <2>2 DEF Score, ResolverTypeOK
  <2>4. todo' \subseteq todo /\ UNCHANGED <<world, verdicts, pc, v1_pids, filtered, answer, still>>
    BY <1>9 DEF Score
  <2>5. ResolverTypeOK'
    BY <1>0, <2>3, <2>4 DEF ResolverTypeOK
  <2>6. Where' /\ Passed' /\ Named' /\ Recorded'
    BY <1>0, <2>1, <2>4 DEF Where, Passed, Named, Recorded
  <2>7. QED
    BY <2>5, <2>6 DEF ScanInv
<1>10. ASSUME NEW p \in Pids, Gone(p) PROVE ScanInv'
  <2>1. ResolverTypeOK'
    BY <1>0, <1>10 DEF Gone, ResolverTypeOK
  <2>2. Where' /\ Passed' /\ Named' /\ Recorded'
    BY <1>0, <1>10 DEF Gone, Where, Passed, Named, Recorded
  <2>3. QED
    BY <2>1, <2>2 DEF ScanInv
<1>11. CASE Answer
  <2>1. /\ answer' # Nil => best_pid \in filtered /\ answer' = pid_cache[best_pid]
        /\ answer' \in Packages \cup {Nil}
    BY <1>0, <1>11 DEF Answer, ResolverTypeOK, Passed
  <2>2. ResolverTypeOK'
    BY <1>0, <1>11, <2>1 DEF Answer, ResolverTypeOK
  <2>3. Where' /\ Passed' /\ Named' /\ Recorded'
    BY <1>0, <1>11, <2>1 DEF Answer, Where, Passed, Named, Recorded
  <2>4. QED
    BY <2>2, <2>3 DEF ScanInv
<1>12. CASE Return
  <2>1. ResolverTypeOK'
    BY <1>0, <1>12 DEF Return, ResolverTypeOK
  <2>2. Where' /\ Passed' /\ Named' /\ Recorded'
    BY <1>0, <1>12 DEF Return, Where, NoChoice, Passed, Named, Recorded
  <2>3. QED
    BY <2>1, <2>2 DEF ScanInv
<1>13. QED
  BY <1>1, <1>2, <1>3, <1>4, <1>5, <1>6, <1>7, <1>8, <1>9, <1>10, <1>11, <1>12
     DEF Next, Resolve

LEMMA ScanInitially == Init => ScanInv
<1> SUFFICES ASSUME Init PROVE ScanInv
  OBVIOUS
<1>1. procs \in [Pids -> Processes \cup {Nil}]
  BY ResolverConstants DEF Init
<1>2. ResolverTypeOK
  <2>1. 0 \in 0..MaxMoves /\ pid_cache \in [Pids -> Verdicts]
    BY MovesBounded DEF Init, Verdicts
  <2>2. been \in [Pids -> SUBSET Programs] /\ unread \subseteq Pids
    BY <1>1, ProcessFields DEF Init, Running
  <2>3. QED
    BY <1>1, <2>1, <2>2 DEF Init, ResolverTypeOK, NoChoice
<1>3. QED
  BY <1>2 DEF Init, ScanInv, Where, Passed, Named, Recorded, Running

----------------------------------------------------------------------------
(* What a verdict names.  A package comes from the cache's mapping, hence   *)
(* from a listing; the mapping may have come from the file.                 *)

\* Every package of the mapping m was listed, for its UID, up to version n.
Listed(m, n) ==
  \A u \in AppUids : m[u] # Nil => \E v \in 0..n : m[u] = Listing[v][u]

Sourced ==
  /\ Listed(mapping[Daemon], pm)
  /\ file \in Records => Listed(file.mapping, pm)

LEMMA Wider == ASSUME NEW n \in Nat, NEW k \in Nat, n <= k PROVE 0..n \subseteq 0..k
  OBVIOUS

LEMMA WithinVersions ==
  ASSUME NEW n \in Nat, NEW k \in 0..n, NEW v \in 0..k PROVE v \in 0..n
  OBVIOUS

LEMMA StillListed ==
  ASSUME NEW m, NEW n \in Nat, NEW k \in Nat, n <= k, Listed(m, n)
  PROVE  Listed(m, k)
<1>1. 0..n \subseteq 0..k
  BY Wider
<1>2. QED
  BY <1>1 DEF Listed

LEMMA ListedNow == ASSUME pm \in Nat PROVE Listed(Listing[pm], pm) /\ Listed(Nothing, pm)
<1>1. pm \in 0..pm
  OBVIOUS
<1>2. QED
  BY <1>1 DEF Listed, Nothing

(* Versions only grow.                                                      *)
LEMMA VersionsGrow ==
  ASSUME CacheTypeOK, [CacheNext]_cacheVars
  PROVE  pm \in Nat /\ pm' \in Nat /\ pm <= pm'
<1>1. pm \in Nat /\ (pm' = pm \/ pm' = pm + 1)
  <2>1. pm \in Nat
    BY CacheConstants DEF CacheTypeOK
  <2>2. CASE Install
    BY <2>1, <2>2 DEF Install
  <2>3. CASE UNCHANGED cacheVars
    BY <2>1, <2>3 DEF cacheVars, outside
  <2>4. ASSUME CacheNext, ~Install PROVE pm' = pm
    BY <2>4 DEF CacheNext, CacheWorld, CacheLoad, WriteXml, ThirtySeconds, EditConf,
                AddWatch, Reload, Start, Quit, Collect, Refresh, Read, Save, Write,
                GetPackage, outside
  <2>5. QED
    BY <2>1, <2>2, <2>3, <2>4
<1>2. QED
  BY <1>1

(* Part of what was listed was listed, of a command's answer or of the lines *)
(* written to the file.                                                      *)
LEMMA CutListed ==
  ASSUME NEW m \in Mappings, NEW n, Listed(m, n), NEW k \in Cut(m)
  PROVE  Listed(k, n)
  BY CutIsMapping DEF Listed

LEMMA PrintsListed ==
  ASSUME CacheTypeOK, NEW k \in Cut(Listing[pm])
  PROVE  Listed(k, pm)
<1>1. pm \in Nat /\ Listing[pm] \in Mappings
  BY CacheConstants DEF CacheTypeOK
<1>2. QED
  BY <1>1, ListedNow, CutListed

LEMMA SourcedStep ==
  ASSUME CacheInv, Sourced, ResolverTypeOK, [Next]_vars
  PROVE  Sourced'
<1>0. CacheTypeOK /\ Placed /\ [CacheNext]_cacheVars /\ Daemon \in Procs
  BY StepOfCache, CacheConstants DEF CacheInv
<1>1. pm \in Nat /\ pm' \in Nat /\ pm <= pm'
  BY <1>0, VersionsGrow
<1>2. /\ Listed(mapping[Daemon], pm') /\ (file \in Records => Listed(file.mapping, pm'))
      /\ Listed(Nothing, pm')
  BY <1>1, StillListed, ListedNow DEF Sourced
<1>3. ASSUME mapping'[Daemon] = mapping[Daemon], file' = file
      PROVE  Sourced'
  BY <1>2, <1>3 DEF Sourced
<1>4. CASE Collect(Daemon) \/ CacheWorld \/ Start(Daemon) \/ AddWatch \/ Reload
  BY <1>3, <1>4 DEF Collect, CacheWorld, Install, WriteXml, ThirtySeconds, Start,
                    AddWatch, Reload, memory
<1>5. CASE Refresh(Daemon)
  <2>1. pm' = pm /\ file' = file
    BY <1>5 DEF Refresh, outside
  <2>2. mapping'[Daemon] \in {mapping[Daemon]} \cup Cut(Listing[pm])
    BY <1>0, <1>5 DEF Refresh, PmAnswers, PmFails, CacheTypeOK
  <2>3. QED
    BY <1>0, <1>2, <2>1, <2>2, PrintsListed DEF Sourced
<1>6. CASE Read(Daemon)
  <2>1. file' = file /\ file \in Records \cup {Torn}
    BY <1>0, <1>6 DEF Read, Placed
  <2>2. mapping'[Daemon] \in {mapping[Daemon], IF file = Torn THEN Nothing ELSE file.mapping}
    BY <1>0, <1>6 DEF Read, CacheTypeOK
  <2>3. QED
    BY <1>2, <2>1, <2>2 DEF Sourced
<1>7. CASE Save(Daemon)
  BY <1>2, <1>7, CacheConstants DEF Save, memory, Sourced
<1>8. CASE Write(Daemon)
  <2>1. mapping[Daemon] \in Mappings /\ pm' = pm /\ mapping' = mapping
    BY <1>0, <1>8 DEF Write, outside, memory, CacheTypeOK
  <2>2. PICK m \in {mapping[Daemon]} \cup Cut(mapping[Daemon]) :
          file' \in {Torn, Lines(fingerprint[Daemon], m)}
    BY <1>8 DEF Write
  <2>3. Listed(m, pm)
    BY <2>1, CutListed DEF Sourced
  <2>4. file' \in Records => file'.mapping = m
    BY <2>2, CacheConstants DEF Lines
  <2>5. QED
    BY <1>2, <2>1, <2>3, <2>4 DEF Sourced
<1>9. ASSUME NEW p \in Pids, App(p) PROVE Sourced'
  <2>1. PICK u : GetPackage(Daemon, u)
    BY <1>9 DEF App
  <2>2. pm' = pm /\ file' = file
    BY <2>1 DEF GetPackage, outside
  <2>3. mapping'[Daemon] \in {mapping[Daemon]} \cup Cut(Listing[pm])
    BY <1>0, <2>1
       DEF GetPackage, Answered, Missed, MissAnswered, MissFailed, memory, CacheTypeOK
  <2>4. QED
    BY <1>0, <1>2, <2>2, <2>3, PrintsListed DEF Sourced
<1>10. ASSUME UNCHANGED cacheVars PROVE Sourced'
  BY <1>3, <1>10 DEF cacheVars, memory
<1>11. CASE World
  BY <1>10, <1>11 DEF World, Spawn, Die, Shift, Become, Moves
<1>12. CASE clear_pid_cache \/ Begin \/ Filtered \/ Answer \/ Return
  BY <1>10, <1>12 DEF clear_pid_cache, Begin, Filtered, Answer, Return
<1>13. ASSUME NEW p \in Pids,
              NotPopulated(p) \/ Cached(p) \/ SystemProcess(p) \/ Score(p) \/ Gone(p)
       PROVE  Sourced'
  BY <1>10, <1>13 DEF NotPopulated, Cached, SystemProcess, Score, Gone
<1>14. CASE UNCHANGED vars
  BY <1>10, <1>14 DEF vars
<1>15. QED
  BY <1>4, <1>5, <1>6, <1>7, <1>8, <1>9, <1>11, <1>12, <1>13, <1>14
     DEF Next, Resolve, Cache, CacheLoad

\* The verdict on one PID is that of a program that has run under it.
TrueOf(p) ==
  pid_cache[p] \notin {Nil, ""} =>
    \E g \in been[p] :
      IF UidOf[g] = Nil THEN pid_cache[p] = CmdOf[g]
      ELSE /\ \E v \in 0..pm : pid_cache[p] = Listing[v][UidOf[g]]
           /\ pid_cache[p] \in Terminals => CmdOf[g] = pid_cache[p] \/ p \in unread

(* Between two clearings the histories of a PID only grow.                  *)
Remembered(p) ==
  been[p] \subseteq been'[p] /\ (p \in unread => p \in unread')

(* What leaves a PID's verdict alone, or drops it, keeps it true.           *)
LEMMA TrueKept ==
  ASSUME NEW p \in Pids, TrueOf(p), pm \in Nat, pm' \in Nat, pm <= pm',
         pid_cache'[p] = Nil \/ (pid_cache'[p] = pid_cache[p] /\ Remembered(p))
  PROVE  TrueOf(p)'
<1>1. 0..pm \subseteq 0..pm'
  BY Wider
<1>2. QED
  BY <1>1 DEF TrueOf, Remembered

(* A verdict just made.                                                     *)
LEMMA TrueDecided ==
  ASSUME CacheTypeOK', Sourced', NEW p \in Pids, NEW g \in Programs, g \in been'[p],
         UidOf[g] # Nil, NEW read \in BOOLEAN, read \/ p \in unread',
         pid_cache'[p] = AppVerdict(g, mapping'[Daemon][UidOf[g]], read)
  PROVE  TrueOf(p)'
<1> DEFINE pkg == mapping'[Daemon][UidOf[g]]
<1>1. UidOf[g] \in AppUids
  BY ResolverConstants
<1>2. pkg # Nil => \E v \in 0..pm' : pkg = Listing[v][UidOf[g]]
  BY <1>1 DEF Sourced, Listed
<1> HIDE DEF pkg
<1>3. pid_cache'[p] = IF pkg = Nil \/ (pkg \in Terminals /\ read /\ CmdOf[g] # pkg)
                        THEN "" ELSE pkg
  BY DEF AppVerdict, pkg
<1>4. ASSUME pid_cache'[p] # ""
      PROVE  /\ \E v \in 0..pm' : pid_cache'[p] = Listing[v][UidOf[g]]
             /\ pid_cache'[p] \in Terminals => CmdOf[g] = pid_cache'[p] \/ p \in unread'
  BY <1>2, <1>3, <1>4
<1>5. QED
  BY <1>4 DEF TrueOf

(* What each step does to a verdict and to its history: it drops or keeps   *)
(* the one and remembers the other, or decides.                             *)
Decides(p) ==
  /\ procs[p] \in Processes /\ procs[p].prog \in been'[p]
  /\ \E read \in BOOLEAN :
       /\ read \/ p \in unread'
       /\ LET g == procs[p].prog IN
          \/ /\ UidOf[g] # Nil /\ step'[Daemon] \in {"ready", "save"}
             /\ pid_cache'[p] = AppVerdict(g, mapping'[Daemon][UidOf[g]], read)
          \/ /\ UidOf[g] = Nil
             /\ pid_cache'[p] = IF read /\ CmdOf[g] \in SystemNames THEN CmdOf[g] ELSE ""

LEMMA VerdictChange ==
  ASSUME CacheTypeOK, ScanInv, [Next]_vars, NEW p \in Pids
  PROVE  \/ pid_cache'[p] = Nil
         \/ pid_cache'[p] = pid_cache[p] /\ Remembered(p)
         \/ Decides(p)
<1> USE DEF world, verdicts, scan, choice, resolver
<1>0. ResolverTypeOK /\ Recorded
  BY DEF ScanInv
<1>1. CASE World
  <2>1. PICK q, x : q \in Pids /\ Moves(q, x)
    BY <1>1 DEF World, Die, Spawn, Shift, Become
  <2>2. QED
    BY <1>0, <2>1 DEF Moves, Remembered, ResolverTypeOK
<1>2. CASE Cache \/ UNCHANGED vars
  BY <1>2 DEF Cache, vars, Remembered
<1>3. CASE clear_pid_cache
  BY <1>3 DEF clear_pid_cache
<1>4. CASE Begin \/ Filtered \/ Answer \/ Return
  BY <1>4 DEF Begin, Filtered, Answer, Return, Remembered
<1>5. ASSUME NEW q \in Pids, NotPopulated(q) \/ Cached(q) \/ Score(q) \/ Gone(q)
      PROVE  pid_cache'[p] = pid_cache[p] /\ Remembered(p)
  BY <1>5 DEF NotPopulated, Cached, Filtering, Score, Gone, Remembered
<1>6. ASSUME NEW q \in Pids, App(q) \/ SystemProcess(q)
      PROVE  (pid_cache'[p] = pid_cache[p] /\ Remembered(p)) \/ Decides(p)
  <2>1. UNCHANGED world /\ procs[q] \in Processes /\ unread \subseteq unread'
    BY <1>0, <1>6
       DEF App, SystemProcess, Decide, Filtering, Reading, Populated, ResolverTypeOK
  <2>2. CASE p # q
    <3>1. pid_cache'[p] = pid_cache[p]
      BY <1>0, <1>6, <2>2 DEF App, SystemProcess, Decide, ResolverTypeOK
    <3>2. QED
      BY <2>1, <3>1 DEF Remembered
  <2>3. CASE p = q /\ App(q)
    <3> DEFINE g == procs[p].prog
    <3>1. PICK read \in BOOLEAN :
            /\ Decide(p, AppVerdict(g, mapping'[Daemon][UidOf[g]], read))
            /\ read \/ p \in unread'
      BY <2>3 DEF App, Reading
    <3>2. pid_cache'[p] = AppVerdict(g, mapping'[Daemon][UidOf[g]], read)
      BY <1>0, <3>1 DEF Decide, ResolverTypeOK
    <3>3. UidOf[g] # Nil /\ GetPackage(Daemon, UidOf[g])
      BY <2>3 DEF App
    <3>4. step'[Daemon] \in {"ready", "save"}
      BY <3>3, CacheConstants DEF GetPackage, Answered, Missed, Goes, CacheTypeOK
    <3>5. procs[p] \in Processes /\ g \in been'[p]
      BY <1>0, <2>1, <2>3, ResolverConstants DEF Recorded
    <3> HIDE DEF g
    <3>6. QED
      BY <3>1, <3>2, <3>3, <3>4, <3>5 DEF Decides, g
  <2>4. CASE p = q /\ SystemProcess(q)
    <3> DEFINE g == procs[p].prog
    <3>1. PICK read \in BOOLEAN :
            /\ Decide(p, IF read /\ CmdOf[g] \in SystemNames THEN CmdOf[g] ELSE "")
            /\ read \/ p \in unread'
      BY <2>4 DEF SystemProcess, Reading
    <3>2. pid_cache'[p] = IF read /\ CmdOf[g] \in SystemNames THEN CmdOf[g] ELSE ""
      BY <1>0, <3>1 DEF Decide, ResolverTypeOK
    <3>3. UidOf[g] = Nil
      BY <2>4 DEF SystemProcess
    <3>4. procs[p] \in Processes /\ g \in been'[p]
      BY <1>0, <2>1, <2>4, ResolverConstants DEF Recorded
    <3> HIDE DEF g
    <3>5. QED
      BY <3>1, <3>2, <3>3, <3>4 DEF Decides, g
  <2>5. QED
    BY <1>6, <2>2, <2>3, <2>4
<1>7. QED
  BY <1>1, <1>2, <1>3, <1>4, <1>5, <1>6 DEF Next, Resolve

LEMMA VerdictStep ==
  ASSUME CacheInv, CacheTypeOK', Sourced', ScanInv, VerdictsTrue, [Next]_vars
  PROVE  VerdictsTrue'
<1> SUFFICES ASSUME NEW p \in Pids PROVE TrueOf(p)'
  BY DEF VerdictsTrue, TrueOf
<1>0. TrueOf(p)
  BY DEF VerdictsTrue, TrueOf
<1>1. CacheTypeOK /\ pm \in Nat /\ pm' \in Nat /\ pm <= pm'
  BY VersionsGrow, StepOfCache DEF CacheInv, ScanInv
<1>2. CASE pid_cache'[p] = Nil \/ (pid_cache'[p] = pid_cache[p] /\ Remembered(p))
  BY <1>0, <1>1, <1>2, TrueKept
<1>3. CASE Decides(p)
  <2>1. PICK g \in Programs, read \in BOOLEAN :
          /\ g \in been'[p] /\ (read \/ p \in unread')
          /\ \/ /\ UidOf[g] # Nil
                /\ pid_cache'[p] = AppVerdict(g, mapping'[Daemon][UidOf[g]], read)
             \/ UidOf[g] = Nil /\ pid_cache'[p] \in {CmdOf[g], ""}
    BY <1>3, ProcessFields DEF Decides
  <2>2. CASE UidOf[g] = Nil
    BY <2>1, <2>2 DEF TrueOf
  <2>3. CASE UidOf[g] # Nil
    BY <2>1, <2>3, TrueDecided
  <2>4. QED
    BY <2>2, <2>3
<1>4. QED
  BY <1>1, <1>2, <1>3, VerdictChange

----------------------------------------------------------------------------
(* What an empty verdict rests on.  While nothing has failed, a daemon that  *)
(* shares its file with nobody looks UIDs up in a listing of pm: its file    *)
(* holds one whenever it reads it, and it is ready only after a refresh or   *)
(* such a read.                                                              *)

\* A whole listing, not older than the packages it may lack.
AListing(m) == \E v \in 0..pm : m = Listing[v]

Supplied ==
  failed = {} =>
    /\ step[Daemon] \in {"ready", "save", "write"} => AListing(mapping[Daemon])
    /\ file \in Records => AListing(file.mapping)
    /\ step[Daemon] = "read" => file \in Records
    /\ file = Torn => step[Daemon] = "write"

LEMMA SuppliedStep ==
  ASSUME CacheInv, Supplied, ResolverTypeOK, [Next]_vars
  PROVE  Supplied'
<1> USE DEF memory, outside, watch
<1>0. CacheTypeOK /\ Placed /\ [CacheNext]_cacheVars /\ Daemon \in Procs
  BY StepOfCache, CacheConstants DEF CacheInv
<1>1. pm \in Nat /\ pm' \in Nat /\ 0..pm \subseteq 0..pm'
  BY <1>0, VersionsGrow, Wider
<1>2. AListing(Listing[pm])
  BY <1>1 DEF AListing
<1>3. ASSUME NEW m, AListing(m) PROVE AListing(m)'
  BY <1>1, <1>3 DEF AListing
<1>4. ASSUME mapping'[Daemon] = mapping[Daemon], file' = file, failed' = failed,
             step'[Daemon] = step[Daemon]
      PROVE  Supplied'
  <2>1. SUFFICES ASSUME failed = {} PROVE Supplied'
    BY <1>4 DEF Supplied
  <2>2. step[Daemon] \in {"ready", "save", "write"} => AListing(mapping[Daemon])'
    BY <1>3, <1>4, <2>1 DEF Supplied, AListing
  <2>3. file \in Records => AListing(file.mapping)'
    BY <1>3, <1>4, <2>1 DEF Supplied, AListing
  <2>4. QED
    BY <1>4, <2>1, <2>2, <2>3 DEF Supplied, AListing
<1>5. CASE CacheWorld \/ AddWatch
  BY <1>4, <1>5 DEF CacheWorld, Install, WriteXml, ThirtySeconds, AddWatch
<1>6. CASE Start(Daemon) \/ Reload
  <2>1. step'[Daemon] = "collect" /\ file' = file /\ failed' = failed /\ pm' = pm
        /\ step[Daemon] \in {"off", "ready"}
    BY <1>0, <1>6 DEF Start, Reload, Goes, CacheTypeOK
  <2>2. QED
    BY <2>1 DEF Supplied, AListing
<1>7. CASE Collect(Daemon)
  <2>1. step[Daemon] = "collect" /\ file' = file /\ failed' = failed /\ pm' = pm
        /\ step'[Daemon] \in {"refresh", "read"}
        /\ (file = Nil => step'[Daemon] = "refresh")
    BY <1>0, <1>7 DEF Collect, Goes, CacheTypeOK
  <2>2. file \in Records \cup {Nil, Torn}
    BY <1>0 DEF CacheTypeOK
  <2>3. QED
    BY <2>1, <2>2 DEF Supplied, AListing
<1>8. CASE Refresh(Daemon)
  <2>1. step[Daemon] = "refresh" /\ step'[Daemon] = "save" /\ file' = file /\ pm' = pm
    BY <1>0, <1>8 DEF Refresh, Goes, CacheTypeOK
  <2>2. failed' = {} => failed = {} /\ mapping'[Daemon] = Listing[pm]
    BY <1>0, <1>8 DEF Refresh, PmAnswers, PmFails, Prints, Fails, CacheTypeOK
  <2>3. QED
    BY <1>2, <2>1, <2>2 DEF Supplied, AListing
<1>9. CASE Read(Daemon)
  <2>1. step[Daemon] = "read" /\ step'[Daemon] = "ready" /\ file' = file /\ pm' = pm
    BY <1>0, <1>9 DEF Read, Goes, CacheTypeOK
  <2>2. failed' = {} => failed = {} /\ file \in Records /\ mapping'[Daemon] = file.mapping
    BY <1>0, <1>9, <2>1, CacheConstants DEF Read, Fails, CacheTypeOK, Supplied
  <2>3. QED
    BY <2>1, <2>2 DEF Supplied, AListing
<1>10. CASE Save(Daemon)
  <2>1. failed' = {} =>
          /\ step[Daemon] = "save" /\ step'[Daemon] = "write" /\ file' = Torn /\ pm' = pm
          /\ failed = {} /\ mapping' = mapping
    BY <1>0, <1>10 DEF Save, Goes, Fails, CacheTypeOK
  <2>2. QED
    BY <2>1, CacheConstants DEF Supplied, AListing
<1>11. CASE Write(Daemon)
  <2>1. failed' = {} =>
          /\ step[Daemon] = "write" /\ step'[Daemon] = "ready" /\ pm' = pm
          /\ failed = {} /\ mapping' = mapping
          /\ file' = [fp |-> fingerprint[Daemon], mapping |-> mapping[Daemon]]
    BY <1>0, <1>11 DEF Write, Goes, Lines, Fails, CacheTypeOK
  <2>2. failed' = {} => file' \in Records /\ file'.mapping = mapping[Daemon]
    BY <1>0, <2>1 DEF CacheTypeOK, Records
  <2>3. QED
    BY <2>1, <2>2, CacheConstants DEF Supplied, AListing
<1>12. ASSUME NEW p \in Pids, App(p) PROVE Supplied'
  <2>1. PICK u : GetPackage(Daemon, u)
    BY <1>12 DEF App
  <2>2. step[Daemon] = "ready" /\ pm' = pm /\ file' = file
    BY <2>1 DEF GetPackage
  <2>3. CASE Answered(Daemon, u)
    BY <1>4, <2>2, <2>3 DEF Answered
  <2>4. CASE Missed(Daemon, u)
    <3>1. step'[Daemon] = "save"
      BY <1>0, <2>4 DEF Missed, Goes, CacheTypeOK
    <3>2. failed' = {} => failed = {} /\ mapping'[Daemon] = Listing[pm]
      BY <1>0, <2>4 DEF Missed, MissAnswered, MissFailed, Prints, Fails, CacheTypeOK
    <3>3. QED
      BY <1>2, <2>2, <3>1, <3>2 DEF Supplied, AListing
  <2>5. QED
    BY <2>1, <2>3, <2>4 DEF GetPackage
<1>13. ASSUME UNCHANGED cacheVars PROVE Supplied'
  BY <1>4, <1>13 DEF cacheVars
<1>14. CASE World
  BY <1>13, <1>14 DEF World, Spawn, Die, Shift, Become, Moves
<1>15. CASE clear_pid_cache \/ Begin \/ Filtered \/ Answer \/ Return
  BY <1>13, <1>15 DEF clear_pid_cache, Begin, Filtered, Answer, Return
<1>16. ASSUME NEW p \in Pids,
              NotPopulated(p) \/ Cached(p) \/ SystemProcess(p) \/ Score(p) \/ Gone(p)
       PROVE  Supplied'
  BY <1>13, <1>16 DEF NotPopulated, Cached, SystemProcess, Score, Gone
<1>17. CASE UNCHANGED vars
  BY <1>13, <1>17 DEF vars
<1>18. QED
  BY <1>5, <1>6, <1>7, <1>8, <1>9, <1>10, <1>11, <1>12, <1>14, <1>15, <1>16, <1>17
     DEF Next, Resolve, Cache, CacheLoad

\* The program g is no app, by what pm listed up to now or by what could be read.
NoApp(p, g) ==
  LET u == UidOf[g] IN
  IF u = Nil THEN CmdOf[g] \notin SystemNames \/ p \in unread
  ELSE \E v \in 0..pm :
         \/ Listing[v][u] = Nil
         \/ Listing[v][u] \in Terminals /\ CmdOf[g] # Listing[v][u]

\* An empty verdict on one PID is one on a program that has run under it.
RightOf(p) == failed = {} /\ pid_cache[p] = "" => \E g \in been[p] : NoApp(p, g)

Right == \A p \in Pids : RightOf(p)

(* What leaves a PID's verdict alone, or drops it, keeps it right.          *)
LEMMA RightKept ==
  ASSUME NEW p \in Pids, RightOf(p), 0..pm \subseteq 0..pm', failed \subseteq failed',
         pid_cache'[p] = Nil \/ (pid_cache'[p] = pid_cache[p] /\ Remembered(p))
  PROVE  RightOf(p)'
<1>1. ASSUME NEW g, NoApp(p, g), Remembered(p) PROVE NoApp(p, g)'
  BY <1>1 DEF NoApp, Remembered
<1>2. QED
  BY <1>1, ResolverConstants DEF RightOf, Remembered

(* A failure is never forgotten.                                            *)
LEMMA FailedStays == ASSUME [CacheNext]_cacheVars PROVE failed \subseteq failed'
  BY DEF CacheNext, cacheVars, CacheWorld, CacheLoad, Install, WriteXml, ThirtySeconds,
         EditConf, AddWatch, Reload, Start, Quit, Collect, Refresh, PmAnswers, PmFails,
         Read, Save, Write, GetPackage, Answered, Missed, MissAnswered, MissFailed,
         Prints, Fails

(* An empty verdict just made on an app: from a listing, the answer for its *)
(* UID was nothing, or a terminal of which the process is a shell.          *)
LEMMA RightDecided ==
  ASSUME CacheTypeOK', Supplied', step'[Daemon] \in {"ready", "save"},
         NEW p \in Pids, NEW g \in Programs, UidOf[g] # Nil, NEW read \in BOOLEAN,
         pid_cache'[p] = AppVerdict(g, mapping'[Daemon][UidOf[g]], read),
         failed' = {}, pid_cache'[p] = ""
  PROVE  NoApp(p, g)'
<1>1. UidOf[g] \in AppUids
  BY ResolverConstants
<1>2. PICK v \in 0..pm' : mapping'[Daemon] = Listing[v]
  BY DEF Supplied, AListing
<1>3. PICK pkg : pkg = Listing[v][UidOf[g]]
  OBVIOUS
<1>4. pkg # ""
  <2>1. v \in Versions
    <3>1. pm' \in 0..MaxVersion /\ MaxVersion \in Nat
      BY CacheConstants DEF CacheTypeOK
    <3>2. v \in 0..pm'
      BY <1>2
    <3>3. v \in 0..MaxVersion
      BY <3>1, <3>2, WithinVersions
    <3>4. QED
      BY <3>3 DEF Versions
  <2>2. pkg \in Packages \cup {Nil}
    BY <1>1, <1>3, <2>1, CacheConstants DEF Mappings
  <2>3. QED
    BY <2>2, ResolverConstants
<1>5. pkg = Nil \/ (pkg \in Terminals /\ CmdOf[g] # pkg)
  BY <1>2, <1>3, <1>4 DEF AppVerdict
<1>6. QED
  BY <1>2, <1>3, <1>5 DEF NoApp

LEMMA RightStep ==
  ASSUME CacheInv, CacheInv', Supplied', ScanInv, Right, [Next]_vars
  PROVE  Right'
<1> SUFFICES ASSUME NEW p \in Pids PROVE RightOf(p)'
  BY DEF Right
<1>0. RightOf(p)
  BY DEF Right
<1>1. 0..pm \subseteq 0..pm' /\ failed \subseteq failed' /\ CacheTypeOK /\ CacheTypeOK'
  BY VersionsGrow, StepOfCache, FailedStays, Wider DEF CacheInv, ScanInv
<1>2. CASE pid_cache'[p] = Nil \/ (pid_cache'[p] = pid_cache[p] /\ Remembered(p))
  BY <1>0, <1>1, <1>2, RightKept
<1>3. CASE Decides(p)
  <2> SUFFICES ASSUME failed' = {}, pid_cache'[p] = ""
               PROVE  \E g \in been'[p] : NoApp(p, g)'
    BY DEF RightOf, NoApp
  <2>1. PICK g \in Programs, read \in BOOLEAN :
          /\ g \in been'[p] /\ (read \/ p \in unread')
          /\ \/ /\ UidOf[g] # Nil /\ step'[Daemon] \in {"ready", "save"}
                /\ pid_cache'[p] = AppVerdict(g, mapping'[Daemon][UidOf[g]], read)
             \/ /\ UidOf[g] = Nil
                /\ pid_cache'[p] = IF read /\ CmdOf[g] \in SystemNames THEN CmdOf[g] ELSE ""
    BY <1>3, ProcessFields DEF Decides
  <2>2. CASE UidOf[g] = Nil
    BY <2>1, <2>2, ResolverConstants DEF NoApp
  <2>3. CASE UidOf[g] # Nil
    BY <1>1, <2>1, <2>3, RightDecided
  <2>4. QED
    BY <2>1, <2>2, <2>3
<1>4. QED
  BY <1>1, <1>2, <1>3, VerdictChange

----------------------------------------------------------------------------
(* The selection.  While no process changes, the scan has kept just the     *)
(* candidates it has passed, and the one pass keeps the best of those it    *)
(* has scored: it takes the PIDs in descending order, and stops only where  *)
(* whatever is left may be passed over.                                     *)

\* What the early stop allows: q is not better than p for what the code promises.
Excused(p, q) == q < p /\ procs[p].oom <= 0 /\ ~LowPriority(pid_cache[p])

Accepted(p) == Populated(p) /\ pid_cache[p] # Nil /\ Admit(pid_cache[p])

Stops == min_oom <= 0 /\ ~best_is_low_prio

\* best_pid is the best of those that have been scored.
Leads ==
  /\ best_pid \in filtered \ todo
  /\ min_oom = procs[best_pid].oom /\ min_oom # Nil
  /\ best_is_low_prio = LowPriority(pid_cache[best_pid])
  /\ \A q \in todo : q < best_pid
  /\ todo # {} => ~Stops
  /\ \A q \in filtered \ (todo \cup {best_pid}) :
       Better(best_pid, q) \/ Excused(best_pid, q)

Ranked == IF best_pid = Nil THEN min_oom = Nil /\ todo = filtered ELSE Leads

SelectInv ==
  still =>
    /\ pc # "idle" => v1_pids = OnTop
    /\ pc = "filter" => \A p \in v1_pids \ todo : p \in filtered <=> Accepted(p)
    /\ pc \in {"select", "done"} => filtered = Candidates
    /\ pc = "select" => Ranked

LEMMA PidsAreNumbers == \A p \in Pids : p \in Nat
  BY ResolverConstantsOK DEF ResolverConstantsOK

LEMMA ScoresAreNumbers == \A o \in Scores : o \in Int
  BY ResolverConstantsOK DEF ResolverConstantsOK

(* The order of the candidates is transitive.                               *)
LEMMA BetterTransitive ==
  ASSUME NEW p \in Nat, NEW q \in Nat, NEW r \in Nat,
         procs[p].oom \in Int, procs[q].oom \in Int, procs[r].oom \in Int,
         Better(p, q), Better(q, r)
  PROVE  Better(p, r)
<1> DEFINE lp == LowPriority(pid_cache[p])
           lq == LowPriority(pid_cache[q])
           lr == LowPriority(pid_cache[r])
<1>1. lp \in BOOLEAN /\ lq \in BOOLEAN /\ lr \in BOOLEAN
  BY DEF LowPriority
<1>2. \/ procs[p].oom < procs[q].oom
      \/ procs[p].oom = procs[q].oom /\ ~lp /\ lq
      \/ procs[p].oom = procs[q].oom /\ lp = lq /\ p > q
  BY DEF Better
<1>3. \/ procs[q].oom < procs[r].oom
      \/ procs[q].oom = procs[r].oom /\ ~lq /\ lr
      \/ procs[q].oom = procs[r].oom /\ lq = lr /\ q > r
  BY DEF Better
<1> HIDE DEF lp, lq, lr
<1>4. \/ procs[p].oom < procs[r].oom
      \/ procs[p].oom = procs[r].oom /\ ~lp /\ lr
      \/ procs[p].oom = procs[r].oom /\ lp = lr /\ p > r
  BY <1>1, <1>2, <1>3
<1>5. QED
  BY <1>4 DEF Better, lp, lq, lr

(* Scoring one more PID keeps the best.                                     *)
LEMMA ScoreRanks ==
  ASSUME ScanInv, pc = "select", filtered = Candidates, Ranked, NEW p \in Pids, Score(p)
  PROVE  Ranked'
<1>0. ResolverTypeOK /\ todo \subseteq filtered /\ filtered \subseteq Pids
  BY DEF ScanInv, Where, ResolverTypeOK
<1>1. p \in todo /\ \A q \in todo : q <= p
  BY <1>0, HighestOne DEF Score, Next1, ResolverTypeOK
<1>2. /\ UNCHANGED <<procs, pid_cache, filtered>>
      /\ todo' = IF Stops' THEN {} ELSE todo \ {p}
  BY DEF Score, world, verdicts, Stops
<1>3. procs[p] \in Processes /\ procs[p].oom \in Int /\ p \in Nat
  BY <1>0, ProcessFields, ScoresAreNumbers, PidsAreNumbers DEF Score, ResolverTypeOK
<1>4. \A q \in filtered : q \in Nat /\ procs[q].oom \in Int
  BY <1>0, ProcessFields, ScoresAreNumbers, PidsAreNumbers
     DEF Candidates, Populated, ResolverTypeOK
<1>5. LowPriority(pid_cache[p]) \in BOOLEAN /\ best_is_low_prio \in BOOLEAN
  BY <1>0 DEF LowPriority, ResolverTypeOK
<1>6. \A q \in todo \ {p} : q < p
  <2>1. \A q \in todo : q \in Nat
    BY <1>0, PidsAreNumbers
  <2>2. QED
    BY <1>1, <1>3, <2>1
<1>7. todo' \subseteq todo \ {p}
  BY <1>2
<1>8. CASE Beats(p)
  <2>1. /\ best_pid' = p /\ min_oom' = procs[p].oom
        /\ best_is_low_prio' = LowPriority(pid_cache[p])
    BY <1>8 DEF Score
  <2>2. best_pid' # Nil
    BY <2>1, ResolverConstants
  <2>3. ASSUME NEW q \in todo \ {p}, q \notin todo' PROVE Excused(p, q)
    BY <1>2, <1>6, <2>1, <2>3 DEF Stops, Excused
  <2>4. ASSUME NEW q \in filtered \ todo PROVE Better(p, q)
    <3>1. best_pid # Nil /\ Leads
      BY <2>4 DEF Ranked
    <3>2. ~(procs[best_pid].oom <= 0 /\ ~LowPriority(pid_cache[best_pid])) /\ p < best_pid
      BY <1>1, <3>1 DEF Leads, Stops
    <3>3. best_pid \in Nat /\ procs[best_pid].oom \in Int
      BY <1>4, <3>1 DEF Leads
    <3>4. Better(p, best_pid)
      BY <1>3, <1>8, <3>1, <3>2, <3>3 DEF Beats, Better, Leads
    <3>5. q = best_pid \/ Better(best_pid, q)
      BY <2>4, <3>1, <3>2 DEF Leads, Excused
    <3>6. QED
      BY <1>3, <1>4, <2>4, <3>3, <3>4, <3>5, BetterTransitive
  <2>5. Leads'
    <3>1. best_pid' \in filtered' \ todo' /\ min_oom' # Nil
      BY <1>0, <1>1, <1>2, <1>3, <1>7, <2>1, ResolverConstantsOK DEF ResolverConstantsOK
    <3>2. /\ min_oom' = procs'[best_pid'].oom
          /\ best_is_low_prio' = LowPriority(pid_cache[best_pid])'
      BY <1>2, <2>1 DEF LowPriority
    <3>3. (\A q \in todo' : q < best_pid') /\ (todo' # {} => ~Stops')
      BY <1>2, <1>6, <1>7, <2>1
    <3>4. ASSUME NEW q \in filtered' \ (todo' \cup {best_pid'})
          PROVE  (Better(best_pid, q) \/ Excused(best_pid, q))'
      <4>1. Better(p, q) \/ Excused(p, q)
        BY <1>2, <2>1, <2>3, <2>4, <3>4
      <4>2. QED
        BY <1>2, <2>1, <4>1 DEF Better, Excused, LowPriority
    <3>5. QED
      BY <3>1, <3>2, <3>3, <3>4 DEF Leads, Better, Excused, Stops, LowPriority
  <2>6. QED
    BY <2>2, <2>5 DEF Ranked
<1>9. CASE ~Beats(p)
  <2>1. UNCHANGED choice /\ min_oom # Nil
    BY <1>9 DEF Score, Beats
  <2>2. best_pid # Nil /\ Leads
    BY <2>1 DEF Ranked
  <2>3. todo' = todo \ {p}
    BY <1>1, <1>2, <2>1, <2>2 DEF Leads, Stops, choice
  <2>4. Better(best_pid, p)
    <3>1. /\ best_pid \in Nat /\ procs[best_pid].oom \in Int /\ p < best_pid
          /\ min_oom = procs[best_pid].oom
          /\ best_is_low_prio = LowPriority(pid_cache[best_pid])
      BY <1>1, <1>4, <2>2 DEF Leads
    <3>2. /\ ~(procs[p].oom < min_oom)
          /\ procs[p].oom = min_oom
               => ~(~LowPriority(pid_cache[p]) /\ best_is_low_prio)
      BY <1>9 DEF Beats
    <3>3. CASE procs[best_pid].oom < procs[p].oom
      BY <3>3 DEF Better
    <3>4. CASE procs[best_pid].oom = procs[p].oom
      BY <1>3, <1>5, <3>1, <3>2, <3>4 DEF Better
    <3>5. QED
      BY <1>3, <3>1, <3>2, <3>3, <3>4
  <2>5. Leads'
    BY <1>0, <1>1, <1>2, <2>1, <2>2, <2>3, <2>4 DEF Leads, Better, Excused, Stops, choice
  <2>6. QED
    BY <2>1, <2>2, <2>5 DEF Ranked, choice
<1>10. QED
  BY <1>8, <1>9

(* What is known of the scan while no process changes.                      *)
LEMMA SelectStep ==
  ASSUME ScanInv, SelectInv, [Next]_vars
  PROVE  SelectInv'
<1> USE DEF world, verdicts, scan, choice, resolver
<1>0. ResolverTypeOK /\ Where
  BY DEF ScanInv
<1>1. CASE World
  BY <1>1 DEF World, Spawn, Die, Shift, Become, Moves, SelectInv
<1>2. ASSUME UNCHANGED <<world, resolver>> PROVE SelectInv'
  <2>1. (OnTop = OnTop') /\ (Candidates = Candidates')
    BY <1>2 DEF OnTop, Candidates, Populated, Admit
  <2>2. Ranked => Ranked'
    BY <1>2 DEF Ranked, Leads, Stops, Better, Excused, LowPriority
  <2>3. \A p : Accepted(p) <=> Accepted(p)'
    BY <1>2 DEF Accepted, Populated, Admit
  <2>4. QED
    BY <1>2, <2>1, <2>2, <2>3 DEF SelectInv
<1>3. CASE clear_pid_cache
  BY <1>3 DEF clear_pid_cache, SelectInv
<1>4. CASE Begin
  BY <1>4 DEF Begin, SelectInv, OnTop
<1>5. ASSUME NEW p \in Pids, NotPopulated(p) \/ Cached(p) \/ App(p) \/ SystemProcess(p)
      PROVE  SelectInv'
  <2>1. p \in todo /\ pc = "filter" /\ pc' = "filter" /\ todo' = todo \ {p}
        /\ UNCHANGED <<procs, v1_pids, still>>
    <3>1. Filtering(p)
      BY <1>5 DEF NotPopulated, Cached, App, SystemProcess, Decide
    <3>2. p \in todo
      BY <1>0, <3>1, HighestOne DEF Filtering, Next1, ResolverTypeOK
    <3>3. QED
      BY <3>1, <3>2 DEF Filtering
  <2>2. p \notin filtered
    BY <1>0, <2>1 DEF Where
  <2>3. \A q \in Pids \ {p} : pid_cache'[q] = pid_cache[q] /\ (q \in filtered' <=> q \in filtered)
    BY <1>0, <1>5
       DEF NotPopulated, Cached, App, SystemProcess, Decide, ResolverTypeOK
  <2>4. p \in filtered' <=> Accepted(p)'
    <3>1. CASE NotPopulated(p)
      BY <2>1, <2>2, <3>1 DEF NotPopulated, Accepted, Populated
    <3>2. CASE Cached(p)
      BY <2>1, <2>2, <3>2 DEF Cached, Accepted, Populated, Admit
    <3>3. ASSUME NEW verdict, verdict # Nil, Decide(p, verdict)
          PROVE  p \in filtered' <=> Accepted(p)'
      <4>1. pid_cache'[p] = verdict /\ (p \in filtered' <=> Admit(verdict)) /\ Populated(p)
        BY <1>0, <2>2, <3>3 DEF Decide, ResolverTypeOK
      <4>2. QED
        BY <2>1, <3>3, <4>1 DEF Accepted, Populated, Admit
    <3>4. CASE App(p)
      <4>1. PICK u : \E read \in BOOLEAN :
              Decide(p, AppVerdict(procs[p].prog, mapping'[Daemon][u], read))
        BY <3>4 DEF App
      <4>2. \A read : AppVerdict(procs[p].prog, mapping'[Daemon][u], read) # Nil
        BY ResolverConstants DEF AppVerdict
      <4>3. QED
        BY <3>3, <4>1, <4>2
    <3>5. CASE SystemProcess(p)
      <4>1. CmdOf[procs[p].prog] # Nil
        BY <1>0, <3>5, ProcessFields, ResolverConstants
           DEF SystemProcess, Populated, ResolverTypeOK
      <4>2. QED
        BY <3>3, <3>5, <4>1, ResolverConstants DEF SystemProcess
    <3>6. QED
      BY <1>5, <3>1, <3>2, <3>4, <3>5
  <2>5. ASSUME NEW q \in v1_pids \ todo', SelectInv, still
        PROVE  q \in filtered' <=> Accepted(q)'
    <3>1. CASE q = p
      BY <2>4, <3>1
    <3>2. CASE q # p
      <4>1. q \in Pids \ {p} /\ (q \in filtered <=> Accepted(q))
        BY <1>0, <2>1, <2>5, <3>2 DEF SelectInv, ResolverTypeOK
      <4>2. QED
        BY <2>1, <2>3, <4>1 DEF Accepted, Populated, Admit
    <3>3. QED
      BY <3>1, <3>2
  <2>6. QED
    BY <2>1, <2>5 DEF SelectInv, OnTop
<1>6. CASE Filtered
  <2>1. ASSUME still PROVE filtered = Candidates
    <3>1. v1_pids = OnTop /\ \A p \in v1_pids : p \in filtered <=> Accepted(p)
      BY <1>6, <2>1 DEF SelectInv, Filtered
    <3>2. QED
      BY <1>0, <3>1 DEF Candidates, Accepted, ResolverTypeOK
  <2>2. Candidates' = Candidates /\ OnTop' = OnTop
    BY <1>6 DEF Filtered, Candidates, OnTop, Populated, Admit
  <2>3. QED
    BY <1>6, <2>1, <2>2 DEF Filtered, SelectInv, Ranked
<1>7. ASSUME NEW p \in Pids, Score(p) PROVE SelectInv'
  <2>1. Candidates' = Candidates /\ OnTop' = OnTop
    BY <1>7 DEF Score, Candidates, OnTop, Populated, Admit
  <2>2. pc = "select" /\ UNCHANGED <<pc, v1_pids, filtered, still>>
    BY <1>7 DEF Score
  <2>3. still => Ranked'
    BY <1>7, <2>2, ScoreRanks DEF SelectInv
  <2>4. QED
    BY <2>1, <2>2, <2>3 DEF SelectInv
<1>8. ASSUME NEW p \in Pids, Gone(p) PROVE SelectInv'
  <2>1. p \in filtered /\ procs[p] = Nil /\ still' = still /\ pc = "select"
    BY <1>0, <1>8, HighestOne DEF Gone, Next1, Where, ResolverTypeOK
  <2>2. ~still
    BY <2>1 DEF SelectInv, Candidates, Populated
  <2>3. QED
    BY <2>1, <2>2 DEF SelectInv
<1>9. CASE Answer
  <2>1. Candidates' = Candidates /\ OnTop' = OnTop
    BY <1>9 DEF Answer, Candidates, OnTop, Populated, Admit
  <2>2. QED
    BY <1>9, <2>1 DEF Answer, SelectInv
<1>10. CASE Return
  BY <1>10 DEF Return, SelectInv
<1>11. CASE Cache \/ UNCHANGED vars
  BY <1>2, <1>11 DEF Cache, vars
<1>12. QED
  BY <1>1, <1>3, <1>4, <1>5, <1>6, <1>7, <1>8, <1>9, <1>10, <1>11 DEF Next, Resolve

(* The answer is the best of the candidates.                                *)
LEMMA BestStep ==
  ASSUME ScanInv, SelectInv, BestAnswered, [Next]_vars
  PROVE  BestAnswered'
<1> USE DEF world, verdicts, scan, choice, resolver
<1>1. CASE Answer
  <2>1. SUFFICES ASSUME still
                 PROVE  IF Candidates = {} THEN answer' = Nil
                        ELSE \E p \in Candidates :
                               /\ answer' = pid_cache[p]
                               /\ \A q \in Candidates \ {p} : Better(p, q) \/ Excused(p, q)
    BY <1>1 DEF Answer, BestAnswered, Candidates, OnTop, Populated, Admit, Better,
                Excused, LowPriority
  <2>2. pc = "select" /\ todo = {} /\ Ranked /\ filtered = Candidates
    BY <1>1, <2>1 DEF Answer, SelectInv
  <2>3. CASE best_pid = Nil
    BY <1>1, <2>2, <2>3 DEF Answer, Ranked
  <2>4. CASE best_pid # Nil
    <3>1. Leads /\ best_pid \in Candidates
      BY <2>2, <2>4 DEF Ranked, Leads
    <3>2. answer' = pid_cache[best_pid]
      BY <1>1, <2>4, <3>1 DEF Answer, Candidates, Populated
    <3>3. \A q \in Candidates \ {best_pid} : Better(best_pid, q) \/ Excused(best_pid, q)
      BY <2>2, <3>1 DEF Leads
    <3>4. QED
      BY <3>1, <3>2, <3>3
  <2>5. QED
    BY <2>3, <2>4
<1>2. CASE Cache \/ UNCHANGED vars
  <2>1. UNCHANGED <<world, resolver>>
    BY <1>2 DEF Cache, vars
  <2>2. QED
    BY <2>1 DEF BestAnswered, Candidates, OnTop, Populated, Admit, Better, LowPriority
<1>3. CASE World
  BY <1>3 DEF World, Spawn, Die, Shift, Become, Moves, BestAnswered
<1>4. CASE clear_pid_cache \/ Begin \/ Filtered \/ Return
  BY <1>4 DEF clear_pid_cache, Begin, Filtered, Return, BestAnswered
<1>5. ASSUME NEW p \in Pids,
             \/ NotPopulated(p) \/ Cached(p) \/ App(p) \/ SystemProcess(p)
             \/ Score(p) \/ Gone(p)
      PROVE  pc' # "done"
  BY <1>5 DEF NotPopulated, Cached, App, SystemProcess, Decide, Filtering, Score, Gone
<1>6. QED
  BY <1>1, <1>2, <1>3, <1>4, <1>5 DEF Next, Resolve, BestAnswered

----------------------------------------------------------------------------
(* The invariant of every behaviour.                                        *)

ResolverInv ==
  /\ CacheInv /\ ScanInv /\ Sourced /\ VerdictsTrue /\ Supplied /\ Right
  /\ SelectInv /\ BestAnswered

LEMMA ResolverInitially == Init => ResolverInv
<1> SUFFICES ASSUME Init PROVE ResolverInv
  OBVIOUS
<1>1. CacheInv /\ ScanInv
  BY CacheInitially, ScanInitially DEF Init
<1>2. Sourced
  <2>1. pm = 0 /\ Daemon \in Procs /\ mapping[Daemon] = Nothing
    BY CacheConstants DEF Init, CacheInit
  <2>2. file \in Records => file.mapping = Listing[pm]
    BY <2>1, CacheConstants DEF Init, CacheInit
  <2>3. QED
    BY <2>1, <2>2, ListedNow DEF Sourced
<1>3. VerdictsTrue /\ SelectInv /\ BestAnswered
  BY DEF Init, VerdictsTrue, SelectInv, BestAnswered
<1>4. Supplied
  <2>1. pm = 0 /\ Daemon \in Procs /\ step[Daemon] = "off"
    BY CacheConstants DEF Init, CacheInit
  <2>2. file \in Records => file.mapping = Listing[0]
    BY CacheConstants DEF Init, CacheInit
  <2>3. file # Torn
    <3>1. [fp |-> 0, mapping |-> Listing[0]] \in Records
      BY CacheConstants DEF Init, CacheInit, Records
    <3>2. QED
      BY <3>1, CacheConstants DEF Init, CacheInit
  <2>4. 0 \in 0..pm
    BY <2>1
  <2>5. QED
    BY <2>1, <2>2, <2>3, <2>4 DEF Supplied, AListing
<1>5. Right
  BY ResolverConstants DEF Init, Right, RightOf
<1>6. QED
  BY <1>1, <1>2, <1>3, <1>4, <1>5 DEF ResolverInv

LEMMA ResolverInvariant == Spec => []ResolverInv
<1>1. Init => ResolverInv
  BY ResolverInitially
<1>2. ASSUME ResolverInv, [Next]_vars PROVE ResolverInv'
  <2>1. /\ CacheInv /\ ScanInv /\ Sourced /\ VerdictsTrue /\ Supplied /\ Right
        /\ SelectInv /\ BestAnswered
    BY <1>2 DEF ResolverInv
  <2>2. CacheInv' /\ CacheTypeOK'
    <3>1. [CacheNext]_cacheVars
      BY <1>2, <2>1, StepOfCache DEF ScanInv
    <3>2. CacheInv'
      BY <2>1, <3>1, CacheStep
    <3>3. QED
      BY <3>2 DEF CacheInv
  <2>3. ScanInv'
    BY <1>2, <2>1, <2>2, ScanStep
  <2>4. Sourced'
    BY <1>2, <2>1, SourcedStep DEF ScanInv
  <2>5. VerdictsTrue'
    BY <1>2, <2>1, <2>2, <2>4, VerdictStep
  <2>6. SelectInv' /\ BestAnswered'
    BY <1>2, <2>1, SelectStep, BestStep
  <2>7. Supplied' /\ Right'
    <3>1. Supplied'
      BY <1>2, <2>1, SuppliedStep DEF ScanInv
    <3>2. QED
      BY <1>2, <2>1, <2>2, <3>1, RightStep
  <2>8. QED
    BY <2>2, <2>3, <2>4, <2>5, <2>6, <2>7 DEF ResolverInv
<1>3. QED
  BY <1>1, <1>2, PTL DEF Spec

(* The type invariant of the resolver and its processes.                    *)
THEOREM ResolverTypeCorrect == Spec => []ResolverTypeOK
<1>1. ResolverInv => ResolverTypeOK
  BY DEF ResolverInv, ScanInv
<1>2. QED
  BY <1>1, ResolverInvariant, PTL

(* What select_best_by_oom (resolver.rs:170-216) answers, when no process   *)
(* changes meanwhile, is the best candidate, for any number of them.        *)
THEOREM BestIsAnswered == Spec => []BestAnswered
<1>1. ResolverInv => BestAnswered
  BY DEF ResolverInv
<1>2. QED
  BY <1>1, ResolverInvariant, PTL

(* However the processes move, what resolve() answers has passed the        *)
(* blocklist and belongs to one of the PIDs it read.                        *)
THEOREM AnswerIsAdmitted == Spec => []AnswerAdmitted
<1>1. ResolverInv => AnswerAdmitted
  BY DEF ResolverInv, ScanInv, Named, Passed, AnswerAdmitted, Admit, ResolverTypeOK
<1>2. QED
  BY <1>1, ResolverInvariant, PTL

(* A cached verdict (resolver.rs:60-110) names a program that has run under *)
(* the PID since the cache was cleared, and no other, across exec, command  *)
(* lines that cannot be read, refreshes and failures of the UID cache.      *)
THEOREM VerdictsAreTrue == Spec => []VerdictsTrue
<1>1. ResolverInv => VerdictsTrue
  BY DEF ResolverInv
<1>2. QED
  BY <1>1, ResolverInvariant, PTL

(* While no command and no access to the cache's file has failed, resolve() *)
(* (resolver.rs:54-107) keeps an empty verdict only for what pm listed no   *)
(* package of, a terminal's shell, or a command line that was not readable. *)
THEOREM DismissalsAreRight == Spec => []DismissedRightly
<1>1. ResolverInv => DismissedRightly
  BY DEF ResolverInv, Right, RightOf, NoApp, DismissedRightly
<1>2. QED
  BY <1>1, ResolverInvariant, PTL

(* The cache inside the resolver is the cache of UidCache: resolve() and the *)
(* processes it looks at do to it only what cache.rs offers.  Whatever       *)
(* UidCache promises of every behaviour holds of this one.                   *)
THEOREM CacheInsideRefined == Spec => CacheSpec
<1>1. Init => CacheInit
  BY DEF Init
<1>2. ResolverInv => ResolverTypeOK
  BY DEF ResolverInv, ScanInv
<1>3. ResolverTypeOK /\ [Next]_vars => [CacheNext]_cacheVars
  BY StepOfCache
<1>4. QED
  BY <1>1, <1>2, <1>3, ResolverInvariant, PTL DEF Spec, CacheSpec

(* Hence, while resolutions go on, no version of packages.xml is overlooked, *)
(* no fingerprint vouches for an older map, and no UID that pm lists is      *)
(* forgotten while no command fails unnoticed and no write is cut short.     *)
COROLLARY CachePromisesInside ==
  Spec => /\ [](FileFresh /\ CacheFresh /\ ChangeNoticed /\ OnlyFailuresAddUp)
          /\ KnownStaysKnown
<1>1. Spec => CacheSpec
  BY CacheInsideRefined
<1>2. QED
  BY <1>1, FileStaysFresh, DaemonStaysFresh, NoVersionOverlooked, MissesOfFailures,
     KnownUidsStay, PTL
=============================================================================
