------------------------------ MODULE Resolver ------------------------------
(***************************************************************************)
(* src/src/resolver.rs inside the daemon: resolve() reads the top-app      *)
(* cpuset, filters its PIDs one after the other, gives each survivor a     *)
(* score and answers the best one's package.  Processes start, die, move   *)
(* and become other programs between any two of its reads.  The package of *)
(* an application comes from the UidCache of the same process; a verdict   *)
(* on a PID is kept in pid_cache until the daemon clears it.               *)
(*                                                                         *)
(* The reads about one PID in one pass (group, uid, command line) count as *)
(* one step.                                                               *)
(***************************************************************************)
EXTENDS UidCache, FiniteSets

CONSTANTS
  Pids,         \* process ids
  Programs,     \* what a process may run
  UidOf,        \* program -> application UID, or Nil for a UID below 10000
  CmdOf,        \* program -> first word of its command line
  Becomes,      \* what a live process may turn into: a fork of a terminal
                \* its shell, a fork of the zygote an application
  FirstScreens, \* the processes at start: a set of functions from Pids
  Arrivals,     \* what may start later
  Scores,       \* values of oom_score_adj
  Blocked,      \* packages that Blocklist::is_blocked accepts
  Terminals,    \* packages that TerminalApps::is_terminal accepts
  SystemNames,  \* names starting with com.android. or com.google.
  Launcher,     \* Resolver::launcher_pkg
  MaxMoves      \* bound: changes of the processes in a behaviour

Processes == [prog : Programs, oom : Scores, top : BOOLEAN, populated : BOOLEAN]

ASSUME ResolverConstantsOK ==
  /\ Pids \subseteq Nat /\ IsFiniteSet(Pids)
  /\ Scores \subseteq Int /\ MaxMoves \in Nat
  /\ UidOf \in [Programs -> AppUids \cup {Nil}]
  /\ CmdOf \in [Programs -> Packages]
  /\ Becomes \subseteq Programs \X Programs
  /\ FirstScreens \subseteq [Pids -> Processes \cup {Nil}]
  /\ Arrivals \subseteq Processes
  /\ Blocked \subseteq Packages /\ Terminals \subseteq Packages
  /\ SystemNames \subseteq Packages /\ Launcher \in Packages \cup {Nil}
  /\ "" \notin Packages /\ Nil # "" /\ Nil \notin Processes /\ Nil \notin Int

VARIABLES
  procs, moves,                      \* the processes
  pid_cache,                         \* package, "" for none, Nil if not cached
  \* history, since pid_cache was cleared: the programs that have run under each
  \* PID, and the PIDs whose command line was asked for and could not be read
  been, unread,
  pc, v1_pids, todo, filtered,       \* resolve(): where it is, its locals
  best_pid, min_oom, best_is_low_prio,
  answer,                            \* what it returned
  still                              \* history: no process changed meanwhile

world    == <<procs, moves, been>>
verdicts == <<pid_cache, unread>>
choice   == <<best_pid, min_oom, best_is_low_prio>>
scan     == <<v1_pids, todo, filtered>>
resolver == <<verdicts, pc, scan, choice, answer, still>>
vars     == <<cacheVars, world, resolver>>

Verdicts == Packages \cup {"", Nil}

ResolverTypeOK ==
  /\ procs \in [Pids -> Processes \cup {Nil}]
  /\ moves \in 0..MaxMoves /\ been \in [Pids -> SUBSET Programs]
  /\ pid_cache \in [Pids -> Verdicts] /\ unread \subseteq Pids
  /\ pc \in {"idle", "filter", "select", "done"}
  /\ v1_pids \subseteq Pids /\ todo \subseteq v1_pids /\ filtered \subseteq v1_pids
  /\ best_pid \in filtered \cup {Nil}
  /\ min_oom \in Scores \cup {Nil} /\ best_is_low_prio \in BOOLEAN
  /\ answer \in Packages \cup {Nil} /\ still \in BOOLEAN

NoChoice == best_pid = Nil /\ min_oom = Nil /\ best_is_low_prio = TRUE

Running(p) == IF procs[p] = Nil THEN {} ELSE {procs[p].prog}

Init ==
  /\ CacheInit
  /\ procs \in FirstScreens /\ moves = 0
  /\ pid_cache = [p \in Pids |-> Nil]
  /\ been = [p \in Pids |-> Running(p)] /\ unread = {}
  /\ pc = "idle" /\ v1_pids = {} /\ todo = {} /\ filtered = {}
  /\ NoChoice
  /\ answer = Nil /\ still = TRUE

----------------------------------------------------------------------------
(* The processes.                                                           *)

Moves(p, new) ==
  /\ moves < MaxMoves /\ moves' = moves + 1
  /\ procs' = [procs EXCEPT ![p] = new]
  /\ been' = [been EXCEPT ![p] = @ \cup Running(p)']
  /\ still' = FALSE
  /\ UNCHANGED <<cacheVars, verdicts, pc, scan, choice, answer>>

(* A process of an application runs when it is installed.  Some UIDs are    *)
(* never listed: those of isolated processes.                               *)
NotInstalled ==
  {u \in AppUids : Listing[pm][u] = Nil /\ \E v \in Versions : Listing[v][u] # Nil}

Spawn(p, new) ==
  /\ procs[p] = Nil /\ new \in Arrivals /\ UidOf[new.prog] \notin NotInstalled
  /\ Moves(p, new)

Die(p) == procs[p] # Nil /\ Moves(p, Nil)

(* To or from the background, another score, an emptied or frozen group.    *)
Shift(p, oom, top, populated) ==
  /\ procs[p] # Nil
  /\ Moves(p, [prog |-> procs[p].prog, oom |-> oom, top |-> top,
               populated |-> populated])

(* exec, or the change of user and name after a fork.                       *)
Become(p, g) ==
  /\ procs[p] # Nil /\ <<procs[p].prog, g>> \in Becomes
  /\ UidOf[g] \notin NotInstalled
  /\ Moves(p, [procs[p] EXCEPT !.prog = g])

----------------------------------------------------------------------------
(* resolve(), 1: the PIDs of /dev/cpuset/top-app/cgroup.procs, taken in     *)
(* descending order.                                                        *)

OnTop == {p \in Pids : procs[p] # Nil /\ procs[p].top}

Begin ==
  /\ pc = "idle" /\ step[Daemon] = "ready"
  /\ v1_pids' = OnTop /\ todo' = OnTop /\ filtered' = {}
  /\ pc' = "filter" /\ answer' = Nil /\ still' = TRUE
  /\ UNCHANGED <<cacheVars, world, verdicts, choice>>

Highest(S) == CHOOSE p \in S : \A q \in S : q <= p

Next1(S, p) == S # {} /\ p = Highest(S)

----------------------------------------------------------------------------
(* 2: group, cached verdict or identity, blocklist.                         *)

\* Mutant: the blocklist applies to verdicts when they are found only.
AdmitCached(verdict) == verdict # ""

Admit(verdict) == verdict # "" /\ verdict \notin Blocked

Populated(p) == procs[p] # Nil /\ procs[p].populated

Filtering(p) ==
  /\ pc = "filter" /\ step[Daemon] = "ready" /\ Next1(todo, p)
  /\ todo' = todo \ {p}
  /\ UNCHANGED <<world, v1_pids, pc, choice, answer, still>>

NotPopulated(p) ==
  /\ Filtering(p) /\ ~Populated(p)
  /\ UNCHANGED <<cacheVars, verdicts, filtered>>

Cached(p) ==
  /\ Filtering(p) /\ Populated(p) /\ pid_cache[p] # Nil
  /\ filtered' = IF Admit(pid_cache[p]) THEN filtered \cup {p} ELSE filtered
  /\ UNCHANGED <<cacheVars, verdicts>>

Decide(p, verdict) ==
  /\ Filtering(p) /\ Populated(p) /\ pid_cache[p] = Nil
  /\ pid_cache' = [pid_cache EXCEPT ![p] = verdict]
  /\ filtered' = IF Admit(verdict) THEN filtered \cup {p} ELSE filtered

(* The command line, asked for where it is needed: it can be read or not.   *)
Reading(p, needed, read) ==
  /\ read \/ needed
  /\ unread' = IF read THEN unread ELSE unread \cup {p}

\* Mutant: a terminal's package is taken whatever its process is called.
AppVerdictByUid(prog, pkg, read) == IF pkg = Nil THEN "" ELSE pkg

\* Mutant: a terminal is never taken.
AppVerdictNoTerminal(prog, pkg, read) ==
  IF pkg = Nil \/ pkg \in Terminals THEN "" ELSE pkg

(* An unknown UID, or a terminal's process that is seen not to be the app.  *)
AppVerdict(prog, pkg, read) ==
  IF pkg = Nil \/ (pkg \in Terminals /\ read /\ CmdOf[prog] # pkg) THEN "" ELSE pkg

App(p) ==
  /\ pc = "filter" /\ Next1(todo, p) /\ Populated(p)
  /\ LET prog == procs[p].prog
         u == UidOf[prog] IN
     /\ u # Nil
     /\ GetPackage(Daemon, u)
     /\ \E read \in BOOLEAN :
          /\ Decide(p, AppVerdict(prog, mapping'[Daemon][u], read))
          /\ Reading(p, mapping'[Daemon][u] \in Terminals, read)

SystemProcess(p) ==
  /\ pc = "filter" /\ Next1(todo, p) /\ Populated(p)
  /\ LET prog == procs[p].prog IN
     /\ UidOf[prog] = Nil
     /\ \E read \in BOOLEAN :
          /\ Decide(p, IF read /\ CmdOf[prog] \in SystemNames THEN CmdOf[prog] ELSE "")
          /\ Reading(p, TRUE, read)
  /\ UNCHANGED cacheVars

\* Mutant: every PID on top is scored.
FilteredAll ==
  /\ pc = "filter" /\ step[Daemon] = "ready" /\ todo = {}
  /\ todo' = v1_pids /\ pc' = "select"
  /\ best_pid' = Nil /\ min_oom' = Nil /\ best_is_low_prio' = TRUE
  /\ UNCHANGED <<cacheVars, world, verdicts, v1_pids, filtered, answer, still>>

Filtered ==
  /\ pc = "filter" /\ step[Daemon] = "ready" /\ todo = {}
  /\ todo' = filtered /\ pc' = "select"
  /\ best_pid' = Nil /\ min_oom' = Nil /\ best_is_low_prio' = TRUE
  /\ UNCHANGED <<cacheVars, world, verdicts, v1_pids, filtered, answer, still>>

----------------------------------------------------------------------------
(* 3: select_best_by_oom.                                                   *)

LowPriority(pkg) == pkg \in Terminals \/ pkg = Launcher

\* Mutant: an app does not take precedence over a launcher of equal score.
BeatsByPid(p) ==
  \/ min_oom = Nil
  \/ procs[p].oom < min_oom
  \/ procs[p].oom = min_oom /\ p > best_pid

Beats(p) ==
  \/ min_oom = Nil
  \/ procs[p].oom < min_oom
  \/ /\ procs[p].oom = min_oom
     /\ LET low == LowPriority(pid_cache[p]) IN
        \/ ~low /\ best_is_low_prio
        \/ low = best_is_low_prio /\ p > best_pid

(* A real app with a score of 0 or less ends the search.                    *)
Score(p) ==
  /\ pc = "select" /\ Next1(todo, p) /\ procs[p] # Nil
  /\ IF Beats(p)
       THEN /\ best_pid' = p /\ min_oom' = procs[p].oom
            /\ best_is_low_prio' = LowPriority(pid_cache[p])
       ELSE UNCHANGED choice
  /\ todo' = IF min_oom' <= 0 /\ ~best_is_low_prio' THEN {} ELSE todo \ {p}
  /\ UNCHANGED <<cacheVars, world, verdicts, pc, v1_pids, filtered, answer, still>>

Gone(p) ==
  /\ pc = "select" /\ Next1(todo, p) /\ procs[p] = Nil
  /\ todo' = todo \ {p}
  /\ UNCHANGED <<cacheVars, world, verdicts, pc, v1_pids, filtered, choice,
                 answer, still>>

(* The winner must still be there.                                          *)
Answer ==
  /\ pc = "select" /\ todo = {}
  /\ pc' = "done"
  /\ answer' = IF best_pid = Nil THEN Nil
               ELSE IF procs[best_pid] = Nil THEN Nil
               ELSE pid_cache[best_pid]
  /\ UNCHANGED <<cacheVars, world, verdicts, scan, choice, still>>

----------------------------------------------------------------------------
(* The daemon between two resolutions.  It clears the verdicts when a       *)
(* watched group empties or the highest PID falls.                          *)

Return ==
  /\ pc = "done" /\ pc' = "idle"
  /\ v1_pids' = {} /\ todo' = {} /\ filtered' = {} /\ answer' = Nil
  /\ best_pid' = Nil /\ min_oom' = Nil /\ best_is_low_prio' = TRUE /\ still' = TRUE
  /\ UNCHANGED <<cacheVars, world, verdicts>>

clear_pid_cache ==
  /\ pc = "idle" /\ pid_cache' = [p \in Pids |-> Nil]
  /\ been' = [p \in Pids |-> Running(p)] /\ unread' = {}
  /\ UNCHANGED <<cacheVars, procs, moves, pc, scan, choice, answer, still>>

Cache ==
  /\ \/ CacheWorld \/ CacheLoad(Daemon)
     \/ pc = "idle" /\ (Start(Daemon) \/ AddWatch \/ Reload)
  /\ UNCHANGED <<world, resolver>>

World ==
  \E p \in Pids :
    \/ Die(p)
    \/ \E new \in Arrivals : Spawn(p, new)
    \/ \E oom \in Scores, top, populated \in BOOLEAN : Shift(p, oom, top, populated)
    \/ \E g \in Programs : Become(p, g)

Resolve ==
  \/ Begin \/ Filtered \/ Answer \/ Return
  \/ \E p \in Pids : \/ NotPopulated(p) \/ Cached(p) \/ App(p) \/ SystemProcess(p)
                     \/ Score(p) \/ Gone(p)

Next == World \/ Cache \/ clear_pid_cache \/ Resolve

Spec == Init /\ [][Next]_vars

----------------------------------------------------------------------------
Candidates == {p \in OnTop : Populated(p) /\ pid_cache[p] # Nil /\ Admit(pid_cache[p])}

\* The order of RESOLUTION.md with the launcher and terminals behind: lower
\* score, then a real app, then the higher PID.
Better(p, q) ==
  LET lp == LowPriority(pid_cache[p])
      lq == LowPriority(pid_cache[q]) IN
  \/ procs[p].oom < procs[q].oom
  \/ procs[p].oom = procs[q].oom /\ ~lp /\ lq
  \/ procs[p].oom = procs[q].oom /\ lp = lq /\ p > q

\* If no process changed meanwhile, the one-pass search that keeps three locals
\* answers the best candidate of all; a better one is passed over only behind a
\* real app whose score is not positive.
BestAnswered ==
  pc = "done" /\ still =>
    IF Candidates = {} THEN answer = Nil
    ELSE \E p \in Candidates :
           /\ answer = pid_cache[p]
           /\ \A q \in Candidates \ {p} :
                \/ Better(p, q)
                \/ q < p /\ procs[p].oom <= 0 /\ ~LowPriority(pid_cache[p])

\* However the processes move, the answer is never a blocked package, and one
\* of the PIDs that were on top when the resolution began was taken for it.
AnswerAdmitted ==
  pc = "done" /\ answer # Nil =>
    /\ answer \notin Blocked
    /\ \E p \in v1_pids : pid_cache[p] = answer

\* A verdict that names a package is kept only while it is that of a program which
\* has run under the PID since the verdicts were cleared: the package that pm listed
\* at some time for its UID, or its own name.  A shell in a terminal never stands
\* for the terminal: the process was the terminal, or its command line could not
\* be read.
VerdictsTrue ==
  \A p \in Pids :
    pid_cache[p] \notin {Nil, ""} =>
      \E g \in been[p] :
        IF UidOf[g] = Nil THEN pid_cache[p] = CmdOf[g]
        ELSE /\ \E v \in 0..pm : pid_cache[p] = Listing[v][UidOf[g]]
             /\ pid_cache[p] \in Terminals => CmdOf[g] = pid_cache[p] \/ p \in unread

\* While no command and no access to the file has failed, a PID is dismissed only if
\* a program that has run under it is none: at some time pm listed no package for
\* its UID, or a terminal of which it is a shell; or its command line could not be
\* read.  No other process writes the file here: a map emptied by a torn file would
\* not be pm's word.
DismissedRightly ==
  failed = {} =>
    \A p \in Pids :
      pid_cache[p] = "" =>
        \E g \in been[p] :
          LET u == UidOf[g] IN
          IF u = Nil THEN CmdOf[g] \notin SystemNames \/ p \in unread
          ELSE \E v \in 0..pm :
                 \/ Listing[v][u] = Nil
                 \/ Listing[v][u] \in Terminals /\ CmdOf[g] # Listing[v][u]

\* An app on top that has been nothing else, whose package a cache that is up to date
\* knows, and that nothing excludes, is not overlooked.
KnownAppSeen ==
  pc = "done" /\ still /\ fingerprint[Daemon] = pm =>
    \A p \in OnTop :
      LET u == UidOf[procs[p].prog] IN
      Populated(p) /\ u # Nil /\ been[p] = Running(p) =>
        \/ mapping[Daemon][u] \in {Nil} \cup Blocked \cup Terminals
        \/ answer # Nil
=============================================================================
