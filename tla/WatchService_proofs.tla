------------------------ MODULE WatchService_proofs ------------------------
(***************************************************************************)
(* The daemon implements the safety part of WatchService, for all values   *)
(* of its constants: every fault of FaultKinds, slow clients, any number   *)
(* of UIDs and every start-up included.                                    *)
(***************************************************************************)
EXTENDS WatchDaemon_proofs

USE DEF world, peers, sources, subs, cursor, flags, control

----------------------------------------------------------------------------
(***************************************************************************)
(* A client that has not been answered yet has heard nothing.              *)
(***************************************************************************)
NothingHeardYet ==
  /\ \A c \in Conns : client[c] = "idle" => heard[c] = Nil
  /\ \A i \in 1..Len(backlog) : heard[backlog[i]] = Nil
  /\ \A t \in Tokens : pending[t] # Nil => heard[pending[t]] = Nil

\* One pending client is taken out, and only its line may change.
Serves(t, c) ==
  /\ pending[t] = c /\ pending' = [pending EXCEPT ![t] = Nil]
  /\ QueueStays
  /\ \A d \in Conns \ {c} : heard'[d] = heard[d]

\* Only watchers are written to.
Broadcasts ==
  /\ QueueStays /\ UNCHANGED pending
  /\ \A c \in Conns : heard'[c] = heard[c] \/ Watching(c)

LEMMA DeliverOne ==
  ASSUME TypeOK, NEW c \in Conns, NEW line, Deliver({c}, line)
  PROVE  /\ \A d \in Conns \ {c} : heard'[d] = heard[d]
         /\ heard'[c] \in {line, heard[c]}
  BY DEF Deliver, TypeOK

LEMMA CommandServes ==
  ASSUME TypeOK, NEW e, NEW c \in Conns, NEW u,
         \/ Refuse(e, c, u) \/ Status(e, c, u) \/ Unknown(e, c, u)
         \/ Watch(e, c, u) \/ WatchNotAdded(e, c, u)
  PROVE  \E t \in Tokens : Serves(t, c)
<1>1. /\ e.token \in Tokens /\ pending[e.token] = c
      /\ pending' = [pending EXCEPT ![e.token] = Nil] /\ QueueStays
  BY DEF Refuse, Status, Unknown, Watch, WatchNotAdded, TakeCommand, QueueStays
<1>2. heard' = heard \/ \E line : Deliver({c}, line)
  <2>1. CASE Refuse(e, c, u)
    BY <2>1 DEF Refuse
  <2>2. CASE Status(e, c, u) \/ Unknown(e, c, u)
    BY <2>2 DEF Status, Unknown, Reply
  <2>3. CASE Watch(e, c, u) \/ WatchNotAdded(e, c, u)
    BY <2>3 DEF Watch, WatchNotAdded, WatchAnswer
  <2> QED BY <2>1, <2>2, <2>3
<1>3. \A d \in Conns \ {c} : heard'[d] = heard[d]
  BY <1>2, DeliverOne
<1> QED BY <1>1, <1>3 DEF Serves

LEMMA HeardSteps ==
  ASSUME TypeOK, [Next]_vars
  PROVE  \/ UNCHANGED heard
         \/ \E t \in Tokens, c \in Conns : Serves(t, c)
         \/ Broadcasts
<1>1. CASE Environment
  BY <1>1 DEF Environment, FocusChanges, CgroupChanges, Terminate, Connect,
              HangUp, Send
<1>2. CASE Wait \/ Accept \/ AcceptOverBurst \/ AcceptStops \/ BatchDone \/ Dedup
  BY <1>2 DEF Wait, Accept, AcceptNext, AcceptOverBurst, AcceptStops, BatchDone,
              Dedup
<1>3. ASSUME NEW e \in batch,
             PendingHangup(e) \/ WatcherReady(e) \/ StaleEvent(e) \/ DispatchSource(e)
      PROVE  UNCHANGED heard
  BY <1>3 DEF PendingHangup, WatcherReady, StaleEvent, DispatchSource, StartAccept,
              Signalled, BinderReady, InotifyReady
<1>4. ASSUME NEW e \in batch, NEW c \in Conns, NEW u \in PeerUids(c),
             \/ Refuse(e, c, u) \/ Status(e, c, u) \/ Unknown(e, c, u)
             \/ Watch(e, c, u) \/ WatchNotAdded(e, c, u)
      PROVE  \E t \in Tokens : Serves(t, c)
  BY <1>4, CommandServes
<1>5. CASE NoNotification \/ NothingNew
  BY <1>5 DEF NoNotification, NothingNew
<1>6. CASE Push
  <2>1. QueueStays /\ UNCHANGED pending
    BY <1>6 DEF Push, NextIteration, QueueStays
  <2>2. \A c \in Conns : heard'[c] = heard[c] \/ \E u \in Live : watchers[u].conn = c
    BY <1>6 DEF Push, Deliver
  <2> QED BY <2>1, <2>2 DEF Broadcasts, Watching, Live
<1>7. CASE UNCHANGED vars
  BY <1>7 DEF vars
<1> QED BY <1>1, <1>2, <1>3, <1>4, <1>5, <1>6, <1>7 DEF Next, Run, DispatchStream

LEMMA NothingHeardStep ==
  ASSUME TypeOK, MapInv, OneHolder, HeldOnce, NothingHeardYet, [Next]_vars
  PROVE  NothingHeardYet'
<1> USE NilIsAbsent
<1>1. CASE UNCHANGED heard
  <2>1. CASE MapsUnchanged
    <3>1. CASE QueueStays
      BY <1>1, <2>1, <3>1 DEF MapsUnchanged, QueueStays, NothingHeardYet
    <3>2. CASE Accepted
      <4>1. \A i \in 1..Len(Tail(backlog)) :
              i + 1 \in 1..Len(backlog) /\ Tail(backlog)[i] = backlog[i + 1]
        BY <3>2 DEF Accepted, TypeOK
      <4> QED BY <1>1, <2>1, <3>2, <4>1 DEF MapsUnchanged, Accepted, NothingHeardYet
    <3>3. ASSUME NEW c \in Conns, Arrives(c) PROVE NothingHeardYet'
      <4>1. \A i \in 1..Len(backlog') : backlog'[i] = c \/ heard[backlog'[i]] = Nil
        <5>1. /\ Len(backlog) \in Nat /\ Len(backlog') = Len(backlog) + 1
              /\ \A i \in 1..Len(backlog') :
                   backlog'[i] = IF i = Len(backlog) + 1 THEN c ELSE backlog[i]
          BY <3>3 DEF Arrives, TypeOK
        <5>2. \A i \in 1..Len(backlog') : i = Len(backlog) + 1 \/ i \in 1..Len(backlog)
          BY <5>1
        <5>3. ASSUME NEW i \in 1..Len(backlog')
              PROVE  backlog'[i] = c \/ heard[backlog'[i]] = Nil
          <6>1. CASE i = Len(backlog) + 1
            BY <5>1, <6>1
          <6>2. CASE i \in 1..Len(backlog)
            <7>1. backlog'[i] = backlog[i]
              BY <5>1, <6>2
            <7> QED BY <6>2, <7>1 DEF NothingHeardYet
          <6> QED BY <5>2, <6>1, <6>2
        <5> QED BY <5>3
      <4>2. \A d \in Conns : client'[d] = "idle" => client[d] = "idle"
        BY <3>3 DEF Arrives, TypeOK
      <4>3. heard[c] = Nil
        BY <3>3 DEF Arrives, NothingHeardYet
      <4> QED BY <1>1, <2>1, <4>1, <4>2, <4>3 DEF MapsUnchanged, NothingHeardYet
    <3>4. ASSUME NEW c \in Conns, Leaves(c) PROVE NothingHeardYet'
      <4>1. \A d \in Conns : client'[d] = "idle" => client[d] = "idle"
        BY <3>4 DEF Leaves, TypeOK
      <4> QED BY <1>1, <2>1, <3>4, <4>1 DEF MapsUnchanged, Leaves, NothingHeardYet
    <3> QED BY <2>1, <3>1, <3>2, <3>3, <3>4 DEF MapsUnchanged
  <2>2. ASSUME NEW t \in Tokens, NEW c \in Conns, Registers(t, c)
        PROVE  NothingHeardYet'
    <3>1. /\ 1 \in 1..Len(backlog) /\ c = backlog[1]
          /\ \A i \in 1..Len(backlog') :
               i + 1 \in 1..Len(backlog) /\ backlog'[i] = backlog[i + 1]
      BY <2>2 DEF Registers, Accepted, TypeOK
    <3>2. \A x \in Tokens : pending'[x] = IF x = t THEN c ELSE pending[x]
      BY <2>2 DEF Registers, TypeOK
    <3>3. client' = client
      BY <2>2 DEF Registers, Accepted
    <3> QED BY <1>1, <3>1, <3>2, <3>3 DEF NothingHeardYet
  <2>3. ASSUME QueueStays, \A x \in Tokens : pending'[x] \in {pending[x], Nil}
        PROVE  NothingHeardYet'
    BY <1>1, <2>3 DEF QueueStays, NothingHeardYet
  <2>4. ASSUME NEW t \in Tokens, Drops(t) PROVE NothingHeardYet'
    BY <2>3, <2>4 DEF Drops, TypeOK
  <2>5. ASSUME NEW o \in Tokens, NEW c \in Conns, NEW u \in Uids, NEW t \in Tokens,
               Subscribes(o, c, u, t)
        PROVE  NothingHeardYet'
    BY <2>3, <2>5 DEF Subscribes, TypeOK
  <2>6. ASSUME NEW gone \in SUBSET Uids, Evicts(gone) PROVE NothingHeardYet'
    BY <2>3, <2>6 DEF Evicts
  <2>7. CASE Clears
    BY <1>1, <2>7 DEF Clears, NothingHeardYet
  <2> QED BY <2>1, <2>2, <2>4, <2>5, <2>6, <2>7, MapSteps
<1>2. ASSUME NEW t \in Tokens, NEW c \in Conns, Serves(t, c)
      PROVE  NothingHeardYet'
  <2>1. interest[t] = c
    BY <1>2 DEF Serves, MapInv, InterestOwned
  <2>2. client[c] # "idle" /\ \A i \in 1..Len(backlog) : backlog[i] # c
    BY <2>1 DEF OneHolder
  <2>3. \A x \in Tokens : x # t => pending[x] # c
    BY <1>2 DEF Serves, HeldOnce
  <2>4. \A x \in Tokens : pending'[x] = IF x = t THEN Nil ELSE pending[x]
    BY <1>2 DEF Serves, TypeOK
  <2>5. UNCHANGED <<backlog, client>> /\ \A d \in Conns \ {c} : heard'[d] = heard[d]
    BY <1>2 DEF Serves, QueueStays
  <2>6. \A i \in 1..Len(backlog) : backlog[i] \in Conns
    BY DEF TypeOK
  <2> QED BY <2>2, <2>3, <2>4, <2>5, <2>6 DEF NothingHeardYet, TypeOK
<1>3. CASE Broadcasts
  <2>1. UNCHANGED <<backlog, client, pending>>
    BY <1>3 DEF Broadcasts, QueueStays
  <2>2. \A c \in Conns : InBacklog(c) \/ IsPending(c) => heard'[c] = heard[c]
    BY <1>3 DEF Broadcasts, HeldOnce
  <2>3. \A c \in Conns : client[c] = "idle" => ~Watching(c)
    BY DEF Watching, MapInv, ReverseMapExact, InterestOwned, OneHolder, TypeOK
  <2>4. \A i \in 1..Len(backlog) : backlog[i] \in Conns /\ InBacklog(backlog[i])
    BY DEF TypeOK, InBacklog
  <2>5. \A x \in Tokens : pending[x] # Nil => pending[x] \in Conns /\ IsPending(pending[x])
    BY DEF TypeOK, IsPending
  <2>6. \A c \in Conns : client[c] = "idle" => heard'[c] = heard[c]
    BY <1>3, <2>3 DEF Broadcasts
  <2> QED BY <2>1, <2>2, <2>4, <2>5, <2>6 DEF NothingHeardYet
<1> QED BY <1>1, <1>2, <1>3, HeardSteps

LEMMA NothingHeardInvariant ==
  Spec => [](TypeOK /\ MapInv /\ OneHolder /\ HeldOnce /\ NothingHeardYet)
<1>1. Init => NothingHeardYet
  BY DEF Init, NothingHeardYet
<1>2. TypeOK /\ MapInv /\ OneHolder /\ HeldOnce /\ NothingHeardYet /\ [Next]_vars
        => NothingHeardYet'
  BY NothingHeardStep
<1> QED BY <1>1, <1>2, OneHolderInvariant, NeverHeldTwice, PTL DEF Spec

----------------------------------------------------------------------------
(***************************************************************************)
(* The steps.                                                              *)
(***************************************************************************)
Slots   == [u \in Uids |-> Subscriber(u)]
Told    == [u \in Uids |-> LastTold(u)]
Nothing == UNCHANGED <<resolve_foreground_inner(FALSE), Slots, Told>>

\* What resolving answers depends on the world only, and the slots and their
\* lines on watchers and heard.
LEMMA MappedStays ==
  /\ UNCHANGED <<boot, focus, cg>> => UNCHANGED resolve_foreground_inner(FALSE)
  /\ UNCHANGED <<watchers, heard>> => UNCHANGED <<Slots, Told>>
  BY DEF resolve_foreground_inner, Slots, Told, Subscriber, LastTold

\* The world changes.
LEMMA ChangeRefined ==
  ASSUME TypeOK', UNCHANGED <<watchers, heard>>
  PROVE  Service!Change
<1>1. resolve_foreground_inner(FALSE)' \in Packages \cup {Nil}
  BY ConstantsOK DEF TypeOK, resolve_foreground_inner
<1>2. UNCHANGED <<Slots, Told>>
  BY MappedStays
<1> QED BY <1>1, <1>2 DEF Service!Change, Slots, Told

\* A client that is answered and not subscribed is no watcher.
LEMMA AnswerInvisible ==
  ASSUME TypeOK, MapInv, OneHolder, NEW t \in Tokens, NEW c \in Conns, Serves(t, c),
         UNCHANGED <<boot, focus, cg, watchers>>
  PROVE  Nothing
<1>1. \A u \in Live : watchers[u].conn \in Conns \ {c}
  BY NilIsAbsent, PendingNotWatching DEF Serves, Live, TypeOK
<1>2. \A u \in Uids : Subscriber(u)' = Subscriber(u) /\ LastTold(u)' = LastTold(u)
  BY <1>1 DEF Serves, Subscriber, LastTold, Live
<1> QED BY <1>2, MappedStays DEF Nothing, Slots, Told

LEMMA SubscribeRefined ==
  ASSUME TypeOK, MapInv, OneHolder, NothingHeardYet,
         NEW e \in batch, NEW c \in Conns, NEW u \in PeerUids(c), Watch(e, c, u)
  PROVE  Service!Subscribe(u, c)
<1> DEFINE fg == resolve_foreground_inner(FALSE)
<1> USE NilIsAbsent
<1>1. e.token \in Tokens /\ pending[e.token] = c /\ u \in Uids
  BY PeerUidsType DEF Watch, TakeCommand
<1>2. PICK t \in Tokens : watchers' = [watchers EXCEPT ![u] = [token |-> t, conn |-> c]]
  BY DEF Watch, FreshTokens
<1>3. PICK res \in Resolved(FALSE) : WatchAnswer(c, u, res)
  BY DEF Watch
<1>4. \A v \in Live : watchers[v].conn \in Conns \ {c}
  BY <1>1, PendingNotWatching DEF Live, TypeOK
<1>5. /\ \A d \in Conns \ {c} : heard'[d] = heard[d]
      /\ heard'[c] \in {res, Nil}
  <2>1. heard[c] = Nil
    BY <1>1 DEF NothingHeardYet
  <2> QED BY <1>3, <2>1, DeliverOne DEF WatchAnswer
<1>6. res \in {fg, Nil}
  BY DEF Resolved
<1>7. \A v \in Uids : Slots[v] # c
  BY <1>4 DEF Slots, Subscriber, Live
<1>8. Slots' = [Slots EXCEPT ![u] = c]
  <2>1. \A v \in Uids : Subscriber(v)' = IF v = u THEN c ELSE Subscriber(v)
    BY <1>1, <1>2 DEF Subscriber, TypeOK
  <2> QED BY <2>1 DEF Slots
<1>9. Told' = [Told EXCEPT ![u] = heard'[c]]
  <2>1. \A v \in Uids : LastTold(v)' = IF v = u THEN heard'[c] ELSE LastTold(v)
    BY <1>1, <1>2, <1>4, <1>5 DEF LastTold, Live, TypeOK
  <2> QED BY <2>1 DEF Told
<1>10. UNCHANGED fg
  BY MappedStays DEF Watch, TakeCommand
<1>11. heard'[c] \in {fg, Nil}
  BY <1>5, <1>6
<1> HIDE DEF fg
<1>12. \E line \in {fg, Nil} : Told' = [Told EXCEPT ![u] = line]
  BY <1>9, <1>11
<1> QED BY <1>7, <1>8, <1>10, <1>12 DEF Service!Subscribe, Slots, Told, fg

\* Watchers that are evicted, and no line written.
LEMMA LoseRefined ==
  ASSUME NEW gone \in SUBSET Uids, UNCHANGED <<boot, focus, cg, heard>>,
         watchers' = [u \in Uids |-> IF u \in gone THEN Nil ELSE watchers[u]]
  PROVE  Service!Lose(gone)
<1>1. \A u \in Uids : /\ Subscriber(u)' = IF u \in gone THEN Nil ELSE Subscriber(u)
                      /\ LastTold(u)' = IF u \in gone THEN Nil ELSE LastTold(u)
  BY DEF Subscriber, LastTold
<1> QED BY <1>1, MappedStays DEF Service!Lose, Service!Without

LEMMA PushRefined ==
  ASSUME TypeOK, Push
  PROVE  \E gone, missed \in SUBSET Uids : Service!Push(gone, missed)
<1> DEFINE fg == resolve_foreground_inner(FALSE)
           gone == {u \in Live : Broken(watchers[u].conn)}
<1> USE NilIsAbsent
<1>1. last_package' = fg /\ fg # Nil
  BY DEF Push, Resolved
<1>2. PICK lost \in SUBSET (SlowConns \cap {watchers[u].conn : u \in Live}) :
        heard' = [c \in Conns |->
                    IF c \in {watchers[u].conn : u \in Live} \ lost /\ ~Broken(c)
                    THEN fg ELSE heard[c]]
  BY <1>1 DEF Push, Deliver
<1> DEFINE missed == {u \in Live : watchers[u].conn \in lost}
<1>3. watchers' = [u \in Uids |-> IF u \in gone THEN Nil ELSE watchers[u]]
  BY DEF Push, evict_watcher
<1>4. \A u \in missed : Slots[u] \in SlowConns
  BY DEF Slots, Subscriber, Live
<1>5. \A u \in Uids : Subscriber(u)' = IF u \in gone THEN Nil ELSE Subscriber(u)
  BY <1>3 DEF Subscriber
<1>6. \A u \in Uids : LastTold(u)' = IF u \in gone \/ Subscriber(u) = Nil THEN Nil
                                     ELSE IF u \in missed THEN LastTold(u) ELSE fg
  <2> TAKE u \in Uids
  <2>1. CASE u \notin Live
    BY <1>3, <2>1 DEF LastTold, Subscriber, Live
  <2>2. CASE u \in Live
    <3>1. watchers[u] # Nil /\ watchers[u].conn \in Conns
      BY <2>2 DEF Live, TypeOK
    <3>2. Subscriber(u) = watchers[u].conn /\ Subscriber(u) # Nil
          /\ LastTold(u) = heard[watchers[u].conn]
      BY <3>1 DEF Subscriber, LastTold
    <3>3. CASE u \in gone
      BY <1>3, <3>3 DEF LastTold
    <3>4. CASE u \notin gone
      <4>1. watchers'[u] = watchers[u] /\ ~Broken(watchers[u].conn)
        BY <1>3, <2>2, <3>4
      <4>2. LastTold(u)' = heard'[watchers[u].conn]
        BY <3>1, <4>1 DEF LastTold
      <4>3. heard'[watchers[u].conn] =
              IF u \in missed THEN heard[watchers[u].conn] ELSE fg
        BY <1>2, <2>2, <3>1, <4>1
      <4> QED BY <3>2, <3>4, <4>2, <4>3
    <3> QED BY <3>3, <3>4
  <2> QED BY <2>1, <2>2
<1>7. UNCHANGED fg
  BY MappedStays DEF Push, NextIteration
<1>8. gone \in SUBSET Uids /\ missed \in SUBSET Uids
  BY DEF Live
<1> HIDE DEF gone, missed, fg
<1>9. Slots' = Service!Without(Slots, gone)
  BY <1>5 DEF Slots, Service!Without
<1>10. Told' = [u \in Uids |-> IF u \in gone \/ Slots[u] = Nil THEN Nil
                              ELSE IF u \in missed THEN Told[u] ELSE fg]
  BY <1>6 DEF Slots, Told
<1>11. Service!Push(gone, missed)
  BY <1>1, <1>4, <1>7, <1>9, <1>10 DEF Service!Push, Slots, Told, fg
<1> QED BY <1>8, <1>11

LEMMA StepRefined ==
  ASSUME TypeOK, TypeOK', MapInv, OneHolder, NothingHeardYet, [Next]_vars
  PROVE  Service!Next \/ Nothing
<1>1. ASSUME UNCHANGED <<watchers, heard>> PROVE Service!Next \/ Nothing
  BY <1>1, ChangeRefined DEF Service!Next
<1>2. CASE Environment
  BY <1>1, <1>2 DEF Environment, FocusChanges, CgroupChanges, Terminate, Connect,
                    HangUp, Send
<1>3. CASE Wait \/ Accept \/ AcceptOverBurst \/ AcceptStops \/ BatchDone \/ Dedup
  BY <1>1, <1>3 DEF Wait, Accept, AcceptNext, AcceptOverBurst, AcceptStops,
                    BatchDone, Dedup
<1>4. ASSUME NEW e \in batch,
             \/ PendingHangup(e) \/ StaleEvent(e) \/ StartAccept(e)
             \/ BinderReady(e) \/ InotifyReady(e)
      PROVE  Service!Next \/ Nothing
  BY <1>1, <1>4 DEF PendingHangup, StaleEvent, StartAccept, BinderReady, InotifyReady
<1>5. ASSUME NEW e \in batch, NEW c \in Conns, NEW u \in PeerUids(c),
             Refuse(e, c, u) \/ Status(e, c, u) \/ Unknown(e, c, u) \/ WatchNotAdded(e, c, u)
      PROVE  Nothing
  <2>1. \E t \in Tokens : Serves(t, c)
    BY <1>5, CommandServes
  <2>2. UNCHANGED <<boot, focus, cg, watchers>>
    BY <1>5 DEF Refuse, Status, Unknown, WatchNotAdded, Reply, TakeCommand
  <2> QED BY <2>1, <2>2, AnswerInvisible
<1>6. ASSUME NEW e \in batch, NEW c \in Conns, NEW u \in PeerUids(c), Watch(e, c, u)
      PROVE  Service!Next
  <2>1. u \in Uids
    BY PeerUidsType
  <2> QED BY <1>6, <2>1, SubscribeRefined DEF Service!Next
<1>7. ASSUME NEW e \in batch, WatcherReady(e)
      PROVE  Service!Next
  <2>1. {token_to_uid[e.token]} \in SUBSET Uids
    BY <1>7 DEF WatcherReady, TypeOK
  <2>2. Service!Lose({token_to_uid[e.token]})
    BY <1>7, <2>1, LoseRefined DEF WatcherReady, evict_watcher
  <2> QED BY <2>1, <2>2 DEF Service!Next
<1>8. ASSUME NEW e \in batch, Signalled(e)
      PROVE  Service!Next
  <2>1. watchers' = [u \in Uids |-> IF u \in Uids THEN Nil ELSE watchers[u]]
    BY <1>8 DEF Signalled
  <2>2. Service!Lose(Uids)
    BY <1>8, <2>1, LoseRefined DEF Signalled
  <2> QED BY <2>2 DEF Service!Next
<1>9. CASE NoNotification \/ NothingNew
  BY <1>1, <1>9 DEF NoNotification, NothingNew
<1>10. CASE Push
  BY <1>10, PushRefined DEF Service!Next
<1>11. CASE UNCHANGED vars
  BY <1>1, <1>11 DEF vars
<1> QED
  BY <1>2, <1>3, <1>4, <1>5, <1>6, <1>7, <1>8, <1>9, <1>10, <1>11
     DEF Next, Run, DispatchStream, DispatchSource

\* Every behaviour of the daemon is one of WatchService, with whatever faults,
\* start-up, UIDs and slow clients: what a subscriber is told is the foreground at
\* that moment, and nothing that happens to other clients disturbs it.
THEOREM ServiceRefined == Spec => ServedAsPromised
<1>1. Init => Service!Init
  <2> SUFFICES ASSUME Init PROVE Service!Init
    OBVIOUS
  <2>1. resolve_foreground_inner(FALSE) \in Packages \cup {Nil}
    BY ConstantsOK DEF Init, resolve_foreground_inner
  <2>2. \A u \in Uids : Subscriber(u) = Nil /\ LastTold(u) = Nil
    BY DEF Init, Subscriber, LastTold
  <2> QED BY <2>1, <2>2 DEF Service!Init
<1>2. TypeOK /\ TypeOK' /\ MapInv /\ OneHolder /\ NothingHeardYet /\ [Next]_vars
        => [Service!Next]_(Service!vars)
  BY StepRefined DEF Nothing, Slots, Told, Service!vars
<1> QED
  BY <1>1, <1>2, NothingHeardInvariant, PTL DEF Spec, ServedAsPromised, Service!SafetySpec
=============================================================================
