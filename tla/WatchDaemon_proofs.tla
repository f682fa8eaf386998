------------------------- MODULE WatchDaemon_proofs -------------------------
(***************************************************************************)
(* Proofs about WatchDaemon, for all values of its constants.              *)
(***************************************************************************)
EXTENDS WatchDaemon, FiniteSetTheorems, TLAPS

USE DEF world, peers, sources, subs, cursor, flags, control

LEMMA PeerUidsType ==
  ASSUME NEW c \in Conns PROVE PeerUids(c) \subseteq Uids
  BY ConstantsOK DEF PeerUids

\* What the resolvers answer is a package or nothing.
LEMMA ResolvedType ==
  ASSUME TypeOK, NEW b \in BOOLEAN
  PROVE  Resolved(b) \subseteq Packages \cup {Nil}
  BY ConstantsOK DEF Resolved, resolve_foreground_inner, TypeOK

LEMMA DeliverType ==
  ASSUME TypeOK, NEW to, NEW line \in Packages \cup {Nil, "unknown"},
         Deliver(to, line)
  PROVE  heard' \in [Conns -> Packages \cup {Nil, "unknown"}]
  BY DEF Deliver, TypeOK

LEMMA EvictType ==
  ASSUME TypeOK, NEW gone, evict_watcher(gone)
  PROVE  /\ watchers' \in [Uids -> [token : Tokens, conn : Conns] \cup {Nil}]
         /\ token_to_uid' \in [Tokens -> Uids \cup {Nil}]
         /\ interest' \in [Tokens -> Conns \cup {Nil}]
  BY DEF evict_watcher, Without, TypeOK

\* An event that epoll reports is one of a stream or of a source.
LEMMA ReadyEvents ==
  ASSUME NEW e \in Ready
  PROVE  \/ \E t \in Tokens : e = Event(t, client[interest[t]] = "closed")
         \/ e \in {Event("socket", FALSE), Event("signal", FALSE),
                  Event("binder", FALSE), Event("inotify", FALSE)}
  BY Zenon DEF Ready

LEMMA ReadyType == Ready \subseteq Events
<1>1. \A t \in Tokens, h \in BOOLEAN : Event(t, h) \in Events
  BY DEF Event, Events
<1>2. \A s \in {"socket", "signal", "binder", "inotify"} : Event(s, FALSE) \in Events
  BY DEF Event, Events
<1> QED BY <1>1, <1>2, ReadyEvents

\* Every step keeps TypeOK.
LEMMA TypeStep ==
  ASSUME TypeOK, [Next]_vars PROVE TypeOK'
<1> USE ConstantsOK, NilIsAbsent
<1>1. ASSUME NEW p \in Packages \cup {Nil}, FocusChanges(p) PROVE TypeOK'
  BY <1>1 DEF TypeOK, FocusChanges, Unsettled
<1>2. ASSUME NEW s \in CgroupStates, CgroupChanges(s) PROVE TypeOK'
  BY <1>2 DEF TypeOK, CgroupChanges, Unsettled
<1>3. CASE Terminate
  BY <1>3 DEF TypeOK, Terminate
<1>4. ASSUME NEW c \in Conns, Connect(c) PROVE TypeOK'
  BY <1>4 DEF TypeOK, Connect
<1>5. ASSUME NEW c \in Conns, HangUp(c) PROVE TypeOK'
  BY <1>5 DEF TypeOK, HangUp
<1>6. ASSUME NEW c \in Conns, NEW cmd \in Says[c], Send(c, cmd) PROVE TypeOK'
  <2>1. cmd \in Commands
    OBVIOUS
  <2> QED BY <1>6, <2>1 DEF TypeOK, Send
<1>7. CASE Wait
  BY <1>7, ReadyType DEF TypeOK, Wait
<1>8. CASE Accept
  <2>1. Head(backlog) \in Conns /\ Tail(backlog) \in Seq(Conns)
    BY <1>8 DEF Accept, AcceptNext, TypeOK
  <2>2. /\ interest' \in [Tokens -> Conns \cup {Nil}]
        /\ pending' \in [Tokens -> Conns \cup {Nil}]
    <3>1. CASE UNCHANGED <<interest, pending>>
      BY <3>1 DEF TypeOK
    <3>2. ASSUME NEW t \in FreshTokens(interest, batch),
                 interest' = [interest EXCEPT ![t] = Head(backlog)],
                 pending' = [pending EXCEPT ![t] = Head(backlog)]
          PROVE  /\ interest' \in [Tokens -> Conns \cup {Nil}]
                 /\ pending' \in [Tokens -> Conns \cup {Nil}]
      BY <3>2, <2>1 DEF TypeOK
    <3> QED BY <1>8, <3>1, <3>2 DEF Accept, AcceptNext
  <2> QED BY <1>8, <2>1, <2>2 DEF TypeOK, Accept, AcceptNext
<1>9. CASE AcceptOverBurst \/ AcceptStops
  <2>1. CASE AcceptOverBurst
    <3>1. backlog' \in Seq(Conns) /\ count' \in 0..AcceptBurst
      BY <2>1 DEF AcceptOverBurst, TypeOK
    <3> QED BY <2>1, <3>1 DEF TypeOK, AcceptOverBurst
  <2>2. CASE AcceptStops
    BY <2>2 DEF TypeOK, AcceptStops
  <2> QED BY <1>9, <2>1, <2>2
<1>10. ASSUME NEW e \in batch, PendingHangup(e) PROVE TypeOK'
  BY <1>10 DEF TypeOK, PendingHangup, Dispatch
<1>11. ASSUME NEW e \in batch, NEW c \in Conns, NEW u \in PeerUids(c),
              Refuse(e, c, u) \/ Status(e, c, u) \/ Unknown(e, c, u)
       PROVE  TypeOK'
  <2>1. heard' \in [Conns -> Packages \cup {Nil, "unknown"}]
    <3>1. CASE Refuse(e, c, u)
      BY <3>1 DEF Refuse, TypeOK
    <3>2. CASE Status(e, c, u)
      BY <3>2, ResolvedType, DeliverType DEF Status, Reply
    <3>3. CASE Unknown(e, c, u)
      BY <3>3, DeliverType DEF Unknown, Reply
    <3> QED BY <1>11, <3>1, <3>2, <3>3
  <2> QED BY ZenonT(40), <1>11, <2>1
          DEF TypeOK, Refuse, Status, Unknown, Reply, TakeCommand, Dispatch
<1>12. ASSUME NEW e \in batch, NEW c \in Conns, NEW u \in PeerUids(c),
              Watch(e, c, u) \/ WatchNotAdded(e, c, u)
       PROVE  TypeOK'
  <2>0. u \in Uids
    BY PeerUidsType
  <2>1. PICK res \in Resolved(FALSE) : WatchAnswer(c, u, res)
    BY <1>12 DEF Watch, WatchNotAdded
  <2>2. /\ res \in Packages \cup {Nil} /\ last_package' = res
        /\ heard' \in [Conns -> Packages \cup {Nil, "unknown"}]
    BY <2>1, ResolvedType, DeliverType DEF WatchAnswer, TypeOK
  <2>3. CASE Watch(e, c, u)
    <3>1. PICK t \in Tokens :
            /\ watchers' = [watchers EXCEPT ![u] = [token |-> t, conn |-> c]]
            /\ token_to_uid' = [Without(token_to_uid, {u}) EXCEPT ![t] = u]
            /\ interest' = [Without(interest, {u})
                              EXCEPT ![e.token] = Nil, ![t] = c]
      BY <2>3 DEF Watch, FreshTokens
    <3>2. /\ Without(token_to_uid, {u}) \in [Tokens -> Uids \cup {Nil}]
          /\ Without(interest, {u}) \in [Tokens -> Conns \cup {Nil}]
      BY DEF Without, TypeOK
    <3>3. /\ watchers' \in [Uids -> [token : Tokens, conn : Conns] \cup {Nil}]
          /\ token_to_uid' \in [Tokens -> Uids \cup {Nil}]
          /\ interest' \in [Tokens -> Conns \cup {Nil}]
      BY <2>0, <3>1, <3>2 DEF TypeOK
    <3> QED BY <2>2, <2>3, <3>3 DEF TypeOK, Watch, TakeCommand, Dispatch
  <2>4. CASE WatchNotAdded(e, c, u)
    BY <2>2, <2>4 DEF TypeOK, WatchNotAdded, TakeCommand, Dispatch
  <2> QED BY <1>12, <2>3, <2>4
<1>13. ASSUME NEW e \in batch, WatcherReady(e) PROVE TypeOK'
  BY <1>13, EvictType DEF TypeOK, WatcherReady, Dispatch
<1>14. ASSUME NEW e \in batch, StaleEvent(e) \/ DispatchSource(e) PROVE TypeOK'
  <2>1. CASE Signalled(e)
    <3>1. backlog' \in Seq(Conns)
      BY <2>1 DEF Signalled
    <3>2. /\ interest' \in [Tokens -> Conns \cup {Nil}]
          /\ pending' \in [Tokens -> Conns \cup {Nil}]
          /\ watchers' \in [Uids -> [token : Tokens, conn : Conns] \cup {Nil}]
          /\ token_to_uid' \in [Tokens -> Uids \cup {Nil}]
      BY <2>1 DEF Signalled
    <3> QED BY <2>1, <3>1, <3>2 DEF TypeOK, Signalled
  <2>2. CASE StaleEvent(e) \/ StartAccept(e)
    BY <2>2 DEF TypeOK, StaleEvent, StartAccept, Dispatch
  <2>3. CASE BinderReady(e) \/ InotifyReady(e)
    BY <2>3 DEF TypeOK, BinderReady, InotifyReady, Dispatch
  <2> QED BY <1>14, <2>1, <2>2, <2>3 DEF DispatchSource
<1>15. CASE BatchDone \/ Dedup
  BY <1>15 DEF TypeOK, BatchDone, Dedup, Compare
<1>16. CASE NoNotification \/ NothingNew
  BY <1>16 DEF TypeOK, NoNotification, NothingNew, NextIteration
<1>17. CASE Push
  <2>1. last_package' \in Packages \cup {Nil}
    BY <1>17, ResolvedType DEF Push
  <2>2. heard' \in [Conns -> Packages \cup {Nil, "unknown"}]
    BY <1>17, <2>1, DeliverType DEF Push
  <2> QED BY <1>17, <2>1, <2>2, EvictType DEF TypeOK, Push, NextIteration
<1>18. CASE UNCHANGED vars
  BY <1>18 DEF TypeOK, vars
<1> QED
  BY <1>1, <1>2, <1>3, <1>4, <1>5, <1>6, <1>7, <1>8, <1>9, <1>10, <1>11, <1>12,
     <1>13, <1>14, <1>15, <1>16, <1>17, <1>18
     DEF Next, Environment, Run, DispatchStream

\* TypeOK holds in every reachable state of every instance.
THEOREM TypeCorrect == Spec => []TypeOK
<1>1. Init => TypeOK
  <2> SUFFICES ASSUME Init PROVE TypeOK
    OBVIOUS
  <2>1. boot \in BootRecords /\ count \in 0..AcceptBurst
    BY ConstantsOK DEF Init
  <2>2. backlog \in Seq(Conns)
    BY DEF Init
  <2>3. /\ interest \in [Tokens -> Conns \cup {Nil}]
        /\ pending \in [Tokens -> Conns \cup {Nil}]
        /\ watchers \in [Uids -> [token : Tokens, conn : Conns] \cup {Nil}]
        /\ token_to_uid \in [Tokens -> Uids \cup {Nil}]
    BY DEF Init
  <2> QED BY <2>1, <2>2, <2>3 DEF Init, TypeOK
<1>2. TypeOK /\ [Next]_vars => TypeOK'
  BY TypeStep
<1> QED BY <1>1, <1>2, PTL DEF Spec

----------------------------------------------------------------------------
(***************************************************************************)
(* The maps.  A step does one of six things to pending, watchers,          *)
(* token_to_uid and epoll's interest list; the proofs below look at these  *)
(* rather than at the actions.                                             *)
(***************************************************************************)
QueueStays == UNCHANGED <<backlog, client>>

Arrives(c) ==
  /\ client[c] = "idle" /\ client' = [client EXCEPT ![c] = "open"]
  /\ backlog' = Append(backlog, c)

Leaves(c) ==
  /\ client[c] = "open" /\ client' = [client EXCEPT ![c] = "closed"]
  /\ UNCHANGED backlog

Accepted == backlog # <<>> /\ backlog' = Tail(backlog) /\ UNCHANGED client

MapsUnchanged ==
  /\ UNCHANGED <<pending, interest, subs>>
  /\ QueueStays \/ Accepted \/ \E c \in Conns : Arrives(c) \/ Leaves(c)

Registers(t, c) ==
  /\ Accepted /\ c = Head(backlog)
  /\ interest[t] = Nil
  /\ pending' = [pending EXCEPT ![t] = c]
  /\ interest' = [interest EXCEPT ![t] = c]
  /\ UNCHANGED subs

Drops(t) ==
  /\ QueueStays
  /\ pending[t] # Nil
  /\ pending' = [pending EXCEPT ![t] = Nil]
  /\ interest' = [interest EXCEPT ![t] = Nil]
  /\ UNCHANGED subs

Subscribes(o, c, u, t) ==
  /\ QueueStays
  /\ pending[o] = c
  /\ t = o \/ interest[t] = Nil
  /\ pending' = [pending EXCEPT ![o] = Nil]
  /\ watchers' = [watchers EXCEPT ![u] = [token |-> t, conn |-> c]]
  /\ token_to_uid' = [Without(token_to_uid, {u}) EXCEPT ![t] = u]
  /\ interest' = [Without(interest, {u}) EXCEPT ![o] = Nil, ![t] = c]

Evicts(gone) == QueueStays /\ evict_watcher(gone) /\ UNCHANGED pending

Clears ==
  /\ backlog' = <<>> /\ UNCHANGED client
  /\ pending' = [t \in Tokens |-> Nil] /\ interest' = [t \in Tokens |-> Nil]
  /\ watchers' = [u \in Uids |-> Nil] /\ token_to_uid' = [t \in Tokens |-> Nil]

LEMMA WatchSubscribes ==
  ASSUME TypeOK, NEW e, NEW c \in Conns, NEW u, Watch(e, c, u)
  PROVE  \E o \in Tokens, t \in Tokens : Subscribes(o, c, u, t)
<1> USE NilIsAbsent
<1>1. e.token \in Tokens /\ pending[e.token] = c
      /\ pending' = [pending EXCEPT ![e.token] = Nil]
      /\ Permitted(u)
  BY DEF Watch, TakeCommand, WatchAnswer
<1>2. PICK t \in FreshTokens([interest EXCEPT ![e.token] = Nil], batch') :
        /\ watchers' = [watchers EXCEPT ![u] = [token |-> t, conn |-> c]]
        /\ token_to_uid' = [Without(token_to_uid, {u}) EXCEPT ![t] = u]
        /\ interest' = [Without(interest, {u})
                          EXCEPT ![e.token] = Nil, ![t] = c]
  BY DEF Watch
<1>3. t \in Tokens /\ (t = e.token \/ interest[t] = Nil)
  BY <1>1, <1>2 DEF FreshTokens, TypeOK
<1>4. QueueStays
  BY DEF Watch, TakeCommand, QueueStays
<1> QED BY <1>1, <1>2, <1>3, <1>4 DEF Subscribes

LEMMA MapSteps ==
  ASSUME TypeOK, [Next]_vars
  PROVE  \/ MapsUnchanged
         \/ \E t \in Tokens, c \in Conns : Registers(t, c)
         \/ \E t \in Tokens : Drops(t)
         \/ \E o \in Tokens, c \in Conns, u \in Uids, t \in Tokens :
              Subscribes(o, c, u, t)
         \/ \E gone \in SUBSET Uids : Evicts(gone)
         \/ Clears
<1> USE NilIsAbsent DEF QueueStays
<1>1. CASE Environment
  BY <1>1 DEF Environment, FocusChanges, CgroupChanges, Terminate, Connect,
              HangUp, Send, MapsUnchanged, Arrives, Leaves
<1>2. CASE Wait \/ AcceptOverBurst \/ AcceptStops \/ BatchDone \/ Dedup
  BY <1>2 DEF Wait, AcceptOverBurst, AcceptStops, BatchDone, Dedup,
              MapsUnchanged, Accepted
<1>3. CASE Accept
  <2>1. Accepted /\ Head(backlog) \in Conns
    BY <1>3 DEF Accept, AcceptNext, Accepted, TypeOK
  <2> QED BY <1>3, <2>1 DEF Accept, AcceptNext, FreshTokens, Registers, MapsUnchanged
<1>4. ASSUME NEW e \in batch, PendingHangup(e)
      PROVE  \E t \in Tokens : Drops(t)
  BY <1>4 DEF PendingHangup, Drops
<1>5. ASSUME NEW e \in batch, NEW c \in Conns, NEW u \in PeerUids(c),
             Refuse(e, c, u) \/ Status(e, c, u) \/ Unknown(e, c, u) \/ WatchNotAdded(e, c, u)
      PROVE  \E t \in Tokens : Drops(t)
  BY <1>5 DEF Refuse, Status, Unknown, WatchNotAdded, Reply, TakeCommand, Drops
<1>6. ASSUME NEW e \in batch, NEW c \in Conns, NEW u \in PeerUids(c), Watch(e, c, u)
      PROVE  \E o \in Tokens, d \in Conns, w \in Uids, t \in Tokens :
               Subscribes(o, d, w, t)
  BY <1>6, WatchSubscribes, PeerUidsType
<1>7. ASSUME NEW e \in batch, WatcherReady(e)
      PROVE  \E gone \in SUBSET Uids : Evicts(gone)
  <2>1. token_to_uid[e.token] \in Uids
    BY <1>7 DEF WatcherReady, TypeOK
  <2> QED BY <1>7, <2>1 DEF WatcherReady, Evicts
<1>8. ASSUME NEW e \in batch, StaleEvent(e) \/ DispatchSource(e)
      PROVE  MapsUnchanged \/ Clears
  BY <1>8 DEF StaleEvent, DispatchSource, StartAccept, Signalled, BinderReady,
              InotifyReady, MapsUnchanged, Clears
<1>9. CASE NoNotification \/ NothingNew
  BY <1>9 DEF NoNotification, NothingNew, NextIteration, MapsUnchanged
<1>10. CASE Push
  <2>1. {u \in Live : Broken(watchers[u].conn)} \in SUBSET Uids
    BY DEF Live
  <2> QED BY <1>10, <2>1 DEF Push, NextIteration, Evicts
<1>11. CASE UNCHANGED vars
  BY <1>11 DEF vars, MapsUnchanged
<1> QED
  BY <1>1, <1>2, <1>3, <1>4, <1>5, <1>6, <1>7, <1>8, <1>9, <1>10, <1>11
     DEF Next, Run, DispatchStream

\* The three maps and the interest list describe one set of streams.
MapInv == ReverseMapExact /\ InterestOwned

\* Evicting by UID finds the tokens that map to those UIDs.
LEMMA WithoutAt ==
  ASSUME TypeOK, ReverseMapExact, NEW gone \in SUBSET Uids, NEW f, NEW x \in Tokens
  PROVE  Without(f, gone)[x] = IF token_to_uid[x] \in gone THEN Nil ELSE f[x]
<1>1. (\E u \in gone : watchers[u] # Nil /\ watchers[u].token = x)
        <=> token_to_uid[x] \in gone
  BY NilIsAbsent DEF TypeOK, ReverseMapExact
<1> QED BY <1>1 DEF Without

LEMMA MapInvStep ==
  ASSUME TypeOK, MapInv, [Next]_vars
  PROVE  MapInv'
<1> USE NilIsAbsent DEF MapInv
<1>1. CASE MapsUnchanged
  BY <1>1 DEF MapsUnchanged, ReverseMapExact, InterestOwned
<1>2. ASSUME NEW t \in Tokens, NEW c \in Conns, Registers(t, c)
      PROVE  MapInv'
  <2>2. pending[t] = Nil /\ token_to_uid[t] = Nil
    BY <1>2 DEF TypeOK, Registers, InterestOwned, ReverseMapExact
  <2> QED BY <1>2, <2>2 DEF TypeOK, Registers, ReverseMapExact, InterestOwned
<1>3. ASSUME NEW t \in Tokens, Drops(t)
      PROVE  MapInv'
  BY <1>3 DEF TypeOK, Drops, ReverseMapExact, InterestOwned
<1>4. ASSUME NEW o \in Tokens, NEW c \in Conns, NEW u \in Uids, NEW t \in Tokens,
             Subscribes(o, c, u, t)
      PROVE  MapInv'
  <2>1. u \in Uids /\ u # Nil
    OBVIOUS
  <2>2. pending[o] = c /\ token_to_uid[o] = Nil /\ token_to_uid[t] = Nil
        /\ (t # o => pending[t] = Nil)
    BY <1>4 DEF TypeOK, Subscribes, InterestOwned, ReverseMapExact
  <2>3. ASSUME NEW x \in Tokens
        PROVE
          /\ token_to_uid'[x] = IF x = t THEN u
                                ELSE IF token_to_uid[x] = u THEN Nil ELSE token_to_uid[x]
          /\ pending'[x] = IF x = o THEN Nil ELSE pending[x]
          /\ interest'[x] = IF x = t THEN c ELSE IF x = o THEN Nil
                            ELSE IF token_to_uid[x] = u THEN Nil ELSE interest[x]
    <3>1. /\ Without(token_to_uid, {u})[x] =
               IF token_to_uid[x] = u THEN Nil ELSE token_to_uid[x]
          /\ Without(interest, {u})[x] =
               IF token_to_uid[x] = u THEN Nil ELSE interest[x]
      BY <2>1, WithoutAt
    <3>2. /\ DOMAIN Without(token_to_uid, {u}) = Tokens
          /\ DOMAIN Without(interest, {u}) = Tokens
      BY DEF Without
    <3> QED BY <1>4, <3>1, <3>2 DEF Subscribes, TypeOK
  <2>4. \A v \in Uids :
          watchers'[v] = IF v = u THEN [token |-> t, conn |-> c] ELSE watchers[v]
    BY <1>4, <2>1 DEF Subscribes, TypeOK
  <2>5. ReverseMapExact'
    BY SMTT(30), <2>1, <2>2, <2>3, <2>4 DEF TypeOK, ReverseMapExact
  <2>6. InterestOwned'
    BY <2>1, <2>2, <2>3, <2>4 DEF TypeOK, ReverseMapExact, InterestOwned
  <2> QED BY <2>5, <2>6
<1>5. ASSUME NEW gone \in SUBSET Uids, Evicts(gone)
      PROVE  MapInv'
  <2>1. \A x \in Tokens :
          /\ token_to_uid'[x] = IF token_to_uid[x] \in gone THEN Nil ELSE token_to_uid[x]
          /\ interest'[x] = IF token_to_uid[x] \in gone THEN Nil ELSE interest[x]
    BY <1>5, WithoutAt DEF Evicts, evict_watcher
  <2>2. \A v \in Uids : watchers'[v] = IF v \in gone THEN Nil ELSE watchers[v]
    BY <1>5 DEF Evicts, evict_watcher
  <2>3. pending' = pending
    BY <1>5 DEF Evicts
  <2>4. ReverseMapExact'
    BY <2>1, <2>2 DEF TypeOK, ReverseMapExact
  <2>5. InterestOwned'
    BY <2>1, <2>2, <2>3 DEF TypeOK, ReverseMapExact, InterestOwned
  <2> QED BY <2>4, <2>5
<1>6. CASE Clears
  BY <1>6 DEF Clears, ReverseMapExact, InterestOwned
<1> QED BY <1>1, <1>2, <1>3, <1>4, <1>5, <1>6, MapSteps

\* token_to_uid is the inverse of watchers, and every registered stream is
\* owned by one map, in every reachable state of every instance.
THEOREM MapsConsistent == Spec => [](ReverseMapExact /\ InterestOwned)
<1>1. Init => MapInv
  BY NilIsAbsent DEF Init, MapInv, ReverseMapExact, InterestOwned
<1>2. TypeOK /\ MapInv /\ [Next]_vars => MapInv'
  BY MapInvStep
<1> QED BY <1>1, <1>2, TypeCorrect, PTL DEF Spec, MapInv

\* Strengthening of HeldOnce: epoll's interest list and the listener's queue
\* are disjoint and without repetition, and know only clients that connected.
OneHolder ==
  /\ \A s, t \in Tokens : interest[s] # Nil /\ interest[s] = interest[t] => s = t
  /\ \A t \in Tokens : interest[t] # Nil => client[interest[t]] # "idle"
  /\ \A t \in Tokens, i \in 1..Len(backlog) : interest[t] # backlog[i]
  /\ \A i, j \in 1..Len(backlog) : backlog[i] = backlog[j] => i = j
  /\ \A i \in 1..Len(backlog) : client[backlog[i]] # "idle"

LEMMA OneHolderStep ==
  ASSUME TypeOK, MapInv, OneHolder, [Next]_vars
  PROVE  OneHolder'
<1> USE NilIsAbsent
<1>1. ASSUME MapsUnchanged PROVE OneHolder'
  <2>1. CASE QueueStays
    BY <1>1, <2>1 DEF MapsUnchanged, QueueStays, OneHolder
  <2>2. CASE Accepted
    <3>1. /\ Len(Tail(backlog)) = Len(backlog) - 1
          /\ \A i \in 1..Len(Tail(backlog)) :
               i + 1 \in 1..Len(backlog) /\ Tail(backlog)[i] = backlog[i + 1]
      BY <2>2 DEF Accepted, TypeOK
    <3> QED BY <1>1, <2>2, <3>1 DEF MapsUnchanged, Accepted, OneHolder
  <2>3. ASSUME NEW c \in Conns, Arrives(c) PROVE OneHolder'
    <3>1. /\ Len(backlog') = Len(backlog) + 1
          /\ \A i \in 1..Len(backlog') :
               backlog'[i] = IF i = Len(backlog) + 1 THEN c ELSE backlog[i]
      BY <2>3 DEF Arrives, TypeOK
    <3>2. \A i \in 1..Len(backlog) : backlog[i] \in Conns
      BY DEF TypeOK
    <3>3. interest' = interest /\ Len(backlog) \in Nat
      BY <1>1 DEF MapsUnchanged, TypeOK
    <3>4. \A d \in Conns : client'[d] = IF d = c THEN "open" ELSE client[d]
      BY <2>3 DEF Arrives, TypeOK
    <3>5. client[c] = "idle"
      BY <2>3 DEF Arrives
    <3>6. \A i \in 1..Len(backlog') : i = Len(backlog) + 1 \/ i \in 1..Len(backlog)
      BY <3>1, <3>3
    <3>7. \A t \in Tokens : interest[t] # Nil => interest[t] \in Conns /\ interest[t] # c
      BY <3>5 DEF TypeOK, OneHolder
    <3>8. \A i \in 1..Len(backlog) : backlog[i] # c
      BY <3>5 DEF OneHolder
    <3>9. \A t \in Tokens : interest[t] # Nil => client'[interest[t]] # "idle"
      BY <3>4, <3>7 DEF OneHolder
    <3>10. \A t \in Tokens, i \in 1..Len(backlog') : interest[t] # backlog'[i]
      BY <3>1, <3>6, <3>7 DEF OneHolder
    <3>11. \A i, j \in 1..Len(backlog') : backlog'[i] = backlog'[j] => i = j
      BY <3>1, <3>6, <3>8 DEF OneHolder
    <3>12. \A i \in 1..Len(backlog') : client'[backlog'[i]] # "idle"
      BY <3>1, <3>2, <3>4, <3>6 DEF OneHolder
    <3> QED BY <3>3, <3>9, <3>10, <3>11, <3>12 DEF OneHolder
  <2>4. ASSUME NEW c \in Conns, Leaves(c) PROVE OneHolder'
    BY <1>1, <2>4 DEF MapsUnchanged, Leaves, OneHolder, TypeOK
  <2> QED BY <1>1, <2>1, <2>2, <2>3, <2>4 DEF MapsUnchanged
<1>2. ASSUME NEW t \in Tokens, NEW c \in Conns, Registers(t, c)
      PROVE  OneHolder'
  <2>1. /\ Len(backlog') = Len(backlog) - 1
        /\ 1 \in 1..Len(backlog) /\ c = backlog[1]
        /\ \A i \in 1..Len(backlog') :
             i + 1 \in 1..Len(backlog) /\ i + 1 # 1 /\ backlog'[i] = backlog[i + 1]
    BY <1>2 DEF Registers, Accepted, TypeOK
  <2>2. client' = client /\ interest' = [interest EXCEPT ![t] = c]
    BY <1>2 DEF Registers, Accepted
  <2>3. \A x \in Tokens : interest'[x] = IF x = t THEN c ELSE interest[x]
    BY <2>2 DEF TypeOK
  <2>4. \A x \in Tokens : interest[x] # c
    BY <2>1 DEF OneHolder
  <2>5. \A r, x \in Tokens : interest'[r] # Nil /\ interest'[r] = interest'[x] => r = x
    BY <2>3, <2>4 DEF OneHolder
  <2>6. \A x \in Tokens : interest'[x] # Nil => client'[interest'[x]] # "idle"
    BY <2>1, <2>2, <2>3 DEF OneHolder
  <2>7. \A x \in Tokens, i \in 1..Len(backlog') : interest'[x] # backlog'[i]
    <3> SUFFICES ASSUME NEW x \in Tokens, NEW i \in 1..Len(backlog')
                 PROVE  interest'[x] # backlog'[i]
      OBVIOUS
    <3>1. backlog[1] # backlog[i + 1] /\ interest[x] # backlog[i + 1]
      BY <2>1 DEF OneHolder
    <3> QED BY <3>1, <2>1, <2>3
  <2>8. \A i, j \in 1..Len(backlog') : backlog'[i] = backlog'[j] => i = j
    <3> SUFFICES ASSUME NEW i \in 1..Len(backlog'), NEW j \in 1..Len(backlog'),
                        backlog'[i] = backlog'[j]
                 PROVE  i = j
      OBVIOUS
    <3>1. i + 1 = j + 1
      BY <2>1 DEF OneHolder
    <3> QED BY <3>1
  <2>9. \A i \in 1..Len(backlog') : client'[backlog'[i]] # "idle"
    BY <2>1, <2>2 DEF OneHolder
  <2> QED BY <2>5, <2>6, <2>7, <2>8, <2>9 DEF OneHolder
<1>3. ASSUME NEW t \in Tokens, Drops(t)
      PROVE  OneHolder'
  <2>1. \A x \in Tokens : interest'[x] \in {interest[x], Nil}
    BY <1>3 DEF Drops, TypeOK
  <2>2. UNCHANGED <<backlog, client>>
    BY <1>3 DEF Drops, QueueStays
  <2>3. \A i \in 1..Len(backlog) : backlog[i] # Nil
    BY DEF TypeOK
  <2> QED BY <2>1, <2>2, <2>3 DEF OneHolder
<1>4. ASSUME NEW o \in Tokens, NEW c \in Conns, NEW u \in Uids, NEW t \in Tokens,
             Subscribes(o, c, u, t)
      PROVE  OneHolder'
  <2>1. interest[o] = c
    BY <1>4 DEF Subscribes, MapInv, InterestOwned
  <2>2. \A x \in Tokens :
          /\ interest'[x] \in {interest[x], Nil} \/ x = t
          /\ x = t => interest'[x] = c
          /\ x = o /\ x # t => interest'[x] = Nil
    BY <1>4 DEF Subscribes, Without
  <2>3. UNCHANGED <<backlog, client>>
    BY <1>4 DEF Subscribes, QueueStays
  <2>4. \A i \in 1..Len(backlog) : backlog[i] # Nil
    BY DEF TypeOK
  <2> QED BY <2>1, <2>2, <2>3, <2>4 DEF OneHolder
<1>5. ASSUME NEW gone \in SUBSET Uids, Evicts(gone)
      PROVE  OneHolder'
  <2>1. \A x \in Tokens : interest'[x] \in {interest[x], Nil}
    BY <1>5 DEF Evicts, evict_watcher, Without
  <2>2. UNCHANGED <<backlog, client>>
    BY <1>5 DEF Evicts, QueueStays
  <2>3. \A i \in 1..Len(backlog) : backlog[i] # Nil
    BY DEF TypeOK
  <2> QED BY <2>1, <2>2, <2>3 DEF OneHolder
<1>6. ASSUME Clears PROVE OneHolder'
  BY <1>6 DEF Clears, OneHolder
<1> QED BY <1>1, <1>2, <1>3, <1>4, <1>5, <1>6, MapSteps

LEMMA OneHolderInvariant == Spec => [](TypeOK /\ MapInv /\ OneHolder)
<1>1. Init => OneHolder
  BY DEF Init, OneHolder
<1>2. TypeOK /\ MapInv /\ OneHolder /\ [Next]_vars => OneHolder'
  BY OneHolderStep
<1> QED BY <1>1, <1>2, TypeCorrect, MapsConsistent, PTL DEF Spec, MapInv

\* No connection is in two of the daemon's hands.
THEOREM NeverHeldTwice == Spec => []HeldOnce
<1>1. TypeOK /\ MapInv /\ OneHolder => HeldOnce
  <2> SUFFICES ASSUME TypeOK, MapInv, OneHolder PROVE HeldOnce
    OBVIOUS
  <2> USE NilIsAbsent
  <2>1. \A t \in Tokens : pending[t] # Nil => interest[t] = pending[t]
    BY DEF MapInv, InterestOwned
  <2>2. \A u \in Live : /\ watchers[u].token \in Tokens
                        /\ token_to_uid[watchers[u].token] = u
                        /\ interest[watchers[u].token] = watchers[u].conn
                        /\ watchers[u].conn \in Conns
                        /\ pending[watchers[u].token] = Nil
    BY DEF Live, MapInv, InterestOwned, ReverseMapExact, TypeOK
  <2>3. \A u, v \in Live : watchers[u].conn = watchers[v].conn => u = v
    BY <2>2 DEF OneHolder
  <2>4. ASSUME NEW c \in Conns
        PROVE  /\ ~(InBacklog(c) /\ IsPending(c))
               /\ ~(InBacklog(c) /\ Watching(c))
               /\ ~(IsPending(c) /\ Watching(c))
    BY <2>1, <2>2 DEF InBacklog, IsPending, Watching, Live, OneHolder
  <2> QED BY <2>1, <2>3, <2>4 DEF HeldOnce, OneHolder
<1> QED BY <1>1, OneHolderInvariant, PTL

----------------------------------------------------------------------------
(***************************************************************************)
(* What the watchers are told.  A step says nothing, answers one pending   *)
(* client, subscribes it, or announces a package to all watchers.          *)
(***************************************************************************)
Shrinks == \A u \in Uids : watchers'[u] \in {watchers[u], Nil}

\* Nothing is written; last_package stays, or is forgotten.
Silent == Shrinks /\ UNCHANGED heard /\ last_package' \in {last_package, Nil}

Answers(t, c, u) ==
  /\ pending[t] = c /\ Permitted(u) /\ u \in Names(c)'
  /\ \E line : Deliver({c}, line)
  /\ UNCHANGED <<watchers, last_package>>

Tells(o, c, u, t) ==
  /\ Subscribes(o, c, u, t) /\ u \in Names(c)'
  /\ \E res \in Resolved(FALSE) : WatchAnswer(c, u, res)

TellsUnregistered(t, c, u) ==
  /\ "add" \in Faults
  /\ pending[t] = c /\ u \in Names(c)'
  /\ \E res \in Resolved(FALSE) : WatchAnswer(c, u, res)
  /\ UNCHANGED watchers

Announces ==
  /\ Shrinks
  /\ Deliver({watchers[u].conn : u \in Live}, last_package')

\* A command is answered under a name of its sender.
LEMMA CommandNames ==
  ASSUME NEW e, NEW c \in Conns, NEW u \in PeerUids(c), NEW cmds,
         TakeCommand(e, c, u, cmds)
  PROVE  u \in Names(c)'
  BY DEF TakeCommand, PeerUids, Names

LEMMA TellSteps ==
  ASSUME TypeOK, [Next]_vars
  PROVE  \/ Silent
         \/ \E t \in Tokens, c \in Conns, u \in Uids : Answers(t, c, u)
         \/ \E o \in Tokens, c \in Conns, u \in Uids, t \in Tokens :
              Tells(o, c, u, t)
         \/ \E t \in Tokens, c \in Conns, u \in Uids : TellsUnregistered(t, c, u)
         \/ Announces
<1> USE DEF Silent, Shrinks
<1>1. CASE Environment
  BY <1>1 DEF Environment, FocusChanges, CgroupChanges, Terminate, Connect,
              HangUp, Send
<1>2. CASE Wait \/ AcceptOverBurst \/ AcceptStops \/ BatchDone \/ Dedup \/ Accept
  BY <1>2 DEF Wait, Accept, AcceptNext, AcceptOverBurst, AcceptStops, BatchDone, Dedup
<1>3. ASSUME NEW e \in batch, PendingHangup(e) \/ StaleEvent(e) \/ DispatchSource(e)
      PROVE  Silent
  BY <1>3 DEF PendingHangup, StaleEvent, DispatchSource, StartAccept, Signalled,
              BinderReady, InotifyReady
<1>4. ASSUME NEW e \in batch, NEW c \in Conns, NEW u \in PeerUids(c), Refuse(e, c, u)
      PROVE  Silent
  BY <1>4 DEF Refuse
<1>5. ASSUME NEW e \in batch, NEW c \in Conns, NEW u \in PeerUids(c), Status(e, c, u) \/ Unknown(e, c, u)
      PROVE  \E t \in Tokens, w \in Uids : Answers(t, c, w)
  <2>1. e.token \in Tokens /\ pending[e.token] = c /\ u \in Names(c)' /\ u \in Uids
    BY <1>5, CommandNames, PeerUidsType DEF Status, Unknown, TakeCommand
  <2>2. PICK line : Reply(e, c, u, line)
    BY <1>5 DEF Status, Unknown
  <2> QED BY <2>1, <2>2 DEF Answers, Reply
<1>6. ASSUME NEW e \in batch, NEW c \in Conns, NEW u \in PeerUids(c), Watch(e, c, u)
      PROVE  \E o \in Tokens, w \in Uids, t \in Tokens : Tells(o, c, w, t)
  <2>1. u \in Names(c)' /\ u \in Uids
    BY <1>6, CommandNames, PeerUidsType DEF Watch
  <2> QED BY <1>6, <2>1, WatchSubscribes DEF Tells, Watch
<1>7. ASSUME NEW e \in batch, NEW c \in Conns, NEW u \in PeerUids(c),
             WatchNotAdded(e, c, u)
      PROVE  \E t \in Tokens, w \in Uids : TellsUnregistered(t, c, w)
  <2>1. u \in Names(c)' /\ u \in Uids
    BY <1>7, CommandNames, PeerUidsType DEF WatchNotAdded
  <2> QED BY <1>7, <2>1 DEF WatchNotAdded, TakeCommand, TellsUnregistered
<1>8. ASSUME NEW e \in batch, WatcherReady(e)
      PROVE  Silent
  BY <1>8 DEF WatcherReady, evict_watcher
<1>9. CASE NoNotification \/ NothingNew
  BY <1>9 DEF NoNotification, NothingNew
<1>10. CASE Push
  BY <1>10 DEF Push, Announces, evict_watcher
<1>11. CASE UNCHANGED vars
  BY <1>11 DEF vars
<1> QED
  BY <1>1, <1>2, <1>3, <1>4, <1>5, <1>6, <1>7, <1>8, <1>9, <1>10, <1>11
     DEF Next, Run, DispatchStream

LEMMA BootFixed ==
  ASSUME [Next]_vars PROVE boot' = boot
<1>1. CASE Environment
  BY <1>1 DEF Environment, FocusChanges, CgroupChanges, Terminate, Connect,
              HangUp, Send
<1>2. CASE Wait \/ Accept \/ AcceptOverBurst \/ AcceptStops \/ BatchDone \/ Dedup
  BY <1>2 DEF Wait, Accept, AcceptNext, AcceptOverBurst, AcceptStops, BatchDone,
              Dedup
<1>3. ASSUME NEW e \in batch, DispatchStream(e) \/ DispatchSource(e)
      PROVE  boot' = boot
  BY <1>3 DEF DispatchStream, PendingHangup, Refuse, Status, Unknown, Watch,
              WatchNotAdded, TakeCommand, WatcherReady, StaleEvent,
              DispatchSource, StartAccept, Signalled, BinderReady, InotifyReady
<1>4. CASE NoNotification \/ NothingNew \/ Push
  BY <1>4 DEF NoNotification, NothingNew, Push, NextIteration
<1>5. CASE UNCHANGED vars
  BY <1>5 DEF vars
<1> QED BY <1>1, <1>2, <1>3, <1>4, <1>5 DEF Next, Run

LEMMA NamelessGrows ==
  ASSUME [Next]_vars PROVE nameless \subseteq nameless'
<1>1. CASE Environment
  BY <1>1 DEF Environment, FocusChanges, CgroupChanges, Terminate, Connect,
              HangUp, Send
<1>2. CASE Wait \/ Accept \/ AcceptOverBurst \/ AcceptStops \/ BatchDone \/ Dedup
  BY <1>2 DEF Wait, Accept, AcceptNext, AcceptOverBurst, AcceptStops, BatchDone,
              Dedup
<1>3. ASSUME NEW e \in batch, DispatchStream(e) \/ DispatchSource(e)
      PROVE  nameless \subseteq nameless'
  BY <1>3 DEF DispatchStream, PendingHangup, Refuse, Status, Unknown, Watch,
              WatchNotAdded, TakeCommand, WatcherReady, StaleEvent,
              DispatchSource, StartAccept, Signalled, BinderReady, InotifyReady
<1>4. CASE NoNotification \/ NothingNew \/ Push
  BY <1>4 DEF NoNotification, NothingNew, Push, NextIteration
<1>5. CASE UNCHANGED vars
  BY <1>5 DEF vars
<1> QED BY <1>1, <1>2, <1>3, <1>4, <1>5 DEF Next, Run

\* What a connection may be served under only grows.
LEMMA NamesGrow ==
  ASSUME [Next]_vars
  PROVE  /\ \A c \in Conns : Names(c) \subseteq Names(c)'
         /\ \A u \in Uids : Permitted(u) <=> Permitted(u)'
<1>1. boot' = boot /\ nameless \subseteq nameless'
  BY BootFixed, NamelessGrows
<1> QED BY <1>1 DEF Names, Permitted

\* Only connections that daemon_uid permits under one of their names, their own
\* UID or Root where the credentials could not be read, receive anything, and a
\* watcher's slot is that of such a name.
THEOREM AllowedOnly == Spec => []OnlyAllowedServed
<1>1. Init => OnlyAllowedServed
  BY NilIsAbsent DEF Init, OnlyAllowedServed
<1>2. ASSUME TypeOK, OnlyAllowedServed, [Next]_vars
      PROVE  OnlyAllowedServed'
  <2> USE NilIsAbsent
  <2>0. /\ \A c \in Conns : Names(c) \subseteq Names(c)' /\ Names(c) \subseteq Uids
        /\ \A u \in Uids : Permitted(u) <=> Permitted(u)'
    BY <1>2, NamesGrow, ConstantsOK DEF Names
  <2> DEFINE N == [c \in Conns |-> Names(c)']
             P == {u \in Uids : Permitted(u)'}
             MayHear(c) == \E u \in N[c] : u \in P
             MayHold(u, w) == w # Nil => w.conn \in Conns /\ u \in N[w.conn] /\ u \in P
  <2>1. \A c \in Conns : heard[c] # Nil => MayHear(c)
    BY <1>2, <2>0 DEF OnlyAllowedServed
  <2>2. \A u \in Uids : MayHold(u, watchers[u])
    BY <1>2, <2>0 DEF OnlyAllowedServed, TypeOK
  <2>3. ASSUME \A c \in Conns : heard'[c] = heard[c] \/ MayHear(c),
               \A u \in Uids : watchers'[u] \in {watchers[u], Nil} \/ MayHold(u, watchers'[u])
        PROVE  OnlyAllowedServed'
    <3>1. \A c \in Conns : heard'[c] # Nil => MayHear(c)
      BY <2>1, <2>3
    <3>2. \A u \in Uids : MayHold(u, watchers'[u])
      BY <2>2, <2>3
    <3>3. \A c \in Conns :
            N[c] = {UidOf[c]} \cup (IF c \in nameless' THEN {Root} ELSE {})
      BY DEF Names
    <3>4. \A u \in Uids : u \in P <=> Permitted(u)'
      OBVIOUS
    <3> HIDE DEF N, P
    <3>5. \A u \in Uids : (watchers[u] # Nil =>
            Permitted(u) /\ u \in Names(watchers[u].conn))'
      BY <3>2, <3>3, <3>4 DEF Names
    <3>6. \A c \in Conns : (heard[c] # Nil => \E u \in Names(c) : Permitted(u))'
      <4>1. \A c \in Conns : N[c] \subseteq Uids
        BY <3>3, ConstantsOK
      <4> QED BY <3>1, <3>3, <3>4, <4>1 DEF Names
    <3> QED BY <3>5, <3>6 DEF OnlyAllowedServed
  <2> HIDE DEF MayHear, MayHold
  <2>4. CASE Silent
    BY <2>3, <2>4 DEF Silent, Shrinks
  <2>5. ASSUME NEW t \in Tokens, NEW c \in Conns, NEW u \in Uids, Answers(t, c, u)
        PROVE  OnlyAllowedServed'
    <3>1. MayHear(c)
      BY <2>0, <2>5 DEF Answers, MayHear
    <3> QED BY <2>3, <2>5, <3>1 DEF Answers, Deliver
  <2>6. ASSUME NEW o \in Tokens, NEW c \in Conns, NEW u \in Uids, NEW t \in Tokens,
               Tells(o, c, u, t)
        PROVE  OnlyAllowedServed'
    <3>1. Permitted(u)' /\ u \in Names(c)'
      BY <2>0, <2>6 DEF Tells, WatchAnswer
    <3>2. watchers' = [watchers EXCEPT ![u] = [token |-> t, conn |-> c]]
      BY <2>6 DEF Tells, Subscribes
    <3>3. \A d \in Conns : heard'[d] = heard[d] \/ d = c
      BY <1>2, <2>6 DEF Tells, WatchAnswer, Deliver, TypeOK
    <3>4. MayHear(c)
      BY <3>1 DEF MayHear
    <3>5. MayHold(u, watchers'[u])
      BY <1>2, <3>1, <3>2 DEF MayHold, TypeOK
    <3> QED BY <1>2, <2>3, <3>2, <3>3, <3>4, <3>5 DEF TypeOK
  <2>7. ASSUME NEW t \in Tokens, NEW c \in Conns, NEW u \in Uids,
               TellsUnregistered(t, c, u)
        PROVE  OnlyAllowedServed'
    <3>1. MayHear(c)
      BY <2>0, <2>7 DEF TellsUnregistered, WatchAnswer, MayHear
    <3>2. \A d \in Conns : heard'[d] = heard[d] \/ d = c
      BY <1>2, <2>7 DEF TellsUnregistered, WatchAnswer, Deliver, TypeOK
    <3> QED BY <2>3, <2>7, <3>1, <3>2 DEF TellsUnregistered
  <2>8. CASE Announces
    <3>1. \A c \in Conns : heard'[c] = heard[c] \/ \E u \in Live : watchers[u].conn = c
      BY <2>8 DEF Announces, Deliver
    <3>2. \A u \in Live : MayHear(watchers[u].conn)
      BY <2>2 DEF Live, MayHold, MayHear
    <3> QED BY <2>3, <2>8, <3>1, <3>2 DEF Announces, Shrinks
  <2> QED BY <1>2, <2>4, <2>5, <2>6, <2>7, <2>8, TellSteps
<1> QED BY <1>1, <1>2, TypeCorrect, PTL DEF Spec

----------------------------------------------------------------------------
(***************************************************************************)
(* One comparison for all watchers.                                        *)
(***************************************************************************)

LEMMA BrokenForever ==
  ASSUME TypeOK, [Next]_vars, NEW c \in Conns, client[c] = "closed"
  PROVE  client'[c] = "closed"
<1>1. CASE QueueStays
  BY <1>1 DEF QueueStays
<1>2. ASSUME NEW d \in Conns, Arrives(d) \/ Leaves(d) PROVE client'[c] = "closed"
  BY <1>2 DEF Arrives, Leaves, TypeOK
<1>3. CASE Accepted
  BY <1>3 DEF Accepted
<1>4. CASE Clears
  BY <1>4 DEF Clears
<1> QED BY <1>1, <1>2, <1>3, <1>4, MapSteps
        DEF MapsUnchanged, Registers, Drops, Subscribes, Evicts

\* A pending client is nobody's watcher.
LEMMA PendingNotWatching ==
  ASSUME TypeOK, MapInv, OneHolder, NEW t \in Tokens, pending[t] # Nil,
         NEW u \in Live
  PROVE  watchers[u].conn # pending[t]
<1>1. interest[t] = pending[t]
  BY DEF MapInv, InterestOwned
<1>2. /\ watchers[u].token \in Tokens
      /\ token_to_uid[watchers[u].token] = u
      /\ interest[watchers[u].token] = watchers[u].conn
      /\ pending[watchers[u].token] = Nil
  BY NilIsAbsent DEF Live, MapInv, InterestOwned, ReverseMapExact, TypeOK
<1> QED BY <1>1, <1>2 DEF OneHolder

LEMMA InSyncStep ==
  ASSUME "add" \notin Faults, TypeOK, MapInv, OneHolder,
         OnlyAllowedServed, WatchersInSync, [Next]_vars
  PROVE  WatchersInSync'
<1> SUFFICES ASSUME SoleUid', last_package' # Nil, NEW u \in Uids, watchers'[u] # Nil
             PROVE  \/ watchers'[u].conn \in SlowConns
                    \/ client'[watchers'[u].conn] = "closed"
                    \/ heard'[watchers'[u].conn] = last_package'
  BY DEF WatchersInSync, Broken
<1> USE NilIsAbsent
<1>0. SoleUid
  BY BootFixed DEF SoleUid
<1>1. CASE Silent
  <2>1. watchers'[u] = watchers[u] /\ last_package' = last_package
    BY <1>1 DEF Silent, Shrinks
  <2>2. watchers[u].conn \in Conns /\ heard' = heard
    BY <1>1, <2>1 DEF TypeOK, Silent
  <2> QED BY <1>0, <2>1, <2>2, BrokenForever DEF WatchersInSync, Broken
<1>2. ASSUME NEW t \in Tokens, NEW c \in Conns, NEW w \in Uids, Answers(t, c, w)
      PROVE  \/ watchers'[u].conn \in SlowConns
             \/ client'[watchers'[u].conn] = "closed"
             \/ heard'[watchers'[u].conn] = last_package'
  <2>1. watchers' = watchers /\ last_package' = last_package /\ u \in Live
    BY <1>2 DEF Answers, Live
  <2>2. watchers[u].conn \in Conns /\ watchers[u].conn # c
    BY <1>2, <2>1, PendingNotWatching DEF Answers, Live, TypeOK
  <2>3. heard'[watchers[u].conn] = heard[watchers[u].conn]
    BY <1>2, <2>2 DEF Answers, Deliver
  <2> QED BY <1>0, <2>1, <2>2, <2>3, BrokenForever DEF WatchersInSync, Broken
<1>3. ASSUME NEW o \in Tokens, NEW c \in Conns, NEW w \in Uids, NEW t \in Tokens,
             Tells(o, c, w, t)
      PROVE  \/ watchers'[u].conn \in SlowConns
             \/ client'[watchers'[u].conn] = "closed"
             \/ heard'[watchers'[u].conn] = last_package'
  <2>1. PICK res \in Resolved(FALSE) : WatchAnswer(c, w, res)
    BY <1>3 DEF Tells
  <2>2. res # Nil /\ last_package' = res /\ Permitted(w)
        /\ Deliver({c}, res)
    BY <2>1 DEF WatchAnswer
  <2>3. watchers' = [watchers EXCEPT ![w] = [token |-> t, conn |-> c]]
    BY <1>3 DEF Tells, Subscribes
  <2>4. u = w
    BY <1>0, <2>2, <2>3 DEF SoleUid, Permitted, OnlyAllowedServed, TypeOK
  <2>5. watchers'[u].conn = c
    BY <2>3, <2>4 DEF TypeOK
  <2>6. c \in SlowConns \/ Broken(c) \/ heard'[c] = res
    BY <2>2 DEF Deliver
  <2> QED BY <2>2, <2>5, <2>6, BrokenForever DEF Broken
<1>4. CASE Announces
  <2>1. watchers'[u] = watchers[u] /\ u \in Live
    BY <1>4 DEF Announces, Shrinks, Live
  <2>2. watchers[u].conn \in Conns
    BY <2>1 DEF Live, TypeOK
  <2>3. \/ watchers[u].conn \in SlowConns
        \/ Broken(watchers[u].conn)
        \/ heard'[watchers[u].conn] = last_package'
    BY <1>4, <2>1, <2>2 DEF Announces, Deliver
  <2> QED BY <2>1, <2>2, <2>3, BrokenForever DEF Broken
<1> QED BY <1>1, <1>2, <1>3, <1>4, TellSteps DEF TellsUnregistered

\* Where daemon_uid is set and registrations do not fail, last_package is what the
\* watcher was last told, so that comparing the foreground with it decides.
THEOREM OneUidInSync ==
  ASSUME "add" \notin Faults
  PROVE  Spec => []WatchersInSync
<1>1. Init => WatchersInSync
  BY DEF Init, WatchersInSync
<1>2. TypeOK /\ MapInv /\ OneHolder /\ OnlyAllowedServed /\ WatchersInSync /\ [Next]_vars
        => WatchersInSync'
  BY InSyncStep
<1> QED BY <1>1, <1>2, OneHolderInvariant, AllowedOnly, PTL DEF Spec

----------------------------------------------------------------------------
(***************************************************************************)
(* No focus change is forgotten.                                           *)
(***************************************************************************)

\* What the flags and the batch can be at each point of an iteration.
FlagsFit ==
  /\ pc \notin {"dispatch", "accept"} => batch = {}
  /\ pc = "wait" => ~binder_event /\ ~notify_needed
  /\ pc = "notify" /\ binder_event => notify_needed

LEMMA FlagsFitStep ==
  ASSUME TypeOK, FlagsFit, [Next]_vars
  PROVE  FlagsFit'
<1> USE DEF FlagsFit
<1>1. CASE Environment
  BY <1>1 DEF Environment, FocusChanges, CgroupChanges, Terminate, Connect,
              HangUp, Send
<1>2. CASE Wait \/ Accept \/ AcceptOverBurst \/ AcceptStops \/ BatchDone
  BY <1>2 DEF Wait, Accept, AcceptNext, AcceptOverBurst, AcceptStops, BatchDone
<1>3. ASSUME NEW e \in batch, PendingHangup(e) \/ WatcherReady(e) \/ StaleEvent(e)
                                \/ DispatchSource(e)
      PROVE  FlagsFit'
  BY <1>3 DEF PendingHangup, WatcherReady, StaleEvent, DispatchSource,
              StartAccept, Signalled, BinderReady, InotifyReady, Dispatch
<1>4. ASSUME NEW e \in batch, NEW c \in Conns, NEW u \in PeerUids(c),
             Refuse(e, c, u) \/ Status(e, c, u) \/ Unknown(e, c, u) \/ Watch(e, c, u)
               \/ WatchNotAdded(e, c, u)
      PROVE  FlagsFit'
  BY <1>4 DEF Refuse, Status, Unknown, Watch, WatchNotAdded, TakeCommand, Dispatch
<1>5. CASE Dedup
  BY <1>5 DEF Dedup
<1>6. CASE NoNotification \/ NothingNew \/ Push
  BY <1>6 DEF NoNotification, NothingNew, Push, NextIteration
<1>7. CASE UNCHANGED vars
  BY <1>7 DEF vars
<1> QED
  BY <1>1, <1>2, <1>3, <1>4, <1>5, <1>6, <1>7 DEF Next, Run, DispatchStream

\* Where the observer drives the loop, resolving asks the binder.
LEMMA ObserverResolves ==
  ASSUME TypeOK, ByObserver, "resolve" \notin Faults
  PROVE  /\ resolve_foreground_inner(FALSE) = focus
         /\ Resolved(FALSE) = {focus}
BY DEF TypeOK, BootRecords, ByObserver, resolve_foreground_inner, Resolved

BinderInBatch == \E e \in batch : e.token = "binder"

LEMMA ChangeStep ==
  ASSUME "resolve" \notin Faults, TypeOK, FlagsFit, ChangeIsPending, [Next]_vars
  PROVE  ChangeIsPending'
<1> SUFFICES ASSUME ByObserver', HasWatchers', last_package' # focus'
             PROVE  efd' \/ binder_event' \/ BinderInBatch'
  BY DEF ChangeIsPending, BinderInBatch
<1> USE DEF BinderInBatch
<1>0. boot' = boot /\ ByObserver
  <2>1. boot' = boot
    BY BootFixed
  <2> QED BY <2>1 DEF ByObserver
<1>1. CASE Environment
  BY <1>0, <1>1 DEF Environment, FocusChanges, CgroupChanges, Terminate, Connect,
         HangUp, Send, ByObserver, ChangeIsPending, HasWatchers, Live
<1>2. CASE Wait \/ Accept \/ AcceptOverBurst \/ AcceptStops \/ BatchDone \/ Dedup
  BY <1>0, <1>2 DEF Wait, Accept, AcceptNext, AcceptOverBurst, AcceptStops,
         BatchDone, Dedup, ChangeIsPending, HasWatchers, Live, FlagsFit
<1>3. ASSUME NEW e \in batch, DispatchSource(e)
      PROVE  efd' \/ binder_event' \/ BinderInBatch'
  BY <1>0, <1>3 DEF DispatchSource, StartAccept, Signalled, BinderReady,
         InotifyReady, Dispatch, ChangeIsPending, HasWatchers, Live
<1>4. ASSUME NEW e \in batch,
             PendingHangup(e) \/ WatcherReady(e) \/ StaleEvent(e)
               \/ \E c \in Conns : \E u \in PeerUids(c) :
                      Refuse(e, c, u) \/ Status(e, c, u) \/ Unknown(e, c, u)
      PROVE  efd' \/ binder_event' \/ BinderInBatch'
  <2>1. e.token # "binder" /\ batch' = batch \ {e}
    BY <1>4, TokensAreOpaque DEF PendingHangup, WatcherReady, StaleEvent, Refuse,
           Status, Unknown, TakeCommand, Dispatch
  <2>2. HasWatchers /\ last_package' = last_package
          /\ UNCHANGED <<focus, efd, binder_event>>
    BY <1>4 DEF PendingHangup, WatcherReady, evict_watcher, StaleEvent, Refuse,
           Status, Unknown, Reply, TakeCommand, HasWatchers, Live
  <2> QED BY <1>0, <2>1, <2>2 DEF ChangeIsPending
<1>5. ASSUME NEW e \in batch, NEW c \in Conns, NEW u \in PeerUids(c), Watch(e, c, u) \/ WatchNotAdded(e, c, u)
      PROVE  FALSE
  <2>1. last_package' \in Resolved(FALSE) /\ focus' = focus
    BY <1>5 DEF Watch, WatchNotAdded, WatchAnswer, TakeCommand
  <2>2. Resolved(FALSE) = {focus}
    BY <1>0, ObserverResolves
  <2> QED BY <2>1, <2>2
<1>6. CASE NoNotification
  BY <1>0, <1>6 DEF NoNotification, NextIteration, HasWatchers, Live, FlagsFit,
         ChangeIsPending
<1>7. CASE NothingNew \/ Push
  <2>1. last_package' \in Resolved(FALSE) /\ focus' = focus
    BY <1>7 DEF NothingNew, Push, NextIteration
  <2>2. Resolved(FALSE) = {focus}
    BY <1>0, ObserverResolves
  <2> QED BY <2>1, <2>2
<1>8. CASE UNCHANGED vars
  BY <1>0, <1>8 DEF vars, HasWatchers, Live, ChangeIsPending
<1> QED
  BY <1>1, <1>2, <1>3, <1>4, <1>5, <1>6, <1>7, <1>8 DEF Next, Run, DispatchStream

LEMMA FlagsFitInvariant == Spec => [](TypeOK /\ FlagsFit)
<1>1. Init => FlagsFit
  BY DEF Init, FlagsFit
<1>2. TypeOK /\ FlagsFit /\ [Next]_vars => FlagsFit'
  BY FlagsFitStep
<1> QED BY <1>1, <1>2, TypeCorrect, PTL DEF Spec

\* While binder calls succeed, a focus that differs from last_package is still to
\* be compared with it, for any number of watchers, UIDs and faults of the reactor.
\* (What the watchers have been told is NoWatcherForgotten's matter.)
THEOREM NoChangeForgotten ==
  ASSUME "resolve" \notin Faults
  PROVE  Spec => []ChangeIsPending
<1>1. Init => ChangeIsPending
  BY DEF Init, ChangeIsPending, HasWatchers, Live
<1>2. TypeOK /\ FlagsFit /\ ChangeIsPending /\ [Next]_vars => ChangeIsPending'
  BY ChangeStep
<1> QED BY <1>1, <1>2, FlagsFitInvariant, PTL DEF Spec

\* A watcher that has not been told the focus, though it could have been.
Untold(u) ==
  /\ watchers[u] # Nil
  /\ LET c == watchers[u].conn IN
     c \notin SlowConns /\ ~Broken(c) /\ heard[c] # focus

\* While a watcher has not been told the focus, the eventfd, the batch or the
\* iteration's flag still announces the change.
UntoldIsPending ==
  ByObserver /\ SoleUid /\ focus # Nil /\ (\E u \in Uids : Untold(u))
    => efd \/ binder_event \/ BinderInBatch

\* With daemon_uid set, and binder calls and registrations that succeed, no
\* watcher is left behind: who does not know the focus is about to be told.
THEOREM NoWatcherForgotten ==
  ASSUME Faults \cap {"add", "resolve"} = {}
  PROVE  Spec => []UntoldIsPending
<1>1. "add" \notin Faults /\ "resolve" \notin Faults
  OBVIOUS
<1>2. WatchersInSync /\ ChangeIsPending => UntoldIsPending
  BY DEF WatchersInSync, ChangeIsPending, UntoldIsPending, Untold, BinderInBatch,
         HasWatchers, Live
<1>3. Spec => []WatchersInSync
  BY <1>1, OneUidInSync
<1>4. Spec => []ChangeIsPending
  BY <1>1, NoChangeForgotten
<1> QED BY <1>2, <1>3, <1>4, PTL

\* With daemon_uid set, and binder calls and registrations that succeed, an idle
\* daemon whose events come from the observer has told its watcher the package
\* that is in the foreground.
THEOREM OneUidCurrent ==
  ASSUME Faults \cap {"add", "resolve"} = {}
  PROVE  Spec => []ObservedWatchersCurrent
<1>1. TypeOK /\ MapInv /\ FlagsFit /\ WatchersInSync /\ ChangeIsPending
        => ObservedWatchersCurrent
  <2> SUFFICES ASSUME TypeOK, MapInv, FlagsFit, WatchersInSync, ChangeIsPending,
                      ByObserver, SoleUid, Idle, focus # Nil, NEW u \in Live
               PROVE  \/ watchers[u].conn \in SlowConns
                      \/ heard[watchers[u].conn] = focus
    BY ObserverResolves DEF ObservedWatchersCurrent, WatchersCurrent, Live
  <2>1. ~efd /\ ~binder_event /\ batch = {}
    <3>1. efd => Event("binder", FALSE) \in Ready
      BY DEF Ready, Event
    <3> QED BY <3>1 DEF Idle, FlagsFit
  <2>2. last_package = focus
    BY <2>1 DEF ChangeIsPending, HasWatchers
  <2>3. ~Broken(watchers[u].conn)
    <3>1. watchers[u].token \in Tokens
          /\ interest[watchers[u].token] = watchers[u].conn
          /\ watchers[u].conn # Nil
      BY NilIsAbsent DEF Live, TypeOK, MapInv, ReverseMapExact, InterestOwned
    <3>2. Broken(watchers[u].conn)
            => Event(watchers[u].token, TRUE) \in Ready
      BY <3>1 DEF Ready, Broken
    <3> QED BY <3>2 DEF Idle
  <2> QED BY <2>2, <2>3 DEF WatchersInSync, Live
<1>2. "add" \notin Faults /\ "resolve" \notin Faults
  OBVIOUS
<1>3. Spec => []WatchersInSync
  BY <1>2, OneUidInSync
<1>4. Spec => []ChangeIsPending
  BY <1>2, NoChangeForgotten
<1> QED BY <1>1, <1>3, <1>4, OneHolderInvariant, FlagsFitInvariant, PTL

----------------------------------------------------------------------------
(* The cgroup source.  A binder event makes the dedup leave the payload     *)
(* unread, so that the invariant has to say that there is none where        *)
(* cgroup.procs is watched.                                                 *)

InotifyInBatch == \E e \in batch : e.token = "inotify"

NoBinderEvents == WatchesCgroup => ~efd /\ ~binder_event /\ ~BinderInBatch

LEMMA NoBinderEventsStep ==
  ASSUME TypeOK, NoBinderEvents, [Next]_vars
  PROVE  NoBinderEvents'
<1> USE DEF NoBinderEvents, BinderInBatch, WatchesCgroup
<1>0. boot' = boot /\ (boot.token => boot.efd)
  BY BootFixed DEF TypeOK, BootRecords
<1>1. CASE Environment
  BY <1>0, <1>1 DEF Environment, FocusChanges, CgroupChanges, Terminate, Connect,
         HangUp, Send
<1>2. CASE Wait
  <2>1. ASSUME NEW e \in Ready, e.token = "binder" PROVE efd
    BY <2>1, TokensAreOpaque DEF Ready, Event
  <2>2. batch' \in SUBSET Ready /\ UNCHANGED <<efd, binder_event>>
    BY <1>2 DEF Wait
  <2> QED BY <1>0, <2>1, <2>2
<1>3. CASE Accept \/ AcceptOverBurst \/ AcceptStops \/ BatchDone \/ Dedup
  BY <1>0, <1>3 DEF Accept, AcceptNext, AcceptOverBurst, AcceptStops, BatchDone, Dedup
<1>4. ASSUME NEW e \in batch, DispatchSource(e)
      PROVE  NoBinderEvents'
  BY <1>0, <1>4 DEF DispatchSource, StartAccept, Signalled, BinderReady, InotifyReady,
         Dispatch
<1>5. ASSUME NEW e \in batch, DispatchStream(e)
      PROVE  NoBinderEvents'
  <2>1. batch' = batch \ {e} /\ UNCHANGED <<efd, binder_event>>
    BY <1>5 DEF DispatchStream, PendingHangup, WatcherReady, StaleEvent, Refuse, Status,
           Unknown, Watch, WatchNotAdded, TakeCommand, Dispatch
  <2> QED BY <1>0, <2>1
<1>6. CASE NoNotification \/ NothingNew \/ Push
  BY <1>0, <1>6 DEF NoNotification, NothingNew, Push, NextIteration
<1>7. CASE UNCHANGED vars
  BY <1>7 DEF vars
<1> QED
  BY <1>1, <1>2, <1>3, <1>4, <1>5, <1>6, <1>7 DEF Next, Run

LEMMA PayloadStep ==
  ASSUME TypeOK, FlagsFit, NoBinderEvents, PayloadChangeIsPending, [Next]_vars
  PROVE  PayloadChangeIsPending'
<1> SUFFICES ASSUME WatchesCgroup', (last_v1_payload \notin {NoPayload, PayloadOf[cg]})'
             PROVE  \/ pc' = "exited"
                    \/ ino' \/ InotifyInBatch'
                    \/ notify_needed' /\ pc' \in {"dispatch", "accept", "dedup"}
  BY DEF PayloadChangeIsPending, InotifyInBatch
<1> USE DEF InotifyInBatch
<1>0. boot' = boot /\ WatchesCgroup
  BY BootFixed DEF WatchesCgroup
<1>1. CASE Environment
  BY <1>0, <1>1 DEF Environment, FocusChanges, CgroupChanges, Terminate, Connect,
         HangUp, Send, PayloadChangeIsPending
<1>2. CASE Wait \/ Accept \/ AcceptOverBurst \/ AcceptStops \/ BatchDone
  BY <1>0, <1>2 DEF Wait, Accept, AcceptNext, AcceptOverBurst, AcceptStops,
         BatchDone, PayloadChangeIsPending, FlagsFit
<1>3. CASE Dedup
  BY <1>0, <1>3 DEF Dedup, Compare, Payloads, PayloadChangeIsPending, NoBinderEvents,
         FlagsFit
<1>4. ASSUME NEW e \in batch, DispatchSource(e)
      PROVE  \/ pc' = "exited"
             \/ ino' \/ InotifyInBatch'
             \/ notify_needed' /\ pc' \in {"dispatch", "accept", "dedup"}
  BY <1>0, <1>4 DEF DispatchSource, StartAccept, Signalled, BinderReady, InotifyReady,
         Dispatch, PayloadChangeIsPending
<1>5. ASSUME NEW e \in batch, DispatchStream(e)
      PROVE  \/ ino' \/ InotifyInBatch'
             \/ notify_needed' /\ pc' \in {"dispatch", "accept", "dedup"}
  <2>1. e.token # "inotify" /\ batch' = batch \ {e} /\ pc = "dispatch"
    BY <1>5, TokensAreOpaque DEF DispatchStream, PendingHangup, WatcherReady, StaleEvent,
           Refuse, Status, Unknown, Watch, WatchNotAdded, TakeCommand, Dispatch
  <2>2. UNCHANGED <<cg, last_v1_payload, ino, notify_needed, pc>>
    BY <1>5 DEF DispatchStream, PendingHangup, WatcherReady, StaleEvent, Refuse, Status,
           Unknown, Watch, WatchNotAdded, TakeCommand, Reply
  <2> QED BY <1>0, <2>1, <2>2 DEF PayloadChangeIsPending
<1>6. CASE NoNotification \/ NothingNew \/ Push
  BY <1>0, <1>6 DEF NoNotification, NothingNew, Push, NextIteration,
         PayloadChangeIsPending
<1>7. CASE UNCHANGED vars
  BY <1>0, <1>7 DEF vars, PayloadChangeIsPending
<1> QED
  BY <1>1, <1>2, <1>3, <1>4, <1>5, <1>6, <1>7 DEF Next, Run

\* A payload of cgroup.procs that the dedup has not seen is announced, or about
\* to be compared (daemon.rs:288-305), whatever fails.
THEOREM NoPayloadForgotten == Spec => []PayloadChangeIsPending
<1>1. Init => NoBinderEvents /\ PayloadChangeIsPending
  BY DEF Init, NoBinderEvents, BinderInBatch, PayloadChangeIsPending
<1>2. TypeOK /\ NoBinderEvents /\ [Next]_vars => NoBinderEvents'
  BY NoBinderEventsStep
<1>3. TypeOK /\ FlagsFit /\ NoBinderEvents /\ PayloadChangeIsPending /\ [Next]_vars
        => PayloadChangeIsPending'
  BY PayloadStep
<1> QED BY <1>1, <1>2, <1>3, FlagsFitInvariant, PTL DEF Spec

----------------------------------------------------------------------------
(***************************************************************************)
(* What an idle daemon leaves: nothing.                                    *)
(***************************************************************************)

\* While the daemon sleeps in epoll_wait no client waits for it: of the
\* connections it holds, none has sent what is not read, or hung up unnoticed.
NothingWaits == Idle => \A c \in Conns : ~Unserved(c)

\* When epoll_wait has nothing to report, no client waits for the daemon: its
\* maps and epoll's interest list name the same streams.
THEOREM NobodyWaitsForSleeper == Spec => []NothingWaits
<1>1. TypeOK /\ MapInv => NothingWaits
  <2> SUFFICES ASSUME TypeOK, MapInv, Idle, NEW c \in Conns, Held(c)
               PROVE  inbox[c] = Nil /\ client[c] # "closed"
    BY DEF NothingWaits, Unserved
  <2> USE NilIsAbsent
  <2>1. backlog = <<>> /\ \A t \in Tokens : interest[t] # Nil =>
                           inbox[interest[t]] = Nil /\ client[interest[t]] # "closed"
    <3>1. backlog = <<>>
      <4>1. backlog # <<>> => Event("socket", FALSE) \in Ready
        BY DEF Ready, Event
      <4> QED BY <4>1 DEF Idle
    <3>2. ASSUME NEW t \in Tokens, interest[t] # Nil,
                 inbox[interest[t]] # Nil \/ client[interest[t]] = "closed"
          PROVE  FALSE
      <4>1. Event(t, client[interest[t]] = "closed") \in Ready
        BY <3>2, Zenon DEF Ready
      <4> QED BY <4>1 DEF Idle
    <3> QED BY <3>1, <3>2
  <2>2. \E t \in Tokens : interest[t] = c
    <3>1. CASE InBacklog(c)
      BY <2>1, <3>1 DEF InBacklog
    <3>2. CASE IsPending(c)
      BY <3>2 DEF IsPending, MapInv, InterestOwned
    <3>3. CASE Watching(c)
      <4>1. PICK u \in Uids : watchers[u] # Nil /\ watchers[u].conn = c
        BY <3>3 DEF Watching
      <4>2. watchers[u].token \in Tokens /\ token_to_uid[watchers[u].token] = u
        BY <4>1 DEF TypeOK, MapInv, ReverseMapExact
      <4>3. interest[watchers[u].token] = c
        BY <4>1, <4>2 DEF TypeOK, MapInv, InterestOwned
      <4> QED BY <4>2, <4>3
    <3> QED BY <3>1, <3>2, <3>3 DEF Held
  <2> QED BY <2>1, <2>2
<1> QED BY <1>1, OneHolderInvariant, PTL

----------------------------------------------------------------------------
(***************************************************************************)
(* An iteration is bounded.  Left counts what the batch and the accept     *)
(* burst still allow; only one event of a batch is the listener's.         *)
(***************************************************************************)

Sources == {"socket", "signal", "binder", "inotify"}

LEMMA EventsFinite == IsFiniteSet(Events)
<1> DEFINE Marks == Tokens \cup Sources
           OfFlag(h) == {Event(x, h) : x \in Marks}
<1>1. IsFiniteSet(Marks)
  <2>1. IsFiniteSet({} \cup {"socket"})
    BY FS_EmptySet, FS_AddElement
  <2>2. IsFiniteSet({} \cup {"socket"} \cup {"signal"})
    BY <2>1, FS_AddElement
  <2>3. IsFiniteSet({} \cup {"socket"} \cup {"signal"} \cup {"binder"})
    BY <2>2, FS_AddElement
  <2>4. IsFiniteSet({} \cup {"socket"} \cup {"signal"} \cup {"binder"} \cup {"inotify"})
    BY <2>3, FS_AddElement
  <2>5. Sources = {} \cup {"socket"} \cup {"signal"} \cup {"binder"} \cup {"inotify"}
    BY DEF Sources
  <2> QED BY <2>4, <2>5, FS_Union, TokensFinite
<1>2. ASSUME NEW h \in BOOLEAN PROVE IsFiniteSet(OfFlag(h))
  <2> DEFINE f == [x \in Marks |-> Event(x, h)]
  <2>1. f \in Surjection(Marks, OfFlag(h))
    BY DEF Surjection
  <2> QED BY <1>1, <2>1, FS_Surjection
<1>3. Events \subseteq OfFlag(TRUE) \cup OfFlag(FALSE)
  <2> SUFFICES ASSUME NEW e \in Events PROVE e \in OfFlag(TRUE) \cup OfFlag(FALSE)
    OBVIOUS
  <2>1. e.token \in Marks /\ e.hangup \in {TRUE, FALSE} /\ e = Event(e.token, e.hangup)
    BY DEF Events, Event, Sources
  <2> QED BY <2>1
<1> HIDE DEF OfFlag
<1> QED BY <1>2, <1>3, FS_Union, FS_Subset

\* The batch has room for what epoll may report; count is the accept loop's.
BatchFits ==
  /\ IsFiniteSet(batch) /\ Cardinality(batch) \in 0..MaxEvents
  /\ \A e \in batch : e.token = "socket" => e = Event("socket", FALSE) /\ pc # "accept"
  /\ pc # "accept" => count = 0

\* What handling an event does to the batch.
LEMMA OneEventLess ==
  ASSUME BatchFits, NEW e \in batch
  PROVE  /\ IsFiniteSet(batch \ {e})
         /\ Cardinality(batch) \in 1..MaxEvents
         /\ Cardinality(batch \ {e}) = Cardinality(batch) - 1
         /\ Cardinality(batch \ {e}) \in 0..MaxEvents
<1>1. Cardinality(batch \ {e}) = Cardinality(batch) - 1 /\ IsFiniteSet(batch \ {e})
  BY FS_RemoveElement DEF BatchFits
<1>2. Cardinality(batch \ {e}) \in Nat /\ Cardinality(batch) \in Nat
  BY <1>1, FS_CardinalityType DEF BatchFits
<1> QED BY <1>1, <1>2, ConstantsOK DEF BatchFits

\* Wait fills the batch.
LEMMA WaitFills ==
  ASSUME Wait
  PROVE  /\ IsFiniteSet(batch') /\ Cardinality(batch') \in 0..MaxEvents
         /\ \A e \in batch' : e.token = "socket" => e = Event("socket", FALSE)
<1>1. IsFiniteSet(Ready) /\ batch' \in SUBSET Ready
  BY ReadyType, EventsFinite, FS_Subset DEF Wait
<1>2. IsFiniteSet(batch') /\ Cardinality(batch') \in Nat
  BY <1>1, FS_Subset, FS_CardinalityType
<1>3. Cardinality(batch') <= MaxEvents
  BY <1>1, ConstantsOK DEF Wait
<1>4. Cardinality(batch') \in 0..MaxEvents
  BY <1>2, <1>3, ConstantsOK
<1>5. ASSUME NEW e \in batch', e.token = "socket" PROVE e = Event("socket", FALSE)
  <2>1. "socket" \notin Tokens
    BY TokensAreOpaque
  <2> QED BY <1>1, <1>5, <2>1, ReadyEvents DEF Event
<1> QED BY <1>2, <1>4, <1>5

\* What is due for the listener's event, if the batch has one.
ForListener == IF \E e \in batch : e.token = "socket" THEN AcceptBurst + 1 ELSE 0

LEMMA LeftAt ==
  /\ pc \in {"wait", "exited"} => Left = 0
  /\ pc = "notify" => Left = 1
  /\ pc = "dedup" => Left = 2
  /\ pc = "dispatch" => Left = 3 + Cardinality(batch) + ForListener
  /\ pc = "accept" => Left = 3 + Cardinality(batch) + AcceptBurst + 1 - count
  BY DEF Left, ForListener

LEMMA LeftNext ==
  /\ pc' \in {"wait", "exited"} => Left' = 0
  /\ pc' = "notify" => Left' = 1
  /\ pc' = "dedup" => Left' = 2
  /\ pc' = "dispatch" => Left' = 3 + Cardinality(batch') + ForListener'
  /\ pc' = "accept" => Left' = 3 + Cardinality(batch') + AcceptBurst + 1 - count'
  BY DEF Left, ForListener

LEMMA LeftBounded ==
  ASSUME TypeOK, BatchFits
  PROVE  Left \in 0..(MaxEvents + AcceptBurst + 4)
<1>1. /\ Cardinality(batch) \in 0..MaxEvents /\ count \in 0..AcceptBurst
      /\ AcceptBurst \in Nat /\ MaxEvents \in Nat
      /\ ForListener \in {0, AcceptBurst + 1}
  BY ConstantsOK DEF TypeOK, BatchFits, ForListener
<1>2. pc \in {"wait", "exited", "notify", "dedup", "dispatch", "accept"}
  BY DEF TypeOK
<1> QED BY <1>1, <1>2, LeftAt

\* Every step of run() but epoll_wait lowers Left.
LEMMA RunFalls ==
  ASSUME TypeOK, TypeOK', FlagsFit, BatchFits, Run
  PROVE  BatchFits' /\ (Wait \/ Left' < Left)
<1>0. /\ Cardinality(batch) \in 0..MaxEvents /\ count \in 0..AcceptBurst
      /\ count' \in 0..AcceptBurst
      /\ AcceptBurst \in Nat /\ MaxEvents \in Nat
      /\ ForListener \in {0, AcceptBurst + 1}
  BY ConstantsOK DEF TypeOK, BatchFits, ForListener
<1> USE LeftAt, LeftNext
<1>1. CASE Wait
  <2>1. pc = "wait" /\ pc' = "dispatch" /\ count' = count
    BY <1>1 DEF Wait
  <2> QED BY <1>1, <2>1, WaitFills DEF BatchFits
<1>2. CASE Accept
  <2>1. pc = "accept" /\ pc' = "accept" /\ count' = count + 1 /\ batch' = batch
    BY <1>2 DEF Accept, AcceptNext
  <2> QED BY <1>0, <2>1 DEF BatchFits
<1>3. CASE AcceptOverBurst \/ AcceptStops
  <2>1. pc = "accept" /\ pc' = "dispatch" /\ count' = 0 /\ batch' = batch
    BY <1>3 DEF AcceptOverBurst, AcceptStops
  <2>2. BatchFits' /\ ForListener' = 0
    BY <2>1 DEF BatchFits, ForListener
  <2> QED BY <1>0, <2>1, <2>2
<1>4. ASSUME NEW e \in batch, batch' = batch \ {e}, pc = "dispatch", count' = count,
             pc' = "dispatch"
      PROVE  BatchFits' /\ Left' < Left
  <2>1. BatchFits'
    BY <1>4, OneEventLess DEF BatchFits
  <2>2. ForListener' = ForListener \/ (ForListener' = 0 /\ ForListener = AcceptBurst + 1)
    BY <1>4 DEF ForListener
  <2>3. Cardinality(batch') = Cardinality(batch) - 1
    BY <1>4, OneEventLess
  <2> QED BY <1>0, <1>4, <2>1, <2>2, <2>3
<1>5. ASSUME NEW e \in batch, StartAccept(e) PROVE BatchFits' /\ Left' < Left
  <2>1. /\ batch' = batch \ {e} /\ pc = "dispatch" /\ pc' = "accept" /\ count' = count
        /\ e.token = "socket"
    BY <1>5 DEF StartAccept, Dispatch
  <2>2. count = 0 /\ ForListener = AcceptBurst + 1
    BY <2>1 DEF BatchFits, ForListener
  <2>3. \A f \in batch' : f.token # "socket"
    BY <2>1 DEF BatchFits
  <2>4. BatchFits'
    BY <2>1, <2>3, OneEventLess DEF BatchFits
  <2>5. Cardinality(batch') = Cardinality(batch) - 1
    BY <2>1, OneEventLess
  <2> QED BY <1>0, <2>1, <2>2, <2>4, <2>5
<1>6. ASSUME NEW e \in batch, Signalled(e) PROVE BatchFits' /\ Left' < Left
  <2>1. batch' = {} /\ pc = "dispatch" /\ pc' = "exited" /\ count' = count
    BY <1>6 DEF Signalled
  <2>2. BatchFits'
    BY <2>1, FS_EmptySet, ConstantsOK DEF BatchFits
  <2> QED BY <1>0, <2>1, <2>2
<1>7. ASSUME NEW e \in batch, DispatchStream(e) \/ BinderReady(e) \/ InotifyReady(e)
      PROVE  BatchFits' /\ Left' < Left
  <2>1. /\ batch' = batch \ {e} /\ pc = "dispatch" /\ count' = count
        /\ pc' = "dispatch"
    BY <1>7 DEF DispatchStream, PendingHangup, Refuse, Status, Unknown, Watch,
                WatchNotAdded, TakeCommand, WatcherReady, StaleEvent, BinderReady,
                InotifyReady, Dispatch
  <2> QED BY <1>4, <2>1
<1>8. CASE BatchDone
  <2>1. batch = {} /\ batch' = {} /\ pc = "dispatch" /\ pc' = "dedup" /\ count' = count
    BY <1>8 DEF BatchDone
  <2>2. BatchFits' /\ ForListener = 0 /\ Cardinality(batch) = 0
    BY <2>1, FS_EmptySet DEF BatchFits, ForListener
  <2> QED BY <2>1, <2>2
<1>9. CASE Dedup
  <2>1. pc = "dedup" /\ pc' = "notify" /\ batch' = batch /\ count' = count
    BY <1>9 DEF Dedup
  <2>2. BatchFits'
    BY <2>1 DEF BatchFits
  <2>3. Left = 2 /\ Left' = 1
    BY <2>1
  <2> QED BY <2>2, <2>3
<1>10. CASE NoNotification \/ NothingNew \/ Push
  <2>1. pc = "notify" /\ pc' = "wait" /\ batch' = batch /\ count' = count
    BY <1>10 DEF NoNotification, NothingNew, Push, NextIteration
  <2>2. BatchFits'
    BY <2>1 DEF BatchFits
  <2>3. Left = 1 /\ Left' = 0
    BY <2>1
  <2> QED BY <2>2, <2>3
<1> QED
  BY <1>1, <1>2, <1>3, <1>5, <1>6, <1>7, <1>8, <1>9, <1>10 DEF Run, DispatchSource

\* Nobody else touches it.
LEMMA LeftStays ==
  ASSUME BatchFits, Environment \/ UNCHANGED vars
  PROVE  BatchFits' /\ Left' = Left
<1>1. UNCHANGED <<pc, batch, count>>
  BY DEF Environment, FocusChanges, CgroupChanges, Terminate, Connect, HangUp, Send, vars
<1> QED BY <1>1 DEF BatchFits, Left

LEMMA LeftFalls ==
  ASSUME TypeOK, TypeOK', FlagsFit, BatchFits, [Next]_vars
  PROVE  /\ BatchFits'
         /\ (Run /\ pc # "wait") => Left' < Left
         /\ Left' > Left => Wait
<1>1. Left \in Int
  BY LeftBounded
<1>2. CASE Run
  <2>1. BatchFits' /\ (Wait \/ Left' < Left)
    BY <1>2, RunFalls
  <2>2. Left' \in Int
    <3>1. /\ Cardinality(batch') \in 0..MaxEvents /\ count' \in 0..AcceptBurst
          /\ AcceptBurst \in Nat /\ MaxEvents \in Nat
          /\ ForListener' \in {0, AcceptBurst + 1}
      BY <2>1, ConstantsOK DEF TypeOK, BatchFits, ForListener
    <3>2. pc' \in {"wait", "exited", "notify", "dedup", "dispatch", "accept"}
      BY DEF TypeOK
    <3> QED BY <3>1, <3>2, LeftNext
  <2>3. Wait => pc = "wait"
    BY DEF Wait
  <2> QED BY <1>1, <2>1, <2>2, <2>3
<1>3. CASE ~Run
  BY <1>1, <1>3, LeftStays DEF Next
<1> QED BY <1>2, <1>3

\* However many clients connect, send and hang up meanwhile, an iteration of run()
\* (daemon.rs:142-340) ends within MaxEvents + AcceptBurst + 4 steps.
THEOREM IterationBounded == Spec => IterationEnds
<1>1. Init => BatchFits
  BY FS_EmptySet, ConstantsOK DEF Init, BatchFits
<1>2. TypeOK /\ TypeOK' /\ FlagsFit /\ BatchFits /\ [Next]_vars => BatchFits'
  BY LeftFalls
<1>3. TypeOK /\ TypeOK' /\ FlagsFit /\ BatchFits /\ [Next]_vars
        => [/\ Run /\ pc # "wait" => Left' < Left
            /\ Left' > Left => Wait]_vars
  BY LeftFalls
<1>4. TypeOK /\ BatchFits => Left \in 0..(MaxEvents + AcceptBurst + 4)
  BY LeftBounded
<1> QED BY <1>1, <1>2, <1>3, <1>4, FlagsFitInvariant, PTL DEF Spec, IterationEnds
=============================================================================
