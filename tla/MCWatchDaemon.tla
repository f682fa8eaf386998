--------------------------- MODULE MCWatchDaemon ---------------------------
(* Small instances of WatchDaemon: values for its constants. *)
EXTENDS WatchDaemon, TLC

CONSTANTS u1, u2, c1, c2, c3, p1, p2

\* Two clients of u1 and one of u2; clients of one UID; of two UIDs.
MCUidOf == c1 :> u1 @@ c2 :> u1 @@ c3 :> u2
MCUidOf1 == [c \in Conns |-> u1]
MCUidOf2 == c1 :> u1 @@ c2 :> u2

MCSaysWatch == [c \in Conns |-> {"watch"}]
MCSaysAll == c1 :> {"watch"} @@ c2 :> {"watch", "status"}

\* Cgroup states: the package on top and the contents of cgroup.procs.  "b" and
\* "b2" differ by what the contents do not show (OOM scores, populated groups).
MCTopOf ==
  [s \in CgroupStates |-> CASE s = "a" -> p1 [] s = "b" -> p2 [] s = "b2" -> Nil]
MCPayloadOf == [s \in CgroupStates |-> IF s = "a" THEN "pidsA" ELSE "pidsB"]

Boot(uid, m, b, e, t) ==
  [daemon_uid |-> uid, mode |-> m, binder |-> b, efd |-> e, token |-> t]

\* daemon_uid is root's, or unset.
MCObserver == {Boot(u1, "auto", TRUE, TRUE, TRUE)}
MCObserverAnyUid == {Boot(Nil, "auto", TRUE, TRUE, TRUE)}
MCServing == MCObserver \cup MCObserverAnyUid
MCForcedCgroup == {Boot(Nil, "cgroup", TRUE, TRUE, TRUE)}

\* With the observer and without it.
MCSources == MCObserver \cup {Boot(u1, "auto", FALSE, FALSE, FALSE)}

\* The tokens are alike, and so are two clients of one UID that say the same.
TokenSymmetry == Permutations(Tokens)
TwinSymmetry == TokenSymmetry \cup Permutations({c1, c2})
=============================================================================
