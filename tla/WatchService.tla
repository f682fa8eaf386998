---------------------------- MODULE WatchService ----------------------------
(***************************************************************************)
(* What the daemon promises a `watch` client, whatever sockets, tokens,    *)
(* batches and event sources are behind it: the package in the foreground  *)
(* when it subscribes, and each later one from a push that all subscribers *)
(* get together; nothing out of date, and nothing for ever withheld.       *)
(* WatchDaemon implements it: see ImplementsService there.                 *)
(***************************************************************************)
CONSTANTS
  Uids,      \* one subscription each
  Conns,     \* clients
  Slow,      \* clients that may miss a line
  Packages,
  Nil

VARIABLES
  fg,        \* the package in the foreground, Nil if there is none to name
  sub,       \* each UID's subscriber
  told       \* what that subscriber was told last

vars == <<fg, sub, told>>

Init ==
  /\ fg \in Packages \cup {Nil}
  /\ sub = [u \in Uids |-> Nil] /\ told = [u \in Uids |-> Nil]

Change ==
  /\ fg' \in Packages \cup {Nil}
  /\ UNCHANGED <<sub, told>>

(* The slot of the UID goes to the new client, who is told the package      *)
(* unless it cannot be resolved or written.                                 *)
Subscribe(u, c) ==
  /\ \A v \in Uids : sub[v] # c
  /\ sub' = [sub EXCEPT ![u] = c]
  /\ \E line \in {fg, Nil} : told' = [told EXCEPT ![u] = line]
  /\ UNCHANGED fg

Without(f, gone) == [u \in Uids |-> IF u \in gone THEN Nil ELSE f[u]]

(* One line for all; the subscribers whose peer is gone lose their slot.    *)
Push(gone, missed) ==
  /\ fg # Nil
  /\ \A u \in missed : sub[u] \in Slow
  /\ sub' = Without(sub, gone)
  /\ told' = [u \in Uids |-> IF u \in gone \/ sub[u] = Nil THEN Nil
                             ELSE IF u \in missed THEN told[u] ELSE fg]
  /\ UNCHANGED fg

Lose(gone) ==
  /\ sub' = Without(sub, gone) /\ told' = Without(told, gone)
  /\ UNCHANGED fg

Next ==
  \/ Change
  \/ \E u \in Uids, c \in Conns : Subscribe(u, c)
  \/ \E gone \in SUBSET Uids :
       Lose(gone) \/ \E missed \in SUBSET Uids : Push(gone, missed)

(* A subscriber is behind while there is a package it has not been told.    *)
Behind(u) == sub[u] \notin Slow \cup {Nil} /\ fg # Nil /\ told[u] # fg

SafetySpec == Init /\ [][Next]_vars

Spec == SafetySpec /\ \A u \in Uids : Behind(u) ~> ~Behind(u)
=============================================================================
