----------------------------- MODULE MCResolver -----------------------------
(* A small instance of Resolver. *)
EXTENDS Resolver, TLC

CONSTANTS ua, ub, ut, uh, ui

\* An app, one that is installed later, a terminal and a shell in it, the
\* launcher, an isolated process, a blocked system process, and a fork of the
\* zygote that is not yet an app.
MCUidOf ==
  [g \in Programs |-> CASE g = "app" -> ua [] g = "new" -> ub [] g = "home" -> uh
                       [] g \in {"term", "shell"} -> ut
                       [] g = "isolated" -> ui [] g \in {"systemui", "zygote"} -> Nil]
MCCmdOf == [g \in Programs |-> IF g = "shell" THEN "sh" ELSE g]
MCBecomes == {<<"term", "shell">>, <<"zygote", "new">>}

MCListing ==
  LET v0 == ua :> "app" @@ ub :> Nil @@ ut :> "term" @@ uh :> "home" @@ ui :> Nil IN
  0 :> v0 @@ 1 :> [v0 EXCEPT ![ub] = "new"]

MCSettings == {[procs |-> {Daemon}, faults |-> {}]}

Shown(prog, oom) == [prog |-> prog, oom |-> oom, top |-> TRUE, populated |-> TRUE]

\* Every screen of three apps and launchers; of two terminals, shells and forks, with
\* an app or without; an isolated process, alone.
MCScores == {-1, 0, 1}
Apps == {Shown("app", o) : o \in Scores}
Others == {Shown(g, 0) : g \in {"term", "shell", "zygote"}}
MixedScreens ==
  [Pids -> Apps \cup {Shown("home", 0), Nil}]
  \cup {f \in [Pids -> Others \cup {Shown("app", 1), Nil}] :
          f[1] \notin Apps /\ f[2] \notin Others /\ f[3] \notin Apps}
IsolatedScreen == {[p \in Pids |-> IF p = 1 THEN Shown("isolated", 0) ELSE Nil]}

MixedArrivals == {Shown(g, 0) : g \in {"new", "term", "isolated", "systemui"}}
NewArrival == {Shown("new", 0)}
=============================================================================
