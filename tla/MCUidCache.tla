----------------------------- MODULE MCUidCache -----------------------------
(* A small instance of UidCache: one UID is removed, another installed and,  *)
(* in the last version, taken over by a different package.                   *)
EXTENDS UidCache, TLC

CONSTANTS u1, u2, p1, p2, cli

MCListing ==
  0 :> (u1 :> p1 @@ u2 :> Nil) @@ 1 :> (u1 :> p1 @@ u2 :> p2)
    @@ 2 :> (u1 :> Nil @@ u2 :> p1)

\* The daemon alone, any call failing; both processes, of which only a stat fails.
MCSettings ==
  {[procs |-> {Daemon}, faults |-> {"pm", "exit", "disk", "stat"}],
   [procs |-> {Daemon, cli}, faults |-> {"stat"}]}
=============================================================================
