---------------------------- MODULE DaemonService ----------------------------
(***************************************************************************)
(* What `daemon`, `stop` and `restart` promise to somebody who gives one   *)
(* command after the other: the daemon comes and goes only while a command *)
(* says so, and what a command prints is true when it prints it.  A daemon *)
(* that has just come up is not yet listed in daemon.pid; only then may    *)
(* `stop` fail to find it.  Supervisor implements it: see CommandsServed.  *)
(***************************************************************************)
CONSTANT Commands   \* in the order in which they are given

VARIABLES
  daemon,    \* "off", or on and "listed" or not
  job,       \* what each command is doing
  said       \* what it printed last

vars == <<daemon, job, said>>

Init ==
  /\ daemon = "off"
  /\ job = [c \in Commands |-> "none"] /\ said = [c \in Commands |-> ""]

Becomes(c, j)   == job' = [job EXCEPT ![c] = j]
Prints(c, line) == said' = [said EXCEPT ![c] = line]

Give(c) ==
  /\ \A b \in Commands : job[b] = "none"
  /\ \E k \in {"daemon", "stop", "restart"} : Becomes(c, k)
  /\ UNCHANGED <<daemon, said>>

(* `daemon` starts none beside the one that runs.                           *)
Refuse(c) ==
  /\ job[c] = "daemon" /\ daemon # "off"
  /\ Becomes(c, "none") /\ Prints(c, "running")
  /\ UNCHANGED daemon

Agree(c) ==
  /\ job[c] = "daemon" /\ daemon = "off" /\ Becomes(c, "start")
  /\ UNCHANGED <<daemon, said>>

ComeUp ==
  /\ \E c \in Commands : job[c] = "start"
  /\ daemon = "off" /\ daemon' \in {"unlisted", "listed"}
  /\ UNCHANGED <<job, said>>

List ==
  /\ daemon = "unlisted" /\ daemon' = "listed"
  /\ UNCHANGED <<job, said>>

Ready(c) ==
  /\ job[c] = "start" /\ daemon # "off"
  /\ Becomes(c, "none") /\ Prints(c, "ready")
  /\ UNCHANGED daemon

GoDown ==
  /\ \E c \in Commands : job[c] \in {"stop", "restart"}
  /\ daemon = "listed" /\ daemon' = "off"
  /\ UNCHANGED <<job, said>>

(* The end of `stop`, and of the first half of `restart`.                   *)
Stopped(c, line) ==
  /\ \/ line = "stopped" /\ daemon = "off"
     \/ line = "absent" /\ daemon # "listed"
     \/ line = "" /\ daemon = "unlisted"
  /\ Prints(c, line)
  /\ \/ job[c] = "stop" /\ Becomes(c, "none")
     \/ job[c] = "restart" /\ Becomes(c, "start")
  /\ UNCHANGED daemon

Next ==
  \/ ComeUp \/ List \/ GoDown
  \/ \E c \in Commands :
       \/ Give(c) \/ Refuse(c) \/ Agree(c) \/ Ready(c)
       \/ \E line \in {"stopped", "absent", ""} : Stopped(c, line)

Spec == Init /\ [][Next]_vars
=============================================================================
