----------------------------- MODULE Supervisor -----------------------------
(***************************************************************************)
(* src/src/main.rs: the commands `daemon`, `stop` and `restart`, the       *)
(* supervisors they start and the daemons those fork.  They share two      *)
(* files, daemon.pid and daemon.ready, and the abstract socket; every      *)
(* access to one is a step, and any process may run between two.           *)
(*                                                                         *)
(* A PID is modelled by the supervisor of the daemon it belongs to, which  *)
(* has one daemon at a time, and by Dead once the daemon has been reaped.  *)
(***************************************************************************)
EXTENDS Integers, FiniteSets

CONSTANTS
  MaxSups,      \* bound: supervisors started in a behaviour
  MaxEvents,    \* bound: commands typed and faults, together, in a behaviour
  Terminals,    \* bound: commands at work at the same time
  Kinds,        \* which commands are typed
  CrashLimit,   \* crashes in 10 s after which a supervisor gives up, 5 in the code
  Faults,       \* what may go wrong: see FaultKinds
  Torn,         \* daemon.pid between truncation and write
  Dead,         \* a PID whose process is gone
  Nil

(* A daemon crashes; a supervisor is killed; the device restarts; a command *)
(* loses patience; fork() fails; a file cannot be written.                  *)
FaultKinds == {"crash", "kill", "reboot", "timeout", "fork", "disk"}

ASSUME SupervisorConstantsOK ==
  /\ MaxEvents \in Nat /\ CrashLimit \in Nat \ {0}
  /\ Kinds \subseteq {"daemon", "stop", "restart"}
  /\ Faults \subseteq FaultKinds
  /\ MaxSups \in Nat /\ Terminals \in Nat
  /\ Cardinality({Torn, Dead, Nil}) = 3 /\ {Torn, Dead, Nil} \cap 1..MaxSups = {}

VARIABLES
  pid_file, ready_file,
  \* each supervisor: where it is, its crash_count, last_crash_window > 10 s ago
  sup, crash_count, window_over,
  \* its daemon: where it is, SIGTERM pending, how it ended
  child, sigterm, status,
  \* each command: which, where it is, the PID it read, what it printed last
  kind, at, pid, said,
  \* history: faults so far, what went wrong, the daemon that a command's SIGTERM
  \* reached and where it was
  faults, mess, target, hit

files    == <<pid_file, ready_file>>
policy   == <<crash_count, window_over>>
daemons  == <<child, sigterm, status>>
commands == <<kind, at, pid, said>>
history  == <<faults, mess, target, hit>>
vars     == <<files, sup, policy, daemons, commands, history>>

Sups     == 1..MaxSups     \* in the order of their start
Commands == 1..MaxEvents   \* in the order in which they are typed
Pids     == Sups \cup {Dead, Nil}
Running  == {"new", "masked", "bound", "loop"}

ASSUME NilIsNoState == Nil \notin Running

SupervisorTypeOK ==
  /\ pid_file \in Pids \cup {Torn} /\ ready_file \in BOOLEAN
  /\ sup \in [Sups -> {"unborn", "fork", "truncate", "write", "wait", "unlink",
                       "backoff", "gone"}]
  /\ crash_count \in [Sups -> 0..CrashLimit] /\ window_over \in [Sups -> BOOLEAN]
  /\ child \in [Sups -> Running \cup {"none", "exited"}]
  /\ sigterm \in [Sups -> BOOLEAN] /\ status \in [Sups -> {"clean", "bad"}]
  /\ kind \in [Commands -> Kinds \cup {Nil}]
  /\ at \in [Commands -> {"idle", "check", "spawn", "poll", "read", "kill", "await",
                          "socket", "done"}]
  /\ pid \in [Commands -> Pids]
  /\ said \in [Commands -> {"", "running", "ready", "late", "absent", "stopped",
                            "stubborn", "failed"}]
  /\ faults \in 0..MaxEvents /\ mess \subseteq FaultKinds \cup {"overlap"}
  /\ target \in [Commands -> Sups \cup {Nil}]
  /\ hit \in [Commands -> Running \cup {Nil}]

Init ==
  /\ pid_file = Nil /\ ready_file = FALSE
  /\ sup = [s \in Sups |-> "unborn"]
  /\ crash_count = [s \in Sups |-> 0] /\ window_over = [s \in Sups |-> FALSE]
  /\ child = [s \in Sups |-> "none"]
  /\ sigterm = [s \in Sups |-> FALSE] /\ status = [s \in Sups |-> "clean"]
  /\ kind = [c \in Commands |-> Nil] /\ at = [c \in Commands |-> "idle"]
  /\ pid = [c \in Commands |-> Nil] /\ said = [c \in Commands |-> ""]
  /\ faults = 0 /\ mess = {}
  /\ target = [c \in Commands |-> Nil] /\ hit = [c \in Commands |-> Nil]

MoreEvents == Cardinality({c \in Commands : at[c] # "idle"}) + faults < MaxEvents

Goes(s, where) == sup' = [sup EXCEPT ![s] = where]
Alive(s)       == child[s] \in Running
Listening      == \E s \in Sups : child[s] \in {"bound", "loop"}
Supervising(s) == sup[s] \notin {"unborn", "gone"}

----------------------------------------------------------------------------
(* run_supervisor, the loop of the grandchild.                              *)

(* At the start, or when the backoff has been slept.                        *)
Fork(s) ==
  /\ sup[s] \in {"fork", "backoff"} /\ Goes(s, "truncate")
  /\ child' = [child EXCEPT ![s] = "new"]
  /\ UNCHANGED <<files, policy, sigterm, status, commands, history>>

(* fs::write truncates the file, then writes it.                            *)
TruncatePid(s) ==
  /\ sup[s] = "truncate" /\ Goes(s, "write")
  /\ pid_file' = Torn
  /\ UNCHANGED <<ready_file, policy, daemons, commands, history>>

WritePid(s) ==
  /\ sup[s] = "write" /\ Goes(s, "wait")
  /\ pid_file' = s
  /\ UNCHANGED <<ready_file, policy, daemons, commands, history>>

\* The PID of s's daemon means nothing any more, wherever it is written.
Forget(s) ==
  /\ pid_file' = IF pid_file = s THEN Dead ELSE pid_file
  /\ pid' = [c \in Commands |-> IF pid[c] = s THEN Dead ELSE pid[c]]
  /\ child' = [child EXCEPT ![s] = "none"]
  /\ sigterm' = [sigterm EXCEPT ![s] = FALSE]
  /\ UNCHANGED <<ready_file, status, kind, at, said>>

Reap(s) ==
  /\ sup[s] = "wait" /\ child[s] = "exited" /\ Goes(s, "unlink")
  /\ Forget(s)
  /\ UNCHANGED <<policy, history>>

\* Mutant: a clean exit is followed by a restart like any other.
CleanRestarts(s) ==
  /\ sup[s] = "unlink" /\ status[s] = "clean" /\ Goes(s, "backoff")
  /\ pid_file' = Nil
  /\ UNCHANGED <<ready_file, policy, daemons, commands, history>>

(* The file goes, and a clean exit ends the supervisor.                     *)
CleanExit(s) ==
  /\ sup[s] = "unlink" /\ status[s] = "clean" /\ Goes(s, "gone")
  /\ pid_file' = Nil
  /\ UNCHANGED <<ready_file, policy, daemons, commands, history>>

\* Mutant: the supervisor gives up at the first crash.
CrashedOnce(s) ==
  /\ sup[s] = "unlink" /\ status[s] = "bad" /\ Goes(s, "gone")
  /\ pid_file' = Nil
  /\ UNCHANGED <<ready_file, policy, daemons, commands, history>>

\* Mutant: it never gives up.
CrashedForEver(s) ==
  /\ sup[s] = "unlink" /\ status[s] = "bad" /\ Goes(s, "backoff")
  /\ pid_file' = Nil
  /\ crash_count' = [crash_count EXCEPT ![s] = IF window_over[s] THEN 1 ELSE @ + 1]
  /\ window_over' = [window_over EXCEPT ![s] = FALSE]
  /\ UNCHANGED <<ready_file, daemons, commands, history>>

(* Anything else counts as a crash.                                         *)
Crashed(s) ==
  /\ sup[s] = "unlink" /\ status[s] = "bad"
  /\ pid_file' = Nil
  /\ crash_count' = [crash_count EXCEPT ![s] = IF window_over[s] THEN 1 ELSE @ + 1]
  /\ window_over' = [window_over EXCEPT ![s] = FALSE]
  /\ Goes(s, IF crash_count'[s] >= CrashLimit THEN "gone" ELSE "backoff")
  /\ UNCHANGED <<ready_file, daemons, commands, history>>

Supervise(s) ==
  \/ Fork(s) \/ TruncatePid(s) \/ WritePid(s) \/ Reap(s) \/ CleanExit(s) \/ Crashed(s)

----------------------------------------------------------------------------
(* The daemon: Daemon::new, then run(), which blocks SIGTERM, binds the     *)
(* socket, announces itself and serves until the signal.                    *)

Becomes(s, state) == child' = [child EXCEPT ![s] = state]

Exits(s, how) == Becomes(s, "exited") /\ status' = [status EXCEPT ![s] = how]

Mask(s) ==
  /\ child[s] = "new" /\ Becomes(s, "masked")
  /\ UNCHANGED <<files, sup, policy, sigterm, status, commands, history>>

Bind(s) ==
  /\ child[s] = "masked"
  /\ IF Listening THEN Exits(s, "bad") ELSE Becomes(s, "bound") /\ UNCHANGED status
  /\ UNCHANGED <<files, sup, policy, sigterm, commands, history>>

Announce(s) ==
  /\ child[s] = "bound" /\ Becomes(s, "loop")
  /\ ready_file' = TRUE
  /\ UNCHANGED <<pid_file, sup, policy, sigterm, status, commands, history>>

Finish(s) ==
  /\ child[s] = "loop" /\ sigterm[s] /\ Exits(s, "clean")
  /\ UNCHANGED <<files, sup, policy, sigterm, commands, history>>

Serve(s) == Mask(s) \/ Bind(s) \/ Announce(s) \/ Finish(s)

(* SIGTERM: fatal until run() has blocked it, then pending.                 *)
Signal(s) ==
  IF child[s] = "new" THEN Exits(s, "bad") /\ UNCHANGED sigterm
  ELSE /\ sigterm' = [sigterm EXCEPT ![s] = @ \/ Alive(s)]
       /\ UNCHANGED <<child, status>>

(* The orphan of a killed supervisor is reaped by init.                     *)
ReapOrphan(s) ==
  /\ sup[s] = "gone" /\ child[s] = "exited"
  /\ Forget(s)
  /\ UNCHANGED <<sup, policy, history>>

----------------------------------------------------------------------------
(* What goes wrong, and time.                                               *)

Happens(f) ==
  /\ f \in Faults /\ MoreEvents
  /\ faults' = faults + 1 /\ mess' = mess \cup {f}
  /\ UNCHANGED <<target, hit>>

Fault(f) == Happens(f) /\ UNCHANGED <<files, policy, commands>>

Crash(s) ==
  /\ Alive(s) /\ Exits(s, "bad") /\ Fault("crash")
  /\ UNCHANGED <<sup, sigterm>>

\* set_pdeathsig: the daemon gets SIGTERM, if it has made the call by then.
KillSupervisor(s) ==
  /\ Supervising(s) /\ Goes(s, "gone") /\ Fault("kill")
  /\ Signal(s) \/ (child[s] = "new" /\ UNCHANGED daemons)

\* fork()? in the loop: without a daemon, the supervisor returns.
ForkFails(s) ==
  /\ sup[s] \in {"fork", "backoff"} /\ Goes(s, "gone") /\ Fault("fork")
  /\ UNCHANGED daemons

\* The results of the writes are ignored: daemon.pid is left as it was, or empty.
TruncateFails(s) ==
  /\ sup[s] = "truncate" /\ Goes(s, "wait") /\ Fault("disk")
  /\ UNCHANGED daemons

WriteFails(s) ==
  /\ sup[s] = "write" /\ Goes(s, "wait") /\ Fault("disk")
  /\ UNCHANGED daemons

\* ... and so is that of daemon.ready.
AnnounceFails(s) ==
  /\ child[s] = "bound" /\ Becomes(s, "loop") /\ Fault("disk")
  /\ UNCHANGED <<sup, sigterm, status>>

Fails(s) == ForkFails(s) \/ TruncateFails(s) \/ WriteFails(s) \/ AnnounceFails(s)

\* Only the files survive.
Reboot ==
  /\ \E s \in Sups : sup[s] # "unborn"
  /\ "reboot" \in Faults /\ MoreEvents
  /\ faults' = faults + 1 /\ mess' = mess \cup {"reboot"}
  /\ pid_file' = IF pid_file \in Sups THEN Dead ELSE pid_file
  /\ sup' = [s \in Sups |-> IF sup[s] = "unborn" THEN "unborn" ELSE "gone"]
  /\ child' = [s \in Sups |-> "none"] /\ sigterm' = [s \in Sups |-> FALSE]
  /\ at' = [c \in Commands |-> IF at[c] = "idle" THEN "idle" ELSE "done"]
  /\ pid' = [c \in Commands |-> Nil]
  /\ UNCHANGED <<ready_file, policy, status, kind, said, target, hit>>

\* Before the first crash the window makes no difference.
TenSeconds(s) ==
  /\ Supervising(s) /\ crash_count[s] > 0 /\ ~window_over[s]
  /\ window_over' = [window_over EXCEPT ![s] = TRUE]
  /\ UNCHANGED <<files, sup, crash_count, daemons, commands, history>>

----------------------------------------------------------------------------
(* The commands.                                                            *)

Moves(c, from, to) == at[c] = from /\ at' = [at EXCEPT ![c] = to]
Says(c, line)      == said' = [said EXCEPT ![c] = line]
Gives(c, from, line) == Moves(c, from, "done") /\ Says(c, line)

\* Waiting ends after 3 s or 15 s of the clock.
Impatient == Happens("timeout")

Unfinished(c) == at[c] \notin {"idle", "done"}

Type(c, k) ==
  /\ MoreEvents /\ Cardinality({b \in Commands : Unfinished(b)}) < Terminals
  /\ at[c] = "idle" /\ \A b \in 1..(c - 1) : at[b] # "idle"
  /\ kind' = [kind EXCEPT ![c] = k]
  /\ at' = [at EXCEPT ![c] = IF k = "daemon" THEN "check" ELSE "read"]
  /\ mess' = IF \E b \in Commands : Unfinished(b) THEN mess \cup {"overlap"} ELSE mess
  /\ UNCHANGED <<files, sup, policy, daemons, pid, said, faults, target, hit>>

\* Mutant: `daemon` starts a supervisor without asking.
CheckNothing(c) ==
  /\ Moves(c, "check", "spawn")
  /\ UNCHANGED <<files, sup, policy, daemons, kind, pid, said, history>>

(* `daemon` refuses if somebody listens now.                                *)
Check(c) ==
  /\ \/ Listening /\ Gives(c, "check", "running")
     \/ ~Listening /\ Moves(c, "check", "spawn") /\ UNCHANGED said
  /\ UNCHANGED <<files, sup, policy, daemons, kind, pid, history>>

(* The double fork, up to the end of the middle child.                      *)
Spawn(c) ==
  /\ Moves(c, "spawn", "poll")
  /\ \E s \in Sups :
       /\ sup[s] = "unborn" /\ \A r \in 1..(s - 1) : sup[r] # "unborn"
       /\ Goes(s, "fork")
  /\ UNCHANGED <<files, policy, daemons, kind, pid, said, history>>

\* Without the first fork the command ends with an error; without the second,
\* the command waits for a supervisor that does not exist.
SpawnFails(c) ==
  /\ \/ Gives(c, "spawn", "failed")
     \/ Moves(c, "spawn", "poll") /\ UNCHANGED said
  /\ Happens("fork")
  /\ UNCHANGED <<files, sup, policy, daemons, kind, pid>>

\* Mutant: the file is left for the next command to find.
PollKeeping(c) ==
  /\ ready_file /\ Gives(c, "poll", "ready")
  /\ UNCHANGED <<files, sup, policy, daemons, kind, pid, history>>

Poll(c) ==
  /\ ready_file /\ Gives(c, "poll", "ready")
  /\ ready_file' = FALSE
  /\ UNCHANGED <<pid_file, sup, policy, daemons, kind, pid, history>>

PollTimeout(c) ==
  /\ ~ready_file /\ Gives(c, "poll", "late") /\ Impatient
  /\ UNCHANGED <<files, sup, policy, daemons, kind, pid>>

\* stop_daemon is the whole of `stop`, and the first half of `restart`.
StopDone(c, from, line) ==
  Moves(c, from, IF kind[c] = "stop" THEN "done" ELSE "socket") /\ Says(c, line)

(* No file: not running.  An empty file, not yet written, gives up silently.*)
Read(c) ==
  /\ \/ pid_file = Nil /\ StopDone(c, "read", "absent") /\ UNCHANGED pid
     \/ pid_file = Torn /\ StopDone(c, "read", "") /\ UNCHANGED pid
     \/ /\ pid_file \notin {Nil, Torn}
        /\ Moves(c, "read", "kill") /\ pid' = [pid EXCEPT ![c] = pid_file]
        /\ UNCHANGED said
  /\ UNCHANGED <<files, sup, policy, daemons, kind, history>>

Kill(c) ==
  /\ Moves(c, "kill", "await")
  /\ IF pid[c] \in Sups /\ Alive(pid[c])
       THEN /\ Signal(pid[c])
            /\ target' = [target EXCEPT ![c] = pid[c]]
            /\ hit' = [hit EXCEPT ![c] = child[pid[c]]]
       ELSE UNCHANGED <<daemons, target, hit>>
  /\ UNCHANGED <<files, sup, policy, kind, pid, said, faults, mess>>

\* Mutant: the message is printed right after the signal.
AwaitNothing(c) ==
  /\ StopDone(c, "await", "stopped")
  /\ UNCHANGED <<files, sup, policy, daemons, kind, pid, history>>

Await(c) ==
  /\ pid_file = Nil /\ StopDone(c, "await", "stopped")
  /\ UNCHANGED <<files, sup, policy, daemons, kind, pid, history>>

AwaitTimeout(c) ==
  /\ pid_file # Nil /\ StopDone(c, "await", "stubborn") /\ Impatient
  /\ UNCHANGED <<files, sup, policy, daemons, kind, pid>>

\* Mutant: `restart` does not wait for the old daemon's socket.
ReleasedAtOnce(c) ==
  /\ Moves(c, "socket", "spawn")
  /\ UNCHANGED <<files, sup, policy, daemons, kind, pid, said, history>>

(* `restart` waits for the socket, and then starts a supervisor in any case.*)
Released(c) ==
  /\ ~Listening /\ Moves(c, "socket", "spawn")
  /\ UNCHANGED <<files, sup, policy, daemons, kind, pid, said, history>>

SocketTimeout(c) ==
  /\ Listening /\ Moves(c, "socket", "spawn") /\ Impatient
  /\ UNCHANGED <<files, sup, policy, daemons, kind, pid, said>>

Command(c) ==
  \/ Check(c) \/ Spawn(c) \/ SpawnFails(c) \/ Poll(c) \/ PollTimeout(c)
  \/ Read(c) \/ Kill(c) \/ Await(c) \/ AwaitTimeout(c)
  \/ Released(c) \/ SocketTimeout(c)

----------------------------------------------------------------------------
Next ==
  \/ \E s \in Sups : \/ Supervise(s) \/ Serve(s) \/ ReapOrphan(s)
                     \/ Crash(s) \/ KillSupervisor(s) \/ Fails(s) \/ TenSeconds(s)
  \/ \E c \in Commands : Command(c) \/ \E k \in Kinds : Type(c, k)
  \/ Reboot

Spec == Init /\ [][Next]_vars

(* The processes are scheduled; nothing is assumed of users and faults.     *)
LiveSpec ==
  /\ Spec
  /\ \A s \in Sups : WF_vars(Supervise(s)) /\ WF_vars(Serve(s))

----------------------------------------------------------------------------
(* Properties.                                                              *)

Started == {s \in Sups : sup[s] # "unborn"}

\* A supervisor that will not fork again.
Finished(s) == sup[s] = "gone" \/ (sup[s] = "unlink" /\ status[s] = "clean")

(* One command at a time, each given the time it needs, and nothing failed. *)
Orderly == mess = {}

(* SIGTERM that reaches a daemon which has bound its socket is never lost   *)
(* and never undone: unless that daemon crashes first, it is pending or the *)
(* daemon has left cleanly, and its supervisor starts no other; whatever    *)
(* commands, supervisors and timeouts there are besides.                    *)
SigtermIsFinal ==
  mess \cap {"crash", "reboot"} = {} =>
    \A c \in Commands : hit[c] \in {"bound", "loop"} =>
      LET s == target[c] IN
        IF Alive(s) THEN sigterm[s] ELSE status[s] = "clean" /\ sup[s] \notin {"backoff", "fork"}

(* "Daemon stopped." is true: with one supervisor, and SIGTERM after run()  *)
(* had blocked it, the daemon has been reaped and no other will follow.     *)
StopHolds ==
  mess \cap {"crash", "reboot"} = {} /\ Cardinality(Started) = 1 =>
    \A c \in Commands :
      said[c] = "stopped" /\ hit[c] \in Running \ {"new"} =>
        child[target[c]] = "none" /\ Finished(target[c])

(* Commands given one after the other never leave two supervisors at work:  *)
(* `daemon` finds the first one's socket, `restart` waits for it to go.     *)
OneSupervisor ==
  Orderly => Cardinality({s \in Sups : Supervising(s) /\ ~Finished(s)}) <= 1

(* ... and never one whose daemon `stop` cannot find: daemon.pid names the  *)
(* daemon that listens, or its supervisor is on its way to write it there.  *)
Reachable ==
  Orderly => \A s \in Sups :
    child[s] \in {"bound", "loop"} => pid_file = s \/ sup[s] \in {"truncate", "write"}

(* A command that returns without a warning has a daemon to show for it:    *)
(* daemon.ready is of this start, not of an earlier one.                    *)
ReadyIsTrue ==
  [][Orderly => \A c \in Commands : said'[c] = "ready" /\ said[c] # "ready" => Listening]_vars

(* A supervisor's end is justified: it was killed, it could not fork, its   *)
(* daemon left cleanly or it had counted its crashes.                       *)
Justified(s) ==
  mess \cap {"kill", "reboot", "fork"} # {} \/ status[s] = "clean" \/ crash_count[s] >= CrashLimit

(* A daemon that crashes comes back: while a supervisor is at work, somebody*)
(* listens sooner or later, or every supervisor has had a reason to end.    *)
Recovers ==
  (\E s \in Sups : Supervising(s))
    ~> (Listening \/ \A s \in Started : sup[s] = "gone" /\ Justified(s))

(* `stop` printed "Daemon stopped." and nobody gave another command: then   *)
(* there is no daemon.                                                      *)
StoppedStays ==
  \A c \in Commands :
    (said[c] = "stopped" /\ at[c] = "done" /\ \A b \in Commands : b > c => at[b] = "idle")
      => ~Listening

(* The service that commands given one after the other see.                 *)
DaemonNow ==
  IF ~Listening THEN "off" ELSE IF pid_file \in Sups THEN "listed" ELSE "unlisted"

Job(c) ==
  IF ~Unfinished(c) THEN "none"
  ELSE IF at[c] \in {"socket", "spawn", "poll"} THEN "start" ELSE kind[c]

Service ==
  INSTANCE DaemonService WITH
    daemon <- DaemonNow,
    job    <- [c \in Commands |-> Job(c)]

(* As long as commands come one after the other and nothing fails, whatever *)
(* processes, files and signals are behind it: each step is a step of the   *)
(* service or invisible to it.                                              *)
CommandsServed ==
  Service!Init /\ [][Orderly' => Service!Next \/ UNCHANGED Service!vars]_vars
=============================================================================
