------------------------ MODULE DaemonService_proofs ------------------------
(***************************************************************************)
(* Supervisor implements DaemonService, for any number of commands and     *)
(* supervisors, as long as the commands come one after the other and       *)
(* nothing fails.  The four states of the order of commands (Stopped,      *)
(* Starting, Up, Stopping) say what the service's daemon is, and which     *)
(* command is at work in two of them says whose step it is.                *)
(***************************************************************************)
EXTENDS Supervisor_proofs

Jobs   == [c \in Commands |-> Job(c)]
Serves == Service!Next \/ UNCHANGED Service!vars

\* Where a command is says which command it is.
Kinded ==
  \A c \in Commands :
    /\ at[c] = "check" => kind[c] = "daemon"
    /\ at[c] \in {"read", "kill", "await"} => kind[c] \in {"stop", "restart"}

LEMMA KindedStep ==
  ASSUME TypeInv, Kinded, [Next]_vars
  PROVE  Kinded'
<1> USE DEF Kinded
<1>1. SupervisorTypeOK
  BY DEF TypeInv
<1>2. CASE UNCHANGED <<at, kind>>
  BY <1>2
<1>3. ASSUME NEW c \in Commands, Command(c) PROVE Kinded'
  <2>1. UNCHANGED kind
    BY <1>3 DEF Command, Check, Spawn, Poll, PollTimeout, Read, Kill, Await, AwaitTimeout,
                Released, SocketTimeout, SpawnFails
  <2>2. \/ \E w \in {"spawn", "poll", "socket", "done"} : at' = [at EXCEPT ![c] = w]
        \/ \E w \in {"kill", "await"} :
             at' = [at EXCEPT ![c] = w] /\ at[c] \in {"read", "kill", "await"}
    BY <1>3 DEF Command, Check, Spawn, Poll, PollTimeout, Read, Kill, Await, AwaitTimeout,
                Released, SocketTimeout, SpawnFails, Gives, StopDone, Moves
  <2>3. QED
    BY ZenonT(40), <1>1, <2>1, <2>2 DEF SupervisorTypeOK
<1>4. ASSUME NEW c \in Commands, NEW k \in Kinds, Type(c, k) PROVE Kinded'
  <2>1. k \in {"daemon", "stop", "restart"}
    BY Bounds
  <2>2. QED
    BY <1>1, <1>4, <2>1 DEF Type, SupervisorTypeOK
<1>5. CASE Reboot
  BY <1>5 DEF Reboot
<1>6. QED
  <2>1. ASSUME NEW s \in Sups,
               \/ Supervise(s) \/ Serve(s) \/ ReapOrphan(s)
               \/ Crash(s) \/ KillSupervisor(s) \/ Fails(s) \/ TenSeconds(s)
        PROVE  UNCHANGED <<at, kind>>
    BY <2>1, FailsEffect
            DEF Supervise, Fork, TruncatePid, WritePid, Reap, CleanExit, Crashed, Serve, Mask,
                Bind, Announce, Finish, ReapOrphan, Forget, Crash, KillSupervisor, Fault, Happens,
                TenSeconds, commands
  <2>2. QED
    BY <1>2, <1>3, <1>4, <1>5, <2>1 DEF Next, vars, commands

LEMMA KindedInvariant == Spec => [](TypeInv /\ OrderInv /\ Kinded)
<1>1. Init => Kinded
  BY DEF Init, Kinded
<1>2. TypeInv /\ Kinded /\ [Next]_vars => Kinded'
  BY KindedStep
<1>3. QED
  BY OrderInvariant, <1>1, <1>2, PTL DEF Spec

----------------------------------------------------------------------------
(* What the states of the order of commands mean to the service.            *)

LEMMA StoppedIsOff ==
  ASSUME Stopped
  PROVE  DaemonNow = "off"
BY DEF Stopped, Rest, DaemonNow, Listening

LEMMA UpIsOn ==
  ASSUME NEW s \in Sups, Up(s)
  PROVE  DaemonNow = IF sup[s] = "wait" THEN "listed" ELSE "unlisted"
BY NoProcess DEF Up, FileFollows, DaemonNow, Listening

LEMMA SettledUnlisted ==
  ASSUME Settled
  PROVE  /\ pid_file = Nil => DaemonNow # "listed"
         /\ pid_file = Torn => DaemonNow = "unlisted"
         /\ Listening => DaemonNow # "off"
<1>1. CASE Stopped
  BY <1>1, StoppedIsOff, NilIsNotDead DEF Stopped, DaemonNow
<1>2. ASSUME NEW s \in Sups, Up(s)
      PROVE  /\ pid_file = Nil => DaemonNow # "listed"
             /\ pid_file = Torn => DaemonNow = "unlisted"
  BY <1>2, UpIsOn, NoProcess DEF Up, FileFollows
<1>3. Listening => DaemonNow # "off"
  BY DEF DaemonNow
<1>4. QED
  BY <1>1, <1>2, <1>3 DEF Settled

(* A supervisor is on its way up or down only for a command that waits.     *)
LEMMA WhoIsAtWork ==
  ASSUME TypeInv, OrderInv, Orderly
  PROVE  \/ Stopped \/ \E s \in Sups : Up(s)
         \/ (\E s \in Sups : Starting(s)) /\ \E c \in Commands : at[c] = "poll"
         \/ (\E s \in Sups : Stopping(s)) /\ \E c \in Commands : at[c] = "await"
<1>1. CASE \A c \in Commands : ~Unfinished(c)
  BY <1>1 DEF OrderInv, Settled
<1>2. ASSUME NEW c \in Commands, Unfinished(c)
      PROVE  \/ Stopped \/ \E s \in Sups : Up(s)
             \/ at[c] = "poll" /\ \E s \in Sups : Starting(s)
             \/ at[c] = "await" /\ \E s \in Sups : Stopping(s)
  <2>1. at[c] \in {"check", "spawn", "poll", "read", "kill", "await", "socket"}
    BY <1>2 DEF Unfinished, TypeInv, SupervisorTypeOK
  <2>2. Phase(c)
    BY DEF OrderInv
  <2>3. QED
    BY <2>1, <2>2 DEF Phase, Settled
<1>3. QED
  BY <1>1, <1>2

(* The processes' own steps: up for a command that polls, down for one that *)
(* waits for the file to go, and into the file at any time.                 *)
LEMMA DaemonMoves ==
  ASSUME TypeInv, OrderInv, Orderly, NEW r \in Sups, Supervise(r) \/ Serve(r)
  PROVE  \/ DaemonNow' = DaemonNow
         \/ DaemonNow = "unlisted" /\ DaemonNow' = "listed"
         \/ /\ DaemonNow = "off" /\ DaemonNow' \in {"unlisted", "listed"}
            /\ \E c \in Commands : at[c] = "poll"
         \/ /\ DaemonNow = "listed" /\ DaemonNow' = "off"
            /\ \E c \in Commands : at[c] = "await"
<1>1. SupervisorTypeOK
  BY DEF TypeInv
<1>2. DaemonNow' \in {"off", "unlisted", "listed"}
  BY DEF DaemonNow
<1>3. ~Stopped
  BY NothingStirs
<1>4. ASSUME NEW s \in Sups, Up(s)
      PROVE  DaemonNow = "unlisted" /\ DaemonNow' \in {"unlisted", "listed"}
  <2>1. Up(s)' /\ sup[s] # "wait"
    BY <1>1, <1>4, UpStays
  <2>2. Listening'
    BY <2>1 DEF Up, Listening
  <2>3. QED
    BY <1>4, <2>1, <2>2, UpIsOn DEF DaemonNow
<1>5. ASSUME NEW s \in Sups, Starting(s)
      PROVE  \/ DaemonNow = "off"
             \/ DaemonNow' = DaemonNow
             \/ DaemonNow = "unlisted" /\ DaemonNow' = "listed"
  <2>1. CASE child[s] = "bound"
    <3>1. r = s
      BY <1>1, <1>5, AtWork DEF Starting
    <3>2. TruncatePid(s) \/ WritePid(s) \/ Announce(s)
      BY <1>5, <2>1, <3>1 DEF Starting, FileFollows, Supervise, Fork, Reap, CleanExit, Crashed,
                              Serve, Mask, Bind, Finish
    <3>3. child'[s] \in {"bound", "loop"}
      BY <1>1, <2>1, <3>2 DEF TruncatePid, WritePid, Announce, Becomes, SupervisorTypeOK, daemons
    <3>4. pid_file \in Sups => pid_file' \in Sups
      BY <1>5, <2>1, <3>2, NoProcess
         DEF Starting, FileFollows, TruncatePid, WritePid, Announce
    <3>5. Listening /\ Listening'
      BY <2>1, <3>3 DEF Listening
    <3>6. QED
      BY <3>4, <3>5 DEF DaemonNow
  <2>2. CASE child[s] # "bound"
    BY <1>5, <2>2 DEF Starting, Rest, DaemonNow, Listening
  <2>3. QED
    BY <2>1, <2>2
<1>6. ASSUME NEW s \in Sups, Stopping(s)
      PROVE  DaemonNow' = "off" /\ DaemonNow \in {"off", "listed"}
  <2>1. r = s /\ Rest({s})'
    BY <1>1, <1>6, AtWork, RestStays DEF Stopping
  <2>2. Finish(s) \/ Reap(s) \/ CleanExit(s)
    BY <1>6, <2>1 DEF Stopping, Supervise, Fork, TruncatePid, WritePid, Crashed,
                      Serve, Mask, Bind, Announce
  <2>3. child'[s] \in {"exited", "none"}
    BY <1>1, <1>6, <2>2 DEF Stopping, Finish, Exits, Becomes, Reap, Forget, CleanExit,
                            SupervisorTypeOK, daemons
  <2>4. ~Listening'
    BY <2>1, <2>3 DEF Rest, Listening
  <2>5. Listening => pid_file \in Sups
    BY <1>6 DEF Stopping, Rest, Listening
  <2>6. QED
    BY <2>4, <2>5 DEF DaemonNow
<1>7. QED
  BY <1>2, <1>3, <1>4, <1>5, <1>6, WhoIsAtWork

----------------------------------------------------------------------------
(* What a command's step means to its job.                                  *)

LEMMA JobsKept ==
  ASSUME UNCHANGED <<at, kind>>
  PROVE  Jobs' = Jobs
BY DEF Jobs, Job, Unfinished

LEMMA JobBecomes ==
  ASSUME SupervisorTypeOK, NEW c \in Commands, NEW w \in {"spawn", "poll", "kill", "await",
         "socket", "done"}, at' = [at EXCEPT ![c] = w], kind' = kind
  PROVE  Jobs' = [Jobs EXCEPT ![c] = IF w = "done" THEN "none"
                                     ELSE IF w \in {"socket", "spawn", "poll"} THEN "start"
                                     ELSE kind[c]]
<1>1. ASSUME NEW b \in Commands \ {c} PROVE Job(b)' = Job(b)
  BY <1>1 DEF Job, Unfinished, SupervisorTypeOK
<1>2. Job(c)' = IF w = "done" THEN "none"
                ELSE IF w \in {"socket", "spawn", "poll"} THEN "start" ELSE kind[c]
  BY DEF Job, Unfinished, SupervisorTypeOK
<1>3. QED
  BY <1>1, <1>2 DEF Jobs

LEMMA NowKept ==
  ASSUME UNCHANGED <<child, pid_file>>
  PROVE  DaemonNow' = DaemonNow
BY DEF DaemonNow, Listening

(* The abstract step that a command's step is.                              *)
LEMMA CommandServes ==
  ASSUME TypeInv, OrderInv, Kinded, Orderly, Orderly', NEW c \in Commands, Command(c)
  PROVE  Serves
<1>1. SupervisorTypeOK
  BY DEF TypeInv
<1>2. Phase(c)
  BY DEF OrderInv
<1>3. ~PollTimeout(c) /\ ~AwaitTimeout(c) /\ ~SocketTimeout(c) /\ ~SpawnFails(c)
  BY DEF PollTimeout, AwaitTimeout, SocketTimeout, SpawnFails, Impatient, Happens, Orderly
<1>4. UNCHANGED kind
  BY DEF Command, Check, Spawn, Poll, PollTimeout, Read, Kill, Await, AwaitTimeout,
         Released, SocketTimeout, SpawnFails
<1>5. Unfinished(c)
  BY DEF Command, Check, Spawn, Poll, PollTimeout, Read, Kill, Await, AwaitTimeout,
         Released, SocketTimeout, SpawnFails, Gives, StopDone, Moves, Unfinished
<1>6. Jobs[c] = IF at[c] \in {"socket", "spawn", "poll"} THEN "start" ELSE kind[c]
  BY <1>5 DEF Jobs, Job
<1>7. CASE Check(c)
  <2>1. Jobs[c] = "daemon" /\ Settled /\ UNCHANGED <<child, pid_file>>
    BY <1>2, <1>6, <1>7 DEF Check, Gives, Moves, Kinded, Phase, daemons, files
  <2>2. CASE Listening
    <3>1. at' = [at EXCEPT ![c] = "done"] /\ said' = [said EXCEPT ![c] = "running"]
      BY <1>7, <2>2 DEF Check, Gives, Moves, Says
    <3>2. Service!Refuse(c)
      BY <1>1, <1>4, <2>1, <2>2, <3>1, JobBecomes, NowKept, SettledUnlisted
         DEF Service!Refuse, Service!Becomes, Service!Prints, Jobs
    <3>3. QED
      BY <3>2 DEF Serves, Service!Next
  <2>3. CASE ~Listening
    <3>1. at' = [at EXCEPT ![c] = "spawn"] /\ UNCHANGED said
      BY <1>7, <2>3 DEF Check, Moves
    <3>2. DaemonNow = "off"
      BY <2>3 DEF DaemonNow
    <3>3. Service!Agree(c)
      BY <1>1, <1>4, <2>1, <3>1, <3>2, JobBecomes, NowKept
         DEF Service!Agree, Service!Becomes, Jobs
    <3>4. QED
      BY <3>3 DEF Serves, Service!Next
  <2>4. QED
    BY <2>2, <2>3
<1>8. CASE Spawn(c) \/ Released(c)
  <2>1. /\ at[c] \in {"spawn", "socket"}
        /\ \E w \in {"spawn", "poll"} : at' = [at EXCEPT ![c] = w]
        /\ UNCHANGED <<child, pid_file, said>>
    BY <1>8 DEF Spawn, Released, Moves, files, daemons
  <2>2. Jobs' = [Jobs EXCEPT ![c] = "start"]
    BY <1>1, <1>4, <2>1, JobBecomes
  <2>3. Jobs[c] = "start" /\ Jobs' = Jobs
    BY <1>6, <2>1, <2>2 DEF Jobs
  <2>4. QED
    BY <2>1, <2>3, NowKept DEF Serves, Service!vars, Jobs
<1>9. CASE Poll(c)
  <2>1. /\ at[c] = "poll" /\ at' = [at EXCEPT ![c] = "done"]
        /\ said' = [said EXCEPT ![c] = "ready"] /\ UNCHANGED <<child, pid_file>>
    BY <1>9 DEF Poll, Gives, Moves, Says, daemons
  <2>2. PICK s \in Sups : Up(s)
    BY <1>2, <1>9, <2>1 DEF Poll, Phase, Starting
  <2>3. DaemonNow # "off"
    BY <2>2, UpIsOn
  <2>4. Service!Ready(c)
    BY <1>1, <1>4, <1>6, <2>1, <2>3, JobBecomes, NowKept
       DEF Service!Ready, Service!Becomes, Service!Prints, Jobs
  <2>5. QED
    BY <2>4 DEF Serves, Service!Next
<1>10. ASSUME NEW line \in {"stopped", "absent", ""}, at[c] \in {"read", "await"},
              StopDone(c, at[c], line), UNCHANGED <<child, pid_file>>,
              \/ line = "stopped" /\ DaemonNow = "off"
              \/ line = "absent" /\ DaemonNow # "listed"
              \/ line = "" /\ DaemonNow = "unlisted"
       PROVE  Serves
  <2>1. Jobs[c] = kind[c] /\ kind[c] \in {"stop", "restart"}
    BY <1>6, <1>10 DEF Kinded
  <2>2. at' = [at EXCEPT ![c] = IF kind[c] = "stop" THEN "done" ELSE "socket"]
        /\ said' = [said EXCEPT ![c] = line]
    BY <1>10 DEF StopDone, Moves, Says
  <2>3. CASE kind[c] = "stop"
    <3>1. Jobs' = [Jobs EXCEPT ![c] = "none"]
      BY <1>1, <1>4, <2>2, <2>3, JobBecomes
    <3>2. Service!Stopped(c, line)
      BY <1>10, <2>1, <2>2, <2>3, <3>1, NowKept
         DEF Service!Stopped, Service!Becomes, Service!Prints, Jobs
    <3>3. QED
      BY <3>2 DEF Serves, Service!Next
  <2>4. CASE kind[c] = "restart"
    <3>1. Jobs' = [Jobs EXCEPT ![c] = "start"]
      BY <1>1, <1>4, <2>2, <2>4, JobBecomes
    <3>2. Service!Stopped(c, line)
      BY <1>10, <2>1, <2>2, <2>4, <3>1, NowKept
         DEF Service!Stopped, Service!Becomes, Service!Prints, Jobs
    <3>3. QED
      BY <3>2 DEF Serves, Service!Next
  <2>5. QED
    BY <2>1, <2>3, <2>4
<1>11. CASE Read(c)
  <2>1. at[c] = "read" /\ Settled /\ UNCHANGED <<child, pid_file>>
    BY <1>2, <1>11 DEF Read, StopDone, Moves, Phase, files, daemons
  <2>2. CASE pid_file = Nil
    BY <1>10, <1>11, <2>1, <2>2, SettledUnlisted, NilIsNotDead DEF Read
  <2>3. CASE pid_file = Torn
    BY <1>10, <1>11, <2>1, <2>3, SettledUnlisted, NilIsNotDead DEF Read
  <2>4. CASE pid_file \notin {Nil, Torn}
    <3>1. at' = [at EXCEPT ![c] = "kill"] /\ UNCHANGED said
      BY <1>11, <2>4 DEF Read, Moves
    <3>2. Jobs' = [Jobs EXCEPT ![c] = kind[c]] /\ Jobs[c] = kind[c]
      BY <1>1, <1>4, <1>6, <2>1, <3>1, JobBecomes
    <3>3. QED
      BY <2>1, <3>1, <3>2, NowKept DEF Serves, Service!vars, Jobs
  <2>5. QED
    BY <2>2, <2>3, <2>4
<1>12. CASE Kill(c)
  <2>1. PICK s \in Sups : Up(s) /\ pid[c] = s
    BY <1>2, <1>12 DEF Kill, Moves, Phase
  <2>2. UNCHANGED <<child, pid_file, said>>
    BY <1>12, <2>1 DEF Kill, Signal, Up, files, daemons
  <2>3. at[c] = "kill" /\ at' = [at EXCEPT ![c] = "await"]
    BY <1>12 DEF Kill, Moves
  <2>4. Jobs' = [Jobs EXCEPT ![c] = kind[c]] /\ Jobs[c] = kind[c]
    BY <1>1, <1>4, <1>6, <2>3, JobBecomes
  <2>5. QED
    BY <2>2, <2>4, NowKept DEF Serves, Service!vars, Jobs
<1>13. CASE Await(c)
  <2>1. at[c] = "await" /\ StopDone(c, at[c], "stopped") /\ UNCHANGED <<child, pid_file>>
    BY <1>13 DEF Await, StopDone, Moves, files, daemons
  <2>2. pid_file = Nil /\ \A s \in Sups : ~Stopping(s)
    BY <1>13, NoProcess, NilIsNotDead DEF Await, Stopping
  <2>3. DaemonNow = "off"
    BY <1>2, <2>1, <2>2, StoppedIsOff DEF Phase
  <2>4. QED
    BY <1>10, <2>1, <2>3
<1>14. QED
  BY <1>3, <1>7, <1>8, <1>9, <1>11, <1>12, <1>13 DEF Command

(* Every step of orderly commands.                                          *)
LEMMA ServiceStep ==
  ASSUME TypeInv, OrderInv, Kinded, [Next]_vars, Orderly'
  PROVE  Serves
<1>1. Orderly
  BY MessGrows DEF Orderly
<1>2. ASSUME UNCHANGED <<child, pid_file, at, kind, said>> PROVE Serves
  BY <1>2, JobsKept, NowKept DEF Serves, Service!vars, Jobs
<1>3. ASSUME NEW s \in Sups, Supervise(s) \/ Serve(s) PROVE Serves
  <2>1. UNCHANGED <<at, kind, said>>
    BY <1>3, ServeEffect DEF Supervise, Fork, TruncatePid, WritePid, Reap, CleanExit, Crashed,
                             Forget, commands
  <2>2. Jobs' = Jobs
    BY <2>1, JobsKept
  <2>3. CASE DaemonNow' = DaemonNow
    BY <2>1, <2>2, <2>3 DEF Serves, Service!vars, Jobs
  <2>4. CASE DaemonNow = "unlisted" /\ DaemonNow' = "listed"
    BY <2>1, <2>2, <2>4 DEF Serves, Service!Next, Service!List, Jobs
  <2>5. ASSUME DaemonNow = "off", DaemonNow' \in {"unlisted", "listed"},
               NEW c \in Commands, at[c] = "poll"
        PROVE  Serves
    <3>1. Job(c) = "start"
      BY <2>5 DEF Job, Unfinished
    <3>2. QED
      BY <2>1, <2>2, <2>5, <3>1 DEF Serves, Service!Next, Service!ComeUp, Jobs
  <2>6. ASSUME DaemonNow = "listed", DaemonNow' = "off", NEW c \in Commands, at[c] = "await"
        PROVE  Serves
    <3>1. Job(c) \in {"stop", "restart"}
      BY <2>6 DEF Job, Unfinished, Kinded
    <3>2. QED
      BY <2>1, <2>2, <2>6, <3>1 DEF Serves, Service!Next, Service!GoDown, Jobs
  <2>7. QED
    BY <1>1, <1>3, <2>3, <2>4, <2>5, <2>6, DaemonMoves
<1>4. ASSUME NEW s \in Sups PROVE ~ReapOrphan(s)
  BY <1>1, OneAtWork DEF ReapOrphan, Stopped, Up, Starting, Stopping, Rest, FileFollows
<1>5. ASSUME NEW s \in Sups PROVE ~Crash(s) /\ ~KillSupervisor(s) /\ ~Fails(s)
  BY FailsEffect DEF Crash, KillSupervisor, Fault, Happens, Orderly
<1>6. ASSUME NEW s \in Sups, TenSeconds(s) PROVE Serves
  BY <1>2, <1>6 DEF TenSeconds, files, daemons, commands
<1>7. ASSUME NEW c \in Commands, Command(c) PROVE Serves
  BY <1>1, <1>7, CommandServes
<1>8. ASSUME NEW c \in Commands, NEW k \in Kinds, Type(c, k) PROVE Serves
  <2>1. SupervisorTypeOK /\ k \in {"daemon", "stop", "restart"}
    BY Bounds DEF TypeInv
  <2>2. \A b \in Commands : Jobs[b] = "none"
    BY <1>8 DEF Type, Orderly, Jobs, Job
  <2>3. /\ at' = [at EXCEPT ![c] = IF k = "daemon" THEN "check" ELSE "read"]
        /\ kind' = [kind EXCEPT ![c] = k]
        /\ UNCHANGED <<child, pid_file, said>>
    BY <1>8 DEF Type, files, daemons
  <2>4. Job(c)' = k /\ \A b \in Commands \ {c} : Job(b)' = Job(b)
    BY <2>1, <2>3 DEF Job, Unfinished, SupervisorTypeOK
  <2>5. Jobs' = [Jobs EXCEPT ![c] = k]
    BY <2>4 DEF Jobs
  <2>6. Service!Give(c)
    BY <2>1, <2>2, <2>3, <2>5, NowKept DEF Service!Give, Service!Becomes, Jobs
  <2>7. QED
    BY <2>6 DEF Serves, Service!Next
<1>9. ~Reboot
  BY DEF Reboot, Orderly
<1>10. CASE UNCHANGED vars
  BY <1>2, <1>10 DEF vars, files, daemons, commands
<1>11. QED
  BY <1>3, <1>4, <1>5, <1>6, <1>7, <1>8, <1>9, <1>10 DEF Next

(* Commands given one after the other get what DaemonService promises: the  *)
(* daemon comes only for `daemon` and `restart` and goes only for `stop` and*)
(* `restart`, and "running", "ready", "stopped" are true when printed       *)
(* (main.rs: daemon, stop, restart and the supervisor's loop).              *)
THEOREM DaemonServed == Spec => CommandsServed
<1> DEFINE Step == Orderly' => Serves
<1>1. ASSUME Init PROVE Service!Init
  <2>1. DaemonNow = "off"
    BY <1>1 DEF Init, DaemonNow, Listening
  <2>2. \A c \in Commands : Job(c) = "none"
    BY <1>1 DEF Init, Job, Unfinished
  <2>3. QED
    BY <1>1, <2>1, <2>2 DEF Init, Service!Init
<1>2. TypeInv /\ OrderInv /\ Kinded /\ [Next]_vars => [Step]_vars
  BY ServiceStep
<1>3. QED
  BY <1>1, <1>2, KindedInvariant, PTL DEF Spec, CommandsServed, Serves
=============================================================================
