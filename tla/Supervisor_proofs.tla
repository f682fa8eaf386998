-------------------------- MODULE Supervisor_proofs --------------------------
(***************************************************************************)
(* Proofs about Supervisor, for any number of supervisors and commands,    *)
(* every limit of crashes and every set of faults.                         *)
(***************************************************************************)
EXTENDS Supervisor, FiniteSetTheorems, TLAPS

(* What the steps need to know of the constants.                            *)
LEMMA Bounds ==
  /\ MaxEvents \in Nat /\ CrashLimit \in Nat /\ CrashLimit > 0
  /\ Kinds \subseteq {"daemon", "stop", "restart"} /\ Faults \subseteq FaultKinds
  /\ 0 \in 0..MaxEvents /\ 0 \in 0..CrashLimit
BY SupervisorConstantsOK

LEMMA OneMore ==
  ASSUME NEW n \in 0..CrashLimit
  PROVE  /\ ~(n >= CrashLimit) => n < CrashLimit
         /\ n < CrashLimit => n + 1 \in 0..CrashLimit /\ 1 \in 0..CrashLimit
BY Bounds

(* A bound of the model: an event is left only below MaxEvents.             *)
LEMMA EventsLeft ==
  ASSUME SupervisorTypeOK, MoreEvents
  PROVE  faults + 1 \in 0..MaxEvents
<1> DEFINE Typed == {c \in Commands : at[c] # "idle"}
<1>1. IsFiniteSet(Commands) /\ Typed \subseteq Commands
  BY SupervisorConstantsOK, FS_Interval DEF Commands
<1>2. Cardinality(Typed) \in Nat
  BY <1>1, FS_Subset, FS_CardinalityType
<1>3. Cardinality(Typed) + faults < MaxEvents
  BY Zenon DEF MoreEvents
<1> HIDE DEF Typed
<1>4. faults \in 0..MaxEvents
  BY DEF SupervisorTypeOK
<1>5. QED
  BY <1>2, <1>3, <1>4, Bounds

----------------------------------------------------------------------------
(* Types.  The count of crashes stays in its range because a supervisor     *)
(* that has reached the limit is gone.                                      *)
WithinLimit == \A s \in Sups : sup[s] # "gone" => crash_count[s] < CrashLimit

TypeInv == SupervisorTypeOK /\ WithinLimit

LEMMA SignalType ==
  ASSUME SupervisorTypeOK, NEW s \in Sups, Signal(s)
  PROVE  /\ child' \in [Sups -> Running \cup {"none", "exited"}]
         /\ sigterm' \in [Sups -> BOOLEAN] /\ status' \in [Sups -> {"clean", "bad"}]
<1>1. CASE child[s] = "new"
  BY <1>1 DEF Signal, Exits, Becomes, SupervisorTypeOK
<1>2. CASE child[s] # "new"
  BY <1>2 DEF Signal, Alive, SupervisorTypeOK
<1>3. QED
  BY <1>1, <1>2

(* A fork or a write that fails: the supervisor ends or goes on, and the    *)
(* files stay as they are.                                                  *)
LEMMA FailsEffect ==
  ASSUME NEW s \in Sups, Fails(s)
  PROVE  /\ \/ sup[s] \in {"fork", "backoff"} /\ sup' = [sup EXCEPT ![s] = "gone"]
               /\ Happens("fork") /\ UNCHANGED child
            \/ sup[s] \in {"truncate", "write"} /\ sup' = [sup EXCEPT ![s] = "wait"]
               /\ Happens("disk") /\ UNCHANGED child
            \/ child[s] = "bound" /\ child' = [child EXCEPT ![s] = "loop"]
               /\ Happens("disk") /\ UNCHANGED sup
         /\ UNCHANGED <<files, policy, sigterm, status, commands>>
BY DEF Fails, ForkFails, TruncateFails, WriteFails, AnnounceFails, Fault, Goes, Becomes,
       daemons

LEMMA SupervisorInitially == Init => TypeInv
<1> SUFFICES ASSUME Init PROVE TypeInv
  OBVIOUS
<1> USE Bounds
<1>1. crash_count \in [Sups -> 0..CrashLimit] /\ WithinLimit
  BY DEF Init, WithinLimit
<1>2. pid \in [Commands -> Pids] /\ target \in [Commands -> Sups \cup {Nil}]
  BY DEF Init, Pids
<1>3. kind \in [Commands -> Kinds \cup {Nil}] /\ hit \in [Commands -> Running \cup {Nil}]
  BY DEF Init
<1>4. faults \in 0..MaxEvents /\ mess \subseteq FaultKinds \cup {"overlap"}
  BY DEF Init
<1>5. /\ sup \in [Sups -> {"unborn", "fork", "truncate", "write", "wait", "unlink",
                           "backoff", "gone"}]
      /\ child \in [Sups -> Running \cup {"none", "exited"}]
      /\ window_over \in [Sups -> BOOLEAN]
  BY DEF Init
<1>6. QED
  BY <1>1, <1>2, <1>3, <1>4, <1>5 DEF Init, TypeInv, SupervisorTypeOK, Pids

LEMMA SupervisorTypeStep ==
  TypeInv /\ [Next]_vars => TypeInv'
<1> SUFFICES ASSUME SupervisorTypeOK, WithinLimit, [Next]_vars
             PROVE  SupervisorTypeOK' /\ WithinLimit'
  BY DEF TypeInv
<1> USE Bounds DEF SupervisorTypeOK, WithinLimit
<1>1. ASSUME NEW s \in Sups, Supervise(s) PROVE SupervisorTypeOK' /\ WithinLimit'
  <2>1. CASE Fork(s)
    BY <2>1 DEF Fork, Goes, Running, files, policy, commands, history
  <2>2. CASE TruncatePid(s)
    BY <2>2 DEF TruncatePid, Goes, policy, daemons, commands, history
  <2>3. CASE WritePid(s)
    BY <2>3 DEF WritePid, Goes, policy, daemons, commands, history, Pids
  <2>4. CASE Reap(s)
    BY <2>4 DEF Reap, Forget, Goes, policy, history, Pids
  <2>5. CASE CleanExit(s)
    BY <2>5 DEF CleanExit, Goes, policy, daemons, commands, history, Pids
  <2>6. CASE Crashed(s)
    <3> DEFINE n == IF window_over[s] THEN 1 ELSE crash_count[s] + 1
    <3>1. crash_count[s] \in 0..CrashLimit /\ crash_count[s] < CrashLimit
      BY <2>6 DEF Crashed
    <3>2. n \in 0..CrashLimit
      BY <3>1, OneMore
    <3>3. crash_count' = [crash_count EXCEPT ![s] = n] /\ crash_count'[s] = n
      BY <2>6 DEF Crashed
    <3>4. sup' = [sup EXCEPT ![s] = IF crash_count'[s] >= CrashLimit THEN "gone" ELSE "backoff"]
      BY <2>6 DEF Crashed, Goes
    <3> HIDE DEF n
    <3>5. WithinLimit'
      <4>1. sup'[s] # "gone" => crash_count'[s] < CrashLimit
        <5>1. sup'[s] # "gone" => ~(crash_count'[s] >= CrashLimit)
          BY <3>4
        <5>2. QED
          BY <3>2, <3>3, <5>1, OneMore
      <4>2. ASSUME NEW r \in Sups \ {s} PROVE sup'[r] = sup[r] /\ crash_count'[r] = crash_count[r]
        BY ZenonT(40), <3>3, <3>4
      <4>3. QED
        BY <4>1, <4>2
    <3>6. crash_count' \in [Sups -> 0..CrashLimit]
      BY <3>2, <3>3
    <3>7. QED
      BY <2>6, <3>4, <3>5, <3>6 DEF Crashed, daemons, commands, history, Pids
  <2>7. QED
    BY <1>1, <2>1, <2>2, <2>3, <2>4, <2>5, <2>6 DEF Supervise
<1>2. ASSUME NEW s \in Sups, Serve(s) PROVE SupervisorTypeOK' /\ WithinLimit'
  <2>1. \E state \in {"masked", "bound", "loop", "exited"} :
          child' = [child EXCEPT ![s] = state]
    BY <1>2 DEF Serve, Mask, Bind, Announce, Finish, Becomes, Exits
  <2>2. status' = status \/ \E how \in {"clean", "bad"} : status' = [status EXCEPT ![s] = how]
    BY <1>2 DEF Serve, Mask, Bind, Announce, Finish, Exits
  <2>3. /\ ready_file' \in BOOLEAN
        /\ UNCHANGED <<pid_file, sup, policy, sigterm, commands, history>>
    BY <1>2 DEF Serve, Mask, Bind, Announce, Finish, files
  <2>4. child' \in [Sups -> Running \cup {"none", "exited"}]
    BY <2>1 DEF Running
  <2>5. status' \in [Sups -> {"clean", "bad"}]
    BY <2>2
  <2>6. QED
    BY <2>3, <2>4, <2>5 DEF policy, commands, history
<1>3. ASSUME NEW s \in Sups, ReapOrphan(s) PROVE SupervisorTypeOK' /\ WithinLimit'
  BY <1>3 DEF ReapOrphan, Forget, policy, history, Pids
<1>4. ASSUME NEW s \in Sups, Crash(s) \/ KillSupervisor(s)
      PROVE  SupervisorTypeOK' /\ WithinLimit'
  <2>1. faults' \in 0..MaxEvents /\ mess' \subseteq FaultKinds \cup {"overlap"}
    <3>1. \E f \in FaultKinds : faults' = faults + 1 /\ mess' = mess \cup {f} /\ MoreEvents
      BY <1>4 DEF Crash, KillSupervisor, Fault, Happens
    <3>2. QED
      BY <3>1, EventsLeft
  <2>2. UNCHANGED <<files, policy, commands, target, hit>>
    BY <1>4 DEF Crash, KillSupervisor, Fault, Happens
  <2>3. sup' = sup \/ sup' = [sup EXCEPT ![s] = "gone"]
    BY <1>4 DEF Crash, KillSupervisor, Goes
  <2>4. /\ child' \in [Sups -> Running \cup {"none", "exited"}]
        /\ sigterm' \in [Sups -> BOOLEAN] /\ status' \in [Sups -> {"clean", "bad"}]
    <3>1. CASE UNCHANGED daemons
      BY <3>1 DEF daemons
    <3>2. CASE Crash(s)
      BY <3>2 DEF Crash, Exits, Becomes
    <3>3. CASE Signal(s)
      BY <3>3, SignalType
    <3>4. QED
      BY <1>4, <3>1, <3>2, <3>3 DEF KillSupervisor
  <2>5. QED
    <3>1. sup' \in [Sups -> {"unborn", "fork", "truncate", "write", "wait", "unlink",
                            "backoff", "gone"}] /\ WithinLimit'
      BY <2>2, <2>3 DEF policy
    <3>2. QED
      BY <2>1, <2>2, <2>4, <3>1 DEF files, policy, commands
<1>5. ASSUME NEW s \in Sups, TenSeconds(s) PROVE SupervisorTypeOK' /\ WithinLimit'
  BY <1>5 DEF TenSeconds, files, daemons, commands, history
<1>11. ASSUME NEW s \in Sups, Fails(s) PROVE SupervisorTypeOK' /\ WithinLimit'
  <2>1. \E f \in FaultKinds : faults' = faults + 1 /\ mess' = mess \cup {f} /\ MoreEvents
    BY <1>11, FailsEffect DEF Happens, FaultKinds
  <2>2. faults' \in 0..MaxEvents /\ mess' \subseteq FaultKinds \cup {"overlap"}
    BY <2>1, EventsLeft
  <2>3. UNCHANGED <<files, policy, sigterm, status, commands, target, hit>>
    BY <1>11, FailsEffect DEF Happens
  <2>4. /\ sup' \in [Sups -> {"unborn", "fork", "truncate", "write", "wait", "unlink",
                              "backoff", "gone"}]
        /\ WithinLimit'
        /\ child' \in [Sups -> Running \cup {"none", "exited"}]
    <3>1. CASE UNCHANGED child /\ sup' = [sup EXCEPT ![s] = "gone"]
      BY <2>3, <3>1 DEF policy
    <3>2. CASE /\ UNCHANGED child /\ sup' = [sup EXCEPT ![s] = "wait"]
               /\ sup[s] \in {"truncate", "write"}
      BY <2>3, <3>2 DEF policy
    <3>3. CASE UNCHANGED sup /\ child' = [child EXCEPT ![s] = "loop"]
      BY <2>3, <3>3 DEF Running, policy
    <3>4. QED
      BY <1>11, <3>1, <3>2, <3>3, FailsEffect
  <2>5. QED
    BY <2>2, <2>3, <2>4 DEF files, policy, commands
<1>6. ASSUME NEW c \in Commands, Command(c) PROVE SupervisorTypeOK' /\ WithinLimit'
  <2> USE DEF Command, Check, Spawn, Poll, PollTimeout, Read, Kill, Await, AwaitTimeout,
              Released, SocketTimeout, SpawnFails
  <2>1. \E w \in {"spawn", "poll", "kill", "await", "socket", "done"} :
          at' = [at EXCEPT ![c] = w]
    BY <1>6 DEF Gives, StopDone, Moves
  <2>2. \/ said' = said
        \/ \E line \in {"", "running", "ready", "late", "absent", "stopped", "stubborn",
                         "failed"} :
             said' = [said EXCEPT ![c] = line]
    BY <1>6 DEF Gives, StopDone, Says
  <2>3. \/ UNCHANGED <<faults, mess>>
        \/ /\ MoreEvents /\ faults' = faults + 1
           /\ \E f \in {"timeout", "fork"} : mess' = mess \cup {f}
    BY <1>6 DEF Impatient, Happens, history
  <2>4. faults' \in 0..MaxEvents /\ mess' \subseteq FaultKinds \cup {"overlap"}
    BY <2>3, EventsLeft DEF FaultKinds
  <2>5. /\ pid' = pid \/ (pid_file \in Pids /\ pid' = [pid EXCEPT ![c] = pid_file])
        /\ ready_file' \in BOOLEAN
        /\ UNCHANGED <<kind, policy, pid_file>>
    BY <1>6 DEF files, Pids
  <2>6. \/ UNCHANGED <<daemons, target, hit>>
        \/ \E s \in Sups : /\ Alive(s) /\ Signal(s)
                            /\ target' = [target EXCEPT ![c] = s]
                            /\ hit' = [hit EXCEPT ![c] = child[s]]
    BY <1>6 DEF Impatient, Happens, history
  <2>7. sup' = sup \/ \E s \in Sups : sup' = [sup EXCEPT ![s] = "fork"] /\ sup[s] = "unborn"
    BY <1>6 DEF Goes
  <2>8. /\ at' \in [Commands -> {"idle", "check", "spawn", "poll", "read", "kill", "await",
                                 "socket", "done"}]
        /\ said' \in [Commands -> {"", "running", "ready", "late", "absent", "stopped",
                                   "stubborn", "failed"}]
        /\ pid' \in [Commands -> Pids]
    <3>1. at' \in [Commands -> {"idle", "check", "spawn", "poll", "read", "kill", "await",
                               "socket", "done"}]
      BY <2>1
    <3>2. said' \in [Commands -> {"", "running", "ready", "late", "absent", "stopped",
                                 "stubborn", "failed"}]
      BY <2>2
    <3>3. pid' \in [Commands -> Pids]
      BY <2>5
    <3>4. QED
      BY <3>1, <3>2, <3>3
  <2>9. /\ child' \in [Sups -> Running \cup {"none", "exited"}]
        /\ sigterm' \in [Sups -> BOOLEAN] /\ status' \in [Sups -> {"clean", "bad"}]
        /\ target' \in [Commands -> Sups \cup {Nil}]
        /\ hit' \in [Commands -> Running \cup {Nil}]
    <3>1. CASE UNCHANGED <<daemons, target, hit>>
      BY <3>1 DEF daemons
    <3>2. ASSUME NEW s \in Sups, Alive(s), Signal(s),
                 target' = [target EXCEPT ![c] = s], hit' = [hit EXCEPT ![c] = child[s]]
          PROVE  /\ child' \in [Sups -> Running \cup {"none", "exited"}]
                 /\ sigterm' \in [Sups -> BOOLEAN] /\ status' \in [Sups -> {"clean", "bad"}]
                 /\ target' \in [Commands -> Sups \cup {Nil}]
                 /\ hit' \in [Commands -> Running \cup {Nil}]
      BY <3>2, SignalType DEF Alive
    <3>3. QED
      BY <2>6, <3>1, <3>2
  <2>10. WithinLimit' /\ sup' \in [Sups -> {"unborn", "fork", "truncate", "write", "wait",
                                            "unlink", "backoff", "gone"}]
    BY <2>5, <2>7 DEF policy
  <2>11. QED
    BY <2>4, <2>5, <2>8, <2>9, <2>10 DEF policy
<1>7. ASSUME NEW c \in Commands, NEW k \in Kinds, Type(c, k)
      PROVE  SupervisorTypeOK' /\ WithinLimit'
  BY <1>7 DEF Type, files, policy, daemons, FaultKinds
<1>8. CASE Reboot
  <2>1. faults' \in 0..MaxEvents /\ mess' \subseteq FaultKinds \cup {"overlap"}
    BY <1>8, EventsLeft DEF Reboot, FaultKinds
  <2>2. pid_file' \in Pids \cup {Torn} /\ pid' \in [Commands -> Pids]
    BY <1>8 DEF Reboot, Pids
  <2>3. /\ sup' \in [Sups -> {"unborn", "gone"}]
        /\ child' \in [Sups -> {"none"}] /\ sigterm' \in [Sups -> BOOLEAN]
        /\ at' \in [Commands -> {"idle", "done"}]
    BY <1>8 DEF Reboot
  <2>4. WithinLimit'
    BY <1>8 DEF Reboot, policy
  <2>5. QED
    BY <1>8, <2>1, <2>2, <2>3, <2>4 DEF Reboot, policy
<1>9. CASE UNCHANGED vars
  BY <1>9 DEF vars, files, policy, daemons, commands, history
<1>10. QED
  BY <1>1, <1>2, <1>3, <1>4, <1>5, <1>6, <1>7, <1>8, <1>9, <1>11 DEF Next

(* Types hold of every behaviour.                                           *)
THEOREM SupervisorTypeCorrect == Spec => []SupervisorTypeOK
<1>1. TypeInv => SupervisorTypeOK
  BY DEF TypeInv
<1>2. QED
  BY SupervisorInitially, SupervisorTypeStep, <1>1, PTL DEF Spec

----------------------------------------------------------------------------
(* SIGTERM is final.  A daemon exists only while its supervisor waits for   *)
(* it, is about to, or is gone; one that has bound its socket can then only *)
(* leave cleanly, and after that its supervisor has nothing left to do.     *)
Housed == \A s \in Sups : child[s] # "none" => sup[s] \in {"truncate", "write", "wait", "gone"}

Quiet == mess \cap {"crash", "reboot"} = {}

Doomed(s) ==
  IF Alive(s) THEN child[s] \in {"bound", "loop"} /\ sigterm[s]
  ELSE status[s] = "clean" /\ sup[s] \notin {"unborn", "backoff", "fork"}

HitsDoom == Quiet => \A c \in Commands : hit[c] \in {"bound", "loop"} =>
                       target[c] \in Sups /\ Doomed(target[c])

(* A history of faults is never shorter.                                    *)
LEMMA MessGrows ==
  ASSUME [Next]_vars
  PROVE  mess \subseteq mess'
BY DEF Next, Command, Check, Spawn, Poll, PollTimeout, Read, Kill, Await, AwaitTimeout,
       Released, SocketTimeout, SpawnFails, Impatient, Happens, Type, Supervise, Fork,
       TruncatePid, WritePid, Reap, CleanExit, Crashed, Serve, Mask, Bind, Announce, Finish,
       ReapOrphan, Crash, KillSupervisor, Fails, ForkFails, TruncateFails, WriteFails,
       AnnounceFails, Fault, TenSeconds, Reboot, vars, history

LEMMA QuietBefore ==
  ASSUME [Next]_vars, Quiet'
  PROVE  Quiet
BY MessGrows DEF Quiet

LEMMA HousedStep ==
  ASSUME TypeInv, Housed, [Next]_vars
  PROVE  Housed'
<1> USE DEF Housed
<1>1. SupervisorTypeOK
  BY DEF TypeInv
<1>2. ASSUME NEW s \in Sups, Supervise(s) \/ ReapOrphan(s) PROVE Housed'
  <2>1. UNCHANGED child \/ child' = [child EXCEPT ![s] = "none"] \/ Fork(s)
    BY <1>2 DEF Supervise, ReapOrphan, TruncatePid, WritePid, Reap, CleanExit, Crashed,
                Forget, daemons
  <2>2. CASE Fork(s)
    BY <1>1, <2>2 DEF Fork, Goes, SupervisorTypeOK
  <2>3. CASE ~Fork(s)
    BY ZenonT(40), <1>1, <1>2, <2>1, <2>3
       DEF Supervise, ReapOrphan, TruncatePid, WritePid, Reap, CleanExit, Crashed,
           Forget, Goes, SupervisorTypeOK, daemons
  <2>4. QED
    BY <2>2, <2>3
<1>3. ASSUME NEW s \in Sups, Serve(s) PROVE Housed'
  BY <1>1, <1>3 DEF Serve, Mask, Bind, Announce, Finish, Becomes, Exits, SupervisorTypeOK
<1>4. ASSUME NEW s \in Sups, Crash(s) \/ KillSupervisor(s) PROVE Housed'
  BY <1>1, <1>4 DEF Crash, KillSupervisor, Signal, Exits, Becomes, Goes, Alive, Running,
                    SupervisorTypeOK, daemons
<1>5. ASSUME NEW s \in Sups, TenSeconds(s) PROVE Housed'
  BY <1>5 DEF TenSeconds, daemons
<1>11. ASSUME NEW s \in Sups, Fails(s) PROVE Housed'
  BY <1>1, <1>11, FailsEffect DEF SupervisorTypeOK
<1>6. ASSUME NEW c \in Commands, Command(c) PROVE Housed'
  BY ZenonT(40), <1>1, <1>6
     DEF Command, Check, Spawn, Poll, PollTimeout, Read, Kill, Await, AwaitTimeout,
         Released, SocketTimeout, SpawnFails, Signal, Exits, Becomes, Goes, Alive, Running,
                    SupervisorTypeOK, daemons
<1>7. ASSUME NEW c \in Commands, NEW k \in Kinds, Type(c, k) PROVE Housed'
  BY <1>7 DEF Type, daemons
<1>8. CASE Reboot
  BY <1>8 DEF Reboot
<1>9. CASE UNCHANGED vars
  BY <1>9 DEF vars, daemons
<1>10. QED
  BY <1>2, <1>3, <1>4, <1>5, <1>6, <1>7, <1>8, <1>9, <1>11 DEF Next

LEMMA DoomedStays ==
  ASSUME TypeInv, Housed, [Next]_vars, NEW s \in Sups, Doomed(s), Quiet'
  PROVE  Doomed(s)'
<1> USE DEF Doomed, Alive
<1>1. SupervisorTypeOK
  BY DEF TypeInv
<1>2. child[s] # "none" => sup[s] \in {"truncate", "write", "wait", "gone"}
  BY DEF Housed
<1>3. ASSUME NEW r \in Sups, Supervise(r) \/ ReapOrphan(r) PROVE Doomed(s)'
  <2>1. UNCHANGED status
    BY <1>3 DEF Supervise, ReapOrphan, Fork, TruncatePid, WritePid, Reap, CleanExit, Crashed,
                Forget, daemons
  <2>2. CASE r # s
    BY <1>1, <1>3, <2>2
       DEF Supervise, ReapOrphan, Fork, TruncatePid, WritePid, Reap, CleanExit, Crashed,
           Forget, Goes, SupervisorTypeOK, daemons
  <2>3. CASE r = s /\ child[s] \in Running
    BY <1>1, <1>2, <1>3, <2>3
       DEF Supervise, ReapOrphan, Fork, TruncatePid, WritePid, Reap, CleanExit, Crashed,
           Forget, Goes, SupervisorTypeOK, Running, daemons
  <2>4. CASE r = s /\ child[s] \notin Running
    <3>1. sup'[s] \notin {"unborn", "backoff", "fork"} /\ child'[s] \notin Running
      BY <1>1, <1>3, <2>4
         DEF Supervise, ReapOrphan, Fork, TruncatePid, WritePid, Reap, CleanExit, Crashed,
             Forget, Goes, SupervisorTypeOK, Running, daemons
    <3>2. QED
      BY <2>1, <2>4, <3>1
  <2>5. QED
    BY <2>2, <2>3, <2>4
<1>4. ASSUME NEW r \in Sups, Serve(r) PROVE Doomed(s)'
  BY ZenonT(40), <1>1, <1>2, <1>4
     DEF Serve, Mask, Bind, Announce, Finish, Becomes, Exits, SupervisorTypeOK, Running
<1>5. ASSUME NEW r \in Sups, KillSupervisor(r) PROVE Doomed(s)'
  BY ZenonT(40), <1>1, <1>5
     DEF KillSupervisor, Signal, Exits, Becomes, Goes, Running, SupervisorTypeOK,
         daemons
<1>6. ASSUME NEW r \in Sups PROVE ~Crash(r)
  BY DEF Crash, Fault, Happens, Quiet
<1>7. ~Reboot
  BY DEF Reboot, Quiet
<1>8. ASSUME NEW r \in Sups, TenSeconds(r) PROVE Doomed(s)'
  BY <1>8 DEF TenSeconds, daemons
<1>13. ASSUME NEW r \in Sups, Fails(r) PROVE Doomed(s)'
  <2>0. UNCHANGED <<policy, sigterm, status>>
    BY <1>13, FailsEffect
  <2>1. CASE UNCHANGED child /\ sup' = [sup EXCEPT ![r] = "gone"]
    BY <1>1, <2>0, <2>1 DEF SupervisorTypeOK, Running
  <2>2. CASE /\ sup[r] \in {"truncate", "write"} /\ sup' = [sup EXCEPT ![r] = "wait"]
             /\ UNCHANGED child
    BY <1>1, <2>0, <2>2 DEF SupervisorTypeOK, Running
  <2>3. CASE /\ child[r] = "bound" /\ child' = [child EXCEPT ![r] = "loop"]
             /\ UNCHANGED sup
    BY <1>1, <2>0, <2>3 DEF SupervisorTypeOK, Running
  <2>4. QED
    BY <1>13, <2>1, <2>2, <2>3, FailsEffect
<1>9. ASSUME NEW c \in Commands, Command(c) PROVE Doomed(s)'
  <2>1. CASE Kill(c)
    <3>1. CASE UNCHANGED daemons
      BY <2>1, <3>1 DEF Kill, daemons
    <3>2. ASSUME NEW p \in Sups, Alive(p), Signal(p) PROVE Doomed(s)'
      <4>1. CASE child[p] = "new"
        <5>1. p # s
          BY <4>1 DEF Running
        <5>2. child'[s] = child[s] /\ status'[s] = status[s] /\ sigterm'[s] = sigterm[s]
          BY <1>1, <3>2, <4>1, <5>1 DEF Signal, Exits, Becomes, SupervisorTypeOK
        <5>3. QED
          BY <2>1, <5>2 DEF Kill
      <4>2. CASE child[p] # "new"
        BY <1>1, <2>1, <3>2, <4>2 DEF Kill, Signal, SupervisorTypeOK
      <4>3. QED
        BY <4>1, <4>2
    <3>3. QED
      BY <2>1, <3>1, <3>2 DEF Kill
  <2>2. CASE Spawn(c)
    BY <1>1, <1>2, <2>2 DEF Spawn, Goes, SupervisorTypeOK, Running, daemons
  <2>3. QED
    BY <1>9, <2>1, <2>2 DEF Command, Check, Poll, PollTimeout, Read, Await, AwaitTimeout,
                            Released, SocketTimeout, SpawnFails, daemons
<1>10. ASSUME NEW c \in Commands, NEW k \in Kinds, Type(c, k) PROVE Doomed(s)'
  BY <1>10 DEF Type, daemons
<1>11. CASE UNCHANGED vars
  BY <1>11 DEF vars, daemons
<1>12. QED
  BY <1>3, <1>4, <1>5, <1>6, <1>7, <1>8, <1>9, <1>10, <1>11, <1>13 DEF Next

(* Only `stop` and `restart` record a signal, and only to a living daemon.  *)
LEMMA HitStep ==
  ASSUME TypeInv, [Next]_vars, NEW c \in Commands
  PROVE  \/ hit'[c] = hit[c] /\ target'[c] = target[c]
         \/ /\ Kill(c) /\ pid[c] \in Sups /\ Alive(pid[c]) /\ Signal(pid[c])
            /\ target'[c] = pid[c] /\ hit'[c] = child[pid[c]]
<1>1. SupervisorTypeOK
  BY DEF TypeInv
<1>2. UNCHANGED <<target, hit>> \/ \E b \in Commands : Kill(b)
  BY DEF Next, Command, Check, Spawn, Poll, PollTimeout, Read, Await, AwaitTimeout, Released,
         SocketTimeout, SpawnFails, Impatient, Happens, Type, Supervise, Fork, TruncatePid,
         WritePid, Reap, CleanExit, Crashed, Serve, Mask, Bind, Announce, Finish, ReapOrphan,
         Crash, KillSupervisor, Fails, ForkFails, TruncateFails, WriteFails, AnnounceFails,
         Fault, TenSeconds, Reboot, vars, history
<1>3. CASE UNCHANGED <<target, hit>>
  BY <1>3
<1>4. ASSUME NEW b \in Commands, Kill(b), pid[b] \in Sups, Alive(pid[b])
      PROVE  /\ Signal(pid[b])
             /\ hit'[c] = IF c = b THEN child[pid[b]] ELSE hit[c]
             /\ target'[c] = IF c = b THEN pid[b] ELSE target[c]
  BY <1>1, <1>4 DEF Kill, SupervisorTypeOK
<1>5. ASSUME NEW b \in Commands, Kill(b), ~(pid[b] \in Sups /\ Alive(pid[b]))
      PROVE  UNCHANGED <<target, hit>>
  BY <1>5 DEF Kill
<1>6. QED
  BY <1>2, <1>3, <1>4, <1>5

LEMMA HitsDoomStep ==
  ASSUME TypeInv, Housed, HitsDoom, [Next]_vars
  PROVE  HitsDoom'
<1> SUFFICES ASSUME Quiet', NEW c \in Commands, hit'[c] \in {"bound", "loop"}
             PROVE  \E s \in Sups : target'[c] = s /\ Doomed(s)'
  BY DEF HitsDoom
<1>1. Quiet
  BY QuietBefore
<1>2. CASE hit'[c] = hit[c] /\ target'[c] = target[c]
  BY <1>1, <1>2, DoomedStays DEF HitsDoom
<1>3. ASSUME NEW p \in Sups, Alive(p), Signal(p), target'[c] = p, hit'[c] = child[p]
      PROVE  target'[c] = p /\ Doomed(p)'
  <2>1. child' = child /\ sigterm'[p]
    BY <1>3 DEF Signal, TypeInv, SupervisorTypeOK
  <2>2. QED
    BY <1>3, <2>1 DEF Doomed, Alive
<1>4. QED
  BY <1>2, <1>3, HitStep

LEMMA SigtermInvariant == Spec => [](TypeInv /\ Housed /\ HitsDoom)
<1>1. Init => Housed /\ HitsDoom
  BY ZenonT(40), NilIsNoState DEF Init, Housed, HitsDoom, Running
<1>2. TypeInv /\ Housed /\ HitsDoom /\ [Next]_vars => (TypeInv /\ Housed /\ HitsDoom)'
  BY SupervisorTypeStep, HousedStep, HitsDoomStep
<1>3. QED
  BY SupervisorInitially, <1>1, <1>2, PTL DEF Spec

(* A daemon that has bound its socket and is sent SIGTERM by a command is   *)
(* not replaced, unless it crashes first, whatever else goes on.            *)
THEOREM SigtermEndsIt == Spec => []SigtermIsFinal
<1>1. HitsDoom => SigtermIsFinal
  BY DEF HitsDoom, SigtermIsFinal, Doomed, Quiet
<1>2. QED
  BY SigtermInvariant, <1>1, PTL

----------------------------------------------------------------------------
(* A supervisor ends for a reason.  One that was not killed has reaped its  *)
(* daemon first, so that nothing can change the reason afterwards.          *)
EndsJustified == \A s \in Sups : sup[s] = "gone" => Justified(s)

Killed == mess \cap {"kill", "reboot", "fork"} # {}

Ended(s) ==
  sup[s] = "gone" => Killed \/ (child[s] = "none" /\ Justified(s))

(* What an end rests on is not taken back.                                  *)
LEMMA EndedKept ==
  ASSUME NEW s \in Sups, Ended(s), Killed => Killed',
         sup'[s] = "gone" => sup[s] = "gone",
         child[s] = "none" => child'[s] = "none" /\ status'[s] = status[s],
         crash_count'[s] = crash_count[s]
  PROVE  Ended(s)'
BY DEF Ended, Justified, Killed

LEMMA EndedStep ==
  ASSUME TypeInv, Housed, [Next]_vars, NEW s \in Sups, Ended(s)
  PROVE  Ended(s)'
<1> USE Bounds
<1>0. SupervisorTypeOK /\ (Killed => Killed')
  BY MessGrows DEF TypeInv, Killed
<1>1. ASSUME NEW r \in Sups, Supervise(r) PROVE Ended(s)'
  <2>1. CASE Fork(r) \/ TruncatePid(r) \/ WritePid(r) \/ Reap(r)
    <3>1. sup'[s] = "gone" => sup[s] = "gone"
      BY <1>0, <2>1 DEF Fork, TruncatePid, WritePid, Reap, Goes, SupervisorTypeOK
    <3>2. CASE Fork(r) /\ r = s
      BY <1>0, <3>2 DEF Fork, Goes, Ended, SupervisorTypeOK
    <3>3. CASE r # s \/ ~Fork(r)
      <4>1. child[s] = "none" => child'[s] = "none" /\ status'[s] = status[s]
        BY <1>0, <2>1, <3>3
           DEF Fork, TruncatePid, WritePid, Reap, Forget, SupervisorTypeOK, daemons
      <4>2. crash_count' = crash_count
        BY <2>1 DEF Fork, TruncatePid, WritePid, Reap, policy
      <4>3. QED
        BY <1>0, <3>1, <4>1, <4>2, EndedKept
    <3>4. QED
      BY <3>2, <3>3
  <2>2. CASE CleanExit(r)
    <3>1. UNCHANGED <<child, status, crash_count>> /\ status[r] = "clean" /\ child[r] = "none"
      BY <1>0, <2>2 DEF CleanExit, Housed, daemons, policy
    <3>2. CASE r = s
      BY <3>1, <3>2 DEF Ended, Justified
    <3>3. CASE r # s
      BY <1>0, <2>2, <3>1, <3>3, EndedKept DEF CleanExit, Goes, SupervisorTypeOK
    <3>4. QED
      BY <3>2, <3>3
  <2>3. CASE Crashed(r)
    <3>1. UNCHANGED <<child, status>> /\ child[r] = "none"
      BY <1>0, <2>3 DEF Crashed, Housed, daemons
    <3>2. CASE r = s
      <4>1. sup'[s] = "gone" => crash_count'[s] >= CrashLimit
        BY <1>0, <2>3, <3>2 DEF Crashed, Goes, SupervisorTypeOK
      <4>2. QED
        BY <3>1, <3>2, <4>1 DEF Ended, Justified
    <3>3. CASE r # s
      <4>1. sup'[s] = sup[s] /\ crash_count'[s] = crash_count[s]
        BY ZenonT(40), <1>0, <2>3, <3>3 DEF Crashed, Goes, SupervisorTypeOK
      <4>2. QED
        BY <1>0, <3>1, <4>1, EndedKept
    <3>4. QED
      BY <3>2, <3>3
  <2>4. QED
    BY <1>1, <2>1, <2>2, <2>3 DEF Supervise
<1>2. ASSUME NEW r \in Sups, Serve(r) PROVE Ended(s)'
  <2>1. UNCHANGED <<sup, policy>> /\ child[r] \in {"new", "masked", "bound", "loop"}
    BY <1>2 DEF Serve, Mask, Bind, Announce, Finish
  <2>2. child[s] = "none" => child'[s] = "none" /\ status'[s] = status[s]
    BY ZenonT(40), <1>0, <1>2, <2>1
       DEF Serve, Mask, Bind, Announce, Finish, Becomes, Exits, SupervisorTypeOK
  <2>3. QED
    BY <1>0, <2>1, <2>2, EndedKept DEF policy
<1>3. ASSUME NEW r \in Sups, ReapOrphan(r) PROVE Ended(s)'
  BY <1>0, <1>3, EndedKept DEF ReapOrphan, Forget, SupervisorTypeOK, policy
<1>4. ASSUME NEW r \in Sups, Crash(r) PROVE Ended(s)'
  BY <1>0, <1>4, EndedKept
     DEF Crash, Fault, Happens, Exits, Becomes, Alive, Running, SupervisorTypeOK, policy
<1>5. ASSUME NEW r \in Sups, KillSupervisor(r) PROVE Ended(s)'
  BY <1>5 DEF KillSupervisor, Fault, Happens, Ended, Killed
<1>12. ASSUME NEW r \in Sups, Fails(r) PROVE Ended(s)'
  <2>1. CASE Happens("fork")
    BY <2>1 DEF Happens, Ended, Killed
  <2>2. CASE ~Happens("fork")
    <3>1. sup'[s] = "gone" => sup[s] = "gone"
      BY <1>0, <1>12, <2>2, FailsEffect DEF SupervisorTypeOK
    <3>2. child[s] = "none" => child'[s] = "none"
      BY <1>0, <1>12, <2>2, FailsEffect DEF SupervisorTypeOK
    <3>3. UNCHANGED <<status, crash_count>>
      BY <1>12, FailsEffect DEF policy
    <3>4. QED
      BY <1>0, <3>1, <3>2, <3>3, EndedKept
  <2>3. QED
    BY <2>1, <2>2
<1>6. ASSUME NEW r \in Sups, TenSeconds(r) PROVE Ended(s)'
  BY <1>0, <1>6, EndedKept DEF TenSeconds, daemons
<1>7. ASSUME NEW c \in Commands, Command(c) PROVE Ended(s)'
  <2>1. crash_count' = crash_count
    BY <1>7 DEF Command, Check, Spawn, Poll, PollTimeout, Read, Kill, Await, AwaitTimeout,
                Released, SocketTimeout, SpawnFails, policy
  <2>2. sup'[s] = "gone" => sup[s] = "gone"
    BY <1>0, <1>7
       DEF Command, Check, Spawn, Poll, PollTimeout, Read, Kill, Await, AwaitTimeout,
           Released, SocketTimeout, SpawnFails, Goes, SupervisorTypeOK
  <2>3. child[s] = "none" => child'[s] = "none" /\ status'[s] = status[s]
    <3>1. UNCHANGED daemons \/ \E r \in Sups : Alive(r) /\ Signal(r)
      BY <1>7 DEF Command, Check, Spawn, Poll, PollTimeout, Read, Kill, Await, AwaitTimeout,
                  Released, SocketTimeout, SpawnFails
    <3>2. ASSUME NEW r \in Sups, Alive(r), Signal(r), child[s] = "none"
          PROVE  child'[s] = "none" /\ status'[s] = status[s]
      <4>1. r # s
        BY <3>2 DEF Alive, Running
      <4>2. QED
        BY <1>0, <3>2, <4>1 DEF Signal, Exits, Becomes, SupervisorTypeOK
    <3>3. QED
      BY <3>1, <3>2 DEF daemons
  <2>4. QED
    BY <1>0, <2>1, <2>2, <2>3, EndedKept
<1>8. ASSUME NEW c \in Commands, NEW k \in Kinds, Type(c, k) PROVE Ended(s)'
  BY <1>0, <1>8, EndedKept DEF Type, daemons, policy
<1>9. CASE Reboot
  BY <1>9 DEF Reboot, Ended, Killed
<1>10. CASE UNCHANGED vars
  BY <1>0, <1>10, EndedKept DEF vars, daemons, policy
<1>11. QED
  BY <1>1, <1>2, <1>3, <1>4, <1>5, <1>6, <1>7, <1>8, <1>9, <1>10, <1>12 DEF Next

(* The safety half of Recovers: whatever else fails, run_supervisor         *)
(* (main.rs:229-253) ends only for a clean exit of its daemon, for as many  *)
(* crashes as it counts, because a fork() has failed (fork()?, main.rs:230),*)
(* or because it was killed.                                                *)
THEOREM EndsHaveReasons == Spec => []EndsJustified
<1>1. Init => \A s \in Sups : Ended(s)
  BY DEF Init, Ended
<1>2. TypeInv /\ Housed /\ (\A s \in Sups : Ended(s)) /\ [Next]_vars
        => (\A s \in Sups : Ended(s))'
  BY EndedStep
<1>3. (\A s \in Sups : Ended(s)) => EndsJustified
  BY DEF Ended, EndsJustified, Justified, Killed
<1>4. QED
  BY <1>1, <1>2, <1>3, SigtermInvariant, PTL DEF Spec

----------------------------------------------------------------------------
(* "Daemon stopped." is true.  With one supervisor, daemon.pid and every    *)
(* PID a command has read name its present daemon or no process; hence a    *)
(* daemon sent SIGTERM keeps its name in the file until it has been reaped. *)
Staffed == \A s \in Sups : sup[s] \in {"truncate", "write", "wait"} => child[s] # "none"

Unsaid == \A c \in Commands :
            at[c] \in {"idle", "check", "read", "kill", "await"} => said[c] # "stopped"

Named(s) ==
  /\ pid_file \in Sups => pid_file = s /\ sup[s] \in {"wait", "gone"} /\ child[s] # "none"
  /\ \A c \in Commands : pid[c] \in Sups => pid[c] = s /\ pid_file = s

Condemned(s) ==
  /\ IF Alive(s) THEN child[s] # "new" /\ sigterm[s] ELSE status[s] = "clean"
  /\ IF child[s] = "none" THEN sup[s] \in {"unlink", "gone"}
     ELSE pid_file = s /\ sup[s] \in {"wait", "gone"}

HitsAlone(s) ==
  Quiet => \A c \in Commands : hit[c] \in Running \ {"new"} =>
    target[c] = s /\ Condemned(s) /\ (said[c] = "stopped" => child[s] = "none")

Sole(s)  == Started \subseteq {s}
StopInv  == \A s \in Sups : Sole(s) => Named(s) /\ HitsAlone(s)
StopBase == TypeInv /\ Housed /\ Staffed /\ Unsaid

(* What the daemon's own steps, and what signals and faults do to it.       *)
LEMMA ServeEffect ==
  ASSUME NEW s \in Sups, Serve(s)
  PROVE  /\ \E state \in {"masked", "bound", "loop", "exited"} :
              child' = [child EXCEPT ![s] = state]
         /\ child[s] \in Running
         /\ UNCHANGED <<pid_file, sup, sigterm, commands>>
BY DEF Serve, Mask, Bind, Announce, Finish, Becomes, Exits, Running, files

LEMMA SignalEffect ==
  ASSUME NEW s \in Sups, Signal(s)
  PROVE  \/ child[s] = "new" /\ child' = [child EXCEPT ![s] = "exited"]
         \/ UNCHANGED child
BY DEF Signal, Exits, Becomes

LEMMA FaultEffect ==
  ASSUME NEW s \in Sups, Crash(s) \/ KillSupervisor(s)
  PROVE  /\ \/ child[s] \in Running /\ child' = [child EXCEPT ![s] = "exited"]
            \/ UNCHANGED child
         /\ \/ sup[s] # "unborn" /\ sup' = [sup EXCEPT ![s] = "gone"]
            \/ UNCHANGED sup
         /\ UNCHANGED <<pid_file, commands>>
<1>1. CASE Crash(s)
  BY <1>1 DEF Crash, Fault, Happens, Alive, Exits, Becomes, files
<1>2. CASE KillSupervisor(s)
  BY <1>2, SignalEffect
     DEF KillSupervisor, Fault, Goes, Supervising, Running, daemons, files
<1>3. QED
  BY <1>1, <1>2

LEMMA NoProcess == Sups \cap {Nil, Torn, Dead} = {}
BY SupervisorConstantsOK DEF Sups

LEMMA NilIsNotDead == Nil # Dead /\ Nil # Torn
<1>1. ASSUME Nil = Dead \/ Nil = Torn PROVE FALSE
  <2>1. PICK x : \E y : {Torn, Dead, Nil} = {x, y}
    BY <1>1
  <2>2. PICK y : {Torn, Dead, Nil} = {x, y}
    BY <2>1
  <2>3. IsFiniteSet({x}) /\ Cardinality({x}) = 1
    BY FS_Singleton
  <2>4. {x, y} = {x} \cup {y}
    OBVIOUS
  <2>5. Cardinality({x, y}) <= 2
    BY <2>3, <2>4, FS_AddElement
  <2>6. QED
    BY <2>2, <2>5, SupervisorConstantsOK
<1>2. QED
  BY <1>1

LEMMA SoleBefore ==
  ASSUME TypeInv, [Next]_vars, NEW s \in Sups, Sole(s)'
  PROVE  Sole(s) /\ \A r \in Sups \ {s} : sup[r] = "unborn" /\ sup'[r] = "unborn"
<1>1. SupervisorTypeOK
  BY DEF TypeInv
<1>2. ASSUME NEW q \in Sups, Supervise(q), NEW r \in Sups, sup[r] # "unborn"
      PROVE  sup'[r] # "unborn"
  BY <1>1, <1>2 DEF Supervise, Fork, TruncatePid, WritePid, Reap, CleanExit, Crashed, Goes,
                    SupervisorTypeOK
<1>3. ASSUME NEW q \in Sups, Crash(q) \/ KillSupervisor(q), NEW r \in Sups, sup[r] # "unborn"
      PROVE  sup'[r] # "unborn"
  BY <1>1, <1>3, FaultEffect DEF SupervisorTypeOK
<1>8. ASSUME NEW q \in Sups, Fails(q), NEW r \in Sups, sup[r] # "unborn"
      PROVE  sup'[r] # "unborn"
  BY <1>1, <1>8, FailsEffect DEF SupervisorTypeOK
<1>4. ASSUME NEW c \in Commands, Command(c), NEW r \in Sups, sup[r] # "unborn"
      PROVE  sup'[r] # "unborn"
  <2>1. CASE Spawn(c)
    BY <1>1, <1>4, <2>1 DEF Spawn, Goes, SupervisorTypeOK
  <2>2. QED
    BY <1>4, <2>1 DEF Command, Check, Poll, PollTimeout, Read, Kill, Await, AwaitTimeout,
                      Released, SocketTimeout, SpawnFails
<1>5. ASSUME Reboot, NEW r \in Sups, sup[r] # "unborn" PROVE sup'[r] # "unborn"
  BY <1>5 DEF Reboot
<1>6. ASSUME NEW r \in Sups, sup[r] # "unborn" PROVE sup'[r] # "unborn"
  BY <1>2, <1>3, <1>4, <1>5, <1>6, <1>8, ServeEffect
     DEF Next, ReapOrphan, TenSeconds, Type, vars
<1>7. QED
  BY <1>6 DEF Sole, Started

LEMMA StaffedStep ==
  ASSUME TypeInv, Staffed, [Next]_vars
  PROVE  Staffed'
<1> USE DEF Staffed
<1>1. SupervisorTypeOK
  BY DEF TypeInv
<1>2. ASSUME NEW s \in Sups, Supervise(s) PROVE Staffed'
  <2>1. CASE Fork(s)
    BY <1>1, <2>1 DEF Fork, Goes, SupervisorTypeOK
  <2>2. CASE TruncatePid(s) \/ WritePid(s)
    BY <1>1, <2>2 DEF TruncatePid, WritePid, Goes, SupervisorTypeOK, daemons
  <2>3. CASE Reap(s)
    BY <1>1, <2>3 DEF Reap, Forget, Goes, SupervisorTypeOK
  <2>4. CASE CleanExit(s) \/ Crashed(s)
    BY <1>1, <2>4 DEF CleanExit, Crashed, Goes, SupervisorTypeOK, daemons
  <2>5. QED
    BY <1>2, <2>1, <2>2, <2>3, <2>4 DEF Supervise
<1>3. ASSUME NEW s \in Sups, Serve(s) \/ ReapOrphan(s) PROVE Staffed'
  BY <1>1, <1>3, ServeEffect DEF ReapOrphan, Forget, SupervisorTypeOK
<1>4. ASSUME NEW s \in Sups, Crash(s) \/ KillSupervisor(s) PROVE Staffed'
  BY <1>1, <1>4, FaultEffect DEF SupervisorTypeOK
<1>11. ASSUME NEW s \in Sups, Fails(s) PROVE Staffed'
  <2>1. CASE UNCHANGED child /\ sup' = [sup EXCEPT ![s] = "gone"]
    BY <1>1, <1>11, <2>1, FailsEffect DEF SupervisorTypeOK
  <2>2. CASE /\ sup[s] \in {"truncate", "write"} /\ sup' = [sup EXCEPT ![s] = "wait"]
             /\ UNCHANGED child
    BY <1>1, <1>11, <2>2, FailsEffect DEF SupervisorTypeOK
  <2>3. CASE /\ child[s] = "bound" /\ child' = [child EXCEPT ![s] = "loop"]
             /\ UNCHANGED sup
    BY <1>1, <1>11, <2>3, FailsEffect DEF SupervisorTypeOK
  <2>4. QED
    BY <1>11, <2>1, <2>2, <2>3, FailsEffect
<1>5. ASSUME NEW s \in Sups, TenSeconds(s) PROVE Staffed'
  BY <1>5 DEF TenSeconds, daemons
<1>6. ASSUME NEW c \in Commands, Command(c) PROVE Staffed'
  <2>1. ASSUME NEW s \in Sups PROVE child[s] # "none" => child'[s] # "none"
    BY ZenonT(40), <1>1, <1>6
       DEF Command, Check, Spawn, Poll, PollTimeout, Read, Kill, Await, AwaitTimeout,
           Released, SocketTimeout, SpawnFails, Signal, Exits, Becomes, SupervisorTypeOK, daemons
  <2>2. ASSUME NEW s \in Sups PROVE sup'[s] = sup[s] \/ sup'[s] = "fork"
    BY <1>1, <1>6 DEF Command, Check, Spawn, Poll, PollTimeout, Read, Kill, Await, AwaitTimeout,
                      Released, SocketTimeout, SpawnFails, Goes, SupervisorTypeOK
  <2>3. QED
    BY <2>1, <2>2
<1>7. ASSUME NEW c \in Commands, NEW k \in Kinds, Type(c, k) PROVE Staffed'
  BY <1>7 DEF Type, daemons
<1>8. CASE Reboot
  BY <1>8 DEF Reboot
<1>9. CASE UNCHANGED vars
  BY <1>9 DEF vars, daemons
<1>10. QED
  BY <1>2, <1>3, <1>4, <1>5, <1>6, <1>7, <1>8, <1>9, <1>11 DEF Next

LEMMA UnsaidStep ==
  ASSUME TypeInv, Unsaid, [Next]_vars
  PROVE  Unsaid'
<1> USE DEF Unsaid
<1>1. SupervisorTypeOK
  BY DEF TypeInv
<1>2. CASE UNCHANGED <<at, said>>
  BY <1>2
<1>3. ASSUME NEW c \in Commands, Command(c) PROVE Unsaid'
  <2>1. CASE Check(c) \/ Spawn(c) \/ Poll(c) \/ PollTimeout(c)
    BY ZenonT(40), <1>1, <2>1
       DEF Check, Spawn, Poll, PollTimeout, Gives, Moves, Says, SupervisorTypeOK
  <2>2. CASE Read(c) \/ Kill(c)
    BY ZenonT(40), <1>1, <2>2 DEF Read, Kill, StopDone, Moves, Says, SupervisorTypeOK
  <2>3. CASE Await(c) \/ AwaitTimeout(c)
    <3>1. \E w \in {"done", "socket"} : at' = [at EXCEPT ![c] = w]
      BY <2>3 DEF Await, AwaitTimeout, StopDone, Moves
    <3>2. \E line \in {"stopped", "stubborn"} : said' = [said EXCEPT ![c] = line]
      BY <2>3 DEF Await, AwaitTimeout, StopDone, Says
    <3>3. QED
      BY <1>1, <3>1, <3>2 DEF SupervisorTypeOK
  <2>4. CASE Released(c) \/ SocketTimeout(c)
    BY <1>1, <2>4 DEF Released, SocketTimeout, Moves, SupervisorTypeOK
  <2>5. CASE SpawnFails(c)
    <3>1. CASE Gives(c, "spawn", "failed")
      BY <1>1, <2>5, <3>1 DEF Gives, Moves, Says, SupervisorTypeOK
    <3>2. CASE Moves(c, "spawn", "poll") /\ UNCHANGED said
      BY <1>1, <3>2 DEF Moves, SupervisorTypeOK
    <3>3. QED
      BY <2>5, <3>1, <3>2 DEF SpawnFails
  <2>6. QED
    BY <1>3, <2>1, <2>2, <2>3, <2>4, <2>5 DEF Command
<1>4. ASSUME NEW c \in Commands, NEW k \in Kinds, Type(c, k) PROVE Unsaid'
  BY <1>1, <1>4 DEF Type, SupervisorTypeOK
<1>5. CASE Reboot
  BY <1>1, <1>5 DEF Reboot, SupervisorTypeOK
<1>6. QED
  BY <1>2, <1>3, <1>4, <1>5
     DEF Next, Supervise, Fork, TruncatePid, WritePid, Reap, CleanExit, Crashed, Forget, Serve,
         Mask, Bind, Announce, Finish, ReapOrphan, Crash, KillSupervisor, Fails, ForkFails,
         TruncateFails, WriteFails, AnnounceFails, Fault, TenSeconds, vars, commands

LEMMA NamedStep ==
  ASSUME StopBase, [Next]_vars, NEW s \in Sups, Sole(s)', Named(s)
  PROVE  Named(s)'
<1> USE NoProcess DEF Named
<1>1. SupervisorTypeOK /\ Housed /\ Staffed
  BY DEF StopBase, TypeInv
<1>2. \A r \in Sups \ {s} : sup[r] = "unborn" /\ sup'[r] = "unborn"
  BY SoleBefore DEF StopBase
<1>3. ASSUME NEW r \in Sups, Supervise(r) PROVE Named(s)'
  <2>1. r = s
    BY <1>2, <1>3 DEF Supervise, Fork, TruncatePid, WritePid, Reap, CleanExit, Crashed
  <2>2. CASE Fork(s)
    BY <1>1, <2>2 DEF Fork, files, commands
  <2>3. CASE TruncatePid(s)
    BY <1>1, <2>3 DEF TruncatePid, commands
  <2>4. CASE WritePid(s)
    BY <1>1, <2>4 DEF WritePid, Goes, Staffed, SupervisorTypeOK, commands, daemons
  <2>5. CASE Reap(s)
    BY <1>1, <2>5 DEF Reap, Forget, SupervisorTypeOK
  <2>6. CASE CleanExit(s) \/ Crashed(s)
    BY <1>1, <2>6 DEF CleanExit, Crashed, commands
  <2>7. QED
    BY <1>3, <2>1, <2>2, <2>3, <2>4, <2>5, <2>6 DEF Supervise
<1>4. ASSUME NEW r \in Sups, Serve(r) PROVE Named(s)'
  BY <1>1, <1>4, ServeEffect DEF SupervisorTypeOK, commands
<1>5. ASSUME NEW r \in Sups, ReapOrphan(r) PROVE Named(s)'
  BY <1>1, <1>2, <1>5 DEF ReapOrphan, Forget, SupervisorTypeOK
<1>6. ASSUME NEW r \in Sups, Crash(r) \/ KillSupervisor(r) PROVE Named(s)'
  BY <1>1, <1>6, FaultEffect DEF SupervisorTypeOK, commands
<1>13. ASSUME NEW r \in Sups, Fails(r) PROVE Named(s)'
  <2>1. CASE UNCHANGED child /\ sup' = [sup EXCEPT ![r] = "gone"]
    BY <1>1, <1>13, <2>1, FailsEffect DEF SupervisorTypeOK, files, commands
  <2>2. CASE /\ sup[r] \in {"truncate", "write"} /\ sup' = [sup EXCEPT ![r] = "wait"]
             /\ UNCHANGED child
    BY <1>1, <1>13, <2>2, FailsEffect DEF SupervisorTypeOK, files, commands
  <2>3. CASE /\ child[r] = "bound" /\ child' = [child EXCEPT ![r] = "loop"]
             /\ UNCHANGED sup
    BY <1>1, <1>13, <2>3, FailsEffect DEF SupervisorTypeOK, files, commands
  <2>4. QED
    BY <1>13, <2>1, <2>2, <2>3, FailsEffect
<1>7. ASSUME NEW r \in Sups, TenSeconds(r) PROVE Named(s)'
  BY <1>7 DEF TenSeconds, files, commands, daemons
<1>8. ASSUME NEW c \in Commands, Command(c) PROVE Named(s)'
  <2>1. CASE Kill(c)
    BY <1>1, <2>1 DEF Kill, Signal, Exits, Becomes, SupervisorTypeOK, files, daemons
  <2>2. CASE Spawn(c)
    BY <1>1, <2>2 DEF Spawn, Goes, SupervisorTypeOK, files, daemons
  <2>3. CASE Read(c)
    BY <1>1, <2>3 DEF Read, SupervisorTypeOK, files, daemons
  <2>4. QED
    BY <1>8, <2>1, <2>2, <2>3
       DEF Command, Check, Poll, PollTimeout, Await, AwaitTimeout, Released, SocketTimeout,
           SpawnFails, files, daemons
<1>9. ASSUME NEW c \in Commands, NEW k \in Kinds, Type(c, k) PROVE Named(s)'
  BY <1>9 DEF Type, files, daemons
<1>10. CASE Reboot
  BY <1>1, <1>10 DEF Reboot
<1>11. CASE UNCHANGED vars
  BY <1>11 DEF vars, files, commands, daemons
<1>12. QED
  BY <1>3, <1>4, <1>5, <1>6, <1>7, <1>8, <1>9, <1>10, <1>11, <1>13 DEF Next

LEMMA CondemnedStays ==
  ASSUME StopBase, [Next]_vars, NEW s \in Sups, Sole(s)', Named(s), Condemned(s), Quiet'
  PROVE  Condemned(s)' /\ (child[s] = "none" => child'[s] = "none")
<1> USE DEF Condemned, Alive
<1>1. SupervisorTypeOK /\ Housed /\ Staffed
  BY DEF StopBase, TypeInv
<1>2. \A r \in Sups \ {s} : sup[r] = "unborn" /\ child[r] = "none"
  BY <1>1, SoleBefore DEF StopBase, Housed
<1>3. ASSUME NEW r \in Sups, Supervise(r)
      PROVE  Condemned(s)' /\ (child[s] = "none" => child'[s] = "none")
  <2>1. r = s
    BY <1>2, <1>3 DEF Supervise, Fork, TruncatePid, WritePid, Reap, CleanExit, Crashed
  <2>2. Reap(s) \/ CleanExit(s)
    BY <1>3, <2>1 DEF Supervise, Fork, TruncatePid, WritePid, Crashed, Running
  <2>3. CASE Reap(s)
    BY <1>1, <2>3 DEF Reap, Forget, Goes, Running, SupervisorTypeOK
  <2>4. CASE CleanExit(s)
    BY <1>1, <2>4 DEF CleanExit, Goes, Running, SupervisorTypeOK, daemons
  <2>5. QED
    BY <2>2, <2>3, <2>4
<1>4. ASSUME NEW r \in Sups, Serve(r)
      PROVE  Condemned(s)' /\ (child[s] = "none" => child'[s] = "none")
  <2>1. r = s /\ child[s] \in {"masked", "bound", "loop"}
    BY <1>2, <1>4, ServeEffect DEF Running
  <2>2. CASE child[s] = "masked"
    <3>1. ~Listening
      BY <1>2, <2>2 DEF Listening
    <3>2. child' = [child EXCEPT ![s] = "bound"]
      BY <1>4, <2>1, <2>2, <3>1 DEF Serve, Mask, Bind, Announce, Finish, Becomes
    <3>3. QED
      BY ZenonT(40), <1>1, <1>4, <2>1, <3>2, ServeEffect DEF Running, SupervisorTypeOK
  <2>3. CASE child[s] = "bound"
    BY <1>1, <1>4, <2>1, <2>3 DEF Serve, Mask, Bind, Announce, Finish, Becomes, Running,
                                  SupervisorTypeOK
  <2>4. CASE child[s] = "loop"
    BY <1>1, <1>4, <2>1, <2>4 DEF Serve, Mask, Bind, Announce, Finish, Becomes, Exits, Running,
                                  SupervisorTypeOK, files
  <2>5. QED
    BY <2>1, <2>2, <2>3, <2>4
<1>5. ASSUME NEW r \in Sups, ReapOrphan(r)
      PROVE  Condemned(s)' /\ (child[s] = "none" => child'[s] = "none")
  BY <1>1, <1>2, <1>5 DEF ReapOrphan, Forget, Running, SupervisorTypeOK
<1>6. ASSUME NEW r \in Sups, KillSupervisor(r)
      PROVE  Condemned(s)' /\ (child[s] = "none" => child'[s] = "none")
  <2>1. r = s /\ UNCHANGED pid_file /\ sup' = [sup EXCEPT ![s] = "gone"]
    BY <1>2, <1>6 DEF KillSupervisor, Supervising, Fault, Happens, Goes, files
  <2>2. UNCHANGED <<child, status>> /\ (sigterm[s] => sigterm'[s])
    BY <1>1, <1>6, <2>1 DEF KillSupervisor, Signal, Running, SupervisorTypeOK, daemons
  <2>3. QED
    BY <1>1, <2>1, <2>2 DEF SupervisorTypeOK
<1>7. ASSUME NEW r \in Sups PROVE ~Crash(r)
  BY DEF Crash, Fault, Happens, Quiet
<1>8. ~Reboot
  BY DEF Reboot, Quiet
<1>14. ASSUME NEW r \in Sups, Fails(r)
       PROVE  Condemned(s)' /\ (child[s] = "none" => child'[s] = "none")
  <2>0. UNCHANGED <<pid_file, sigterm, status>>
    BY <1>14, FailsEffect DEF files
  <2>1. CASE UNCHANGED child /\ sup' = [sup EXCEPT ![r] = "gone"]
    BY <1>1, <1>2, <2>0, <1>14, <2>1, FailsEffect DEF Running, SupervisorTypeOK
  <2>2. CASE /\ sup[r] \in {"truncate", "write"} /\ sup' = [sup EXCEPT ![r] = "wait"]
             /\ UNCHANGED child
    BY <1>1, <1>2, <2>0, <1>14, <2>2, FailsEffect DEF Running, SupervisorTypeOK
  <2>3. CASE /\ child[r] = "bound" /\ child' = [child EXCEPT ![r] = "loop"]
             /\ UNCHANGED sup
    BY <1>1, <1>2, <2>0, <1>14, <2>3, FailsEffect DEF Running, SupervisorTypeOK
  <2>4. QED
    BY <1>14, <2>1, <2>2, <2>3, FailsEffect
<1>9. ASSUME NEW r \in Sups, TenSeconds(r)
      PROVE  Condemned(s)' /\ (child[s] = "none" => child'[s] = "none")
  BY <1>9 DEF TenSeconds, files, daemons
<1>10. ASSUME NEW c \in Commands, Command(c)
       PROVE  Condemned(s)' /\ (child[s] = "none" => child'[s] = "none")
  <2>1. CASE Kill(c)
    <3>1. UNCHANGED <<pid_file, sup>>
      BY <2>1 DEF Kill, files
    <3>2. UNCHANGED <<child, status>> /\ (sigterm[s] => sigterm'[s])
      <4>1. CASE UNCHANGED daemons
        BY <4>1 DEF daemons
      <4>2. ASSUME NEW p \in Sups, Alive(p), Signal(p)
            PROVE  UNCHANGED <<child, status>> /\ (sigterm[s] => sigterm'[s])
        <5>1. p = s
          BY <1>2, <4>2 DEF Running
        <5>2. QED
          BY <1>1, <4>2, <5>1 DEF Signal, Running, SupervisorTypeOK
      <4>3. QED
        BY <2>1, <4>1, <4>2 DEF Kill
    <3>3. QED
      BY <3>1, <3>2
  <2>2. CASE Spawn(c)
    <3>1. sup[s] # "unborn"
      OBVIOUS
    <3>2. \E r \in Sups \ {s} : sup'[r] = "fork"
      BY <1>1, <2>2, <3>1 DEF Spawn, Goes, SupervisorTypeOK
    <3>3. QED
      BY <3>2, SoleBefore DEF StopBase
  <2>3. QED
    BY <1>10, <2>1, <2>2
       DEF Command, Check, Poll, PollTimeout, Read, Await, AwaitTimeout, Released,
           SocketTimeout, SpawnFails, files, daemons
<1>11. ASSUME NEW c \in Commands, NEW k \in Kinds, Type(c, k)
       PROVE  Condemned(s)' /\ (child[s] = "none" => child'[s] = "none")
  BY <1>11 DEF Type, files, daemons
<1>12. CASE UNCHANGED vars
  BY <1>12 DEF vars, files, daemons
<1>13. QED
  BY <1>3, <1>4, <1>5, <1>6, <1>7, <1>8, <1>9, <1>10, <1>11, <1>12, <1>14 DEF Next

(* "stopped" is said only when daemon.pid is gone.                          *)
LEMMA SaidStep ==
  ASSUME TypeInv, [Next]_vars, NEW c \in Commands, said'[c] = "stopped"
  PROVE  said[c] = "stopped" \/ (Await(c) /\ pid_file = Nil)
<1>1. SupervisorTypeOK
  BY DEF TypeInv
<1>2. CASE UNCHANGED said
  BY <1>2
<1>3. ASSUME NEW b \in Commands, Await(b)
      PROVE  said[c] = "stopped" \/ (Await(c) /\ pid_file = Nil)
  BY <1>1, <1>3 DEF Await, StopDone, Says, SupervisorTypeOK
<1>4. ASSUME NEW b \in Commands, Command(b), ~Await(b), ~UNCHANGED said
      PROVE  \E line \in {"running", "ready", "late", "absent", "", "stubborn", "failed"} :
               said' = [said EXCEPT ![b] = line]
  BY <1>4 DEF Command, Check, Spawn, Poll, PollTimeout, Read, Kill, AwaitTimeout,
              Released, SocketTimeout, SpawnFails, Gives, StopDone, Says
<1>5. ASSUME NEW b \in Commands, Command(b), ~Await(b), ~UNCHANGED said
      PROVE  said[c] = "stopped"
  BY <1>1, <1>4, <1>5 DEF SupervisorTypeOK
<1>6. UNCHANGED said \/ \E b \in Commands : Command(b)
  BY DEF Next, Type, Supervise, Fork, TruncatePid, WritePid, Reap, CleanExit, Crashed, Forget,
         Serve, Mask, Bind, Announce, Finish, ReapOrphan, Crash, KillSupervisor, Fails,
         ForkFails, TruncateFails, WriteFails, AnnounceFails, Fault, TenSeconds, Reboot, vars,
         commands
<1>7. QED
  BY <1>2, <1>3, <1>5, <1>6

LEMMA StopStep ==
  ASSUME StopBase, StopInv, [Next]_vars
  PROVE  StopInv'
<1> SUFFICES ASSUME NEW s \in Sups, Sole(s)' PROVE Named(s)' /\ HitsAlone(s)'
  BY DEF StopInv
<1>1. Named(s) /\ HitsAlone(s) /\ TypeInv
  BY SoleBefore DEF StopInv, StopBase
<1>2. Named(s)'
  BY <1>1, NamedStep
<1>3. ASSUME Quiet', NEW c \in Commands, hit'[c] \in Running \ {"new"}
      PROVE  target'[c] = s /\ Condemned(s)' /\ (said'[c] = "stopped" => child'[s] = "none")
  <2>1. Quiet
    BY <1>3, QuietBefore
  <2>2. CASE hit'[c] = hit[c] /\ target'[c] = target[c]
    <3>1. target[c] = s /\ Condemned(s) /\ (said[c] = "stopped" => child[s] = "none")
      BY <1>1, <1>3, <2>1, <2>2 DEF HitsAlone
    <3>2. Condemned(s)' /\ (child[s] = "none" => child'[s] = "none")
      BY <1>1, <1>3, <3>1, CondemnedStays
    <3>3. said'[c] = "stopped" => child[s] = "none"
      BY <1>1, <3>1, SaidStep, NoProcess DEF Condemned
    <3>4. QED
      BY <2>2, <3>1, <3>2, <3>3
  <2>3. CASE /\ Kill(c) /\ pid[c] \in Sups /\ Alive(pid[c]) /\ Signal(pid[c])
             /\ target'[c] = pid[c] /\ hit'[c] = child[pid[c]]
    <3>1. pid[c] = s /\ pid_file = s /\ sup[s] \in {"wait", "gone"} /\ child[s] \in Running \ {"new"}
      BY <1>1, <1>3, <2>3 DEF Named
    <3>2. UNCHANGED <<child, sup, pid_file, said>> /\ sigterm'[s]
      BY <1>1, <2>3, <3>1 DEF Kill, Signal, files, TypeInv, SupervisorTypeOK
    <3>3. said[c] # "stopped"
      BY <2>3 DEF Kill, Moves, StopBase, Unsaid
    <3>4. Condemned(s)'
      BY <3>1, <3>2 DEF Condemned, Alive, Running
    <3>5. QED
      BY <2>3, <3>1, <3>2, <3>3, <3>4
  <2>4. QED
    BY <1>1, <2>2, <2>3, HitStep
<1>4. QED
  BY <1>2, <1>3 DEF HitsAlone

LEMMA StopInvariant == Spec => [](StopBase /\ StopInv)
<1>1. ASSUME Init PROVE StopBase /\ StopInv
  <2>1. StopBase
    BY <1>1, SupervisorInitially DEF Init, StopBase, Housed, Staffed, Unsaid
  <2>2. ASSUME NEW s \in Sups PROVE Named(s)
    BY <1>1, NoProcess DEF Init, Named
  <2>3. ASSUME NEW s \in Sups PROVE HitsAlone(s)
    BY <1>1, NilIsNoState DEF Init, HitsAlone
  <2>4. QED
    BY <2>1, <2>2, <2>3 DEF StopInv
<1>2. StopBase /\ StopInv /\ [Next]_vars => (StopBase /\ StopInv)'
  BY SupervisorTypeStep, HousedStep, StaffedStep, UnsaidStep, StopStep DEF StopBase
<1>3. QED
  BY <1>1, <1>2, PTL DEF Spec

(* When `stop` or `restart` has said that the daemon stopped, and SIGTERM   *)
(* found it past its mask, the daemon is reaped and its supervisor, the     *)
(* only one, forks no other.                                                *)
THEOREM StoppedIsTrue == Spec => []StopHolds
<1>1. StopBase /\ StopInv => StopHolds
  <2> SUFFICES ASSUME StopBase, StopInv, Quiet, Cardinality(Started) = 1,
                      NEW c \in Commands, said[c] = "stopped", hit[c] \in Running \ {"new"}
               PROVE  child[target[c]] = "none" /\ Finished(target[c])
    BY DEF StopHolds, Quiet
  <2>1. IsFiniteSet(Sups) /\ Started \subseteq Sups
    BY SupervisorConstantsOK, FS_Interval DEF Sups, Started
  <2>2. PICK s : Started = {s}
    BY <2>1, FS_Subset, FS_Singleton
  <2>3. s \in Sups /\ Sole(s)
    BY <2>1, <2>2 DEF Sole
  <2>4. target[c] = s /\ Condemned(s) /\ child[s] = "none"
    BY <2>3 DEF StopInv, HitsAlone
  <2>5. QED
    BY <2>4 DEF Condemned, Alive, Finished, Running
<1>2. QED
  BY StopInvariant, <1>1, PTL

----------------------------------------------------------------------------
(* Orderly commands.  Between two of them nothing runs or one daemon serves *)
(* and nothing is on its way; each command knows which of the two states,   *)
(* or of the two transitions between them, it is in.                        *)
Rest(S) ==
  \A r \in Sups \ S : sup[r] \in {"unborn", "gone"} /\ child[r] = "none" /\ ~sigterm[r]

FileFollows(s) ==
  \/ sup[s] = "truncate" /\ pid_file = Nil
  \/ sup[s] = "write" /\ pid_file = Torn
  \/ sup[s] = "wait" /\ pid_file = s

Stopped == Rest({}) /\ pid_file = Nil /\ ~ready_file

Up(s) == Rest({s}) /\ child[s] = "loop" /\ ~sigterm[s] /\ FileFollows(s)

Starting(s) ==
  /\ Rest({s}) /\ ~sigterm[s] /\ ~ready_file
  /\ \/ sup[s] = "fork" /\ child[s] = "none" /\ pid_file = Nil
     \/ child[s] \in {"new", "masked", "bound"} /\ FileFollows(s)

Stopping(s) ==
  /\ Rest({s}) /\ ~ready_file
  /\ \/ sup[s] = "wait" /\ child[s] = "loop" /\ sigterm[s] /\ pid_file = s
     \/ sup[s] = "wait" /\ child[s] = "exited" /\ status[s] = "clean" /\ pid_file = s
     \/ /\ sup[s] = "unlink" /\ child[s] = "none" /\ status[s] = "clean" /\ ~sigterm[s]
        /\ pid_file = Dead

Settled == Stopped \/ \E s \in Sups : Up(s) /\ ~ready_file

Phase(c) ==
  /\ at[c] \in {"check", "read", "socket"} => Settled
  /\ at[c] = "spawn" => Stopped
  /\ at[c] = "poll" => \E s \in Sups : Starting(s) \/ Up(s)
  /\ at[c] = "kill" => \E s \in Sups : Up(s) /\ ~ready_file /\ sup[s] = "wait" /\ pid[c] = s
  /\ at[c] = "await" => Stopped \/ \E s \in Sups : Stopping(s)

OrderInv ==
  Orderly =>
    /\ \A b, c \in Commands : Unfinished(b) /\ Unfinished(c) => b = c
    /\ (\A c \in Commands : ~Unfinished(c)) => Settled
    /\ \A c \in Commands : Phase(c)

(* The other supervisors have nothing to do, and the one at work passes     *)
(* from Starting to Up and from Stopping to Stopped.                        *)
LEMMA AtWork ==
  ASSUME SupervisorTypeOK, NEW s \in Sups, Rest({s}), NEW r \in Sups,
         Supervise(r) \/ Serve(r)
  PROVE  r = s
BY DEF Rest, Supervise, Fork, TruncatePid, WritePid, Reap, CleanExit, Crashed,
       Serve, Mask, Bind, Announce, Finish

LEMMA RestStays ==
  ASSUME SupervisorTypeOK, NEW s \in Sups, Rest({s}), Supervise(s) \/ Serve(s)
  PROVE  Rest({s})'
<1>1. CASE Supervise(s)
  <2>1. CASE Fork(s) \/ Reap(s)
    BY ZenonT(40), <2>1 DEF Fork, Reap, Forget, Goes, Rest, SupervisorTypeOK
  <2>2. CASE TruncatePid(s) \/ WritePid(s) \/ CleanExit(s) \/ Crashed(s)
    BY ZenonT(40), <2>2
       DEF TruncatePid, WritePid, CleanExit, Crashed, Goes, Rest, SupervisorTypeOK, daemons
  <2>3. QED
    BY <1>1, <2>1, <2>2 DEF Supervise
<1>2. CASE Serve(s)
  BY <1>2, ServeEffect DEF Rest, SupervisorTypeOK
<1>3. QED
  BY <1>1, <1>2

LEMMA NothingStirs ==
  ASSUME Stopped, NEW s \in Sups
  PROVE  ~Supervise(s) /\ ~Serve(s)
BY DEF Stopped, Rest, Supervise, Fork, TruncatePid, WritePid, Reap, CleanExit, Crashed,
       Serve, Mask, Bind, Announce, Finish

LEMMA UpStays ==
  ASSUME SupervisorTypeOK, NEW s \in Sups, Up(s), NEW r \in Sups, Supervise(r) \/ Serve(r)
  PROVE  Up(s)' /\ ready_file' = ready_file /\ sup[s] # "wait"
<1>1. r = s /\ Rest({s})'
  BY AtWork, RestStays DEF Up
<1>2. CASE Serve(s)
  BY <1>2 DEF Up, Serve, Mask, Bind, Announce, Finish
<1>3. CASE Supervise(s)
  <2>1. TruncatePid(s) \/ WritePid(s)
    BY <1>3 DEF Up, FileFollows, Supervise, Fork, Reap, CleanExit, Crashed
  <2>2. QED
    BY <1>1, <2>1 DEF Up, FileFollows, TruncatePid, WritePid, Goes, SupervisorTypeOK, daemons
<1>4. QED
  BY <1>1, <1>2, <1>3

LEMMA StartingGoesOn ==
  ASSUME SupervisorTypeOK, NEW s \in Sups, Starting(s), NEW r \in Sups,
         Supervise(r) \/ Serve(r)
  PROVE  Starting(s)' \/ Up(s)'
<1>1. r = s /\ Rest({s})'
  BY AtWork, RestStays DEF Starting
<1>2. CASE Supervise(s)
  <2>1. CASE Fork(s)
    BY <1>1, <2>1, NoProcess
       DEF Starting, FileFollows, Fork, Goes, SupervisorTypeOK, files
  <2>2. CASE TruncatePid(s) \/ WritePid(s)
    BY <1>1, <2>2
       DEF Starting, FileFollows, TruncatePid, WritePid, Goes, SupervisorTypeOK, daemons
  <2>3. QED
    BY <1>2, <2>1, <2>2 DEF Starting, FileFollows, Supervise, Reap, CleanExit, Crashed
<1>3. CASE Serve(s)
  <2>1. ~Listening \/ child[s] # "masked"
    BY DEF Starting, Rest, Listening
  <2>2. CASE Mask(s) \/ Bind(s)
    BY <1>1, <2>1, <2>2
       DEF Starting, FileFollows, Mask, Bind, Becomes, SupervisorTypeOK, files
  <2>3. CASE Announce(s)
    BY <1>1, <2>3 DEF Starting, Up, FileFollows, Announce, Becomes, SupervisorTypeOK
  <2>4. QED
    BY <1>3, <2>2, <2>3 DEF Serve, Finish, Starting
<1>4. QED
  BY <1>1, <1>2, <1>3

LEMMA StoppingGoesOn ==
  ASSUME SupervisorTypeOK, NEW s \in Sups, Stopping(s), NEW r \in Sups,
         Supervise(r) \/ Serve(r)
  PROVE  Stopping(s)' \/ Stopped'
<1>1. r = s /\ Rest({s})'
  BY AtWork, RestStays DEF Stopping
<1>2. Finish(s) \/ Reap(s) \/ CleanExit(s)
  BY <1>1 DEF Stopping, Supervise, Fork, TruncatePid, WritePid, Crashed,
              Serve, Mask, Bind, Announce
<1>3. CASE Finish(s)
  BY <1>1, <1>3 DEF Stopping, Finish, Exits, Becomes, SupervisorTypeOK, files
<1>4. CASE Reap(s)
  BY <1>1, <1>4 DEF Stopping, Reap, Forget, Goes, SupervisorTypeOK
<1>5. CASE CleanExit(s)
  BY <1>1, <1>5 DEF Stopping, Stopped, Rest, CleanExit, Goes, SupervisorTypeOK, daemons
<1>6. QED
  BY <1>2, <1>3, <1>4, <1>5

(* In each of the four states at most one supervisor is at work.            *)
LEMMA OneAtWork ==
  ASSUME TypeInv, OrderInv, Orderly
  PROVE  Stopped \/ \E s \in Sups : Up(s) \/ Starting(s) \/ Stopping(s)
<1>1. CASE \A c \in Commands : ~Unfinished(c)
  BY <1>1 DEF OrderInv, Settled
<1>2. ASSUME NEW c \in Commands, Unfinished(c)
      PROVE  Stopped \/ \E s \in Sups : Up(s) \/ Starting(s) \/ Stopping(s)
  <2>1. at[c] \in {"check", "spawn", "poll", "read", "kill", "await", "socket"}
    BY <1>2 DEF Unfinished, TypeInv, SupervisorTypeOK
  <2>2. Phase(c)
    BY DEF OrderInv
  <2>3. QED
    BY <2>1, <2>2 DEF Phase, Settled
<1>3. QED
  BY <1>1, <1>2

LEMMA OrderSupervised ==
  ASSUME TypeInv, OrderInv, Orderly, NEW r \in Sups, Supervise(r) \/ Serve(r)
  PROVE  OrderInv'
<1>1. SupervisorTypeOK
  BY DEF TypeInv
<1>2. UNCHANGED at
  BY ServeEffect DEF Supervise, Fork, TruncatePid, WritePid, Reap, CleanExit, Crashed, Forget,
                     commands
<1>3. Settled => Settled'
  BY <1>1, NothingStirs, UpStays DEF Settled
<1>4. ASSUME NEW c \in Commands PROVE Phase(c)'
  <2>1. Phase(c)
    BY DEF OrderInv
  <2>2. ~(at[c] \in {"spawn", "kill"})
    BY <1>1, <2>1, NothingStirs, UpStays DEF Phase
  <2>3. at[c] = "poll" => \E s \in Sups : Starting(s)' \/ Up(s)'
    BY <1>1, <2>1, StartingGoesOn, UpStays DEF Phase
  <2>4. at[c] = "await" => Stopped' \/ \E s \in Sups : Stopping(s)'
    BY <1>1, <2>1, StoppingGoesOn, NothingStirs DEF Phase
  <2>5. QED
    BY <1>2, <1>3, <2>1, <2>2, <2>3, <2>4 DEF Phase
<1>5. QED
  BY <1>2, <1>3, <1>4 DEF OrderInv, Unfinished

(* The commands' own steps.                                                 *)
LEMMA SettledIdle ==
  ASSUME Settled, ~Listening PROVE Stopped
BY DEF Settled, Up, Listening

LEMMA SettledKept ==
  ASSUME Settled, UNCHANGED <<files, sup, child, sigterm>> PROVE Settled'
BY DEF Settled, Stopped, Up, Rest, FileFollows, files

LEMMA OrderCommanded ==
  ASSUME TypeInv, OrderInv, Orderly, Orderly', NEW c \in Commands, Command(c)
  PROVE  OrderInv'
<1>1. SupervisorTypeOK
  BY DEF TypeInv
<1>2. Phase(c) /\ \A b \in Commands \ {c} : Unfinished(b) => ~Unfinished(c)
  BY DEF OrderInv
<1>3. ~PollTimeout(c) /\ ~AwaitTimeout(c) /\ ~SocketTimeout(c) /\ ~SpawnFails(c)
  BY DEF PollTimeout, AwaitTimeout, SocketTimeout, SpawnFails, Impatient, Happens, Orderly
<1>4. \E w \in {"spawn", "poll", "kill", "await", "socket", "done"} :
        at' = [at EXCEPT ![c] = w]
  BY DEF Command, Check, Spawn, Poll, PollTimeout, Read, Kill, Await, AwaitTimeout,
         Released, SocketTimeout, SpawnFails, Gives, StopDone, Moves
<1>5. Unfinished(c)
  BY DEF Command, Check, Spawn, Poll, PollTimeout, Read, Kill, Await, AwaitTimeout,
         Released, SocketTimeout, SpawnFails, Gives, StopDone, Moves, Unfinished
<1>6. \A b \in Commands \ {c} : at[b] \in {"idle", "done"} /\ at'[b] = at[b]
  BY <1>1, <1>2, <1>4, <1>5 DEF Unfinished, SupervisorTypeOK
<1>7. (at'[c] = "done" => Settled') /\ Phase(c)'
  <2>1. CASE Check(c)
    <3>1. Settled'
      BY <1>2, <2>1, SettledKept DEF Check, Gives, Moves, Phase, daemons
    <3>2. CASE Listening
      BY <1>1, <2>1, <3>1, <3>2 DEF Check, Gives, Moves, Phase, SupervisorTypeOK
    <3>3. CASE ~Listening
      <4>1. Stopped'
        BY <1>2, <2>1, <3>3, SettledIdle
           DEF Check, Gives, Moves, Phase, Stopped, Rest, daemons, files
      <4>2. QED
        BY <1>1, <2>1, <3>3, <4>1 DEF Check, Moves, Phase, SupervisorTypeOK
    <3>4. QED
      BY <3>2, <3>3
  <2>2. CASE Spawn(c)
    <3>1. Stopped /\ at' = [at EXCEPT ![c] = "poll"]
      BY <1>2, <2>2 DEF Spawn, Moves, Phase
    <3>2. PICK s \in Sups : sup[s] = "unborn" /\ sup' = [sup EXCEPT ![s] = "fork"]
      BY <2>2 DEF Spawn, Goes
    <3>3. Starting(s)'
      BY <1>1, <2>2, <3>1, <3>2
         DEF Spawn, Stopped, Starting, Rest, SupervisorTypeOK, files, daemons
    <3>4. QED
      BY <1>1, <3>1, <3>3 DEF Phase, SupervisorTypeOK
  <2>3. CASE Poll(c)
    <3>1. PICK s \in Sups : Up(s)
      BY <1>2, <2>3 DEF Poll, Gives, Moves, Phase, Starting
    <3>2. Settled'
      BY <2>3, <3>1 DEF Poll, Settled, Up, Rest, FileFollows, daemons
    <3>3. QED
      BY <1>1, <2>3, <3>2 DEF Poll, Gives, Moves, Phase, SupervisorTypeOK
  <2>4. CASE Read(c)
    <3>1. Settled'
      BY <1>2, <2>4, SettledKept DEF Read, StopDone, Moves, Phase, daemons
    <3>2. CASE pid_file \in {Nil, Torn}
      BY <1>1, <2>4, <3>1, <3>2 DEF Read, StopDone, Moves, Phase, SupervisorTypeOK
    <3>3. CASE pid_file \notin {Nil, Torn}
      <4>1. PICK s \in Sups : Up(s) /\ ~ready_file /\ sup[s] = "wait" /\ pid_file = s
        BY <1>2, <2>4, <3>3 DEF Read, StopDone, Moves, Phase, Settled, Stopped, Up, FileFollows
      <4>2. at' = [at EXCEPT ![c] = "kill"] /\ pid' = [pid EXCEPT ![c] = s]
        BY <2>4, <3>3, <4>1 DEF Read, Moves
      <4>3. (Up(s) /\ ~ready_file /\ sup[s] = "wait")'
        BY <2>4, <4>1 DEF Read, Up, Rest, FileFollows, files, daemons
      <4>4. QED
        BY <1>1, <4>2, <4>3 DEF Phase, SupervisorTypeOK
    <3>4. QED
      BY <3>2, <3>3
  <2>5. CASE Kill(c)
    <3>1. PICK s \in Sups : Up(s) /\ ~ready_file /\ sup[s] = "wait" /\ pid[c] = s
      BY <1>2, <2>5 DEF Kill, Moves, Phase
    <3>2. UNCHANGED child /\ sigterm' = [sigterm EXCEPT ![s] = TRUE]
      BY <1>1, <2>5, <3>1 DEF Kill, Signal, Up, Alive, Running, SupervisorTypeOK
    <3>3. Stopping(s)'
      BY ZenonT(40), <1>1, <2>5, <3>1, <3>2, NoProcess
         DEF Kill, Up, Stopping, Rest, FileFollows, SupervisorTypeOK, files
    <3>4. QED
      BY <1>1, <2>5, <3>3 DEF Kill, Moves, Phase, SupervisorTypeOK
  <2>6. CASE Await(c)
    <3>1. pid_file = Nil /\ \A s \in Sups : ~Stopping(s)
      BY <2>6, NoProcess, NilIsNotDead DEF Await, Stopping
    <3>2. Settled'
      BY <1>2, <2>6, <3>1, SettledKept DEF Await, StopDone, Moves, Phase, Settled, daemons
    <3>3. QED
      BY <1>1, <2>6, <3>2 DEF Await, StopDone, Moves, Phase, SupervisorTypeOK
  <2>7. CASE Released(c)
    <3>1. Stopped'
      BY <1>2, <2>7, SettledIdle DEF Released, Moves, Phase, Stopped, Rest, files, daemons
    <3>2. QED
      BY <1>1, <2>7, <3>1 DEF Released, Moves, Phase, SupervisorTypeOK
  <2>8. QED
    BY <1>3, <2>1, <2>2, <2>3, <2>4, <2>5, <2>6, <2>7 DEF Command
<1>8. QED
  <2>1. \A b \in Commands \ {c} : Phase(b)' /\ ~Unfinished(b)'
    BY <1>6 DEF Phase, Unfinished
  <2>2. (\A b \in Commands : ~Unfinished(b)') => at'[c] = "done"
    BY <1>1, <1>4 DEF Unfinished, SupervisorTypeOK
  <2>3. QED
    BY <1>7, <2>1, <2>2 DEF OrderInv

LEMMA OrderStep ==
  ASSUME TypeInv, OrderInv, [Next]_vars
  PROVE  OrderInv'
<1> SUFFICES ASSUME Orderly' PROVE OrderInv'
  BY DEF OrderInv
<1>1. SupervisorTypeOK
  BY DEF TypeInv
<1>2. Orderly
  BY MessGrows DEF Orderly
<1>3. ASSUME NEW s \in Sups, Supervise(s) \/ Serve(s) PROVE OrderInv'
  BY <1>2, <1>3, OrderSupervised
<1>4. ASSUME NEW s \in Sups PROVE ~ReapOrphan(s)
  BY <1>2, OneAtWork DEF ReapOrphan, Stopped, Up, Starting, Stopping, Rest, FileFollows
<1>5. ASSUME NEW s \in Sups PROVE ~Crash(s) /\ ~KillSupervisor(s) /\ ~Fails(s)
  BY FailsEffect DEF Crash, KillSupervisor, Fault, Happens, Orderly
<1>6. ASSUME UNCHANGED <<files, sup, daemons, at, pid>> PROVE OrderInv'
  BY <1>2, <1>6 DEF OrderInv, Phase, Settled, Stopped, Up, Starting, Stopping, Rest,
                    FileFollows, Unfinished, files, daemons
<1>7. ASSUME NEW s \in Sups, TenSeconds(s) PROVE OrderInv'
  BY <1>6, <1>7 DEF TenSeconds, commands
<1>8. ASSUME NEW c \in Commands, Command(c) PROVE OrderInv'
  BY <1>2, <1>8, OrderCommanded
<1>9. ASSUME NEW c \in Commands, NEW k \in Kinds, Type(c, k) PROVE OrderInv'
  <2>1. \A b \in Commands : ~Unfinished(b)
    BY <1>9 DEF Type, Orderly
  <2>2. Settled /\ Settled'
    BY <1>2, <1>9, <2>1, SettledKept DEF OrderInv, Type, daemons
  <2>3. \E w \in {"check", "read"} : at' = [at EXCEPT ![c] = w]
    BY <1>9 DEF Type
  <2>4. \A b \in Commands \ {c} : at'[b] \in {"idle", "done"}
    BY <1>1, <2>1, <2>3 DEF Unfinished, SupervisorTypeOK
  <2>5. at'[c] \in {"check", "read"}
    BY <1>1, <2>3 DEF SupervisorTypeOK
  <2>6. QED
    BY <2>2, <2>4, <2>5 DEF OrderInv, Phase, Unfinished
<1>10. ~Reboot
  BY DEF Reboot, Orderly
<1>11. CASE UNCHANGED vars
  BY <1>6, <1>11 DEF vars, commands
<1>12. QED
  BY <1>3, <1>4, <1>5, <1>7, <1>8, <1>9, <1>10, <1>11 DEF Next

LEMMA OrderInvariant == Spec => [](TypeInv /\ OrderInv)
<1>1. ASSUME Init PROVE OrderInv
  <2>1. Stopped /\ \A c \in Commands : at[c] = "idle"
    BY <1>1 DEF Init, Stopped, Rest
  <2>2. QED
    BY <2>1 DEF OrderInv, Phase, Settled, Unfinished
<1>2. TypeInv /\ OrderInv /\ [Next]_vars => (TypeInv /\ OrderInv)'
  BY SupervisorTypeStep, OrderStep
<1>3. QED
  BY SupervisorInitially, <1>1, <1>2, PTL DEF Spec

(* Commands given one after the other never leave two supervisors at work.  *)
THEOREM NeverTwoSupervisors == Spec => []OneSupervisor
<1>1. TypeInv /\ OrderInv => OneSupervisor
  <2> SUFFICES ASSUME TypeInv, OrderInv, Orderly
               PROVE  Cardinality({r \in Sups : Supervising(r) /\ ~Finished(r)}) <= 1
    BY DEF OneSupervisor
  <2> DEFINE Busy == {r \in Sups : Supervising(r) /\ ~Finished(r)}
  <2>1. CASE Busy = {}
    <3>1. Cardinality(Busy) = 0
      BY <2>1, FS_EmptySet
    <3>2. QED
      BY <3>1
  <2>2. CASE \E s \in Sups : Busy \subseteq {s}
    <3>1. PICK s \in Sups : Busy \subseteq {s}
      BY <2>2
    <3>2. Cardinality(Busy) <= Cardinality({s}) /\ Cardinality({s}) = 1
      BY <3>1, FS_Singleton, FS_Subset
    <3>3. QED
      BY <3>2
  <2>3. Busy = {} \/ \E s \in Sups : Busy \subseteq {s}
    BY OneAtWork DEF Stopped, Up, Starting, Stopping, Rest, Supervising
  <2>4. QED
    BY <2>1, <2>2, <2>3
<1>2. QED
  BY OrderInvariant, <1>1, PTL

(* Nor a daemon that `stop` cannot find.                                    *)
THEOREM AlwaysReachable == Spec => []Reachable
<1>1. TypeInv /\ OrderInv => Reachable
  BY OneAtWork DEF Reachable, Stopped, Up, Starting, Stopping, Rest, FileFollows
<1>2. QED
  BY OrderInvariant, <1>1, PTL

(* "ready" is said with a daemon to show for it: daemon.ready is of this    *)
(* start.                                                                   *)
THEOREM ReadyMeansListening == Spec => ReadyIsTrue
<1> DEFINE True == Orderly => \A c \in Commands :
                     said'[c] = "ready" /\ said[c] # "ready" => Listening
<1>1. ASSUME TypeInv, OrderInv, [Next]_vars PROVE True
  <2> SUFFICES ASSUME Orderly, NEW c \in Commands, said'[c] = "ready", said[c] # "ready"
               PROVE  Listening
    OBVIOUS
  <2>1. PICK b \in Commands : Command(b)
    BY <1>1
       DEF Next, Type, Supervise, Fork, TruncatePid, WritePid, Reap, CleanExit, Crashed, Forget,
           Serve, Mask, Bind, Announce, Finish, ReapOrphan, Crash, KillSupervisor, Fails,
           ForkFails, TruncateFails, WriteFails, AnnounceFails, Fault, TenSeconds, Reboot, vars,
           commands
  <2>2. Poll(b)
    <3>1. ~Poll(b) => \/ said' = said
                      \/ \E line \in {"running", "late", "absent", "", "stubborn", "stopped",
                                       "failed"} :
                           said' = [said EXCEPT ![b] = line]
      BY <2>1 DEF Command, Check, Spawn, PollTimeout, Read, Kill, Await, AwaitTimeout,
                  Released, SocketTimeout, SpawnFails, Gives, StopDone, Says
    <3>2. QED
      BY <1>1, <3>1 DEF TypeInv, SupervisorTypeOK
  <2>3. \E s \in Sups : Up(s)
    BY <1>1, <2>2 DEF Poll, Gives, Moves, OrderInv, Phase, Starting
  <2>4. QED
    BY <2>3 DEF Up, Listening
<1>2. TypeInv /\ OrderInv /\ [Next]_vars => [True]_vars
  BY <1>1
<1>3. QED
  BY OrderInvariant, <1>2, PTL DEF Spec, ReadyIsTrue
=============================================================================
