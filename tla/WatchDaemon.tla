---------------------------- MODULE WatchDaemon ----------------------------
(***************************************************************************)
(* The reactor loop of src/src/daemon.rs: accepting clients, answering     *)
(* `status`, subscribing `watch` clients, evicting them, and pushing the   *)
(* foreground package to every watcher when a foreground event arrives.    *)
(*                                                                         *)
(* What the resolvers return is data here: `focus` is what the binder      *)
(* query answers and TopOf[cg] what the cgroup resolver answers, each      *)
(* changing on its own between any two steps of the daemon.                *)
(***************************************************************************)
EXTENDS Integers, Sequences, FiniteSets

CONSTANTS
  Conns,         \* client connections, each connecting at most once
  Uids,          \* peer UIDs (SO_PEERCRED)
  Root,          \* UID 0, assumed of a peer whose credentials cannot be read
  UidOf,         \* the peer UID of each connection
  Says,          \* what each client may send
  Tokens,        \* reactor tokens for client streams
  Packages,      \* package names
  CgroupStates,  \* states of the cpuset / cgroup tree
  PayloadOf,     \* contents of top-app/cgroup.procs in each of them
  TopOf,         \* what Resolver::resolve returns in each of them
  NoPayload,     \* the empty file contents, "" in the code
  Boots,         \* start-up outcomes: see BootRecords
  SlowConns,     \* connections whose send buffer may be full
  Faults,        \* fallible calls that may fail: subset of FaultKinds
  AcceptBurst,   \* accepts per listener event, 16 in the code
  MaxEvents,     \* events per Reactor::wait, 64 in the code
  MaxSwitches,   \* bound: changes of the foreground in a behaviour
  Nil            \* Option::None, an absent map entry, nothing heard

(* accept() or reactor.add fails; a peer's credentials, or cgroup.procs,    *)
(* cannot be read; no resolver answers; the reactor hands out a token again *)
(* while an old event still names it.                                       *)
FaultKinds == {"accept", "add", "cred", "read", "resolve", "reuse"}

(***************************************************************************)
(* What start-up decides once: the one UID served, if the configuration    *)
(* names one, the resolver mode, whether a binder could be opened, whether *)
(* its observer eventfd exists (binder_efd), and whether reactor.add       *)
(* accepted that eventfd (binder_token).                                   *)
(***************************************************************************)
BootRecords ==
  {b \in [daemon_uid : Uids \cup {Nil}, mode : {"auto", "binder", "cgroup"},
          binder : BOOLEAN, efd : BOOLEAN, token : BOOLEAN] :
     (b.efd => b.binder) /\ (b.token => b.efd)}

Commands == {"status", "watch", "other"}

ASSUME ConstantsOK ==
  /\ UidOf \in [Conns -> Uids]
  /\ Says \in [Conns -> SUBSET Commands]
  /\ Root \in Uids
  /\ TopOf \in [CgroupStates -> Packages \cup {Nil}]
  /\ Boots \subseteq BootRecords
  /\ SlowConns \subseteq Conns
  /\ Faults \subseteq FaultKinds
  /\ AcceptBurst \in Nat /\ MaxEvents \in Nat \ {0} /\ MaxSwitches \in Nat

ASSUME NilIsAbsent ==
  /\ Nil \notin Conns /\ Nil \notin Tokens /\ Nil \notin Uids
  /\ Nil \notin Packages /\ Nil \notin [token : Tokens, conn : Conns]

\* A token is a number of the machine's width.
ASSUME TokensFinite == IsFiniteSet(Tokens)

ASSUME TokensAreOpaque ==
  Tokens \cap {"socket", "signal", "binder", "inotify"} = {}

VARIABLES
  \* the world
  boot, focus, cg, switches,
  \* clients: their end of the connection, unread bytes, last line received,
  \* and those that the daemon took for Root (history)
  client, inbox, heard, nameless,
  \* kernel: listener queue, readiness of the other sources, epoll interest
  backlog, efd, ino, sigterm, interest,
  \* fields of Daemon
  pending, watchers, token_to_uid, last_v1_payload, last_package,
  \* locals of Daemon::run
  pc, batch, count, notify_needed, binder_event

world   == <<boot, focus, cg, switches>>
peers   == <<client, inbox, heard, nameless>>
sources == <<efd, ino, sigterm>>
subs    == <<watchers, token_to_uid>>
cursor  == <<last_v1_payload, last_package>>
flags   == <<notify_needed, binder_event>>
control == <<pc, count, flags>>
vars    == <<world, peers, backlog, sources, interest, pending, subs, cursor,
             batch, control>>

Event(t, h) == [token |-> t, hangup |-> h]

Events == [token : Tokens \cup {"socket", "signal", "binder", "inotify"},
           hangup : BOOLEAN]

InBacklog(c) == \E i \in 1..Len(backlog) : backlog[i] = c
IsPending(c) == \E t \in Tokens : pending[t] = c
Watching(c)  == \E u \in Uids : watchers[u] # Nil /\ watchers[u].conn = c
Held(c)      == InBacklog(c) \/ IsPending(c) \/ Watching(c)

TypeOK ==
  /\ boot \in BootRecords
  /\ focus \in Packages \cup {Nil}
  /\ cg \in CgroupStates
  /\ switches \in Nat
  /\ client \in [Conns -> {"idle", "open", "closed"}]
  /\ inbox \in [Conns -> Commands \cup {Nil}]
  /\ heard \in [Conns -> Packages \cup {Nil, "unknown"}]
  /\ nameless \subseteq Conns
  /\ backlog \in Seq(Conns)
  /\ efd \in BOOLEAN /\ ino \in BOOLEAN /\ sigterm \in BOOLEAN
  /\ interest \in [Tokens -> Conns \cup {Nil}]
  /\ pending \in [Tokens -> Conns \cup {Nil}]
  /\ watchers \in [Uids -> [token : Tokens, conn : Conns] \cup {Nil}]
  /\ token_to_uid \in [Tokens -> Uids \cup {Nil}]
  /\ last_package \in Packages \cup {Nil}
  /\ pc \in {"wait", "dispatch", "accept", "dedup", "notify", "exited"}
  /\ batch \subseteq Events
  /\ count \in 0..AcceptBurst
  /\ notify_needed \in BOOLEAN /\ binder_event \in BOOLEAN

Init ==
  /\ boot \in Boots /\ focus \in Packages \cup {Nil} /\ cg \in CgroupStates
  /\ switches = 0
  /\ client = [c \in Conns |-> "idle"]
  /\ inbox = [c \in Conns |-> Nil] /\ heard = [c \in Conns |-> Nil]
  /\ nameless = {}
  /\ backlog = <<>>
  /\ efd = FALSE /\ ino = FALSE /\ sigterm = FALSE
  /\ interest = [t \in Tokens |-> Nil] /\ pending = [t \in Tokens |-> Nil]
  /\ watchers = [u \in Uids |-> Nil] /\ token_to_uid = [t \in Tokens |-> Nil]
  /\ last_v1_payload = NoPayload /\ last_package = Nil
  /\ pc = "wait" /\ batch = {} /\ count = 0
  /\ notify_needed = FALSE /\ binder_event = FALSE

----------------------------------------------------------------------------
(***************************************************************************)
(* The world.  An observer callback makes the eventfd readable; a changed  *)
(* cgroup.procs queues an inotify event, but only if run() added that      *)
(* watch, which it does exactly when there is no binder_efd.               *)
(***************************************************************************)
WatchesCgroup == ~boot.efd

Unsettled == pc # "exited" /\ switches < MaxSwitches

FocusChanges(p) ==
  /\ Unsettled /\ p # focus
  /\ focus' = p /\ switches' = switches + 1
  /\ efd' = (efd \/ boot.token)
  /\ UNCHANGED <<boot, cg, peers, backlog, ino, sigterm, interest, pending,
                 subs, cursor, batch, control>>

CgroupChanges(s) ==
  /\ Unsettled /\ s # cg
  /\ cg' = s /\ switches' = switches + 1
  /\ ino' = (ino \/ (WatchesCgroup /\ PayloadOf[s] # PayloadOf[cg]))
  /\ UNCHANGED <<boot, focus, peers, backlog, efd, sigterm, interest, pending,
                 subs, cursor, batch, control>>

Terminate ==
  /\ pc # "exited" /\ ~sigterm
  /\ sigterm' = TRUE
  /\ UNCHANGED <<world, peers, backlog, efd, ino, interest, pending, subs,
                 cursor, batch, control>>

Connect(c) ==
  /\ pc # "exited" /\ client[c] = "idle"
  /\ client' = [client EXCEPT ![c] = "open"]
  /\ backlog' = Append(backlog, c)
  /\ UNCHANGED <<world, inbox, heard, nameless, sources, interest, pending, subs,
                 cursor, batch, control>>

Send(c, cmd) ==
  /\ client[c] = "open" /\ Held(c) /\ inbox[c] = Nil
  /\ inbox' = [inbox EXCEPT ![c] = cmd]
  /\ UNCHANGED <<world, client, heard, nameless, backlog, sources, interest,
                 pending, subs, cursor, batch, control>>

HangUp(c) ==
  /\ client[c] = "open" /\ Held(c)
  /\ client' = [client EXCEPT ![c] = "closed"]
  /\ UNCHANGED <<world, inbox, heard, nameless, backlog, sources, interest,
                 pending, subs, cursor, batch, control>>

----------------------------------------------------------------------------
(* Reactor::wait: epoll reports what is ready, level-triggered.             *)

Ready ==
  {Event(t, client[interest[t]] = "closed") :
     t \in {x \in Tokens :
              /\ interest[x] # Nil
              /\ inbox[interest[x]] # Nil \/ client[interest[x]] = "closed"}}
  \cup {e \in {Event("socket", FALSE), Event("signal", FALSE),
               Event("binder", FALSE), Event("inotify", FALSE)} :
          \/ e.token = "socket" /\ backlog # <<>>
          \/ e.token = "signal" /\ sigterm
          \/ e.token = "binder" /\ efd
          \/ e.token = "inotify" /\ ino}

Wait ==
  /\ pc = "wait"
  /\ Ready # {}
  /\ batch' \in SUBSET Ready
  /\ IF Cardinality(Ready) <= MaxEvents THEN batch' = Ready
                                        ELSE Cardinality(batch') = MaxEvents
  /\ pc' = "dispatch"
  /\ UNCHANGED <<world, peers, backlog, sources, interest, pending, subs, cursor,
                 count, flags>>

(***************************************************************************)
(* Reactor::add returns a token of no live registration (reg); a token     *)
(* that an event still to be dispatched names only if tokens are reused.   *)
(***************************************************************************)
FreshTokens(reg, events) ==
  {t \in Tokens : /\ reg[t] = Nil
                  /\ "reuse" \in Faults \/ \A e \in events : e.token # t}

\* The events of the batch are handled one after the other, in any order.
Dispatch(e) ==
  /\ pc = "dispatch" /\ e \in batch
  /\ batch' = batch \ {e}

----------------------------------------------------------------------------
(* The listener: accept until the queue is empty or the burst is used up.   *)

StartAccept(e) ==
  /\ Dispatch(e) /\ e.token = "socket"
  /\ pc' = "accept"
  /\ UNCHANGED <<world, peers, backlog, sources, interest, pending, subs, cursor,
                 count, flags>>

AcceptNext ==
  /\ pc = "accept" /\ backlog # <<>>
  /\ count' = count + 1
  /\ backlog' = Tail(backlog)
  /\ \/ \E t \in FreshTokens(interest, batch) :
          /\ interest' = [interest EXCEPT ![t] = Head(backlog)]
          /\ pending' = [pending EXCEPT ![t] = Head(backlog)]
     \/ "add" \in Faults /\ UNCHANGED <<interest, pending>>
  /\ UNCHANGED <<world, peers, sources, subs, cursor, batch, pc, flags>>

\* Mutants: the burst limit is not tested; the accepted ones are not counted.
AcceptUnlimited == AcceptNext

AcceptUncounted ==
  /\ pc = "accept" /\ backlog # <<>> /\ count < AcceptBurst
  /\ backlog' = Tail(backlog)
  /\ \E t \in FreshTokens(interest, batch) :
       /\ interest' = [interest EXCEPT ![t] = Head(backlog)]
       /\ pending' = [pending EXCEPT ![t] = Head(backlog)]
  /\ UNCHANGED <<world, peers, sources, subs, cursor, batch, control>>

Accept == count < AcceptBurst /\ AcceptNext

(* accept() has already taken the connection when count passes the burst:   *)
(* breaking out of the loop drops it.                                       *)
AcceptOverBurst ==
  /\ pc = "accept" /\ backlog # <<>>
  /\ count = AcceptBurst
  /\ backlog' = Tail(backlog)
  /\ count' = 0 /\ pc' = "dispatch"
  /\ UNCHANGED <<world, peers, sources, interest, pending, subs, cursor, batch,
                 flags>>

(* accept() has no connection to give, or fails: it is asked again when     *)
(* epoll reports the listener the next time.                                *)
AcceptStops ==
  /\ pc = "accept" /\ (backlog = <<>> \/ "accept" \in Faults)
  /\ count' = 0 /\ pc' = "dispatch"
  /\ UNCHANGED <<world, peers, backlog, sources, interest, pending, subs, cursor,
                 batch, flags>>

----------------------------------------------------------------------------
(* Which resolver answers, and what it answers.                             *)

resolve_foreground_inner(for_status) ==
  IF boot.mode # "cgroup" /\ ~for_status /\ boot.binder THEN focus
  ELSE IF boot.mode = "binder" /\ ~for_status THEN Nil
  ELSE TopOf[cg]

(* A binder call or a /proc read may fail, and then there is no package.    *)
Resolved(for_status) ==
  {resolve_foreground_inner(for_status)}
    \cup (IF "resolve" \in Faults THEN {Nil} ELSE {})

(***************************************************************************)
(* write_slice to the clients `to`: EPIPE for one whose peer is gone; with *)
(* a full send buffer it neither fails nor delivers the line.              *)
(***************************************************************************)
Broken(c) == client[c] = "closed"

Deliver(to, line) ==
  \E lost \in SUBSET (SlowConns \cap to) :
    heard' = [c \in Conns |->
                IF c \in to \ lost /\ ~Broken(c) THEN line ELSE heard[c]]

(* evict_watcher, for every UID of gone: both maps forget the watcher, and  *)
(* its stream is unregistered and closed.                                   *)
Without(f, gone) ==
  [t \in Tokens |->
     IF \E u \in gone : watchers[u] # Nil /\ watchers[u].token = t THEN Nil ELSE f[t]]

\* Mutant: the reverse map keeps the evicted watcher's token.
EvictForwardOnly(gone) ==
  /\ watchers' = [u \in Uids |-> IF u \in gone THEN Nil ELSE watchers[u]]
  /\ interest' = Without(interest, gone)
  /\ UNCHANGED token_to_uid

evict_watcher(gone) ==
  /\ watchers' = [u \in Uids |-> IF u \in gone THEN Nil ELSE watchers[u]]
  /\ interest' = Without(interest, gone)
  /\ token_to_uid' = Without(token_to_uid, gone)

----------------------------------------------------------------------------
(* A pending connection has a command to read, or has hung up.              *)

\* Mutant: the registration goes, the entry of the pending map stays.
HangupKeepsEntry(e) ==
  /\ Dispatch(e) /\ e.token \in Tokens /\ pending[e.token] # Nil
  /\ e.hangup
  /\ interest' = [interest EXCEPT ![e.token] = Nil]
  /\ UNCHANGED <<world, peers, backlog, sources, pending, subs, cursor, control>>

PendingHangup(e) ==
  /\ Dispatch(e) /\ e.token \in Tokens /\ pending[e.token] # Nil
  /\ e.hangup
  /\ pending' = [pending EXCEPT ![e.token] = Nil]
  /\ interest' = [interest EXCEPT ![e.token] = Nil]
  /\ UNCHANGED <<world, peers, backlog, sources, subs, cursor, control>>

(* SO_PEERCRED names the peer; where it cannot be read, UID 0 is assumed.   *)
PeerUids(c) == {UidOf[c]} \cup (IF "cred" \in Faults THEN {Root} ELSE {})

Permitted(u) == boot.daemon_uid \in {Nil, u}

\* Mutant: the command is read from the entry without taking it out.
TakeWithoutRemoving(e, c, u, cmds) ==
  /\ Dispatch(e) /\ e.token \in Tokens /\ pending[e.token] = c
  /\ ~e.hangup /\ inbox[c] \in cmds
  /\ inbox' = [inbox EXCEPT ![c] = Nil]
  /\ UNCHANGED <<world, client, nameless, backlog, sources, pending,
                 last_v1_payload, control>>

(* What every command shares: the entry is taken out, the peer named and    *)
(* the command read.  There is nothing to read when the event was meant for *)
(* an earlier stream.                                                       *)
TakeCommand(e, c, u, cmds) ==
  /\ Dispatch(e) /\ e.token \in Tokens /\ pending[e.token] = c
  /\ ~e.hangup /\ inbox[c] \in cmds
  /\ pending' = [pending EXCEPT ![e.token] = Nil]
  /\ inbox' = [inbox EXCEPT ![c] = Nil]
  /\ nameless' = nameless \cup ({c} \cap {d \in Conns : u # UidOf[d]})
  /\ UNCHANGED <<world, client, backlog, sources, last_v1_payload, control>>

Refuse(e, c, u) ==
  /\ ~Permitted(u)
  /\ TakeCommand(e, c, u, Commands \cup {Nil})
  /\ interest' = [interest EXCEPT ![e.token] = Nil]
  /\ UNCHANGED <<heard, subs, last_package>>

Reply(e, c, u, line) ==
  /\ Permitted(u)
  /\ Deliver({c}, line)
  /\ interest' = [interest EXCEPT ![e.token] = Nil]
  /\ UNCHANGED <<subs, last_package>>

Status(e, c, u) ==
  /\ TakeCommand(e, c, u, {"status"})
  /\ \E res \in Resolved(TRUE) : Reply(e, c, u, IF res = Nil THEN "unknown" ELSE res)

Unknown(e, c, u) ==
  /\ TakeCommand(e, c, u, {"other", Nil})
  /\ Reply(e, c, u, "unknown")

\* Mutants: daemon_uid is not looked at; the answer is not remembered; the answer
\* is the one remembered.
WatchAnswerAnyone(c, u, res) ==
  /\ last_package' = res
  /\ IF res = Nil THEN heard' = heard ELSE Deliver({c}, res)

WatchAnswerUnremembered(c, u, res) ==
  /\ Permitted(u)
  /\ last_package' = last_package
  /\ IF res = Nil THEN heard' = heard ELSE Deliver({c}, res)

WatchAnswerFromMemory(c, u, res) ==
  /\ Permitted(u)
  /\ last_package' = IF last_package = Nil THEN res ELSE last_package
  /\ IF last_package' = Nil THEN heard' = heard ELSE Deliver({c}, last_package')

(***************************************************************************)
(* Watch: the answer is remembered in last_package, for all watchers, and  *)
(* sent to this one; the stream is registered anew and takes over the slot *)
(* of the peer's UID.  If it cannot be registered it is closed, and the    *)
(* former watcher stays.                                                   *)
(***************************************************************************)
WatchAnswer(c, u, res) ==
  /\ Permitted(u)
  /\ last_package' = res
  /\ IF res = Nil THEN heard' = heard ELSE Deliver({c}, res)

Watch(e, c, u) ==
  /\ TakeCommand(e, c, u, {"watch"})
  /\ \E res \in Resolved(FALSE) : WatchAnswer(c, u, res)
  /\ \E t \in FreshTokens([interest EXCEPT ![e.token] = Nil], batch') :
       /\ watchers' = [watchers EXCEPT ![u] = [token |-> t, conn |-> c]]
       /\ token_to_uid' = [Without(token_to_uid, {u}) EXCEPT ![t] = u]
       /\ interest' = [Without(interest, {u}) EXCEPT ![e.token] = Nil, ![t] = c]

WatchNotAdded(e, c, u) ==
  /\ "add" \in Faults
  /\ TakeCommand(e, c, u, {"watch"})
  /\ \E res \in Resolved(FALSE) : WatchAnswer(c, u, res)
  /\ interest' = [interest EXCEPT ![e.token] = Nil]
  /\ UNCHANGED subs

----------------------------------------------------------------------------
(* The other sources.                                                       *)

WatcherReady(e) ==
  /\ Dispatch(e) /\ e.token \in Tokens /\ pending[e.token] = Nil
  /\ token_to_uid[e.token] # Nil
  /\ evict_watcher({token_to_uid[e.token]})
  /\ UNCHANGED <<world, peers, backlog, sources, pending, cursor, control>>

(* An event for a stream that an earlier event of the batch closed.         *)
StaleEvent(e) ==
  /\ Dispatch(e) /\ e.token \in Tokens
  /\ pending[e.token] = Nil /\ token_to_uid[e.token] = Nil
  /\ UNCHANGED <<world, peers, backlog, sources, interest, pending, subs, cursor,
                 control>>

(* run() returns: the process exits and the kernel closes what it held.     *)
Signalled(e) ==
  /\ pc = "dispatch" /\ e \in batch /\ e.token = "signal"
  /\ pc' = "exited"
  /\ batch' = {} /\ backlog' = <<>>
  /\ pending' = [t \in Tokens |-> Nil] /\ interest' = [t \in Tokens |-> Nil]
  /\ watchers' = [u \in Uids |-> Nil] /\ token_to_uid' = [t \in Tokens |-> Nil]
  /\ efd' = FALSE /\ ino' = FALSE /\ sigterm' = FALSE
  /\ notify_needed' = FALSE /\ binder_event' = FALSE
  /\ UNCHANGED <<world, peers, cursor, count>>

\* Mutant: the eventfd is drained and the event forgotten.
BinderDrained(e) ==
  /\ Dispatch(e) /\ e.token = "binder"
  /\ efd' = FALSE
  /\ UNCHANGED <<world, peers, backlog, ino, sigterm, interest, pending, subs,
                 cursor, control>>

BinderReady(e) ==
  /\ Dispatch(e) /\ e.token = "binder"
  /\ efd' = FALSE
  /\ binder_event' = TRUE
  /\ UNCHANGED <<world, peers, backlog, ino, sigterm, interest, pending, subs,
                 cursor, pc, count, notify_needed>>

\* Mutant: an event on cgroup.procs is left aside while nobody watches.
InotifyUnwatched(e) ==
  /\ Dispatch(e) /\ e.token = "inotify"
  /\ ino' = FALSE
  /\ notify_needed' = \E u \in Uids : watchers[u] # Nil
  /\ UNCHANGED <<world, peers, backlog, efd, sigterm, interest, pending, subs,
                 cursor, pc, count, binder_event>>

InotifyReady(e) ==
  /\ Dispatch(e) /\ e.token = "inotify"
  /\ ino' = FALSE
  /\ notify_needed' = TRUE
  /\ UNCHANGED <<world, peers, backlog, efd, sigterm, interest, pending, subs,
                 cursor, pc, count, binder_event>>

BatchDone ==
  /\ pc = "dispatch" /\ batch = {}
  /\ pc' = "dedup"
  /\ UNCHANGED <<world, peers, backlog, sources, interest, pending, subs, cursor,
                 batch, count, flags>>

----------------------------------------------------------------------------
(***************************************************************************)
(* After the batch: a binder event always asks for a notification; a       *)
(* cgroup event does unless the payload is the one seen last time.         *)
(***************************************************************************)
Payloads ==
  {PayloadOf[cg]} \cup (IF "read" \in Faults THEN {NoPayload} ELSE {})

Compare ==
  \E current \in Payloads :
    /\ notify_needed' = (current # last_v1_payload)
    /\ last_v1_payload' = current

\* Mutant: the payload of cgroup.procs silences binder events too.
DedupAlways ==
  /\ pc = "dedup" /\ pc' = "notify"
  /\ IF binder_event \/ notify_needed THEN Compare
     ELSE UNCHANGED <<notify_needed, last_v1_payload>>
  /\ UNCHANGED <<world, peers, backlog, sources, interest, pending, subs,
                 last_package, batch, count, binder_event>>

Dedup ==
  /\ pc = "dedup" /\ pc' = "notify"
  /\ IF binder_event THEN notify_needed' = TRUE /\ UNCHANGED last_v1_payload
     ELSE IF notify_needed THEN Compare
     ELSE UNCHANGED <<notify_needed, last_v1_payload>>
  /\ UNCHANGED <<world, peers, backlog, sources, interest, pending, subs,
                 last_package, batch, count, binder_event>>

(* The iteration ends: its flags go out of scope.                           *)
NextIteration ==
  /\ pc = "notify" /\ pc' = "wait"
  /\ notify_needed' = FALSE /\ binder_event' = FALSE
  /\ UNCHANGED <<world, client, inbox, nameless, backlog, sources, pending,
                 last_v1_payload, batch, count>>

Live == {u \in Uids : watchers[u] # Nil}
HasWatchers == Live # {}

NoNotification ==
  /\ ~notify_needed \/ ~HasWatchers
  /\ NextIteration
  /\ UNCHANGED <<heard, interest, subs, last_package>>

(* The foreground is unknown, or is the package last announced.             *)
NothingNew ==
  /\ notify_needed /\ HasWatchers
  /\ NextIteration
  /\ last_package' \in Resolved(FALSE) \cap {Nil, last_package}
  /\ UNCHANGED <<heard, interest, subs>>

\* Mutant: what was pushed is not remembered.
PushUnremembered ==
  /\ notify_needed /\ HasWatchers
  /\ NextIteration
  /\ \E res \in Resolved(FALSE) \ {Nil, last_package} :
       Deliver({watchers[u].conn : u \in Live}, res)
  /\ evict_watcher({u \in Live : Broken(watchers[u].conn)})
  /\ UNCHANGED last_package

Push ==
  /\ notify_needed /\ HasWatchers
  /\ NextIteration
  /\ last_package' \in Resolved(FALSE) \ {Nil, last_package}
  /\ Deliver({watchers[u].conn : u \in Live}, last_package')
  /\ evict_watcher({u \in Live : Broken(watchers[u].conn)})

----------------------------------------------------------------------------
Environment ==
  \/ \E p \in Packages \cup {Nil} : FocusChanges(p)
  \/ \E s \in CgroupStates : CgroupChanges(s)
  \/ Terminate
  \/ \E c \in Conns : \/ Connect(c)
                      \/ HangUp(c)
                      \/ \E cmd \in Says[c] : Send(c, cmd)

DispatchStream(e) ==
  \/ PendingHangup(e)
  \/ \E c \in Conns : \E u \in PeerUids(c) : \/ Refuse(e, c, u)
                                            \/ Status(e, c, u)
                                            \/ Unknown(e, c, u)
                                            \/ Watch(e, c, u)
                                            \/ WatchNotAdded(e, c, u)
  \/ WatcherReady(e)
  \/ StaleEvent(e)

DispatchSource(e) ==
  StartAccept(e) \/ Signalled(e) \/ BinderReady(e) \/ InotifyReady(e)

Run ==
  \/ Wait
  \/ Accept \/ AcceptOverBurst \/ AcceptStops
  \/ \E e \in batch : DispatchStream(e) \/ DispatchSource(e)
  \/ BatchDone
  \/ Dedup
  \/ NoNotification \/ NothingNew \/ Push

Next == Environment \/ Run

Spec == Init /\ [][Next]_vars

(* run() is one thread that epoll_wait resumes whenever a source is ready.  *)
LiveSpec == Spec /\ WF_vars(Run)

----------------------------------------------------------------------------
(* Safety. *)

\* token_to_uid is exactly the inverse of watchers: evicting by UID (write
\* failed, slot taken over) and by token (client hung up) leave no entry of
\* one map without its entry in the other.
ReverseMapExact ==
  /\ \A u \in Uids : watchers[u] # Nil => token_to_uid[watchers[u].token] = u
  /\ \A t \in Tokens : token_to_uid[t] # Nil =>
       /\ watchers[token_to_uid[t]] # Nil
       /\ watchers[token_to_uid[t]].token = t

\* Every registered stream is owned by exactly one of the maps the dispatch
\* looks in, under its token, so no readiness report goes unhandled (epoll is
\* level-triggered: run() would spin on it) and no closed stream is kept.
InterestOwned ==
  \A t \in Tokens :
    /\ pending[t] = Nil \/ token_to_uid[t] = Nil
    /\ interest[t] = IF pending[t] # Nil THEN pending[t]
                     ELSE IF token_to_uid[t] # Nil
                       THEN watchers[token_to_uid[t]].conn
                     ELSE Nil

\* A connection is held in one place: in the listener's queue, as one pending
\* entry, or as one watcher.  Closing what one map holds never closes a stream
\* that another still serves.
HeldOnce ==
  /\ \A s, t \in Tokens : pending[s] # Nil /\ pending[s] = pending[t] => s = t
  /\ \A u, v \in Live : watchers[u].conn = watchers[v].conn => u = v
  /\ \A c \in Conns : /\ ~(InBacklog(c) /\ IsPending(c))
                       /\ ~(InBacklog(c) /\ Watching(c))
                       /\ ~(IsPending(c) /\ Watching(c))

\* The UIDs a connection has gone under: its own, and Root once its credentials
\* could not be read.
Names(c) == {UidOf[c]} \cup (IF c \in nameless THEN {Root} ELSE {})

\* A watcher sits in the slot of its own peer UID, or in Root's if the daemon
\* could not tell who it is; a connection receives a byte only if daemon_uid
\* permits one of the UIDs it has gone under.
OnlyAllowedServed ==
  /\ \A u \in Uids : watchers[u] # Nil =>
       Permitted(u) /\ u \in Names(watchers[u].conn)
  /\ \A c \in Conns : heard[c] # Nil => \E u \in Names(c) : Permitted(u)

\* Focus events reach the loop: the observer's eventfd is registered, and the
\* resolver asks the binder.
ByObserver == boot.token /\ boot.mode # "cgroup"

\* A focus that is not last_package, on which the loop decides whether to push, is
\* still announced by the eventfd, by the batch or by the iteration's flag: no
\* order of callbacks, subscriptions and iterations forgets to compare them.
ChangeIsPending ==
  ByObserver /\ HasWatchers /\ last_package # focus
    => efd \/ binder_event \/ \E e \in batch : e.token = "binder"

\* The same for the cgroup source: a payload other than the one the dedup saw
\* last is still announced, or the iteration is about to compare it.
PayloadChangeIsPending ==
  WatchesCgroup /\ last_v1_payload \notin {NoPayload, PayloadOf[cg]}
    => \/ pc = "exited"
       \/ ino \/ \E e \in batch : e.token = "inotify"
       \/ notify_needed /\ pc \in {"dispatch", "accept", "dedup"}

\* daemon_uid is set: at most one watcher at a time.
SoleUid == boot.daemon_uid # Nil

\* Where one UID is served, last_package is what its watcher was last told, so that
\* comparing with it decides what that watcher lacks.  (Not a watcher that missed
\* a line because its buffer was full, nor one that has hung up.)
WatchersInSync ==
  SoleUid /\ last_package # Nil =>
    \A u \in Uids : watchers[u] # Nil =>
      LET c == watchers[u].conn IN
      c \in SlowConns \/ Broken(c) \/ heard[c] = last_package

\* When the daemon has nothing left to do, every watcher knows the package that
\* resolving now would give.
Idle == pc = "wait" /\ Ready = {}

WatchersCurrent ==
  Idle /\ resolve_foreground_inner(FALSE) # Nil =>
    \A u \in Uids : watchers[u] # Nil =>
      \/ watchers[u].conn \in SlowConns
      \/ heard[watchers[u].conn] = resolve_foreground_inner(FALSE)

\* The same where focus events do reach the loop and one UID is served.
ObservedWatchersCurrent == ByObserver /\ SoleUid => WatchersCurrent

\* How many steps run() has at most before it, until the next epoll_wait.
Left ==
  CASE pc \in {"wait", "exited"} -> 0
    [] pc = "notify" -> 1
    [] pc = "dedup" -> 2
    [] pc = "dispatch" ->
         3 + Cardinality(batch)
           + (IF \E e \in batch : e.token = "socket" THEN AcceptBurst + 1 ELSE 0)
    [] pc = "accept" -> 3 + Cardinality(batch) + AcceptBurst + 1 - count

\* One iteration is bounded, however many clients connect, send and hang up
\* while it lasts: nobody outside lengthens it, and each step shortens it.
IterationEnds ==
  /\ [](Left \in 0..(MaxEvents + AcceptBurst + 4))
  /\ [][/\ Run /\ pc # "wait" => Left' < Left
        /\ Left' > Left => Wait]_vars

----------------------------------------------------------------------------
(* Liveness. *)

Unserved(c) == Held(c) /\ (inbox[c] # Nil \/ client[c] = "closed")

\* A client that has sent a command, or hung up, is eventually dealt with: its
\* command is consumed, or its connection is no longer held.
EventuallyServed == \A c \in Conns : Unserved(c) ~> ~Unserved(c)

\* Once the foreground stops changing, all watchers come to know it for good.
EventuallyCurrent ==
  <>[](\A u \in Uids :
         watchers[u] # Nil /\ resolve_foreground_inner(FALSE) # Nil =>
           LET c == watchers[u].conn IN
           Broken(c) \/ heard[c] = resolve_foreground_inner(FALSE))

----------------------------------------------------------------------------
(* Refinement. *)

Subscriber(u) == IF watchers[u] = Nil THEN Nil ELSE watchers[u].conn

LastTold(u) == IF watchers[u] = Nil THEN Nil ELSE heard[watchers[u].conn]

\* The daemon is a WatchService: `fg` is what resolving now would answer, a UID's
\* subscriber is its entry in watchers, and told the last line written to it.
Service ==
  INSTANCE WatchService WITH
    Slow <- SlowConns,
    fg   <- resolve_foreground_inner(FALSE),
    sub  <- [u \in Uids |-> Subscriber(u)],
    told <- [u \in Uids |-> LastTold(u)]

\* Every step of the loop is a step of the service or invisible to it: what a
\* client is told is the foreground of that moment, a push reaches all, a client
\* replaced, refused or gone does not disturb the others.
ServedAsPromised == Service!SafetySpec

\* ... and no subscriber stays behind.
ImplementsService == Service!Spec
=============================================================================
