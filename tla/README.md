# FocusD: TLA+ specification, model checking and proofs

CoreShift FocusD is an Android daemon that knows which package is in the
foreground and tells its clients over an abstract Unix socket. This directory
specifies the program in TLA+, checks the specifications with TLC on small
instances and proves their safety properties with TLAPS for every value of the
constants. Paths such as `daemon.rs:226` are relative to the crate's `src/`.

## 1. Inventory

| Component | State it keeps | Operations | Interacts with |
|---|---|---|---|
| Daemon loop (`daemon.rs`) | `pending`, `watchers`, `token_to_uid`, `last_v1_payload`, `last_package`, the flags of one iteration | accept, read a command, `status`, `watch`, evict, drain the eventfd, read inotify, dedup, push, exit on a signal | every other one |
| Cgroup monitors (`daemon.rs:251-260, 381-410`) | `cgroup_monitors` | add and drop EPOLLPRI watches on `cgroup.events` of the candidates | resolver (paths in, pid cache cleared) |
| Reload (`daemon.rs:263-286`, `blocklist.rs`, `terminal_apps.rs`) | `blocklist_defaults`, `settings_secure_fingerprint`, the two sets, the two files | reload after inotify events; write the blocklist back | UID cache, resolver, inotify (also its own writes) |
| Cgroup resolver (`resolver.rs`) | `pid_cache`, launcher, cgroup roots | `resolve`, `clear_pid_cache`, `resolve_traced` | `/proc`, cgroup trees, UID cache |
| UID cache (`cache.rs`) | `mapping`, `fingerprint`, `miss_counts`, `last_miss_refresh`, `package_cache.txt` | `load_or_refresh`, `refresh`, `get_package`, `save` | `packages.xml`, the `pm` command |
| Binder source (`binder_source.rs`) | the binder handle and the observer's eventfd | `try_open`, `resolve`, `debug_trace` | system_server |
| Supervisor and CLI (`main.rs`) | `daemon.pid`, `daemon.ready`, `crash_count`, `last_crash_window` | `daemon`, `stop`, `restart`, `status`, `watch`, `resolve` | the daemon process (fork, wait, SIGTERM), the socket |
| Configuration (`config.rs`) | none | parse `coreshift.conf` | read once by every command |
| Library client (`socket.rs`, `lib.rs`) | none | `parse_command`, `request` | the socket |
| `coreshift-core` | epoll registrations | reactor, sockets, inotify, spawn, binder | external crate, not in the repository |

What makes each correct, and what is hard about it:

* **Daemon loop.** Each connection is held in exactly one place and both watcher
  maps agree; only the permitted UID is served, or a peer that cannot be named; every change of the foreground
  reaches every watcher, once the loop is idle. Hard: events of one batch come in
  any order and may name streams that an earlier event closed; the foreground
  changes between any two steps; `last_package` is one cell for all watchers;
  accepts, credentials, registrations, writes and resolutions fail; an accept burst has a limit.
* **Cgroup monitors.** The watched paths are those of the last resolution, each
  once. Hard: paths repeat, files vanish, registration fails.
* **Reload.** What is in force is what the files and the settings say, after
  every sequence of edits. Hard: `settings_dirty` does not outlive an iteration;
  the daemon's own write-back triggers its own inotify watch and loses the
  user's `-` lines; files are loaded before they are watched; the settings are read
  by two commands; failed commands and writes go unnoticed.
* **Resolver.** The answer is a live, permitted, best-scored candidate of now.
  Hard: verdicts are cached by PID (also negative ones, also beyond a refresh of the
  UID cache) while processes exec and PIDs are reused, `/proc` changes between the
  reads, and command lines cannot always be read.
* **UID cache.** A package known to `pm` is eventually found. Hard: the command
  does not run, fails unnoticed (nobody looks at its exit status) or lags, the
  fingerprint is stored anyway, the result of the write is ignored, retries are
  throttled and counted.
* **Supervisor.** After `stop` reports success no daemon runs or comes back; at
  most one supervisor owns the files. Hard: the files are the only shared state,
  each step of two processes interleaves, the child may die at any point, and so may
  a fork or a write of a file fail.

`PROJECT.json` lists the hazards with their lines and the properties on them.

## 2. The modules

| Module | Contents | Proofs |
|---|---|---|
| `WatchDaemon` | the daemon loop and its clients | `WatchDaemon_proofs` |
| `WatchService` | abstract: what a watcher is promised; implemented by `WatchDaemon` | `WatchService_proofs` |
| `UidCache` | fingerprint, refresh, misses, throttle, the file shared by processes | `UidCache_proofs` |
| `Resolver` (extends `UidCache`) | `resolve` step by step against a changing `/proc`, pid cache, selection by score | `Resolver_proofs` (extends `UidCache_proofs`) |
| `ConfigReload` | edits, inotify, the refresh block, write-back, restarts | `ConfigReload_proofs` |
| `Supervisor` | `daemon`, `stop`, `restart`, crash window, backoff, both files, the socket | `Supervisor_proofs` |
| `DaemonService` | abstract: what the commands promise somebody who gives one after the other; implemented by `Supervisor` | `DaemonService_proofs` (extends `Supervisor_proofs`) |

The resolver is composed with the UID cache, because a negative verdict of one
outlives the refresh of the other. The loop is not composed with the resolver: to
it a resolution is one read of the world, whose failure and lateness it handles
the same way whatever is inside; nor with the reload, which shares only the
inotify descriptor with it. No module declares a RECURSIVE operator; parameters
are CONSTANTS with named assumptions.

## 3. WatchDaemon

### State

| TLA+ | Code |
|---|---|
| `boot` | the configuration and the outcome of `Daemon::new` and `run`'s start: `daemon_uid`, `resolver_mode`, `binder`, `binder_efd`, `binder_token` |
| `focus`, `cg` | what the binder answers, and the state of the cgroup tree (`TopOf[cg]` is what the resolver answers, `PayloadOf[cg]` what `cgroup.procs` contains) |
| `client`, `inbox`, `heard` | a client's end: open or closed, the unread command, the last package it was sent |
| `nameless` | history: the clients that were taken for root because their credentials could not be read |
| `backlog`, `efd`, `ino`, `sigterm`, `interest` | kernel: accept queue, readiness of eventfd, inotify and signalfd, epoll's interest list by token |
| `pending`, `watchers`, `token_to_uid`, `last_v1_payload`, `last_package` | the fields of `Daemon` of those names |
| `pc`, `batch`, `count`, `notify_needed`, `binder_event` | where `run` is, the events not yet dispatched, its locals |

A map is a function into its values or `Nil`, an absent entry.

### Actions

`Wait` is `Reactor::wait` (at most `MaxEvents` of what is ready, level-triggered).
The events of a batch are dispatched one at a time in any order, since epoll
promises none: `StartAccept`, `Accept`, `AcceptOverBurst`, `AcceptStops`
(daemon.rs:150-159), `Signalled` (160-173), `BinderReady` (174-180),
`InotifyReady` (181-195), `PendingHangup`, `Refuse`, `Status`, `Unknown`,
`Watch`, `WatchNotAdded` (196-246), `WatcherReady` (247-250), `StaleEvent` (no
branch applies). After the batch come `Dedup` (288-305) and `NoNotification`,
`NothingNew` or `Push` (307-338). The world steps between any two of these:
`FocusChanges`, `CgroupChanges`, `Terminate`, `Connect`, `Send`, `HangUp`.

The grain is one handler per step, except that accepting takes a step per
connection, because clients connect meanwhile. Inside a handler the code reads
the world once (one binder call, or one resolution), so a finer grain would show
nothing more as long as a resolution counts as one read: `Resolver` takes it
apart.

A read error of the pending stream or a resolution that fails shows as `Nil`.
The command itself is read before the UID is compared (`parse_command`), hence
`Refuse` consumes it. `PeerUids` is what `parse_command` may take a peer for: its
UID or, where the credentials cannot be read (fault `"cred"`, socket.rs:19-24), `Root`,
which is UID 0. `AcceptStops` is the end of the accept loop: the queue is empty, or
`accept` fails (fault `"accept"`) and the rest waits for the next event. `FreshTokens` says what is assumed of the external
reactor: a token is not that of a live registration; with fault `"reuse"` it may
be the token of a stream closed earlier in the same batch.

### Properties

| Property | What could go wrong |
|---|---|
| `ReverseMapExact` | an eviction by UID or by token leaves a half entry |
| `InterestOwned` | a registered stream nobody handles (epoll would report it for ever), or a stale registration |
| `HeldOnce` | one stream in two maps, so that closing one closes the other's |
| `OnlyAllowedServed` | a caller whom `daemon_uid` does not permit is written to, or a watcher sits in a slot that is neither its own nor, for a peer that could not be named, root's |
| `ChangeIsPending` | the focus is not `last_package`, and nothing announces it any more |
| `PayloadChangeIsPending` | the same for the payload of `cgroup.procs` |
| `WatchersInSync` | with `daemon_uid` set, `last_package`, on which the push decides, is not what the watcher was told |
| `WatchersCurrent` | the loop is idle and a watcher knows an old package (violated) |
| `ObservedWatchersCurrent` | ... with `daemon_uid` set and the observer driving the loop |
| `IterationEnds` | clients that keep coming hold the loop in one iteration, away from its notifications and its signal |
| `EventuallyServed`, `EventuallyCurrent` | a command unanswered, a watcher never told |
| `ServedAsPromised`, `ImplementsService` | the loop as a whole is not the service of section 4 |

`IterationEnds` is stated with a measure, `Left`: the steps of `run` that may still
come before the next `epoll_wait`. It is at most the batch, the burst (`AcceptBurst`,
the one over it, and the return to the batch) and the two steps after the
batch; each step of `run` lowers it and no step of the world raises it. It shows
what the limit of 16 is for: without it, a queue that fills as fast as it is
emptied keeps `accept` busy. The handlers themselves are steps, so a resolution
that blocks is outside the measure.

## 4. WatchService

Three variables: `fg`, the package a resolution would name now; `sub`, each UID's
subscriber; `told`, what that subscriber was told last. `Change` moves the
foreground, `Subscribe` gives the slot of a UID to a new client and tells it the
package of the moment, `Push` tells all subscribers the package of the moment at
once (slow ones may miss it, those gone lose their slot), `Lose` drops
subscribers. So a client is never told anything but the foreground of the
moment it is told, a push leaves nobody out, and one subscriber's arrival or end
does not touch another's line. Its liveness: a subscriber who is behind does
not stay behind.

`WatchDaemon` implements it under `fg <- resolve_foreground_inner(FALSE)`,
`sub <- Subscriber(u)` (the entry of `watchers`) and `told <- LastTold(u)` (what
was last written to that entry's connection). `ServedAsPromised` is the safety
part, checked in `daemon` with every fault on the maps and proved for all
constants; `ImplementsService` adds the liveness and is checked in `live`. The
liveness fails with two UIDs (section 9, second watcher); the safety part does not.

## 5. UidCache and Resolver

### UidCache

`pm` is what the package manager lists, a version number into `Listing`; `xml`
is the version that has reached `packages.xml`, never ahead of `pm`. A
fingerprint is the version it was taken of, or `Nil`: two versions of the file
with equal length and time are taken not to occur. `file` is
`package_cache.txt`, `Torn` between the truncation and the write of `fs::write`.
`mapping`, `fingerprint` and `miss_counts` are the fields of each process's
`UidCache`; `recent` says that `last_miss_refresh` is less than 30 s old. `found`
is the local `current_fingerprint`, `step` where `load_or_refresh` is, and
`notified` and `watched_from` are the daemon's inotify watch. `setting` is drawn
once: which processes ever run, and what may fail. `pm`: the command cannot be
run, and nothing changes. `exit`: it fails after it was started; as `refresh` looks
at no exit status (cache.rs:78), the map becomes what it had printed by then, any part
of the listing down to none (`Cut`). `disk`: the file cannot be read, or a write
fails, unnoticed (cache.rs:129), and leaves the file as it was, empty, or with
some of the lines; a line cut in two counts as lost. `stat`: there is no fingerprint.
`failed` is the history of the first three.

`Start` is `new`, followed by `Collect` (cache.rs:58-66), then `Refresh`, `Save`
and `Write` (68-71, 118-130) or `Read` (132-156). `GetPackage` is `Answered`
(known, given up, asked recently) or `Missed` (refresh, count, save). The command
is asynchronous to the rest of the system, so the fingerprint, the answer, the
truncation and the write are four steps; a process may be killed (`Quit`) between
any two. `AddWatch` and `Reload` stand for the daemon's watch and refresh block.

| Property | What could go wrong |
|---|---|
| `FileFresh` | a process trusts a file that is older than the fingerprint in it |
| `CacheFresh` | the same of the daemon's memory: a matching fingerprint saves a refresh that was needed |
| `ChangeNoticed` | a new `packages.xml` and neither an event nor a load that will see it |
| `OnlyFailuresAddUp` | misses of UIDs that `pm` never lists add up, so that the limit bites |
| `KnownStaysKnown` | a UID is forgotten by anything but a command's word: by a reload, a miss, or a command that did not run |

`CacheFresh`, `ChangeNoticed` and `KnownStaysKnown` are about a daemon that shares its
file with nobody: a `resolve` command that writes at the same time can make the
daemon read an empty file, hence forget everything until the next refresh.
`FileFresh` holds with any writers. Both fresh ones end with the first failure, and
`ChangeNoticed` and `KnownStaysKnown` need a disk that works: a failed write leaves an
older file beside the new fingerprint in memory, and the next load trusts it.
`KnownStaysKnown` does not hide the command that fails unnoticed: it is named there
as the one other way to forget a UID. Two of these say what the code does rather
than what a reader would guess: a load of a new process always refreshes (its
fingerprint is `None`, cache.rs:51, 64), so the file is read only by a later
reload of the same process; and `refresh` clears all miss counts before
one is counted, so the limit of three acts only when `pm` fails.

### Resolver

`Resolver` extends `UidCache` with its one process, the daemon. `procs` is what
runs under each PID: a program, its score, whether it is in top-app and whether
its group is populated; `UidOf` and `CmdOf` are what `/proc` says of a program.
`pid_cache` holds `Nil` (no entry), `""` (not a candidate) or a package. `pc`,
`v1_pids`, `todo`, `filtered`, `best_pid`, `min_oom`, `best_is_low_prio` and
`answer` are the locals of `resolve` and `select_best_by_oom`.

`been` (the programs that have run under each PID since the verdicts were cleared)
and `unread` (the PIDs whose command line could not be read) are history.

`Begin` reads top-app; one of `NotPopulated`, `Cached`, `App` and `SystemProcess`
deals with each PID, from the highest down, where `App` may make the
UID cache refresh and save before the scan goes on; `Score` or `Gone` takes each survivor, `Answer` looks at
the winner once more. `Spawn`, `Die`, `Shift` and `Become` happen
between any two: `Become` is exec or the change of name and user after a fork, which a
shell of a terminal and an app forked from the zygote go through. A command line that
is asked for may be unreadable (`Reading`): a terminal's process is then taken for
the terminal (resolver.rs:72-80), a system process for nothing (84-93). The reads
about one PID in one of the two passes are one step, so a process that dies
between its `/proc/<pid>/cgroup` and its stat is not distinguished from one that
died before. `clear_pid_cache` may happen whenever no resolution is under way: when the
daemon calls it belongs to the loop. Left out of the composition: the daemon's end,
edits of the configuration, and the list of cgroup paths returned beside the package.

| Property | What could go wrong |
|---|---|
| `BestAnswered` | though nothing moved (`still`), the one-pass search misses the best candidate: lowest score, then a real app, then the highest PID; only behind a real app with a score of 0 or less may a better one be passed over |
| `AnswerAdmitted` | a process that moves meanwhile makes it answer a blocked package, or one no PID of top-app had |
| `VerdictsTrue` | a cached verdict names a package that no program under this PID has had, or a process that was never the terminal passes for it though its command line was read |
| `DismissedRightly` | a PID is held to be no app, though nothing failed, `pm` listed its package all along and it has been nothing else |
| `KnownAppSeen` | an app whose package the up-to-date cache knows is not seen (violated) |

`DismissedRightly` and `KnownAppSeen` are the two sides of one line (resolver.rs:103): a
PID is dismissed only on the word of `pm`, but that word may be out of date a
moment later. In this module the daemon shares its file with nobody: a map emptied
by a file read half-written would not be `pm`'s word. The terminals are constants
of the module, so edits of their file are not part of it.
`VerdictsTrue` and `DismissedRightly` speak of all programs that have run under a PID,
because the code does: a verdict made before exec, before an app got its name or before a
PID was used again stays until the cache is cleared. `KnownAppSeen` is violated
without any of this. The scores -1, 0
and 1 stand for the two sides and the boundary of the early stop.

## 6. ConfigReload and Supervisor

### ConfigReload

An entry is a line of a file; `Matches` says which packages it stands for (a
prefix stands for several) and `Removes` which entries its `-` form takes out of
the list. `settings` is what `cmd settings get` answers from, `xml` the version
that has reached `settings_secure.xml`, `pkgs` that of `packages.xml`.
`blocklist_file` and `terminal_file` are the two files (`Nil`: absent), `watched`
and `events` the inotify watches and the files with an event not yet read.
`blocklist_defaults`, `settings_fp` and `cache_fp` are the daemon's fields,
`settings_dirty` and `content` its locals, `blocklist` and `terminal_apps` the
lists in force, `phase` where the load is.

A load is `ResolveKeyboard` and `ResolveServices` (blocklist.rs:129-150: two
commands, between which the settings may change), `ReadBlocklist` and
`LoadBlocklist` (46-98; the file is read at the start and, if it is absent or the
settings were dirty, rewritten at the end) and `LoadTerminal`
(terminal_apps.rs:15-52). It runs in `Daemon::new`, before `AddWatches`
(daemon.rs:104-125, any of which inotify may refuse), and then after `TakeEvents`
(182-192) and `RefreshPackages` (263-274, with the comparison that replaces a
refused watch on the settings). Users edit, settings change, `packages.xml`
changes and the daemon restarts between any two steps. Faults: a `command` fails, which
yields no package; a `write` of a file fails, unnoticed, and leaves the file as it
was or empty (`WriteBack`, `Created`). A file that could not be created cannot be
watched (`Missing`).

`wanted` is what the user last wrote, and `lapse` names the gaps the code is known
to have: `files`, an edit after the load of `new` and before the watches of `run`;
`settings`, a change in that gap, an event of the settings that came in a batch
of its own, or a command that failed; `race`, an edit between the read of the
blocklist and its rewrite; `torn`, a rewrite that emptied the file. Each ends with the step that makes good for it.

| Property | What could go wrong |
|---|---|
| `InForce` | an edit during a reload is lost: an idle daemon has other lists than its files say |
| `DefaultsCurrent` | the keyboard blocked is of an older version than the settings file, or the services of an older one than the keyboard: a change between the two commands, or during the load, is not followed by another |
| `AdditionsHold` | a rewrite or a restart drops what the user asked to block |
| `Quiesces` | the daemon's own rewrite announces itself, and the reload that follows rewrites again, for ever |
| `ComesToRest` | the same as a measure: a step of the daemon that does not bring it nearer to rest |
| `RemovalsHold` | what the user asked not to block is blocked again (violated) |
| `RemovalsHoldAtFirst` | ... even though the settings have not changed since the file was written |

`DefaultsCurrent` does not ask for defaults that are those of one version: in an idle
daemon they may mix two, until the later one reaches `settings_secure.xml`. It excuses
an event of the settings that comes alone, which the code forgets (section 9).

`Work` counts eight for every reason there is to load again (events not read,
settings that look changed, a file that does not exist and whose creation announces
itself) and one for every step of the load under way. `RemovalsHoldAtFirst` says that
the violation of `RemovalsHold` needs a change of the settings: neither packages nor
a refused watch, a restart or the daemon's own writes lose a `-` line.

### Supervisor

Each supervisor has a place in its loop (`sup`), its crash count and whether its
window is over, and one daemon at a time, of which the model keeps where it is
(`new`, `masked` once SIGTERM is blocked, `bound`, `loop`), whether SIGTERM is
pending and how it ended. A PID is modelled by the supervisor of its daemon, and
becomes `Dead` wherever it is written when the daemon is reaped, so that a stale
`daemon.pid` names no process. `Torn` is the file between the truncation and the
write of `fs::write`. A command has a place (`at`), the PID it read and the line
it printed last.

`Supervise` is the loop of main.rs:229-253, `Serve` is `Daemon::new` and `run` as
far as the files, the signal and the socket see them, `Command` is `daemon`,
`stop` and `restart` (48-80, 182-218, 286-309), each access to a file, the socket or
another process being a step. Faults: a daemon crashes, a supervisor is killed
(its daemon gets SIGTERM if `set_pdeathsig` came first), the device reboots, a
wait of 3 s or 15 s runs out (`timeout`), a `fork` fails in the loop (main.rs:230, which
ends the supervisor: `ForkFails`) or at its start (184, 212: `SpawnFails`), a write
of `daemon.pid` or `daemon.ready` fails (`disk`: main.rs:233, daemon.rs:99, both ignored). `target` and `hit` say which daemon a command's
SIGTERM reached and where it was, `mess` what has gone wrong so far, where
`overlap` means that a command was typed while another was at work.

| Property | What could go wrong |
|---|---|
| `SigtermIsFinal` | a bound daemon's SIGTERM is lost, or its supervisor starts another daemon, whatever else is typed |
| `StopHolds` | "Daemon stopped." while the daemon runs or a next one is to come |
| `OneSupervisor` | commands given one after the other leave two supervisors at work |
| `Reachable` | ... or a daemon that serves and that `daemon.pid` does not name |
| `ReadyIsTrue` | ... or a `daemon` that returns on the `daemon.ready` of an earlier start |
| `Recovers` | a crashed daemon is not brought back though the limit is not reached, no fork failed and nobody killed its supervisor |
| `StoppedStays` | "Daemon stopped." and later a daemon serves, with no other command given (violated) |

`OneSupervisor`, `Reachable` and `ReadyIsTrue` speak of histories with `mess = {}`:
overlapping commands, expired waits and kills do break them, by design of the
files, and nothing in the repository promises otherwise.

`DaemonService` is what somebody sees who gives one command after the other while
nothing fails: a daemon that is `off`, or on and `listed` in `daemon.pid` or not
yet; what each command is doing; what it printed last. The daemon comes up only
for a `daemon` or a `restart`, goes down only for a `stop` or a `restart`,
`daemon` refuses only when one runs, "ready" is printed while one runs and
"stopped" while none does. `Supervisor` implements it (`CommandsServed`) under
`daemon <- DaemonNow`, from the socket and the file, and `job <- Job(c)`, from the
place of the command in the code. The promise has one blemish, taken from
the code: between the moment the daemon answers on its socket and the moment its
supervisor has written the file, `stop` may print "Daemon not running (no PID
file)." or nothing at all (main.rs:286-309).

## 7. Runs

Two to three clients, two UIDs and one token per client are the smallest
instance in which a watcher is replaced, refused and evicted while another is
pending. `MaxSwitches` bounds the changes of the foreground, `AcceptBurst`
scales 16 down to 1 or 2 so that a burst can exceed it, `MaxEvents` scales 64.
Each client connects once and sends at most one command at a time; that bounds the rest.
For the cache, three versions let a UID appear, disappear and change hands, and
two starts let a second process read what a first one left. The `resolve` command runs
beside a daemon whose calls succeed, apart from the stat; every fault is met by the daemon
alone. For the resolver,
three candidates are what the order of score, kind and PID needs: the first seen,
one that beats it and one that must not. For the reload, two versions of the
settings and of the packages and two edits let every gap open and close, and let
an edit meet both the read and the rewrite of one load; two versions are also what it takes for a
keyboard and services of different ones. For the supervisor, three commands or faults
include `daemon`, `stop`, `daemon` and a crash during a `restart`; `CrashLimit`
scales 5 down to 2, so that both sides of the limit are reached.

| Run | Shows |
|---|---|
| `daemon` (`Daemon.cfg`) | three clients of two UIDs, `daemon_uid` root's or unset, hence one watcher or two at once: the maps, the interest list, the UID check, the service and the bound on an iteration, with failing accepts and registrations, peers that cannot be named, reused tokens, batches smaller than what is ready and a burst over the limit (3.1 million states) |
| `subscriptions` (`Subscriptions.cfg`) | two clients of one UID, one with a full buffer, two changes, with and without the observer: no change is forgotten, watchers are in step (2.2 million states) |
| `live` (`Live.cfg`) | under fairness, every command, `status` included, is consumed, every watcher becomes current and the service's liveness holds (0.42 million states) |
| `uid_cache` (`UidCache.cfg`) | the daemon alone with commands that do not run or fail unnoticed, a failing stat and a failing disk, and the daemon beside a `resolve` command, through two changes of the packages and two process starts (2.5 million states) |
| `resolver` (`Resolver.cfg`) | every screen of up to three processes out of an app with any of three scores and the launcher, and screens of two terminals, shells or forks of the zygote with or without an app; one arrival (a new app, a terminal, an isolated or a blocked process), death, move or change of program between any two steps; unreadable command lines; one package installed meanwhile (2.6 million states) |
| `reload` (`Reload.cfg`) | two keyboards, an accessibility service that is switched on, prefixes, additions and removals, either file absent at first, failing commands and writes, a refused watch (1.5 million states) |
| `supervisor` (`Supervisor.cfg`) | two supervisors, up to three commands and faults, two commands at once, every fault (0.73 million states) |
| `second_watcher`, `forced_cgroup`, `new_app` (`NewApp.cfg`), `stop_revived`, `unblocked` | violations: section 9 |

Token symmetry is used in the two safety runs of `WatchDaemon` only.
`CHECK_DEADLOCK FALSE`: an idle daemon whose clients are done and whose foreground
has changed `MaxSwitches` times rightly waits for ever, and an exited one stays
so. So do a cache, a resolver, a reload or a supervisor whose users, processes and
packages have used up their bounds.

**Fairness.** Nothing is ever assumed of clients, users, the device or faults.

* `WatchDaemon`: `WF_vars(Run)`. The daemon is one thread, and `epoll_wait` returns
  when a source is ready. Weak fairness of the whole loop does not choose among
  ready events: in `live`, `MaxEvents` exceeds the number of sources, so a batch
  takes all that is ready, as 64 does in practice. With more ready sources than
  `MaxEvents`, serving each one would rest on the kernel's rotation of its ready
  list, which is not modelled.
* `ConfigReload`: `WF_vars(Daemon)`, the same thread.
* `Supervisor`: `WF_vars(Supervise(s))` and `WF_vars(Serve(s))` for each `s`: two
  processes the kernel schedules, one of which waits for the other or sleeps for
  a bounded time. No fairness for commands, which a user may abort.

Every property of a passing run has a mutant in `PROJECT.json`: a defined,
plausible slip of the code (`AcceptUnlimited`, `EvictForwardOnly`,
`HangupKeepsEntry`, ...) under which TLC finds the property violated.

## 8. Proofs

Every safety and action property of the passing runs is proved; three of them
(`ChangeIsPending`, `WatchersInSync`, `ObservedWatchersCurrent`) under hypotheses
that are named below.
The proofs use the assumptions on the constants (which TLC evaluates in the runs)
and nothing else: in particular no bound on clients, commands, edits, PIDs or
versions, other than that they are finite.

`WatchDaemon_proofs`, for every set of connections, UIDs, tokens and packages, every
boot record, burst and batch limit:

* `TypeCorrect`: `TypeOK`.
* `MapsConsistent`: `ReverseMapExact` and `InterestOwned`. Inductive together
  (`MapInv`): an eviction is consistent only because the two maps and the
  interest list agree on the token. Reuse of tokens and failing registrations are
  allowed throughout.
* `NeverHeldTwice`: `HeldOnce`. Not inductive alone: that the connection just
  accepted is new to both maps needs `OneHolder`, which says of the queue and the
  interest list that neither repeats a connection, that they share none, and that
  a client that has not connected is in neither.
* `AllowedOnly`: `OnlyAllowedServed`, with every fault. That a peer without
  credentials is served as root is part of the statement: `Names` is `UidOf` and, for
  those in `nameless`, `Root`.
* `NoChangeForgotten`: `ChangeIsPending`, if resolutions succeed. It is about
  `last_package`, not about what watchers know. It needs `FlagsFit`: no event is left
  when the batch is done, the flags are clear while waiting, and a binder event has
  asked for a notification before the push.
* `NoWatcherForgotten` is what it means for a watcher: with `daemon_uid` set, the
  observer driving the loop, and registrations and resolutions that succeed, a watcher
  that has not been told the focus is still to be reached by the eventfd, the batch or the
  flag. `OneUidInSync` connects the two.
* `NoPayloadForgotten`: `PayloadChangeIsPending`, with every fault. It needs that
  there are no binder events where `cgroup.procs` is watched (`NoBinderEvents`):
  one would leave the payload unread.
* `OneUidInSync`: `WatchersInSync`, if registrations succeed; `OneUidCurrent`:
  `ObservedWatchersCurrent`, if resolutions do too. Both properties are about a
  daemon with `daemon_uid` set (`SoleUid`), which has one watcher at a time. The
  run `second_watcher` shows that this is needed.
* `IterationBounded`: `IterationEnds`. `Left` is a number because a batch is finite
  (`BatchFits`, from the library's facts on cardinalities, and the assumption that
  a process has finitely many descriptors, `TokensFinite`). Then each step of `run`
  removes one event of the batch or counts one connection, and `LeftStays` says no
  step of the world changes what `Left` is made of.
* `NobodyWaitsForSleeper`: while `epoll_wait` has nothing to report, no connection
  the daemon holds has sent a command or hung up. It follows from `MapInv`: a
  connection in a map is registered under its token, so its readiness is reported. Together
  with `IterationBounded` it is as much of `EventuallyServed` as can be proved here.

`WatchService_proofs`: `ServiceRefined`, the safety part of the refinement, with no
assumption on faults, boot or UIDs. One lemma per abstract action; the invariants
it needs are `MapInv`, `OneHolder` and that a connection not yet answered has been told
nothing (`NothingHeardYet`), so that a new subscriber's `told` is what `Subscribe` says.

`UidCache_proofs`: all five properties and the type invariant, with every fault, from one
inductive invariant, `CacheInv`. `InOrder`: what was read earlier is not newer. `Placed`: a
process reads the file only if its own save or load made it exist. `Vouched`:
what is about to be written and what the file holds is as new as its fingerprint.
`LikeFile`: the lone daemon has in memory what is in the file, except during a
save or once its disk has failed. The last is why a reload that reads the file forgets nothing.

`Resolver_proofs` also shows that the detailed composition implements the component:
`CacheInsideRefined` is `Spec => CacheSpec`, and `CachePromisesInside` carries the five
properties of the cache over to a cache that is used from the middle of a resolution.

`Resolver_proofs`: first that each step of `Resolver` is a step of the cache or
leaves it alone (`StepOfCache`), so that `CacheInv` holds in the composition. Then
`ScanInv` (`Where` the scan is; the verdicts of what has `Passed`; the PID the answer `Named`;
the program of each process is among those that have run under its PID, `Recorded`) gives `AnswerIsAdmitted`; `Sourced`, that
every map, in memory or in the file, lists only what `pm` listed at some time, gives
`VerdictsAreTrue`; and `SelectInv` gives `BestIsAnswered`. Its core, `Leads`, says
that the current best is better than each PID scored before it, or excused by the early stop;
`ScoreRanks` keeps it, by transitivity of the order and because the PIDs come from the
highest down. `DismissalsAreRight` rests on `Supplied` (while nothing has failed, the
map the daemon uses and the one in the file are each a whole listing of `pm`) and on
`Right`, which says the same of each verdict in the pid cache and of the one the
scan is about to write, through refreshes that come in the middle of a scan. That a finite set has a highest element (`HighestOne`) is itself
derived from the library's well-founded induction on finite subsets.

`ConfigReload_proofs`: an idle daemon is where all loads have ended, so no property
is inductive. `BlocklistFollows`, `TerminalsFollow` and `DefaultsFollow` say for each
point of a load what is already known to agree with the file or the settings, if no event waits;
`FileAsks` says the file on disk still asks for what the user asked.
`RemovalsHoldAtStart` adds `SettingsUntouched` (before the first change no event, flag
or fingerprint can make the settings look changed) and `FileRemoves` (so the user's
file keeps its `-` lines). `EveryLoadEnds` proves `ComesToRest` and that `Work` is
never more than 55: after the user and the device have made a step, the daemon
makes at most 55 before it rests or they make another. `Quiesces` adds only that
the daemon is scheduled.

`Supervisor_proofs`: `SupervisorTypeCorrect` with the bound on the crash count;
`SigtermEndsIt` (a hit daemon is `Doomed`, and stays so); `StoppedIsTrue`, where with
one supervisor `daemon.pid` and every PID read name its present daemon or none,
hence a condemned daemon keeps its name there until it is reaped; and for orderly commands
`OrderInv`: between two commands the system is `Stopped` or `Up`, each command passes
through `Starting` or `Stopping`, and `Phase` says which of the four each of its
lines finds. `NeverTwoSupervisors`, `AlwaysReachable` and
`ReadyMeansListening` follow from it. `EndsHaveReasons` is the safety half of
`Recovers`: with every fault, a supervisor ends only for a clean exit of its
daemon, for `CrashLimit` crashes, because a fork failed, or because it was killed.

`DaemonService_proofs`: `DaemonServed`, the refinement. `OrderInv` says which daemon
the service sees in each of its four states (`off` when stopped, on and listed as
soon as its supervisor waits when up), and `Phase` that a step of a process in
`Starting` or `Stopping` belongs to the one command at work, whose step of the service it is.

Each proof has the shape: initial states, step lemmas with a case per action, and
a last step in temporal logic. Left to TLC: liveness (`EventuallyServed`,
`EventuallyCurrent`, `Quiesces`, `Recovers`, the second half of
`ImplementsService`), since no installed backend reasons about ENABLED; and the
violations. The measures and the safety halves of these properties are proved
(`IterationBounded`, `NobodyWaitsForSleeper`, `EveryLoadEnds`, `EndsHaveReasons`).

## 9. What the code does not do

* **Second watcher** (`second_watcher`). Documents promise a line to all watchers
  at each change; a `watch` command handled before the change's event makes
  that event look old (`daemon.rs:226, 312`), and the others are not told.
* **Forced cgroup mode** (`forced_cgroup`). The observer is opened in every mode
  (daemon.rs:56) and suppresses the watch on `cgroup.procs` (127-128). Its eventfd stays
  registered (135-139), so its callbacks make the daemon resolve by cgroup and push; but
  a change of what the cgroup resolver answers that comes without a callback, the
  focused task being the same, is not announced.
* **New app** (`new_app`). An app met before the UID cache may ask `pm` again is
  cached by PID as no app, and stays unseen after the cache has learnt its UID.
* **Stop revived** (`stop_revived`). SIGTERM during `Daemon::new` kills the
  daemon, which the supervisor takes for a crash: `stop` reports success and the
  next daemon is started after the backoff (main.rs:239-244, 302).
* **Unblocked** (`unblocked`). A rewrite after a change of the settings drops the
  user's `-` lines (blocklist.rs:88-97); the reload that the rewrite itself causes
  blocks those packages again.

What the models show and no document contradicts, hence without a run: the 17th
connection of a burst is closed unanswered (daemon.rs:155); an event of the settings that
comes in a batch of its own is forgotten (`settings_dirty` is a local of the
iteration); a peer whose
credentials cannot be read is served as root, and takes root's slot (socket.rs:24, as
its comment says); a `cmd package` that fails after it was started empties or shortens
the UID cache, which the new fingerprint then vouches for (cache.rs:70, 78); a write
of the cache, of a list, of `daemon.pid` or of `daemon.ready` that fails is not
noticed; the defaults may mix two versions of the settings, between which the two commands
were run (blocklist.rs:133, 140); a fork that fails ends the supervisor (main.rs:230); a
shell that was looked at before its exec, or whose command line could not be read, stands for its
terminal, and an app that was looked at while still a fork of the zygote is no app, until
the pid cache is cleared (resolver.rs:60, 72); a keyboard once blocked by default stays in the file as if the user had
added it; an edit between the load and the watches is not seen until the next event, and one
between the read and the rewrite is overwritten; two `daemon` commands that
overlap start two supervisors, and the loser removes the winner's `daemon.pid`;
`stop` and `restart` that read `daemon.pid` before it is written do nothing, in silence if
it is just truncated. Outside the models: an editor that replaces a file by renaming takes the
inotify watch of the old file with it.

Differences between documents and code that no run is about: CONFIGURATION.md:11
names the key `resolver_mode`, config.rs:69 reads `resolver`; RESOLUTION.md:34
lists the launcher as blocked, blocklist.rs:114 says it is not; RESOLUTION.md:29
breaks ties by PID only, resolver.rs:186 prefers apps that are neither launcher nor
terminal, and its lowest score is not looked for beyond a real app with 0 or less
(resolver.rs:202); RESOLUTION.md:21 skips a terminal's process whose command line
contains a slash, resolver.rs:74 one whose first word is not the package; config.rs:35 says the daemon drops to `daemon_uid`, it only filters callers.

## 10. Not modelled

* The list of cgroup monitors (`update_cgroup_monitors`, daemon.rs:381-410). Its
  effect on the rest, clearing the pid cache (251-260), is allowed between any two
  resolutions in `Resolver`, as is the clearing after a drop of the highest PID
  (296-301). When the clearing must come is said nowhere.
* The text of replies, logs and files (`status` is modelled by the package it names,
  a line of a file by its entry), the parser of `coreshift.conf`, `resolve` and
  `resolve_traced` as debugging output, `debug_trace`, the test script and the
  release workflow.
* In `ConfigReload`, a rewrite that fails leaves the old file or an empty one; one
  that leaves some of the lines is left out, as is a daemon killed between the truncation
  and the write, which leaves the same empty file. `UidCache` has both, as
  whole lines: a line cut in two counts as lost.
* What a foreign process does with the SIGTERM that a stale `daemon.pid` sends it.
* An error of `Reactor::wait` or of `read_events` ends the process: the `crash` of
  `Supervisor`.
