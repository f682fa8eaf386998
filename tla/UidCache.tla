------------------------------ MODULE UidCache ------------------------------
(***************************************************************************)
(* src/src/cache.rs: the map from UIDs to packages, the fingerprint of     *)
(* packages.xml that says whether it is current, and package_cache.txt.    *)
(* The daemon keeps one UidCache and reloads it on inotify events; each    *)
(* `resolve` command of the CLI makes another in a process of its own, and *)
(* all of them share the file.                                             *)
(*                                                                         *)
(* The package manager's state is a version number; it reaches             *)
(* packages.xml later than the answers of the pm command.                  *)
(***************************************************************************)
EXTENDS Integers

CONSTANTS
  AppUids,     \* application UIDs
  Packages,    \* package names
  MaxVersion,  \* bound: installs and removals in a behaviour
  Listing,     \* what pm lists in each version: UID -> package or Nil
  Procs,       \* processes with a UidCache
  Daemon,      \* the one that watches packages.xml
  Settings,    \* which of them ever run, with which faults: see SettingRecords
  MaxStarts,   \* bound: process starts in a behaviour
  Torn,        \* the contents of the file between truncation and write
  Nil

(* "pm": the command may not run; "exit": it may fail after it has printed   *)
(* some of its listing; "disk": package_cache.txt may not be read or        *)
(* written; "stat": packages.xml may not be examined.                       *)
SettingRecords ==
  [procs : SUBSET Procs, faults : SUBSET {"pm", "exit", "disk", "stat"}]

ASSUME CacheConstantsOK ==
  /\ MaxVersion \in Nat /\ MaxStarts \in Nat
  /\ Listing \in [0..MaxVersion -> [AppUids -> Packages \cup {Nil}]]
  /\ Daemon \in Procs /\ Settings \subseteq SettingRecords
  /\ Nil \notin Packages /\ Nil \notin 0..MaxVersion
  /\ Torn # Nil
  /\ {Torn, Nil} \cap [fp : 0..MaxVersion \cup {Nil},
                      mapping : [AppUids -> Packages \cup {Nil}]] = {}

VARIABLES
  \* the package manager, its file, who runs and what fails
  pm, xml, setting, starts,
  \* the daemon's inotify: an event is queued; what packages.xml was when run()
  \* added the watch, Nil before
  notified, watched_from,
  \* package_cache.txt
  file,
  \* fields of each process's UidCache; recent: last_miss_refresh < 30 s ago
  mapping, fingerprint, miss_counts, recent,
  \* where load_or_refresh is, and its local current_fingerprint
  step, found,
  \* history: which of "pm", "exit" and "disk" have happened
  failed

outside == <<pm, xml, setting>>
watch   == <<notified, watched_from>>
memory  == <<mapping, fingerprint, miss_counts, recent>>
cacheVars == <<outside, watch, starts, file, memory, step, found, failed>>

Versions == 0..MaxVersion
Mappings == [AppUids -> Packages \cup {Nil}]
Nothing  == [u \in AppUids |-> Nil]
Records  == [fp : Versions \cup {Nil}, mapping : Mappings]

CacheTypeOK ==
  /\ pm \in Versions /\ xml \in Versions /\ starts \in 0..MaxStarts
  /\ setting \in SettingRecords
  /\ notified \in BOOLEAN /\ watched_from \in Versions \cup {Nil}
  /\ file \in Records \cup {Nil, Torn}
  /\ mapping \in [Procs -> Mappings]
  /\ fingerprint \in [Procs -> Versions \cup {Nil}]
  /\ found \in [Procs -> Versions \cup {Nil}]
  /\ miss_counts \in [Procs -> [AppUids -> 0..3]]
  /\ recent \in [Procs -> BOOLEAN]
  /\ step \in [Procs -> {"off", "collect", "refresh", "read", "save", "write",
                         "ready"}]
  /\ failed \subseteq {"pm", "exit", "disk"}

(* No process has run yet; a file of an earlier boot may exist.             *)
CacheInit ==
  /\ pm = 0 /\ xml = 0 /\ starts = 0
  /\ notified = FALSE /\ watched_from = Nil /\ setting \in Settings
  /\ file \in {Nil, [fp |-> 0, mapping |-> Listing[0]]}
  /\ mapping = [p \in Procs |-> Nothing]
  /\ fingerprint = [p \in Procs |-> Nil] /\ found = [p \in Procs |-> Nil]
  /\ miss_counts = [p \in Procs |-> [u \in AppUids |-> 0]]
  /\ recent = [p \in Procs |-> FALSE]
  /\ step = [p \in Procs |-> "off"]
  /\ failed = {}

----------------------------------------------------------------------------
(* The package manager and the kernel.                                      *)

Install ==
  /\ pm < MaxVersion /\ pm' = pm + 1
  /\ UNCHANGED <<xml, setting, watch, starts, file, memory, step, found, failed>>

WriteXml ==
  /\ xml # pm /\ xml' = pm
  /\ notified' = (watched_from # Nil)
  /\ UNCHANGED <<pm, setting, watched_from, starts, file, memory, step, found, failed>>

\* The blocklist or the terminal apps file is edited: the same reload.
EditConf ==
  /\ watched_from # Nil /\ ~notified /\ notified' = TRUE
  /\ UNCHANGED <<outside, watched_from, starts, file, memory, step, found, failed>>

\* A `resolve` command ends long before.
ThirtySeconds ==
  /\ recent[Daemon] /\ recent' = [recent EXCEPT ![Daemon] = FALSE]
  /\ UNCHANGED <<outside, watch, starts, file, mapping, fingerprint, miss_counts,
                 step, found, failed>>

----------------------------------------------------------------------------
(* Processes: UidCache::new, and an end at any point.                       *)

Goes(p, s) == step' = [step EXCEPT ![p] = s]

Start(p) ==
  /\ p \in setting.procs /\ step[p] = "off" /\ starts < MaxStarts
  /\ starts' = starts + 1
  /\ Goes(p, "collect")
  /\ UNCHANGED <<outside, watch, file, memory, found, failed>>

Quit(p) ==
  /\ step[p] # "off" /\ Goes(p, "off")
  /\ mapping' = [mapping EXCEPT ![p] = Nothing]
  /\ fingerprint' = [fingerprint EXCEPT ![p] = Nil]
  /\ found' = [found EXCEPT ![p] = Nil]
  /\ miss_counts' = [miss_counts EXCEPT ![p] = [u \in AppUids |-> 0]]
  /\ recent' = [recent EXCEPT ![p] = FALSE]
  /\ watched_from' = IF p = Daemon THEN Nil ELSE watched_from
  /\ notified' = (notified /\ p # Daemon)
  /\ UNCHANGED <<outside, starts, file, failed>>

AddWatch ==
  /\ step[Daemon] = "ready" /\ watched_from = Nil /\ watched_from' = xml
  /\ UNCHANGED <<outside, notified, starts, file, memory, step, found, failed>>

\* The inotify events are read first, the cache reloaded after the batch.
Reload ==
  /\ step[Daemon] = "ready" /\ notified /\ notified' = FALSE
  /\ Goes(Daemon, "collect")
  /\ UNCHANGED <<outside, watched_from, starts, file, memory, found, failed>>

----------------------------------------------------------------------------
(* load_or_refresh.                                                         *)

\* Mutant: the fingerprint is stored before the command has answered.
CollectStoring(p) ==
  /\ step[p] = "collect"
  /\ found' = [found EXCEPT ![p] = xml]
  /\ fingerprint' = [fingerprint EXCEPT ![p] = xml]
  /\ Goes(p, IF file = Nil \/ fingerprint[p] # xml THEN "refresh" ELSE "read")
  /\ UNCHANGED <<outside, watch, starts, file, mapping, miss_counts, recent, failed>>

Collect(p) ==
  /\ step[p] = "collect"
  /\ \E fp \in {xml} \cup (IF "stat" \in setting.faults THEN {Nil} ELSE {}) :
       /\ found' = [found EXCEPT ![p] = fp]
       /\ Goes(p, IF file = Nil \/ fingerprint[p] # fp THEN "refresh" ELSE "read")
  /\ UNCHANGED <<outside, watch, starts, file, memory, failed>>

Fails(fault) == fault \in setting.faults /\ failed' = failed \cup {fault}

(* What a pm command prints: the listing of the moment, or only some of it; *)
(* nobody looks at its exit status.                                         *)
Cut(m) ==
  {[u \in AppUids |-> IF u \in lost THEN Nil ELSE m[u]] : lost \in SUBSET AppUids}

Prints(m) == (m = Listing[pm] /\ UNCHANGED failed) \/ Fails("exit")

(* refresh: the map becomes what was printed and the misses are forgotten;  *)
(* a command that cannot be run changes nothing.                            *)
PmAnswers(p) ==
  /\ \E m \in Cut(Listing[pm]) : Prints(m) /\ mapping' = [mapping EXCEPT ![p] = m]
  /\ miss_counts' = [miss_counts EXCEPT ![p] = [u \in AppUids |-> 0]]

\* Mutant: the map is emptied before the command.
PmFailsEmpty(p) ==
  /\ Fails("pm")
  /\ mapping' = [mapping EXCEPT ![p] = Nothing]
  /\ UNCHANGED miss_counts

PmFails(p) == Fails("pm") /\ UNCHANGED <<mapping, miss_counts>>

Refresh(p) ==
  /\ step[p] = "refresh" /\ Goes(p, "save")
  /\ PmAnswers(p) \/ PmFails(p)
  /\ fingerprint' = [fingerprint EXCEPT ![p] = found[p]]
  /\ UNCHANGED <<outside, watch, starts, file, recent, found>>

(* load_from_file: an empty file empties the map and leaves the fingerprint;*)
(* one that cannot be read leaves both.                                     *)
Read(p) ==
  /\ step[p] = "read" /\ Goes(p, "ready")
  /\ \/ /\ mapping' = [mapping EXCEPT
                          ![p] = IF file = Torn THEN Nothing ELSE file.mapping]
        /\ fingerprint' = [fingerprint EXCEPT
              ![p] = IF file = Torn \/ file.fp = Nil THEN @ ELSE file.fp]
        /\ UNCHANGED failed
     \/ Fails("disk") /\ UNCHANGED <<mapping, fingerprint>>
  /\ UNCHANGED <<outside, watch, starts, file, miss_counts, recent, found>>

\* Mutant: the fingerprint is taken here, after the command.
SaveCollecting(p) ==
  /\ step[p] = "save" /\ Goes(p, "write")
  /\ file' = Torn
  /\ fingerprint' = [fingerprint EXCEPT ![p] = xml]
  /\ UNCHANGED <<outside, watch, starts, mapping, miss_counts, recent, found, failed>>

(* save: fs::write truncates the file, then writes it.  Its result is not   *)
(* looked at: the old file, an empty one or some lines of the new one may   *)
(* be left.  A line cut in two counts as lost.                              *)
Save(p) ==
  /\ step[p] = "save"
  /\ \/ Goes(p, "write") /\ file' = Torn /\ UNCHANGED failed
     \/ Goes(p, "ready") /\ UNCHANGED file /\ Fails("disk")
  /\ UNCHANGED <<outside, watch, starts, memory, found>>

\* Mutant: the inotify events are read when the load is done.
WriteDraining(p) ==
  /\ step[p] = "write" /\ Goes(p, "ready")
  /\ file' = [fp |-> fingerprint[p], mapping |-> mapping[p]]
  /\ notified' = (notified /\ p # Daemon)
  /\ UNCHANGED <<outside, watched_from, starts, memory, found, failed>>

Lines(fp, m) == [fp |-> fp, mapping |-> m]

Write(p) ==
  /\ step[p] = "write" /\ Goes(p, "ready")
  /\ \/ file' = Lines(fingerprint[p], mapping[p]) /\ UNCHANGED failed
     \/ /\ file' \in {Torn} \cup {Lines(fingerprint[p], m) : m \in Cut(mapping[p])}
        /\ Fails("disk")
  /\ UNCHANGED <<outside, watch, starts, memory, found>>

----------------------------------------------------------------------------
(* get_package: known, given up or asked less than 30 s ago, or refreshed   *)
(* and saved.  In each case it returns mapping'[p][u].                      *)

Known(p, u) == mapping[p][u] # Nil

\* Mutant: one miss too many.
GaveUpLate(p, u) == miss_counts[p][u] > 3

GaveUp(p, u) == miss_counts[p][u] >= 3

Answered(p, u) ==
  /\ Known(p, u) \/ GaveUp(p, u) \/ recent[p]
  /\ UNCHANGED <<memory, step, failed>>

\* Mutant: the misses are not forgotten.
MissAnsweredKeeping(p, u) ==
  \E m \in Cut(Listing[pm]) :
    /\ Prints(m) /\ mapping' = [mapping EXCEPT ![p] = m]
    /\ miss_counts' = [miss_counts EXCEPT ![p][u] = IF m[u] = Nil THEN @ + 1 ELSE 0]

MissAnswered(p, u) ==
  \E m \in Cut(Listing[pm]) :
    /\ Prints(m) /\ mapping' = [mapping EXCEPT ![p] = m]
    /\ miss_counts' = [miss_counts EXCEPT
         ![p] = [v \in AppUids |-> IF v = u /\ m[u] = Nil THEN 1 ELSE 0]]

MissFailed(p, u) ==
  /\ Fails("pm")
  /\ miss_counts' = [miss_counts EXCEPT ![p][u] = @ + 1]
  /\ UNCHANGED mapping

Missed(p, u) ==
  /\ ~Known(p, u) /\ ~GaveUp(p, u) /\ ~recent[p]
  /\ MissAnswered(p, u) \/ MissFailed(p, u)
  /\ recent' = [recent EXCEPT ![p] = TRUE]
  /\ Goes(p, "save")
  /\ UNCHANGED fingerprint

GetPackage(p, u) ==
  /\ step[p] = "ready"
  /\ Answered(p, u) \/ Missed(p, u)
  /\ UNCHANGED <<outside, watch, starts, file, found>>

----------------------------------------------------------------------------
CacheWorld == Install \/ WriteXml \/ ThirtySeconds

CacheLoad(p) == Collect(p) \/ Refresh(p) \/ Read(p) \/ Save(p) \/ Write(p)

CacheNext ==
  \/ CacheWorld \/ EditConf
  \/ AddWatch \/ Reload
  \/ \E p \in Procs :
       \/ Start(p) \/ Quit(p) \/ CacheLoad(p)
       \/ \E u \in AppUids : GetPackage(p, u)

CacheSpec == CacheInit /\ [][CacheNext]_cacheVars

----------------------------------------------------------------------------
Alone == setting.procs = {Daemon}

\* A map is not older than the fingerprint that vouches for it.
Fresh(fp, m) == fp # Nil => \E v \in fp..pm : m = Listing[v]

\* While no command and no access to the file has failed, package_cache.txt holds a
\* listing at least as new as the fingerprint in it, whichever processes wrote it
\* and were killed.
FileFresh ==
  failed = {} /\ file \notin {Nil, Torn} => Fresh(file.fp, file.mapping)

\* The same of the daemon's memory, if no other process writes the file: a
\* refresh that a matching fingerprint saves was redundant.
CacheFresh ==
  failed = {} /\ Alone => Fresh(fingerprint[Daemon], mapping[Daemon])

\* While the file can be read and written, a version of packages.xml written since
\* the daemon watches it, and not known to its cache, is about to be: the inotify
\* event is still to come, or a load to finish.  (Unless the last stat failed: an
\* older fingerprint then stands.)
ChangeNoticed ==
  Alone /\ "disk" \notin failed /\ watched_from \notin {Nil, xml}
    /\ found[Daemon] # Nil /\ fingerprint[Daemon] # xml
    => \/ notified \/ step[Daemon] = "collect"
       \/ step[Daemon] = "refresh" /\ found[Daemon] = xml

\* The limit of three misses concerns only a pm command that does not run: one that
\* prints anything, or nothing, forgets every miss but the one that asked.
OnlyFailuresAddUp ==
  "pm" \notin failed => \A p \in Procs, u \in AppUids : miss_counts[p][u] <= 1

\* While the file can be read and written, a UID that the daemon knows is forgotten
\* only by a command: pm lists it no more, or failed while printing, which nobody
\* notices.  A command that does not run forgets nothing, nor does a reload.
KnownStaysKnown ==
  [][\A u \in AppUids :
       Alone /\ "disk" \notin failed'
         /\ Known(Daemon, u) /\ ~Known(Daemon, u)' /\ step'[Daemon] # "off"
         => \/ Listing[pm][u] = Nil
            \/ "exit" \in failed' /\ step'[Daemon] = "save"]_cacheVars
=============================================================================
