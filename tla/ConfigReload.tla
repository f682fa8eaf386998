---------------------------- MODULE ConfigReload ----------------------------
(***************************************************************************)
(* The lists of the daemon and the files behind them: the blocklist and    *)
(* terminal_apps.conf, which the user edits and the daemon creates and     *)
(* rewrites, and the defaults that come from the device's settings.        *)
(* src/src/blocklist.rs, src/src/terminal_apps.rs, and the parts of        *)
(* src/src/daemon.rs that load them, watch them and load them again.       *)
(*                                                                         *)
(* A line of a file is an entry: Matches says which packages it stands     *)
(* for, Removes which entries its '-' form takes from the list.            *)
(***************************************************************************)
EXTENDS Integers, FiniteSets

CONSTANTS
  Entries, Packages, Matches, Removes,
  StaticDefaults,    \* of the blocklist
  TerminalDefaults,  \* of terminal_apps.conf
  MaxVersion,        \* bound: versions of settings and of packages.xml
  Keyboard,          \* version of the settings -> entry of the input method
  Accessibility,     \* version of the settings -> entries of the services
  UserFiles,         \* contents the user gives the blocklist
  TerminalFiles,     \* contents the user gives terminal_apps.conf
  Denied,            \* sets of watches that inotify may refuse
  Faults,            \* what may fail: "command" (cmd settings get), "write" (of a file)
  MaxEdits,          \* bound: edits of files and restarts
  Nil

Versions == 0..MaxVersion
Files    == {"packages", "blocklist", "terminal", "settings"}
Contents == [adds : SUBSET Entries, removals : SUBSET Entries]

ASSUME ReloadConstantsOK ==
  /\ MaxVersion \in Nat /\ MaxEdits \in Nat /\ Faults \subseteq {"command", "write"}
  /\ Matches \in [Entries -> SUBSET Packages]
  /\ Removes \in [Entries -> SUBSET Entries] /\ \A e \in Entries : e \in Removes[e]
  /\ StaticDefaults \subseteq Entries /\ TerminalDefaults \subseteq Entries
  /\ Keyboard \in [Versions -> Entries] /\ Accessibility \in [Versions -> SUBSET Entries]
  /\ UserFiles \subseteq Contents /\ Nil \notin Contents
  /\ TerminalFiles \subseteq SUBSET Entries /\ Nil \notin TerminalFiles \cup {TerminalDefaults}
  /\ Denied \subseteq SUBSET Files

VARIABLES
  \* the device: settings in effect, settings_secure.xml (written later), packages.xml
  settings, xml, pkgs,
  blocklist_file, terminal_file,
  \* inotify: the watches, and the files with an event not yet read
  watched, events,
  \* the daemon: where it is, whether it is starting, its lists and fingerprints
  phase, booting, settings_dirty, cache_fp, settings_fp,
  blocklist_defaults, content, blocklist, terminal_apps,
  \* history: edits, what the user last wrote, what excuses an outdated list
  edits, wanted, lapse

device  == <<settings, xml, pkgs>>
files   == <<blocklist_file, terminal_file>>
lists   == <<blocklist_defaults, content, blocklist, terminal_apps>>
marks   == <<settings_dirty, cache_fp, settings_fp>>
history == <<edits, wanted, lapse>>
vars    == <<device, files, watched, events, phase, booting, marks, lists, history>>

(* "files": edited after the daemon had read them and before it watched     *)
(* them.  "settings": changed likewise, or announced alone, or not answered.*)
(* "race": the blocklist was edited between a read and the write-back.      *)
(* "torn": the write-back truncated the blocklist and then failed.          *)
Lapses == {"files", "settings", "race", "torn"}

ReloadTypeOK ==
  /\ settings \in Versions /\ xml \in 0..settings /\ pkgs \in Versions
  /\ blocklist_file \in Contents \cup {Nil} /\ terminal_file \in {Nil} \cup SUBSET Entries
  /\ watched \subseteq Files /\ events \subseteq watched
  /\ phase \in {"defaults", "services", "read", "write", "terminal", "watch", "idle",
               "packages"}
  /\ booting \in BOOLEAN /\ settings_dirty \in BOOLEAN
  /\ cache_fp \in Versions /\ settings_fp \in Versions \cup {Nil}
  /\ blocklist_defaults \subseteq Entries /\ content \in Contents \cup {Nil}
  /\ blocklist \subseteq Entries /\ terminal_apps \subseteq Entries
  /\ edits \in 0..MaxEdits /\ wanted \in Contents /\ lapse \subseteq Lapses

NoLines == [adds |-> {}, removals |-> {}]
Lines(file) == IF file = Nil THEN NoLines ELSE file

Init ==
  /\ settings = 0 /\ xml = 0 /\ pkgs = 0
  /\ blocklist_file \in UserFiles \cup {Nil} /\ terminal_file \in TerminalFiles \cup {Nil}
  /\ watched = {} /\ events = {}
  /\ phase = "defaults" /\ booting = TRUE
  /\ settings_dirty = FALSE /\ cache_fp = 0 /\ settings_fp = Nil
  /\ blocklist_defaults = {} /\ content = Nil /\ blocklist = {} /\ terminal_apps = {}
  /\ edits = 0 /\ wanted = Lines(blocklist_file) /\ lapse = {}

----------------------------------------------------------------------------
(* The device and the user.                                                 *)

Notify(file) == events' = events \cup ({file} \cap watched)

\* A change while the daemon starts may come after the read, before the watch.
Missed(kind) == IF booting THEN lapse \cup {kind} ELSE lapse

EditBlocklist(file) ==
  /\ edits < MaxEdits /\ edits' = edits + 1
  /\ blocklist_file' = file /\ wanted' = file
  /\ lapse' = Missed("files") \ {"race", "torn"}
  /\ Notify("blocklist")
  /\ UNCHANGED <<device, terminal_file, watched, phase, booting, marks, lists>>

EditTerminal(file) ==
  /\ edits < MaxEdits /\ edits' = edits + 1
  /\ terminal_file' = file
  /\ lapse' = Missed("files")
  /\ Notify("terminal")
  /\ UNCHANGED <<device, blocklist_file, watched, phase, booting, marks, lists, wanted>>

\* The user chooses another keyboard; the settings provider writes its file later.
ChangeSettings ==
  /\ settings < MaxVersion /\ settings' = settings + 1
  /\ UNCHANGED <<xml, pkgs, files, watched, events, phase, booting, marks, lists, history>>

WriteXml ==
  /\ xml < settings /\ xml' = settings
  /\ lapse' = Missed("settings")
  /\ Notify("settings")
  /\ UNCHANGED <<settings, pkgs, files, watched, phase, booting, marks, lists, edits, wanted>>

Install ==
  /\ pkgs < MaxVersion /\ pkgs' = pkgs + 1
  /\ Notify("packages")
  /\ UNCHANGED <<settings, xml, files, watched, phase, booting, marks, lists, history>>

\* Mutant: the new daemon takes over what was announced to the old one.
RestartInheriting ==
  /\ edits < MaxEdits /\ edits' = edits + 1
  /\ phase' = "defaults" /\ booting' = TRUE
  /\ watched' = {} /\ settings_dirty' = FALSE /\ settings_fp' = Nil /\ cache_fp' = pkgs
  /\ lapse' = lapse \cap {"race", "torn"}
  /\ UNCHANGED <<device, files, events, lists, wanted>>

Restart ==
  /\ edits < MaxEdits /\ edits' = edits + 1
  /\ phase' = "defaults" /\ booting' = TRUE
  /\ watched' = {} /\ events' = {}
  /\ settings_dirty' = FALSE /\ settings_fp' = Nil /\ cache_fp' = pkgs
  /\ lapse' = lapse \cap {"race", "torn"}
  /\ UNCHANGED <<device, files, lists, wanted>>

World ==
  \/ \E file \in UserFiles : EditBlocklist(file)
  \/ \E file \in TerminalFiles : EditTerminal(file)
  \/ ChangeSettings \/ WriteXml \/ Install \/ Restart

----------------------------------------------------------------------------
(* resolve_defaults: two commands, each of which may fail, and between      *)
(* which the settings may change.                                           *)

\* Mutant: the keyboard is the one that was read at the last start.
KeyboardKept ==
  /\ phase = "defaults" /\ phase' = "services"
  /\ blocklist_defaults' = IF booting THEN {Keyboard[settings]} ELSE blocklist_defaults
  /\ lapse' = lapse \ {"settings"}
  /\ UNCHANGED <<device, files, watched, events, booting, marks, content, blocklist,
                 terminal_apps, edits, wanted>>

ResolveKeyboard ==
  /\ phase = "defaults" /\ phase' = "services"
  /\ \/ /\ blocklist_defaults' = {Keyboard[settings]}
        /\ lapse' = lapse \ {"settings"}
     \/ /\ "command" \in Faults
        /\ blocklist_defaults' = {} /\ lapse' = lapse \cup {"settings"}
  /\ UNCHANGED <<device, files, watched, events, booting, marks, content, blocklist,
                 terminal_apps, edits, wanted>>

ResolveServices ==
  /\ phase = "services" /\ phase' = "read"
  /\ \/ /\ blocklist_defaults' = blocklist_defaults \cup Accessibility[settings]
        /\ UNCHANGED lapse
     \/ /\ "command" \in Faults
        /\ UNCHANGED blocklist_defaults /\ lapse' = lapse \cup {"settings"}
  /\ settings_fp' = IF ~booting /\ "settings" \in watched THEN xml ELSE settings_fp
  /\ UNCHANGED <<device, files, watched, events, booting, settings_dirty, cache_fp,
                 content, blocklist, terminal_apps, edits, wanted>>

----------------------------------------------------------------------------
(* Blocklist::load_or_create.                                               *)

Taken(removals) == UNION {Removes[r] : r \in removals}

Effective(defaults, file) ==
  (StaticDefaults \cup defaults \cup Lines(file).adds) \ Taken(Lines(file).removals)

ReadBlocklist ==
  /\ phase = "read" /\ phase' = "write"
  /\ content' = blocklist_file
  /\ UNCHANGED <<device, files, watched, events, booting, marks, blocklist_defaults,
                 blocklist, terminal_apps, history>>

\* Mutant: the defaults are written, without the user's additions.
PackedDefaults(list) ==
  [adds |-> list \cap (StaticDefaults \cup blocklist_defaults), removals |-> {}]

Packed(list) == [adds |-> list, removals |-> {}]

(* What is written is the list in force, without a '-' line.  The result is *)
(* ignored: a failed write leaves the file as it was, or truncated.         *)
WriteBack(list) ==
  \/ /\ blocklist_file' = Packed(list)
     /\ lapse' = IF blocklist_file # content THEN lapse \cup {"race"} ELSE lapse
     /\ Notify("blocklist")
  \/ "write" \in Faults /\ UNCHANGED <<blocklist_file, lapse, events>>
  \/ /\ "write" \in Faults
     /\ blocklist_file' = NoLines /\ lapse' = lapse \cup {"torn"}
     /\ Notify("blocklist")

\* Mutant: the file is written after every load.
LoadAlwaysWriting ==
  /\ phase = "write" /\ phase' = "terminal"
  /\ blocklist' = Effective(blocklist_defaults, content)
  /\ WriteBack(blocklist')
  /\ UNCHANGED <<device, terminal_file, watched, booting, marks, blocklist_defaults,
                 content, terminal_apps, edits, wanted>>

LoadBlocklist ==
  /\ phase = "write" /\ phase' = "terminal"
  /\ blocklist' = Effective(blocklist_defaults, content)
  /\ IF blocklist_file = Nil \/ (settings_dirty /\ ~booting)
       THEN WriteBack(blocklist')
       ELSE UNCHANGED <<blocklist_file, lapse, events>>
  /\ UNCHANGED <<device, terminal_file, watched, booting, marks, blocklist_defaults,
                 content, terminal_apps, edits, wanted>>

is_blocked(p) == \E e \in blocklist : p \in Matches[e]

(* TerminalApps::load_or_create.  A missing file is created, which may fail; *)
(* a list without lines is the default one.                                 *)
Created ==
  IF terminal_file # Nil THEN {terminal_file}
  ELSE {TerminalDefaults} \cup IF "write" \in Faults THEN {Nil, {}} ELSE {}

TerminalList(file) == IF file \in {Nil, {}} THEN TerminalDefaults ELSE file

\* Mutant: what has been announced by the end of a reload counts as loaded.
LoadTerminalDraining ==
  /\ phase = "terminal" /\ phase' = IF booting THEN "watch" ELSE "idle"
  /\ terminal_file' \in Created /\ terminal_apps' = TerminalList(terminal_file')
  /\ events' = {} /\ settings_dirty' = FALSE
  /\ UNCHANGED <<device, blocklist_file, watched, booting, cache_fp, settings_fp,
                 blocklist_defaults, content, blocklist, history>>

\* Mutant: a file without lines is written back as it is.
LoadTerminalWriting ==
  /\ phase = "terminal" /\ phase' = IF booting THEN "watch" ELSE "idle"
  /\ terminal_file' \in Created /\ terminal_apps' = TerminalList(terminal_file')
  /\ IF terminal_file \in {Nil, {}} THEN Notify("terminal") ELSE UNCHANGED events
  /\ settings_dirty' = FALSE
  /\ UNCHANGED <<device, blocklist_file, watched, booting, cache_fp, settings_fp,
                 blocklist_defaults, content, blocklist, history>>

LoadTerminal ==
  /\ phase = "terminal" /\ phase' = IF booting THEN "watch" ELSE "idle"
  /\ terminal_file' \in Created /\ terminal_apps' = TerminalList(terminal_file')
  /\ IF terminal_file' # terminal_file THEN Notify("terminal") ELSE UNCHANGED events
  /\ settings_dirty' = FALSE
  /\ UNCHANGED <<device, blocklist_file, watched, booting, cache_fp, settings_fp,
                 blocklist_defaults, content, blocklist, history>>

----------------------------------------------------------------------------
(* run(): the watches, then an iteration per batch of events.               *)

\* A file that could not be created cannot be watched.
Missing == {file \in Files : \/ file = "blocklist" /\ blocklist_file = Nil
                             \/ file = "terminal" /\ terminal_file = Nil}

\* Mutant: what settings_secure.xml looked like at the start is not kept.
AddWatchesOnly ==
  /\ phase = "watch" /\ phase' = "idle"
  /\ booting' = FALSE
  /\ \E denied \in Denied : watched' = Files \ (denied \cup Missing)
  /\ UNCHANGED <<device, files, events, settings_dirty, cache_fp, settings_fp, lists, history>>

AddWatches ==
  /\ phase = "watch" /\ phase' = "idle"
  /\ booting' = FALSE
  /\ \E denied \in Denied :
       /\ watched' = Files \ (denied \cup Missing)
       /\ settings_fp' = IF "settings" \in denied THEN xml ELSE settings_fp
  /\ UNCHANGED <<device, files, events, settings_dirty, cache_fp, lists, history>>

Needed(batch) == batch \cap {"packages", "blocklist", "terminal"} # {}

(* settings_dirty is a local of the iteration: alone, it is forgotten.      *)
TakeEvents ==
  /\ phase = "idle" /\ events # {} /\ events' = {}
  /\ phase' = IF Needed(events) THEN "packages" ELSE "idle"
  /\ settings_dirty' = (Needed(events) /\ "settings" \in events)
  /\ lapse' = IF Needed(events) THEN lapse \ {"files"} ELSE lapse \cup {"settings"}
  /\ UNCHANGED <<device, files, watched, booting, cache_fp, settings_fp, lists, edits, wanted>>

(* cache.load_or_refresh, and the comparison that stands in for a refused   *)
(* watch on settings_secure.xml.                                            *)
RefreshPackages ==
  /\ phase = "packages" /\ cache_fp' = pkgs
  /\ LET stale == /\ ~settings_dirty /\ "settings" \notin watched
                  /\ pkgs # cache_fp /\ xml # settings_fp
     IN /\ settings_dirty' = (settings_dirty \/ stale)
        /\ settings_fp' = IF stale THEN xml ELSE settings_fp
        /\ phase' = IF settings_dirty' THEN "defaults" ELSE "read"
  /\ UNCHANGED <<device, files, watched, events, booting, lists, history>>

Reload == ResolveKeyboard \/ ResolveServices \/ ReadBlocklist \/ LoadBlocklist \/ LoadTerminal

Daemon == Reload \/ AddWatches \/ TakeEvents \/ RefreshPackages

Next == World \/ Daemon

Spec == Init /\ [][Next]_vars

(* One thread, which never waits for anything but an event.                 *)
LiveSpec == Spec /\ WF_vars(Daemon)

----------------------------------------------------------------------------
(* Properties.                                                              *)

\* The daemon waits, and nothing has been announced to it.
Idle == phase = "idle" /\ events = {}

(* Whatever is edited, whenever, an idle daemon that watches both files has *)
(* in force what they say: no edit during a reload is lost, only one in the *)
(* gap between the load in new() and the watches of run().                  *)
InForce ==
  Idle /\ {"blocklist", "terminal"} \subseteq watched /\ "files" \notin lapse =>
    /\ blocklist = Effective(blocklist_defaults, blocklist_file)
    /\ terminal_apps = TerminalList(terminal_file)

(* The keyboard and the accessibility services an idle daemon blocks were   *)
(* read from settings not older than settings_secure.xml, the services from *)
(* the same version as the keyboard or a later one, unless that file's      *)
(* event came alone or a command failed.  Once the settings are written to  *)
(* their file, both are those in effect.                                    *)
DefaultsCurrent ==
  Idle /\ "settings" \in watched /\ "settings" \notin lapse =>
    \E v \in xml..settings : \E w \in v..settings :
       blocklist_defaults = {Keyboard[v]} \cup Accessibility[w]

(* What the user asked to block is blocked, and stays so through rewrites   *)
(* of the file and restarts, unless the daemon's write came just after the  *)
(* user's, or failed.                                                       *)
AdditionsHold ==
  Idle /\ "blocklist" \in watched /\ lapse \cap {"files", "race", "torn"} = {} =>
    \A e \in wanted.adds \ Taken(wanted.removals) : \A p \in Matches[e] : is_blocked(p)

(* What the user asked not to block is not in the list.                     *)
RemovalsHold ==
  Idle /\ "blocklist" \in watched /\ lapse \cap {"files", "race", "torn"} = {} =>
    blocklist \cap Taken(wanted.removals) = {}

(* ... before settings_secure.xml has changed for the first time: whatever  *)
(* packages come and go, and with its watch refused, no reload takes the    *)
(* settings for changed and writes the file back without its '-' lines.     *)
RemovalsHoldAtFirst == xml = 0 => RemovalsHold

(* What is left to do: the rest of this load, and a load for each of the    *)
(* reasons there are for one or for a write that announces itself.          *)
One(reason) == IF reason THEN 1 ELSE 0

Rest ==
  CASE phase = "packages" -> 7 [] phase = "defaults" -> 6 [] phase = "services" -> 5
    [] phase = "read" -> 4 [] phase = "write" -> 3 [] phase = "terminal" -> 2
    [] phase = "watch" -> 1 [] phase = "idle" -> 0

Loads ==
  One(events # {}) + One("settings" \in events)
    + One(settings_dirty /\ phase \in {"packages", "defaults", "services", "read", "write"})
    + One("settings" \notin watched /\ pkgs # cache_fp /\ xml # settings_fp)
    + One(blocklist_file = Nil) + One(terminal_file = Nil)

Work == 8 * Loads + Rest

(* Every step the daemon takes brings it closer to rest, its own writes     *)
(* included: between two steps of the user or the device it loads a bounded *)
(* number of times.                                                         *)
ComesToRest == [][Daemon => Work' < Work]_vars

(* The daemon's own write announces itself, and the reload that follows     *)
(* does not write again: once the user and the device rest, so does it.     *)
Quiesces == <>[]Idle
=============================================================================
