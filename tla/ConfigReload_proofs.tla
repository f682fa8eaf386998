------------------------ MODULE ConfigReload_proofs ------------------------
(***************************************************************************)
(* What the daemon has in force follows its files and the settings, for    *)
(* every set of entries, contents, denied watches and bounds.              *)
(*                                                                         *)
(* An idle daemon is where all loads have ended, so none of the properties *)
(* is inductive: the invariant says, for each point of a load, what is     *)
(* already known to agree with the file.                                   *)
(***************************************************************************)
EXTENDS ConfigReload, TLAPS

\* While the daemon starts it watches nothing; only then does it add watches.
Booted ==
  /\ booting => watched = {} /\ phase \notin {"idle", "packages"}
  /\ phase = "watch" => booting

\* No change of a file has been missed, and none is waiting to be read.
Unannounced(file) == booting \/ file \in watched \ events

BlocklistFollows ==
  "files" \notin lapse /\ Unannounced("blocklist") =>
    /\ phase = "write" => content = blocklist_file
    /\ phase \in {"terminal", "watch", "idle"}
         => blocklist = Effective(blocklist_defaults, blocklist_file)

TerminalsFollow ==
  "files" \notin lapse /\ Unannounced("terminal") =>
    (phase \in {"watch", "idle"} => terminal_apps = TerminalList(terminal_file))

\* The keyboard is that of v and the services are those of w.
Current(v, w) == blocklist_defaults = {Keyboard[v]} \cup Accessibility[w]

\* The defaults are about to be asked for.
Asking == phase = "defaults" \/ (phase = "packages" /\ settings_dirty)

DefaultsFollow ==
  "settings" \notin lapse /\ Unannounced("settings") /\ ~Asking =>
    \E v \in xml..settings :
       IF phase = "services" THEN blocklist_defaults = {Keyboard[v]}
                             ELSE \E w \in v..settings : Current(v, w)

\* What a file asks to block.
Asked(c) == c.adds \ Taken(c.removals)

\* The file still asks for what the user asked.
FileAsks ==
  lapse \cap {"race", "torn"} = {} => Asked(wanted) \subseteq Asked(Lines(blocklist_file))

ReloadInv ==
  ReloadTypeOK /\ Booted /\ BlocklistFollows /\ TerminalsFollow /\ DefaultsFollow /\ FileAsks

----------------------------------------------------------------------------

(* What is assumed of the bounds and of the files' contents.                *)
LEMMA Bounds == MaxVersion \in Nat /\ MaxEdits \in Nat
  BY ReloadConstantsOK DEF ReloadConstantsOK

LEMMA UserWrites == Nil \notin Contents /\ \A file \in UserFiles : file \in Contents
  BY ReloadConstantsOK DEF ReloadConstantsOK

LEMMA TerminalWrites == \A file \in TerminalFiles : file \in SUBSET Entries
  BY ReloadConstantsOK DEF ReloadConstantsOK

LEMMA DefaultLists == StaticDefaults \in SUBSET Entries /\ TerminalDefaults \in SUBSET Entries
  BY ReloadConstantsOK DEF ReloadConstantsOK

(* What the commands answer are entries.                                    *)
LEMMA AnswersEntries ==
  ASSUME settings \in Versions
  PROVE  Keyboard[settings] \in Entries /\ Accessibility[settings] \in SUBSET Entries
  BY ReloadConstantsOK DEF ReloadConstantsOK

(* What is written when the write fails is empty.                           *)
LEMMA EmptyContents == NoLines \in Contents /\ Asked(NoLines) = {}
BY DEF NoLines, Contents, Asked

(* The list computed from a file is a list of entries.                      *)
LEMMA EffectiveEntries ==
  ASSUME NEW defaults \in SUBSET Entries, NEW file \in Contents \cup {Nil}
  PROVE  Effective(defaults, file) \in SUBSET Entries
  BY DefaultLists DEF Effective, Lines, NoLines, Contents

(* A file that asks for no removal, rewritten from the list in force, gives *)
(* the same list: why the first start, which creates the file, has in force *)
(* what it has just written.                                                *)
LEMMA PackedSame ==
  ASSUME NEW defaults \in SUBSET Entries
  PROVE  Effective(defaults, Packed(Effective(defaults, Nil))) = Effective(defaults, Nil)
<1>1. Taken({}) = {}
  BY DEF Taken
<1>2. Packed(Effective(defaults, Nil)) \in Contents
  BY EffectiveEntries DEF Packed, Contents
<1> QED
  BY <1>1, <1>2, UserWrites DEF Effective, Packed, Lines, NoLines

(* The system starts with an empty daemon and whatever files there are.     *)
LEMMA ReloadInit == Init => ReloadInv
<1> SUFFICES ASSUME Init PROVE ReloadInv
  OBVIOUS
<1>1. blocklist_file \in Contents \cup {Nil} /\ wanted \in Contents
  BY UserWrites DEF Init, Lines, NoLines, Contents
<1>2. /\ 0 \in Versions /\ 0 \in 0..MaxEdits
      /\ terminal_file \in {Nil} \cup SUBSET Entries
  <2>1. 0 \in Versions /\ 0 \in 0..MaxEdits
    BY Bounds DEF Versions
  <2>2. CASE terminal_file \in TerminalFiles
    <3>1. terminal_file \in SUBSET Entries
      BY <2>2, TerminalWrites, Zenon
    <3>2. QED
      BY <2>1, <3>1
  <2>3. CASE terminal_file = Nil
    BY <2>1, <2>3
  <2>4. QED
    BY <2>2, <2>3 DEF Init
<1>3. ReloadTypeOK
  <2>1. settings \in Versions /\ xml \in 0..settings /\ pkgs \in Versions
        /\ cache_fp \in Versions /\ edits \in 0..MaxEdits
    BY <1>2 DEF Init
  <2>2. blocklist_defaults \subseteq Entries /\ content \in Contents \cup {Nil}
        /\ blocklist \subseteq Entries /\ terminal_apps \subseteq Entries
    BY DEF Init
  <2>3. watched \subseteq Files /\ events \subseteq watched /\ lapse \subseteq Lapses
        /\ booting \in BOOLEAN /\ settings_dirty \in BOOLEAN
    BY DEF Init
  <2>4. settings_fp = Nil /\ phase = "defaults"
    BY DEF Init
  <2>5. QED
    BY <1>1, <1>2, <2>1, <2>2, <2>3, <2>4 DEF ReloadTypeOK
<1>4. QED
  BY <1>3 DEF Init, ReloadInv, Booted, BlocklistFollows, TerminalsFollow, DefaultsFollow,
              Asking, FileAsks, Asked, Lines

(* Every step keeps the types.                                              *)
LEMMA ReloadTypeStep == ReloadTypeOK /\ Booted /\ [Next]_vars => ReloadTypeOK'
<1> SUFFICES ASSUME ReloadTypeOK, Booted, [Next]_vars PROVE ReloadTypeOK'
  OBVIOUS
<1> USE Bounds
<1> USE DEF ReloadTypeOK, Versions, device, files, lists, marks, history, Notify, Missed,
            Lapses
<1>1. ASSUME NEW file \in UserFiles, EditBlocklist(file) PROVE ReloadTypeOK'
  BY <1>1, UserWrites DEF EditBlocklist, Files
<1>2. ASSUME NEW file \in TerminalFiles, EditTerminal(file) PROVE ReloadTypeOK'
  <2>1. terminal_file' \in {Nil} \cup SUBSET Entries
    BY <1>2, TerminalWrites DEF EditTerminal
  <2>2. QED
    BY <1>2, <2>1 DEF EditTerminal, Files
<1>3. CASE ChangeSettings
  BY <1>3 DEF ChangeSettings
<1>4. CASE WriteXml
  BY <1>4 DEF WriteXml
<1>5. CASE Install
  BY <1>5 DEF Install
<1>6. CASE Restart
  <2>1. watched' = {} /\ events' = {} /\ cache_fp' \in Versions /\ edits' \in 0..MaxEdits
        /\ lapse' \subseteq Lapses /\ settings_fp' = Nil
    BY <1>6 DEF Restart
  <2>2. UNCHANGED <<device, files, lists, wanted>>
    BY <1>6 DEF Restart
  <2>3. booting' = TRUE /\ settings_dirty' = FALSE /\ phase' = "defaults"
    BY <1>6 DEF Restart
  <2>4. QED
    BY <2>1, <2>2, <2>3
<1>7. CASE ResolveKeyboard
  <2>1. blocklist_defaults' \in SUBSET Entries
    BY <1>7, AnswersEntries DEF ResolveKeyboard
  <2>2. QED
    BY <1>7, <2>1 DEF ResolveKeyboard
<1>15. CASE ResolveServices
  <2>1. blocklist_defaults' \in SUBSET Entries
    BY <1>15, AnswersEntries DEF ResolveServices
  <2>2. settings_fp' \in Versions \cup {Nil}
    BY <1>15 DEF ResolveServices
  <2>3. QED
    BY <1>15, <2>1, <2>2 DEF ResolveServices
<1>8. CASE ReadBlocklist
  BY <1>8 DEF ReadBlocklist
<1>9. CASE LoadBlocklist
  <2>1. blocklist' \in SUBSET Entries
    BY <1>9, EffectiveEntries DEF LoadBlocklist
  <2>2. Packed(blocklist') \in Contents
    BY <2>1 DEF Packed, Contents
  <2>3. blocklist_file' \in Contents \cup {Nil} /\ lapse' \subseteq Lapses
        /\ events' \subseteq watched
    <3>1. CASE WriteBack(blocklist')
      BY <3>1, <2>2, EmptyContents DEF WriteBack
    <3>2. CASE UNCHANGED <<blocklist_file, lapse, events>>
      BY <3>2
    <3>3. QED
      BY <1>9, <3>1, <3>2 DEF LoadBlocklist
  <2>4. QED
    BY <1>9, <2>1, <2>3 DEF LoadBlocklist
<1>10. CASE LoadTerminal
  <2>0. terminal_file' \in {Nil} \cup SUBSET Entries
    BY <1>10, DefaultLists DEF LoadTerminal, Created
  <2>1. terminal_apps' \in SUBSET Entries
    BY <1>10, <2>0, DefaultLists DEF LoadTerminal, TerminalList
  <2>2. events' \subseteq watched
    BY <1>10 DEF LoadTerminal
  <2>3. QED
    BY <1>10, <2>0, <2>1, <2>2 DEF LoadTerminal
<1>11. CASE AddWatches
  <2>1. watched' \subseteq Files /\ settings_fp' \in Versions \cup {Nil} /\ events' = events
    BY <1>11 DEF AddWatches
  <2>2. events' \subseteq watched'
    BY <1>11 DEF AddWatches, Booted
  <2>3. QED
    BY <1>11, <2>1, <2>2 DEF AddWatches
<1>12. CASE TakeEvents
  BY <1>12 DEF TakeEvents
<1>13. CASE RefreshPackages
  BY <1>13 DEF RefreshPackages
<1>14. CASE UNCHANGED vars
  BY <1>14 DEF vars
<1>16. QED
  BY <1>1, <1>2, <1>3, <1>4, <1>5, <1>6, <1>7, <1>8, <1>9, <1>10, <1>11, <1>12, <1>13, <1>14,
     <1>15
     DEF Next, World, Daemon, Reload

----------------------------------------------------------------------------
(* The invariant: each action keeps what is known at its point of a load. *)

LEMMA FollowStep ==
  ReloadInv /\ [Next]_vars
    => Booted' /\ BlocklistFollows' /\ TerminalsFollow' /\ DefaultsFollow' /\ FileAsks'
<1> DEFINE Kept == /\ Booted' /\ BlocklistFollows' /\ TerminalsFollow'
                   /\ DefaultsFollow' /\ FileAsks'
<1> SUFFICES ASSUME ReloadInv, [Next]_vars PROVE Kept
  OBVIOUS
<1>0. /\ ReloadTypeOK /\ Booted /\ BlocklistFollows /\ TerminalsFollow
      /\ DefaultsFollow /\ FileAsks
  BY DEF ReloadInv
<1> USE <1>0 DEF ReloadTypeOK, device, files, lists, marks, history, Notify, Missed,
                 Unannounced, Booted, BlocklistFollows, TerminalsFollow
<1>1. ASSUME NEW file \in UserFiles, EditBlocklist(file) PROVE Kept
  <2>1. Booted'
    BY <1>1 DEF EditBlocklist
  <2>2. BlocklistFollows'
    BY <1>1 DEF EditBlocklist
  <2>3. TerminalsFollow'
    BY <1>1 DEF EditBlocklist
  <2>4. DefaultsFollow'
    BY <1>1 DEF EditBlocklist, DefaultsFollow, Current, Asking, Versions
  <2>5. FileAsks'
    BY <1>1, UserWrites DEF EditBlocklist, FileAsks, Lines
  <2>6. QED
    BY <2>1, <2>2, <2>3, <2>4, <2>5
<1>2. ASSUME NEW file \in TerminalFiles, EditTerminal(file) PROVE Kept
  <2>1. Booted'
    BY <1>2 DEF EditTerminal
  <2>2. BlocklistFollows'
    BY <1>2 DEF EditTerminal
  <2>3. TerminalsFollow'
    BY <1>2 DEF EditTerminal
  <2>4. DefaultsFollow'
    BY <1>2 DEF EditTerminal, DefaultsFollow, Current, Asking, Versions
  <2>5. FileAsks'
    BY <1>2 DEF EditTerminal, FileAsks
  <2>6. QED
    BY <2>1, <2>2, <2>3, <2>4, <2>5
<1>3. CASE ChangeSettings
  <2>1. Booted'
    BY <1>3 DEF ChangeSettings
  <2>2. BlocklistFollows'
    BY <1>3 DEF ChangeSettings
  <2>3. TerminalsFollow'
    BY <1>3 DEF ChangeSettings
  <2>4. DefaultsFollow'
    BY <1>3 DEF ChangeSettings, DefaultsFollow, Current, Asking, Versions
  <2>5. FileAsks'
    BY <1>3 DEF ChangeSettings, FileAsks
  <2>6. QED
    BY <2>1, <2>2, <2>3, <2>4, <2>5
<1>4. CASE WriteXml
  <2>1. Booted'
    BY <1>4 DEF WriteXml
  <2>2. BlocklistFollows'
    BY <1>4 DEF WriteXml
  <2>3. TerminalsFollow'
    BY <1>4 DEF WriteXml
  <2>4. DefaultsFollow'
    BY <1>4 DEF WriteXml, DefaultsFollow, Current, Asking, Versions
  <2>5. FileAsks'
    BY <1>4 DEF WriteXml, FileAsks
  <2>6. QED
    BY <2>1, <2>2, <2>3, <2>4, <2>5
<1>5. CASE Install
  <2>1. Booted'
    BY <1>5 DEF Install
  <2>2. BlocklistFollows'
    BY <1>5 DEF Install
  <2>3. TerminalsFollow'
    BY <1>5 DEF Install
  <2>4. DefaultsFollow'
    BY <1>5 DEF Install, DefaultsFollow, Current, Asking, Versions
  <2>5. FileAsks'
    BY <1>5 DEF Install, FileAsks
  <2>6. QED
    BY <2>1, <2>2, <2>3, <2>4, <2>5
<1>6. CASE Restart
  <2>1. Booted'
    BY <1>6 DEF Restart
  <2>2. BlocklistFollows'
    BY <1>6 DEF Restart
  <2>3. TerminalsFollow'
    BY <1>6 DEF Restart
  <2>4. DefaultsFollow'
    BY <1>6 DEF Restart, DefaultsFollow, Current, Asking, Versions
  <2>5. FileAsks'
    BY <1>6 DEF Restart, FileAsks
  <2>6. QED
    BY <2>1, <2>2, <2>3, <2>4, <2>5
<1>7. CASE ResolveKeyboard
  <2>1. Booted' /\ BlocklistFollows' /\ TerminalsFollow'
    BY <1>7 DEF ResolveKeyboard
  <2>2. DefaultsFollow'
    <3>1. "settings" \notin lapse' => blocklist_defaults' = {Keyboard[settings]}
      BY <1>7 DEF ResolveKeyboard
    <3>2. settings \in xml..settings /\ xml' = xml /\ settings' = settings
      BY <1>7 DEF ResolveKeyboard, Versions
    <3>3. phase' = "services"
      BY <1>7 DEF ResolveKeyboard
    <3>4. QED
      BY <3>1, <3>2, <3>3 DEF DefaultsFollow
  <2>3. FileAsks'
    BY <1>7 DEF ResolveKeyboard, FileAsks
  <2>4. QED
    BY <2>1, <2>2, <2>3
<1>15. CASE ResolveServices
  <2>1. Booted' /\ BlocklistFollows' /\ TerminalsFollow'
    BY <1>15 DEF ResolveServices
  <2>2. DefaultsFollow'
    <3>1. SUFFICES ASSUME "settings" \notin lapse', Unannounced("settings")'
                   PROVE  \E v \in xml..settings : \E w \in v..settings :
                             blocklist_defaults' = {Keyboard[v]} \cup Accessibility[w]
      BY <1>15 DEF ResolveServices, DefaultsFollow, Current
    <3>2. "settings" \notin lapse /\ Unannounced("settings") /\ ~Asking
      BY <1>15, <3>1 DEF ResolveServices, Asking
    <3>3. PICK v \in xml..settings : blocklist_defaults = {Keyboard[v]}
      BY <1>15, <3>2 DEF ResolveServices, DefaultsFollow
    <3>4. settings \in v..settings
      BY DEF Versions
    <3>5. blocklist_defaults' = {Keyboard[v]} \cup Accessibility[settings]
      BY <1>15, <3>1, <3>3 DEF ResolveServices
    <3>6. QED
      BY <3>4, <3>5
  <2>3. FileAsks'
    BY <1>15 DEF ResolveServices, FileAsks
  <2>4. QED
    BY <2>1, <2>2, <2>3
<1>8. CASE ReadBlocklist
  <2>1. Booted'
    BY <1>8 DEF ReadBlocklist
  <2>2. BlocklistFollows'
    BY <1>8 DEF ReadBlocklist
  <2>3. TerminalsFollow'
    BY <1>8 DEF ReadBlocklist
  <2>4. DefaultsFollow'
    BY <1>8 DEF ReadBlocklist, DefaultsFollow, Current, Asking, Versions
  <2>5. FileAsks'
    BY <1>8 DEF ReadBlocklist, FileAsks
  <2>6. QED
    BY <2>1, <2>2, <2>3, <2>4, <2>5
<1>9. CASE LoadBlocklist
  <2>0. blocklist' = Effective(blocklist_defaults, content)
    BY <1>9 DEF LoadBlocklist
  <2>1. Booted' /\ TerminalsFollow' /\ DefaultsFollow'
    BY <1>9 DEF LoadBlocklist, WriteBack, DefaultsFollow, Current, Asking
  <2>2. BlocklistFollows'
    <3>1. SUFFICES ASSUME ("files" \notin lapse)', Unannounced("blocklist")'
                   PROVE  blocklist' = Effective(blocklist_defaults, blocklist_file')
      BY <1>9 DEF LoadBlocklist
    <3>2. content = blocklist_file
      BY <1>9, <3>1 DEF LoadBlocklist, WriteBack
    <3>3. CASE blocklist_file = Nil /\ booting
      <4>1. \/ blocklist_file' = Packed(Effective(blocklist_defaults, Nil))
            \/ blocklist_file' = NoLines
            \/ blocklist_file' = Nil
        BY <1>9, <2>0, <3>2, <3>3 DEF LoadBlocklist, WriteBack
      <4>2. Lines(NoLines) = Lines(Nil)
        BY DEF Lines
      <4>3. QED
        BY <2>0, <3>2, <3>3, <4>1, <4>2, PackedSame DEF Effective
    <3>4. CASE ~(blocklist_file = Nil \/ (settings_dirty /\ ~booting))
      BY <1>9, <2>0, <3>2, <3>4 DEF LoadBlocklist
    <3>5. CASE ~booting /\ (blocklist_file = Nil \/ settings_dirty)
      <4>1. "blocklist" \in watched' \ events'
        BY <1>9, <3>1, <3>5 DEF LoadBlocklist
      <4>2. UNCHANGED blocklist_file
        BY <1>9, <3>5, <4>1 DEF LoadBlocklist, WriteBack
      <4>3. QED
        BY <2>0, <3>2, <4>2
    <3>6. QED
      BY <3>3, <3>4, <3>5
  <2>3. FileAsks'
    <3>1. CASE UNCHANGED <<blocklist_file, lapse>>
      BY <1>9, <3>1 DEF LoadBlocklist, FileAsks
    <3>2. CASE WriteBack(blocklist')
      <4>1. SUFFICES ASSUME (lapse \cap {"race", "torn"} = {})'
                     PROVE  Asked(wanted) \subseteq Asked(Lines(blocklist_file'))
        BY <1>9 DEF LoadBlocklist, FileAsks
      <4>2. CASE UNCHANGED <<blocklist_file, lapse>>
        BY <4>1, <4>2 DEF FileAsks
      <4>3. CASE /\ blocklist_file' = Packed(blocklist')
                 /\ lapse' = IF blocklist_file # content THEN lapse \cup {"race"} ELSE lapse
        <5>1. Packed(blocklist') \in Contents
          BY <2>0, EffectiveEntries DEF Packed, Contents
        <5>2. Lines(blocklist_file') = Packed(blocklist')
          BY <4>3, <5>1, UserWrites DEF Lines
        <5>3. lapse \cap {"race", "torn"} = {} /\ content = blocklist_file
          BY <4>1, <4>3
        <5>4. Asked(wanted) \subseteq Asked(Lines(content))
          BY <5>3 DEF FileAsks
        <5>5. Asked(Lines(content)) \subseteq blocklist'
          BY <2>0 DEF Asked, Effective
        <5>6. Asked(Packed(blocklist')) = blocklist'
          BY DEF Asked, Packed, Taken
        <5>7. QED
          BY <5>2, <5>4, <5>5, <5>6
      <4>4. QED
        BY <3>2, <4>1, <4>2, <4>3 DEF WriteBack
    <3>3. QED
      BY <1>9, <3>1, <3>2 DEF LoadBlocklist
  <2>4. QED
    BY <2>1, <2>2, <2>3
<1>10. CASE LoadTerminal
  <2>1. Booted'
    BY <1>10 DEF LoadTerminal
  <2>2. BlocklistFollows'
    BY <1>10 DEF LoadTerminal
  <2>3. TerminalsFollow'
    BY <1>10 DEF LoadTerminal
  <2>4. DefaultsFollow'
    BY <1>10 DEF LoadTerminal, DefaultsFollow, Current, Asking, Versions
  <2>5. FileAsks'
    BY <1>10 DEF LoadTerminal, FileAsks
  <2>6. QED
    BY <2>1, <2>2, <2>3, <2>4, <2>5
<1>11. CASE AddWatches
  <2>1. Booted'
    BY <1>11 DEF AddWatches
  <2>2. BlocklistFollows'
    BY <1>11 DEF AddWatches
  <2>3. TerminalsFollow'
    BY <1>11 DEF AddWatches
  <2>4. DefaultsFollow'
    BY <1>11 DEF AddWatches, DefaultsFollow, Current, Asking, Versions
  <2>5. FileAsks'
    BY <1>11 DEF AddWatches, FileAsks
  <2>6. QED
    BY <2>1, <2>2, <2>3, <2>4, <2>5
<1>12. CASE TakeEvents
  <2>1. Booted'
    BY <1>12 DEF TakeEvents
  <2>2. BlocklistFollows'
    BY <1>12 DEF TakeEvents, Needed
  <2>3. TerminalsFollow'
    BY <1>12 DEF TakeEvents, Needed
  <2>4. DefaultsFollow'
    BY <1>12 DEF TakeEvents, DefaultsFollow, Current, Asking, Versions
  <2>5. FileAsks'
    BY <1>12 DEF TakeEvents, FileAsks
  <2>6. QED
    BY <2>1, <2>2, <2>3, <2>4, <2>5
<1>13. CASE RefreshPackages
  <2>1. Booted'
    BY <1>13 DEF RefreshPackages
  <2>2. BlocklistFollows'
    BY <1>13 DEF RefreshPackages
  <2>3. TerminalsFollow'
    BY <1>13 DEF RefreshPackages
  <2>4. DefaultsFollow'
    BY <1>13 DEF RefreshPackages, DefaultsFollow, Current, Asking, Versions
  <2>5. FileAsks'
    BY <1>13 DEF RefreshPackages, FileAsks
  <2>6. QED
    BY <2>1, <2>2, <2>3, <2>4, <2>5
<1>14. CASE UNCHANGED vars
  BY <1>14 DEF vars, DefaultsFollow, Current, Asking, FileAsks
<1>16. QED
  BY <1>1, <1>2, <1>3, <1>4, <1>5, <1>6, <1>7, <1>8, <1>9, <1>10, <1>11, <1>12, <1>13, <1>14,
     <1>15
     DEF Next, World, Daemon, Reload

(* The invariant of every behaviour.                                        *)
LEMMA ReloadInvariant == Spec => []ReloadInv
<1>1. Init => ReloadInv
  BY ReloadInit
<1>2. ReloadInv /\ [Next]_vars => ReloadInv'
  BY ReloadTypeStep, FollowStep DEF ReloadInv
<1>3. QED
  BY <1>1, <1>2, PTL DEF Spec

(* The type invariant of the daemon, its files and its world.               *)
THEOREM ReloadTypeCorrect == Spec => []ReloadTypeOK
<1>1. ReloadInv => ReloadTypeOK
  BY DEF ReloadInv
<1>2. QED
  BY <1>1, ReloadInvariant, PTL

(* An idle daemon has in force what the files say (daemon.rs:263-286),      *)
(* whatever is edited while it loads them.                                  *)
THEOREM FilesAreInForce == Spec => []InForce
<1>1. ReloadInv => InForce
  BY DEF ReloadInv, InForce, Idle, BlocklistFollows, TerminalsFollow, Unannounced
<1>2. QED
  BY <1>1, ReloadInvariant, PTL

(* Its defaults were read from settings not older than their file, the      *)
(* services (blocklist.rs:140) never before the keyboard (blocklist.rs:133).*)
THEOREM DefaultsAreCurrent == Spec => []DefaultsCurrent
<1>1. ReloadInv => DefaultsCurrent
  BY DEF ReloadInv, DefaultsCurrent, Idle, DefaultsFollow, Unannounced, Asking, Current
<1>2. QED
  BY <1>1, ReloadInvariant, PTL

(* What the user asked to block stays blocked, through the daemon's         *)
(* rewrites of the file (blocklist.rs:88-97) and through restarts.          *)
THEOREM AdditionsSurvive == Spec => []AdditionsHold
<1>1. ReloadInv => AdditionsHold
  <2>1. SUFFICES ASSUME ReloadInv, Idle, "blocklist" \in watched,
                        lapse \cap {"files", "race", "torn"} = {},
                        NEW e \in wanted.adds \ Taken(wanted.removals), NEW p \in Matches[e]
                 PROVE  is_blocked(p)
    BY DEF AdditionsHold
  <2>2. blocklist = Effective(blocklist_defaults, blocklist_file)
    BY <2>1 DEF ReloadInv, BlocklistFollows, Unannounced, Idle
  <2>3. e \in Asked(Lines(blocklist_file))
    BY <2>1 DEF ReloadInv, FileAsks, Asked
  <2>4. e \in blocklist
    BY <2>2, <2>3 DEF Asked, Effective
  <2>5. QED
    BY <2>1, <2>4 DEF is_blocked
<1>2. QED
  BY <1>1, ReloadInvariant, PTL

----------------------------------------------------------------------------
(* Before settings_secure.xml changes, nothing makes the daemon write the   *)
(* user's file back, so it asks for the removals that the user asked for.   *)
SettingsUntouched ==
  xml = 0 =>
    /\ "settings" \notin events /\ ~settings_dirty /\ settings_fp \in {Nil, 0}
    /\ ~booting /\ "settings" \notin watched => settings_fp = 0

FileRemoves ==
  /\ blocklist_file = Nil => wanted = NoLines
  /\ xml = 0 => Lines(blocklist_file).removals = wanted.removals

FirstInv == ReloadInv /\ SettingsUntouched /\ FileRemoves

LEMMA FirstInit == Init => SettingsUntouched /\ FileRemoves
BY DEF Init, SettingsUntouched, FileRemoves, Lines

LEMMA SettingsUntouchedStep ==
  ASSUME ReloadInv, SettingsUntouched, [Next]_vars
  PROVE  SettingsUntouched'
<1>0. ReloadTypeOK /\ Booted
  BY DEF ReloadInv
<1> USE <1>0 DEF SettingsUntouched, device, files, lists, marks, history, Notify
<1>1. ASSUME \/ \E file \in UserFiles : EditBlocklist(file)
             \/ \E file \in TerminalFiles : EditTerminal(file)
      PROVE  SettingsUntouched'
  BY <1>1 DEF EditBlocklist, EditTerminal
<1>2. CASE ChangeSettings \/ Install \/ Restart
  BY <1>2 DEF ChangeSettings, Install, Restart
<1>3. CASE WriteXml
  <2>1. xml' # 0
    BY <1>3 DEF WriteXml, ReloadTypeOK, Versions
  <2>2. QED
    BY <2>1
<1>4. CASE ResolveKeyboard \/ ResolveServices \/ ReadBlocklist
  BY <1>4 DEF ResolveKeyboard, ResolveServices, ReadBlocklist
<1>5. CASE LoadBlocklist \/ LoadTerminal
  BY <1>5 DEF LoadBlocklist, WriteBack, LoadTerminal
<1>6. CASE AddWatches
  BY <1>6 DEF AddWatches, Booted, Files, Missing
<1>7. CASE TakeEvents
  BY <1>7 DEF TakeEvents
<1>8. CASE RefreshPackages
  BY <1>8 DEF RefreshPackages, Booted
<1>9. CASE UNCHANGED vars
  BY <1>9 DEF vars
<1>10. QED
  BY <1>1, <1>2, <1>3, <1>4, <1>5, <1>6, <1>7, <1>8, <1>9 DEF Next, World, Daemon, Reload

LEMMA FileRemovesStep ==
  ASSUME ReloadInv, SettingsUntouched, FileRemoves, [Next]_vars
  PROVE  FileRemoves'
<1>0. ReloadTypeOK
  BY DEF ReloadInv
<1> USE <1>0 DEF FileRemoves, device, files, lists, marks, history
<1>1. ASSUME NEW file \in UserFiles, EditBlocklist(file) PROVE FileRemoves'
  BY <1>1, UserWrites DEF EditBlocklist, Lines
<1>2. CASE WriteXml
  <2>1. xml' # 0
    BY <1>2 DEF WriteXml, ReloadTypeOK, Versions
  <2>2. QED
    BY <1>2, <2>1 DEF WriteXml
<1>3. CASE LoadBlocklist
  <2>1. wanted' = wanted /\ xml' = xml
    BY <1>3 DEF LoadBlocklist, WriteBack
  <2>2. CASE blocklist_file' = blocklist_file
    BY <2>1, <2>2 DEF Lines
  <2>3. CASE blocklist_file' \in {Packed(blocklist'), NoLines}
    <3>1. blocklist' \in SUBSET Entries
      BY <1>3, EffectiveEntries DEF LoadBlocklist, ReloadTypeOK
    <3>2. /\ Packed(blocklist') \in Contents /\ Packed(blocklist').removals = {}
          /\ NoLines \in Contents /\ NoLines.removals = {}
      BY <3>1 DEF Packed, Contents, NoLines
    <3>3. blocklist_file' # Nil /\ Lines(blocklist_file').removals = {}
      BY <2>3, <3>2, UserWrites DEF Lines
    <3>4. xml = 0 => blocklist_file = Nil \/ blocklist_file' = blocklist_file
      BY <1>3 DEF LoadBlocklist, SettingsUntouched
    <3>5. QED
      BY <2>1, <2>2, <3>3, <3>4 DEF NoLines
  <2>4. QED
    BY <1>3, <2>2, <2>3 DEF LoadBlocklist, WriteBack
<1>4. ASSUME UNCHANGED <<blocklist_file, wanted, xml>> PROVE FileRemoves'
  BY <1>4 DEF Lines
<1>5. ASSUME [Next]_vars, ~(\E file \in UserFiles : EditBlocklist(file)), ~WriteXml,
             ~LoadBlocklist
      PROVE  UNCHANGED <<blocklist_file, wanted, xml>>
  BY <1>5 DEF Next, World, Daemon, Reload, EditTerminal, ChangeSettings, Install, Restart,
              ResolveKeyboard, ResolveServices, ReadBlocklist, LoadTerminal, AddWatches,
              TakeEvents, RefreshPackages, vars
<1>6. QED
  BY <1>1, <1>2, <1>3, <1>4, <1>5

(* A '-' line of the user's works as long as settings_secure.xml is the one *)
(* of the first start, whatever else is reloaded (blocklist.rs:88-97).      *)
THEOREM RemovalsHoldAtStart == Spec => []RemovalsHoldAtFirst
<1>1. Init => FirstInv
  BY ReloadInit, FirstInit DEF FirstInv
<1>2. FirstInv /\ [Next]_vars => FirstInv'
  BY ReloadTypeStep, FollowStep, SettingsUntouchedStep, FileRemovesStep DEF FirstInv, ReloadInv
<1>3. FirstInv => RemovalsHoldAtFirst
  <2>1. SUFFICES ASSUME FirstInv, xml = 0, Idle, "blocklist" \in watched,
                        lapse \cap {"files", "race", "torn"} = {}
                 PROVE  blocklist \cap Taken(wanted.removals) = {}
    BY DEF RemovalsHoldAtFirst, RemovalsHold
  <2>2. blocklist = Effective(blocklist_defaults, blocklist_file)
    BY <2>1 DEF FirstInv, ReloadInv, BlocklistFollows, Unannounced, Idle
  <2>3. Lines(blocklist_file).removals = wanted.removals
    BY <2>1 DEF FirstInv, FileRemoves
  <2>4. QED
    BY <2>2, <2>3 DEF Effective
<1>4. QED
  BY <1>1, <1>2, <1>3, PTL DEF Spec

----------------------------------------------------------------------------
(* The daemon comes to rest: each of its own steps lowers Work.             *)

\* A daemon that starts has no settings to write down.
StartsClean == booting => ~settings_dirty

LEMMA StartsCleanStep ==
  ASSUME ReloadInv, StartsClean, [Next]_vars
  PROVE  StartsClean'
BY DEF StartsClean, ReloadInv, Booted, Next, World, Daemon, Reload, EditBlocklist,
       EditTerminal, ChangeSettings, WriteXml, Install, Restart, ResolveKeyboard,
       ResolveServices, ReadBlocklist, LoadBlocklist, LoadTerminal, AddWatches, TakeEvents,
       RefreshPackages, vars, marks

(* The reasons that Loads adds up, by name.                                 *)
HasEvents    == One(events # {})
Announced    == One("settings" \in events)
ToWriteDown  ==
  One(settings_dirty /\ phase \in {"packages", "defaults", "services", "read", "write"})
Stale        == One("settings" \notin watched /\ pkgs # cache_fp /\ xml # settings_fp)
NoBlocklist  == One(blocklist_file = Nil)
NoTerminals  == One(terminal_file = Nil)

LEMMA LoadsAre ==
  /\ Loads = HasEvents + Announced + ToWriteDown + Stale + NoBlocklist + NoTerminals
  /\ Loads' = HasEvents' + Announced' + ToWriteDown' + Stale' + NoBlocklist' + NoTerminals'
BY DEF Loads, HasEvents, Announced, ToWriteDown, Stale, NoBlocklist, NoTerminals

LEMMA ReasonsAre ==
  /\ HasEvents \in 0..1 /\ Announced \in 0..1 /\ ToWriteDown \in 0..1
  /\ Stale \in 0..1 /\ NoBlocklist \in 0..1 /\ NoTerminals \in 0..1
  /\ HasEvents' \in 0..1 /\ Announced' \in 0..1 /\ ToWriteDown' \in 0..1
  /\ Stale' \in 0..1 /\ NoBlocklist' \in 0..1 /\ NoTerminals' \in 0..1
BY DEF One, HasEvents, Announced, ToWriteDown, Stale, NoBlocklist, NoTerminals

LEMMA SixReasons ==
  ASSUME NEW a \in 0..1, NEW b \in 0..1, NEW c \in 0..1,
         NEW d \in 0..1, NEW e \in 0..1, NEW f \in 0..1
  PROVE  a + b + c + d + e + f \in 0..6
OBVIOUS

LEMMA WorkIsCounted == ReloadTypeOK => Loads \in 0..6 /\ Rest \in 0..7 /\ Work \in 0..55
<1> SUFFICES ASSUME ReloadTypeOK PROVE Loads \in 0..6 /\ Rest \in 0..7 /\ Work \in 0..55
  OBVIOUS
<1>1. Loads \in 0..6
  BY LoadsAre, ReasonsAre, SixReasons
<1>2. Rest \in 0..7
  BY DEF ReloadTypeOK, Rest
<1>3. QED
  BY <1>1, <1>2 DEF Work

(* Before and after a step: h for HasEvents, a for Announced, w for         *)
(* ToWriteDown, s for Stale, b for NoBlocklist, t for NoTerminals.          *)
LEMMA NotMoreReasons ==
  ASSUME NEW h \in 0..1, NEW a \in 0..1, NEW w \in 0..1,
         NEW s \in 0..1, NEW b \in 0..1, NEW t \in 0..1,
         NEW hh \in 0..1, NEW aa \in 0..1, NEW ww \in 0..1,
         NEW ss \in 0..1, NEW bb \in 0..1, NEW tt \in 0..1,
         \/ hh + bb <= h + b + w /\ ww = 0 /\ aa = a /\ ss = s /\ tt = t
         \/ hh + tt <= h + t /\ ww = 0 /\ aa = a /\ ss = s /\ bb = b
         \/ ww <= w + s /\ ss = 0 /\ hh = h /\ aa = a /\ bb = b /\ tt = t
  PROVE  hh + aa + ww + ss + bb + tt <= h + a + w + s + b + t
OBVIOUS

LEMMA FewerReasons ==
  ASSUME NEW a \in 0..1, NEW w \in 0..1, NEW s \in 0..1, NEW b \in 0..1, NEW t \in 0..1,
         NEW ww \in 0..1, ww <= a
  PROVE  0 + 0 + ww + s + b + t < 1 + a + w + s + b + t
OBVIOUS

\* A file that was missing is there, a write that was due is done.
LEMMA FileCreated ==
  ASSUME NEW h \in 0..1, NEW hh \in 0..1, NEW b \in 0..1, NEW w \in 0..1
  PROVE  /\ b + w >= 1 => hh + 0 <= h + b + w
         /\ hh + 0 <= h + 1
OBVIOUS

LEMMA OneOf ==
  ASSUME NEW x \in BOOLEAN, NEW y \in BOOLEAN, NEW z \in BOOLEAN
  PROVE  /\ (x => y) => One(x) <= One(y)
         /\ (x => y \/ z) => One(x) <= One(y) + One(z)
         /\ (x \/ y) => One(x) + One(y) >= 1
BY DEF One

(* One step further in a load that no new reason joins.                     *)
LEMMA OneStepLess ==
  ASSUME NEW l \in Nat, NEW m \in Nat, NEW r \in 0..7, NEW q \in 0..7,
         m <= l, q < r
  PROVE  8 * m + q < 8 * l + r
OBVIOUS

LEMMA OneLoadLess ==
  ASSUME NEW l \in Nat, NEW m \in Nat, NEW r \in 0..7, NEW q \in 0..7, m < l
  PROVE  8 * m + q < 8 * l + r
OBVIOUS

LEMMA StepOn ==
  ASSUME Loads \in Nat, Loads' \in Nat, Rest \in 0..7, Rest' \in 0..7,
         (Loads' <= Loads /\ Rest' < Rest) \/ Loads' < Loads
  PROVE  Work' < Work
<1>1. CASE Loads' <= Loads /\ Rest' < Rest
  BY <1>1, OneStepLess DEF Work
<1>2. CASE Loads' < Loads
  BY <1>2, OneLoadLess DEF Work
<1>3. QED
  BY <1>1, <1>2

LEMMA LessWork ==
  ASSUME ReloadInv, StartsClean, Daemon, ReloadTypeOK'
  PROVE  Work' < Work
<1>0. /\ ReloadTypeOK /\ Booted
      /\ Loads \in Nat /\ Loads' \in Nat /\ Rest \in 0..7 /\ Rest' \in 0..7
  <2>1. Loads \in 0..6 /\ Rest \in 0..7
    BY WorkIsCounted DEF ReloadInv
  <2>2. Rest' \in 0..7
    BY DEF ReloadTypeOK, Rest
  <2>3. Loads' \in 0..6
    BY LoadsAre, ReasonsAre, SixReasons
  <2>4. QED
    BY <2>1, <2>2, <2>3 DEF ReloadInv
<1>1. CASE ResolveKeyboard
  <2>1. Rest = 6 /\ Rest' = 5
    BY <1>1 DEF ResolveKeyboard, Rest
  <2>2. /\ HasEvents' = HasEvents /\ Announced' = Announced /\ ToWriteDown' = ToWriteDown
        /\ Stale' = Stale /\ NoBlocklist' = NoBlocklist /\ NoTerminals' = NoTerminals
    BY <1>1 DEF ResolveKeyboard, HasEvents, Announced, ToWriteDown, Stale, NoBlocklist,
                NoTerminals, device, files, marks
  <2>3. QED
    BY <1>0, <2>1, <2>2, LoadsAre, ReasonsAre, StepOn
<1>9. CASE ResolveServices
  <2>1. Rest = 5 /\ Rest' = 4
    BY <1>9 DEF ResolveServices, Rest
  <2>2. /\ HasEvents' = HasEvents /\ Announced' = Announced /\ ToWriteDown' = ToWriteDown
        /\ Stale' = Stale /\ NoBlocklist' = NoBlocklist /\ NoTerminals' = NoTerminals
    BY <1>9 DEF ResolveServices, HasEvents, Announced, ToWriteDown, Stale, NoBlocklist,
                NoTerminals, device, files
  <2>3. QED
    BY <1>0, <2>1, <2>2, LoadsAre, ReasonsAre, StepOn
<1>2. CASE ReadBlocklist
  <2>1. Rest = 4 /\ Rest' = 3
    BY <1>2 DEF ReadBlocklist, Rest
  <2>2. /\ HasEvents' = HasEvents /\ Announced' = Announced /\ ToWriteDown' = ToWriteDown
        /\ Stale' = Stale /\ NoBlocklist' = NoBlocklist /\ NoTerminals' = NoTerminals
    BY <1>2 DEF ReadBlocklist, HasEvents, Announced, ToWriteDown, Stale, NoBlocklist,
                NoTerminals, device, files, marks
  <2>3. QED
    BY <1>0, <2>1, <2>2, LoadsAre, ReasonsAre, StepOn
<1>3. CASE LoadBlocklist
  <2>1. Rest = 3 /\ Rest' = 2
    BY <1>3 DEF LoadBlocklist, Rest
  <2>2. /\ Announced' = Announced /\ Stale' = Stale /\ NoTerminals' = NoTerminals
        /\ ToWriteDown' = 0
    BY <1>3 DEF LoadBlocklist, WriteBack, Notify, Announced, ToWriteDown, Stale, NoTerminals,
                One, device, marks
  <2>3. HasEvents' + NoBlocklist' <= HasEvents + NoBlocklist + ToWriteDown
    <3>1. CASE UNCHANGED <<blocklist_file, events>>
      <4>1. HasEvents' = HasEvents /\ NoBlocklist' = NoBlocklist
        BY <3>1 DEF HasEvents, NoBlocklist
      <4>2. QED
        BY <4>1, ReasonsAre
    <3>2. CASE /\ blocklist_file' \in {Packed(blocklist'), NoLines}
               /\ blocklist_file = Nil \/ (settings_dirty /\ ~booting)
      <4>1. blocklist_file' # Nil
        <5>1. blocklist' \in SUBSET Entries
          BY <1>0, <1>3, EffectiveEntries DEF LoadBlocklist, ReloadTypeOK
        <5>2. Packed(blocklist') \in Contents
          BY <5>1 DEF Packed, Contents
        <5>3. QED
          BY <3>2, <5>2, UserWrites, EmptyContents
      <4>2. NoBlocklist' = 0
        BY <4>1 DEF NoBlocklist, One
      <4>3. NoBlocklist + ToWriteDown >= 1
        BY <1>3, <3>2, OneOf DEF LoadBlocklist, NoBlocklist, ToWriteDown
      <4>4. QED
        BY <4>2, <4>3, ReasonsAre, FileCreated
    <3>3. QED
      BY <1>3, <3>1, <3>2 DEF LoadBlocklist, WriteBack
  <2>4. Loads' <= Loads
    BY ZenonT(40), <2>2, <2>3, LoadsAre, ReasonsAre, NotMoreReasons
  <2>5. QED
    BY <1>0, <2>1, <2>4, StepOn
<1>4. CASE LoadTerminal
  <2>1. Rest = 2 /\ Rest' \in {0, 1}
    BY <1>4 DEF LoadTerminal, Rest
  <2>2. /\ Announced' = Announced /\ Stale' = Stale /\ NoBlocklist' = NoBlocklist
        /\ ToWriteDown' = 0
    BY <1>4 DEF LoadTerminal, Notify, Announced, ToWriteDown, Stale, NoBlocklist, One, device
  <2>3. HasEvents' + NoTerminals' <= HasEvents + NoTerminals
    <3>1. CASE terminal_file' = terminal_file
      <4>1. HasEvents' = HasEvents /\ NoTerminals' = NoTerminals
        BY <1>4, <3>1 DEF LoadTerminal, HasEvents, NoTerminals
      <4>2. QED
        BY <4>1, ReasonsAre
    <3>2. CASE terminal_file' # terminal_file
      <4>1. terminal_file = Nil /\ terminal_file' # Nil
        BY <1>4, <3>2 DEF LoadTerminal, Created
      <4>2. NoTerminals = 1 /\ NoTerminals' = 0
        BY <4>1 DEF NoTerminals, One
      <4>3. QED
        BY <4>2, ReasonsAre, FileCreated
    <3>3. QED
      BY <3>1, <3>2
  <2>4. Loads' <= Loads
    BY ZenonT(40), <2>2, <2>3, LoadsAre, ReasonsAre, NotMoreReasons
  <2>5. QED
    BY <1>0, <2>1, <2>4, StepOn
<1>5. CASE AddWatches
  <2>1. Rest = 1 /\ Rest' = 0
    BY <1>5 DEF AddWatches, Rest
  <2>2. /\ HasEvents' = HasEvents /\ Announced' = Announced
        /\ NoBlocklist' = NoBlocklist /\ NoTerminals' = NoTerminals
    BY <1>5 DEF AddWatches, HasEvents, Announced, NoBlocklist, NoTerminals, files
  <2>3. ToWriteDown' = 0 /\ Stale' = 0
    BY <1>5 DEF AddWatches, ToWriteDown, Stale, Missing, One, device, Files
  <2>4. Loads' <= Loads
    BY <2>2, <2>3, LoadsAre, ReasonsAre
  <2>5. QED
    BY <1>0, <2>1, <2>4, StepOn
<1>6. CASE TakeEvents
  <2>1. HasEvents = 1 /\ HasEvents' = 0 /\ Announced' = 0
    BY <1>6 DEF TakeEvents, HasEvents, Announced, One
  <2>2. Stale' = Stale /\ NoBlocklist' = NoBlocklist /\ NoTerminals' = NoTerminals
    BY <1>6 DEF TakeEvents, Stale, NoBlocklist, NoTerminals, device, files
  <2>3. ToWriteDown' <= Announced
    <3>1. settings_dirty' => "settings" \in events
      BY <1>6 DEF TakeEvents
    <3>2. CASE "settings" \in events
      <4>1. Announced = 1
        BY <3>2 DEF Announced, One
      <4>2. QED
        BY <4>1, ReasonsAre
    <3>3. CASE "settings" \notin events
      <4>1. ToWriteDown' = 0
        BY <3>1, <3>3 DEF ToWriteDown, One
      <4>2. QED
        BY <4>1, ReasonsAre
    <3>4. QED
      BY <3>2, <3>3
  <2>4. Loads' < Loads
    BY <2>1, <2>2, <2>3, LoadsAre, ReasonsAre, FewerReasons
  <2>5. QED
    BY <1>0, <2>4, StepOn
<1>7. CASE RefreshPackages
  <2>1. Rest = 7 /\ Rest' \in {4, 6}
    BY <1>7 DEF RefreshPackages, Rest
  <2>2. /\ HasEvents' = HasEvents /\ Announced' = Announced
        /\ NoBlocklist' = NoBlocklist /\ NoTerminals' = NoTerminals
    BY <1>7 DEF RefreshPackages, HasEvents, Announced, NoBlocklist, NoTerminals, files
  <2>3. Stale' = 0
    BY <1>7 DEF RefreshPackages, Stale, One, device
  <2>4. ToWriteDown' <= ToWriteDown + Stale
    <3>1. settings_dirty' => \/ settings_dirty /\ phase = "packages"
                             \/ "settings" \notin watched /\ pkgs # cache_fp /\ xml # settings_fp
      BY <1>7 DEF RefreshPackages
    <3>2. QED
      BY <3>1, OneOf DEF ToWriteDown, Stale
  <2>5. Loads' <= Loads
    BY ZenonT(40), <2>2, <2>3, <2>4, LoadsAre, ReasonsAre, NotMoreReasons
  <2>6. QED
    BY <1>0, <2>1, <2>5, StepOn
<1>8. QED
  BY <1>1, <1>2, <1>3, <1>4, <1>5, <1>6, <1>7, <1>9 DEF Daemon, Reload

(* The daemon's own steps cannot go on for ever: at most 55 of them, its    *)
(* write-backs and the loads these cause included, lie between two steps of *)
(* the user or the device (daemon.rs:182, 263-286, blocklist.rs:88-97).     *)
THEOREM EveryLoadEnds == Spec => ComesToRest /\ [](Work \in 0..55)
<1> DEFINE Inv == ReloadInv /\ StartsClean
<1>1. Init => Inv
  BY ReloadInit DEF StartsClean, Init
<1>2. Inv /\ [Next]_vars => Inv'
  BY ReloadTypeStep, FollowStep, StartsCleanStep DEF ReloadInv
<1>3. Inv /\ Inv' /\ [Next]_vars => [Daemon => Work' < Work]_vars
  BY LessWork DEF ReloadInv
<1>4. Inv => Work \in 0..55
  BY WorkIsCounted DEF ReloadInv
<1> HIDE DEF Inv
<1>5. QED
  BY <1>1, <1>2, <1>3, <1>4, PTL DEF Spec, ComesToRest

=============================================================================
