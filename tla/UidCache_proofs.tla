--------------------------- MODULE UidCache_proofs ---------------------------
(***************************************************************************)
(* Proofs about UidCache, for every set of processes and UIDs, every       *)
(* history of the package manager and every setting of faults.             *)
(*                                                                         *)
(* CacheInv is inductive.  InOrder: version numbers only grow, so what was *)
(* read earlier is not newer.  Vouched: what a process is about to write,  *)
(* and what the file holds, is as new as its fingerprint.  LikeFile: a     *)
(* daemon that shares the file with nobody has in memory what is in the    *)
(* file, except between a refresh and the end of its save, as long as the  *)
(* file can be read and written.                                           *)
(***************************************************************************)
EXTENDS UidCache, TLAPS

Saving(p) == step[p] \in {"save", "write"}

InOrder ==
  /\ xml <= pm
  /\ file \in Records /\ file.fp # Nil => file.fp <= xml
  /\ \A p \in Procs :
       /\ fingerprint[p] # Nil => fingerprint[p] <= xml
       /\ found[p] # Nil => found[p] <= xml
       /\ step[p] = "refresh" /\ found[p] # Nil /\ fingerprint[p] # Nil
            => fingerprint[p] <= found[p]

Placed ==
  \A p \in Procs :
    /\ step[p] # "off" => p \in setting.procs
    /\ step[p] = "read" => file \in Records \cup {Torn} /\ found[p] = fingerprint[p]

Vouched ==
  failed = {} =>
    /\ file \in Records => Fresh(file.fp, file.mapping)
    /\ \A p \in Procs : Saving(p) => Fresh(fingerprint[p], mapping[p])

LikeFile ==
  Alone /\ "disk" \notin failed /\ ~Saving(Daemon) =>
    /\ fingerprint[Daemon] # Nil => file \in Records /\ file.fp = fingerprint[Daemon]
    /\ mapping[Daemon] # Nothing => file \in Records /\ file.mapping = mapping[Daemon]

CacheInv ==
  /\ CacheTypeOK /\ InOrder /\ Placed /\ Vouched /\ LikeFile
  /\ CacheFresh /\ ChangeNoticed /\ OnlyFailuresAddUp

(* What the constants are, in the form the steps use it.                    *)
LEMMA CacheConstants ==
  /\ MaxVersion \in Nat /\ Versions = 0..MaxVersion /\ MaxStarts \in Nat
  /\ Daemon \in Procs
  /\ \A s \in Settings : s \in SettingRecords
  /\ Nil \notin Versions
  /\ Torn # Nil /\ Torn \notin Records /\ Nil \notin Records
  /\ Nothing \in Mappings /\ \A v \in Versions : Listing[v] \in Mappings
<1>1. Nothing \in Mappings
  BY DEF Nothing, Mappings
<1>2. \A v \in Versions : Listing[v] \in Mappings
  BY CacheConstantsOK DEF Versions, Mappings
<1>3. QED
  BY <1>1, <1>2, CacheConstantsOK DEF Versions, Records, Mappings

(* Some lines of a listing are a map too.                                   *)
LEMMA CutIsMapping ==
  ASSUME NEW m \in Mappings
  PROVE  Cut(m) \subseteq Mappings /\ \A n \in Cut(m), u \in AppUids : n[u] \in {m[u], Nil}
<1>1. ASSUME NEW n \in Cut(m)
      PROVE  n \in Mappings /\ \A u \in AppUids : n[u] \in {m[u], Nil}
  <2>1. PICK lost \in SUBSET AppUids : n = [u \in AppUids |-> IF u \in lost THEN Nil ELSE m[u]]
    BY DEF Cut
  <2>2. QED
    BY <2>1 DEF Mappings
<1>2. QED
  BY <1>1

LEMMA CacheInitially == CacheInit => CacheInv
<1> SUFFICES ASSUME CacheInit PROVE CacheInv
  OBVIOUS
<1> USE CacheConstants
<1>1. 0 \in Versions /\ setting \in SettingRecords
  BY DEF CacheInit
<1>2. \/ file = Nil
      \/ file \in Records /\ file.fp = 0 /\ file.mapping = Listing[0]
  BY <1>1 DEF CacheInit, Records
<1>3. CacheTypeOK
  <2>1. mapping \in [Procs -> Mappings]
    BY DEF CacheInit
  <2>2. miss_counts \in [Procs -> [AppUids -> 0..3]]
    BY DEF CacheInit
  <2>3. file \in Records \cup {Nil, Torn}
    BY <1>2
  <2>4. QED
    BY <1>1, <2>1, <2>2, <2>3, 0 \in 0..MaxStarts DEF CacheInit, CacheTypeOK
<1>4. InOrder /\ Placed /\ ChangeNoticed
  BY <1>1, <1>2 DEF CacheInit, InOrder, Placed, ChangeNoticed
<1>5. OnlyFailuresAddUp
  BY DEF CacheInit, OnlyFailuresAddUp
<1>6. file \in Records => Fresh(file.fp, file.mapping)
  <2>1. 0 \in 0..pm
    BY DEF CacheInit
  <2>2. QED
    BY <1>2, <2>1 DEF Fresh
<1>7. Vouched /\ LikeFile /\ CacheFresh
  BY <1>6 DEF CacheInit, Vouched, LikeFile, CacheFresh, Fresh
<1>8. QED
  BY <1>3, <1>4, <1>5, <1>7 DEF CacheInv

(* A step of any kind: one case per action.                                 *)
LEMMA CacheStep == CacheInv /\ [CacheNext]_cacheVars => CacheInv'
<1> SUFFICES ASSUME CacheInv, [CacheNext]_cacheVars PROVE CacheInv'
  OBVIOUS
<1> USE CacheConstants
<1>0. /\ CacheTypeOK /\ InOrder /\ Placed /\ Vouched /\ LikeFile
      /\ CacheFresh /\ ChangeNoticed /\ OnlyFailuresAddUp
  BY DEF CacheInv
<1>1. CASE Install
  <2>1. CacheTypeOK'
    BY <1>0, <1>1 DEF Install, watch, memory, CacheTypeOK
  <2>2. InOrder' /\ Placed'
    BY <1>0, <1>1 DEF Install, memory, CacheTypeOK, InOrder, Placed
  <2>3. Vouched'
    BY <1>0, <1>1 DEF Install, memory, CacheTypeOK, Vouched, Saving, Fresh
  <2>4. LikeFile'
    BY <1>0, <1>1 DEF Install, memory, LikeFile, Saving, Alone
  <2>5. CacheFresh'
    BY <1>0, <1>1 DEF Install, memory, CacheTypeOK, CacheFresh, Alone, Fresh
  <2>6. ChangeNoticed'
    BY <1>0, <1>1 DEF Install, watch, memory, ChangeNoticed, Alone
  <2>7. OnlyFailuresAddUp'
    BY <1>0, <1>1 DEF Install, memory, OnlyFailuresAddUp
  <2>8. QED
    BY <2>1, <2>2, <2>3, <2>4, <2>5, <2>6, <2>7 DEF CacheInv
<1>2. CASE WriteXml
  <2>1. CacheTypeOK'
    BY <1>0, <1>2 DEF WriteXml, memory, CacheTypeOK
  <2>2. InOrder' /\ Placed'
    <3>1. file \in Records => file.fp \in Versions \cup {Nil}
      BY DEF Records
    <3>2. QED
      BY <1>0, <1>2, <3>1 DEF WriteXml, memory, CacheTypeOK, InOrder, Placed
  <2>3. Vouched'
    BY <1>0, <1>2 DEF WriteXml, memory, Vouched, Saving, Fresh
  <2>4. LikeFile'
    BY <1>0, <1>2 DEF WriteXml, memory, LikeFile, Saving, Alone
  <2>5. CacheFresh'
    BY <1>0, <1>2 DEF WriteXml, memory, CacheFresh, Alone, Fresh
  <2>6. ChangeNoticed'
    BY <1>0, <1>2 DEF WriteXml, ChangeNoticed
  <2>7. OnlyFailuresAddUp'
    BY <1>0, <1>2 DEF WriteXml, memory, OnlyFailuresAddUp
  <2>8. QED
    BY <2>1, <2>2, <2>3, <2>4, <2>5, <2>6, <2>7 DEF CacheInv
<1>3. CASE EditConf
  <2>1. CacheTypeOK'
    BY <1>0, <1>3 DEF EditConf, outside, memory, CacheTypeOK
  <2>2. InOrder' /\ Placed'
    BY <1>0, <1>3 DEF EditConf, outside, memory, InOrder, Placed
  <2>3. Vouched'
    BY <1>0, <1>3 DEF EditConf, outside, memory, Vouched, Saving, Fresh
  <2>4. LikeFile'
    BY <1>0, <1>3 DEF EditConf, outside, memory, LikeFile, Saving, Alone
  <2>5. CacheFresh'
    BY <1>0, <1>3 DEF EditConf, outside, memory, CacheFresh, Alone, Fresh
  <2>6. ChangeNoticed'
    BY <1>0, <1>3 DEF EditConf, ChangeNoticed
  <2>7. OnlyFailuresAddUp'
    BY <1>0, <1>3 DEF EditConf, memory, OnlyFailuresAddUp
  <2>8. QED
    BY <2>1, <2>2, <2>3, <2>4, <2>5, <2>6, <2>7 DEF CacheInv
<1>4. CASE ThirtySeconds
  <2>1. CacheTypeOK'
    BY <1>0, <1>4 DEF ThirtySeconds, outside, watch, CacheTypeOK
  <2>2. InOrder' /\ Placed'
    BY <1>0, <1>4 DEF ThirtySeconds, outside, InOrder, Placed
  <2>3. Vouched'
    BY <1>0, <1>4 DEF ThirtySeconds, outside, Vouched, Saving, Fresh
  <2>4. LikeFile'
    BY <1>0, <1>4 DEF ThirtySeconds, outside, LikeFile, Saving, Alone
  <2>5. CacheFresh'
    BY <1>0, <1>4 DEF ThirtySeconds, outside, CacheFresh, Alone, Fresh
  <2>6. ChangeNoticed'
    BY <1>0, <1>4 DEF ThirtySeconds, outside, watch, ChangeNoticed, Alone
  <2>7. OnlyFailuresAddUp'
    BY <1>0, <1>4 DEF ThirtySeconds, OnlyFailuresAddUp
  <2>8. QED
    BY <2>1, <2>2, <2>3, <2>4, <2>5, <2>6, <2>7 DEF CacheInv
<1>5. CASE AddWatch
  <2>1. CacheTypeOK'
    BY <1>0, <1>5 DEF AddWatch, outside, memory, CacheTypeOK
  <2>2. InOrder' /\ Placed'
    BY <1>0, <1>5 DEF AddWatch, outside, memory, InOrder, Placed
  <2>3. Vouched'
    BY <1>0, <1>5 DEF AddWatch, outside, memory, Vouched, Saving, Fresh
  <2>4. LikeFile'
    BY <1>0, <1>5 DEF AddWatch, outside, memory, LikeFile, Saving, Alone
  <2>5. CacheFresh'
    BY <1>0, <1>5 DEF AddWatch, outside, memory, CacheFresh, Alone, Fresh
  <2>6. ChangeNoticed'
    BY <1>0, <1>5 DEF AddWatch, outside, ChangeNoticed
  <2>7. OnlyFailuresAddUp'
    BY <1>0, <1>5 DEF AddWatch, memory, OnlyFailuresAddUp
  <2>8. QED
    BY <2>1, <2>2, <2>3, <2>4, <2>5, <2>6, <2>7 DEF CacheInv
<1>6. CASE Reload
  <2>1. CacheTypeOK'
    BY <1>0, <1>6 DEF Reload, Goes, outside, memory, CacheTypeOK
  <2>2. InOrder' /\ Placed'
    BY <1>0, <1>6 DEF Reload, Goes, outside, memory, InOrder, Placed
  <2>3. Vouched'
    BY <1>0, <1>6 DEF Reload, Goes, outside, memory, Vouched, Saving, Fresh
  <2>4. LikeFile'
    BY <1>0, <1>6 DEF Reload, outside, memory, LikeFile, Saving, Alone
  <2>5. CacheFresh'
    BY <1>0, <1>6 DEF Reload, outside, memory, CacheFresh, Alone, Fresh
  <2>6. ChangeNoticed'
    BY <1>0, <1>6 DEF Reload, Goes, CacheTypeOK, ChangeNoticed
  <2>7. OnlyFailuresAddUp'
    BY <1>0, <1>6 DEF Reload, memory, OnlyFailuresAddUp
  <2>8. QED
    BY <2>1, <2>2, <2>3, <2>4, <2>5, <2>6, <2>7 DEF CacheInv
<1>7. ASSUME NEW p \in Procs, Start(p) PROVE CacheInv'
  <2>1. CacheTypeOK'
    BY <1>0, <1>7 DEF Start, Goes, outside, watch, memory, CacheTypeOK
  <2>2. InOrder' /\ Placed'
    BY <1>0, <1>7 DEF Start, Goes, outside, memory, InOrder, Placed
  <2>3. Vouched'
    BY <1>0, <1>7 DEF Start, Goes, outside, memory, Vouched, Saving, Fresh
  <2>4. LikeFile'
    BY <1>0, <1>7 DEF Start, outside, memory, LikeFile, Saving, Alone
  <2>5. CacheFresh'
    BY <1>0, <1>7 DEF Start, outside, memory, CacheFresh, Alone, Fresh
  <2>6. ChangeNoticed'
    BY <1>0, <1>7 DEF Start, outside, watch, memory, ChangeNoticed, Alone
  <2>7. OnlyFailuresAddUp'
    BY <1>0, <1>7 DEF Start, memory, OnlyFailuresAddUp
  <2>8. QED
    BY <2>1, <2>2, <2>3, <2>4, <2>5, <2>6, <2>7 DEF CacheInv
<1>8. ASSUME NEW p \in Procs, Quit(p) PROVE CacheInv'
  <2>1. CacheTypeOK'
    BY <1>0, <1>8 DEF Quit, Goes, outside, CacheTypeOK
  <2>2. InOrder' /\ Placed'
    BY <1>0, <1>8 DEF Quit, Goes, outside, CacheTypeOK, InOrder, Placed
  <2>3. Vouched'
    BY <1>0, <1>8 DEF Quit, Goes, outside, CacheTypeOK, Vouched, Saving, Fresh
  <2>4. LikeFile'
    BY <1>0, <1>8 DEF Quit, outside, CacheTypeOK, Placed, LikeFile, Alone
  <2>5. CacheFresh'
    BY <1>0, <1>8 DEF Quit, outside, CacheTypeOK, CacheFresh, Alone, Fresh
  <2>6. ChangeNoticed'
    BY <1>0, <1>8 DEF Quit, Goes, outside, CacheTypeOK, ChangeNoticed, Alone
  <2>7. OnlyFailuresAddUp'
    BY <1>0, <1>8 DEF Quit, OnlyFailuresAddUp
  <2>8. QED
    BY <2>1, <2>2, <2>3, <2>4, <2>5, <2>6, <2>7 DEF CacheInv
<1>9. ASSUME NEW p \in Procs, Collect(p) PROVE CacheInv'
  <2>1. CacheTypeOK'
    BY <1>0, <1>9 DEF Collect, Goes, outside, watch, memory, CacheTypeOK
  <2>2. InOrder' /\ Placed'
    <3>1. step[p] = "collect"
      BY <1>9 DEF Collect
    <3>2. PICK fp \in {xml, Nil} :
            /\ found' = [found EXCEPT ![p] = fp]
            /\ step' = [step EXCEPT ![p] =
                 IF file = Nil \/ fingerprint[p] # fp THEN "refresh" ELSE "read"]
      BY <1>9 DEF Collect, Goes
    <3>3. InOrder'
      BY <1>0, <1>9, <3>2 DEF Collect, outside, memory, CacheTypeOK, InOrder
    <3>4. Placed'
      BY <1>0, <1>9, <3>1, <3>2 DEF Collect, outside, memory, CacheTypeOK, Placed
    <3>5. QED
      BY <3>3, <3>4
  <2>3. Vouched'
    BY <1>0, <1>9 DEF Collect, Goes, outside, memory, Vouched, Saving, Fresh
  <2>4. LikeFile'
    BY <1>0, <1>9 DEF Collect, Goes, outside, memory, LikeFile, Saving, Alone
  <2>5. CacheFresh'
    BY <1>0, <1>9 DEF Collect, outside, memory, CacheFresh, Alone, Fresh
  <2>6. ChangeNoticed'
    BY <1>0, <1>9
       DEF Collect, Goes, outside, watch, memory, CacheTypeOK, ChangeNoticed, Alone
  <2>7. OnlyFailuresAddUp'
    BY <1>0, <1>9 DEF Collect, memory, OnlyFailuresAddUp
  <2>8. QED
    BY <2>1, <2>2, <2>3, <2>4, <2>5, <2>6, <2>7 DEF CacheInv
<1>10. ASSUME NEW p \in Procs, Refresh(p) PROVE CacheInv'
  <2>1. CacheTypeOK'
    <3>0. /\ failed' = failed \/ failed' = failed \cup {"pm"} \/ failed' = failed \cup {"exit"}
          /\ \/ mapping' = mapping
             \/ \E m \in Mappings : mapping' = [mapping EXCEPT ![p] = m]
      <4>1. Cut(Listing[pm]) \subseteq Mappings
        BY <1>0, CutIsMapping DEF CacheTypeOK
      <4>2. QED
        BY <1>10, <4>1 DEF Refresh, PmAnswers, PmFails, Prints, Fails
    <3>1. mapping' \in [Procs -> Mappings]
      BY <1>0, <3>0 DEF CacheTypeOK
    <3>2. failed' \subseteq {"pm", "exit", "disk"}
      BY <1>0, <3>0 DEF CacheTypeOK
    <3>3. miss_counts' \in [Procs -> [AppUids -> 0..3]]
      BY <1>0, <1>10 DEF Refresh, PmAnswers, PmFails, CacheTypeOK
    <3>4. QED
      BY <1>0, <1>10, <3>1, <3>2, <3>3 DEF Refresh, Goes, outside, watch, CacheTypeOK
  <2>2. InOrder' /\ Placed'
    BY <1>0, <1>10 DEF Refresh, Goes, outside, CacheTypeOK, InOrder, Placed
  <2>3. Vouched'
    <3> SUFFICES ASSUME failed' = {} PROVE Vouched'
      BY DEF Vouched
    <3>1. mapping' = [mapping EXCEPT ![p] = Listing[pm]] /\ failed = {}
      BY <1>10 DEF Refresh, PmAnswers, PmFails, Prints, Fails
    <3>2. Fresh(found[p], Listing[pm])
      BY <1>0 DEF CacheTypeOK, InOrder, Fresh
    <3>3. \A q \in Procs : Saving(q)' => Fresh(fingerprint[q], mapping[q])'
      BY <1>0, <1>10, <3>1, <3>2
         DEF Refresh, Goes, outside, CacheTypeOK, Vouched, Saving, Fresh
    <3>4. file' \in Records => Fresh(file.fp, file.mapping)'
      BY <1>0, <1>10, <3>1 DEF Refresh, outside, Vouched, Fresh
    <3>5. QED
      BY <3>3, <3>4 DEF Vouched
  <2>4. LikeFile'
    <3>1. CASE p = Daemon
      BY <1>0, <1>10, <3>1 DEF Refresh, Goes, CacheTypeOK, LikeFile, Saving
    <3>2. CASE p # Daemon
      BY <1>0, <1>10, <3>2 DEF Refresh, outside, Placed, LikeFile, Alone
    <3>3. QED
      BY <3>1, <3>2
  <2>5. CacheFresh'
    <3> SUFFICES ASSUME failed' = {}, Alone' PROVE CacheFresh'
      BY DEF CacheFresh
    <3>1. mapping' = [mapping EXCEPT ![p] = Listing[pm]] /\ failed = {}
      BY <1>10 DEF Refresh, PmAnswers, PmFails, Prints, Fails
    <3>2. Fresh(found[p], Listing[pm])
      BY <1>0 DEF CacheTypeOK, InOrder, Fresh
    <3>3. QED
      BY <1>0, <1>10, <3>1, <3>2
         DEF Refresh, outside, CacheTypeOK, CacheFresh, Alone, Fresh
  <2>6. ChangeNoticed'
    BY <1>0, <1>10
       DEF Refresh, Goes, PmAnswers, PmFails, Prints, Fails, outside, watch, CacheTypeOK,
           InOrder, ChangeNoticed, Alone
  <2>7. OnlyFailuresAddUp'
    <3>1. CASE PmAnswers(p)
      BY <1>0, <3>1 DEF PmAnswers, Prints, Fails, CacheTypeOK, OnlyFailuresAddUp
    <3>2. CASE PmFails(p)
      BY <3>2 DEF PmFails, Fails, OnlyFailuresAddUp
    <3>3. QED
      BY <1>10, <3>1, <3>2 DEF Refresh
  <2>8. QED
    BY <2>1, <2>2, <2>3, <2>4, <2>5, <2>6, <2>7 DEF CacheInv
<1>11. ASSUME NEW p \in Procs, Read(p) PROVE CacheInv'
  <2> DEFINE taken ==
        /\ mapping' = [mapping EXCEPT
                         ![p] = IF file = Torn THEN Nothing ELSE file.mapping]
        /\ fingerprint' = [fingerprint EXCEPT
                             ![p] = IF file = Torn \/ file.fp = Nil THEN @ ELSE file.fp]
        /\ failed' = failed
  <2>0. \/ taken
        \/ failed' = failed \cup {"disk"} /\ mapping' = mapping
             /\ fingerprint' = fingerprint
    BY <1>11 DEF Read, Fails
  <2>1. CacheTypeOK'
    <3>1. file \in Records \cup {Torn}
      BY <1>0, <1>11 DEF Read, Placed
    <3>2. file \in Records => file.fp \in Versions \cup {Nil} /\ file.mapping \in Mappings
      BY DEF Records
    <3>3. /\ mapping' \in [Procs -> Mappings]
          /\ fingerprint' \in [Procs -> Versions \cup {Nil}]
      BY <1>0, <2>0, <3>1, <3>2 DEF CacheTypeOK
    <3>4. failed' \subseteq {"pm", "exit", "disk"}
      BY <1>0, <2>0 DEF CacheTypeOK
    <3>5. QED
      BY <1>0, <1>11, <3>3, <3>4 DEF Read, Goes, outside, watch, CacheTypeOK
  <2>2. InOrder' /\ Placed'
    BY <1>0, <1>11, <2>0 DEF Read, Goes, outside, CacheTypeOK, InOrder, Placed
  <2>3. Vouched'
    <3>1. CASE taken
      <4>1. UNCHANGED <<pm, file>> /\ ~Saving(p)'
        BY <1>0, <1>11 DEF Read, Goes, outside, CacheTypeOK, Saving
      <4>2. ASSUME NEW q \in Procs, Saving(q)'
            PROVE  Saving(q) /\ mapping'[q] = mapping[q] /\ fingerprint'[q] = fingerprint[q]
        BY <1>0, <1>11, <3>1, <4>1, <4>2 DEF Read, Goes, CacheTypeOK, Saving
      <4>3. QED
        BY <1>0, <3>1, <4>1, <4>2 DEF Vouched, Fresh
    <3>2. CASE failed' = failed \cup {"disk"}
      BY <3>2 DEF Vouched
    <3>3. QED
      BY <2>0, <3>1, <3>2
  <2>4. LikeFile'
    <3>1. CASE taken
      BY <1>0, <1>11, <3>1
         DEF Read, outside, CacheTypeOK, Placed, LikeFile, Saving, Alone
    <3>2. CASE failed' = failed \cup {"disk"}
      BY <3>2 DEF LikeFile
    <3>3. QED
      BY <2>0, <3>1, <3>2
  <2>5. CacheFresh'
    <3>1. CASE taken
      BY <1>0, <1>11, <3>1
         DEF Read, outside, CacheTypeOK, Placed, Vouched, LikeFile, CacheFresh, Saving,
             Alone, Fresh
    <3>2. CASE failed' = failed \cup {"disk"}
      BY <3>2 DEF CacheFresh
    <3>3. QED
      BY <2>0, <3>1, <3>2
  <2>6. ChangeNoticed'
    <3>1. CASE taken
      BY <1>0, <1>11, <3>1
         DEF Read, Goes, outside, watch, CacheTypeOK, LikeFile, ChangeNoticed, Saving,
             Alone
    <3>2. CASE failed' = failed \cup {"disk"}
      BY <3>2 DEF ChangeNoticed
    <3>3. QED
      BY <2>0, <3>1, <3>2
  <2>7. OnlyFailuresAddUp'
    BY <1>0, <1>11, <2>0 DEF Read, OnlyFailuresAddUp
  <2>8. QED
    BY <2>1, <2>2, <2>3, <2>4, <2>5, <2>6, <2>7 DEF CacheInv
<1>12. ASSUME NEW p \in Procs, Save(p) PROVE CacheInv'
  <2>0. \/ Goes(p, "write") /\ file' = Torn /\ failed' = failed
        \/ Goes(p, "ready") /\ file' = file /\ failed' = failed \cup {"disk"}
    BY <1>12 DEF Save, Fails
  <2>1. CacheTypeOK'
    BY <1>0, <1>12, <2>0 DEF Save, Goes, outside, watch, memory, CacheTypeOK
  <2>2. InOrder' /\ Placed'
    BY <1>0, <1>12, <2>0 DEF Save, Goes, outside, memory, CacheTypeOK, InOrder, Placed
  <2>3. Vouched'
    BY <1>0, <1>12, <2>0 DEF Save, Goes, outside, memory, CacheTypeOK, Vouched, Saving, Fresh
  <2>4. LikeFile'
    BY <1>0, <1>12, <2>0 DEF Save, Goes, outside, CacheTypeOK, Placed, LikeFile, Saving, Alone
  <2>5. CacheFresh'
    BY <1>0, <1>12, <2>0 DEF Save, outside, memory, CacheFresh, Alone, Fresh
  <2>6. ChangeNoticed'
    BY <1>0, <1>12, <2>0
       DEF Save, Goes, outside, watch, memory, CacheTypeOK, ChangeNoticed, Alone
  <2>7. OnlyFailuresAddUp'
    BY <1>0, <1>12, <2>0 DEF Save, memory, OnlyFailuresAddUp
  <2>8. QED
    BY <2>1, <2>2, <2>3, <2>4, <2>5, <2>6, <2>7 DEF CacheInv
<1>13. ASSUME NEW p \in Procs, Write(p) PROVE CacheInv'
  <2> DEFINE whole == /\ file' \in Records /\ file'.fp = fingerprint[p]
                      /\ file'.mapping = mapping[p] /\ failed' = failed
             part  == /\ file' = Torn \/ (file' \in Records /\ file'.fp = fingerprint[p])
                      /\ failed' = failed \cup {"disk"}
  <2>0. whole \/ part
    <3>1. \A m \in Mappings :
            /\ Lines(fingerprint[p], m) \in Records
            /\ Lines(fingerprint[p], m).fp = fingerprint[p]
            /\ Lines(fingerprint[p], m).mapping = m
      BY <1>0 DEF CacheTypeOK, Lines, Records
    <3>2. mapping[p] \in Mappings /\ Cut(mapping[p]) \subseteq Mappings
      BY <1>0, CutIsMapping DEF CacheTypeOK
    <3>3. CASE file' = Lines(fingerprint[p], mapping[p]) /\ failed' = failed
      BY <3>1, <3>2, <3>3
    <3>4. CASE /\ file' \in {Torn} \cup {Lines(fingerprint[p], m) : m \in Cut(mapping[p])}
               /\ Fails("disk")
      BY <3>1, <3>2, <3>4 DEF Fails
    <3>5. QED
      BY <1>13, <3>3, <3>4 DEF Write
  <2>1. CacheTypeOK'
    BY <1>0, <1>13, <2>0 DEF Write, Goes, outside, watch, memory, CacheTypeOK
  <2>2. InOrder' /\ Placed'
    BY <1>0, <1>13, <2>0 DEF Write, Goes, outside, memory, CacheTypeOK, InOrder, Placed
  <2>3. Vouched'
    BY <1>0, <1>13, <2>0
       DEF Write, Goes, outside, memory, CacheTypeOK, Vouched, Saving, Fresh
  <2>4. LikeFile'
    BY <1>0, <1>13, <2>0 DEF Write, outside, memory, Placed, LikeFile, Alone
  <2>5. CacheFresh'
    BY <1>0, <1>13, <2>0 DEF Write, outside, memory, CacheFresh, Alone, Fresh
  <2>6. ChangeNoticed'
    BY <1>0, <1>13, <2>0
       DEF Write, Goes, outside, watch, memory, CacheTypeOK, ChangeNoticed, Alone
  <2>7. OnlyFailuresAddUp'
    BY <1>0, <1>13, <2>0 DEF Write, memory, OnlyFailuresAddUp
  <2>8. QED
    BY <2>1, <2>2, <2>3, <2>4, <2>5, <2>6, <2>7 DEF CacheInv
<1>14. ASSUME NEW p \in Procs, NEW u \in AppUids, GetPackage(p, u), Answered(p, u)
       PROVE  CacheInv'
  <2>1. CacheTypeOK'
    BY <1>0, <1>14 DEF GetPackage, Answered, outside, watch, memory, CacheTypeOK
  <2>2. InOrder' /\ Placed'
    BY <1>0, <1>14 DEF GetPackage, Answered, outside, memory, InOrder, Placed
  <2>3. Vouched'
    BY <1>0, <1>14 DEF GetPackage, Answered, outside, memory, Vouched, Saving, Fresh
  <2>4. LikeFile'
    BY <1>0, <1>14 DEF GetPackage, Answered, outside, memory, LikeFile, Saving, Alone
  <2>5. CacheFresh'
    BY <1>0, <1>14 DEF GetPackage, Answered, outside, memory, CacheFresh, Alone, Fresh
  <2>6. ChangeNoticed'
    BY <1>0, <1>14
       DEF GetPackage, Answered, outside, watch, memory, ChangeNoticed, Alone
  <2>7. OnlyFailuresAddUp'
    BY <1>0, <1>14 DEF Answered, memory, OnlyFailuresAddUp
  <2>8. QED
    BY <2>1, <2>2, <2>3, <2>4, <2>5, <2>6, <2>7 DEF CacheInv
<1>15. ASSUME NEW p \in Procs, NEW u \in AppUids, GetPackage(p, u), Missed(p, u)
       PROVE  CacheInv'
  <2> DEFINE asked(m) == [v \in AppUids |-> IF v = u /\ m[u] = Nil THEN 1 ELSE 0]
             answered == \E m \in Mappings :
                           /\ Prints(m) /\ mapping' = [mapping EXCEPT ![p] = m]
                           /\ miss_counts' = [miss_counts EXCEPT ![p] = asked(m)]
             unanswered == /\ mapping' = mapping /\ failed' = failed \cup {"pm"}
                           /\ miss_counts' = [miss_counts EXCEPT ![p][u] = @ + 1]
  <2>1. answered \/ unanswered
    <3>1. Cut(Listing[pm]) \subseteq Mappings
      BY <1>0, CutIsMapping DEF CacheTypeOK
    <3>2. QED
      BY <1>15, <3>1 DEF Missed, MissAnswered, MissFailed, Fails
  <2>2. /\ step[p] = "ready" /\ step' = [step EXCEPT ![p] = "save"]
        /\ recent' = [recent EXCEPT ![p] = TRUE]
        /\ UNCHANGED <<pm, xml, setting, notified, watched_from, starts, file, found,
                       fingerprint>>
        /\ miss_counts[p][u] \in 0..2
    BY <1>0, <1>15 DEF GetPackage, Missed, Goes, GaveUp, outside, watch, CacheTypeOK
  <2>3. failed \subseteq failed' /\ failed' \subseteq {"pm", "exit", "disk"}
    BY <1>0, <2>1 DEF Prints, Fails, CacheTypeOK
  <2>4. \A m \in Mappings : asked(m) \in [AppUids -> 0..1]
    OBVIOUS
  <2>5. CacheTypeOK'
    <3>1. mapping' \in [Procs -> Mappings]
      BY <1>0, <2>1 DEF CacheTypeOK
    <3>2. miss_counts' \in [Procs -> [AppUids -> 0..3]]
      <4>1. CASE answered
        <5>1. PICK m \in Mappings : miss_counts' = [miss_counts EXCEPT ![p] = asked(m)]
          BY <4>1
        <5>2. asked(m) \in [AppUids -> 0..3]
          BY <2>4
        <5> HIDE DEF asked
        <5>3. QED
          BY <1>0, <5>1, <5>2 DEF CacheTypeOK
      <4>2. CASE unanswered
        <5>1. [miss_counts[p] EXCEPT ![u] = @ + 1] \in [AppUids -> 0..3]
          BY <1>0, <2>2 DEF CacheTypeOK
        <5>2. QED
          BY <1>0, <4>2, <5>1 DEF CacheTypeOK
      <4>3. QED
        BY <2>1, <4>1, <4>2
    <3>3. QED
      BY <1>0, <2>2, <2>3, <3>1, <3>2 DEF CacheTypeOK
  <2>6. InOrder' /\ Placed'
    BY <1>0, <2>2 DEF InOrder, Placed
  <2>7. failed' = {} => mapping' = [mapping EXCEPT ![p] = Listing[pm]] /\ failed = {}
    BY <2>1 DEF Prints, Fails
  <2>8. Fresh(fingerprint[p], Listing[pm])
    BY <1>0 DEF CacheTypeOK, InOrder, Fresh
  <2>9. Vouched'
    BY SMTT(30), <1>0, <2>2, <2>7, <2>8 DEF CacheTypeOK, Vouched, Saving, Fresh
  <2>10. LikeFile'
    <3>1. CASE p = Daemon
      BY <1>0, <2>2, <3>1 DEF CacheTypeOK, LikeFile, Saving
    <3>2. CASE p # Daemon
      BY <1>0, <2>2, <3>2 DEF Placed, LikeFile, Alone
    <3>3. QED
      BY <3>1, <3>2
  <2>11. CacheFresh'
    BY <1>0, <2>2, <2>7, <2>8 DEF CacheTypeOK, CacheFresh, Alone, Fresh
  <2>12. ChangeNoticed'
    BY <1>0, <2>2, <2>3 DEF ChangeNoticed, Alone
  <2>13. OnlyFailuresAddUp'
    <3> SUFFICES ASSUME "pm" \notin failed', NEW q \in Procs, NEW w \in AppUids
                 PROVE  miss_counts'[q][w] <= 1
      BY DEF OnlyFailuresAddUp
    <3>1. PICK m \in Mappings : miss_counts' = [miss_counts EXCEPT ![p] = asked(m)]
      BY <2>1
    <3>2. CASE q = p
      BY <1>0, <2>4, <3>1, <3>2 DEF CacheTypeOK
    <3>3. CASE q # p
      <4>1. miss_counts'[q] = miss_counts[q]
        BY <1>0, <3>1, <3>3 DEF CacheTypeOK
      <4>2. QED
        BY <1>0, <2>3, <4>1 DEF OnlyFailuresAddUp
    <3>4. QED
      BY <3>2, <3>3
  <2>14. QED
    BY <2>5, <2>6, <2>9, <2>10, <2>11, <2>12, <2>13 DEF CacheInv
<1>16. CASE UNCHANGED cacheVars
  BY <1>0, <1>16
     DEF CacheInv, cacheVars, outside, watch, memory, CacheTypeOK, InOrder, Placed,
         Vouched, LikeFile, CacheFresh, ChangeNoticed, OnlyFailuresAddUp, Saving, Alone,
         Fresh
<1>17. QED
  BY <1>1, <1>2, <1>3, <1>4, <1>5, <1>6, <1>7, <1>8, <1>9, <1>10, <1>11, <1>12, <1>13, <1>14,
     <1>15, <1>16
     DEF CacheNext, CacheWorld, CacheLoad, GetPackage

----------------------------------------------------------------------------
(* The invariant holds, whatever the listings, the processes and the faults.*)
THEOREM CacheInvariant == CacheSpec => []CacheInv
<1>1. CacheInv /\ [CacheNext]_cacheVars => CacheInv'
  BY CacheStep
<1>2. QED
  BY CacheInitially, <1>1, PTL DEF CacheSpec

(* The cache stays in its types; in particular no count of misses passes    *)
(* three.                                                                   *)
THEOREM CacheTypeCorrect == CacheSpec => []CacheTypeOK
<1>1. CacheInv => CacheTypeOK
  BY DEF CacheInv
<1>2. QED
  BY CacheInvariant, <1>1, PTL

(* While no command and no access to the file has failed, no interleaving of*)
(* processes that read, write and are killed leaves a file older than the    *)
(* fingerprint in it.                                                       *)
THEOREM FileStaysFresh == CacheSpec => []FileFresh
<1>1. CacheInv => FileFresh
  BY DEF CacheInv, CacheTypeOK, Vouched, FileFresh
<1>2. QED
  BY CacheInvariant, <1>1, PTL

(* Nor is the memory of a daemon that has the file to itself older than the *)
(* fingerprint for which it skips a refresh.                                *)
THEOREM DaemonStaysFresh == CacheSpec => []CacheFresh
<1>1. CacheInv => CacheFresh
  BY DEF CacheInv
<1>2. QED
  BY CacheInvariant, <1>1, PTL

(* A new packages.xml that such a daemon does not know of is announced, or  *)
(* a load under way will see it.                                            *)
THEOREM NoVersionOverlooked == CacheSpec => []ChangeNoticed
<1>1. CacheInv => ChangeNoticed
  BY DEF CacheInv
<1>2. QED
  BY CacheInvariant, <1>1, PTL

(* Misses add up only when pm cannot be run.                                *)
THEOREM MissesOfFailures == CacheSpec => []OnlyFailuresAddUp
<1>1. CacheInv => OnlyFailuresAddUp
  BY DEF CacheInv
<1>2. QED
  BY CacheInvariant, <1>1, PTL

(* A UID is forgotten only by a command: one that does not list it, or one  *)
(* that fails while it prints.  Only Refresh, Read, Quit and GetPackage write*)
(* the map, and LikeFile says that Read finds in the file what is in memory.*)
THEOREM KnownUidsStay == CacheSpec => KnownStaysKnown
<1> DEFINE Kept == \A u \in AppUids :
             Alone /\ "disk" \notin failed'
               /\ Known(Daemon, u) /\ ~Known(Daemon, u)' /\ step'[Daemon] # "off"
               => \/ Listing[pm][u] = Nil
                  \/ "exit" \in failed' /\ step'[Daemon] = "save"
<1>1. ASSUME CacheInv, CacheNext PROVE Kept
  <2> SUFFICES ASSUME NEW u \in AppUids, Alone, "disk" \notin failed',
                      Known(Daemon, u), ~Known(Daemon, u)', step'[Daemon] # "off"
               PROVE  \/ Listing[pm][u] = Nil
                      \/ "exit" \in failed' /\ step'[Daemon] = "save"
    OBVIOUS
  <2> USE CacheConstants
  <2>1. CacheTypeOK /\ Placed /\ LikeFile
    BY <1>1 DEF CacheInv
  <2>2. mapping[Daemon][u] # Nil /\ mapping'[Daemon][u] = Nil
    BY DEF Known
  <2>3. ASSUME NEW m, Prints(m), mapping' = [mapping EXCEPT ![Daemon] = m]
        PROVE  Listing[pm][u] = Nil \/ "exit" \in failed'
    BY <2>1, <2>2, <2>3 DEF Prints, Fails, CacheTypeOK
  <2>4. CASE Refresh(Daemon)
    <3>1. step'[Daemon] = "save"
      BY <2>1, <2>4 DEF Refresh, Goes, CacheTypeOK
    <3>2. CASE PmAnswers(Daemon)
      BY <2>3, <3>1, <3>2 DEF PmAnswers
    <3>3. QED
      BY <2>2, <2>4, <3>2 DEF Refresh, PmFails
  <2>5. CASE Read(Daemon)
    <3>1. mapping[Daemon] # Nothing
      BY <2>2 DEF Nothing
    <3>2. failed' = failed /\ mapping' = [mapping EXCEPT
            ![Daemon] = IF file = Torn THEN Nothing ELSE file.mapping]
      BY <2>2, <2>5 DEF Read, Fails
    <3>3. file \in Records /\ file.mapping = mapping[Daemon]
      BY <2>1, <2>5, <3>1, <3>2 DEF LikeFile, Saving, Read
    <3>4. QED
      BY <2>1, <2>2, <3>2, <3>3
  <2>6. ASSUME NEW v \in AppUids, GetPackage(Daemon, v)
        PROVE  \/ Listing[pm][u] = Nil
               \/ "exit" \in failed' /\ step'[Daemon] = "save"
    <3>1. Missed(Daemon, v)
      BY <2>2, <2>6 DEF GetPackage, Answered, memory
    <3>2. step'[Daemon] = "save"
      BY <2>1, <3>1 DEF Missed, Goes, CacheTypeOK
    <3>3. CASE MissAnswered(Daemon, v)
      BY <2>3, <3>2, <3>3 DEF MissAnswered
    <3>4. QED
      BY <2>2, <3>1, <3>3 DEF Missed, MissFailed
  <2>7. CASE Quit(Daemon)
    BY <2>1, <2>7 DEF Quit, Goes, CacheTypeOK
  <2>8. CASE UNCHANGED mapping
    BY <2>2, <2>8
  <2>9. ASSUME NEW p \in Procs \ {Daemon},
               \/ Quit(p) \/ Refresh(p) \/ Read(p) \/ \E v \in AppUids : GetPackage(p, v)
        PROVE  FALSE
    BY <2>1, <2>9 DEF Quit, Refresh, Read, GetPackage, Placed, Alone
  <2>10. QED
    BY <1>1, <2>4, <2>5, <2>6, <2>7, <2>8, <2>9
       DEF CacheNext, CacheWorld, CacheLoad, Install, WriteXml, ThirtySeconds, EditConf,
           AddWatch, Reload, Start, Collect, Save, Write, memory
<1>2. CacheInv /\ [CacheNext]_cacheVars => [Kept]_cacheVars
  BY <1>1
<1>3. QED
  BY CacheInvariant, <1>2, PTL DEF CacheSpec, KnownStaysKnown
=============================================================================
