--------------------------- MODULE TitanGCScanSteps ---------------------------
(***************************************************************************)
(* Picking a job, scanning its records and installing its outputs preserve *)
(* IInv when the reads do not fail.                                        *)
(***************************************************************************)
EXTENDS TitanGCUserSteps, TitanJobs, TLAPS

\* A GC job's steps keep the types.
LEMMA GCType == ASSUME TypeOK, NEW j \in Job, GC(j) PROVE TypeOK'
<1> USE BoundsAssumption, ModeAssumption
        DEF TypeOK, dbVars, readVars, fileVars, optVars, tableVars, gcVars,
            purgeVars, ghostVars
<1>1. ASSUME NEW S \in SUBSET File, PickBlobGC(j, S) PROVE TypeOK'
  BY <1>1 DEF PickBlobGC, FileState, AllRecords
<1>2. ASSUME NEW x \in todo[j], DiscardRecord(j, x[1], x[2]) PROVE TypeOK'
  BY <1>2, Zenon DEF DiscardRecord
<1>3. ASSUME NEW x \in todo[j], NEW dst \in File0, KeepRecord(j, x[1], x[2], dst)
      PROVE  TypeOK'
  <2>1. x[1] \in File /\ x[2] \in Record /\ x[2].key \in Key
    BY DEF Record
  <2>2. [src |-> x[1], rec |-> x[2], dst |-> dst] \in Rewrite
    BY <2>1, Zenon DEF Rewrite
  <2>3. /\ nextFile' \in 1 .. MaxFile + 1 /\ disk' \subseteq File
        /\ content' \in [File -> SUBSET Record]
        /\ outs' \in [Job -> SUBSET File]
    <3>1. CASE mode[j] = "fallback"
      BY <1>3, <3>1, Zenon DEF KeepRecord
    <3>2. CASE /\ dst = nextFile /\ NewFile({x[2]})
               /\ outs' = [outs EXCEPT ![j] = @ \cup {dst}]
      <4>1. nextFile \in File
        BY <3>2 DEF NewFile, File
      <4> QED
        BY <3>2, <4>1 DEF NewFile
    <3>3. CASE /\ dst \in outs[j]
               /\ content' = [content EXCEPT ![dst] = @ \cup {x[2]}]
               /\ UNCHANGED <<nextFile, disk, outs>>
      BY <3>3
    <3> QED
      BY <1>3, <3>1, <3>2, <3>3, Zenon DEF KeepRecord
  <2> QED
    BY <1>3, <2>1, <2>2, <2>3, Zenon DEF KeepRecord
<1>4. ASSUME NEW f \in File, IteratorError(j, f) PROVE TypeOK'
  BY <1>4 DEF IteratorError
<1>5. CASE InstallOutputs(j)
  BY <1>5, Zenon DEF InstallOutputs, FileState
<1>6. ASSUME NEW b \in batch[j], RewriteKey(j, b) PROVE TypeOK'
  <2>1. b \in Rewrite
    BY Zenon
  <2> QED
    BY <1>6 DEF RewriteKey, Rewrite, Record, Entry, Seq0
<1>7. CASE FlushWAL(j)
  BY <1>7, Zenon DEF FlushWAL
<1>8. CASE DeleteInputs(j)
  BY <1>8, Zenon DEF DeleteInputs, ReleaseGcFiles, FileState
<1>9. CASE FailGC(j)
  BY <1>9 DEF FailGC, ReleaseGcFiles, FileState
<1> QED
  BY <1>1, <1>2, <1>3, <1>4, <1>5, <1>6, <1>7, <1>8, <1>9, Zenon DEF GC


\* PickBlobGC: every index into a normal file has its record to be scanned.
LEMMA PickBlobGCStep ==
    ASSUME IInv, NEW j \in Job, NEW S \in SUBSET File, PickBlobGC(j, S) PROVE IInv'
<1>0. TypeOK /\ SeqInv /\ FileInv /\ OwnInv /\ RefInv /\ TableInv /\ JobInv /\ ReadInv
  BY Zenon DEF IInv
<1>1. TypeOK'
  BY <1>0, GCType, Zenon DEF GC
<1>2. EntryTyping /\ NumberTyping
  BY <1>0, EntryTypingHolds, NumberTypingHolds, Zenon
<1>3. UNCHANGED <<dbVars, readVars, nextFile, disk, content, obsSeq, manifest, manNext,
                  tableVars, fresh, outs, batch, purgeVars>>
  BY Zenon DEF PickBlobGC
<1>4. /\ pc[j] = "idle" /\ pc'[j] = "run" /\ inputs'[j] = S /\ todo'[j] = AllRecords(S)
      /\ \A i \in Job : i # j => /\ pc'[i] = pc[i] /\ inputs'[i] = inputs[i]
                                 /\ todo'[i] = todo[i]
  BY <1>0, Zenon DEF PickBlobGC, TypeOK
<1>5. /\ \A f \in S : meta[f] = "Normal" /\ meta'[f] = "BeingGC"
      /\ \A f \in File : f \notin S => meta'[f] = meta[f]
  BY Zenon DEF PickBlobGC
<1>6. lsm' = lsm
  BY <1>3, Zenon DEF lsm, dbVars
<1>7. \A f \in File : /\ meta'[f] \in LiveState <=> meta[f] \in LiveState
                      /\ meta'[f] = "Obsolete" <=> meta[f] = "Obsolete"
                      /\ meta'[f] = "none" <=> meta[f] = "none"
  BY <1>5, Zenon DEF LiveState
<1>8. FileInv'
  <2>1. FileBound'
    BY <1>0, <1>3, <1>6, <1>7, FileTypingHolds, Zenon DEF FileInv, FileBound,
       FileTyping, purgeVars
  <2>2. FileAgree'
    BY <1>0, <1>3, <1>6, <1>7, FileTypingHolds, Zenon DEF FileInv, FileAgree,
       FileTyping, purgeVars
  <2>3. FileRecords'
    BY <1>0, <1>3, <1>6, <1>7, FileTypingHolds, Zenon DEF FileInv, FileRecords,
       FileTyping, purgeVars
  <2> QED
    BY <2>1, <2>2, <2>3, Zenon DEF FileInv, FileBound
<1>9. outs[j] = {} /\ batch[j] = {} /\ fresh[j] = {} /\ inputs[j] = {}
  BY <1>0, <1>4, Zenon DEF JobInv, JobPhase
<1>10. OwnInv'
  <2>1. \A t \in Builder : tout[t] \notin S
    BY <1>0, <1>2, <1>5 DEF OwnInv, OwnBuilder, TypeOK, NumberTyping
  <2>2. \A i \in Job : inputs[i] \cap S = {} /\ outs[i] \cap S = {}
    <3> SUFFICES ASSUME NEW i \in Job, NEW f \in S, f \in inputs[i] \cup outs[i] PROVE FALSE
      BY Zenon
    <3>1. pc[i] \in {"idle", "run", "rewrite", "delete"}
      BY <1>0, Zenon DEF TypeOK
    <3> QED
      BY <1>0, <1>5, <3>1, Zenon DEF OwnInv, OwnJob, JobInv, JobPhase
  <2>3. \A f \in S : f < nextFile
    BY <1>0, <1>5, Zenon DEF FileInv, FileBound, FileAgree
  <2>4. \A t \in Builder : tout[t] # 0 => meta'[tout[t]] = meta[tout[t]]
    BY <1>0, <1>5, <2>1 DEF TypeOK, File0, File
  <2>5. \A i \in Job : \A f \in outs[i] : meta'[f] = meta[f]
    BY <1>0, <1>5, <2>2, Zenon DEF TypeOK
  <2>6. \A i \in Job : \A f \in inputs'[i] : meta'[f] \in {"BeingGC", "Obsolete", "none"}
    BY <1>0, <1>4, <1>5, FileTypingHolds DEF OwnInv, OwnJob, FileTyping
  <2>7. /\ \A i \in Job : \A f \in inputs'[i] \cup outs'[i] : f < nextFile
        /\ \A t \in Builder, i \in Job : tout[t] \notin inputs'[i] \cup outs'[i]
        /\ \A i, k \in Job : inputs'[i] \cap outs'[k] = {}
        /\ \A i, k \in Job : i # k => /\ inputs'[i] \cap inputs'[k] = {}
                                      /\ outs'[i] \cap outs'[k] = {}
    BY <1>0, <1>3, <1>4, <2>1, <2>2, <2>3, Zenon DEF OwnInv, OwnBound, OwnApart
  <2>8. \A i \in Job : pc'[i] = "run" => \A f \in outs'[i] :
           /\ meta'[f] = "none" /\ f \in disk' /\ f \notin cand'
           /\ \A e \in lsm' : e.file # f
    BY <1>0, <1>3, <1>4, <1>6, <1>9, <2>5 DEF OwnInv, OwnJob, purgeVars
  <2>9. \A i \in Job : pc'[i] \in {"rewrite", "delete"} => \A f \in outs'[i] :
           meta'[f] \in {"PendingGC", "Obsolete", "none"} /\ f < manNext'
    BY <1>0, <1>3, <1>4, <2>5 DEF OwnInv, OwnJob
  <2>10. OwnBound'
    BY <1>0, <1>3, <1>6, <2>4, <2>6, <2>7, <2>8, <2>9, Zenon DEF OwnInv, OwnBound,
       tableVars, purgeVars
  <2>11. OwnApart'
    BY <1>0, <1>3, <1>6, <2>4, <2>6, <2>7, <2>8, <2>9, Zenon DEF OwnInv, OwnApart,
       tableVars, purgeVars
  <2>12. OwnBuilder'
    BY <1>0, <1>3, <1>6, <2>4, Zenon DEF OwnInv, OwnBuilder, tableVars, purgeVars
  <2>13. OwnJob'
    BY <1>0, <1>3, <1>6, <2>4, <2>6, <2>7, <2>8, <2>9, Zenon DEF OwnInv, OwnJob,
       tableVars, purgeVars
  <2> QED
    BY <2>10, <2>11, <2>12, <2>13, Zenon DEF OwnInv, OwnBound
<1>11. RefInv'
  BY <1>0, <1>2, <1>3, <1>6, <1>7, Zenon DEF RefInv, RecordOf, EntryTyping, dbVars,
     readVars
<1>12. JobInv'
  <2>1. ASSUME NEW i \in Job, i # j PROVE JobPhase(i)' /\ JobRefs(i)' /\ JobCopies(i)'
    <3>1. JobPhase(i) /\ JobRefs(i) /\ JobCopies(i)
      BY <1>0, Zenon DEF JobInv
    <3>2. \A f \in outs[i] : meta[f] # "Normal"
      <4>1. pc[i] \in {"idle", "run", "rewrite", "delete"}
        BY <1>0, Zenon DEF TypeOK
      <4> QED
        BY <1>0, <3>1, <4>1, Zenon DEF OwnInv, OwnJob, JobPhase
    <3>3. \A f \in outs[i] : meta'[f] = meta[f]
      BY <1>0, <1>5, <3>2, Zenon DEF TypeOK
    <3>4. JobPhase(i)' /\ JobRefs(i)'
      BY <1>3, <1>4, <1>6, <2>1, <3>1, Zenon DEF JobPhase, JobRefs, HiddenUpTo,
         RecordOf, dbVars
    <3>5. JobCopies(i)'
      BY <1>3, <1>4, <1>6, <2>1, <3>1, <3>3, Zenon DEF JobCopies
    <3> QED
      BY <3>4, <3>5, Zenon
  <2>2. JobPhase(j)'
    BY <1>4, Zenon DEF JobPhase
  <2>3. JobRefs(j)'
    <3>1. \A e \in lsm : e.file \in S => <<e.file, RecordOf(e)>> \in AllRecords(S)
      BY <1>0, <1>2, <1>5 DEF RefInv, AllRecords, NumberTyping
    <3> QED
      BY <1>3, <1>4, <1>6, <1>9, <3>1, Zenon DEF JobRefs, RecordOf
  <2>4. JobCopies(j)'
    <3>1. \A x \in AllRecords(S) : x[1] \in S /\ x[2] \in content[x[1]]
      BY DEF AllRecords
    <3> QED
      BY <1>3, <1>4, <1>9, <3>1, Zenon DEF JobCopies
  <2> QED
    BY <2>1, <2>2, <2>3, <2>4, Zenon DEF JobInv
<1>13. ReadInv'
  <2>1. \A r \in reads : r[2].file \in File
    BY <1>0 DEF ReadInv, TypeOK, Entry, File0, File
  <2> QED
    BY <1>0, <1>3, <1>7, <2>1, Zenon DEF ReadInv, RecordOf, readVars, purgeVars
<1> QED
  BY <1>1, <1>3, <1>8, <1>10, <1>11, <1>12, <1>13, SeqFrame, TableFrame, Zenon DEF
     IInv, readVars, dbVars

\* An index whose record is not live is hidden by a newer entry.
LEMMA StaleIndex ==
    ASSUME IInv, NEW e \in lsm, NEW f, NEW r, e.file = f, RecordOf(e) = r, ~LiveIndex(f, r)
    PROVE  HiddenUpTo(e, lastSeq)
<1>0. TypeOK /\ SeqInv /\ FileInv /\ OwnInv /\ RefInv /\ TableInv /\ JobInv /\ ReadInv
  BY Zenon DEF IInv
<1>1. EntryTyping
  BY <1>0, EntryTypingHolds, Zenon
<1>2. e.key = r.key /\ e.off = r.off
  BY Zenon DEF RecordOf
<1>3. PICK x \in lsm : x.key = r.key /\ ~(x.seq <= e.seq)
  BY <1>2, Zenon DEF LiveIndex
<1> QED
  BY <1>0, <1>1, <1>2, <1>3 DEF HiddenUpTo, EntryTyping, SeqInv
\* DiscardEntry drops a record only when nobody will need it.
LEMMA DiscardRecordStep ==
    ASSUME IInv, NEW j \in Job, NEW x \in todo[j], DiscardRecord(j, x[1], x[2]) PROVE IInv'
<1>0. TypeOK /\ SeqInv /\ FileInv /\ OwnInv /\ RefInv /\ TableInv /\ JobInv /\ ReadInv
  BY Zenon DEF IInv
<1>1. TypeOK'
  BY <1>0, GCType, Zenon DEF GC
<1>2. UNCHANGED <<dbVars, readVars, fileVars, tableVars, pc, inputs, fresh, outs, batch,
                  purgeVars>>
  BY Zenon DEF DiscardRecord
<1>3. /\ pc[j] = "run"
      /\ x[2].key \in fresh[j] \/ ~LiveIndex(x[1], x[2])
      /\ x = <<x[1], x[2]>>
      /\ todo'[j] = todo[j] \ {x} /\ \A i \in Job : i # j => todo'[i] = todo[i]
  BY <1>0 DEF DiscardRecord, TypeOK
<1>4. JobInv'
  <2> SUFFICES ASSUME NEW i \in Job PROVE JobPhase(i)' /\ JobRefs(i)' /\ JobCopies(i)'
    BY Zenon DEF JobInv
  <2>1. JobPhase(i) /\ JobRefs(i) /\ JobCopies(i) /\ todo'[i] \subseteq todo[i]
    BY <1>0, <1>3, Zenon DEF JobInv
  <2>2. JobPhase(i)' /\ JobCopies(i)'
    BY <1>2, <2>1, Zenon DEF JobPhase, JobCopies, fileVars, dbVars, lsm
  <2>3. CASE i # j
    BY <1>2, <1>3, <2>1, <2>2, <2>3, Zenon DEF JobRefs, HiddenUpTo, dbVars, lsm
  <2>4. CASE i = j
    <3>1. ASSUME NEW e \in lsm, e.file \in inputs[j], <<e.file, RecordOf(e)>> = x
          PROVE  HiddenUpTo(e, lastSeq)
      <4>1. e.file = x[1] /\ RecordOf(e) = x[2] /\ e.key = x[2].key
        BY <3>1, Zenon DEF RecordOf
      <4> QED
        BY <1>3, <2>1, <2>4, <3>1, <4>1, StaleIndex, Zenon DEF JobRefs
    <3>2. JobRefs(j)'
      BY <1>2, <1>3, <2>1, <2>4, <3>1, Zenon DEF JobRefs, HiddenUpTo, RecordOf,
         dbVars, lsm
    <3> QED
      BY <2>2, <2>4, <3>2, Zenon
  <2> QED
    BY <2>3, <2>4, Zenon
<1> QED
  BY <1>1, <1>2, <1>4, SeqFrame, FileFrame, OwnFrame, RefFrame, TableFrame,
     ReadFrame, Zenon
     DEF IInv, dbVars, readVars, fileVars, tableVars, purgeVars

\* KeepRecord copies the newest version of the key; every other record of the key
\* that is still to be scanned is older.
LEMMA KeepRecordStep ==
    ASSUME IInv, NEW j \in Job, NEW x \in todo[j], NEW dst \in File0,
           KeepRecord(j, x[1], x[2], dst)
    PROVE  IInv'
<1>0. TypeOK /\ SeqInv /\ FileInv /\ OwnInv /\ RefInv /\ TableInv /\ JobInv /\ ReadInv
  BY Zenon DEF IInv
<1> DEFINE b0 == [src |-> x[1], rec |-> x[2], dst |-> dst]
<1>1. TypeOK'
  BY <1>0, GCType, Zenon DEF GC
<1>2. EntryTyping /\ NumberTyping /\ NumberTyping'
  BY <1>0, <1>1, EntryTypingHolds, NumberTypingHolds, NumberTypingHoldsP, Zenon
<1>3. UNCHANGED <<dbVars, readVars, meta, obsSeq, manifest, manNext, tableVars, pc, inputs,
                  purgeVars>>
  BY Zenon DEF KeepRecord
<1>4. /\ pc[j] = "run" /\ x[2].key \notin fresh[j] /\ LiveIndex(x[1], x[2])
      /\ x = <<x[1], x[2]>> /\ x[1] \in File /\ x[2] \in Record
      /\ todo'[j] = todo[j] \ {x} /\ fresh'[j] = fresh[j] \cup {x[2].key}
      /\ batch'[j] = batch[j] \cup {b0}
      /\ \A i \in Job : i # j => /\ todo'[i] = todo[i] /\ fresh'[i] = fresh[i]
                                 /\ batch'[i] = batch[i] /\ outs'[i] = outs[i]
  BY <1>0 DEF KeepRecord, TypeOK
<1>5. lsm' = lsm
  BY <1>3, Zenon DEF lsm, dbVars
<1>6. b0.src = x[1] /\ b0.rec = x[2] /\ b0.dst = dst
  BY Zenon
<1> HIDE DEF b0
<1>7. \/ dst = 0 /\ UNCHANGED <<nextFile, disk, content>> /\ outs'[j] = outs[j]
      \/ /\ dst = nextFile /\ dst \in File /\ nextFile' = nextFile + 1
         /\ disk' = disk \cup {dst} /\ content' = [content EXCEPT ![dst] = {x[2]}]
         /\ outs'[j] = outs[j] \cup {dst}
      \/ /\ dst \in outs[j] /\ dst \in File /\ UNCHANGED <<nextFile, disk>>
         /\ content' = [content EXCEPT ![dst] = @ \cup {x[2]}]
         /\ outs'[j] = outs[j]
  <2>1. outs \in [Job -> SUBSET File]
    BY <1>0, Zenon DEF TypeOK
  <2>2. CASE mode[j] = "fallback"
    BY <2>2, Zenon DEF KeepRecord
  <2>3. CASE /\ dst = nextFile /\ NewFile({x[2]})
             /\ outs' = [outs EXCEPT ![j] = @ \cup {dst}]
    BY <1>0, <2>3 DEF NewFile, File, TypeOK
  <2>4. CASE /\ dst \in outs[j]
             /\ content' = [content EXCEPT ![dst] = @ \cup {x[2]}]
             /\ UNCHANGED <<nextFile, disk, outs>>
    BY <2>1, <2>4, Zenon
  <2> QED
    BY <2>2, <2>3, <2>4, Zenon DEF KeepRecord
<1>8. /\ nextFile <= nextFile' /\ disk \subseteq disk'
      /\ \A f \in disk' : f \in disk \/ (f = nextFile /\ f < nextFile')
      /\ outs[j] \subseteq outs'[j]
      /\ \A f \in outs'[j] : f \in outs[j] \/ (f = nextFile /\ f < nextFile' /\ f \in disk')
  BY <1>2, <1>7 DEF NumberTyping
<1>9. /\ \A f \in File : f # dst => content'[f] = content[f]
      /\ dst # 0 => /\ dst \in File /\ dst \in outs'[j] /\ x[2] \in content'[dst]
                    /\ dst < nextFile => content'[dst] = content[dst] \cup {x[2]}
                    /\ \A r \in content'[dst] : r = x[2] \/ (dst \in outs[j] /\ r \in content[dst])
  <2>1. content \in [File -> SUBSET Record]
    BY <1>0, Zenon DEF TypeOK
  <2> QED
    BY <1>2, <1>7, <2>1 DEF NumberTyping
<1>10. \A f \in File : f < nextFile => content[f] \subseteq content'[f]
  BY <1>2, <1>9 DEF NumberTyping
<1>11. /\ nextFile \notin disk /\ nextFile \notin cand
       /\ nextFile \in File => meta[nextFile] = "none"
       /\ \A e \in lsm : e.file # nextFile
       /\ \A t \in Builder : tout[t] # nextFile
       /\ \A i \in Job : nextFile \notin inputs[i] \cup outs[i]
  BY <1>0, <1>2 DEF FileInv, FileBound, FileAgree, OwnInv, OwnBound, NumberTyping
<1>12. FileInv'
  <2>1. \A f \in disk' : f < nextFile'
    <3>1. disk \subseteq Nat
      BY <1>0, <1>2, Zenon DEF TypeOK, NumberTyping
    <3> QED
      BY <1>0, <1>2, <1>8, <3>1 DEF FileInv, FileBound, NumberTyping
  <2>2. /\ manNext' <= nextFile' /\ \A f \in cand' : meta'[f] = "none" /\ f < nextFile'
    <3>1. cand \subseteq Nat
      BY <1>0, <1>2, Zenon DEF TypeOK, NumberTyping
    <3> QED
      BY <1>0, <1>2, <1>3, <1>8, <3>1 DEF FileInv, FileBound, FileAgree,
         NumberTyping, purgeVars
  <2>3. \A f \in File : \A r, q \in content'[f] : r.key = q.key /\ r.off = q.off => r = q
    <3>1. \A r \in content'[dst] : dst # 0 => r = x[2] \/ (r \in content[dst] /\ r.key # x[2].key)
      BY <1>0, <1>4, <1>9 DEF JobInv, JobCopies
    <3> QED
      BY <1>0, <1>2, <1>9, <3>1 DEF FileInv, FileRecords, NumberTyping
  <2>4. FileBound'
    BY <1>0, <1>3, <1>5, <1>8, <2>1, <2>2, <2>3, Zenon DEF FileInv, FileBound
  <2>5. FileAgree'
    BY <1>0, <1>3, <1>5, <1>8, <2>1, <2>2, <2>3, Zenon DEF FileInv, FileAgree
  <2>6. FileRecords'
    BY <1>0, <1>3, <1>5, <1>8, <2>1, <2>2, <2>3, Zenon DEF FileInv, FileRecords
  <2> QED
    BY <2>4, <2>5, <2>6, Zenon DEF FileInv, FileBound
<1>13. OwnInv'
  <2>1. \A i \in Job : \A f \in outs'[i] : f \in outs[i] \/ (i = j /\ f = nextFile /\ f \in File
                                              /\ f < nextFile' /\ f \in disk')
    BY <1>1, <1>4, <1>8, Zenon DEF TypeOK
  <2>2. \A t \in Builder : tout[t] < nextFile'
    BY <1>0, <1>2, <1>8 DEF OwnInv, OwnBound, NumberTyping
  <2>3. \A i \in Job : \A f \in inputs[i] \cup outs'[i] : f < nextFile'
    <3>1. \A i \in Job : inputs[i] \cup outs[i] \subseteq Nat
      BY <1>0, <1>2, Zenon DEF TypeOK, NumberTyping
    <3> QED
      BY <1>0, <1>2, <1>8, <2>1, <3>1 DEF OwnInv, OwnBound, NumberTyping
  <2>4. /\ \A t \in Builder, i \in Job : tout[t] \notin inputs[i] \cup outs'[i]
        /\ \A i, k \in Job : inputs[i] \cap outs'[k] = {}
        /\ \A i, k \in Job : i # k => outs'[i] \cap outs'[k] = {}
    BY <1>0, <1>11, <2>1 DEF OwnInv, OwnApart
  <2>5. \A i \in Job : pc[i] = "run" => \A f \in outs'[i] :
           /\ meta[f] = "none" /\ f \in disk' /\ f \notin cand
           /\ \A e \in lsm : e.file # f
    BY <1>0, <1>8, <1>11, <2>1 DEF OwnInv, OwnJob
  <2>6. \A i \in Job : pc[i] \in {"rewrite", "delete"} => \A f \in outs'[i] :
           meta[f] \in {"PendingGC", "Obsolete", "none"} /\ f < manNext
    BY <1>0, <1>4, <2>1, Zenon DEF OwnInv, OwnJob
  <2>7. \A t \in Builder : tpc[t] = "built" /\ tout[t] # 0 =>
           /\ meta[tout[t]] = "none" /\ tout[t] \in disk' /\ tout[t] \notin cand
           /\ \A e \in lsm : e.file # tout[t]
    BY <1>0, <1>8, Zenon DEF OwnInv, OwnBuilder
  <2>8. OwnBound'
    BY <1>0, <1>3, <1>5, <2>2, <2>3, <2>4, <2>5, <2>6, <2>7, Zenon DEF OwnInv,
       OwnBound, tableVars, purgeVars
  <2>9. OwnApart'
    BY <1>0, <1>3, <1>5, <2>2, <2>3, <2>4, <2>5, <2>6, <2>7, Zenon DEF OwnInv,
       OwnApart, tableVars, purgeVars
  <2>10. OwnBuilder'
    BY <1>0, <1>3, <1>5, <2>2, <2>3, <2>4, <2>5, <2>6, <2>7, Zenon DEF OwnInv,
       OwnBuilder, tableVars, purgeVars
  <2>11. OwnJob'
    BY <1>0, <1>3, <1>5, <2>2, <2>3, <2>4, <2>5, <2>6, <2>7, Zenon DEF OwnInv,
       OwnJob, tableVars, purgeVars
  <2> QED
    BY <2>8, <2>9, <2>10, <2>11, Zenon DEF OwnInv, OwnBound
<1>14. RefInv'
  BY <1>3, <1>10, RefGrow, Zenon DEF dbVars, readVars
<1>15. TableInv'
  <2> SUFFICES ASSUME NEW t \in Builder, Running(t)
               PROVE  TableSrc(t)' /\ TableDst(t)' /\ TableDrop(t)'
    BY <1>3, Zenon DEF TableInv, Running, tableVars
  <2>1. TableSrc(t) /\ TableDst(t) /\ TableDrop(t)
    BY <1>0, Zenon DEF TableInv
  <2>2. tout[t] # 0 => content[tout[t]] \subseteq content'[tout[t]]
    BY <1>0, <1>10, FileTypingHolds, Zenon DEF OwnInv, OwnBound, FileTyping
  <2>3. TableSrc(t)' /\ TableDrop(t)'
    BY <1>3, <1>5, <2>1, Zenon DEF TableSrc, TableDrop, SameVersion, SeenBetween,
       dbVars, readVars,
       tableVars
  <2>4. TableDst(t)'
    BY <1>3, <2>1, <2>2, Zenon DEF TableDst, RecordOf, SameVersion, tableVars
  <2> QED
    BY <2>3, <2>4, Zenon
<1>16. ASSUME NEW i \in Job, i # j PROVE JobPhase(i)' /\ JobRefs(i)' /\ JobCopies(i)'
  <2>1. JobPhase(i) /\ JobRefs(i) /\ JobCopies(i)
    BY <1>0, Zenon DEF JobInv
  <2>2. \A f \in inputs[i] \cup outs[i] : f # dst /\ f \in File
    <3>1. \A f \in inputs[i] \cup outs[i] : f \in File /\ f # 0
      BY <1>0, <1>2 DEF TypeOK, NumberTyping
    <3>2. \A f \in inputs[i] \cup outs[i] : f \notin outs[j]
      BY <1>0, <1>16, Zenon DEF OwnInv, OwnApart
    <3> QED
      BY <1>7, <1>11, <3>1, <3>2
  <2>3. \A f \in inputs[i] \cup outs[i] : content'[f] = content[f]
    BY <1>9, <2>2, Zenon
  <2>4. JobPhase(i)' /\ JobRefs(i)'
    BY <1>3, <1>4, <1>5, <1>16, <2>1, Zenon DEF JobPhase, JobRefs, HiddenUpTo,
       RecordOf, dbVars
  <2>5. JobCopies(i)'
    BY <1>3, <1>4, <1>5, <1>16, <2>1, <2>3 DEF JobCopies
  <2> QED
    BY <2>4, <2>5, Zenon
<1>17. JobPhase(j) /\ JobRefs(j) /\ JobCopies(j)
  BY <1>0, Zenon DEF JobInv
<1>18. JobPhase(j)'
  BY <1>3, <1>4, Zenon DEF JobPhase
<1>19. JobRefs(j)'
  <2>1. ASSUME NEW e \in lsm, e.file \in inputs[j], e.key = x[2].key,
               <<e.file, RecordOf(e)>> \in todo[j], <<e.file, RecordOf(e)>> # x
        PROVE  HiddenUpTo(e, lastSeq)
    <3>1. PICK y \in lsm : /\ y.key = x[2].key /\ y.file = x[1] /\ y.off = x[2].off
                           /\ \A z \in lsm : z.key = x[2].key => z.seq <= y.seq
      BY <1>4, Zenon DEF LiveIndex
    <3>2. y.seq <= lastSeq /\ e.seq <= y.seq /\ e.seq \in Nat /\ y.seq \in Nat
      BY <1>0, <1>2, <2>1, <3>1, Zenon DEF EntryTyping, SeqInv
    <3>3. CASE e.seq = y.seq
      <4>1. e = y
        BY <1>0, <2>1, <3>1, <3>3, Zenon DEF SeqInv, SameVersion
      <4>2. RecordOf(e) \in content[x[1]] /\ x[2] \in content[x[1]]
        BY <1>17, <2>1, <3>1, <4>1, Zenon DEF JobCopies
      <4>3. RecordOf(e) = x[2]
        BY <1>0, <1>4, <3>1, <4>1, <4>2, Zenon DEF FileInv, FileRecords, RecordOf
      <4> QED
        BY <1>4, <2>1, <3>1, <4>1, <4>3, Zenon
    <3> QED
      BY <2>1, <3>1, <3>2, <3>3 DEF HiddenUpTo
  <2>2. \A e \in lsm : e.file \in inputs[j] =>
          /\ \/ <<e.file, RecordOf(e)>> \in todo[j] \ {x}
             \/ \E b \in batch[j] \cup {b0} : b.src = e.file /\ b.rec = RecordOf(e)
             \/ HiddenUpTo(e, lastSeq)
          /\ e.key \in fresh[j] \cup {x[2].key} /\ <<e.file, RecordOf(e)>> \in todo[j] \ {x}
             => HiddenUpTo(e, lastSeq)
    BY <1>4, <1>6, <1>17, <2>1 DEF JobRefs
  <2> QED
    BY <1>3, <1>4, <1>5, <2>2, Zenon DEF JobRefs, HiddenUpTo, RecordOf, dbVars
<1>20. JobCopies(j)'
  <2>1. \A f \in inputs[j] : content'[f] = content[f]
    BY <1>0, <1>7, <1>9, <1>11, FileTypingHolds DEF OwnInv, OwnApart, FileTyping
  <2>2. \A f \in outs[j] : content[f] \subseteq content'[f]
    BY <1>0, <1>10, Zenon DEF OwnInv, OwnBound, TypeOK
  <2>3. \A y \in todo'[j] : y[1] \in inputs[j] /\ y[2] \in content'[y[1]]
    BY <1>4, <1>17, <2>1, Zenon DEF JobCopies
  <2>4. \A b \in batch'[j] : /\ b.src \in inputs[j] /\ b.rec \in content'[b.src]
                             /\ b.dst # 0 => b.dst \in outs'[j] /\ b.rec \in content'[b.dst]
    BY <1>4, <1>6, <1>8, <1>9, <1>17, <2>1, <2>2 DEF JobCopies
  <2>5. \A f \in outs'[j] : \A r \in content'[f] : r.key \in fresh'[j]
    <3> SUFFICES ASSUME NEW f \in outs'[j], NEW r \in content'[f] PROVE r.key \in fresh'[j]
      BY Zenon
    <3>1. f \in File
      BY <1>1, Zenon DEF TypeOK
    <3>2. CASE f # dst
      <4>1. f \in outs[j]
        BY <1>7, <3>2, Zenon
      <4> QED
        BY <1>4, <1>9, <1>17, <3>1, <3>2, <4>1, Zenon DEF JobCopies
    <3>3. CASE f = dst
      BY <1>2, <1>4, <1>9, <1>17, <3>1, <3>3 DEF JobCopies, NumberTyping
    <3> QED
      BY <3>2, <3>3, Zenon
  <2> QED
    BY <1>3, <1>4, <2>3, <2>4, <2>5, Zenon DEF JobCopies
<1>21. ReadInv'
  BY <1>2, <1>3, <1>8, <1>10, ReadGrow, Zenon DEF NumberTyping, readVars, purgeVars
<1> QED
  BY <1>1, <1>3, <1>12, <1>13, <1>14, <1>15, <1>16, <1>18, <1>19, <1>20, <1>21,
     SeqFrame, Zenon
     DEF IInv, JobInv, readVars

\* InstallOutputBlobFiles: no index points into the outputs yet.
LEMMA InstallOutputsStep == ASSUME IInv, NEW j \in Job, InstallOutputs(j) PROVE IInv'
<1>0. TypeOK /\ SeqInv /\ FileInv /\ OwnInv /\ RefInv /\ TableInv /\ JobInv /\ ReadInv
  BY Zenon DEF IInv
<1>1. TypeOK'
  BY <1>0, GCType, Zenon DEF GC
<1>2. EntryTyping /\ NumberTyping
  BY <1>0, EntryTypingHolds, NumberTypingHolds, Zenon
<1>3. /\ UNCHANGED <<dbVars, readVars, nextFile, disk, content, obsSeq, tableVars, inputs, todo,
                     fresh, outs, batch, purgeVars>>
      /\ manNext' = nextFile
  BY Zenon DEF InstallOutputs
<1>4. /\ pc[j] = "run" /\ pc'[j] = "rewrite" /\ todo[j] = {}
      /\ \A i \in Job : i # j => pc'[i] = pc[i]
  BY <1>0, Zenon DEF InstallOutputs, TypeOK
<1>5. /\ outs[j] \subseteq File
      /\ \A f \in outs[j] : /\ meta[f] = "none" /\ meta'[f] = "PendingGC" /\ f \in disk
                            /\ f \notin cand /\ f < nextFile
                            /\ \A e \in lsm : e.file # f
      /\ \A f \in File : f \notin outs[j] => meta'[f] = meta[f]
      /\ manifest' = manifest \cup outs[j]
  <2>1. outs[j] \subseteq File
    BY <1>0, Zenon DEF TypeOK
  <2> QED
    BY <1>0, <1>4, <2>1, Zenon DEF InstallOutputs, OwnInv, OwnBound, OwnJob
<1>6. lsm' = lsm
  BY <1>3, Zenon DEF lsm, dbVars
<1>7. FileInv'
  <2>1. \A f \in File : f \in manifest' <=> meta'[f] \in LiveState
    BY <1>0, <1>5, Zenon DEF FileInv, FileAgree, LiveState
  <2>2. \A f \in File : meta'[f] # "none" => f \in disk'
    BY <1>0, <1>3, <1>5, Zenon DEF FileInv, FileAgree
  <2>3. \A f \in manifest' : f < manNext'
    <3>1. manifest \subseteq Nat
      BY <1>0, <1>2, Zenon DEF TypeOK, NumberTyping
    <3>2. \A f \in manifest : f < nextFile
      BY <1>0, <1>2, <3>1 DEF FileInv, FileBound, NumberTyping
    <3> QED
      BY <1>3, <1>5, <3>2, Zenon
  <2>4. \A e \in lsm' : e.file < manNext'
    BY <1>0, <1>2, <1>3, <1>6 DEF FileInv, FileBound, NumberTyping, EntryTyping
  <2>5. \A f \in cand' : meta'[f] = "none" /\ f < nextFile'
    BY <1>0, <1>3, <1>5, FileTypingHolds, Zenon DEF FileInv, FileBound, FileAgree,
       FileTyping, purgeVars
  <2>6. FileBound'
    BY <1>0, <1>2, <1>3, <2>3, <2>4, <2>5 DEF FileInv, FileBound, NumberTyping
  <2>7. FileAgree'
    BY <1>0, <1>2, <1>3, <2>1, <2>2, <2>3, <2>4, <2>5, Zenon DEF FileInv, FileAgree,
       NumberTyping
  <2>8. FileRecords'
    BY <1>0, <1>2, <1>3, <2>1, <2>2, <2>3, <2>4, <2>5, Zenon DEF FileInv,
       FileRecords, NumberTyping
  <2> QED
    BY <2>6, <2>7, <2>8, Zenon DEF FileInv, FileBound
<1>8. OwnInv'
  <2>1. \A t \in Builder : tout[t] # 0 => meta'[tout[t]] = meta[tout[t]]
    BY <1>0, <1>5, FileTypingHolds, Zenon DEF OwnInv, OwnApart, FileTyping
  <2>2. \A i \in Job : \A f \in inputs[i] : meta'[f] = meta[f]
    BY <1>0, <1>5, FileTypingHolds, Zenon DEF OwnInv, OwnApart, FileTyping
  <2>3. \A i \in Job : i # j => \A f \in outs[i] : meta'[f] = meta[f]
    BY <1>0, <1>5, FileTypingHolds, Zenon DEF OwnInv, OwnApart, FileTyping
  <2>4. \A i \in Job : pc'[i] = "run" => \A f \in outs[i] :
           /\ meta'[f] = "none" /\ f \in disk /\ f \notin cand
           /\ \A e \in lsm : e.file # f
    BY <1>0, <1>4, <2>3, Zenon DEF OwnInv, OwnJob
  <2>5. \A i \in Job : pc'[i] \in {"rewrite", "delete"} => \A f \in outs[i] :
           meta'[f] \in {"PendingGC", "Obsolete", "none"} /\ f < nextFile
    BY <1>0, <1>4, <1>5, <2>3 DEF OwnInv, OwnBound, OwnJob
  <2>6. OwnBound'
    BY <1>0, <1>3, <1>6, <2>1, <2>2, <2>4, <2>5, Zenon DEF OwnInv, OwnBound,
       tableVars, purgeVars
  <2>7. OwnApart'
    BY <1>0, <1>3, <1>6, <2>1, <2>2, <2>4, <2>5, Zenon DEF OwnInv, OwnApart,
       tableVars, purgeVars
  <2>8. OwnBuilder'
    BY <1>0, <1>3, <1>6, <2>1, Zenon DEF OwnInv, OwnBuilder, tableVars, purgeVars
  <2>9. OwnJob'
    BY <1>0, <1>3, <1>6, <2>2, <2>4, <2>5 DEF OwnInv, OwnJob, purgeVars
  <2> QED
    BY <2>6, <2>7, <2>8, <2>9, Zenon DEF OwnInv, OwnBound
<1>9. RefInv'
  BY <1>0, <1>2, <1>3, <1>5, <1>6 DEF RefInv, EntryTyping, dbVars, readVars
<1>10. JobInv'
  <2> SUFFICES ASSUME NEW i \in Job PROVE JobPhase(i)' /\ JobRefs(i)' /\ JobCopies(i)'
    BY Zenon DEF JobInv
  <2>1. JobPhase(i) /\ JobRefs(i) /\ JobCopies(i)
    BY <1>0, Zenon DEF JobInv
  <2>2. JobPhase(i)'
    BY <1>3, <1>4, <2>1, Zenon DEF JobPhase
  <2>3. JobRefs(i)'
    BY <1>3, <1>4, <1>6, <2>1, Zenon DEF JobRefs, HiddenUpTo, RecordOf, dbVars
  <2>4. i # j => \A f \in outs[i] : meta'[f] = meta[f]
    BY <1>0, <1>5, FileTypingHolds, Zenon DEF OwnInv, OwnApart, FileTyping
  <2>5. JobCopies(i)'
    BY <1>3, <1>4, <1>5, <1>6, <2>1, <2>4 DEF JobCopies
  <2> QED
    BY <2>2, <2>3, <2>5, Zenon
<1>11. ReadInv'
  <2>1. \A r \in reads : r[2].file \in File
    BY <1>0 DEF ReadInv, TypeOK, Entry, File0, File
  <2> QED
    BY <1>0, <1>3, <1>5, <2>1, Zenon DEF ReadInv, RecordOf, readVars, purgeVars
<1> QED
  BY <1>1, <1>3, <1>7, <1>8, <1>9, <1>10, <1>11, SeqFrame, TableFrame, Zenon DEF
     IInv, dbVars, readVars

=============================================================================
