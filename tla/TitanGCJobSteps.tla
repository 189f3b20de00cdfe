---------------------------- MODULE TitanGCJobSteps ----------------------------
(***************************************************************************)
(* Rewriting the indexes, flushing the WAL and dropping the inputs         *)
(* preserve IInv, and so does every step of a job.                         *)
(***************************************************************************)
EXTENDS TitanGCScanSteps

\* A live index in a batch is to the record the batch names.
LEMMA LiveBatch ==
    ASSUME IInv, NEW j \in Job, NEW b \in batch[j], NEW e \in lsm,
           e.key = b.rec.key, e.file = b.src, e.off = b.rec.off,
           \A x \in lsm : x.key = e.key => x.seq <= e.seq
    PROVE  RecordOf(e) = b.rec
<1>0. TypeOK /\ SeqInv /\ FileInv /\ OwnInv /\ RefInv /\ TableInv /\ JobInv /\ ReadInv
  BY Zenon DEF IInv
<1>1. EntryTyping /\ NumberTyping
  BY <1>0, EntryTypingHolds, NumberTypingHolds, Zenon
<1>2. b.src \in inputs[j] /\ b.rec \in content[b.src]
  BY <1>0, Zenon DEF JobInv, JobCopies
<1>3. b.src \in File /\ b.src # 0
  BY <1>0, <1>1, <1>2 DEF TypeOK, NumberTyping
<1>4. \A x \in lsm : x.key = e.key => ~(e.seq < x.seq)
  BY <1>1 DEF EntryTyping
<1>5. RecordOf(e) \in content[b.src]
  BY <1>0, <1>3, <1>4, Zenon DEF RefInv
<1>6. RecordOf(e).key = b.rec.key /\ RecordOf(e).off = b.rec.off
  BY Zenon DEF RecordOf
<1> QED
  BY <1>0, <1>2, <1>3, <1>5, <1>6, Zenon DEF FileInv, FileRecords
\* RewriteValidKeyToLSM: the callback finds the old index unchanged and the new one
\* hides it, or something newer has hidden it already.
LEMMA RewriteKeyStep == ASSUME IInv, NEW j \in Job, NEW b \in batch[j], RewriteKey(j, b) PROVE IInv'
<1>0. TypeOK /\ SeqInv /\ FileInv /\ OwnInv /\ RefInv /\ TableInv /\ JobInv /\ ReadInv
  BY Zenon DEF IInv
<1> DEFINE new == [key |-> b.rec.key, seq |-> lastSeq + 1, org |-> b.rec.org,
                   file |-> b.dst, off |-> IF b.dst = 0 THEN 0 ELSE b.rec.off]
<1>1. TypeOK'
  BY <1>0, GCType, Zenon DEF GC
<1>2. EntryTyping /\ NumberTyping /\ EntryTyping'
  BY <1>0, <1>1, EntryTypingHolds, NumberTypingHolds, EntryTypingHoldsP, Zenon
<1>3. UNCHANGED <<sst, durSeq, readVars, fileVars, tableVars, pc, inputs, todo, fresh, outs, purgeVars>>
  BY Zenon DEF RewriteKey
<1>4. /\ pc[j] = "rewrite" /\ batch'[j] = batch[j] \ {b}
      /\ \A i \in Job : i # j => batch'[i] = batch[i]
  BY <1>0, Zenon DEF RewriteKey, TypeOK
<1>5. JobPhase(j) /\ JobRefs(j) /\ JobCopies(j)
  BY <1>0, Zenon DEF JobInv
<1>6. b \in Rewrite /\ b.src \in File /\ b.rec \in Record /\ b.src \in inputs[j] /\ todo[j] = {}
  BY <1>0, <1>4, <1>5, Zenon DEF TypeOK, Rewrite, JobCopies, JobPhase
<1>7. \A i \in Job : batch'[i] \subseteq batch[i]
  BY <1>4, Zenon
<1>8. CASE ~LiveIndex(b.src, b.rec)
  <2>1. UNCHANGED <<mem, lastSeq>> /\ lsm' = lsm
    BY <1>3, <1>8, Zenon DEF RewriteKey, lsm
  <2>2. ASSUME NEW e \in lsm, b.src = e.file, b.rec = RecordOf(e)
        PROVE  HiddenUpTo(e, lastSeq)
    BY <1>8, <2>2, StaleIndex, Zenon
  <2>3. JobInv'
    <3> SUFFICES ASSUME NEW i \in Job PROVE JobPhase(i)' /\ JobRefs(i)' /\ JobCopies(i)'
      BY Zenon DEF JobInv
    <3>1. JobPhase(i) /\ JobRefs(i) /\ JobCopies(i)
      BY <1>0, Zenon DEF JobInv
    <3>2. JobPhase(i)' /\ JobCopies(i)'
      BY <1>3, <1>7, <2>1, <3>1, Zenon DEF JobPhase, JobCopies, fileVars
    <3>3. JobRefs(i)'
      BY <1>3, <1>4, <2>1, <2>2, <3>1, Zenon DEF JobRefs, HiddenUpTo, RecordOf
    <3> QED
      BY <3>2, <3>3, Zenon
  <2> QED
    BY <1>0, <1>1, <1>3, <2>1, <2>3, SeqFrame, FileFrame, OwnFrame, RefFrame,
       TableFrame, ReadFrame, Zenon
       DEF IInv, dbVars, readVars, fileVars, tableVars, purgeVars
<1>9. CASE LiveIndex(b.src, b.rec)
  <2>1. /\ mem' = mem \cup {new} /\ lastSeq' = lastSeq + 1 /\ lsm' = lsm \cup {new}
    BY <1>3, <1>9, Zenon DEF RewriteKey, lsm
  <2>2. PICK e \in lsm : /\ e.key = b.rec.key /\ e.file = b.src /\ e.off = b.rec.off
                         /\ \A x \in lsm : x.key = b.rec.key => x.seq <= e.seq
    BY <1>9, Zenon DEF LiveIndex
  <2>3. b.rec = RecordOf(e) /\ e.org = b.rec.org /\ e.org # 0
    <3>1. b.rec = RecordOf(e)
      BY <2>2, LiveBatch, Zenon
    <3>2. e.file # 0
      BY <1>2, <1>6, <2>2 DEF NumberTyping
    <3>3. e.org # 0
      BY <1>0, <3>2, Zenon DEF SeqInv
    <3> QED
      BY <3>1, <3>3 DEF RecordOf
  <2>4. /\ new.key = b.rec.key /\ new.seq = lastSeq + 1 /\ new.org = b.rec.org
        /\ new.file = b.dst /\ (b.dst # 0 => RecordOf(new) = b.rec)
    BY <1>6, Zenon DEF RecordOf, Record
  <2>5. b.dst # 0 => /\ b.dst \in outs[j] /\ b.dst < manNext /\ meta[b.dst] = "PendingGC"
                     /\ b.rec \in content[b.dst] /\ b.dst \in File
    <3>1. b.dst # 0 => /\ b.dst \in outs[j] /\ meta[b.dst] = "PendingGC"
                       /\ b.rec \in content[b.dst]
      BY <1>4, <1>5, <2>2, Zenon DEF JobCopies
    <3>2. outs[j] \subseteq File /\ \A f \in outs[j] : f < manNext
      BY <1>0, <1>4, FileTypingHolds, Zenon DEF OwnInv, OwnJob, FileTyping
    <3> QED
      BY <3>1, <3>2, Zenon
  <2> HIDE DEF new
  <2>6. SeqInv'
    BY <1>0, <1>2, <1>3, <2>1, <2>3, <2>4 DEF SeqInv, NumberTyping, EntryTyping,
       readVars, SameVersion, lsm
  <2>7. FileInv'
    <3>1. new.file < manNext
      BY <1>2, <2>4, <2>5 DEF NumberTyping
    <3>2. FileBound'
      BY <1>0, <1>3, <2>1, <3>1, Zenon DEF FileInv, FileBound, fileVars, purgeVars
    <3>3. FileAgree'
      BY <1>0, <1>3, <2>1, <3>1, Zenon DEF FileInv, FileAgree, fileVars, purgeVars
    <3>4. FileRecords'
      BY <1>0, <1>3, <2>1, <3>1, Zenon DEF FileInv, FileRecords, fileVars, purgeVars
    <3> QED
      BY <3>2, <3>3, <3>4, Zenon DEF FileInv, FileBound
  <2>8. OwnInv'
    <3>1. \A t \in Builder : tpc[t] = "built" /\ tout[t] # 0 => new.file # tout[t]
      BY <1>0, <2>4, <2>5, Zenon DEF OwnInv, OwnApart
    <3>2. \A i \in Job : pc[i] = "run" => \A f \in outs[i] : new.file # f
      <4>1. \A i \in Job : 0 \notin outs[i]
        BY <1>0, <1>2 DEF TypeOK, NumberTyping
      <4>2. \A i \in Job : i # j => outs[i] \cap outs[j] = {}
        BY <1>0, Zenon DEF OwnInv, OwnApart
      <4> QED
        BY <1>4, <2>4, <2>5, <4>1, <4>2
    <3>3. OwnBound'
      BY <1>0, <1>3, <2>1, <3>1, <3>2, Zenon DEF OwnInv, OwnBound, fileVars,
         tableVars, purgeVars
    <3>4. OwnApart'
      BY <1>0, <1>3, <2>1, <3>1, <3>2, Zenon DEF OwnInv, OwnApart, fileVars,
         tableVars, purgeVars
    <3>5. OwnBuilder'
      BY <1>0, <1>3, <2>1, <3>1, <3>2, Zenon DEF OwnInv, OwnBuilder, fileVars,
         tableVars, purgeVars
    <3>6. OwnJob'
      BY <1>0, <1>3, <2>1, <3>1, <3>2, Zenon DEF OwnInv, OwnJob, fileVars,
         tableVars, purgeVars
    <3> QED
      BY <3>3, <3>4, <3>5, <3>6, Zenon DEF OwnInv, OwnBound
  <2>9. RefInv'
    BY <1>0, <1>3, <2>1, <2>4, <2>5 DEF RefInv, LiveState, fileVars, readVars
  <2>10. TableInv'
    BY <1>0, <1>3, <2>1, <2>4, TableNewest, Zenon DEF readVars, fileVars
  <2>11. JobInv'
    <3> SUFFICES ASSUME NEW i \in Job PROVE JobPhase(i)' /\ JobRefs(i)' /\ JobCopies(i)'
      BY Zenon DEF JobInv
    <3>1. JobPhase(i) /\ JobRefs(i) /\ JobCopies(i)
      BY <1>0, Zenon DEF JobInv
    <3>2. new.file \notin inputs[i]
      BY <1>0, <1>2, <2>4, <2>5, FileTypingHolds, Zenon DEF OwnInv, OwnJob,
         FileTyping, NumberTyping
    <3>3. JobPhase(i)'
      BY <1>3, <1>7, <3>1, Zenon DEF JobPhase
    <3>4. \A d \in lsm : /\ HiddenUpTo(d, lastSeq) => HiddenUpTo(d, lastSeq)'
                         /\ HiddenUpTo(d, durSeq) => HiddenUpTo(d, durSeq)'
      BY <1>2, <1>3, <2>1 DEF HiddenUpTo, EntryTyping, NumberTyping
    <3>5. ASSUME NEW d \in lsm, RecordOf(d) = b.rec PROVE HiddenUpTo(d, lastSeq)'
      <4>1. d.key = new.key /\ d.seq <= lastSeq /\ d.seq \in Nat
        BY <1>0, <1>2, <2>4, <3>5 DEF RecordOf, SeqInv, EntryTyping
      <4> QED
        BY <1>2, <2>1, <2>4, <4>1 DEF HiddenUpTo, NumberTyping
    <3>6. \A d \in lsm : d.file \in inputs[i] =>
            /\ \/ <<d.file, RecordOf(d)>> \in todo[i]
               \/ \E c \in batch'[i] : c.src = d.file /\ c.rec = RecordOf(d)
               \/ HiddenUpTo(d, IF pc[i] = "delete" THEN durSeq ELSE lastSeq)'
            /\ d.key \in fresh[i] /\ <<d.file, RecordOf(d)>> \in todo[i]
               => HiddenUpTo(d, lastSeq)'
      BY <1>3, <1>4, <3>1, <3>4, <3>5, Zenon DEF JobRefs
    <3>7. JobRefs(i)'
      BY <1>3, <2>1, <3>2, <3>6, Zenon DEF JobRefs, RecordOf
    <3>8. JobCopies(i)'
      BY <1>3, <1>7, <2>1, <3>1, <3>2, Zenon DEF JobCopies, fileVars
    <3> QED
      BY <3>3, <3>7, <3>8, Zenon
  <2>12. ReadInv'
    BY <1>0, <1>3, ReadFrame, Zenon DEF readVars, fileVars, purgeVars
  <2> QED
    BY <1>1, <2>6, <2>7, <2>8, <2>9, <2>10, <2>11, <2>12, Zenon DEF IInv
<1> QED
  BY <1>8, <1>9, Zenon
, Zenon
\* FlushWAL(true): what hides the inputs' indices is durable.
LEMMA FlushWALStep == ASSUME IInv, NEW j \in Job, FlushWAL(j) PROVE IInv'
<1>0. TypeOK /\ SeqInv /\ FileInv /\ OwnInv /\ RefInv /\ TableInv /\ JobInv /\ ReadInv
  BY Zenon DEF IInv
<1>1. TypeOK'
  BY <1>0, GCType, Zenon DEF GC
<1>2. EntryTyping /\ NumberTyping
  BY <1>0, EntryTypingHolds, NumberTypingHolds, Zenon
<1>3. UNCHANGED <<mem, sst, lastSeq, readVars, fileVars, tableVars, inputs, todo, fresh, outs,
                  batch, purgeVars>>
  BY Zenon DEF FlushWAL
<1>4. /\ pc[j] = "rewrite" /\ pc'[j] = "delete" /\ batch[j] = {} /\ durSeq' = lastSeq
      /\ \A i \in Job : i # j => pc'[i] = pc[i]
  BY <1>0, Zenon DEF FlushWAL, TypeOK
<1>5. lsm' = lsm /\ durSeq <= durSeq'
  BY <1>0, <1>3, <1>4, Zenon DEF lsm, SeqInv
<1>6. SeqInv'
  <2>1. \A e \in sst : e.seq <= durSeq'
    BY <1>0, <1>2, <1>4, Zenon DEF SeqInv, EntryTyping, lsm
  <2> QED
    BY <1>0, <1>2, <1>3, <1>4, <1>5, <2>1 DEF SeqInv, NumberTyping, readVars
<1>7. OwnInv'
  <2>1. OwnBound'
    BY <1>0, <1>3, <1>4, <1>5, Zenon DEF OwnInv, OwnBound, fileVars, tableVars,
       purgeVars
  <2>2. OwnApart'
    BY <1>0, <1>3, <1>4, <1>5, Zenon DEF OwnInv, OwnApart, fileVars, tableVars,
       purgeVars
  <2>3. OwnBuilder'
    BY <1>0, <1>3, <1>4, <1>5, Zenon DEF OwnInv, OwnBuilder, fileVars, tableVars,
       purgeVars
  <2>4. OwnJob'
    BY <1>0, <1>3, <1>4, <1>5, Zenon DEF OwnInv, OwnJob, fileVars, tableVars,
       purgeVars
  <2> QED
    BY <2>1, <2>2, <2>3, <2>4, Zenon DEF OwnInv, OwnBound
<1>8. RefInv'
  <2>1. \A x \in lsm : x.seq <= durSeq => x.seq <= durSeq'
    BY <1>2, <1>4, <1>5 DEF EntryTyping, NumberTyping
  <2> QED
    BY <1>0, <1>3, <1>5, <2>1 DEF RefInv, fileVars, readVars
<1>9. JobInv'
  <2> SUFFICES ASSUME NEW i \in Job PROVE JobPhase(i)' /\ JobRefs(i)' /\ JobCopies(i)'
    BY Zenon DEF JobInv
  <2>1. JobPhase(i) /\ JobRefs(i) /\ JobCopies(i)
    BY <1>0, Zenon DEF JobInv
  <2>2. JobPhase(i)' /\ JobCopies(i)'
    BY <1>3, <1>4, <1>5, <2>1, Zenon DEF JobPhase, JobCopies, fileVars
  <2>3. \A e \in lsm : /\ HiddenUpTo(e, durSeq) => HiddenUpTo(e, durSeq)'
                       /\ HiddenUpTo(e, lastSeq) => HiddenUpTo(e, durSeq)'
                       /\ HiddenUpTo(e, lastSeq) => HiddenUpTo(e, lastSeq)'
    BY <1>2, <1>3, <1>4, <1>5 DEF HiddenUpTo, EntryTyping, NumberTyping
  <2>4. JobRefs(i)'
    BY <1>3, <1>4, <1>5, <2>1, <2>3, Zenon DEF JobRefs, RecordOf
  <2> QED
    BY <2>2, <2>4, Zenon
<1> QED
  BY <1>1, <1>3, <1>6, <1>7, <1>8, <1>9, FileFrame, TableFrame, ReadFrame, Zenon
     DEF IInv, readVars, fileVars, purgeVars

\* What the end of a job, successful or not, does to the files and to the others.
\* S is the set of its inputs that become obsolete.
Released(j, S) ==
    /\ ReleaseGcFiles(j, [f \in File |-> IF f \in S THEN "Obsolete" ELSE meta[f]])
    /\ \A f \in S : meta[f] \notin {"none", "Obsolete"}
    /\ \A f \in File : obsSeq'[f] = IF f \in S THEN lastSeq ELSE obsSeq[f]
    /\ manifest' = manifest \ S /\ manNext' \in {manNext, nextFile}
    /\ S # {} => pc[j] = "delete"
    /\ disk' \in IF pc[j] = "run" THEN {disk, disk \ outs[j]} ELSE {disk}
    /\ UNCHANGED <<dbVars, readVars, nextFile, content, tableVars, purgeVars>>

\* The files that become obsolete are not needed and the others keep their states,
\* but for the outputs and the other inputs, which become normal.
LEMMA ReleaseStep ==
    ASSUME IInv, TypeOK', NEW j \in Job, NEW S \in SUBSET inputs[j], Released(j, S)
    PROVE  IInv'
<1>0. TypeOK /\ SeqInv /\ FileInv /\ OwnInv /\ RefInv /\ TableInv /\ JobInv /\ ReadInv
  BY Zenon DEF IInv
<1>1. EntryTyping /\ NumberTyping
  BY <1>0, EntryTypingHolds, NumberTypingHolds, Zenon
<1>r. /\ \A f \in S : meta[f] \notin {"none", "Obsolete"}
      /\ \A f \in File : obsSeq'[f] = IF f \in S THEN lastSeq ELSE obsSeq[f]
      /\ manifest' = manifest \ S /\ manNext' \in {manNext, nextFile}
      /\ S # {} => pc[j] = "delete"
      /\ UNCHANGED <<dbVars, readVars, nextFile, content, tableVars, purgeVars>>
  BY Zenon DEF Released
<1>2. /\ inputs[j] \subseteq File /\ outs[j] \subseteq File
      /\ pc'[j] = "idle" /\ inputs'[j] = {} /\ todo'[j] = {} /\ fresh'[j] = {} /\ outs'[j] = {}
      /\ batch'[j] = {}
      /\ \A i \in Job : i # j => /\ pc'[i] = pc[i] /\ inputs'[i] = inputs[i]
                                 /\ todo'[i] = todo[i] /\ fresh'[i] = fresh[i]
                                 /\ outs'[i] = outs[i] /\ batch'[i] = batch[i]
  <2>1. inputs[j] \subseteq File /\ outs[j] \subseteq File
    BY <1>0, FileTypingHolds, Zenon DEF FileTyping
  <2>2. /\ pc' = [pc EXCEPT ![j] = "idle"]
        /\ inputs' = [inputs EXCEPT ![j] = {}] /\ todo' = [todo EXCEPT ![j] = {}]
        /\ fresh' = [fresh EXCEPT ![j] = {}] /\ outs' = [outs EXCEPT ![j] = {}]
        /\ batch' = [batch EXCEPT ![j] = {}]
    BY Zenon DEF Released, ReleaseGcFiles
  <2>3. /\ DOMAIN pc = Job /\ DOMAIN inputs = Job /\ DOMAIN todo = Job
        /\ DOMAIN fresh = Job /\ DOMAIN outs = Job /\ DOMAIN batch = Job
    BY <1>0, Zenon DEF TypeOK
  <2> QED
    BY <2>1, <2>2, <2>3
<1>3. /\ \A f \in S : meta'[f] = "Obsolete"
      /\ \A f \in File \ S : \/ meta'[f] = meta[f]
                             \/ /\ meta[f] \in {"BeingGC", "PendingGC"} /\ meta'[f] = "Normal"
                                /\ f \in inputs[j] \cup outs[j]
  BY <1>2, Zenon DEF Released, ReleaseGcFiles
<1>4. lsm' = lsm
  BY <1>r, Zenon DEF lsm, dbVars
<1>5. \A f \in File \ S : /\ meta'[f] \in LiveState <=> meta[f] \in LiveState
                          /\ meta'[f] = "Obsolete" <=> meta[f] = "Obsolete"
                          /\ meta'[f] = "none" <=> meta[f] = "none"
  BY <1>3, Zenon DEF LiveState
<1>6. /\ disk' \subseteq disk
      /\ \A f \in disk \ disk' : f \in outs[j] /\ meta[f] = "none"
  BY <1>0, Zenon DEF Released, OwnInv, OwnJob
<1>7. FileInv'
  <2>1. \A f \in File : f \in manifest' <=> meta'[f] \in LiveState
    BY <1>r, <1>0, <1>3, <1>5, Zenon DEF FileInv, FileAgree, LiveState
  <2>2. \A f \in File : meta'[f] # "none" => f \in disk'
    BY <1>r, <1>0, <1>3, <1>5, <1>6, Zenon DEF FileInv, FileAgree
  <2>3. manNext <= manNext' /\ manNext' <= nextFile /\ manNext' \in Nat
    BY <1>r, <1>0, <1>1 DEF FileInv, FileBound, NumberTyping
  <2>4. \A f \in manifest' : f < manNext'
    <3>1. manifest \subseteq Nat
      BY <1>0, <1>1, Zenon DEF TypeOK, NumberTyping
    <3>2. manNext \in Nat /\ manifest' \subseteq manifest
      BY <1>r, <1>1, Zenon DEF NumberTyping
    <3>3. \A f \in manifest : f < manNext
      BY <1>0, Zenon DEF FileInv, FileBound
    <3> QED
      BY <2>3, <3>1, <3>2, <3>3
  <2>5. \A e \in lsm' : e.file < manNext'
    <3>1. manNext \in Nat /\ \A e \in lsm : e.file \in Nat /\ e.file < manNext
      BY <1>0, <1>1, Zenon DEF FileInv, FileBound, EntryTyping, NumberTyping
    <3> QED
      BY <1>4, <2>3, <3>1
  <2>6. \A f \in cand' : meta'[f] = "none" /\ f < nextFile'
    <3>1. cand \subseteq File \ S
      BY <1>r, <1>0, Zenon DEF FileInv, FileAgree, TypeOK
    <3> QED
      BY <1>r, <1>0, <1>5, <3>1, Zenon DEF FileInv, FileBound, FileAgree, purgeVars
  <2>7. FileBound'
    BY <1>r, <1>0, <1>6, <2>1, <2>2, <2>3, <2>4, <2>5, <2>6, Zenon DEF FileInv, FileBound
  <2>8. FileAgree'
    BY <1>0, <1>6, <2>1, <2>2, <2>3, <2>4, <2>5, <2>6, Zenon DEF FileInv, FileAgree
  <2>9. FileRecords'
    BY <1>r, <1>0, <1>6, <2>1, <2>2, <2>3, <2>4, <2>5, <2>6, Zenon DEF FileInv,
       FileRecords
  <2> QED
    BY <2>7, <2>8, <2>9, Zenon DEF FileInv, FileBound
<1>8. OwnInv'
  <2>1. \A t \in Builder : tout[t] # 0 => /\ meta'[tout[t]] = meta[tout[t]]
                                          /\ tout[t] \in disk => tout[t] \in disk'
    <3>1. \A t \in Builder : tout[t] # 0 => tout[t] \in File
      BY <1>0, FileTypingHolds, Zenon DEF FileTyping
    <3>2. \A t \in Builder : tout[t] \notin inputs[j] \cup outs[j]
      BY <1>0, Zenon DEF OwnInv, OwnApart
    <3> QED
      BY <1>3, <1>6, <3>1, <3>2, Zenon
  <2>2. \A i \in Job : i # j => \A f \in inputs[i] \cup outs[i] :
            meta'[f] = meta[f] /\ (f \in disk => f \in disk')
    <3> SUFFICES ASSUME NEW i \in Job, i # j, NEW f \in inputs[i] \cup outs[i]
                 PROVE  meta'[f] = meta[f] /\ (f \in disk => f \in disk')
      BY Zenon
    <3>1. f \in File
      BY <1>0, Zenon DEF TypeOK
    <3>2. f \notin inputs[j] \cup outs[j]
      BY <1>0, Zenon DEF OwnInv, OwnApart
    <3> QED
      BY <1>3, <1>6, <3>1, <3>2, Zenon
  <2>3. \A i \in Job : \A f \in inputs'[i] \cup outs'[i] : i # j /\ f \in inputs[i] \cup outs[i]
    BY <1>2, Zenon
  <2>4. /\ \A i \in Job : \A f \in inputs'[i] \cup outs'[i] : f < nextFile'
        /\ \A t \in Builder, i \in Job : tout[t] \notin inputs'[i] \cup outs'[i]
        /\ \A i, k \in Job : inputs'[i] \cap outs'[k] = {}
        /\ \A i, k \in Job : i # k => /\ inputs'[i] \cap inputs'[k] = {}
                                      /\ outs'[i] \cap outs'[k] = {}
    <3>1. \A i \in Job : inputs'[i] \subseteq inputs[i] /\ outs'[i] \subseteq outs[i]
      BY <1>2, Zenon
    <3>2. /\ \A i \in Job : \A f \in inputs[i] \cup outs[i] : f < nextFile
          /\ \A t \in Builder, i \in Job : tout[t] \notin inputs[i] \cup outs[i]
          /\ \A i, k \in Job : inputs[i] \cap outs[k] = {}
          /\ \A i, k \in Job : i # k => /\ inputs[i] \cap inputs[k] = {}
                                        /\ outs[i] \cap outs[k] = {}
      BY <1>0, Zenon DEF OwnInv, OwnBound, OwnApart
    <3> QED
      BY <1>r, <3>1, <3>2
  <2>5. \A t \in Builder : tpc[t] = "built" /\ tout[t] # 0 =>
           /\ meta'[tout[t]] = "none" /\ tout[t] \in disk' /\ tout[t] \notin cand
           /\ \A e \in lsm : e.file # tout[t]
    BY <1>0, <2>1, Zenon DEF OwnInv, OwnBuilder
  <2>6. \A i \in Job : pc'[i] = "run" => \A f \in outs'[i] :
           /\ meta'[f] = "none" /\ f \in disk' /\ f \notin cand
           /\ \A e \in lsm : e.file # f
    <3> SUFFICES ASSUME NEW i \in Job, i # j, pc[i] = "run", NEW f \in outs[i]
                 PROVE  /\ meta'[f] = "none" /\ f \in disk' /\ f \notin cand
                        /\ \A e \in lsm : e.file # f
      BY <1>r, <1>2, Zenon
    <3>1. /\ meta[f] = "none" /\ f \in disk /\ f \notin cand
          /\ \A e \in lsm : e.file # f
      BY <1>0, Zenon DEF OwnInv, OwnJob
    <3> QED
      BY <2>2, <3>1, Zenon
  <2>7. \A i \in Job : pc'[i] \in {"rewrite", "delete"} => \A f \in outs'[i] :
           meta'[f] \in {"PendingGC", "Obsolete", "none"} /\ f < manNext'
    <3> SUFFICES ASSUME NEW i \in Job, i # j, pc[i] \in {"rewrite", "delete"}, NEW f \in outs[i]
                 PROVE  meta'[f] \in {"PendingGC", "Obsolete", "none"} /\ f < manNext'
      BY <1>2, Zenon
    <3>1. meta[f] \in {"PendingGC", "Obsolete", "none"} /\ f < manNext /\ f < nextFile
      BY <1>0, Zenon DEF OwnInv, OwnBound, OwnJob
    <3> QED
      BY <1>r, <2>2, <3>1, Zenon
  <2>8. \A i \in Job : \A f \in inputs'[i] : meta'[f] \in {"BeingGC", "Obsolete", "none"}
    <3> SUFFICES ASSUME NEW i \in Job, i # j, NEW f \in inputs[i]
                 PROVE  meta'[f] \in {"BeingGC", "Obsolete", "none"}
      BY <1>2, Zenon
    <3>1. meta[f] \in {"BeingGC", "Obsolete", "none"}
      BY <1>0, Zenon DEF OwnInv, OwnJob
    <3> QED
      BY <2>2, <3>1, Zenon
  <2>9. OwnBound'
    BY <1>r, <1>0, <1>4, <2>1, <2>4, <2>5, <2>6, <2>7, <2>8, Zenon DEF OwnInv, OwnBound,
       tableVars, purgeVars
  <2>10. OwnApart'
    BY <1>r, <1>0, <2>4, Zenon DEF OwnInv, OwnApart, tableVars
  <2>11. OwnBuilder'
    BY <1>r, <1>0, <1>4, <2>1, Zenon DEF OwnInv, OwnBuilder, tableVars, purgeVars
  <2>12. OwnJob'
    BY <1>r, <1>4, <2>6, <2>7, <2>8, Zenon DEF OwnJob, purgeVars
  <2> QED
    BY <2>9, <2>10, <2>11, <2>12, Zenon DEF OwnInv, OwnBound
<1>9. RefInv'
  <2>1. ASSUME NEW e \in lsm, e.file \in S
        PROVE  /\ RecordOf(e) \in content[e.file]
               /\ \E x \in lsm : x.key = e.key /\ e.seq < x.seq /\ x.seq <= durSeq
    <3>1. e.file # 0 /\ e.file \in inputs[j]
      BY <1>1, <1>2, <2>1 DEF NumberTyping
    <3>2. RecordOf(e) \in content[e.file]
      BY <1>r, <1>0, <2>1, <3>1, Zenon DEF RefInv
    <3>3. pc[j] = "delete" /\ todo[j] = {} /\ batch[j] = {}
      BY <1>r, <1>0, <2>1, Zenon DEF JobInv, JobPhase
    <3>4. HiddenUpTo(e, durSeq)
      BY <1>0, <3>1, <3>3, Zenon DEF JobInv, JobRefs
    <3> QED
      BY <3>2, <3>4, Zenon DEF HiddenUpTo
  <2>2. \A s \in snaps : s.seq <= lastSeq
    BY <1>0, Zenon DEF SeqInv
  <2> SUFFICES ASSUME NEW e \in lsm, e.file # 0
        PROVE \/ meta'[e.file] \in LiveState /\ RecordOf(e) \in content[e.file]
              \/ /\ meta'[e.file] = "Obsolete" /\ RecordOf(e) \in content[e.file]
                 /\ \E w \in lsm : /\ w.key = e.key /\ e.seq < w.seq /\ w.seq <= durSeq
                                   /\ \A s \in snaps : e.seq <= s.seq /\ s.seq < w.seq
                                                       => s.seq <= obsSeq'[e.file]
              \/ /\ meta'[e.file] = "none"
                 /\ \E w \in lsm : /\ w.key = e.key /\ e.seq < w.seq /\ w.seq <= durSeq
                                   /\ \A s \in snaps : e.seq <= s.seq /\ s.seq < w.seq
                                                       => s.racy
    BY <1>r, <1>4 DEF RefInv, dbVars, readVars
  <2>3. e.file \in File
    BY <1>1, Zenon DEF EntryTyping
  <2>4. CASE e.file \in S
    BY <1>r, <1>3, <2>1, <2>2, <2>3, <2>4
  <2>5. CASE e.file \notin S
    <3>1. obsSeq'[e.file] = obsSeq[e.file]
      BY <1>r, <2>3, <2>5, Zenon
    <3> QED
      BY <1>0, <1>5, <2>3, <2>5, <3>1, Zenon DEF RefInv
  <2> QED
    BY <2>4, <2>5, Zenon
<1>10. JobInv'
  <2>1. ASSUME NEW i \in Job, i # j PROVE JobPhase(i)' /\ JobRefs(i)' /\ JobCopies(i)'
    <3>1. JobPhase(i) /\ JobRefs(i) /\ JobCopies(i)
      BY <1>0, Zenon DEF JobInv
    <3>2. \A f \in outs[i] : meta'[f] = meta[f]
      <4> SUFFICES ASSUME NEW f \in outs[i] PROVE meta'[f] = meta[f]
        BY Zenon
      <4>1. f \in File /\ f \notin inputs[j] \cup outs[j]
        BY <1>0, <2>1, FileTypingHolds, Zenon DEF OwnInv, OwnApart, FileTyping
      <4> QED
        BY <1>3, <4>1, Zenon
    <3>3. /\ pc'[i] = pc[i] /\ inputs'[i] = inputs[i] /\ todo'[i] = todo[i]
          /\ fresh'[i] = fresh[i] /\ outs'[i] = outs[i] /\ batch'[i] = batch[i]
          /\ lsm' = lsm /\ lastSeq' = lastSeq /\ durSeq' = durSeq /\ content' = content
      BY <1>r, <1>2, <1>4, <2>1, Zenon DEF dbVars
    <3>4. JobPhase(i)'
      BY <3>1, <3>3, Zenon DEF JobPhase
    <3>5. JobRefs(i)'
      BY <3>1, <3>3, Zenon DEF JobRefs, HiddenUpTo, RecordOf
    <3>6. JobCopies(i)'
      <4>1. \A b \in batch[i] : b.dst # 0 => meta'[b.dst] = meta[b.dst]
        BY <3>1, <3>2, Zenon DEF JobCopies
      <4> QED
        BY <3>1, <3>3, <4>1, Zenon DEF JobCopies
    <3> QED
      BY <3>4, <3>5, <3>6, Zenon
  <2>2. JobPhase(j)' /\ JobRefs(j)' /\ JobCopies(j)'
    BY <1>2, Zenon DEF JobPhase, JobRefs, JobCopies
  <2> QED
    BY <2>1, <2>2, Zenon DEF JobInv
<1>11. ReadInv'
  <2> SUFFICES ASSUME NEW r \in reads, ~r[1].racy
               PROVE  /\ meta'[r[2].file] # "none"
                      /\ meta'[r[2].file] = "Obsolete" => r[1].seq <= obsSeq'[r[2].file]
    BY <1>r, <1>0, Zenon DEF ReadInv, RecordOf, readVars, purgeVars
  <2>1. r[2].file \in File /\ r[1] \in snaps
    <3>1. r[1] \in snaps /\ r[2].file # 0
      BY <1>0, Zenon DEF ReadInv
    <3>2. r[2].file \in File0
      <4>1. r \in Snapshot \X Entry
        BY <1>0, Zenon DEF TypeOK
      <4> QED
        BY <4>1, Zenon DEF Entry
    <3> QED
      BY <3>1, <3>2 DEF File0, File
  <2>2. r[1].seq <= lastSeq
    BY <1>0, <2>1, Zenon DEF SeqInv
  <2> QED
    BY <1>r, <1>0, <1>3, <1>5, <2>1, <2>2, Zenon DEF ReadInv
<1> QED
  BY <1>r, <1>7, <1>8, <1>9, <1>10, <1>11, SeqFrame, TableFrame, Zenon DEF IInv, dbVars,
     readVars

\* DeleteInputBlobFiles makes the inputs obsolete once nothing visible needs them.
LEMMA DeleteInputsStep == ASSUME IInv, NEW j \in Job, DeleteInputs(j) PROVE IInv'
<1> DEFINE S == {f \in inputs[j] : meta[f] \notin {"none", "Obsolete"}}
<1>1. TypeOK'
  BY GCType, Zenon DEF GC, IInv
<1>2. /\ pc[j] = "delete" /\ manifest' = manifest \ S /\ manNext' = nextFile
      /\ obsSeq' = [f \in File |-> IF f \in S THEN lastSeq ELSE obsSeq[f]]
      /\ ReleaseGcFiles(j, [f \in File |-> IF f \in S THEN "Obsolete" ELSE meta[f]])
      /\ UNCHANGED <<dbVars, readVars, nextFile, disk, content, tableVars, purgeVars>>
  BY Zenon DEF DeleteInputs
<1>3. S \in SUBSET inputs[j] /\ \A f \in S : meta[f] \notin {"none", "Obsolete"}
  BY Zenon
<1> HIDE DEF S
<1>4. \A f \in File : obsSeq'[f] = IF f \in S THEN lastSeq ELSE obsSeq[f]
  BY <1>2, Zenon
<1>5. Released(j, S)
  BY <1>2, <1>3, <1>4, Zenon DEF Released
<1> QED
  BY <1>1, <1>3, <1>5, ReleaseStep, Zenon

\* A failed job releases its files; its inputs stay.
LEMMA FailGCStep == ASSUME IInv, NEW j \in Job, FailGC(j) PROVE IInv'
<1>1. TypeOK'
  BY GCType, Zenon DEF GC, IInv
<1>2. /\ manifest' = manifest /\ manNext' = manNext /\ obsSeq' = obsSeq
      /\ ReleaseGcFiles(j, meta)
      /\ disk' \in IF pc[j] = "run" THEN {disk, disk \ outs[j]} ELSE {disk}
      /\ UNCHANGED <<dbVars, readVars, nextFile, content, tableVars, purgeVars>>
  BY Zenon DEF FailGC
<1>3. [f \in File |-> IF f \in {} THEN "Obsolete" ELSE meta[f]] = meta
  BY Zenon DEF IInv, TypeOK
<1>4. ReleaseGcFiles(j, [f \in File |-> IF f \in {} THEN "Obsolete" ELSE meta[f]])
  BY <1>2, <1>3, Zenon
<1>5. manifest' = manifest \ {} /\ {} \in SUBSET inputs[j]
  BY <1>2, Zenon
<1>6. Released(j, {})
  BY <1>2, <1>4, <1>5, Zenon DEF Released
<1> QED
  BY <1>1, <1>5, <1>6, ReleaseStep, Zenon

\* Every step of a GC job preserves the invariant, as long as the merge iterator
\* does not lose an input.
LEMMA GCStep == ASSUME IInv, ~ReadFault, NEW j \in Job, GC(j) PROVE IInv'
<1>0. TypeOK /\ SeqInv /\ FileInv /\ OwnInv /\ RefInv /\ TableInv /\ JobInv /\ ReadInv
  BY Zenon DEF IInv
<1>1. ASSUME NEW S \in SUBSET File, PickBlobGC(j, S) PROVE IInv'
  BY <1>1, PickBlobGCStep, Zenon
<1>2. ASSUME NEW x \in todo[j], DiscardRecord(j, x[1], x[2]) PROVE IInv'
  BY <1>2, DiscardRecordStep, Zenon
<1>3. ASSUME NEW x \in todo[j], NEW dst \in File0, KeepRecord(j, x[1], x[2], dst) PROVE IInv'
  BY <1>3, KeepRecordStep, Zenon
<1>4. ASSUME NEW f \in File, IteratorError(j, f) PROVE IInv'
  BY <1>4, Zenon DEF IteratorError
<1>5. ASSUME NEW b \in batch[j], RewriteKey(j, b) PROVE IInv'
  BY <1>5, RewriteKeyStep, Zenon
<1> QED
  BY <1>1, <1>2, <1>3, <1>4, <1>5, InstallOutputsStep, FlushWALStep,
     DeleteInputsStep, FailGCStep, Zenon DEF GC
=============================================================================
