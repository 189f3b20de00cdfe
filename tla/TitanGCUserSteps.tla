-------------------------- MODULE TitanGCUserSteps --------------------------
(***************************************************************************)
(* The lemmas that every part of the proof of the inductive invariant IInv *)
(* uses: what the types say, and what leaves a conjunct of IInv alone.     *)
(* Then: users' operations, the purge thread and recovery preserve IInv.   *)
(***************************************************************************)
EXTENDS TitanGCInv, TitanUsers, TitanPurge, TitanOpen, TLAPS

\* What the type invariant says of the numbers, in the form the provers use.
EntryTyping ==
    \A e \in lsm : /\ e \in Entry /\ e.key \in Key /\ e.seq \in Nat /\ e.org \in Nat
                   /\ e.file \in Nat /\ e.off \in Nat
                   /\ (e.file # 0 => e.file \in File)

NumberTyping ==
    /\ lastSeq \in Nat /\ durSeq \in Nat /\ oldest \in Nat
    /\ nextFile \in Nat /\ manNext \in Nat /\ 1 <= manNext
    /\ \A s \in snaps : s \in Snapshot /\ s.seq \in Nat
    /\ \A f \in File : f \in Nat /\ 1 <= f /\ obsSeq[f] \in Nat
    /\ \A t \in Builder : tupto[t] \in Nat /\ tout[t] \in Nat

\* What it says of the sets of files.
FileTyping ==
    /\ disk \subseteq File /\ manifest \subseteq File /\ cand \subseteq File
    /\ \A j \in Job : inputs[j] \subseteq File /\ outs[j] \subseteq File
    /\ \A t \in Builder : tout[t] # 0 => tout[t] \in File
    /\ 0 \notin File

\* The fields of every entry of the LSM tree have their types.
LEMMA EntryTypingHolds == TypeOK => EntryTyping
<1>1. TypeOK => \A e \in lsm : e \in Entry
  BY Zenon DEF TypeOK, lsm
<1>2. \A e \in Entry : /\ e.key \in Key /\ e.seq \in Nat /\ e.org \in Nat
                        /\ e.file \in Nat /\ e.off \in Nat
                        /\ (e.file # 0 => e.file \in File)
  BY BoundsAssumption DEF Entry, Seq0, File0, File
<1> QED
  BY <1>1, <1>2, Zenon DEF EntryTyping

\* ... also after a step.
LEMMA EntryTypingHoldsP == TypeOK' => EntryTyping'
<1>1. TypeOK' => \A e \in lsm' : e \in Entry
  BY Zenon DEF TypeOK, lsm
<1>2. \A e \in Entry : /\ e.key \in Key /\ e.seq \in Nat /\ e.org \in Nat
                        /\ e.file \in Nat /\ e.off \in Nat
                        /\ (e.file # 0 => e.file \in File)
  BY BoundsAssumption DEF Entry, Seq0, File0, File
<1> QED
  BY <1>1, <1>2, Zenon DEF EntryTyping

\* Sequence and file numbers are natural numbers.
LEMMA NumberTypingHolds == TypeOK => NumberTyping
  BY BoundsAssumption DEF TypeOK, NumberTyping, Snapshot, Seq0, File0, File, MaxSequenceNumber

\* ... also after a step.
LEMMA NumberTypingHoldsP == TypeOK' => NumberTyping'
  BY BoundsAssumption DEF TypeOK, NumberTyping, Snapshot, Seq0, File0, File, MaxSequenceNumber

\* The sets of files hold files.
LEMMA FileTypingHolds == TypeOK => FileTyping
<1>1. 0 \notin File /\ \A x \in File0 : x # 0 => x \in File
  BY DEF File, File0
<1> QED
  BY <1>1, Zenon DEF TypeOK, FileTyping

-----------------------------------------------------------------------------
(* A conjunct of IInv whose variables a step leaves alone stays true.      *)

\* Sequence numbers: only writes, crashes and snapshots matter.
LEMMA SeqFrame == ASSUME SeqInv, UNCHANGED <<dbVars, snaps>> PROVE SeqInv'
  BY Zenon DEF SeqInv, dbVars, lsm, SameVersion

\* Blob files: only the LSM tree, the files and the purge list matter.
LEMMA FileFrame ==
    ASSUME FileInv, UNCHANGED <<mem, sst, nextFile, disk, content, meta, manifest, manNext, cand>>
    PROVE  FileInv'
  BY Zenon DEF FileInv, FileBound, FileAgree, FileRecords, lsm
\* Ownership of files: snapshots, reads and sequence numbers do not matter.
LEMMA OwnFrame ==
    ASSUME OwnInv,
           UNCHANGED <<mem, sst, nextFile, disk, meta, manNext, tpc, tout, pc,
                       inputs, outs, cand>>
    PROVE  OwnInv'
  BY DEF OwnInv, OwnBound, OwnApart, OwnBuilder, OwnJob, lsm
\* Indices and their records: the state of builders and jobs does not matter.
LEMMA RefFrame ==
    ASSUME RefInv, UNCHANGED <<mem, sst, durSeq, snaps, content, meta, obsSeq>>
    PROVE  RefInv'
  BY DEF RefInv, lsm, RecordOf

\* Builders at work: the state of files, jobs and the purge thread does not matter.
LEMMA TableFrame ==
    ASSUME TableInv, UNCHANGED <<mem, sst, lastSeq, snaps, content, tableVars>>
    PROVE  TableInv'
  BY DEF TableInv, TableSrc, TableDst, TableDrop, lsm, RecordOf, tableVars, Running,
     SameVersion, SeenBetween

\* GC jobs: snapshots, reads and builders do not matter.
LEMMA JobFrame ==
    ASSUME JobInv,
           UNCHANGED <<mem, sst, lastSeq, durSeq, content, meta, pc, inputs, todo,
                       fresh, outs, batch>>
    PROVE  JobInv'
  BY DEF JobInv, JobPhase, JobRefs, JobCopies, lsm, RecordOf, HiddenUpTo

\* Reads in flight: the LSM tree does not matter once they have the index.
LEMMA ReadFrame ==
    ASSUME ReadInv,
           UNCHANGED <<snaps, reads, nextFile, content, meta, obsSeq, ppc, oldest, cand>>
    PROVE  ReadInv'
  BY Zenon DEF ReadInv, RecordOf

-----------------------------------------------------------------------------
(* A file that is being written is not referred to yet.                    *)

\* Records appended to files, or written to new ones, keep the indices valid.
LEMMA RefGrow ==
    ASSUME IInv, UNCHANGED <<mem, sst, durSeq, snaps, meta, obsSeq>>,
           \A f \in File : f < nextFile => content[f] \subseteq content'[f]
    PROVE  RefInv'
<1>0. TypeOK /\ SeqInv /\ FileInv /\ OwnInv /\ RefInv /\ TableInv /\ JobInv /\ ReadInv
  BY Zenon DEF IInv
<1>1. EntryTyping /\ NumberTyping
  BY <1>0, EntryTypingHolds, NumberTypingHolds, Zenon
<1>2. \A e \in lsm : e.file # 0 => content[e.file] \subseteq content'[e.file]
  BY <1>0, <1>1 DEF FileInv, FileBound, EntryTyping, NumberTyping
<1> QED
  BY <1>0, <1>2 DEF RefInv, lsm, RecordOf
\* ... and the reads in flight.
LEMMA ReadGrow ==
    ASSUME IInv, UNCHANGED <<snaps, reads, meta, obsSeq, ppc, oldest, cand>>,
           nextFile' \in Nat, nextFile <= nextFile',
           \A f \in File : f < nextFile => content[f] \subseteq content'[f]
    PROVE  ReadInv'
<1>0. TypeOK /\ SeqInv /\ FileInv /\ OwnInv /\ RefInv /\ TableInv /\ JobInv /\ ReadInv
  BY Zenon DEF IInv
<1>1. NumberTyping
  BY <1>0, NumberTypingHolds, Zenon
<1>2. \A r \in reads : /\ r[2].file \in File /\ r[2].file \in Nat
                       /\ r[2].file < nextFile'
                       /\ content[r[2].file] \subseteq content'[r[2].file]
  BY <1>0, <1>1 DEF ReadInv, TypeOK, Entry, File0, File, NumberTyping
<1> QED
  BY <1>0, <1>2, Zenon DEF ReadInv, RecordOf
-----------------------------------------------------------------------------
(* A new entry that is newer than everything disturbs no builder at work.  *)

\* What a running builder read is in the LSM tree; what it will install is typed.
LEMMA RunningBuilder ==
    ASSUME TypeOK, TableInv, NEW t \in Builder, Running(t)
    PROVE  /\ tsrc[t] \subseteq lsm
           /\ tdst[t] \subseteq Entry
           /\ \A y \in tdst[t] : \E x \in tsrc[t] : SameVersion(x, y) /\ x.org = y.org
<1>1. TableSrc(t) /\ TableDst(t)
  BY Zenon DEF TableInv
<1> QED
  BY <1>1, Zenon DEF TypeOK, TableSrc, TableDst, lsm, Builder

\* A builder at work still has its sources and may still drop what it drops.
LEMMA TableNewest ==
    ASSUME TypeOK, SeqInv, TableInv, NEW new, new.seq = lastSeq + 1,
           mem' = mem \cup {new}, sst' = sst, lastSeq' = lastSeq + 1,
           UNCHANGED <<snaps, tableVars>>,
           \A t \in Builder : tout[t] # 0 => content[tout[t]] \subseteq content'[tout[t]]
    PROVE  TableInv'
<1>1. EntryTyping /\ NumberTyping
  BY EntryTypingHolds, NumberTypingHolds, Zenon
<1>2. SUFFICES ASSUME NEW t \in Builder, Running(t)
               PROVE  TableSrc(t)' /\ TableDst(t)' /\ TableDrop(t)'
  BY Zenon DEF TableInv, Running, tableVars
<1>3. TableSrc(t) /\ TableDst(t) /\ TableDrop(t) /\ tsrc[t] \subseteq lsm
  BY <1>2, RunningBuilder, Zenon DEF TableInv
<1>4. lsm' = lsm \cup {new}
  BY Zenon DEF lsm
<1>5. TableSrc(t)'
  BY <1>1, <1>3 DEF TableSrc, NumberTyping, tableVars
<1>6. TableDst(t)'
  BY <1>3, Zenon DEF TableDst, tableVars, RecordOf, SameVersion
<1>7. TableDrop(t)'
  <2> SUFFICES ASSUME NEW x \in tsrc[t]
               PROVE  \/ \E y \in tdst[t] : SameVersion(x, y)
                      \/ \E y \in tdst[t] : /\ y.key = x.key /\ x.seq < y.seq
                                            /\ ~SeenBetween(x.seq, y.seq)
                      \/ /\ t = "compaction"
                         /\ \A z \in lsm' : z.key = x.key /\ z.seq <= x.seq => z \in tsrc[t]
                         /\ \A y \in tdst[t] : y.key = x.key => x.seq < y.seq
    BY Zenon DEF TableDrop, tableVars, SameVersion, SeenBetween
  <2>1. x.seq \in Nat /\ x.seq <= lastSeq
    BY <1>1, <1>3, Zenon DEF SeqInv, EntryTyping
  <2> QED
    BY <1>1, <1>3, <1>4, <2>1 DEF TableDrop, NumberTyping
<1> QED
  BY <1>5, <1>6, <1>7, Zenon

\* ... nor a GC job, when its index is not into an input of the job.
LEMMA JobNewest ==
    ASSUME TypeOK, SeqInv, JobInv, NEW new, new.seq = lastSeq + 1,
           \A j \in Job : new.file \notin inputs[j],
           lsm' = lsm \cup {new}, lastSeq' = lastSeq + 1, durSeq' = durSeq,
           UNCHANGED <<content, meta, gcVars>>
    PROVE  JobInv'
<1>1. EntryTyping /\ NumberTyping
  BY EntryTypingHolds, NumberTypingHolds, Zenon
<1>2. SUFFICES ASSUME NEW j \in Job PROVE JobPhase(j)' /\ JobRefs(j)' /\ JobCopies(j)'
  BY Zenon DEF JobInv
<1>3. JobPhase(j) /\ JobRefs(j) /\ JobCopies(j)
  BY Zenon DEF JobInv
<1>4. JobPhase(j)'
  BY <1>3, Zenon DEF JobPhase, gcVars
<1>5. \A e \in lsm : HiddenUpTo(e, lastSeq) => HiddenUpTo(e, lastSeq)'
  BY <1>1 DEF HiddenUpTo, EntryTyping, NumberTyping
<1>6. \A e \in lsm : HiddenUpTo(e, durSeq) => HiddenUpTo(e, durSeq)'
  BY Zenon DEF HiddenUpTo
<1>7. JobRefs(j)'
  BY <1>3, <1>5, <1>6, Zenon DEF JobRefs, gcVars, RecordOf
<1>8. JobCopies(j)'
  BY <1>3 DEF JobCopies, gcVars
<1> QED
  BY <1>4, <1>7, <1>8, Zenon

-----------------------------------------------------------------------------
(* Users' operations.                                                      *)


\* Users' operations keep the types.
LEMMA UserType == TypeOK /\ User => TypeOK'
<1> SUFFICES ASSUME TypeOK, User PROVE TypeOK'
  BY Zenon
<1> USE BoundsAssumption, ModeAssumption
        DEF TypeOK, dbVars, readVars, fileVars, optVars, tableVars, gcVars,
            purgeVars, ghostVars
<1>1. ASSUME NEW k \in Key, NEW del \in BOOLEAN, Write(k, del) PROVE TypeOK'
  BY <1>1 DEF Write, Entry, Seq0, File0
<1>2. ASSUME NEW m \in RunMode, SetOptions(m) PROVE TypeOK'
  BY <1>2, Zenon DEF SetOptions
<1>3. CASE GetSnapshot
  <2>1. PICK b \in BOOLEAN : b = (ppc = "begun")
    BY Zenon
  <2>2. snaps' = snaps \cup {[seq |-> lastSeq, racy |-> b]}
    BY <1>3, <2>1, Zenon DEF GetSnapshot
  <2>3. snaps' \subseteq Snapshot
    BY <2>2 DEF Snapshot
  <2> QED
    BY <1>3, <2>3, Zenon DEF GetSnapshot
<1>4. ASSUME NEW s \in snaps, ReleaseSnapshot(s) PROVE TypeOK'
  BY <1>4, Zenon DEF ReleaseSnapshot
<1>5. ASSUME NEW s \in snaps, NEW e \in lsm, GetIndex(s, e) PROVE TypeOK'
  BY <1>5 DEF GetIndex, lsm
<1>6. ASSUME NEW r \in reads, GetBlob(r) PROVE TypeOK'
  BY <1>6, Zenon DEF GetBlob
<1>7. ASSUME NEW S \in SUBSET File, DeleteBlobFilesInRanges(S) PROVE TypeOK'
  BY <1>7, Zenon DEF DeleteBlobFilesInRanges, FileState
<1> HIDE DEF TypeOK, dbVars, readVars, fileVars, optVars, tableVars, gcVars, purgeVars,
             ghostVars
<1> QED
  BY <1>1, <1>2, <1>3, <1>4, <1>5, <1>6, <1>7, Zenon DEF User


\* Put, Write, Delete: the new entry is the newest of all and has no blob index.
LEMMA WriteStep ==
    ASSUME IInv, NEW k \in Key, NEW del \in BOOLEAN, Write(k, del) PROVE IInv'
<1>0. TypeOK /\ SeqInv /\ FileInv /\ OwnInv /\ RefInv /\ TableInv /\ JobInv /\ ReadInv
  BY Zenon DEF IInv
<1> DEFINE new == [key |-> k, seq |-> lastSeq + 1,
                   org |-> IF del THEN 0 ELSE lastSeq + 1, file |-> 0, off |-> 0]
<1>1. TypeOK'
  BY <1>0, UserType, Zenon DEF User
<1>2. EntryTyping /\ NumberTyping /\ EntryTyping'
  BY <1>0, <1>1, EntryTypingHolds, NumberTypingHolds, EntryTypingHoldsP, Zenon
<1>3. /\ lsm' = lsm \cup {new} /\ mem' = mem \cup {new} /\ sst' = sst
      /\ lastSeq' = lastSeq + 1 /\ durSeq' = durSeq
  BY Zenon DEF Write, lsm
<1>4. new.key = k /\ new.seq = lastSeq + 1 /\ new.file = 0
  BY Zenon
<1>5. UNCHANGED <<readVars, fileVars, optVars, tableVars, gcVars, purgeVars>>
  BY Zenon DEF Write
<1> HIDE DEF new
<1>6. SeqInv'
  BY <1>0, <1>2, <1>3, <1>4, <1>5 DEF SeqInv, NumberTyping, EntryTyping, readVars,
     SameVersion, lsm
<1>7. FileInv'
  <2>1. FileBound'
    BY <1>0, <1>2, <1>3, <1>4, <1>5 DEF FileInv, FileBound, NumberTyping, fileVars,
       purgeVars
  <2>2. FileAgree'
    BY <1>0, <1>2, <1>3, <1>4, <1>5, Zenon DEF FileInv, FileAgree, NumberTyping,
       fileVars, purgeVars
  <2>3. FileRecords'
    BY <1>0, <1>2, <1>3, <1>4, <1>5, Zenon DEF FileInv, FileRecords, NumberTyping,
       fileVars, purgeVars
  <2> QED
    BY <2>1, <2>2, <2>3, Zenon DEF FileInv, FileBound
<1>8. OwnInv'
  <2>1. OwnBound'
    BY <1>0, <1>2, <1>3, <1>4, <1>5, FileTypingHolds, Zenon DEF OwnInv, OwnBound,
       NumberTyping, fileVars, tableVars, gcVars, purgeVars, FileTyping
  <2>2. OwnApart'
    BY <1>0, <1>2, <1>3, <1>4, <1>5, FileTypingHolds, Zenon DEF OwnInv, OwnApart,
       NumberTyping, fileVars, tableVars, gcVars, purgeVars, FileTyping
  <2>3. OwnBuilder'
    BY <1>0, <1>2, <1>3, <1>4, <1>5, FileTypingHolds, Zenon DEF OwnInv, OwnBuilder,
       NumberTyping, fileVars, tableVars, gcVars, purgeVars, FileTyping
  <2>4. OwnJob'
    BY <1>0, <1>3, <1>4, <1>5, FileTypingHolds, Zenon DEF OwnInv, OwnJob, fileVars,
       gcVars, purgeVars, FileTyping
  <2> QED
    BY <2>1, <2>2, <2>3, <2>4, Zenon DEF OwnInv, OwnBound
<1>9. RefInv'
  BY <1>0, <1>2, <1>3, <1>4, <1>5, Zenon DEF RefInv, RecordOf, fileVars, readVars
<1>10. TableInv'
  BY <1>0, <1>3, <1>4, <1>5, TableNewest, Zenon DEF readVars, fileVars
<1>11. JobInv'
  <2>1. \A j \in Job : new.file \notin inputs[j]
    BY <1>0, <1>2, <1>4 DEF TypeOK, NumberTyping
  <2> QED
    BY <1>0, <1>3, <1>4, <1>5, <2>1, JobNewest, Zenon DEF fileVars
<1>12. ReadInv'
  BY <1>0, <1>5, ReadFrame, Zenon DEF readVars, fileVars, purgeVars
<1> QED
  BY <1>1, <1>6, <1>7, <1>8, <1>9, <1>10, <1>11, <1>12, Zenon DEF IInv

\* A change of blob_run_mode, and the end of a read, touch nothing IInv is about.
LEMMA SetOptionsStep == ASSUME IInv, NEW m \in RunMode, SetOptions(m) PROVE IInv'
<1>0. TypeOK /\ SeqInv /\ FileInv /\ OwnInv /\ RefInv /\ TableInv /\ JobInv /\ ReadInv
  BY Zenon DEF IInv
<1>1. TypeOK'
  BY <1>0, UserType, Zenon DEF User
<1>2. UNCHANGED <<dbVars, readVars, fileVars, tableVars, gcVars, purgeVars>>
  BY Zenon DEF SetOptions
<1> QED
  BY <1>1, <1>2, SeqFrame, FileFrame, OwnFrame, RefFrame, TableFrame, JobFrame,
     ReadFrame, Zenon
     DEF IInv, dbVars, readVars, fileVars, tableVars, gcVars, purgeVars

\* GetBlob ends a read.
LEMMA GetBlobStep == ASSUME IInv, NEW r \in reads, GetBlob(r) PROVE IInv'
<1>0. TypeOK /\ SeqInv /\ FileInv /\ OwnInv /\ RefInv /\ TableInv /\ JobInv /\ ReadInv
  BY Zenon DEF IInv
<1>1. TypeOK'
  BY <1>0, UserType, Zenon DEF User
<1>2. UNCHANGED <<dbVars, snaps, fileVars, tableVars, gcVars, purgeVars>>
  BY Zenon DEF GetBlob
<1>3. ReadInv'
  BY <1>0, <1>2, Zenon DEF ReadInv, GetBlob, RecordOf, fileVars, purgeVars
<1> QED
  BY <1>1, <1>2, <1>3, SeqFrame, FileFrame, OwnFrame, RefFrame, TableFrame,
     JobFrame, Zenon
     DEF IInv, dbVars, fileVars, tableVars, gcVars, purgeVars

\* A snapshot sees the newest entries only, and one taken between the halves of a
\* purge pass is racy.
LEMMA GetSnapshotStep == ASSUME IInv, GetSnapshot PROVE IInv'
<1>0. TypeOK /\ SeqInv /\ FileInv /\ OwnInv /\ RefInv /\ TableInv /\ JobInv /\ ReadInv
  BY Zenon DEF IInv
<1>1. TypeOK'
  BY <1>0, UserType, Zenon DEF User
<1>2. EntryTyping /\ NumberTyping
  BY <1>0, EntryTypingHolds, NumberTypingHolds, Zenon
<1>3. UNCHANGED <<dbVars, reads, fileVars, tableVars, gcVars, purgeVars>>
  BY Zenon DEF GetSnapshot
<1> DEFINE new == [seq |-> lastSeq, racy |-> ppc = "begun"]
<1>4. /\ snaps' = snaps \cup {new} /\ new.seq = lastSeq
      /\ ppc = "begun" => new.racy
  BY Zenon DEF GetSnapshot
<1> HIDE DEF new
<1>5. SeqInv'
  BY <1>0, <1>2, <1>3, <1>4 DEF SeqInv, NumberTyping, dbVars, lsm
<1>6. RefInv'
  BY <1>0, <1>2, <1>3, <1>4 DEF RefInv, SeqInv, NumberTyping, EntryTyping, dbVars,
     fileVars, lsm
<1>7. TableInv'
  <2> SUFFICES ASSUME NEW t \in Builder, Running(t)
               PROVE  TableSrc(t)' /\ TableDst(t)' /\ TableDrop(t)'
    BY <1>3, Zenon DEF TableInv, Running, tableVars
  <2>1. TableSrc(t) /\ TableDst(t) /\ TableDrop(t) /\ tsrc[t] \subseteq lsm
    BY <1>0, RunningBuilder, Zenon DEF TableInv
  <2>2. TableSrc(t)' /\ TableDst(t)'
    BY <1>3, <2>1, Zenon DEF TableSrc, TableDst, RecordOf, SameVersion, dbVars,
       fileVars, tableVars
  <2>3. \A y \in tdst[t] : y.seq <= lastSeq
    BY <1>0, <2>1, Zenon DEF SeqInv, TableDst, SameVersion
  <2>4. \A x \in tsrc[t], y \in tdst[t] :
            ~SeenBetween(x.seq, y.seq) => ~SeenBetween(x.seq, y.seq)'
    <3> SUFFICES ASSUME NEW x \in tsrc[t], NEW y \in tdst[t], SeenBetween(x.seq, y.seq)'
                 PROVE  SeenBetween(x.seq, y.seq)
      BY Zenon
    <3>1. y.seq \in Nat
      BY <1>2, <2>1, Zenon DEF TableDst, SameVersion, EntryTyping
    <3> QED
      BY <1>2, <1>4, <2>3, <3>1 DEF SeenBetween, NumberTyping
  <2>5. TableDrop(t)'
    BY <1>3, <2>1, <2>4, Zenon DEF TableDrop, SameVersion, dbVars, tableVars, lsm
  <2> QED
    BY <2>2, <2>5, Zenon
<1>8. ReadInv'
  BY <1>0, <1>2, <1>3, <1>4, Zenon DEF ReadInv, RecordOf, fileVars, purgeVars
<1> QED
  BY <1>1, <1>3, <1>5, <1>6, <1>7, <1>8, FileFrame, OwnFrame, JobFrame, Zenon
     DEF IInv, dbVars, fileVars, tableVars, gcVars, purgeVars

\* A released snapshot only weakens what the others are promised.
LEMMA ReleaseSnapshotStep == ASSUME IInv, NEW s \in snaps, ReleaseSnapshot(s) PROVE IInv'
<1>0. TypeOK /\ SeqInv /\ FileInv /\ OwnInv /\ RefInv /\ TableInv /\ JobInv /\ ReadInv
  BY Zenon DEF IInv
<1>1. TypeOK'
  BY <1>0, UserType, Zenon DEF User
<1>2. UNCHANGED <<dbVars, reads, fileVars, tableVars, gcVars, purgeVars>>
  BY Zenon DEF ReleaseSnapshot
<1>3. snaps' \subseteq snaps
  BY Zenon DEF ReleaseSnapshot
<1>4. SeqInv'
  BY <1>0, <1>2, <1>3, Zenon DEF SeqInv, SameVersion, dbVars, lsm
<1>5. RefInv'
  BY <1>0, <1>2, <1>3 DEF RefInv, dbVars, fileVars, lsm
<1>6. TableInv'
  BY <1>0, <1>2, <1>3 DEF TableInv, TableSrc, TableDst, TableDrop, Running,
     SeenBetween, dbVars, fileVars, tableVars, lsm
<1>7. ReadInv'
  BY <1>0, <1>2, Zenon DEF ReadInv, ReleaseSnapshot, RecordOf, fileVars, purgeVars
<1> QED
  BY <1>1, <1>2, <1>4, <1>5, <1>6, <1>7, FileFrame, OwnFrame, JobFrame, Zenon
     DEF IInv, dbVars, fileVars, tableVars, gcVars, purgeVars

\* The index a read finds is readable: what hides it from newer snapshots does not
\* hide it from this one.
LEMMA VisibleIndex ==
    ASSUME IInv, NEW s \in snaps, ~s.racy, NEW e \in lsm, VisibleAt(e, s.seq), e.file # 0
    PROVE  /\ e.file \in File /\ meta[e.file] # "none"
           /\ RecordOf(e) \in content[e.file]
           /\ meta[e.file] = "Obsolete" => s.seq <= obsSeq[e.file]
<1>0. TypeOK /\ SeqInv /\ FileInv /\ OwnInv /\ RefInv /\ TableInv /\ JobInv /\ ReadInv
  BY Zenon DEF IInv
<1>1. EntryTyping /\ NumberTyping
  BY <1>0, EntryTypingHolds, NumberTypingHolds, Zenon
<1>2. e.file \in File
  BY <1>1, Zenon DEF EntryTyping
<1>3. ASSUME NEW x \in lsm, x.key = e.key, e.seq < x.seq
      PROVE  e.seq <= s.seq /\ s.seq < x.seq
  BY <1>1, <1>3 DEF VisibleAt, EntryTyping, NumberTyping
<1>4. \/ meta[e.file] \in LiveState /\ RecordOf(e) \in content[e.file]
      \/ /\ meta[e.file] = "Obsolete" /\ RecordOf(e) \in content[e.file]
         /\ s.seq <= obsSeq[e.file]
  BY <1>0, <1>3, Zenon DEF RefInv
<1> QED
  BY <1>2, <1>4, Zenon DEF LiveState

\* GetIndex starts a read on an index that is readable.
LEMMA GetIndexStep ==
    ASSUME IInv, NEW s \in snaps, NEW e \in lsm, GetIndex(s, e) PROVE IInv'
<1>0. TypeOK /\ SeqInv /\ FileInv /\ OwnInv /\ RefInv /\ TableInv /\ JobInv /\ ReadInv
  BY Zenon DEF IInv
<1>1. TypeOK'
  BY <1>0, UserType, Zenon DEF User
<1>2. UNCHANGED <<dbVars, snaps, fileVars, tableVars, gcVars, purgeVars>>
  BY Zenon DEF GetIndex
<1>3. e.file < nextFile
  BY <1>0, NumberTypingHolds, EntryTypingHolds DEF FileInv, FileBound, NumberTyping,
     EntryTyping
<1>4. reads' = reads \cup {<<s, e>>} /\ e.file # 0 /\ VisibleAt(e, s.seq)
  BY Zenon DEF GetIndex
<1>5. ~s.racy => /\ meta[e.file] # "none" /\ RecordOf(e) \in content[e.file]
                 /\ meta[e.file] = "Obsolete" => s.seq <= obsSeq[e.file]
  BY <1>4, VisibleIndex, Zenon
<1>6. ReadInv'
  BY <1>0, <1>2, <1>3, <1>4, <1>5 DEF ReadInv, fileVars, purgeVars
<1> QED
  BY <1>1, <1>2, <1>6, SeqFrame, FileFrame, OwnFrame, RefFrame, TableFrame,
     JobFrame, Zenon
     DEF IInv, dbVars, fileVars, tableVars, gcVars, purgeVars

\* No index points into a file whose keys all have lost their values; reads that
\* found one before have a snapshot no newer than the file's obsolete sequence.
LEMMA DeleteBlobFilesInRangesStep ==
    ASSUME IInv, NEW S \in SUBSET File, DeleteBlobFilesInRanges(S) PROVE IInv'
<1>0. TypeOK /\ SeqInv /\ FileInv /\ OwnInv /\ RefInv /\ TableInv /\ JobInv /\ ReadInv
  BY Zenon DEF IInv
<1>1. TypeOK'
  BY <1>0, UserType, Zenon DEF User
<1>2. EntryTyping /\ NumberTyping
  BY <1>0, EntryTypingHolds, NumberTypingHolds, Zenon
<1>3. UNCHANGED <<dbVars, readVars, nextFile, disk, content, tableVars, gcVars, purgeVars>>
  BY Zenon DEF DeleteBlobFilesInRanges
<1>4. /\ \A f \in S : meta[f] \notin {"none", "Obsolete"}
      /\ \A f \in S : \A r \in content[f] : \A e \in lsm : e.key = r.key => e.org = 0
      /\ \A f \in File : meta'[f] = IF f \in S THEN "Obsolete" ELSE meta[f]
      /\ \A f \in File : obsSeq'[f] = IF f \in S THEN lastSeq ELSE obsSeq[f]
      /\ manifest' = manifest \ S /\ manNext' = nextFile
  BY Zenon DEF DeleteBlobFilesInRanges
<1>5. lsm' = lsm
  BY <1>3, Zenon DEF lsm, dbVars
<1>6. \A e \in lsm : e.file # 0 => e.file \notin S
  <2> SUFFICES ASSUME NEW e \in lsm, e.file # 0, e.file \in S PROVE FALSE
    BY Zenon
  <2>1. e.org # 0
    BY <1>0, Zenon DEF SeqInv
  <2>2. RecordOf(e) \in content[e.file]
    BY <1>0, <1>4, Zenon DEF RefInv
  <2>3. RecordOf(e).key = e.key
    BY Zenon DEF RecordOf
  <2> QED
    BY <1>4, <2>1, <2>2, <2>3, Zenon
<1>7. FileInv'
  <2>1. /\ manNext <= nextFile
        /\ \A f \in File : f \in manifest <=> meta[f] \in LiveState
        /\ \A f \in File : meta[f] # "none" => f \in disk
        /\ \A f \in manifest : f < manNext
        /\ \A e \in lsm : e.file < manNext
    BY <1>0, Zenon DEF FileInv, FileBound, FileAgree
  <2>2. \A f \in File : f \in manifest' <=> meta'[f] \in LiveState
    BY <1>4, <2>1, Zenon DEF LiveState
  <2>3. \A f \in File : meta'[f] # "none" => f \in disk'
    BY <1>3, <1>4, <2>1, Zenon
  <2>4. /\ manNext' <= nextFile'
        /\ \A f \in manifest' : f < manNext'
        /\ \A e \in lsm' : e.file < manNext'
    <3>1. manifest \subseteq Nat
      BY <1>0, <1>2, Zenon DEF TypeOK, NumberTyping
    <3>2. nextFile \in Nat /\ manNext \in Nat /\ \A e \in lsm' : e.file \in Nat
      BY <1>2, <1>5, Zenon DEF NumberTyping, EntryTyping
    <3>3. manNext' = nextFile /\ nextFile' = nextFile /\ manifest' \subseteq manifest /\ lsm' = lsm
      BY <1>3, <1>4, <1>5, Zenon
    <3>4. \A f \in manifest : f < nextFile
      BY <2>1, <3>1, <3>2
    <3>5. \A e \in lsm : e.file < nextFile
      BY <1>5, <2>1, <3>2
    <3>6. nextFile <= nextFile
      BY <3>2
    <3> QED
      BY <3>3, <3>4, <3>5, <3>6, Zenon
  <2>5. \A f \in cand' : meta'[f] = "none" /\ f < nextFile'
    BY <1>0, <1>1, <1>3, <1>4, Zenon DEF FileInv, FileBound, FileAgree, TypeOK,
       purgeVars
  <2>6. FileBound'
    BY <1>0, <1>3, <2>2, <2>3, <2>4, <2>5, Zenon DEF FileInv, FileBound
  <2>7. FileAgree'
    BY <1>0, <1>3, <2>2, <2>3, <2>4, <2>5, Zenon DEF FileInv, FileAgree
  <2>8. FileRecords'
    BY <1>0, <1>3, <2>2, <2>3, <2>4, <2>5, Zenon DEF FileInv, FileRecords
  <2> QED
    BY <2>6, <2>7, <2>8, Zenon DEF FileInv, FileBound
<1>8. OwnInv'
  <2>1. \A t \in Builder : tpc[t] = "finished" /\ tout[t] # 0 => tout[t] \notin S
    <3> SUFFICES ASSUME NEW t \in Builder, tpc[t] = "finished", tout[t] # 0, tout[t] \in S
                 PROVE  FALSE
      BY Zenon
    <3>1. TableDst(t) /\ tsrc[t] \subseteq lsm
      BY <1>0, RunningBuilder, Zenon DEF TableInv, Running
    <3>2. PICK y \in tdst[t] : y.file = tout[t] /\ RecordOf(y) \in content[tout[t]]
      BY <3>1, Zenon DEF TableDst
    <3>3. PICK x \in tsrc[t] : SameVersion(x, y) /\ x.org = y.org
      BY <3>1, Zenon DEF TableDst
    <3>4. x.key = RecordOf(y).key /\ x.org # 0
      BY <3>1, <3>2, <3>3, Zenon DEF TableDst, SameVersion, RecordOf
    <3> QED
      BY <1>4, <3>1, <3>2, <3>4, Zenon
  <2>2. \A t \in Builder : tpc[t] = "built" /\ tout[t] # 0 => tout[t] \notin S
    BY <1>0, <1>4, Zenon DEF OwnInv, OwnBuilder
  <2>3. \A t \in Builder : tout[t] # 0 => tout[t] \in File
    BY <1>0 DEF TypeOK, File0, File
  <2>4. \A j \in Job : inputs[j] \subseteq File /\ outs[j] \subseteq File
    BY <1>0, Zenon DEF TypeOK
  <2>5. OwnBound'
    BY <1>0, <1>2, <1>3, <1>4, <1>5, <2>1, <2>2, <2>3, <2>4, Zenon DEF OwnInv,
       OwnBound, FileInv, FileBound, NumberTyping, tableVars, gcVars, purgeVars
  <2>6. OwnApart'
    BY <1>0, <1>2, <1>3, <1>4, <1>5, <2>1, <2>2, <2>3, <2>4, Zenon DEF OwnInv,
       OwnApart, FileInv, FileBound, NumberTyping, tableVars, gcVars, purgeVars
  <2>7. OwnBuilder'
    BY <1>0, <1>3, <1>4, <1>5, <2>1, <2>3 DEF OwnInv, OwnBuilder, tableVars,
       purgeVars
  <2>8. OwnJob'
    BY <1>0, <1>2, <1>3, <1>4, <1>5, <2>4 DEF OwnInv, OwnJob, FileInv, FileBound,
       NumberTyping, gcVars, purgeVars
  <2> QED
    BY <2>5, <2>6, <2>7, <2>8, Zenon DEF OwnInv, OwnBound
<1>9. RefInv'
  BY <1>0, <1>2, <1>3, <1>4, <1>5, <1>6 DEF RefInv, EntryTyping, dbVars, readVars
<1>10. TableInv'
  BY <1>0, <1>3, TableFrame, Zenon DEF dbVars, readVars
<1>11. JobInv'
  <2> SUFFICES ASSUME NEW j \in Job PROVE JobPhase(j)' /\ JobRefs(j)' /\ JobCopies(j)'
    BY Zenon DEF JobInv
  <2>1. JobPhase(j) /\ JobRefs(j) /\ JobCopies(j)
    BY <1>0, Zenon DEF JobInv
  <2>2. JobPhase(j)' /\ JobRefs(j)'
    BY <1>3, <1>5, <2>1, Zenon DEF JobPhase, JobRefs, HiddenUpTo, RecordOf, dbVars,
       gcVars
  <2>3. \A b \in batch[j] : b.dst # 0 => b.dst \in File
    BY <1>0, <2>1, Zenon DEF TypeOK, JobCopies
  <2>4. ASSUME NEW b \in batch[j], b.dst \in S, b.dst # 0, NEW e \in lsm,
               e.key = b.rec.key, e.file = b.src
        PROVE  FALSE
    <3>1. b.src \in File
      BY <1>0, <2>1, Zenon DEF TypeOK, JobCopies
    <3> QED
      BY <1>0, <1>2, <1>4, <2>1, <2>4, <3>1 DEF JobCopies, SeqInv, NumberTyping
  <2>5. JobCopies(j)'
    BY <1>3, <1>4, <1>5, <2>1, <2>3, <2>4, Zenon DEF JobCopies, gcVars
  <2> QED
    BY <2>2, <2>5, Zenon
<1>12. ReadInv'
  <2>1. \A r \in reads : r[2].file \in File
    BY <1>0 DEF ReadInv, TypeOK, Entry, File0, File
  <2> QED
    BY <1>0, <1>3, <1>4, <2>1 DEF ReadInv, SeqInv, readVars, purgeVars
<1> QED
  BY <1>1, <1>3, <1>7, <1>8, <1>9, <1>10, <1>11, <1>12, SeqFrame, Zenon DEF IInv,
     readVars

\* Users' operations preserve the invariant.
LEMMA UserStep == ASSUME IInv, User PROVE IInv'
  BY WriteStep, SetOptionsStep, GetSnapshotStep, ReleaseSnapshotStep, GetIndexStep,
     GetBlobStep, DeleteBlobFilesInRangesStep, Zenon DEF User

-----------------------------------------------------------------------------
\* The purge thread keeps the types.
LEMMA PurgeType == ASSUME TypeOK, Purge PROVE TypeOK'
<1> USE BoundsAssumption, ModeAssumption
        DEF TypeOK, dbVars, readVars, fileVars, optVars, tableVars, gcVars,
            purgeVars, ghostVars
<1>1. CASE PurgeBegin
  BY <1>1, Zenon DEF PurgeBegin
<1>2. CASE GetObsoleteFiles
  BY <1>2 DEF GetObsoleteFiles, Purgeable, FileState, Seq0, MaxSequenceNumber
<1>3. ASSUME NEW f \in cand, DeleteFile(f) PROVE TypeOK'
  BY <1>3, Zenon DEF DeleteFile
<1> QED
  BY <1>1, <1>2, <1>3, Zenon DEF Purge

\* Reading the oldest snapshot bounds the snapshots that exist; later ones are racy.
LEMMA PurgeBeginStep == ASSUME IInv, PurgeBegin PROVE IInv'
<1>0. TypeOK /\ SeqInv /\ FileInv /\ OwnInv /\ RefInv /\ TableInv /\ JobInv /\ ReadInv
  BY Zenon DEF IInv
<1>1. TypeOK'
  BY <1>0, PurgeType, Zenon DEF Purge
<1>2. /\ ppc = "idle" /\ ppc' = "begun"
      /\ \A s \in snaps : oldest' <= s.seq
      /\ UNCHANGED <<dbVars, readVars, fileVars, tableVars, gcVars, cand>>
  BY Zenon DEF PurgeBegin, IsOldestSnapshot
<1>3. ReadInv'
  BY <1>0, <1>2, Zenon DEF ReadInv, RecordOf, readVars, fileVars
<1> QED
  BY <1>1, <1>2, <1>3, SeqFrame, FileFrame, OwnFrame, RefFrame, TableFrame,
     JobFrame, Zenon
     DEF IInv, dbVars, readVars, fileVars, tableVars, gcVars

\* A file whose obsolete sequence is below the oldest snapshot leaves files_: every
\* snapshot that is not racy is above it.
LEMMA GetObsoleteFilesStep == ASSUME IInv, GetObsoleteFiles PROVE IInv'
<1>0. TypeOK /\ SeqInv /\ FileInv /\ OwnInv /\ RefInv /\ TableInv /\ JobInv /\ ReadInv
  BY Zenon DEF IInv
<1>1. TypeOK'
  BY <1>0, PurgeType, Zenon DEF Purge
<1>2. EntryTyping /\ NumberTyping
  BY <1>0, EntryTypingHolds, NumberTypingHolds, Zenon
<1>3. /\ cand' = {f \in File : meta[f] = "Obsolete" /\ oldest > obsSeq[f]}
      /\ \A f \in File : /\ meta'[f] = IF f \in cand' THEN "none" ELSE meta[f]
                         /\ obsSeq'[f] = IF f \in cand' THEN 0 ELSE obsSeq[f]
      /\ cand = {}
      /\ ppc' # "begun" /\ (ppc' # "delete" => cand' = {})
      /\ \A s \in snaps : ~s.racy => oldest <= s.seq
      /\ UNCHANGED <<dbVars, readVars, nextFile, disk, content, manifest, manNext,
                     tableVars, gcVars>>
  BY <1>0, Zenon DEF GetObsoleteFiles, Purgeable, ReadInv
<1>4. /\ \A f \in cand' : meta[f] = "Obsolete" /\ meta'[f] = "none" /\ f \in File
      /\ \A f \in File \ cand' : meta'[f] = meta[f] /\ obsSeq'[f] = obsSeq[f]
      /\ \A s \in snaps : \A f \in cand' : s.seq <= obsSeq[f] => s.racy
  BY <1>2, <1>3 DEF NumberTyping
<1>5. lsm' = lsm
  BY <1>3, Zenon DEF lsm, dbVars
<1>6. \A f \in File : \/ meta'[f] = meta[f]
                      \/ meta[f] = "Obsolete" /\ meta'[f] = "none" /\ f \in cand'
  BY <1>4, Zenon
<1>7. FileInv'
  <2>1. \A f \in File : f \in manifest' <=> meta'[f] \in LiveState
    BY <1>0, <1>3, <1>6, Zenon DEF FileInv, FileAgree, LiveState
  <2>2. \A f \in cand' : meta'[f] = "none" /\ f < nextFile'
    BY <1>0, <1>3, <1>4, Zenon DEF FileInv, FileBound, FileAgree
  <2>3. FileBound'
    BY <1>0, <1>3, <1>5, <1>6, <2>1, <2>2, Zenon DEF FileInv, FileBound
  <2>4. FileAgree'
    BY <1>0, <1>3, <1>5, <1>6, <2>1, <2>2, Zenon DEF FileInv, FileAgree
  <2>5. FileRecords'
    BY <1>0, <1>3, <1>5, <1>6, <2>1, <2>2, Zenon DEF FileInv, FileRecords
  <2> QED
    BY <2>3, <2>4, <2>5, Zenon DEF FileInv, FileBound
<1>8. OwnInv'
  <2>1. \A t \in Builder : tout[t] # 0 => tout[t] \in File
    BY <1>0 DEF TypeOK, File0, File
  <2>2. \A j \in Job : \A f \in inputs[j] \cup outs[j] : f \in File
    BY <1>0, Zenon DEF TypeOK
  <2>3. /\ \A t \in Builder : tpc[t] = "built" /\ tout[t] # 0 =>
              meta'[tout[t]] = "none" /\ tout[t] \notin cand'
        /\ \A t \in Builder : tpc[t] = "finished" /\ tout[t] # 0 =>
              meta'[tout[t]] = "PendingLSM"
        /\ \A t \in Builder : tpc[t] = "installed" /\ tout[t] # 0 =>
              meta'[tout[t]] \in {"PendingLSM", "Obsolete", "none"}
    <3> SUFFICES ASSUME NEW t \in Builder, tout[t] # 0
                 PROVE  /\ tpc[t] = "built" => meta'[tout[t]] = "none" /\ tout[t] \notin cand'
                        /\ tpc[t] = "finished" => meta'[tout[t]] = "PendingLSM"
                        /\ tpc[t] = "installed" =>
                              meta'[tout[t]] \in {"PendingLSM", "Obsolete", "none"}
      BY Zenon
    <3>1. /\ tpc[t] = "built" => meta[tout[t]] = "none"
          /\ tpc[t] = "finished" => meta[tout[t]] = "PendingLSM"
          /\ tpc[t] = "installed" => meta[tout[t]] \in {"PendingLSM", "Obsolete", "none"}
      BY <1>0, Zenon DEF OwnInv, OwnBuilder
    <3> QED
      BY <1>4, <1>6, <2>1, <3>1, Zenon
  <2>4. /\ \A j \in Job : \A f \in inputs[j] : meta'[f] \in {"BeingGC", "Obsolete", "none"}
        /\ \A j \in Job : pc[j] = "run" => \A f \in outs[j] :
              meta'[f] = "none" /\ f \notin cand'
        /\ \A j \in Job : pc[j] \in {"rewrite", "delete"} => \A f \in outs[j] :
              meta'[f] \in {"PendingGC", "Obsolete", "none"}
    <3>1. /\ \A j \in Job : \A f \in inputs[j] : meta[f] \in {"BeingGC", "Obsolete", "none"}
          /\ \A j \in Job : pc[j] = "run" => \A f \in outs[j] : meta[f] = "none"
          /\ \A j \in Job : pc[j] \in {"rewrite", "delete"} => \A f \in outs[j] :
                meta[f] \in {"PendingGC", "Obsolete", "none"}
      BY <1>0, Zenon DEF OwnInv, OwnJob
    <3> QED
      BY <1>4, <1>6, <2>2, <3>1
  <2>5. OwnBound'
    BY <1>0, <1>3, <1>5, <2>3, <2>4, Zenon DEF OwnInv, OwnBound, tableVars, gcVars
  <2>6. OwnApart'
    BY <1>0, <1>3, <1>5, <2>3, <2>4, Zenon DEF OwnInv, OwnApart, tableVars, gcVars
  <2>7. OwnBuilder'
    BY <1>0, <1>3, <1>5, <2>3, <2>4, Zenon DEF OwnInv, OwnBuilder, tableVars, gcVars
  <2>8. OwnJob'
    BY <1>0, <1>3, <1>5, <2>4, Zenon DEF OwnInv, OwnJob, gcVars
  <2> QED
    BY <2>5, <2>6, <2>7, <2>8, Zenon DEF OwnInv, OwnBound
<1>9. RefInv'
  <2> SUFFICES ASSUME NEW e \in lsm, e.file # 0
        PROVE \/ meta'[e.file] \in LiveState /\ RecordOf(e) \in content[e.file]
              \/ /\ meta'[e.file] = "Obsolete" /\ RecordOf(e) \in content[e.file]
                 /\ \E w \in lsm : /\ w.key = e.key /\ e.seq < w.seq /\ w.seq <= durSeq
                                   /\ \A s \in snaps : e.seq <= s.seq /\ s.seq < w.seq
                                                       => s.seq <= obsSeq'[e.file]
              \/ /\ meta'[e.file] = "none"
                 /\ \E w \in lsm : /\ w.key = e.key /\ e.seq < w.seq /\ w.seq <= durSeq
                                   /\ \A s \in snaps : e.seq <= s.seq /\ s.seq < w.seq
                                                       => s.racy
    BY <1>3, <1>5 DEF RefInv, RecordOf, dbVars, readVars
  <2>1. e.file \in File
    BY <1>2, Zenon DEF EntryTyping
  <2>2. CASE e.file \in cand'
    <3>1. PICK w \in lsm : /\ w.key = e.key /\ e.seq < w.seq /\ w.seq <= durSeq
                           /\ \A s \in snaps : e.seq <= s.seq /\ s.seq < w.seq
                                               => s.seq <= obsSeq[e.file]
      BY <1>0, <1>4, <2>2, Zenon DEF RefInv, LiveState
    <3> QED
      BY <1>4, <2>2, <3>1, Zenon
  <2>3. CASE e.file \notin cand'
    <3>1. meta'[e.file] = meta[e.file] /\ obsSeq'[e.file] = obsSeq[e.file]
      BY <1>4, <2>1, <2>3, Zenon
    <3> QED
      BY <1>0, <3>1, Zenon DEF RefInv
  <2> QED
    BY <2>2, <2>3, Zenon
<1>10. JobInv'
  <2> SUFFICES ASSUME NEW j \in Job PROVE JobPhase(j)' /\ JobRefs(j)' /\ JobCopies(j)'
    BY Zenon DEF JobInv
  <2>1. JobPhase(j) /\ JobRefs(j) /\ JobCopies(j)
    BY <1>0, Zenon DEF JobInv
  <2>2. JobPhase(j)' /\ JobRefs(j)'
    BY <1>3, <1>5, <2>1, Zenon DEF JobPhase, JobRefs, HiddenUpTo, RecordOf, dbVars,
       gcVars
  <2>3. \A f \in outs[j] : meta[f] = "PendingGC" => meta'[f] = "PendingGC"
    BY <1>0, <1>6, Zenon DEF TypeOK
  <2>4. JobCopies(j)'
    BY <1>3, <1>5, <2>1, <2>3, Zenon DEF JobCopies, gcVars
  <2> QED
    BY <2>2, <2>4, Zenon
<1>11. ReadInv'
  <2>1. ASSUME NEW r \in reads
        PROVE  /\ r[1] \in snaps /\ r[2].file # 0 /\ r[2].file < nextFile'
               /\ ~r[1].racy => /\ meta'[r[2].file] # "none"
                                /\ RecordOf(r[2]) \in content[r[2].file]
                                /\ meta'[r[2].file] = "Obsolete" =>
                                       r[1].seq <= obsSeq'[r[2].file]
    <3>1. /\ r[1] \in snaps /\ r[2].file # 0 /\ r[2].file < nextFile
          /\ ~r[1].racy => /\ meta[r[2].file] # "none"
                           /\ RecordOf(r[2]) \in content[r[2].file]
                           /\ meta[r[2].file] = "Obsolete" => r[1].seq <= obsSeq[r[2].file]
      BY <1>0, <2>1, Zenon DEF ReadInv
    <3>2. r[2].file \in File
      <4>1. r \in Snapshot \X Entry
        BY <1>0, Zenon DEF TypeOK
      <4> QED
        BY <3>1, <4>1, BoundsAssumption DEF Entry, File0, File
    <3>3. ~r[1].racy => r[2].file \notin cand'
      BY <1>4, <3>1, Zenon
    <3>4. nextFile' = nextFile
      BY <1>3, Zenon
    <3> QED
      BY <1>4, <3>1, <3>2, <3>3, <3>4, Zenon
  <2> QED
    BY <1>3, <2>1, Zenon DEF ReadInv, RecordOf, readVars
<1> QED
  BY <1>1, <1>3, <1>7, <1>8, <1>9, <1>10, <1>11, SeqFrame, TableFrame, Zenon
     DEF IInv, dbVars, readVars

\* A file that left files_ is nobody's output, so deleting it harms nobody.
LEMMA DeleteFileStep == ASSUME IInv, NEW f \in cand, DeleteFile(f) PROVE IInv'
<1>0. TypeOK /\ SeqInv /\ FileInv /\ OwnInv /\ RefInv /\ TableInv /\ JobInv /\ ReadInv
  BY Zenon DEF IInv
<1>1. TypeOK'
  BY <1>0, PurgeType, Zenon DEF Purge
<1>2. /\ ppc = "delete" /\ cand' = cand \ {f} /\ disk' \in {disk, disk \ {f}}
      /\ ppc' # "begun" /\ (ppc' # "delete" => cand' = {})
      /\ UNCHANGED <<dbVars, readVars, nextFile, content, meta, obsSeq, manifest, manNext,
                     tableVars, gcVars, oldest>>
  BY Zenon DEF DeleteFile
<1>3. lsm' = lsm
  BY <1>2, Zenon DEF lsm, dbVars
<1>4. meta[f] = "none"
  BY <1>0, Zenon DEF FileInv, FileAgree
<1>5. FileInv'
  <2>1. FileBound'
    BY <1>0, <1>2, <1>3, <1>4, Zenon DEF FileInv, FileBound
  <2>2. FileAgree'
    BY <1>0, <1>2, <1>3, <1>4, Zenon DEF FileInv, FileAgree
  <2>3. FileRecords'
    BY <1>0, <1>2, <1>3, <1>4, Zenon DEF FileInv, FileRecords
  <2> QED
    BY <2>1, <2>2, <2>3, Zenon DEF FileInv, FileBound
<1>6. OwnInv'
  <2>1. /\ \A t \in Builder : tpc[t] = "built" /\ tout[t] # 0 =>
              tout[t] \in disk' /\ tout[t] \notin cand'
        /\ \A j \in Job : pc[j] = "run" => \A g \in outs[j] : g \in disk' /\ g \notin cand'
    BY <1>0, <1>2 DEF OwnInv, OwnBuilder, OwnJob
  <2>2. OwnBound'
    BY <1>0, <1>2, <1>3, <2>1, Zenon DEF OwnInv, OwnBound, tableVars, gcVars
  <2>3. OwnApart'
    BY <1>0, <1>2, <1>3, <2>1, Zenon DEF OwnInv, OwnApart, tableVars, gcVars
  <2>4. OwnBuilder'
    BY <1>0, <1>2, <1>3, <2>1, Zenon DEF OwnInv, OwnBuilder, tableVars, gcVars
  <2>5. OwnJob'
    BY <1>0, <1>2, <1>3, <2>1, Zenon DEF OwnInv, OwnJob, tableVars, gcVars
  <2> QED
    BY <2>2, <2>3, <2>4, <2>5, Zenon DEF OwnInv, OwnBound
<1>7. ReadInv'
  BY <1>0, <1>2, Zenon DEF ReadInv, RecordOf, readVars
<1> QED
  BY <1>1, <1>2, <1>5, <1>6, <1>7, SeqFrame, RefFrame, TableFrame, JobFrame, Zenon
     DEF IInv, dbVars, readVars, tableVars, gcVars

-----------------------------------------------------------------------------

-----------------------------------------------------------------------------
\* The database opens in a state of the declared types.
LEMMA InitType == Init => TypeOK
<1> SUFFICES ASSUME Init PROVE TypeOK
  BY Zenon
<1> USE BoundsAssumption, ModeAssumption
<1>1. bgError \in BOOLEAN
  BY Zenon DEF Init
<1>2. /\ runMode \in RunMode /\ lastSeq \in Seq0 /\ durSeq \in Seq0
      /\ nextFile \in 1 .. MaxFile + 1 /\ manNext \in 1 .. MaxFile + 1
      /\ oldest \in 0 .. MaxSequenceNumber
      /\ compacts \in 0 .. MaxCompact /\ faults \in 0 .. MaxFault
  BY DEF Init, Seq0, MaxSequenceNumber
<1>3. /\ content \in [File -> SUBSET Record]
      /\ meta \in [File -> FileState] /\ obsSeq \in [File -> Seq0]
      /\ tpc \in [Builder -> {"idle", "built", "finished", "installed"}]
      /\ tsrc \in [Builder -> SUBSET Entry] /\ tdst \in [Builder -> SUBSET Entry]
      /\ tout \in [Builder -> File0] /\ tupto \in [Builder -> Seq0]
  BY DEF Init, Seq0, File0, FileState
<1>4. /\ pc \in [Job -> {"idle", "run", "rewrite", "delete"}]
      /\ inputs \in [Job -> SUBSET File] /\ outs \in [Job -> SUBSET File]
      /\ todo \in [Job -> SUBSET (File \X Record)]
      /\ fresh \in [Job -> SUBSET Key] /\ batch \in [Job -> SUBSET Rewrite]
      /\ mode \in [Job -> {"normal", "readonly", "fallback"}]
  BY Zenon DEF Init
<1>5. /\ mem \subseteq Entry /\ sst \subseteq Entry
      /\ snaps \subseteq Snapshot /\ reads \subseteq Snapshot \X Entry
      /\ disk \subseteq File /\ manifest \subseteq File
      /\ ppc \in {"idle", "begun", "delete"} /\ cand \subseteq File
      /\ writes \subseteq [key : Key, seq : Seq0, org : Seq0]
  BY Zenon DEF Init
<1> QED
  BY <1>1, <1>2, <1>3, <1>4, <1>5, Zenon DEF TypeOK

\* A crash and the recovery after it keep the types.
LEMMA CrashType == ASSUME TypeOK, NEW n \in Seq0, CrashAndRecover(n) PROVE TypeOK'
<1> USE BoundsAssumption, ModeAssumption
        DEF TypeOK, dbVars, readVars, fileVars, optVars, tableVars, gcVars,
            purgeVars, ghostVars
<1>1. /\ meta' \in [File -> FileState] /\ obsSeq' \in [File -> Seq0]
      /\ disk' \subseteq File
  BY DEF CrashAndRecover, FileState, Seq0
<1>2. /\ oldest' \in 0 .. MaxSequenceNumber /\ faults' \in 0 .. MaxFault
      /\ bgError' = FALSE /\ snaps' = {} /\ reads' = {} /\ cand' = {}
      /\ ppc' = "idle"
  BY DEF CrashAndRecover, MaxSequenceNumber
<1>3. /\ tsrc' \in [Builder -> SUBSET Entry] /\ tdst' \in [Builder -> SUBSET Entry]
      /\ tout' \in [Builder -> File0] /\ tupto' \in [Builder -> Seq0]
      /\ tpc' \in [Builder -> {"idle", "built", "finished", "installed"}]
  BY DEF CrashAndRecover, Seq0, File0
<1>4. /\ pc' \in [Job -> {"idle", "run", "rewrite", "delete"}]
      /\ inputs' \in [Job -> SUBSET File] /\ outs' \in [Job -> SUBSET File]
      /\ todo' \in [Job -> SUBSET (File \X Record)]
      /\ fresh' \in [Job -> SUBSET Key] /\ batch' \in [Job -> SUBSET Rewrite]
      /\ mode' \in [Job -> {"normal", "readonly", "fallback"}]
  BY Zenon DEF CrashAndRecover
<1> QED
  BY <1>1, <1>2, <1>3, <1>4, Zenon DEF CrashAndRecover

\* After a crash every index that can be seen is into a file of the MANIFEST: what
\* hides the others is durable.
LEMMA CrashAndRecoverStep == ASSUME IInv, NEW n \in Seq0, CrashAndRecover(n) PROVE IInv'
<1>0. TypeOK /\ SeqInv /\ FileInv /\ OwnInv /\ RefInv /\ TableInv /\ JobInv /\ ReadInv
  BY Zenon DEF IInv
<1>1. TypeOK'
  BY <1>0, CrashType, Zenon
<1>2. EntryTyping /\ NumberTyping
  BY <1>0, EntryTypingHolds, NumberTypingHolds, Zenon
<1>3. n \in Nat
  BY DEF Seq0
<1>4. /\ durSeq <= n /\ lastSeq' = n /\ durSeq' = n
      /\ mem' = {e \in mem : e.seq <= n} /\ sst' = sst
      /\ snaps' = {} /\ reads' = {}
      /\ disk' = disk \cap manifest /\ nextFile' = manNext
      /\ \A f \in File : meta'[f] = IF f \in manifest THEN "Normal" ELSE "none"
      /\ ppc' = "idle" /\ cand' = {}
      /\ UNCHANGED <<content, manifest, manNext>>
  BY Zenon DEF CrashAndRecover
<1>5. /\ \A t \in Builder : tpc'[t] = "idle" /\ tout'[t] = 0
      /\ \A j \in Job : /\ pc'[j] = "idle" /\ inputs'[j] = {} /\ todo'[j] = {}
                        /\ fresh'[j] = {} /\ outs'[j] = {} /\ batch'[j] = {}
  BY Zenon DEF CrashAndRecover
<1>6. \A e \in sst : e.seq <= n
  BY <1>0, <1>2, <1>3, <1>4 DEF SeqInv, EntryTyping, NumberTyping, lsm
<1>7. lsm' = {e \in lsm : e.seq <= n}
  BY <1>4, <1>6, Zenon DEF lsm
<1>8. SeqInv'
  BY <1>0, <1>3, <1>4, <1>6, <1>7 DEF SeqInv, SameVersion
<1>9. FileInv'
  <2>1. \A f \in File : f \in manifest' <=> meta'[f] \in LiveState
    BY <1>4, Zenon DEF LiveState
  <2>2. \A f \in File : meta'[f] # "none" => f \in disk'
    BY <1>0, <1>4, Zenon DEF FileInv, FileAgree, LiveState
  <2>3. FileBound'
    BY <1>0, <1>2, <1>4, <1>7 DEF FileInv, FileBound, NumberTyping
  <2>4. FileAgree'
    BY <1>0, <1>2, <1>4, <1>7, <2>1, <2>2, Zenon DEF FileInv, FileAgree,
       NumberTyping
  <2>5. FileRecords'
    BY <1>0, <1>2, <1>4, <1>7, <2>1, <2>2, Zenon DEF FileInv, FileRecords,
       NumberTyping
  <2> QED
    BY <2>3, <2>4, <2>5, Zenon DEF FileInv, FileBound
<1>10. OwnInv'
  <2>1. OwnBound'
    BY <1>2, <1>4, <1>5 DEF OwnBound, NumberTyping
  <2>2. OwnApart'
    BY <1>2, <1>4, <1>5, Zenon DEF OwnInv, OwnApart, NumberTyping
  <2>3. OwnBuilder'
    BY <1>2, <1>4, <1>5, Zenon DEF OwnInv, OwnBuilder, NumberTyping
  <2>4. OwnJob'
    BY <1>2, <1>4, <1>5, Zenon DEF OwnInv, OwnJob, NumberTyping
  <2> QED
    BY <2>1, <2>2, <2>3, <2>4, Zenon DEF OwnInv, OwnBound
<1>11. RefInv'
  <2> SUFFICES ASSUME NEW e \in lsm', e.file # 0
        PROVE \/ meta'[e.file] \in LiveState /\ RecordOf(e) \in content[e.file]
              \/ /\ meta'[e.file] = "none"
                 /\ \E w \in lsm' : w.key = e.key /\ e.seq < w.seq /\ w.seq <= durSeq'
    BY <1>4, Zenon DEF RefInv, RecordOf
  <2>1. e \in lsm /\ e.file \in File
    BY <1>2, <1>7, Zenon DEF EntryTyping
  <2>2. CASE meta[e.file] \in LiveState
    BY <1>0, <1>4, <2>1, <2>2, Zenon DEF FileInv, FileAgree, RefInv, LiveState
  <2>3. CASE meta[e.file] \notin LiveState
    <3>1. PICK w \in lsm : w.key = e.key /\ e.seq < w.seq /\ w.seq <= durSeq
      BY <1>0, <2>1, <2>3, Zenon DEF RefInv
    <3>2. w.seq <= n
      BY <1>2, <1>3, <1>4, <3>1 DEF EntryTyping, NumberTyping
    <3>3. meta'[e.file] = "none"
      BY <1>0, <1>4, <2>1, <2>3, Zenon DEF FileInv, FileAgree
    <3> QED
      BY <1>4, <1>7, <3>1, <3>2, <3>3, Zenon
  <2> QED
    BY <2>2, <2>3, Zenon
<1>12. TableInv'
  BY <1>5, Zenon DEF TableInv, Running
<1>13. JobInv'
  BY <1>5, Zenon DEF JobInv, JobPhase, JobRefs, JobCopies
<1>14. ReadInv'
  BY <1>4, Zenon DEF ReadInv
<1> QED
  BY <1>1, <1>8, <1>9, <1>10, <1>11, <1>12, <1>13, <1>14, Zenon DEF IInv

\* A new database satisfies the invariant.
LEMMA InitInv == Init => IInv
<1> SUFFICES ASSUME Init PROVE IInv
  BY Zenon
<1>1. TypeOK
  BY InitType, Zenon
<1>2. lsm = {}
  BY Zenon DEF Init, lsm
<1>3. SeqInv /\ RefInv
  BY <1>2 DEF Init, SeqInv, RefInv
<1>4. FileInv
  BY <1>2 DEF Init, FileInv, FileBound, FileAgree, FileRecords, LiveState
<1>5. OwnInv
  BY DEF Init, OwnInv, OwnBound, OwnApart, OwnBuilder, OwnJob
<1>6. TableInv
  BY Zenon DEF Init, TableInv, Running
<1>7. JobInv
  BY <1>2, Zenon DEF Init, JobInv, JobPhase, JobRefs, JobCopies
<1>8. ReadInv
  BY Zenon DEF Init, ReadInv
<1> QED
  BY <1>1, <1>3, <1>4, <1>5, <1>6, <1>7, <1>8, Zenon DEF IInv
=============================================================================
