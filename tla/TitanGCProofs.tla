----------------------------- MODULE TitanGCProofs -----------------------------
(***************************************************************************)
(* With the steps of users, builders, GC jobs, the purge thread and        *)
(* recovery the invariant of TitanGCInv is inductive, and the safety       *)
(* properties of TitanGC follow for every number of keys, GC threads,      *)
(* files, snapshots and faults.  Given IInv, ValueInv is inductive too:    *)
(* everybody reads the value of the last user write, and TitanGC           *)
(* implements KVStore.                                                     *)
(***************************************************************************)
EXTENDS TitanStore, TitanGCUserSteps, TitanGCTableSteps, TitanGCJobSteps

\* Every variable of the model keeps its type, whatever the constants.
THEOREM TypeCorrect == Spec => []TypeOK
<1>1. TypeOK /\ [Next]_vars => TypeOK'
  <2> SUFFICES ASSUME TypeOK, [Next]_vars PROVE TypeOK'
    BY Zenon
  <2>1. CASE UNCHANGED vars
    BY <2>1, Zenon DEF TypeOK, vars, dbVars, readVars, fileVars, optVars, tableVars,
       gcVars, purgeVars, ghostVars
  <2> QED
    BY <2>1, UserType, TableType, GCType, PurgeType, CrashType, Zenon DEF Next
<1> QED
  BY <1>1, InitType, PTL DEF Spec


\* Every step preserves the invariant.
LEMMA NextInv == ASSUME IInv, ~ReadFault, [Next]_vars PROVE IInv'
<1>0. TypeOK /\ SeqInv /\ FileInv /\ OwnInv /\ RefInv /\ TableInv /\ JobInv /\ ReadInv
  BY Zenon DEF IInv
<1>1. CASE User
  BY <1>1, UserStep, Zenon
<1>2. CASE Table
  BY <1>2, TableStep, Zenon
<1>3. ASSUME NEW j \in Job, GC(j) PROVE IInv'
  BY <1>3, GCStep, Zenon
<1>4. CASE Purge
  BY <1>4, PurgeBeginStep, GetObsoleteFilesStep, DeleteFileStep, Zenon DEF Purge
<1>5. ASSUME NEW n \in Seq0, CrashAndRecover(n) PROVE IInv'
  BY <1>5, CrashAndRecoverStep, Zenon
<1>6. CASE UNCHANGED vars
  <2>1. TypeOK'
    BY <1>0, <1>6, Zenon DEF TypeOK, vars, dbVars, readVars, fileVars, optVars,
       tableVars, gcVars, purgeVars, ghostVars
  <2> QED
    BY <1>0, <1>6, <2>1, SeqFrame, FileFrame, OwnFrame, RefFrame, TableFrame,
       JobFrame, ReadFrame, Zenon
       DEF IInv, vars, dbVars, readVars, fileVars, tableVars, gcVars, purgeVars
<1> QED
  BY <1>1, <1>2, <1>3, <1>4, <1>5, <1>6, Zenon DEF Next

\* The invariant holds in every reachable state of a database whose blob files can
\* be read during GC (~ReadFault): each handler of users, table builders, GC jobs, the
\* purge thread and recovery preserves it.
THEOREM Inductive == ASSUME ~ReadFault PROVE Spec => []IInv
<1>1. Init => IInv
  BY InitInv, Zenon
<1>2. IInv /\ [Next]_vars => IInv'
  BY NextInv, Zenon
<1> QED
  BY <1>1, <1>2, PTL DEF Spec

\* The invariant makes every index a snapshot sees readable ...
LEMMA InvReadable == IInv => SnapshotReadable
<1> SUFFICES ASSUME IInv, NEW s \in snaps, ~s.racy, NEW e \in lsm, VisibleAt(e, s.seq)
             PROVE  Readable(e)
  BY Zenon DEF SnapshotReadable
<1> SUFFICES ASSUME e.file # 0 PROVE Readable(e)
  BY Zenon DEF Readable
<1>1. /\ e.file \in File /\ meta[e.file] # "none"
      /\ RecordOf(e) \in content[e.file]
  BY VisibleIndex, Zenon
<1>2. e.file \in disk
  BY <1>1, Zenon DEF IInv, FileInv, FileAgree
<1> QED
  BY <1>1, <1>2, Zenon DEF Readable

\* Every snapshot that was not taken while a purge pass was between reading the
\* oldest snapshot and taking mutex_ can read, from the blob files, every value it
\* sees, whatever flush, compaction, GC, purge and crashes did.
THEOREM SnapshotsStayReadable == ASSUME ~ReadFault PROVE Spec => []SnapshotReadable
  BY InvReadable, Inductive, PTL

\* A Get that has its blob index already still finds the record when it goes on to
\* BlobStorage::Get, whatever happened between its two halves.
THEOREM ReadsAreServed == ASSUME ~ReadFault PROVE Spec => []ReadsServed
<1>1. IInv => ReadsServed
  <2> SUFFICES ASSUME IInv, NEW r \in reads, ~r[1].racy PROVE Readable(r[2])
    BY Zenon DEF ReadsServed
  <2>1. /\ r[2].file # 0 /\ meta[r[2].file] # "none"
        /\ RecordOf(r[2]) \in content[r[2].file]
    BY Zenon DEF IInv, ReadInv
  <2>2. r[2].file \in File
    <3>1. r \in Snapshot \X Entry
      BY Zenon DEF IInv, TypeOK
    <3> QED
      BY <2>1, <3>1, BoundsAssumption DEF Entry, File0, File
  <2>3. r[2].file \in disk
    BY <2>1, <2>2, Zenon DEF IInv, FileInv, FileAgree
  <2> QED
    BY <2>1, <2>3, Zenon DEF Readable
<1> QED
  BY <1>1, Inductive, PTL

\* ... and every index a crash may leave one into a file of the MANIFEST.
LEMMA InvCrash == IInv => CrashConsistent
<1> SUFFICES ASSUME IInv, NEW n \in durSeq .. lastSeq, NEW e \in lsm,
                    VisibleAt(e, n), e.file # 0
             PROVE  e.file \in manifest \cap disk /\ RecordOf(e) \in content[e.file]
  BY Zenon DEF CrashConsistent
<1>1. EntryTyping /\ NumberTyping
  BY EntryTypingHolds, NumberTypingHolds, Zenon DEF IInv
<1>2. e.file \in File
  BY <1>1, Zenon DEF EntryTyping
<1>3. \A w \in lsm : ~(w.key = e.key /\ e.seq < w.seq /\ w.seq <= durSeq)
  BY <1>1 DEF VisibleAt, EntryTyping, NumberTyping
<1>4. meta[e.file] \in LiveState /\ RecordOf(e) \in content[e.file]
  BY <1>3, Zenon DEF IInv, RefInv
<1> QED
  BY <1>2, <1>4, Zenon DEF IInv, FileInv, FileAgree, LiveState

\* Whatever suffix of the unsynced writes a crash loses, every index the recovered
\* LSM tree shows is into a blob file that the MANIFEST keeps and that holds the
\* record: GC makes its inputs obsolete only after FlushWAL made the rewrite durable.
THEOREM CrashesLoseNoValue == ASSUME ~ReadFault PROVE Spec => []CrashConsistent
  BY InvCrash, Inductive, PTL

\* InstallTable adds indices into a file BatchFinishFiles has logged, or the ones that
\* were there.
LEMMA InstallTableLogged ==
    ASSUME IInv, NEW t \in Builder, InstallTable(t)
    PROVE  \A e \in lsm' \ lsm : e.file # 0 => e.file \in manifest
<1>0. TypeOK /\ SeqInv /\ FileInv /\ OwnInv /\ RefInv /\ TableInv /\ JobInv /\ ReadInv
  BY Zenon DEF IInv
<1> SUFFICES ASSUME NEW e \in lsm' \ lsm, e.file # 0 PROVE e.file \in manifest
  BY Zenon
<1>1. Running(t) /\ tpc[t] = "finished"
  BY Zenon DEF InstallTable, Running
<1>2. e \in tdst[t]
  BY Zenon DEF InstallTable, lsm
<1>3. TableDst(t) /\ tsrc[t] \subseteq lsm /\ tdst[t] \subseteq Entry
  BY <1>0, <1>1, RunningBuilder, Zenon DEF TableInv
<1>4. e.file = tout[t]
  BY <1>2, <1>3, Zenon DEF TableDst
<1>5. e.file \in File
  BY <1>2, <1>3, BoundsAssumption DEF Entry, File0, File
<1>6. meta[e.file] = "PendingLSM"
  BY <1>0, <1>1, <1>4, Zenon DEF OwnInv, OwnBuilder
<1> QED
  BY <1>0, <1>5, <1>6, Zenon DEF FileInv, FileAgree, LiveState
\* RewriteKey adds an index into an output the job has installed.
LEMMA RewriteKeyLogged ==
    ASSUME IInv, NEW j \in Job, NEW b \in batch[j], RewriteKey(j, b)
    PROVE  \A e \in lsm' \ lsm : e.file # 0 => e.file \in manifest
<1>0. TypeOK /\ SeqInv /\ FileInv /\ OwnInv /\ RefInv /\ TableInv /\ JobInv /\ ReadInv
  BY Zenon DEF IInv
<1> SUFFICES ASSUME NEW e \in lsm' \ lsm, e.file # 0 PROVE e.file \in manifest
  BY Zenon
<1>1. e.file = b.dst /\ LiveIndex(b.src, b.rec) /\ pc[j] = "rewrite"
  BY DEF RewriteKey, lsm
<1>2. \/ meta[b.dst] = "PendingGC"
      \/ \A x \in lsm : ~(x.key = b.rec.key /\ x.file = b.src)
  BY <1>0, <1>1, Zenon DEF JobInv, JobCopies
<1>3. meta[b.dst] = "PendingGC"
  BY <1>1, <1>2, Zenon DEF LiveIndex
<1>4. b.dst \in File
  BY <1>0, <1>1, BoundsAssumption DEF TypeOK, Rewrite, File0, File
<1> QED
  BY <1>0, <1>1, <1>3, <1>4, Zenon DEF FileInv, FileAgree, LiveState
\* No step brings an index into the LSM tree before the MANIFEST has its file: neither
\* the SST of a flush or compaction nor RewriteValidKeyToLSM runs ahead of
\* BatchFinishFiles.
THEOREM IndexesFollowManifest == ASSUME ~ReadFault PROVE Spec => IndexAfterManifest
<1>1. IInv /\ [Next]_vars => [\A e \in lsm' \ lsm : e.file # 0 => e.file \in manifest]_vars
  <2> SUFFICES ASSUME IInv, Next
               PROVE  \A e \in lsm' \ lsm : e.file # 0 => e.file \in manifest
    BY Zenon
  <2>1. CASE User
    <3>1. ASSUME NEW k \in Key, NEW del \in BOOLEAN, Write(k, del)
          PROVE  \A e \in lsm' \ lsm : e.file # 0 => e.file \in manifest
      BY <3>1 DEF Write, lsm
    <3>2. CASE UNCHANGED <<mem, sst>>
      BY <3>2, Zenon DEF lsm
    <3> QED
      BY <2>1, <3>1, <3>2, Zenon DEF User, SetOptions, GetSnapshot,
         ReleaseSnapshot, GetIndex,
         GetBlob, DeleteBlobFilesInRanges, dbVars
  <2>2. CASE Table
    <3>1. ASSUME NEW t \in Builder, InstallTable(t)
          PROVE  \A e \in lsm' \ lsm : e.file # 0 => e.file \in manifest
      BY <3>1, InstallTableLogged, Zenon
    <3>2. CASE UNCHANGED <<mem, sst>>
      BY <3>2, Zenon DEF lsm
    <3> QED
      BY <2>2, <3>1, <3>2, Zenon DEF Table, StartFlush, StartCompaction, BuildTable,
         FinishTable, TableCompleted, FailTable, dbVars
  <2>3. ASSUME NEW j \in Job, GC(j)
        PROVE  \A e \in lsm' \ lsm : e.file # 0 => e.file \in manifest
    <3>1. ASSUME NEW b \in batch[j], RewriteKey(j, b)
          PROVE  \A e \in lsm' \ lsm : e.file # 0 => e.file \in manifest
      BY <3>1, RewriteKeyLogged, Zenon
    <3>2. CASE UNCHANGED <<mem, sst>>
      BY <3>2, Zenon DEF lsm
    <3> QED
      BY <2>3, <3>1, <3>2, Zenon DEF GC, PickBlobGC, DiscardRecord, KeepRecord,
         IteratorError,
         InstallOutputs, FlushWAL, DeleteInputs, FailGC, dbVars
  <2>4. CASE Purge
    BY <2>4, Zenon DEF Purge, PurgeBegin, GetObsoleteFiles, DeleteFile, dbVars, lsm
  <2>5. ASSUME NEW n \in Seq0, CrashAndRecover(n)
        PROVE  \A e \in lsm' \ lsm : e.file # 0 => e.file \in manifest
    BY <2>5, Zenon DEF CrashAndRecover, lsm
  <2> QED
    BY <2>1, <2>2, <2>3, <2>4, <2>5, Zenon DEF Next
<1> QED
  BY <1>1, Inductive, PTL DEF Spec, IndexAfterManifest

\* The MANIFEST drops a file only when no record of it is the current value of its
\* key: DeleteInputBlobFiles runs when every record was moved or found stale, and
\* DeleteBlobFilesInRanges when its keys have no value left.
THEOREM LiveFilesAreKept == ASSUME ~ReadFault PROVE Spec => OnlyStaleFilesDropped
<1>1. IInv /\ [Next]_vars =>
        [\A f \in manifest \ manifest' : \A r \in content[f] : ~LiveIndex(f, r)]_vars
  <2> SUFFICES ASSUME IInv, Next, NEW f \in manifest \ manifest', NEW r \in content[f],
                      LiveIndex(f, r)
               PROVE  FALSE
    BY Zenon
  <2>1. EntryTyping /\ NumberTyping
    BY EntryTypingHolds, NumberTypingHolds, Zenon DEF IInv
  <2>2. PICK e \in lsm : /\ e.key = r.key /\ e.file = f
                         /\ \A x \in lsm : x.key = e.key => x.seq <= e.seq
    BY Zenon DEF LiveIndex
  <2>3. e.file # 0
    BY <2>2, FileTypingHolds, Zenon DEF IInv, FileTyping
  <2>4. ASSUME NEW S \in SUBSET File, DeleteBlobFilesInRanges(S) PROVE FALSE
    <3>1. e.org = 0
      BY <2>2, <2>4, Zenon DEF DeleteBlobFilesInRanges
    <3> QED
      BY <2>3, <3>1, Zenon DEF IInv, SeqInv
  <2>5. ASSUME NEW j \in Job, DeleteInputs(j) PROVE FALSE
    <3>1. f \in inputs[j] /\ pc[j] = "delete"
      BY <2>5, Zenon DEF DeleteInputs
    <3>2. JobPhase(j) /\ JobRefs(j)
      BY Zenon DEF IInv, JobInv
    <3>3. HiddenUpTo(e, durSeq)
      BY <2>2, <3>1, <3>2, Zenon DEF JobPhase, JobRefs
    <3> QED
      BY <2>1, <2>2, <3>3 DEF HiddenUpTo, EntryTyping
  <2>6. CASE manifest \subseteq manifest'
    BY <2>6, Zenon
  <2>7. CASE User
    BY <2>4, <2>6, <2>7, Zenon DEF User, Write, SetOptions, GetSnapshot,
       ReleaseSnapshot, GetIndex,
       GetBlob, fileVars
  <2>8. CASE Table
    BY <2>6, <2>8, Zenon DEF Table, StartFlush, StartCompaction, BuildTable, FinishTable,
       InstallTable, TableCompleted, FailTable, fileVars
  <2>9. ASSUME NEW j \in Job, GC(j) PROVE FALSE
    BY <2>5, <2>6, <2>9, Zenon DEF GC, PickBlobGC, DiscardRecord, KeepRecord, IteratorError,
       InstallOutputs, RewriteKey, FlushWAL, FailGC, fileVars
  <2>10. CASE Purge
    BY <2>6, <2>10, Zenon DEF Purge, PurgeBegin, GetObsoleteFiles, DeleteFile,
       fileVars
  <2>11. ASSUME NEW n \in Seq0, CrashAndRecover(n) PROVE FALSE
    BY <2>6, <2>11, Zenon DEF CrashAndRecover
  <2> QED
    BY <2>7, <2>8, <2>9, <2>10, <2>11, Zenon DEF Next
<1> QED
  BY <1>1, Inductive, PTL DEF Spec, OnlyStaleFilesDropped

-----------------------------------------------------------------------------
(* What is read.                                                           *)

\* Everybody reads at a natural number that was given out.
LEMMA HorizonBounds ==
    ASSUME TypeOK, SeqInv
    PROVE  /\ \A n \in Horizon : n \in Nat /\ n <= lastSeq
           /\ lastSeq \in Horizon
<1>1. NumberTyping
  BY NumberTypingHolds, Zenon
<1> QED
  BY <1>1 DEF Horizon, SeqInv, NumberTyping

\* What the log of user writes holds.
LEMMA WritesTyping ==
    ASSUME TypeOK PROVE \A w \in writes : w.key \in Key /\ w.seq \in Nat /\ w.org \in Seq0
  BY BoundsAssumption DEF TypeOK, Seq0

\* The LSM tree names one value.
LEMMA ShowsUnique ==
    ASSUME TypeOK, SeqInv, NEW k, NEW n \in Nat, NEW u, NEW v, Shows(k, n, u), Shows(k, n, v)
    PROVE  u = v
<1>1. EntryTyping
  BY EntryTypingHolds, Zenon
<1>2. \A x, y \in lsm : x.key = y.key /\ VisibleAt(x, n) /\ VisibleAt(y, n) => x = y
  BY <1>1 DEF EntryTyping, SeqInv, VisibleAt, SameVersion
<1>3. \A x \in lsm : VisibleAt(x, n) => x.seq <= n
  BY Zenon DEF VisibleAt
<1> QED
  BY <1>2, <1>3 DEF Shows

\* An entry newer than everything leaves what is seen below it alone, and the other
\* keys.
LEMMA ShowsNewest ==
    ASSUME TypeOK, SeqInv, NEW new, new.seq = lastSeq + 1, lsm' = lsm \cup {new},
           NEW k, NEW v, NEW n \in Nat, NEW m \in Nat, n <= lastSeq, Shows(k, n, v),
           m = n \/ (n = lastSeq /\ m = lastSeq + 1 /\ k # new.key)
    PROVE  Shows(k, m, v)'
<1>1. EntryTyping /\ NumberTyping
  BY EntryTypingHolds, NumberTypingHolds, Zenon
<1>2. \A e \in lsm : e.key = k => (e.seq <= n <=> e.seq <= m)
  BY <1>1 DEF EntryTyping, NumberTyping, SeqInv
<1>3. ~(new.key = k /\ new.seq <= m)
  BY <1>1 DEF NumberTyping
<1> QED
  BY <1>2, <1>3, Zenon DEF Shows, VisibleAt

\* So does a write for the log.
LEMMA LoggedNewest ==
    ASSUME TypeOK, WritesInv, writes \subseteq writes',
           NEW k, NEW v, NEW n \in Nat, NEW m \in Nat, n <= lastSeq, Logged(k, n, v),
           m = n \/ (n = lastSeq /\ m = lastSeq + 1),
           \A w \in writes' \ writes : w.seq = lastSeq + 1 /\ (m = n \/ w.key # k)
    PROVE  Logged(k, m, v)'
<1>1. NumberTyping /\ \A w \in writes : w.seq \in Nat
  BY NumberTypingHolds, WritesTyping, Zenon
<1>2. \A w \in writes : w.seq <= n <=> w.seq <= m
  BY <1>1 DEF NumberTyping, WritesInv
<1>3. \A w \in writes' : w.key = k /\ w.seq <= m => w \in writes
  BY <1>1 DEF NumberTyping
<1> QED
  BY <1>2, <1>3, Zenon DEF Logged
-----------------------------------------------------------------------------
(* The steps of users, builders, jobs and recovery preserve ValueInv.      *)

\* A new entry newer than everything keeps the LSM tree and the log together, when it
\* is a user write or repeats the value of its key.
LEMMA AgreesNewest ==
    ASSUME IInv, ValueInv, NEW new, new.seq = lastSeq + 1, new.org \in Seq0,
           lsm' = lsm \cup {new}, lastSeq' = lastSeq + 1, UNCHANGED <<durSeq, snaps>>,
           \/ writes' = writes \cup {[key |-> new.key, seq |-> new.seq, org |-> new.org]}
           \/ writes' = writes /\ \E e \in lsm : /\ e.key = new.key /\ e.org = new.org
                                                 /\ VisibleAt(e, lastSeq)
    PROVE  LsmAgrees'
<1> DEFINE w0 == [key |-> new.key, seq |-> new.seq, org |-> new.org]
<1>0. TypeOK /\ SeqInv /\ WritesInv /\ LsmAgrees
  BY Zenon DEF IInv, ValueInv
<1>1. NumberTyping /\ \A w \in writes : w.seq \in Nat /\ w.seq <= lastSeq
  BY <1>0, NumberTypingHolds, WritesTyping, Zenon DEF WritesInv
<1>2. w0.key = new.key /\ w0.seq = lastSeq + 1 /\ w0.org = new.org
  OBVIOUS
<1>3. writes' = writes \cup {w0} \/ writes' = writes
  BY Zenon
<1> HIDE DEF w0
<1> SUFFICES ASSUME NEW k \in Key, NEW n \in Horizon'
             PROVE  \E v \in Seq0 : Shows(k, n, v)' /\ Logged(k, n, v)'
  BY Zenon DEF LsmAgrees
<1>4. n \in Horizon \/ n = lastSeq + 1
  BY <1>1 DEF Horizon, NumberTyping
<1>5. writes \subseteq writes' /\ \A w \in writes' \ writes : w = w0
  BY <1>3, Zenon
<1>6. CASE n \in Horizon
  <2>1. PICK v \in Seq0 : Shows(k, n, v) /\ Logged(k, n, v)
    BY <1>0, <1>6, Zenon DEF LsmAgrees
  <2>2. n \in Nat /\ n <= lastSeq
    BY <1>0, <1>6, HorizonBounds, Zenon
  <2>3. Shows(k, n, v)'
    BY <1>0, <2>1, <2>2, ShowsNewest, Zenon
  <2>4. Logged(k, n, v)'
    BY <1>0, <1>2, <1>5, <2>1, <2>2, LoggedNewest, Zenon
  <2> QED
    BY <2>3, <2>4, Zenon
<1>7. CASE n = lastSeq + 1 /\ k # new.key
  <2>1. PICK m \in Horizon : m = lastSeq
    BY <1>0, HorizonBounds, Zenon
  <2>2. PICK v \in Seq0 : Shows(k, m, v) /\ Logged(k, m, v)
    BY <1>0, Zenon DEF LsmAgrees
  <2>3. m \in Nat /\ m <= lastSeq /\ n \in Nat
    BY <1>1, <1>7, <2>1 DEF NumberTyping
  <2>4. Shows(k, n, v)'
    BY <1>0, <1>7, <2>1, <2>2, <2>3, ShowsNewest, Zenon
  <2>5. Logged(k, n, v)'
    BY <1>0, <1>2, <1>5, <1>7, <2>1, <2>2, <2>3, LoggedNewest, Zenon
  <2> QED
    BY <2>4, <2>5, Zenon
<1>8. CASE n = lastSeq + 1 /\ k = new.key
  <2>1. Shows(k, n, new.org)'
    <3>1. EntryTyping
      BY <1>0, EntryTypingHolds, Zenon
    <3>2. \A x \in lsm' : x.seq <= new.seq /\ new.seq <= n
      BY <1>0, <1>1, <1>8, <3>1 DEF SeqInv, NumberTyping, EntryTyping
    <3> QED
      BY <1>8, <3>2, Zenon DEF Shows, VisibleAt
  <2>2. Logged(k, n, new.org)'
    <3>1. CASE writes' = writes \cup {w0}
      BY <1>1, <1>2, <1>8, <3>1 DEF Logged, NumberTyping
    <3>2. CASE /\ writes' = writes
               /\ \E e \in lsm : e.key = new.key /\ e.org = new.org /\ VisibleAt(e, lastSeq)
      <4>1. PICK m \in Horizon : m = lastSeq
        BY <1>0, HorizonBounds, Zenon
      <4>2. PICK v \in Seq0 : Shows(k, m, v) /\ Logged(k, m, v)
        BY <1>0, Zenon DEF LsmAgrees
      <4>3. Shows(k, m, new.org)
        BY <1>8, <3>2, <4>1, Zenon DEF Shows
      <4>4. m \in Nat /\ m <= lastSeq /\ n \in Nat
        BY <1>1, <1>8, <4>1 DEF NumberTyping
      <4>5. v = new.org
        BY <1>0, <4>2, <4>3, <4>4, ShowsUnique, Zenon
      <4>6. Logged(k, n, v)'
        BY <1>0, <1>8, <3>2, <4>1, <4>2, <4>4, LoggedNewest, Zenon
      <4> QED
        BY <4>5, <4>6, Zenon
    <3> QED
      BY <3>1, <3>2, Zenon DEF w0
  <2> QED
    BY <2>1, <2>2, Zenon
<1> QED
  BY <1>4, <1>6, <1>7, <1>8, Zenon
\* Snapshots that are released, or taken now, do not come between the versions a
\* builder holds.
LEMMA TableValFrame ==
    ASSUME IInv, NEW t \in Builder, Running(t), TableVal(t),
           tsrc'[t] = tsrc[t], tdst'[t] = tdst[t],
           \A s \in snaps' : s \in snaps \/ s.seq = lastSeq
    PROVE  TableVal(t)'
<1>0. TypeOK /\ SeqInv /\ TableInv
  BY Zenon DEF IInv
<1>1. EntryTyping /\ NumberTyping
  BY <1>0, EntryTypingHolds, NumberTypingHolds, Zenon
<1>2. \A y \in tsrc[t] : y \in lsm /\ y.seq \in Nat /\ y.seq <= lastSeq
  BY <1>0, <1>1, RunningBuilder, Zenon DEF EntryTyping, SeqInv
<1>3. \A x, y \in tsrc[t] : ~SeenBetween(x.seq, y.seq) => ~SeenBetween(x.seq, y.seq)'
  BY <1>1, <1>2 DEF SeenBetween, NumberTyping
<1> QED
  BY <1>3, Zenon DEF TableVal, SameVersion

\* A step that leaves the LSM tree and the log of writes alone, starts no builder and
\* at most syncs or takes a snapshot preserves ValueInv.
LEMMA QuietValue ==
    ASSUME IInv, ValueInv, UNCHANGED <<mem, sst, lastSeq, writes>>,
           durSeq' = durSeq \/ durSeq' = lastSeq,
           \A s \in snaps' : s \in snaps \/ s.seq = lastSeq,
           \A t \in Builder : Running(t)' => /\ Running(t)
                                             /\ tsrc'[t] = tsrc[t] /\ tdst'[t] = tdst[t]
    PROVE  ValueInv'
<1>0. TypeOK /\ SeqInv /\ WritesInv /\ TableValInv /\ LsmAgrees
  BY Zenon DEF IInv, ValueInv
<1>1. NumberTyping
  BY <1>0, NumberTypingHolds, Zenon
<1>2. Horizon' \subseteq Horizon
  BY <1>0, <1>1 DEF Horizon, NumberTyping, SeqInv
<1>3. lsm' = lsm
  BY Zenon DEF lsm
<1>4. LsmAgrees'
  <2> SUFFICES ASSUME NEW k \in Key, NEW n \in Horizon'
               PROVE  \E v \in Seq0 : Shows(k, n, v)' /\ Logged(k, n, v)'
    BY Zenon DEF LsmAgrees
  <2>1. PICK v \in Seq0 : Shows(k, n, v) /\ Logged(k, n, v)
    BY <1>0, <1>2, Zenon DEF LsmAgrees
  <2>2. Shows(k, n, v)'
    BY <1>3, <2>1, Zenon DEF Shows, VisibleAt
  <2>3. Logged(k, n, v)'
    BY <2>1, Zenon DEF Logged
  <2> QED
    BY <2>2, <2>3, Zenon
<1>5. TableValInv'
  BY <1>0, TableValFrame, Zenon DEF TableValInv
<1>6. WritesInv'
  BY <1>0, Zenon DEF WritesInv
<1> QED
  BY <1>4, <1>5, <1>6, Zenon DEF ValueInv

\* Put, Write, Delete: the entry and the write are the newest of all.
LEMMA WriteValue ==
    ASSUME IInv, ValueInv, NEW k \in Key, NEW del \in BOOLEAN, Write(k, del) PROVE ValueInv'
<1> DEFINE new == [key |-> k, seq |-> lastSeq + 1, org |-> IF del THEN 0 ELSE lastSeq + 1,
                   file |-> 0, off |-> 0]
           w0 == [key |-> k, seq |-> lastSeq + 1, org |-> IF del THEN 0 ELSE lastSeq + 1]
<1>0. TypeOK /\ SeqInv /\ WritesInv /\ TableValInv
  BY Zenon DEF IInv, ValueInv
<1>1. NumberTyping /\ \A w \in writes : w.seq \in Nat
  BY <1>0, NumberTypingHolds, WritesTyping, Zenon
<1>2. /\ lsm' = lsm \cup {new} /\ writes' = writes \cup {w0} /\ lastSeq' = lastSeq + 1
      /\ UNCHANGED <<durSeq, snaps, tpc, tsrc, tdst>> /\ lastSeq < MaxSeq
  BY Zenon DEF Write, lsm, readVars, tableVars
<1>3. /\ new.key = k /\ new.seq = lastSeq + 1 /\ new.org = IF del THEN 0 ELSE lastSeq + 1
      /\ w0 = [key |-> new.key, seq |-> new.seq, org |-> new.org]
      /\ w0.seq = lastSeq + 1
  OBVIOUS
<1>4. new.org \in Seq0
  BY <1>1, <1>2, <1>3, BoundsAssumption DEF NumberTyping, Seq0
<1> HIDE DEF new, w0
<1>5. LsmAgrees'
  <2>1. PICK n : n = new
    OBVIOUS
  <2> QED
    BY <1>2, <1>3, <1>4, <2>1, AgreesNewest, Zenon
<1>6. WritesInv'
  BY <1>0, <1>1, <1>2, <1>3 DEF WritesInv, NumberTyping
<1>7. TableValInv'
  BY <1>0, <1>2, TableValFrame, Zenon DEF TableValInv, Running
<1> QED
  BY <1>5, <1>6, <1>7, Zenon DEF ValueInv

\* RewriteValidKeyToLSM repeats the value the callback found.
LEMMA RewriteKeyValue ==
    ASSUME IInv, ValueInv, NEW j \in Job, NEW b \in batch[j], RewriteKey(j, b) PROVE ValueInv'
<1> DEFINE new == [key |-> b.rec.key, seq |-> lastSeq + 1, org |-> b.rec.org,
                   file |-> b.dst, off |-> IF b.dst = 0 THEN 0 ELSE b.rec.off]
<1>0. TypeOK /\ SeqInv /\ WritesInv /\ TableValInv
  BY Zenon DEF IInv, ValueInv
<1>1. EntryTyping /\ NumberTyping /\ \A w \in writes : w.seq \in Nat
  BY <1>0, EntryTypingHolds, NumberTypingHolds, WritesTyping, Zenon
<1>2. UNCHANGED <<sst, durSeq, snaps, tpc, tsrc, tdst, writes>>
  BY Zenon DEF RewriteKey, readVars, tableVars, ghostVars
<1>3. CASE ~LiveIndex(b.src, b.rec)
  <2>1. UNCHANGED <<mem, lastSeq>>
    BY <1>3, Zenon DEF RewriteKey
  <2> QED
    BY <1>2, <2>1, QuietValue, Zenon DEF Running
<1>4. CASE LiveIndex(b.src, b.rec)
  <2>1. lsm' = lsm \cup {new} /\ lastSeq' = lastSeq + 1
    BY <1>2, <1>4, Zenon DEF RewriteKey, lsm
  <2>2. PICK e \in lsm : /\ e.key = b.rec.key /\ e.file = b.src /\ e.off = b.rec.off
                         /\ \A x \in lsm : x.key = b.rec.key => x.seq <= e.seq
    BY <1>4, Zenon DEF LiveIndex
  <2>3. e.org = b.rec.org
    <3>1. RecordOf(e) = b.rec
      BY <2>2, LiveBatch, Zenon
    <3> QED
      BY <3>1 DEF RecordOf
  <2>4. VisibleAt(e, lastSeq) /\ e.org \in Seq0
    BY <1>0, <2>2 DEF SeqInv, VisibleAt, TypeOK, Entry, lsm
  <2>5. new.key = b.rec.key /\ new.seq = lastSeq + 1 /\ new.org = b.rec.org
    OBVIOUS
  <2> HIDE DEF new
  <2>6. LsmAgrees'
    <3>1. PICK n : n = new
      OBVIOUS
    <3> QED
      BY <1>2, <2>1, <2>2, <2>3, <2>4, <2>5, <3>1, AgreesNewest, Zenon
  <2>7. WritesInv'
    BY <1>0, <1>1, <1>2, <2>1 DEF WritesInv, NumberTyping
  <2>8. TableValInv'
    BY <1>0, <1>2, TableValFrame, Zenon DEF TableValInv, Running
  <2> QED
    BY <2>6, <2>7, <2>8, Zenon DEF ValueInv
<1> QED
  BY <1>3, <1>4, Zenon
\* A builder starts: what it does not keep has a newer version with no snapshot
\* between, or is a deletion at the bottom.
LEMMA BuildTableValue ==
    ASSUME IInv, ValueInv, NEW t \in Builder, NEW S \in SUBSET lsm, NEW drop,
           drop = {} \/ drop = Dead(S), NEW G \in SUBSET File, BuildTable(t, S, drop, G)
    PROVE  TableVal(t)'
<1>1. tsrc'[t] = S /\ snaps' = snaps
  BY Zenon DEF BuildTable, IInv, TypeOK, readVars
<1>2. \A e \in Kept(S) \ drop : \E y \in tdst'[t] : SameVersion(e, y)
  BY BuiltEntries, Zenon
<1>3. \A e \in drop : e.org = 0
  BY Zenon DEF Dead
<1>4. \A x, y \in S : SeenBetween(x.seq, y.seq)' <=> SeenBetween(x.seq, y.seq)
  BY <1>1, Zenon DEF SeenBetween
<1>5. \A x \in S : x \in Kept(S) \/ \E y \in S : /\ y.key = x.key /\ y.seq > x.seq
                                                 /\ ~SeenBetween(x.seq, y.seq)
  BY Zenon DEF Kept
<1>6. \A x, y \in S : y.seq > x.seq => x.seq < y.seq
  BY EntryTypingHolds DEF IInv, EntryTyping
<1> QED
  BY <1>1, <1>2, <1>3, <1>4, <1>5, <1>6, Zenon DEF TableVal, SameVersion

\* ... and the other builder is not disturbed.
LEMMA BuildTableQuiet ==
    ASSUME IInv, ValueInv, NEW t \in Builder, NEW S \in SUBSET lsm, NEW drop,
           drop = {} \/ drop = Dead(S), NEW G \in SUBSET File, BuildTable(t, S, drop, G)
    PROVE  ValueInv'
<1>0. TypeOK /\ SeqInv /\ WritesInv /\ TableValInv /\ LsmAgrees
  BY Zenon DEF IInv, ValueInv
<1>1. UNCHANGED <<mem, sst, lastSeq, durSeq, snaps, writes>>
  BY Zenon DEF BuildTable, dbVars, readVars
<1>2. \A u \in Builder : u # t => /\ tpc'[u] = tpc[u] /\ tsrc'[u] = tsrc[u]
                                  /\ tdst'[u] = tdst[u]
  BY <1>0, Zenon DEF BuildTable, TypeOK
<1>3. TableValInv'
  <2> SUFFICES ASSUME NEW u \in Builder, Running(u)' PROVE TableVal(u)'
    BY Zenon DEF TableValInv
  <2>1. CASE u = t
    BY <2>1, BuildTableValue, Zenon
  <2>2. CASE u # t
    BY <1>0, <1>1, <1>2, <2>2, TableValFrame, Zenon DEF TableValInv, Running
  <2> QED
    BY <2>1, <2>2, Zenon
<1>4. lsm' = lsm /\ Horizon' = Horizon
  BY <1>1, Zenon DEF lsm, Horizon
<1>5. LsmAgrees'
  <2> SUFFICES ASSUME NEW k \in Key, NEW n \in Horizon'
               PROVE  \E v \in Seq0 : Shows(k, n, v)' /\ Logged(k, n, v)'
    BY Zenon DEF LsmAgrees
  <2>1. PICK v \in Seq0 : Shows(k, n, v) /\ Logged(k, n, v)
    BY <1>0, <1>4, Zenon DEF LsmAgrees
  <2>2. Shows(k, n, v)' /\ Logged(k, n, v)'
    BY <1>1, <1>4, <2>1, Zenon DEF Shows, VisibleAt, Logged
  <2> QED
    BY <2>2, Zenon
<1>6. WritesInv'
  BY <1>0, <1>1, Zenon DEF WritesInv
<1> QED
  BY <1>3, <1>5, <1>6, Zenon DEF ValueInv

\* The SST is installed: at every sequence number somebody may read at, the LSM tree
\* names what it named.
LEMMA InstallTableShows ==
    ASSUME IInv, ValueInv, NEW t \in Builder, InstallTable(t), NEW k, NEW n \in Horizon',
           NEW v, Shows(k, n, v)
    PROVE  Shows(k, n, v)'
<1>0. TypeOK /\ SeqInv /\ TableValInv
  BY Zenon DEF IInv, ValueInv
<1>1. EntryTyping /\ NumberTyping
  BY <1>0, EntryTypingHolds, NumberTypingHolds, Zenon
<1>2. /\ Running(t) /\ TableSrc(t) /\ TableDst(t) /\ TableDrop(t) /\ tsrc[t] \subseteq lsm
      /\ lsm' = (lsm \ tsrc[t]) \cup tdst[t]
      /\ durSeq <= durSeq' /\ durSeq' <= lastSeq /\ durSeq' \in Nat
      /\ \A y \in tdst[t] : y.seq \in Nat /\ y.seq <= durSeq'
  BY InstallEntries, Zenon
<1>3. TableVal(t) /\ snaps' = snaps /\ lastSeq' = lastSeq
  BY <1>0, <1>2, Zenon DEF TableValInv, InstallTable, readVars
<1>4. n \in Nat /\ (durSeq' <= n \/ \E s \in snaps : s.seq = n)
  BY <1>1, <1>2, <1>3 DEF Horizon, NumberTyping
<1>5. \A y \in tdst[t] : \E x \in tsrc[t] : x \in lsm /\ x.key = y.key /\ x.seq = y.seq /\ x.org = y.org
  BY <1>2, Zenon DEF TableDst, SameVersion
<1>6. \A x \in tsrc[t] : x.seq \in Nat /\ x.seq <= durSeq'
  BY <1>0, <1>1, <1>2 DEF InstallTable, TableSrc, EntryTyping, NumberTyping, SeqInv, Builder
<1>7. \A y \in lsm' : \E x \in lsm : x.key = y.key /\ x.seq = y.seq
  BY <1>2, <1>5, Zenon
<1>8. CASE v = 0 /\ \A e \in lsm : ~(e.key = k /\ e.seq <= n)
  BY <1>7, <1>8, Zenon DEF Shows
<1>9. ASSUME NEW e \in lsm, e.key = k, VisibleAt(e, n), e.org = v PROVE Shows(k, n, v)'
  <2>1. e.seq \in Nat /\ e.seq <= n
    BY <1>1, <1>9, Zenon DEF VisibleAt, EntryTyping
  <2>2. \A y \in lsm' : y.key = k /\ y.seq <= n => y.seq <= e.seq
    BY <1>7, <1>9 DEF VisibleAt
  <2>3. CASE e \notin tsrc[t]
    BY <1>2, <1>9, <2>1, <2>2, <2>3, Zenon DEF Shows, VisibleAt
  <2>4. CASE \E y \in tdst[t] : SameVersion(e, y)
    <3>1. PICK y \in tdst[t] : SameVersion(e, y)
      BY <2>4, Zenon
    <3>2. PICK x \in tsrc[t] : x \in lsm /\ x.key = y.key /\ x.seq = y.seq /\ x.org = y.org
      BY <1>5, <3>1, Zenon
    <3>3. x = e
      BY <1>0, <3>1, <3>2, Zenon DEF SeqInv, SameVersion
    <3>4. y \in lsm' /\ y.key = k /\ y.seq = e.seq /\ y.org = v
      BY <1>2, <1>9, <3>1, <3>2, <3>3, Zenon DEF SameVersion
    <3> QED
      BY <1>9, <2>1, <2>2, <3>4, Zenon DEF Shows, VisibleAt
  <2>5. ASSUME NEW y \in lsm, y.key = k, e.seq < y.seq, ~SeenBetween(e.seq, y.seq),
               y.seq \in Nat, y.seq <= durSeq'
        PROVE  FALSE
    <3>1. n < y.seq
      BY <1>4, <1>9, <2>1, <2>5 DEF VisibleAt
    <3> QED
      <4>1. ~(durSeq' <= n)
        <5>1. n \in Nat /\ y.seq \in Nat /\ durSeq' \in Nat /\ y.seq <= durSeq' /\ n < y.seq
          BY <1>2, <1>4, <2>5, <3>1, Zenon
        <5> QED
          BY <5>1
      <4> QED
        BY <1>4, <2>1, <2>5, <3>1, <4>1, Zenon DEF SeenBetween
  <2>6. CASE /\ e \in tsrc[t] /\ ~\E y \in tdst[t] : SameVersion(e, y)
    <3>1. ~\E y \in tsrc[t] : y.key = e.key /\ e.seq < y.seq /\ ~SeenBetween(e.seq, y.seq)
      BY <1>2, <1>6, <1>9, <2>5, Zenon
    <3>2. ~\E y \in tdst[t] : y.key = e.key /\ e.seq < y.seq /\ ~SeenBetween(e.seq, y.seq)
      BY <1>5, <3>1, Zenon
    <3>3. /\ \A z \in lsm : z.key = e.key /\ z.seq <= e.seq => z \in tsrc[t]
          /\ \A y \in tdst[t] : y.key = e.key => e.seq < y.seq
      BY <1>2, <2>6, <3>2, Zenon DEF TableDrop
    <3>4. v = 0
      BY <1>3, <1>9, <2>6, <3>1, Zenon DEF TableVal
    <3>5. \A y \in lsm' : ~(y.key = k /\ y.seq <= n)
      <4> SUFFICES ASSUME NEW y \in lsm', y.key = k, y.seq <= n PROVE FALSE
        BY Zenon
      <4>1. y.seq <= e.seq
        BY <2>2, Zenon
      <4>2. y \notin tdst[t]
        <5>1. e.seq < y.seq => FALSE
          <6>1. y.seq \in Nat /\ e.seq \in Nat
            BY <1>1, <1>7, <2>1, Zenon DEF EntryTyping
          <6> QED
            BY <4>1, <6>1
        <5> QED
          BY <1>9, <3>3, <5>1, Zenon
      <4>3. y \in lsm /\ y \in tsrc[t]
        BY <1>2, <1>9, <3>3, <4>1, <4>2, Zenon
      <4> QED
        BY <1>2, <4>2, <4>3, Zenon
    <3> QED
      BY <3>4, <3>5, Zenon DEF Shows
  <2> QED
    BY <2>3, <2>4, <2>6, Zenon
<1> QED
  BY <1>8, <1>9, Zenon DEF Shows

\* The base DB installs the SST of a flush or compaction.
LEMMA InstallTableValue ==
    ASSUME IInv, ValueInv, NEW t \in Builder, InstallTable(t) PROVE ValueInv'
<1>0. TypeOK /\ SeqInv /\ WritesInv /\ TableValInv /\ LsmAgrees
  BY Zenon DEF IInv, ValueInv
<1>1. UNCHANGED <<lastSeq, snaps, writes>>
  BY Zenon DEF InstallTable, readVars, ghostVars
<1>2. \A u \in Builder : Running(u)' => /\ u # t /\ Running(u)
                                        /\ tsrc'[u] = tsrc[u] /\ tdst'[u] = tdst[u]
  BY <1>0 DEF InstallTable, TypeOK, Running
<1>3. Horizon' \subseteq Horizon
  <2>1. durSeq <= durSeq' /\ durSeq' \in Nat /\ NumberTyping
    BY <1>0, InstallEntries, NumberTypingHolds, Zenon
  <2> QED
    BY <1>1, <2>1 DEF Horizon, NumberTyping
<1>4. LsmAgrees'
  <2> SUFFICES ASSUME NEW k \in Key, NEW n \in Horizon'
               PROVE  \E v \in Seq0 : Shows(k, n, v)' /\ Logged(k, n, v)'
    BY Zenon DEF LsmAgrees
  <2>1. PICK v \in Seq0 : Shows(k, n, v) /\ Logged(k, n, v)
    BY <1>0, <1>3, Zenon DEF LsmAgrees
  <2>2. Shows(k, n, v)'
    BY <2>1, InstallTableShows, Zenon
  <2>3. Logged(k, n, v)'
    BY <1>1, <2>1, Zenon DEF Logged
  <2> QED
    BY <2>2, <2>3, Zenon
<1>5. TableValInv'
  BY <1>0, <1>1, <1>2, TableValFrame, Zenon DEF TableValInv
<1>6. WritesInv'
  BY <1>0, <1>1, Zenon DEF WritesInv
<1> QED
  BY <1>4, <1>5, <1>6, Zenon DEF ValueInv
\* A crash goes back to the LSM tree and the log of one moment.
LEMMA CrashValue ==
    ASSUME IInv, ValueInv, NEW n \in Seq0, CrashAndRecover(n) PROVE ValueInv'
<1>0. TypeOK /\ SeqInv /\ WritesInv /\ LsmAgrees
  BY Zenon DEF IInv, ValueInv
<1>1. EntryTyping /\ NumberTyping /\ n \in Nat
  BY <1>0, EntryTypingHolds, NumberTypingHolds, BoundsAssumption DEF Seq0
<1>2. /\ durSeq <= n /\ n <= lastSeq /\ lastSeq' = n /\ durSeq' = n /\ snaps' = {}
      /\ writes' = {w \in writes : w.seq <= n}
      /\ mem' = {e \in mem : e.seq <= n} /\ sst' = sst
      /\ tpc' = [u \in Builder |-> "idle"]
  BY Zenon DEF CrashAndRecover
<1>3. lsm' = {e \in lsm : e.seq <= n}
  BY <1>0, <1>1, <1>2 DEF SeqInv, EntryTyping, NumberTyping, lsm
<1>4. n \in Horizon /\ \A m \in Horizon' : m = n
  BY <1>1, <1>2 DEF Horizon, NumberTyping
<1>5. LsmAgrees'
  <2> SUFFICES ASSUME NEW k \in Key
               PROVE  \E v \in Seq0 : Shows(k, n, v)' /\ Logged(k, n, v)'
    BY <1>4, Zenon DEF LsmAgrees
  <2>1. PICK v \in Seq0 : Shows(k, n, v) /\ Logged(k, n, v)
    BY <1>0, <1>4, Zenon DEF LsmAgrees
  <2>2. Shows(k, n, v)'
    BY <1>3, <2>1, Zenon DEF Shows, VisibleAt
  <2>3. Logged(k, n, v)'
    BY <1>2, <2>1, Zenon DEF Logged
  <2> QED
    BY <2>2, <2>3, Zenon
<1>6. TableValInv'
  BY <1>2 DEF TableValInv, Running
<1>7. WritesInv'
  BY <1>0, <1>2, Zenon DEF WritesInv
<1> QED
  BY <1>5, <1>6, <1>7, Zenon DEF ValueInv

\* A new database has no value and no write.
LEMMA InitValue == Init => ValueInv
<1> SUFFICES ASSUME Init PROVE ValueInv
  BY Zenon
<1>1. lsm = {} /\ writes = {} /\ 0 \in Seq0
  BY BoundsAssumption DEF Init, lsm, Seq0
<1>2. LsmAgrees
  BY <1>1, Zenon DEF LsmAgrees, Shows, Logged
<1>3. TableValInv
  BY DEF Init, TableValInv, Running
<1> QED
  BY <1>1, <1>2, <1>3, Zenon DEF ValueInv, WritesInv

\* Flush and compaction preserve ValueInv.
LEMMA TableValue == ASSUME IInv, ValueInv, Table PROVE ValueInv'
<1>1. CASE StartFlush
  <2>1. mem \in SUBSET lsm /\ {} \in SUBSET File /\ "flush" \in Builder
    BY Zenon DEF lsm, Builder
  <2>2. BuildTable("flush", mem, {}, {})
    BY <1>1, Zenon DEF StartFlush
  <2>3. PICK S \in SUBSET lsm : S = mem
    BY <2>1, Zenon
  <2> QED
    BY <2>1, <2>2, <2>3, BuildTableQuiet, Zenon
<1>2. CASE StartCompaction
  <2>1. PICK S \in SUBSET sst : \E drop \in {{}, Dead(S)},
             G \in IF LevelMerge THEN SUBSET File ELSE {{}} :
                 BuildTable("compaction", S, drop, G)
    BY <1>2, Zenon DEF StartCompaction
  <2>2. PICK drop \in {{}, Dead(S)}, G \in SUBSET File : BuildTable("compaction", S, drop, G)
    BY <2>1, Zenon
  <2>3. S \in SUBSET lsm /\ "compaction" \in Builder
    BY Zenon DEF lsm, Builder
  <2> QED
    BY <2>2, <2>3, BuildTableQuiet, Zenon
<1>3. ASSUME NEW t \in Builder, FinishTable(t) PROVE ValueInv'
  <2>1. UNCHANGED <<dbVars, readVars, ghostVars, tsrc, tdst>>
    BY <1>3, Zenon DEF FinishTable
  <2>2. \A u \in Builder : Running(u)' => Running(u)
    <3>1. tpc[t] = "built" /\ \A u \in Builder : u # t => tpc'[u] = tpc[u]
      <4>1. tpc \in [Builder -> {"idle", "built", "finished", "installed"}]
        BY Zenon DEF IInv, TypeOK
      <4> QED
        BY <1>3, <4>1, Zenon DEF FinishTable
    <3> QED
      BY <3>1, Zenon DEF Running
  <2> QED
    BY <2>1, <2>2, QuietValue, Zenon DEF dbVars, readVars, ghostVars
<1>4. ASSUME NEW t \in Builder, InstallTable(t) PROVE ValueInv'
  BY <1>4, InstallTableValue, Zenon
<1>5. ASSUME NEW t \in Builder, TableCompleted(t) \/ FailTable(t) PROVE ValueInv'
  <2>1. UNCHANGED <<dbVars, readVars, writes>>
    BY <1>5, Zenon DEF TableCompleted, FailTable, ghostVars
  <2>2. \A u \in Builder : Running(u)' => /\ Running(u)
                                          /\ tsrc'[u] = tsrc[u] /\ tdst'[u] = tdst[u]
    <3>1. tpc'[t] = "idle"
      BY <1>5, Zenon DEF TableCompleted, FailTable, IInv, TypeOK
    <3>2. \A u \in Builder : u # t => /\ tpc'[u] = tpc[u]
                                      /\ tsrc'[u] = tsrc[u] /\ tdst'[u] = tdst[u]
      BY <1>5, Zenon DEF TableCompleted, FailTable, IInv, TypeOK
    <3>3. ~Running(t)'
      BY <3>1 DEF Running
    <3> QED
      BY <3>2, <3>3, Zenon DEF Running
  <2> QED
    BY <2>1, <2>2, QuietValue, Zenon DEF dbVars, readVars
<1> QED
  BY <1>1, <1>2, <1>3, <1>4, <1>5, Zenon DEF Table

\* Every step preserves ValueInv.
LEMMA NextValue == ASSUME IInv, ValueInv, [Next]_vars PROVE ValueInv'
<1>1. CASE User
  <2>1. ASSUME NEW k \in Key, NEW del \in BOOLEAN, Write(k, del) PROVE ValueInv'
    BY <2>1, WriteValue, Zenon
  <2>2. CASE GetSnapshot
    <3>1. UNCHANGED <<dbVars, tableVars, ghostVars>>
      BY <2>2, Zenon DEF GetSnapshot
    <3>2. \A s \in snaps' : s \in snaps \/ s.seq = lastSeq
      BY <2>2 DEF GetSnapshot
    <3> QED
      BY <3>1, <3>2, QuietValue, Zenon DEF dbVars, tableVars, ghostVars, Running
  <2>3. CASE UNCHANGED <<dbVars, tableVars, ghostVars>> /\ snaps' \subseteq snaps
    BY <2>3, QuietValue, Zenon DEF dbVars, tableVars, ghostVars, Running
  <2> QED
    BY <1>1, <2>1, <2>2, <2>3, Zenon DEF User, SetOptions, ReleaseSnapshot, GetIndex,
       GetBlob, DeleteBlobFilesInRanges, readVars
<1>2. CASE Table
  BY <1>2, TableValue, Zenon
<1>3. ASSUME NEW j \in Job, GC(j) PROVE ValueInv'
  <2>1. ASSUME NEW b \in batch[j], RewriteKey(j, b) PROVE ValueInv'
    BY <2>1, RewriteKeyValue, Zenon
  <2>2. CASE /\ UNCHANGED <<mem, sst, lastSeq, readVars, tableVars, writes>>
             /\ durSeq' = durSeq \/ durSeq' = lastSeq
    BY <2>2, QuietValue, Zenon DEF readVars, tableVars, Running
  <2> QED
    BY <1>3, <2>1, <2>2, Zenon DEF GC, PickBlobGC, DiscardRecord, KeepRecord,
       IteratorError, InstallOutputs, FlushWAL, DeleteInputs, FailGC, dbVars, ghostVars
<1>4. CASE Purge
  <2>1. UNCHANGED <<dbVars, readVars, tableVars, ghostVars>>
    BY <1>4, Zenon DEF Purge, PurgeBegin, GetObsoleteFiles, DeleteFile
  <2> QED
    BY <2>1, QuietValue, Zenon DEF dbVars, readVars, tableVars, ghostVars, Running
<1>5. ASSUME NEW n \in Seq0, CrashAndRecover(n) PROVE ValueInv'
  BY <1>5, CrashValue, Zenon
<1>6. CASE UNCHANGED vars
  <2>1. UNCHANGED <<dbVars, readVars, tableVars, ghostVars>>
    BY <1>6, Zenon DEF vars
  <2> QED
    BY <2>1, QuietValue, Zenon DEF dbVars, readVars, tableVars, ghostVars, Running
<1> QED
  BY <1>1, <1>2, <1>3, <1>4, <1>5, <1>6, Zenon DEF Next

\* At every snapshot, now, and after any crash, the LSM tree names the value of the
\* last user write.
THEOREM ValuesStay == ASSUME ~ReadFault PROVE Spec => []ValueInv
<1>1. IInv /\ ValueInv /\ [Next]_vars => ValueInv'
  BY NextValue, Zenon
<1> QED
  BY <1>1, InitValue, Inductive, PTL DEF Spec
-----------------------------------------------------------------------------
(* What Get returns.                                                       *)

\* The log has one last write.
LEMMA LastWriteIs ==
    ASSUME TypeOK, WritesInv, NEW k, NEW n, NEW v, Logged(k, n, v) PROVE LastWrite(k, n) = v
<1> DEFINE W == {w \in writes : w.key = k /\ w.seq <= n}
           c == CHOOSE w \in W : \A x \in W : x.seq <= w.seq
<1>1. LastWrite(k, n) = IF W = {} THEN 0 ELSE c.org
  BY Zenon DEF LastWrite, NewestOrg
<1>2. CASE v = 0 /\ \A w \in writes : ~(w.key = k /\ w.seq <= n)
  BY <1>1, <1>2, Zenon
<1>3. ASSUME NEW w \in W, w.org = v, \A x \in W : x.seq <= w.seq PROVE LastWrite(k, n) = v
  <2>1. c \in W /\ \A x \in W : x.seq <= c.seq
    BY <1>3, Zenon
  <2> HIDE DEF c
  <2>2. c.seq <= w.seq /\ w.seq <= c.seq /\ c.seq \in Nat /\ w.seq \in Nat
    BY <1>3, <2>1, WritesTyping, Zenon
  <2>3. c.seq = w.seq
    BY <2>2
  <2>4. c = w
    BY <2>1, <2>3, Zenon DEF WritesInv
  <2> QED
    BY <1>1, <1>3, <2>4, Zenon
<1> QED
  BY <1>2, <1>3, Zenon DEF Logged

\* What the LSM tree names is the org of the entry a lookup finds.
LEMMA LsmValueIs ==
    ASSUME TypeOK, SeqInv, NEW k, NEW n \in Nat, NEW v, Shows(k, n, v)
    PROVE  LsmValue(k, n) = v
<1> DEFINE E == {e \in lsm : e.key = k /\ VisibleAt(e, n)}
           c == CHOOSE e \in E : TRUE
<1>1. LsmValue(k, n) = IF E = {} THEN 0 ELSE c.org
  BY Zenon DEF LsmValue
<1>2. CASE E = {}
  BY <1>1, <1>2, Zenon DEF Shows
<1>3. CASE E # {}
  <2>1. c \in E
    BY <1>3, Zenon
  <2> HIDE DEF c
  <2>2. Shows(k, n, c.org)
    BY <2>1, Zenon DEF Shows
  <2> QED
    BY <1>1, <1>3, <2>2, ShowsUnique, Zenon
<1> QED
  BY <1>2, <1>3, Zenon

\* A value that is named and can be read is what Get returns.
LEMMA ValueAtIs ==
    ASSUME TypeOK, SeqInv, FileInv, NEW k, NEW n \in Nat, NEW v, Shows(k, n, v),
           \A e \in lsm : VisibleAt(e, n) => Readable(e)
    PROVE  ValueAt(k, n) = v
<1> DEFINE E == {e \in lsm : e.key = k /\ e.seq <= n}
           c == CHOOSE e \in E : \A x \in E : x.seq <= e.seq
<1>1. ValueAt(k, n) = IF E = {} THEN 0 ELSE ValueOf(c)
  BY Zenon DEF ValueAt
<1>2. CASE v = 0 /\ \A e \in lsm : ~(e.key = k /\ e.seq <= n)
  BY <1>1, <1>2, Zenon
<1>3. ASSUME NEW e \in lsm, e.key = k, VisibleAt(e, n), e.org = v PROVE ValueAt(k, n) = v
  <2>1. EntryTyping
    BY EntryTypingHolds, Zenon
  <2>2. e \in E /\ \A x \in E : x.seq <= e.seq
    BY <1>3, Zenon DEF VisibleAt
  <2>3. c \in E /\ \A x \in E : x.seq <= c.seq
    BY <2>2, Zenon
  <2> HIDE DEF c
  <2>4. c.seq = e.seq
    BY <2>1, <2>2, <2>3 DEF EntryTyping
  <2>5. c = e
    BY <1>3, <2>3, <2>4, Zenon DEF SeqInv, SameVersion
  <2>6. ValueOf(e) = e.org
    <3>1. CASE e.file = 0
      BY <3>1, Zenon DEF ValueOf
    <3>2. CASE e.file # 0
      <4>1. e.file \in File /\ meta[e.file] # "none" /\ e.file \in disk
            /\ RecordOf(e) \in content[e.file]
        BY <1>3, <2>1, <3>2, Zenon DEF Readable, EntryTyping
      <4>2. RecordOf(e).key = e.key /\ RecordOf(e).off = e.off /\ RecordOf(e).org = e.org
        BY DEF RecordOf
      <4>3. RecordOf(e) \in Stored(e) /\ \A r \in Stored(e) : r = RecordOf(e)
        BY <4>1, <4>2, Zenon DEF Stored, FileInv, FileRecords
      <4>4. (CHOOSE r \in Stored(e) : TRUE) = RecordOf(e)
        BY <4>3, Zenon
      <4> QED
        BY <3>2, <4>2, <4>3, <4>4, Zenon DEF ValueOf
    <3> QED
      BY <3>1, <3>2, Zenon
  <2> QED
    BY <1>1, <1>3, <2>2, <2>5, <2>6, Zenon
<1> QED
  BY <1>2, <1>3, Zenon DEF Shows

\* At every snapshot and now the value the LSM tree names is the one of the last user
\* write, for every number of keys, jobs and files.
THEOREM LastWriteIsRead == ASSUME ~ReadFault PROVE Spec => []ReadsLastWrite
<1>1. IInv /\ ValueInv => ReadsLastWrite
  <2> SUFFICES ASSUME IInv, ValueInv, NEW k \in Key,
                      NEW n \in {x.seq : x \in snaps} \cup {lastSeq}
               PROVE  LsmValue(k, n) = LastWrite(k, n)
    BY Zenon DEF ReadsLastWrite
  <2>0. TypeOK /\ SeqInv /\ WritesInv /\ LsmAgrees
    BY Zenon DEF IInv, ValueInv
  <2>1. n \in Horizon /\ n \in Nat
    BY <2>0, HorizonBounds, Zenon DEF Horizon
  <2>2. PICK v \in Seq0 : Shows(k, n, v) /\ Logged(k, n, v)
    BY <2>0, <2>1, Zenon DEF LsmAgrees
  <2> QED
    BY <2>0, <2>1, <2>2, LastWriteIs, LsmValueIs, Zenon
<1> QED
  BY <1>1, Inductive, ValuesStay, PTL
-----------------------------------------------------------------------------
(* TitanGC implements KVStore.                                             *)

\* What Get returns now and at the snapshots that are served is what the log says.
Mapped ==
    /\ CurrentValues = [k \in Key |-> LastWrite(k, lastSeq)]
    /\ SnapshotValues = [s \in Served |-> [k \in Key |-> LastWrite(k, s.seq)]]

\* The last write of a key up to n, for everybody who may read at n.
LogRead ==
    /\ TypeOK /\ WritesInv
    /\ \A s \in snaps : s.seq \in Nat /\ s.seq <= lastSeq
    /\ \A k \in Key : \E v \in Seq0 : Logged(k, lastSeq, v)
    /\ \A k \in Key, s \in snaps : \E v \in Seq0 : Logged(k, s.seq, v)
    /\ \A k \in Key, n \in Nat, v \in Seq0 : Logged(k, n, v) => LastWrite(k, n) = v

\* The inductive invariant says what Get returns ...
LEMMA InvMapped == IInv /\ ValueInv => Mapped /\ LogRead
<1> SUFFICES ASSUME IInv, ValueInv PROVE Mapped /\ LogRead
  BY Zenon
<1>0. TypeOK /\ SeqInv /\ FileInv /\ WritesInv /\ LsmAgrees
  BY Zenon DEF IInv, ValueInv
<1>1. EntryTyping /\ NumberTyping
  BY <1>0, EntryTypingHolds, NumberTypingHolds, Zenon
<1>2. ASSUME NEW k \in Key, NEW n \in Horizon, \A e \in lsm : VisibleAt(e, n) => Readable(e)
      PROVE  ValueAt(k, n) = LastWrite(k, n)
  <2>1. PICK v \in Seq0 : Shows(k, n, v) /\ Logged(k, n, v)
    BY <1>0, Zenon DEF LsmAgrees
  <2>2. n \in Nat
    BY <1>0, HorizonBounds, Zenon
  <2> QED
    BY <1>0, <1>2, <2>1, <2>2, ValueAtIs, LastWriteIs, Zenon
<1>3. \A e \in lsm : VisibleAt(e, lastSeq) => Readable(e)
  <2>1. lastSeq \in durSeq .. lastSeq
    BY <1>0, <1>1 DEF NumberTyping, SeqInv
  <2>2. \A e \in lsm : VisibleAt(e, lastSeq) /\ e.file # 0 =>
            e.file \in manifest /\ e.file \in disk /\ RecordOf(e) \in content[e.file]
    BY <2>1, InvCrash, Zenon DEF CrashConsistent
  <2>3. \A f \in manifest : meta[f] # "none"
    BY <1>0, FileTypingHolds, Zenon DEF FileInv, FileAgree, LiveState, FileTyping
  <2> QED
    BY <2>2, <2>3, Zenon DEF Readable
<1>4. \A s \in Served : s \in snaps /\ \A e \in lsm : VisibleAt(e, s.seq) => Readable(e)
  BY InvReadable, Zenon DEF SnapshotReadable, Served
<1>5. lastSeq \in Horizon /\ \A s \in snaps : s.seq \in Horizon
  BY <1>0, HorizonBounds, Zenon DEF Horizon
<1>6. \A k \in Key : ValueAt(k, lastSeq) = LastWrite(k, lastSeq)
  <2>1. PICK n \in Horizon : n = lastSeq
    BY <1>5, Zenon
  <2> QED
    BY <1>2, <1>3, <2>1, Zenon
<1>7. \A s \in Served, k \in Key : ValueAt(k, s.seq) = LastWrite(k, s.seq)
  BY <1>2, <1>4, <1>5, Zenon
<1>8. Mapped
  BY <1>6, <1>7, Zenon DEF Mapped, CurrentValues, SnapshotValues
<1>9. LogRead
  BY <1>0, <1>1, <1>5, LastWriteIs, Zenon DEF LogRead, LsmAgrees, NumberTyping, SeqInv
<1> QED
  BY <1>8, <1>9, Zenon

\* ... also after a step.
LEMMA InvMappedP == (IInv /\ ValueInv)' => (Mapped /\ LogRead)'
  BY InvMapped, PTL

\* A step that writes nothing for users changes no value.
LEMMA ReadsStay ==
    ASSUME LogRead, Mapped, Mapped', writes' = writes,
           lastSeq' = lastSeq \/ lastSeq' = lastSeq + 1
    PROVE  /\ CurrentValues' = CurrentValues
           /\ \A s \in snaps', k \in Key : LastWrite(k, s.seq)' = LastWrite(k, s.seq)
<1>1. NumberTyping /\ \A w \in writes : w.seq \in Nat /\ w.seq <= lastSeq
  BY NumberTypingHolds, WritesTyping, Zenon DEF LogRead, WritesInv
<1>2. \A w \in writes : w.seq <= lastSeq <=> w.seq <= lastSeq'
  BY <1>1 DEF NumberTyping
<1>3. \A k \in Key : {w \in writes : w.key = k /\ w.seq <= lastSeq}
                     = {w \in writes' : w.key = k /\ w.seq <= lastSeq'}
  BY <1>2, Zenon
<1>4. \A k \in Key : LastWrite(k, lastSeq)' = LastWrite(k, lastSeq)
  BY <1>3, Zenon DEF LastWrite
<1>5. CurrentValues' = CurrentValues
  BY <1>4, Zenon DEF Mapped
<1>6. \A s \in snaps', k \in Key : LastWrite(k, s.seq)' = LastWrite(k, s.seq)
  BY Zenon DEF LastWrite
<1> QED
  BY <1>5, <1>6, Zenon

\* When no snapshot comes or goes, the store stutters or syncs.
LEMMA QuietMaps ==
    ASSUME LogRead, Mapped, Mapped', writes' = writes, snaps' = snaps,
           lastSeq' = lastSeq \/ lastSeq' = lastSeq + 1,
           durSeq' \in Seq0, durSeq <= durSeq'
    PROVE  [Store!Next]_(Store!vars)
<1>1. /\ CurrentValues' = CurrentValues
      /\ \A s \in snaps', k \in Key : LastWrite(k, s.seq)' = LastWrite(k, s.seq)
  BY ReadsStay, Zenon
<1>2. SnapshotValues' = SnapshotValues
  BY <1>1, Zenon DEF Mapped, Served
<1>3. Store!Sync(durSeq')
  BY <1>1, <1>2, Zenon DEF Store!Sync
<1> QED
  BY <1>3, Zenon DEF Store!Next

\* Put, Write, Delete are Write of the store.
LEMMA WriteMaps ==
    ASSUME LogRead, Mapped, LogRead', Mapped', NEW k0 \in Key, NEW del \in BOOLEAN,
           Write(k0, del)
    PROVE  Store!Next
<1> DEFINE org == IF del THEN 0 ELSE lastSeq + 1
           w0 == [key |-> k0, seq |-> lastSeq + 1, org |-> org]
<1>1. /\ writes' = writes \cup {w0} /\ lastSeq' = lastSeq + 1 /\ lastSeq < MaxSeq
      /\ UNCHANGED <<durSeq, snaps>>
  BY Zenon DEF Write, readVars
<1>2. NumberTyping /\ \A w \in writes : w.seq \in Nat /\ w.seq <= lastSeq
  BY NumberTypingHolds, WritesTyping, Zenon DEF LogRead, WritesInv
<1>3. org \in Seq0 /\ lastSeq + 1 \in Seq0 /\ lastSeq + 1 \in Nat
  <2>1. lastSeq \in Nat
    BY <1>2, Zenon DEF NumberTyping
  <2> QED
    BY <1>1, <2>1, BoundsAssumption DEF Seq0
<1>4. w0.key = k0 /\ w0.seq = lastSeq + 1 /\ w0.org = org
  OBVIOUS
<1> HIDE DEF w0, org
<1>5. \A w \in writes : w.seq < lastSeq + 1
  BY <1>2 DEF NumberTyping
<1>6. LastWrite(k0, lastSeq)' = org
  <2>1. PICK n \in Nat, v \in Seq0 : n = lastSeq' /\ v = org
    BY <1>1, <1>3, Zenon
  <2>2. Logged(k0, n, v)'
    BY <1>1, <1>2, <1>4, <2>1 DEF Logged, NumberTyping
  <2>3. LastWrite(k0, n)' = v
    BY <2>2, Zenon DEF LogRead
  <2> QED
    BY <2>1, <2>3, Zenon DEF LastWrite
<1>7. ASSUME NEW k \in Key, k # k0 PROVE LastWrite(k, lastSeq)' = LastWrite(k, lastSeq)
  <2>1. \A w \in writes : w.seq <= lastSeq <=> w.seq <= lastSeq'
    BY <1>1, <1>2 DEF NumberTyping
  <2>2. {w \in writes : w.key = k /\ w.seq <= lastSeq}
        = {w \in writes' : w.key = k /\ w.seq <= lastSeq'}
    BY <1>1, <1>4, <1>7, <2>1, Zenon
  <2> QED
    BY <2>2, Zenon DEF LastWrite
<1>8. CurrentValues' = [CurrentValues EXCEPT ![k0] = org]
  BY <1>6, <1>7, Zenon DEF Mapped
<1>9. \A s \in snaps, k \in Key : LastWrite(k, s.seq)' = LastWrite(k, s.seq)
  <2> SUFFICES ASSUME NEW s \in snaps, NEW k \in Key
               PROVE  LastWrite(k, s.seq)' = LastWrite(k, s.seq)
    BY Zenon
  <2>1. ~(w0.seq <= s.seq)
    BY <1>2, <1>4 DEF LogRead, NumberTyping
  <2>2. {w \in writes : w.key = k /\ w.seq <= s.seq}
        = {w \in writes' : w.key = k /\ w.seq <= s.seq}
    BY <1>1, <2>1, Zenon
  <2> QED
    BY <2>2, Zenon DEF LastWrite
<1>10. SnapshotValues' = SnapshotValues
  BY <1>1, <1>9, Zenon DEF Mapped, Served
<1>11. Store!Write(k0, lastSeq + 1, org)
  BY <1>1, <1>5, <1>8, <1>10, Zenon DEF Store!Write, w0
<1> QED
  BY <1>3, <1>11, Zenon DEF Store!Next

\* GetSnapshot takes a snapshot of the store, unless it is there already or was taken
\* inside the window of a purge pass.
LEMMA GetSnapshotMaps ==
    ASSUME LogRead, Mapped, Mapped', GetSnapshot PROVE [Store!Next]_(Store!vars)
<1>0. UNCHANGED <<lastSeq, durSeq, writes>>
  BY Zenon DEF GetSnapshot, dbVars, ghostVars
<1>1. PICK s0 : s0 = [seq |-> lastSeq, racy |-> ppc = "begun"]
  BY Zenon
<1>2. s0.seq = lastSeq /\ snaps' = snaps \cup {s0} /\ (s0.racy \in BOOLEAN)
  BY <1>1 DEF GetSnapshot
<1>3. s0 \in Snapshot
  <2>1. lastSeq \in Seq0 /\ (ppc = "begun") \in BOOLEAN
    BY Zenon DEF LogRead, TypeOK
  <2> QED
    BY <1>1, <2>1, Zenon DEF Snapshot
<1>4. /\ CurrentValues' = CurrentValues
      /\ \A s \in snaps', k \in Key : LastWrite(k, s.seq)' = LastWrite(k, s.seq)
  BY <1>0, ReadsStay, Zenon
<1>5. CASE Served' = Served
  <2>1. SnapshotValues' = SnapshotValues
    BY <1>4, <1>5, Zenon DEF Mapped, Served
  <2> QED
    BY <1>0, <1>4, <2>1, Zenon DEF Store!vars
<1>6. CASE s0 \notin Served /\ Served' = Served \cup {s0}
  <2>1. DOMAIN SnapshotValues = Served
    BY Zenon DEF SnapshotValues
  <2>2. [k \in Key |-> LastWrite(k, s0.seq)'] = CurrentValues
    BY <1>2, <1>4, Zenon DEF Mapped
  <2>3. SnapshotValues' = [x \in Served \cup {s0} |->
                              IF x = s0 THEN CurrentValues ELSE SnapshotValues[x]]
    BY <1>4, <1>6, <2>2, Zenon DEF Mapped, Served
  <2>4. Store!TakeSnapshot(s0)
    BY <1>0, <1>4, <1>6, <2>1, <2>3, Zenon DEF Store!TakeSnapshot
  <2> QED
    BY <1>3, <2>4, Zenon DEF Store!Next
<1> QED
  BY <1>2, <1>5, <1>6, Zenon DEF Served

\* ReleaseSnapshot releases it.
LEMMA ReleaseMaps ==
    ASSUME LogRead, Mapped, Mapped', NEW s0 \in snaps, ReleaseSnapshot(s0)
    PROVE  Store!Next
<1>0. UNCHANGED <<lastSeq, durSeq, writes>> /\ snaps' = snaps \ {s0}
  BY Zenon DEF ReleaseSnapshot, dbVars, ghostVars
<1>1. s0 \in Snapshot
  BY Zenon DEF LogRead, TypeOK
<1>2. /\ CurrentValues' = CurrentValues
      /\ \A s \in snaps', k \in Key : LastWrite(k, s.seq)' = LastWrite(k, s.seq)
  BY <1>0, ReadsStay, Zenon
<1>3. Served' = Served \ {s0} /\ DOMAIN SnapshotValues = Served
  BY <1>0, Zenon DEF Served, SnapshotValues
<1>4. SnapshotValues' = [x \in Served \ {s0} |-> SnapshotValues[x]]
  BY <1>2, <1>3, Zenon DEF Mapped, Served
<1>5. Store!Release(s0)
  BY <1>0, <1>2, <1>3, <1>4, Zenon DEF Store!Release
<1> QED
  BY <1>1, <1>5, Zenon DEF Store!Next

\* A crash is Crash of the store.
LEMMA CrashMaps ==
    ASSUME LogRead, Mapped, Mapped', NEW n \in Seq0, CrashAndRecover(n) PROVE Store!Next
<1>1. /\ durSeq <= n /\ lastSeq' = n /\ durSeq' = n /\ snaps' = {}
      /\ writes' = {w \in writes : w.seq <= n}
  BY Zenon DEF CrashAndRecover
<1>2. \A k \in Key : {w \in writes' : w.key = k /\ w.seq <= lastSeq'}
                     = {w \in writes' : w.key = k}
  BY <1>1, Zenon
<1>3. \A W : Store!Newest(W) = NewestOrg(W)
  BY Zenon DEF Store!Newest, NewestOrg
<1>4. \A k \in Key : LastWrite(k, lastSeq)' = Store!Last(writes', k)
  BY <1>2, <1>3, Zenon DEF LastWrite, Store!Last
<1>5. CurrentValues' = [k \in Key |-> Store!Last(writes', k)]
  BY <1>4, Zenon DEF Mapped
<1>6. SnapshotValues' = [s \in {} |-> CurrentValues]
  <2>1. Served' = {}
    BY <1>1, Zenon DEF Served
  <2> QED
    BY <2>1, Zenon DEF SnapshotValues
<1>7. Store!Crash(n)
  BY <1>1, <1>5, <1>6, Zenon DEF Store!Crash
<1> QED
  BY <1>7, Zenon DEF Store!Next

\* Every step of the column family is a step of the store, or changes nothing users
\* can tell.
LEMMA NextMaps ==
    ASSUME IInv, ValueInv, IInv', ValueInv', [Next]_vars PROVE [Store!Next]_(Store!vars)
<1>0. LogRead /\ Mapped /\ LogRead' /\ Mapped'
  BY InvMapped, InvMappedP, Zenon
<1>1. durSeq \in Seq0 /\ durSeq' \in Seq0 /\ lastSeq \in Seq0 /\ durSeq <= durSeq
      /\ durSeq <= lastSeq
  <2>1. durSeq \in Seq0 /\ durSeq' \in Seq0 /\ lastSeq \in Seq0 /\ durSeq <= lastSeq
    BY Zenon DEF IInv, TypeOK, SeqInv
  <2>2. durSeq <= durSeq
    BY <2>1, BoundsAssumption DEF Seq0
  <2> QED
    BY <2>1, <2>2, Zenon
<1>2. CASE UNCHANGED <<dbVars, snaps, writes>>
  BY <1>0, <1>1, <1>2, QuietMaps, Zenon DEF dbVars
<1>3. CASE User
  BY <1>0, <1>2, <1>3, WriteMaps, GetSnapshotMaps, ReleaseMaps, Zenon
     DEF User, SetOptions, GetIndex, GetBlob, DeleteBlobFilesInRanges, readVars, ghostVars
<1>4. CASE Table
  <2>1. ASSUME NEW t \in Builder, InstallTable(t) PROVE [Store!Next]_(Store!vars)
    <3>1. durSeq <= durSeq'
      BY <2>1, InstallEntries, Zenon
    <3>2. UNCHANGED <<lastSeq, snaps, writes>>
      BY <2>1, Zenon DEF InstallTable, readVars, ghostVars
    <3> QED
      BY <1>0, <1>1, <3>1, <3>2, QuietMaps, Zenon
  <2>2. ASSUME NEW t, NEW S, NEW drop, NEW G, BuildTable(t, S, drop, G)
        PROVE  UNCHANGED <<dbVars, snaps, writes>>
    BY <2>2, Zenon DEF BuildTable, readVars
  <2> QED
    BY <1>2, <1>4, <2>1, <2>2, Zenon DEF Table, StartFlush, StartCompaction,
       FinishTable, TableCompleted, FailTable, readVars, ghostVars
<1>5. ASSUME NEW j \in Job, GC(j) PROVE [Store!Next]_(Store!vars)
  <2>1. ASSUME NEW b \in batch[j], RewriteKey(j, b) PROVE [Store!Next]_(Store!vars)
    <3>1. /\ UNCHANGED <<durSeq, snaps, writes>>
          /\ lastSeq' = lastSeq \/ lastSeq' = lastSeq + 1
      BY <2>1, Zenon DEF RewriteKey, readVars, ghostVars
    <3> QED
      BY <1>0, <1>1, <3>1, QuietMaps, Zenon
  <2>2. CASE FlushWAL(j)
    <3>1. UNCHANGED <<lastSeq, snaps, writes>> /\ durSeq' = lastSeq
      BY <2>2, Zenon DEF FlushWAL, readVars, ghostVars
    <3> QED
      BY <1>0, <1>1, <3>1, QuietMaps, Zenon
  <2> QED
    BY <1>2, <1>5, <2>1, <2>2, Zenon DEF GC, PickBlobGC, DiscardRecord, KeepRecord,
       IteratorError, InstallOutputs, DeleteInputs, FailGC, readVars, ghostVars
<1>6. CASE Purge
  BY <1>2, <1>6, Zenon DEF Purge, PurgeBegin, GetObsoleteFiles, DeleteFile, readVars,
     ghostVars
<1>7. ASSUME NEW n \in Seq0, CrashAndRecover(n) PROVE [Store!Next]_(Store!vars)
  BY <1>0, <1>7, CrashMaps, Zenon
<1>8. CASE UNCHANGED vars
  BY <1>2, <1>8, Zenon DEF vars, readVars, ghostVars
<1> QED
  BY <1>3, <1>4, <1>5, <1>6, <1>7, <1>8, Zenon DEF Next

\* The column family implements the abstract store: users who read through the blob
\* files cannot tell it from a map with snapshots that a crash takes back to an earlier
\* moment, no earlier than the last sync.
THEOREM Refinement == ASSUME ~ReadFault PROVE Spec => ImplementsStore
<1>1. Init => Store!Init
  <2> SUFFICES ASSUME Init PROVE Store!Init
    BY Zenon
  <2>1. lsm = {} /\ writes = {} /\ durSeq = 0 /\ snaps = {}
    BY Zenon DEF Init, lsm
  <2>2. CurrentValues = [k \in Key |-> 0]
    BY <2>1, Zenon DEF CurrentValues, ValueAt
  <2>3. SnapshotValues = [s \in {} |-> CurrentValues]
    BY <2>1, Zenon DEF SnapshotValues, Served
  <2> QED
    BY <2>1, <2>2, <2>3, Zenon DEF Store!Init
<1>2. IInv /\ ValueInv /\ (IInv /\ ValueInv)' /\ [Next]_vars => [Store!Next]_(Store!vars)
  BY NextMaps, Zenon
<1> QED
  BY <1>1, <1>2, Inductive, ValuesStay, PTL DEF Spec, ImplementsStore, Store!Spec
=============================================================================
