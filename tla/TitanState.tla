----------------------------- MODULE TitanState -----------------------------
(***************************************************************************)
(* The state of one column family of a Titan database that users, flush and*)
(* compaction, garbage collection and the purge thread share, and how it is*)
(* read.                                                                   *)
(*                                                                         *)
(* A value is named by the sequence number of the user write that put it   *)
(* (org); a deletion has org 0.  An LSM entry is a key, a sequence number, *)
(* its org, and the blob index: file is 0 for an inline value, else the    *)
(* blob file, and off tells the records of one key in one file apart.  The *)
(* org of an index entry is a ghost: a read goes through the blob file.    *)
(***************************************************************************)
EXTENDS Integers, FiniteSets

CONSTANTS
    Key,         \* user keys
    Job,         \* GC threads (max_background_gc of them)
    RunMode,     \* the blob_run_mode values SetOptions may choose
    LevelMerge,  \* TitanCFOptions::level_merge
    ReadFault,   \* whether reading a blob record may fail during GC
    MaxSeq,      \* bound on sequence numbers
    MaxFile,     \* bound on blob file numbers
    MaxSnap,     \* bound on snapshots alive at once
    MaxRead,     \* bound on reads in flight
    MaxCompact,  \* bound on compactions
    MaxFault     \* bound on faults and on failures of flush, compaction and GC

ASSUME BoundsAssumption ==
    /\ MaxSeq \in Nat /\ MaxFile \in Nat /\ MaxSnap \in Nat
    /\ MaxRead \in Nat /\ MaxCompact \in Nat /\ MaxFault \in Nat

ASSUME ModeAssumption ==
    /\ RunMode \subseteq {"normal", "readonly", "fallback"}
    /\ LevelMerge \in BOOLEAN /\ ReadFault \in BOOLEAN

Seq0 == 0 .. MaxSeq
File0 == 0 .. MaxFile
File == 1 .. MaxFile

\* kMaxSequenceNumber: GetOldestSnapshotSequence() when there is no snapshot.
MaxSequenceNumber == MaxSeq + 1

Entry == [key : Key, seq : Seq0, org : Seq0, file : File0, off : Seq0]
Record == [key : Key, off : Seq0, org : Seq0]
Snapshot == [seq : Seq0, racy : BOOLEAN]
Rewrite == [src : File, rec : Record, dst : File0]

\* Table builders: the base DB runs at most one of each for this model.
Builder == {"flush", "compaction"}

FileState == {"none", "PendingLSM", "PendingGC", "Normal", "BeingGC", "Obsolete"}

VARIABLES
    \* the base DB
    mem,       \* entries of the memtables
    sst,       \* entries of the SST files
    lastSeq,   \* last sequence number written
    durSeq,    \* entries up to this one survive a crash (synced WAL or SST)
    snaps,     \* live snapshots; racy: taken between the two halves of a purge pass
    reads,     \* reads in flight: <<snapshot, the entry the LSM returned>>
    \* BlobFileSet and BlobStorage
    nextFile,  \* next_file_number_
    disk,      \* blob files that exist in the directory
    content,   \* the records of each blob file
    meta,      \* files_: state of each BlobFileMeta, "none" when absent
    obsSeq,    \* obsolete_files_: the sequence a file became obsolete at
    manifest,  \* files the MANIFEST adds and does not delete
    manNext,   \* next_file_number of the last MANIFEST record
    runMode,   \* blob_run_mode
    bgError,   \* HasBGError()
    \* TitanTableBuilder of a flush and of a compaction
    tpc, tsrc, tdst, tout, tupto,
    \* BlobGCJob of each GC thread
    pc, inputs, todo, fresh, outs, batch, mode,
    \* the purge thread
    ppc, oldest, cand,
    writes,    \* ghost: the user writes that happened and were not lost
    compacts, faults  \* how many compactions and faults there were

dbVars == <<mem, sst, lastSeq, durSeq>>
readVars == <<snaps, reads>>
fileVars == <<nextFile, disk, content, meta, obsSeq, manifest, manNext>>
optVars == <<runMode, bgError>>
tableVars == <<tpc, tsrc, tdst, tout, tupto>>
gcVars == <<pc, inputs, todo, fresh, outs, batch, mode>>
purgeVars == <<ppc, oldest, cand>>
ghostVars == <<writes, compacts, faults>>
vars == <<dbVars, readVars, fileVars, optVars, tableVars, gcVars, purgeVars,
          ghostVars>>

-----------------------------------------------------------------------------
(* Reading the LSM tree and the blob files.                                *)

lsm == mem \cup sst

\* The base DB's answer to a lookup at sequence s: e is the newest entry of its
\* key that is not newer than s.
VisibleAt(e, s) ==
    /\ e \in lsm /\ e.seq <= s
    /\ \A x \in lsm : x.key = e.key /\ x.seq <= s => x.seq <= e.seq

RecordOf(e) == [key |-> e.key, off |-> e.off, org |-> e.org]

\* BlobStorage::Get: the file is in files_, it can be opened, and the record is
\* the one the entry was written for.  Inline values and deletions need no file.
Readable(e) ==
    e.file # 0 => /\ meta[e.file] # "none" /\ e.file \in disk
                  /\ RecordOf(e) \in content[e.file]

\* GetOldestSnapshotSequence
IsOldestSnapshot(n) ==
    /\ snaps = {} => n = MaxSequenceNumber
    /\ snaps # {} => \E s \in snaps : s.seq = n
    /\ \A s \in snaps : n <= s.seq

\* Does a snapshot see an entry of sequence a that one of sequence b hides?
SeenBetween(a, b) == \E s \in snaps : a <= s.seq /\ s.seq < b

\* BlobFileSet::NewFileNumber and FileManager::NewFile: the next number, an
\* empty file in the directory.  recs is what the builder goes on to write.
NewFile(recs) ==
    /\ nextFile <= MaxFile
    /\ nextFile' = nextFile + 1
    /\ disk' = disk \cup {nextFile}
    /\ content' = [content EXCEPT ![nextFile] = recs]

\* Types of the variables.
TypeOK ==
    /\ mem \subseteq Entry /\ sst \subseteq Entry
    /\ lastSeq \in Seq0 /\ durSeq \in Seq0
    /\ snaps \subseteq Snapshot /\ reads \subseteq Snapshot \X Entry
    /\ nextFile \in 1 .. MaxFile + 1 /\ manNext \in 1 .. MaxFile + 1
    /\ disk \subseteq File /\ manifest \subseteq File
    /\ content \in [File -> SUBSET Record]
    /\ meta \in [File -> FileState] /\ obsSeq \in [File -> Seq0]
    /\ runMode \in RunMode /\ bgError \in BOOLEAN
    /\ tpc \in [Builder -> {"idle", "built", "finished", "installed"}]
    /\ tsrc \in [Builder -> SUBSET Entry] /\ tdst \in [Builder -> SUBSET Entry]
    /\ tout \in [Builder -> File0] /\ tupto \in [Builder -> Seq0]
    /\ pc \in [Job -> {"idle", "run", "rewrite", "delete"}]
    /\ inputs \in [Job -> SUBSET File] /\ outs \in [Job -> SUBSET File]
    /\ todo \in [Job -> SUBSET (File \X Record)]
    /\ fresh \in [Job -> SUBSET Key] /\ batch \in [Job -> SUBSET Rewrite]
    /\ mode \in [Job -> {"normal", "readonly", "fallback"}]
    /\ ppc \in {"idle", "begun", "delete"}
    /\ oldest \in 0 .. MaxSequenceNumber /\ cand \subseteq File
    /\ writes \subseteq [key : Key, seq : Seq0, org : Seq0]
    /\ compacts \in 0 .. MaxCompact /\ faults \in 0 .. MaxFault
=============================================================================
