------------------------------ MODULE TitanGC -------------------------------
(***************************************************************************)
(* One column family of a Titan database: the base LSM tree and the blob   *)
(* files, and everything that moves values between them while users read   *)
(* and write: flush and compaction (TitanTables), garbage collection       *)
(* (TitanJobs), the purge thread (TitanPurge), snapshots and reads in      *)
(* flight (TitanUsers), and a crash followed by recovery (TitanOpen).      *)
(***************************************************************************)
EXTENDS TitanOpen, TitanUsers, TitanTables, TitanJobs, TitanPurge

Next ==
    \/ User
    \/ Table
    \/ \E j \in Job : GC(j)
    \/ Purge
    \/ \E n \in Seq0 : CrashAndRecover(n)

Spec == Init /\ [][Next]_vars

-----------------------------------------------------------------------------
(* Properties.                                                             *)

\* A snapshot can read every value it sees: the blob file of every index visible to
\* it is in files_ and in the directory and holds the record the index was written
\* for.  Not claimed of a snapshot taken while the purge thread is between reading
\* the oldest snapshot and taking mutex_ (racy).
SnapshotReadable ==
    \A s \in snaps : ~s.racy =>
        \A e \in lsm : VisibleAt(e, s.seq) => Readable(e)

\* GetImpl asks BlobStorage for the record after the LSM tree gave it the index, with
\* no lock in between: the record is still there, whatever GC and purge did.
ReadsServed ==
    \A r \in reads : ~r[1].racy => Readable(r[2])

\* Whatever unsynced suffix of the writes a crash now would lose, each index the
\* recovered LSM tree shows is into a file that the MANIFEST keeps, that exists and
\* that holds the record.  The LSM tree and the blob files have separate MANIFESTs.
CrashConsistent ==
    \A n \in durSeq .. lastSeq : \A e \in lsm :
        VisibleAt(e, n) /\ e.file # 0 =>
            /\ e.file \in manifest \cap disk
            /\ RecordOf(e) \in content[e.file]

LsmValue(k, s) ==
    LET E == {e \in lsm : e.key = k /\ VisibleAt(e, s)}
    IN IF E = {} THEN 0 ELSE (CHOOSE e \in E : TRUE).org

\* The value of the newest of the writes W.
NewestOrg(W) ==
    IF W = {} THEN 0 ELSE (CHOOSE w \in W : \A x \in W : x.seq <= w.seq).org

LastWrite(k, s) == NewestOrg({w \in writes : w.key = k /\ w.seq <= s})

\* At every snapshot and now, the value the LSM tree names for a key is the one of
\* the last user write: what GC, flush and compaction write themselves never hides a
\* newer user write, brings back a deleted key or shows one version for another.
ReadsLastWrite ==
    \A k \in Key : \A s \in {x.seq : x \in snaps} \cup {lastSeq} :
        LsmValue(k, s) = LastWrite(k, s)

\* An index appears in the LSM tree only when the MANIFEST has its file already
\* (BatchFinishFiles comes before the SST, and before RewriteValidKeyToLSM).
IndexAfterManifest ==
    [][\A e \in lsm' \ lsm : e.file # 0 => e.file \in manifest]_vars

\* The MANIFEST deletes a file only when none of its records is the current value of
\* its key: a GC job has moved each record or found a newer version.
OnlyStaleFilesDropped ==
    [][\A f \in manifest \ manifest' : \A r \in content[f] : ~LiveIndex(f, r)]_vars

\* The purge thread is a RepeatableThread: PurgeObsoleteFiles runs again and again
\* and always goes on to its end.
FairSpec == Spec /\ WF_vars(Purge)

\* A file does not stay obsolete forever while all snapshots are newer than the
\* sequence at which it became obsolete: the purge thread takes it.
ObsoleteFilesPurged ==
    \A f \in File : ~<>[](meta[f] = "Obsolete" /\ \A s \in snaps : s.seq > obsSeq[f])

\* SnapshotReadable for every snapshot: the comment in GetObsoleteFiles says that a
\* purged file "is not visible to all existing snapshots".
EverySnapshotReadable ==
    \A s \in snaps : \A e \in lsm : VisibleAt(e, s.seq) => Readable(e)

=============================================================================
