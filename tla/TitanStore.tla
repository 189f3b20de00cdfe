----------------------------- MODULE TitanStore -----------------------------
(***************************************************************************)
(* TitanGC implements KVStore: what Get returns, read through the blob     *)
(* files as they are at that moment, is what a plain map with snapshots    *)
(* would return.                                                           *)
(***************************************************************************)
EXTENDS TitanGC

\* What Get answers when the file or the record is not there.
Corruption == MaxSeq + 2

\* BlobStorage::Get: the record at the offset of an index, when its file can be read.
Stored(e) ==
    {r \in content[e.file] : /\ meta[e.file] # "none" /\ e.file \in disk
                             /\ r.key = e.key /\ r.off = e.off}

\* What the index or inline value e stands for.
ValueOf(e) ==
    IF e.file = 0 THEN e.org
    ELSE IF Stored(e) = {} THEN Corruption ELSE (CHOOSE r \in Stored(e) : TRUE).org

\* GetImpl of key k at sequence s: the newest entry the LSM tree has, and for an
\* index what the blob file holds.
ValueAt(k, s) ==
    LET E == {e \in lsm : e.key = k /\ e.seq <= s}
    IN IF E = {} THEN 0 ELSE ValueOf(CHOOSE e \in E : \A x \in E : x.seq <= e.seq)

\* Snapshots taken inside the window of a purge pass are promised nothing.
Served == {s \in snaps : ~s.racy}

\* What everybody reads now, and at every snapshot.
CurrentValues == [k \in Key |-> ValueAt(k, lastSeq)]
SnapshotValues == [s \in Served |-> [k \in Key |-> ValueAt(k, s.seq)]]

Store == INSTANCE KVStore WITH
    Snap <- Snapshot,
    log <- writes,
    durable <- durSeq,
    db <- CurrentValues,
    views <- SnapshotValues

\* Every behaviour of the column family, seen through Get, is one of the abstract
\* store: flush, compaction, GC, the purge thread and SetOptions change no value
\* anybody reads, writes take effect at once and in order, a snapshot never changes,
\* and a crash goes back to an earlier moment and loses nothing that was durable.
ImplementsStore == Store!Spec
=============================================================================
