------------------------------ MODULE TitanGCInv ------------------------------
(***************************************************************************)
(* The inductive invariant behind the safety of TitanGC: why a file that   *)
(* GC makes obsolete is not needed by any reader the purge thread waits    *)
(* for, nor after a crash.                                                 *)
(***************************************************************************)
EXTENDS TitanState

\* States of a file that is in the MANIFEST.
LiveState == {"PendingLSM", "PendingGC", "Normal", "BeingGC"}

Running(t) == tpc[t] \in {"built", "finished"}

\* Some newer entry of the key, not newer than n, hides e.
HiddenUpTo(e, n) ==
    \E x \in lsm : x.key = e.key /\ e.seq < x.seq /\ x.seq <= n

SameVersion(x, y) == x.key = y.key /\ x.seq = y.seq

\* Sequence numbers: versions are unique, memtables are newer than SSTs, and what
\* is in an SST is durable.
SeqInv ==
    /\ durSeq <= lastSeq
    /\ \A e \in lsm : e.seq <= lastSeq
    /\ \A e \in sst : e.seq <= durSeq
    /\ \A s \in snaps : s.seq <= lastSeq
    /\ \A x, y \in lsm : SameVersion(x, y) => x = y
    /\ \A m \in mem, x \in sst : m.key = x.key => x.seq < m.seq
    /\ \A e \in lsm : e.file # 0 => e.org # 0

\* Blob files: numbers are given out once, to files and to indexes alike; ...
FileBound ==
    /\ manNext <= nextFile
    /\ \A f \in manifest : f < manNext
    /\ \A f \in disk : f < nextFile
    /\ \A f \in cand : f < nextFile
    /\ \A e \in lsm : e.file < manNext

\* ... the MANIFEST, files_ and the directory agree; ...
FileAgree ==
    /\ \A f \in File : f \in manifest <=> meta[f] \in LiveState
    /\ \A f \in File : meta[f] # "none" => f \in disk
    /\ \A f \in cand : meta[f] = "none"

\* ... and a key and an offset name one record of a file.
FileRecords ==
    \A f \in File : \A r, q \in content[f] : r.key = q.key /\ r.off = q.off => r = q

FileInv == FileBound /\ FileAgree /\ FileRecords

\* Files a builder or a job works on have numbers that were given out ...
OwnBound ==
    /\ \A t \in Builder : tout[t] < nextFile
    /\ \A j \in Job : \A f \in inputs[j] \cup outs[j] : f < nextFile

\* ... and are nobody else's.
OwnApart ==
    /\ \A t, u \in Builder : tout[t] = tout[u] /\ tout[t] # 0 => t = u
    /\ \A t \in Builder, j \in Job : tout[t] \notin inputs[j] \cup outs[j]
    /\ \A i, j \in Job : inputs[i] \cap outs[j] = {}
    /\ \A i, j \in Job : i # j => /\ inputs[i] \cap inputs[j] = {}
                                  /\ outs[i] \cap outs[j] = {}

\* A builder's file is unknown until it is finished, then PendingLSM.
OwnBuilder ==
    /\ \A t \in Builder : tpc[t] = "idle" => tout[t] = 0
    /\ \A t \in Builder : tpc[t] = "built" /\ tout[t] # 0 =>
           /\ meta[tout[t]] = "none" /\ tout[t] \in disk /\ tout[t] \notin cand
           /\ \A e \in lsm : e.file # tout[t]
    /\ \A t \in Builder : tpc[t] = "finished" /\ tout[t] # 0 =>
           meta[tout[t]] = "PendingLSM"
    /\ \A t \in Builder : tpc[t] = "installed" /\ tout[t] # 0 =>
           meta[tout[t]] \in {"PendingLSM", "Obsolete", "none"}

\* A job's inputs are BeingGC; its outputs are unknown until installed.
OwnJob ==
    /\ \A j \in Job : \A f \in inputs[j] : meta[f] \in {"BeingGC", "Obsolete", "none"}
    /\ \A j \in Job : pc[j] = "run" => \A f \in outs[j] :
           /\ meta[f] = "none" /\ f \in disk /\ f \notin cand
           /\ \A e \in lsm : e.file # f
    /\ \A j \in Job : pc[j] \in {"rewrite", "delete"} => \A f \in outs[j] :
           meta[f] \in {"PendingGC", "Obsolete", "none"} /\ f < manNext

OwnInv == OwnBound /\ OwnApart /\ OwnBuilder /\ OwnJob

\* Every index in the LSM tree: its record is there, or it is hidden by a durable
\* entry from all snapshots that are newer than the sequence at which the file
\* became obsolete; once the file is gone, from all that are not racy.
RefInv ==
    \A e \in lsm : e.file # 0 =>
        \/ meta[e.file] \in LiveState /\ RecordOf(e) \in content[e.file]
        \/ /\ meta[e.file] = "Obsolete" /\ RecordOf(e) \in content[e.file]
           /\ \E x \in lsm : /\ x.key = e.key /\ e.seq < x.seq /\ x.seq <= durSeq
                             /\ \A s \in snaps : e.seq <= s.seq /\ s.seq < x.seq
                                                 => s.seq <= obsSeq[e.file]
        \/ /\ meta[e.file] = "none"
           /\ \E x \in lsm : /\ x.key = e.key /\ e.seq < x.seq /\ x.seq <= durSeq
                             /\ \A s \in snaps : e.seq <= s.seq /\ s.seq < x.seq
                                                 => s.racy

\* A builder at work.  What it read is still there ...
TableSrc(t) ==
    /\ t = "flush" => /\ tsrc[t] \subseteq mem
                      /\ \A e \in tsrc[t] : e.seq <= tupto[t]
                      /\ \A m \in mem \ tsrc[t] : tupto[t] < m.seq
    /\ t = "compaction" => tsrc[t] \subseteq sst
    /\ tupto[t] <= lastSeq

\* ... what it will install has the same versions and their records ...
TableDst(t) ==
    /\ tout[t] # 0 => \E y \in tdst[t] : /\ y.file = tout[t]
                                         /\ RecordOf(y) \in content[tout[t]]
    /\ \A y \in tdst[t] :
           /\ \E x \in tsrc[t] : SameVersion(x, y) /\ x.org = y.org
           /\ y.file # 0 => y.org # 0
           /\ \/ y \in tsrc[t]
              \/ y.file = 0
              \/ y.file = tout[t] /\ RecordOf(y) \in content[tout[t]]
    /\ \A x, y \in tdst[t] : SameVersion(x, y) => x = y

\* ... and what it drops is hidden by something it keeps, or is a deletion (or is
\* below one) with nothing older left.
TableDrop(t) ==
    \A x \in tsrc[t] :
        \/ \E y \in tdst[t] : SameVersion(x, y)
        \/ \E y \in tdst[t] : /\ y.key = x.key /\ x.seq < y.seq
                              /\ ~SeenBetween(x.seq, y.seq)
        \/ /\ t = "compaction"
           /\ \A z \in lsm : z.key = x.key /\ z.seq <= x.seq => z \in tsrc[t]
           /\ \A y \in tdst[t] : y.key = x.key => x.seq < y.seq

TableInv ==
    \A t \in Builder : Running(t) => TableSrc(t) /\ TableDst(t) /\ TableDrop(t)

\* A GC job's bookkeeping ...
JobPhase(j) ==
    /\ pc[j] = "idle" => /\ inputs[j] = {} /\ outs[j] = {} /\ batch[j] = {}
                         /\ todo[j] = {} /\ fresh[j] = {}
    /\ pc[j] # "run" => todo[j] = {}
    /\ pc[j] = "delete" => batch[j] = {}

\* ... an index into one of its inputs is still to be scanned, is in a rewrite
\* batch, or is hidden; when a newer record of the key was kept it is hidden ...
JobRefs(j) ==
    \A e \in lsm : e.file \in inputs[j] =>
        /\ \/ <<e.file, RecordOf(e)>> \in todo[j]
           \/ \E b \in batch[j] : b.src = e.file /\ b.rec = RecordOf(e)
           \/ HiddenUpTo(e, IF pc[j] = "delete" THEN durSeq ELSE lastSeq)
        /\ e.key \in fresh[j] /\ <<e.file, RecordOf(e)>> \in todo[j]
           => HiddenUpTo(e, lastSeq)

\* ... and the records are where the scan and the batches say.
JobCopies(j) ==
    /\ \A x \in todo[j] : x[1] \in inputs[j] /\ x[2] \in content[x[1]]
    /\ \A b \in batch[j] :
           /\ b.src \in inputs[j] /\ b.rec \in content[b.src]
           /\ b.dst # 0 => b.dst \in outs[j] /\ b.rec \in content[b.dst]
           /\ pc[j] = "rewrite" /\ b.dst # 0 =>
                  \/ meta[b.dst] = "PendingGC"
                  \/ \A e \in lsm : ~(e.key = b.rec.key /\ e.file = b.src)
    /\ pc[j] = "run" => \A f \in outs[j] : \A r \in content[f] : r.key \in fresh[j]

JobInv == \A j \in Job : JobPhase(j) /\ JobRefs(j) /\ JobCopies(j)

\* Readers and the purge thread.
ReadInv ==
    /\ ppc = "begun" => \A s \in snaps : ~s.racy => oldest <= s.seq
    /\ ppc # "delete" => cand = {}
    /\ \A r \in reads : /\ r[1] \in snaps
                        /\ r[2].file # 0 /\ r[2].file < nextFile
                        /\ ~r[1].racy =>
                             /\ meta[r[2].file] # "none"
                             /\ RecordOf(r[2]) \in content[r[2].file]
                             /\ meta[r[2].file] = "Obsolete" =>
                                    r[1].seq <= obsSeq[r[2].file]

IInv == TypeOK /\ SeqInv /\ FileInv /\ OwnInv /\ RefInv /\ TableInv /\ JobInv /\ ReadInv
-----------------------------------------------------------------------------
(* Why every reader finds the value of the last user write.                *)

\* The writes of users: no two have one sequence number.
WritesInv ==
    /\ \A w \in writes : w.seq <= lastSeq
    /\ \A w, x \in writes : w.seq = x.seq => w = x

\* A version a builder leaves out has a newer one among what it read, with no
\* snapshot between them, or is a deletion.
TableVal(t) ==
    \A x \in tsrc[t] :
        \/ \E y \in tdst[t] : SameVersion(x, y)
        \/ \E y \in tsrc[t] : /\ y.key = x.key /\ x.seq < y.seq
                              /\ ~SeenBetween(x.seq, y.seq)
        \/ x.org = 0

TableValInv == \A t \in Builder : Running(t) => TableVal(t)

\* The sequence numbers somebody may read at: those of snapshots, the last one, and
\* those a crash may go back to.
Horizon == (durSeq .. lastSeq) \cup {s.seq : s \in snaps}

\* The LSM tree names value v for key k at n ...
Shows(k, n, v) ==
    \/ v = 0 /\ \A e \in lsm : ~(e.key = k /\ e.seq <= n)
    \/ \E e \in lsm : e.key = k /\ VisibleAt(e, n) /\ e.org = v

\* ... and the last user write of k up to n wrote v.
Logged(k, n, v) ==
    \/ v = 0 /\ \A w \in writes : ~(w.key = k /\ w.seq <= n)
    \/ \E w \in writes : /\ w.key = k /\ w.seq <= n /\ w.org = v
                         /\ \A x \in writes : x.key = k /\ x.seq <= n => x.seq <= w.seq

LsmAgrees ==
    \A k \in Key, n \in Horizon : \E v \in Seq0 : Shows(k, n, v) /\ Logged(k, n, v)

\* At every snapshot, now, and at every point a crash may go back to, the LSM tree
\* names the value of the last user write, whatever flush, compaction and GC wrote.
ValueInv == WritesInv /\ TableValInv /\ LsmAgrees
=============================================================================
