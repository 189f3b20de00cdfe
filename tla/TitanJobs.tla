----------------------------- MODULE TitanJobs ------------------------------
(***************************************************************************)
(* Garbage collection: BackgroundGC and BlobGCJob, one job per GC thread.  *)
(***************************************************************************)
EXTENDS TitanState

\* Mutant: an index of the key that is not the newest counts.
LiveIndexOfOldVersion(f, r) ==
    \E e \in lsm : e.key = r.key /\ e.file = f /\ e.off = r.off

\* DiscardEntry and GarbageCollectionWriteCallback: the newest entry of the key
\* is a blob index equal to the one of record r in file f.
LiveIndex(f, r) ==
    \E e \in lsm : /\ e.key = r.key /\ e.file = f /\ e.off = r.off
                   /\ \A x \in lsm : x.key = r.key => x.seq <= e.seq

AllRecords(S) == UNION {{f} \X content[f] : f \in S}

\* PickBlobGC and MarkFilesBeingGC: any files the sizes select, as long as
\* CheckBlobFile finds them in state kNormal.
PickBlobGC(j, S) ==
    /\ pc[j] = "idle" /\ S # {}
    /\ \A f \in S : meta[f] = "Normal"
    /\ meta' = [f \in File |-> IF f \in S THEN "BeingGC" ELSE meta[f]]
    /\ inputs' = [inputs EXCEPT ![j] = S]
    /\ todo' = [todo EXCEPT ![j] = AllRecords(S)]
    /\ mode' = [mode EXCEPT ![j] = runMode]
    /\ pc' = [pc EXCEPT ![j] = "run"]
    /\ UNCHANGED <<dbVars, readVars, nextFile, disk, content, obsSeq, manifest,
                   manNext, optVars, tableVars, fresh, outs, batch, purgeVars,
                   ghostVars>>

\* Mutant: a record is dropped without asking the LSM tree.
DiscardAny(j, f, r) ==
    /\ pc[j] = "run" /\ <<f, r>> \in todo[j]
    /\ todo' = [todo EXCEPT ![j] = @ \ {<<f, r>>}]
    /\ UNCHANGED <<dbVars, readVars, fileVars, optVars, tableVars, pc, inputs,
                   fresh, outs, batch, mode, purgeVars, ghostVars>>

\* DoRunGC passes over record r of file f: a newer record of the key was kept,
\* or DiscardEntry finds it stale.
DiscardRecord(j, f, r) ==
    /\ pc[j] = "run" /\ <<f, r>> \in todo[j]
    /\ r.key \in fresh[j] \/ ~LiveIndex(f, r)
    /\ todo' = [todo EXCEPT ![j] = @ \ {<<f, r>>}]
    /\ UNCHANGED <<dbVars, readVars, fileVars, optVars, tableVars, pc, inputs,
                   fresh, outs, batch, mode, purgeVars, ghostVars>>

\* DoRunGC keeps the record: a rewrite batch, and a copy in an output file, which
\* is a new one at first and when the last reached blob_file_target_size.  In
\* fallback mode the value goes inline, with no file.
KeepRecord(j, f, r, dst) ==
    /\ pc[j] = "run" /\ <<f, r>> \in todo[j]
    /\ r.key \notin fresh[j] /\ LiveIndex(f, r)
    /\ IF mode[j] = "fallback"
       THEN dst = 0 /\ UNCHANGED <<nextFile, disk, content, outs>>
       ELSE \/ /\ dst = nextFile /\ NewFile({r})
               /\ outs' = [outs EXCEPT ![j] = @ \cup {dst}]
            \/ /\ dst \in outs[j] /\ \A g \in outs[j] : g <= dst
               /\ content' = [content EXCEPT ![dst] = @ \cup {r}]
               /\ UNCHANGED <<nextFile, disk, outs>>
    /\ batch' = [batch EXCEPT ![j] = @ \cup {[src |-> f, rec |-> r, dst |-> dst]}]
    /\ fresh' = [fresh EXCEPT ![j] = @ \cup {r.key}]
    /\ todo' = [todo EXCEPT ![j] = @ \ {<<f, r>>}]
    /\ UNCHANGED <<dbVars, readVars, meta, obsSeq, manifest, manNext, optVars,
                   tableVars, pc, inputs, mode, purgeVars, ghostVars>>

\* BlobFileMergeIterator: an input whose next record cannot be read leaves the
\* merge heap and status() stays OK, unless no input had a first record.
IteratorError(j, f) ==
    /\ ReadFault /\ faults < MaxFault /\ faults' = faults + 1
    /\ pc[j] = "run" /\ \E x \in todo[j] : x[1] = f
    /\ todo[j] = AllRecords(inputs[j]) => \E x \in todo[j] : x[1] # f
    /\ todo' = [todo EXCEPT ![j] = {x \in @ : x[1] # f}]
    /\ UNCHANGED <<dbVars, readVars, fileVars, optVars, tableVars, pc, inputs,
                   fresh, outs, batch, mode, purgeVars, writes, compacts>>

\* Mutant: the outputs are not logged.
InstallOutputsUnlogged(j) ==
    /\ pc[j] = "run" /\ todo[j] = {}
    /\ meta' = [f \in File |-> IF f \in outs[j] THEN "PendingGC" ELSE meta[f]]
    /\ pc' = [pc EXCEPT ![j] = "rewrite"]
    /\ UNCHANGED <<dbVars, readVars, nextFile, disk, content, obsSeq, manifest,
                   manNext, optVars, tableVars, inputs, todo, fresh, outs, batch,
                   mode, purgeVars, ghostVars>>

\* InstallOutputBlobFiles: BatchFinishFiles syncs the outputs and logs them.
InstallOutputs(j) ==
    /\ pc[j] = "run" /\ todo[j] = {}
    /\ meta' = [f \in File |-> IF f \in outs[j] THEN "PendingGC" ELSE meta[f]]
    /\ manifest' = manifest \cup outs[j]
    /\ manNext' = nextFile
    /\ pc' = [pc EXCEPT ![j] = "rewrite"]
    /\ UNCHANGED <<dbVars, readVars, nextFile, disk, content, obsSeq, optVars,
                   tableVars, inputs, todo, fresh, outs, batch, mode, purgeVars,
                   ghostVars>>

\* RewriteValidKeyToLSM, one batch: WriteWithCallback writes the new index when
\* the callback still finds the old one, and is Busy otherwise.
RewriteKey(j, b) ==
    /\ pc[j] = "rewrite" /\ b \in batch[j]
    /\ IF LiveIndex(b.src, b.rec)
       THEN /\ lastSeq < MaxSeq
            /\ mem' = mem \cup
                 {[key |-> b.rec.key, seq |-> lastSeq + 1, org |-> b.rec.org,
                   file |-> b.dst, off |-> IF b.dst = 0 THEN 0 ELSE b.rec.off]}
            /\ lastSeq' = lastSeq + 1
       ELSE UNCHANGED <<mem, lastSeq>>
    /\ batch' = [batch EXCEPT ![j] = @ \ {b}]
    /\ UNCHANGED <<sst, durSeq, readVars, fileVars, optVars, tableVars, pc,
                   inputs, todo, fresh, outs, mode, purgeVars, ghostVars>>

\* Mutant: FlushWAL(false).
FlushWALUnsynced(j) ==
    /\ pc[j] = "rewrite" /\ batch[j] = {}
    /\ pc' = [pc EXCEPT ![j] = "delete"]
    /\ UNCHANGED <<dbVars, readVars, fileVars, optVars, tableVars, inputs, todo,
                   fresh, outs, batch, mode, purgeVars, ghostVars>>

\* The end of RewriteValidKeyToLSM: FlushWAL(true).
FlushWAL(j) ==
    /\ pc[j] = "rewrite" /\ batch[j] = {}
    /\ durSeq' = lastSeq
    /\ pc' = [pc EXCEPT ![j] = "delete"]
    /\ UNCHANGED <<mem, sst, lastSeq, readVars, fileVars, optVars, tableVars,
                   inputs, todo, fresh, outs, batch, mode, purgeVars, ghostVars>>

\* ReleaseGcFiles under file states m: kGCCompleted on inputs and outputs.
ReleaseGcFiles(j, m) ==
    /\ meta' = [f \in File |-> IF m[f] \in {"BeingGC", "PendingGC"}
                                  /\ f \in inputs[j] \cup outs[j]
                               THEN "Normal" ELSE m[f]]
    /\ pc' = [pc EXCEPT ![j] = "idle"]
    /\ inputs' = [inputs EXCEPT ![j] = {}] /\ todo' = [todo EXCEPT ![j] = {}]
    /\ fresh' = [fresh EXCEPT ![j] = {}] /\ outs' = [outs EXCEPT ![j] = {}]
    /\ batch' = [batch EXCEPT ![j] = {}] /\ mode' = [mode EXCEPT ![j] = "normal"]

\* DeleteInputBlobFiles: the inputs that are not obsolete already become so at
\* the latest sequence, and the MANIFEST deletes them; then ReleaseGcFiles, still
\* under mutex_.
DeleteInputs(j) ==
    LET S == {f \in inputs[j] : meta[f] \notin {"none", "Obsolete"}}
    IN /\ pc[j] = "delete"
       /\ obsSeq' = [f \in File |-> IF f \in S THEN lastSeq ELSE obsSeq[f]]
       /\ manifest' = manifest \ S
       /\ manNext' = nextFile
       /\ ReleaseGcFiles(j, [f \in File |-> IF f \in S THEN "Obsolete" ELSE meta[f]])
       /\ UNCHANGED <<dbVars, readVars, nextFile, disk, content, optVars,
                      tableVars, purgeVars, ghostVars>>

\* The job fails anywhere: Run or Finish returns an error (shutdown, I/O), the
\* files are released, and BackgroundGC records the error.  Outputs that are not
\* installed yet are deleted or left in the directory.
FailGC(j) ==
    /\ pc[j] # "idle"
    /\ faults < MaxFault /\ faults' = faults + 1
    /\ disk' \in IF pc[j] = "run" THEN {disk, disk \ outs[j]} ELSE {disk}
    /\ ReleaseGcFiles(j, meta)
    /\ bgError' = TRUE
    /\ UNCHANGED <<dbVars, readVars, nextFile, content, obsSeq, manifest, manNext,
                   runMode, tableVars, purgeVars, writes, compacts>>

GC(j) ==
    \/ \E S \in SUBSET File : PickBlobGC(j, S)
    \/ \E x \in todo[j] : DiscardRecord(j, x[1], x[2])
    \/ \E x \in todo[j], dst \in File0 : KeepRecord(j, x[1], x[2], dst)
    \/ \E f \in File : IteratorError(j, f)
    \/ InstallOutputs(j)
    \/ \E b \in batch[j] : RewriteKey(j, b)
    \/ FlushWAL(j)
    \/ DeleteInputs(j)
    \/ FailGC(j)
=============================================================================
