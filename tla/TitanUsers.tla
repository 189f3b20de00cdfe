----------------------------- MODULE TitanUsers -----------------------------
(***************************************************************************)
(* What users of the database do: writes, snapshots, reads in two halves,  *)
(* SetOptions and DeleteFilesInRanges.                                     *)
(***************************************************************************)
EXTENDS TitanState


\* Put, Write and Delete: refused after a background error, otherwise one
\* entry in the memtable.  org is the new sequence for a value, 0 for a deletion.
Write(k, del) ==
    /\ ~bgError /\ lastSeq < MaxSeq
    /\ LET org == IF del THEN 0 ELSE lastSeq + 1
       IN /\ mem' = mem \cup {[key |-> k, seq |-> lastSeq + 1, org |-> org,
                               file |-> 0, off |-> 0]}
          /\ writes' = writes \cup {[key |-> k, seq |-> lastSeq + 1, org |-> org]}
    /\ lastSeq' = lastSeq + 1
    /\ UNCHANGED <<sst, durSeq, readVars, fileVars, optVars, tableVars, gcVars,
                   purgeVars, compacts, faults>>

SetOptions(m) ==
    /\ runMode # m
    /\ runMode' = m
    /\ UNCHANGED <<dbVars, readVars, fileVars, bgError, tableVars, gcVars,
                   purgeVars, ghostVars>>

\* GetSnapshot, and the ManagedSnapshot every Get and NewIterator takes.
GetSnapshot ==
    /\ Cardinality(snaps) < MaxSnap
    /\ snaps' = snaps \cup {[seq |-> lastSeq, racy |-> ppc = "begun"]}
    /\ UNCHANGED <<dbVars, reads, fileVars, optVars, tableVars, gcVars,
                   purgeVars, ghostVars>>

ReleaseSnapshot(s) ==
    /\ \A r \in reads : r[1] # s
    /\ snaps' = snaps \ {s}
    /\ UNCHANGED <<dbVars, reads, fileVars, optVars, tableVars, gcVars,
                   purgeVars, ghostVars>>

\* First half of GetImpl: the LSM returns a blob index ...
GetIndex(s, e) ==
    /\ Cardinality(reads) < MaxRead
    /\ VisibleAt(e, s.seq) /\ e.file # 0
    /\ reads' = reads \cup {<<s, e>>}
    /\ UNCHANGED <<dbVars, snaps, fileVars, optVars, tableVars, gcVars,
                   purgeVars, ghostVars>>

\* ... second half: storage->Get reads the record, whatever happened since.
GetBlob(r) ==
    /\ reads' = reads \ {r}
    /\ UNCHANGED <<dbVars, snaps, fileVars, optVars, tableVars, gcVars,
                   purgeVars, ghostVars>>

\* DeleteBlobFilesInRanges: the files whose key range the call covers become
\* obsolete, whatever state they are in.  The caller promises that no value of
\* those keys is left in the LSM tree (DeleteFilesInRanges came first).
DeleteBlobFilesInRanges(S) ==
    /\ S # {} /\ \A f \in S : meta[f] \notin {"none", "Obsolete"}
    /\ \A f \in S : \A r \in content[f] : \A e \in lsm : e.key = r.key => e.org = 0
    /\ meta' = [f \in File |-> IF f \in S THEN "Obsolete" ELSE meta[f]]
    /\ obsSeq' = [f \in File |-> IF f \in S THEN lastSeq ELSE obsSeq[f]]
    /\ manifest' = manifest \ S
    /\ manNext' = nextFile
    /\ UNCHANGED <<dbVars, readVars, nextFile, disk, content, optVars, tableVars,
                   gcVars, purgeVars, ghostVars>>

User ==
    \/ \E k \in Key, del \in BOOLEAN : Write(k, del)
    \/ \E m \in RunMode : SetOptions(m)
    \/ GetSnapshot
    \/ \E s \in snaps : ReleaseSnapshot(s)
    \/ \E s \in snaps, e \in lsm : GetIndex(s, e)
    \/ \E r \in reads : GetBlob(r)
    \/ \E S \in SUBSET File : DeleteBlobFilesInRanges(S)
=============================================================================
