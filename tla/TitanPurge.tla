----------------------------- MODULE TitanPurge -----------------------------
(***************************************************************************)
(* The purge thread, PurgeObsoleteFilesImpl.                               *)
(***************************************************************************)
EXTENDS TitanState

\* oldest_sequence is read before mutex_ is taken ...
PurgeBegin ==
    /\ ppc = "idle"
    /\ \E n \in 0 .. MaxSequenceNumber : IsOldestSnapshot(n) /\ oldest' = n
    /\ ppc' = "begun"
    /\ UNCHANGED <<dbVars, readVars, fileVars, optVars, tableVars, gcVars, cand,
                   ghostVars>>

\* Mutant: the snapshots are not looked at.
PurgeableAtOnce(f) == meta[f] = "Obsolete"

\* Mutant: one sequence number too many.
PurgeableLate(f) == meta[f] = "Obsolete" /\ oldest > obsSeq[f] + 1

\* BlobStorage::GetObsoleteFiles: every snapshot is newer than the sequence at which
\* the file became obsolete.
Purgeable(f) == meta[f] = "Obsolete" /\ oldest > obsSeq[f]

\* ... then, under it, GetObsoleteFiles drops the files no snapshot can see ...
GetObsoleteFiles ==
    /\ ppc = "begun"
    /\ cand' = {f \in File : Purgeable(f)}
    /\ meta' = [f \in File |-> IF f \in cand' THEN "none" ELSE meta[f]]
    /\ obsSeq' = [f \in File |-> IF f \in cand' THEN 0 ELSE obsSeq[f]]
    /\ ppc' = IF cand' = {} THEN "idle" ELSE "delete"
    /\ oldest' = 0
    /\ UNCHANGED <<dbVars, readVars, nextFile, disk, content, manifest, manNext,
                   optVars, tableVars, gcVars, ghostVars>>

\* ... and they are deleted one by one; an error leaves the file behind.
DeleteFile(f) ==
    /\ ppc = "delete" /\ f \in cand
    /\ disk' \in {disk, disk \ {f}}
    /\ cand' = cand \ {f}
    /\ ppc' = IF cand' = {} THEN "idle" ELSE "delete"
    /\ UNCHANGED <<dbVars, readVars, nextFile, content, meta, obsSeq, manifest,
                   manNext, optVars, tableVars, gcVars, oldest, ghostVars>>

Purge ==
    \/ PurgeBegin
    \/ GetObsoleteFiles
    \/ \E f \in cand : DeleteFile(f)
=============================================================================
