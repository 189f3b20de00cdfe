----------------------------- MODULE TitanOpen ------------------------------
(***************************************************************************)
(* Opening a database, OpenImpl: a new one, and one that crashed, which    *)
(* BlobFileSet::Recover and InitializeGC bring back.                       *)
(***************************************************************************)
EXTENDS TitanState

Init ==
    /\ mem = {} /\ sst = {} /\ lastSeq = 0 /\ durSeq = 0
    /\ snaps = {} /\ reads = {}
    /\ nextFile = 1 /\ disk = {} /\ content = [f \in File |-> {}]
    /\ meta = [f \in File |-> "none"] /\ obsSeq = [f \in File |-> 0]
    /\ manifest = {} /\ manNext = 1
    /\ runMode \in RunMode /\ bgError = FALSE
    /\ tpc = [t \in Builder |-> "idle"]
    /\ tsrc = [t \in Builder |-> {}] /\ tdst = [t \in Builder |-> {}]
    /\ tout = [t \in Builder |-> 0] /\ tupto = [t \in Builder |-> 0]
    /\ pc = [j \in Job |-> "idle"]
    /\ inputs = [j \in Job |-> {}] /\ todo = [j \in Job |-> {}]
    /\ fresh = [j \in Job |-> {}] /\ outs = [j \in Job |-> {}]
    /\ batch = [j \in Job |-> {}] /\ mode = [j \in Job |-> "normal"]
    /\ ppc = "idle" /\ oldest = 0 /\ cand = {}
    /\ writes = {} /\ compacts = 0 /\ faults = 0

\* Unsynced writes after some point n are lost.  Every file the MANIFEST knows is
\* kNormal again, and blob files it does not know are deleted.
CrashAndRecover(n) ==
    /\ faults < MaxFault
    /\ durSeq <= n /\ n <= lastSeq
    /\ mem' = {e \in mem : e.seq <= n}
    /\ lastSeq' = n /\ durSeq' = n
    /\ writes' = {w \in writes : w.seq <= n}
    /\ snaps' = {} /\ reads' = {}
    /\ disk' = disk \cap manifest
    /\ meta' = [f \in File |-> IF f \in manifest THEN "Normal" ELSE "none"]
    /\ nextFile' = manNext
    /\ bgError' = FALSE
    /\ tpc' = [t \in Builder |-> "idle"]
    /\ tsrc' = [t \in Builder |-> {}] /\ tdst' = [t \in Builder |-> {}]
    /\ tout' = [t \in Builder |-> 0] /\ tupto' = [t \in Builder |-> 0]
    /\ pc' = [j \in Job |-> "idle"]
    /\ inputs' = [j \in Job |-> {}] /\ todo' = [j \in Job |-> {}]
    /\ fresh' = [j \in Job |-> {}] /\ outs' = [j \in Job |-> {}]
    /\ batch' = [j \in Job |-> {}] /\ mode' = [j \in Job |-> "normal"]
    /\ ppc' = "idle" /\ oldest' = 0 /\ cand' = {}
    /\ faults' = faults + 1
    /\ obsSeq' = [f \in File |-> 0]
    /\ UNCHANGED <<sst, content, manifest, manNext, runMode, compacts>>
=============================================================================
