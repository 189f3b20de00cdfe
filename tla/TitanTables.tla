---------------------------- MODULE TitanTables -----------------------------
(***************************************************************************)
(* Flush and compaction: the TitanTableBuilder that separates values into  *)
(* a new blob file, and the listener's end of it.                          *)
(***************************************************************************)
EXTENDS TitanState

\* Mutant: snapshots are not looked at.
KeptNewest(S) ==
    {e \in S : \A x \in S : x.key = e.key => x.seq <= e.seq}

\* The base DB drops an entry when a newer one of the same run hides it from
\* every snapshot ...
Kept(S) ==
    {e \in S : \A x \in S : x.key = e.key /\ x.seq > e.seq
                            => SeenBetween(e.seq, x.seq)}

\* ... and, at the bottom level, a deletion nothing older is left below.
Dead(S) ==
    {e \in Kept(S) : /\ e.org = 0
                     /\ \A s \in snaps : e.seq <= s.seq
                     /\ \A x \in lsm : x.key = e.key /\ x.seq < e.seq
                                       => x \in S \ Kept(S)}

\* Entries TitanTableBuilder::Add writes to a new blob file: values (those below
\* min_blob_size are not modelled) and, when a compaction merges the files G,
\* values it can read from them.
ToBlob(K, G) ==
    IF runMode # "normal" THEN {}
    ELSE {e \in K : \/ e.file = 0 /\ e.org # 0
                    \/ e.file \in G /\ Readable(e)}

\* Entries it reads back from their blob file and writes inline.  When the file
\* has been purged the index is kept as it is.
ToInline(K) ==
    IF runMode # "fallback" THEN {} ELSE {e \in K : e.file # 0 /\ Readable(e)}

Placed(e, f, o) == [key |-> e.key, seq |-> e.seq, org |-> e.org, file |-> f, off |-> o]

\* Mutant: the offset behind the record.
SeparatedAfter(e, f) == Placed(e, f, e.seq + 1)

Separated(e, f) == Placed(e, f, e.seq)
Inlined(e) == Placed(e, 0, 0)

\* The builder's run over the entries S, drop being deletions it does not keep
\* and G the files it merges.  tupto is for the flush: when its SST is installed,
\* everything written before it started is durable.
BuildTable(t, S, drop, G) ==
    LET K == Kept(S) \ drop
        M == ToBlob(K, G)
        I == ToInline(K)
    IN /\ tpc[t] = "idle" /\ S # {}
       /\ IF M = {} THEN UNCHANGED <<nextFile, disk, content>>
          ELSE NewFile({RecordOf(Separated(e, nextFile)) : e \in M})
       /\ tout' = [tout EXCEPT ![t] = IF M = {} THEN 0 ELSE nextFile]
       /\ tdst' = [tdst EXCEPT ![t] = (K \ (M \cup I))
                                      \cup {Separated(e, nextFile) : e \in M}
                                      \cup {Inlined(e) : e \in I}]
       /\ tsrc' = [tsrc EXCEPT ![t] = S]
       /\ tupto' = [tupto EXCEPT ![t] = lastSeq]
       /\ tpc' = [tpc EXCEPT ![t] = "built"]
       /\ UNCHANGED <<dbVars, readVars, meta, obsSeq, manifest, manNext, optVars,
                      gcVars, purgeVars, writes, faults>>

\* A flush takes the memtables; the writes that follow go to a new one.
StartFlush == BuildTable("flush", mem, {}, {}) /\ UNCHANGED compacts

\* A compaction takes some SST entries.  ShouldMerge decides by level and state
\* which blob files a level merge empties.
StartCompaction ==
    /\ compacts < MaxCompact /\ compacts' = compacts + 1
    /\ \E S \in SUBSET sst :
         \E drop \in {{}, Dead(S)}, G \in IF LevelMerge THEN SUBSET File ELSE {{}} :
              BuildTable("compaction", S, drop, G)

\* TitanTableBuilder::Finish calls BatchFinishFiles: the blob file is synced and
\* logged in the MANIFEST before the base DB sees the SST.
FinishTable(t) ==
    /\ tpc[t] = "built"
    /\ IF tout[t] = 0 THEN UNCHANGED <<meta, manifest>>
       ELSE /\ meta' = [meta EXCEPT ![tout[t]] = "PendingLSM"]
            /\ manifest' = manifest \cup {tout[t]}
    /\ manNext' = nextFile
    /\ tpc' = [tpc EXCEPT ![t] = "finished"]
    /\ UNCHANGED <<dbVars, readVars, nextFile, disk, content, obsSeq, optVars,
                   tsrc, tdst, tout, tupto, gcVars, purgeVars, ghostVars>>

\* The base DB installs the SST.
InstallTable(t) ==
    /\ tpc[t] = "finished"
    /\ mem' = IF t = "flush" THEN mem \ tsrc[t] ELSE mem
    /\ sst' = (IF t = "flush" THEN sst ELSE sst \ tsrc[t]) \cup tdst[t]
    /\ durSeq' = IF t = "flush" /\ durSeq < tupto[t] THEN tupto[t] ELSE durSeq
    /\ tpc' = [tpc EXCEPT ![t] = "installed"]
    /\ tsrc' = [tsrc EXCEPT ![t] = {}] /\ tdst' = [tdst EXCEPT ![t] = {}]
    /\ tupto' = [tupto EXCEPT ![t] = 0]
    /\ UNCHANGED <<lastSeq, readVars, fileVars, optVars, tout, gcVars, purgeVars,
                   ghostVars>>

\* OnFlushCompleted, OnCompactionCompleted: only now may GC pick the file.
TableCompleted(t) ==
    /\ tpc[t] = "installed"
    /\ IF tout[t] # 0 /\ meta[tout[t]] = "PendingLSM"
       THEN meta' = [meta EXCEPT ![tout[t]] = "Normal"]
       ELSE UNCHANGED meta
    /\ tpc' = [tpc EXCEPT ![t] = "idle"]
    /\ tout' = [tout EXCEPT ![t] = 0]
    /\ UNCHANGED <<dbVars, readVars, nextFile, disk, content, obsSeq, manifest,
                   manNext, optVars, tsrc, tdst, tupto, gcVars, purgeVars,
                   ghostVars>>

\* The run fails.  Before Finish the blob file is deleted (Abandon) or left
\* behind (BatchFinishFiles failed, with a background error when it was the
\* MANIFEST write); after Finish the file stays PendingLSM.
FailTable(t) ==
    /\ faults < MaxFault /\ faults' = faults + 1
    /\ \/ /\ tpc[t] = "built"
          /\ \/ disk' = disk \ {tout[t]} /\ UNCHANGED bgError
             \/ UNCHANGED disk /\ bgError' \in {bgError, TRUE}
       \/ /\ tpc[t] = "finished"
          /\ UNCHANGED <<disk, bgError>>
    /\ tpc' = [tpc EXCEPT ![t] = "idle"]
    /\ tsrc' = [tsrc EXCEPT ![t] = {}] /\ tdst' = [tdst EXCEPT ![t] = {}]
    /\ tout' = [tout EXCEPT ![t] = 0] /\ tupto' = [tupto EXCEPT ![t] = 0]
    /\ UNCHANGED <<dbVars, readVars, nextFile, content, meta, obsSeq, manifest,
                   manNext, runMode, gcVars, purgeVars, writes, compacts>>

Table ==
    \/ StartFlush
    \/ StartCompaction
    \/ \E t \in Builder : FinishTable(t) \/ InstallTable(t) \/ TableCompleted(t)
                          \/ FailTable(t)
=============================================================================
