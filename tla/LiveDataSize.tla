----------------------------- MODULE LiveDataSize -----------------------------
(***************************************************************************)
(* How TitanDBImpl keeps live_data_size_ of every blob file: the size of   *)
(* its data that SST files refer to.  It changes in the listener calls for *)
(* a flush or compaction, some time after the SSTs it made are installed   *)
(* and in any order; in DeleteFilesInRanges; when a GC job installs its    *)
(* outputs and when it subtracts the records it could not rewrite; and     *)
(* when the database opens.  With level merge a file whose size gets to 0  *)
(* is deleted, so a size that is too small loses data.                     *)
(*                                                                         *)
(* Values are numbered in the order of their keys, and all have size 1.  A *)
(* reference is a value and the blob file it is in; an SST file is a level *)
(* and its references.                                                     *)
(***************************************************************************)
EXTENDS Integers, FiniteSets, FiniteSetsExt

CONSTANTS
    Options,        \* options of the column family, with its ID: one is chosen
    NumLevels,      \* ColumnFamilyOptions::num_levels
    MaxValue,       \* bound on values
    MaxFile,        \* bound on blob file numbers
    MaxJob,         \* bound on flushes and compactions
    MaxOther        \* bound on GC jobs, calls of DeleteFilesInRanges and restarts

ASSUME OptionAssumption ==
    /\ \A o \in Options :
          /\ DOMAIN o = {"level_merge", "range_merge", "max_sorted_runs", "id"}
          /\ o.level_merge \in BOOLEAN /\ o.range_merge \in BOOLEAN
          /\ o.max_sorted_runs \in Nat /\ o.id \in Nat
    /\ NumLevels \in Nat /\ NumLevels > 1

ASSUME LimitAssumption ==
    /\ MaxValue \in Nat /\ MaxFile \in Nat /\ MaxJob \in Nat /\ MaxOther \in Nat

Value == 1 .. MaxValue
File == 1 .. MaxFile
Level == 0 .. NumLevels - 1
Ref == Value \X File
Table == [level : Level, refs : SUBSET Ref]
Event == [kind : {"flush", "compaction"}, level : Level,
          input : SUBSET Ref, output : SUBSET Ref]

FileState ==
    {"none", "PendingLSM", "PendingGC", "Normal", "BeingGC", "ToMerge", "Obsolete"}

\* live_data_size_ is a uint64_t: what a cast of a negative number gives.  The
\* width is scaled down, far above any size of the model.
Unsigned(n) == IF n < 0 THEN n + 2^16 ELSE n

VARIABLES
    opts,      \* cf_options and the ID of the column family
    tables,    \* SST files of the current version
    running,   \* compactions that run: their input SSTs, which are being_compacted
    mem,       \* references GC wrote to the memtable
    written,   \* values written so far
    state,     \* state_ of each BlobFileMeta; "none": not in files_
    obsolete,  \* obsolete_files_: files deleted in the MANIFEST, to be purged
    live,      \* live_data_size_
    content,   \* the values in each blob file: their number is the size
    level,     \* file_level_
    nextFile,  \* next_file_number_
    events,    \* flushes and compactions whose listener call is still to come
    gcInputs,  \* inputs of the GC job that runs
    gcOutputs, \*   its outputs, once they are installed
    batch,     \*   rewrite_batches_: values still to be rewritten
    dropped,   \*   values whose rewrite came back Busy
    dpc,       \* DeleteFilesInRanges: where it is
    version,   \*   the SSTs of the version it took a reference to
    range,     \*   the values in the ranges
    props,     \*   references in the table properties it read
    gone,      \*   references in the SSTs the base DB deleted for it
    tag,       \* ghost: how live is known to be related to the SSTs
    failed,    \* ghost: files an assertion about live_data_size_ failed for
    jobs,      \* flushes and compactions so far
    others     \* GC jobs, calls of DeleteFilesInRanges and restarts so far

lsmVars == <<tables, running, mem, written>>
fileVars == <<state, obsolete, live, content, level, nextFile>>
gcVars == <<gcInputs, gcOutputs, batch, dropped>>
rangeVars == <<dpc, version, range, props, gone>>
countVars == <<jobs, others>>
vars == <<opts, lsmVars, fileVars, events, gcVars, rangeVars, tag, failed, countVars>>

Init ==
    /\ opts \in Options
    /\ tables = {} /\ running = {} /\ mem = {} /\ written = {} /\ obsolete = {}
    /\ state = [f \in File |-> "none"] /\ live = [f \in File |-> 0]
    /\ content = [f \in File |-> {}] /\ level = [f \in File |-> 0]
    /\ nextFile = 1 /\ events = {}
    /\ gcInputs = {} /\ gcOutputs = {} /\ batch = {} /\ dropped = {}
    /\ dpc = "idle" /\ version = {} /\ range = {} /\ props = {} /\ gone = {}
    /\ tag = [f \in File |-> "exact"] /\ failed = {}
    /\ jobs = 0 /\ others = 0

-----------------------------------------------------------------------------
(* Blob files and table properties.                                        *)

RefsOf(T) == UNION {t.refs : t \in T}
Values(R) == {r[1] : r \in R}
Files(R) == {r[2] : r \in R}

\* BlobFileSizeCollector: the size property of file f in SSTs with references R.
SizeIn(R, f) == Cardinality({r \in R : r[2] = f})

\* Mutant: the references in the outputs are not added.
SizeDiffInputs(e, f) == - SizeIn(e.input, f)

\* ExtractGCStatsFromTableProperty: outputs are added, inputs subtracted.
SizeDiff(e, f) == SizeIn(e.output, f) - SizeIn(e.input, f)

\* Being compacted: an input of a running compaction.
Busy == UNION running

\* GetDiscardableRatio() > blob_file_discardable_ratio, which is 1/2 (the
\* default), when the live size is n.
Discardable(f, n) ==
    LET size == Cardinality(content[f])
    IN size # 0 /\ 2 * (size - n) > size

\* FileManager::NewFile ... LogAndApply: a file with the values V is in files_.
AddBlobFile(V, lvl, st, n) ==
    IF V = {} THEN UNCHANGED fileVars
    ELSE /\ nextFile <= MaxFile /\ UNCHANGED obsolete
         /\ nextFile' = nextFile + 1
         /\ state' = [state EXCEPT ![nextFile] = st]
         /\ live' = [live EXCEPT ![nextFile] = n]
         /\ content' = [content EXCEPT ![nextFile] = V]
         /\ level' = [level EXCEPT ![nextFile] = lvl]

-----------------------------------------------------------------------------
(* Flush and compaction, up to where the base DB has installed the SSTs.   *)

\* A flush writes new values to a blob file; what GC wrote stays an index, M when
\* newer entries hide the rest.
Flush(V, M) ==
    LET refs == (V \X {nextFile}) \cup M
    IN /\ jobs < MaxJob /\ jobs' = jobs + 1
       /\ refs # {}
       /\ AddBlobFile(V, 0, "PendingLSM", 0)
       /\ written' = written \cup V
       /\ mem' = {}
       /\ tables' = tables \cup {[level |-> 0, refs |-> refs]}
       /\ events' = events \cup {[kind |-> "flush", level |-> 0, input |-> {},
                                  output |-> refs]}
       /\ UNCHANGED <<opts, running, gcVars, rangeVars, tag, failed, others>>

StartCompaction(I) ==
    /\ jobs < MaxJob /\ jobs' = jobs + 1
    /\ I # {} /\ I \cap Busy = {}
    /\ running' = running \cup {I}
    /\ UNCHANGED <<opts, tables, mem, written, fileVars, events, gcVars, rangeVars, tag,
                   failed, others>>

\* TitanTableBuilder::ShouldMerge, for the target level lvl.
ShouldMerge(f, lvl) ==
    opts.level_merge /\ state[f] # "none" /\ (level[f] < lvl \/ state[f] = "ToMerge")

\* A compaction keeps the references K of its inputs I; the others are overwritten
\* or deleted.  The values M go to a new blob file: those of files that should be
\* merged, unless they cannot be read.  The output is cut at some value.
FinishCompaction(I, K, M, lvl, cut) ==
    LET out == (K \ M) \cup (Values(M) \X {nextFile})
        O == {{r \in out : r[1] <= cut}, {r \in out : r[1] > cut}} \ {{}}
    IN /\ running' = running \ {I}
       /\ \A r \in M : ShouldMerge(r[2], lvl)
       /\ AddBlobFile(Values(M), lvl, "PendingLSM", 0)
       /\ tables' = (tables \ I) \cup {[level |-> lvl, refs |-> o] : o \in O}
       /\ events' = events \cup {[kind |-> "compaction", level |-> lvl,
                                  input |-> RefsOf(I), output |-> out]}
       /\ UNCHANGED <<opts, mem, written, gcVars, rangeVars, tag, failed, countVars>>

\* A flush (I is empty) or compaction fails after a blob file with the values V is
\* finished: no SST refers to it, and no listener call comes for it.
FailTable(I, V, lvl) ==
    /\ IF I = {} THEN jobs < MaxJob /\ jobs' = jobs + 1 ELSE UNCHANGED jobs
    /\ running' = running \ {I}
    /\ AddBlobFile(V, lvl, "PendingLSM", 0)
    /\ tag' = [f \in File |-> IF V # {} /\ f = nextFile THEN "orphan" ELSE tag[f]]
    /\ UNCHANGED <<opts, tables, mem, written, events, gcVars, rangeVars, failed, others>>

-----------------------------------------------------------------------------
(* The listener calls: OnFlushCompleted and OnCompactionCompleted.         *)

\* While a file is kPendingLSM its size holds what later compactions took away.
FlushedSize(e, f) == Unsigned(SizeIn(e.output, f) - live[f])

\* Mutant: the state of the files stays.
OnFlushCompletedSized(e) ==
    LET F == {f \in Files(e.output) : state[f] = "PendingLSM"}
    IN /\ e.kind = "flush"
       /\ live' = [f \in File |-> IF f \in F THEN FlushedSize(e, f) ELSE live[f]]
       /\ events' = events \ {e}
       /\ UNCHANGED <<opts, lsmVars, state, obsolete, content, level, nextFile, gcVars,
                      rangeVars, tag, failed, countVars>>

\* Files of a GC job and files that are gone are passed over.
OnFlushCompleted(e) ==
    LET F == {f \in Files(e.output) : state[f] = "PendingLSM"}
    IN /\ e.kind = "flush" /\ events' = events \ {e}
       /\ live' = [f \in File |-> IF f \in F THEN FlushedSize(e, f) ELSE live[f]]
       /\ state' = [f \in File |-> IF f \in F THEN "Normal" ELSE state[f]]
       /\ UNCHANGED <<opts, lsmVars, obsolete, content, level, nextFile, gcVars, rangeVars,
                      tag, failed, countVars>>

\* MarkFileIfNeedMerge: the sweep over the ends of the key ranges of the files C.
\* When it comes to the smallest key of g it holds the files that have started and
\* not ended; a largest key comes before an equal smallest key, so that a file of
\* one value never ends.
SortedRunsAt(C, g) ==
    {h \in C : /\ Min(content[h]) <= Min(content[g])
               /\ \/ Max(content[h]) > Min(content[g])
                  \/ Max(content[h]) = Min(content[h])}

NeedMerge(C) ==
    UNION {R \in {SortedRunsAt(C, g) : g \in C} : Cardinality(R) > opts.max_sorted_runs}

\* LogAndApply(edit) for the deleted files D.  The edit has no column family ID,
\* which stands for 0: another column family's files are not found there, and the
\* edit is refused.
Deleted(D) == IF opts.level_merge /\ opts.id = 0 THEN D ELSE {}

\* Mutant: the size of a file that is not complete yet goes down at once.
RecordedAtOnce(f, d) == Max({0, live[f] + d})

\* What UpdateLiveDataSize records for a later compaction of a kPendingLSM file.
Recorded(f, d) == live[f] - d

\* UpdateLiveDataSize
UpdateLiveDataSize(f, d) == Max({0, live[f] + d})
BelowZero(f, d) == live[f] + d < 0

OnCompactionCompleted(e) ==
    LET d(f) == SizeDiff(e, f)
        F == {f \in Files(e.input \cup e.output) : state[f] \notin {"none", "Obsolete"}}
        early == {f \in F : state[f] = "PendingLSM" /\ d(f) <= 0}
        ready == {f \in F : state[f] = "PendingLSM" /\ d(f) > 0}
        settled == {f \in F : state[f] \in {"Normal", "ToMerge"}}
        size == [f \in File |-> IF f \in early THEN Recorded(f, d(f))
                                ELSE IF f \in ready THEN Unsigned(d(f) - live[f])
                                ELSE IF f \in settled THEN UpdateLiveDataSize(f, d(f))
                                ELSE live[f]]
        empty == {f \in ready \cup settled : size[f] = 0}
        marked == {f \in settled \ empty : /\ opts.level_merge /\ level[f] >= NumLevels - 2
                                           /\ Discardable(f, size[f])}
        sorted == IF opts.level_merge /\ opts.range_merge /\ e.level = NumLevels - 1
                  THEN settled \ (empty \cup marked) ELSE {}
        toMerge == IF opts.level_merge THEN NeedMerge(ready \cup sorted) ELSE {}
        done == [f \in File |-> IF f \in Deleted(empty) THEN "Obsolete"
                                ELSE IF f \in ready THEN "Normal"
                                ELSE IF f \in marked THEN "ToMerge" ELSE state[f]]
    IN /\ e.kind = "compaction" /\ events' = events \ {e}
       /\ live' = size
       /\ state' = [f \in File |-> IF f \in toMerge THEN "ToMerge" ELSE done[f]]
       /\ obsolete' = obsolete \cup Deleted(empty)
       /\ failed' = failed \cup {f \in settled : d(f) > 0 \/ BelowZero(f, d(f))}
       /\ UNCHANGED <<opts, lsmVars, content, level, nextFile, gcVars, rangeVars, tag,
                      countVars>>

-----------------------------------------------------------------------------
(* DeleteFilesInRanges.                                                    *)

\* SSTs of T below level 0 that are within the values R, and not being compacted.
InRanges(T, R) ==
    {t \in T \ Busy : t.level > 0 /\ Values(t.refs) \subseteq R}

\* It takes a reference to the current version ...
TakeVersion(R) ==
    /\ dpc = "idle" /\ others < MaxOther /\ others' = others + 1
    /\ version' = tables /\ range' = R
    /\ dpc' = "version"
    /\ UNCHANGED <<opts, lsmVars, fileVars, events, gcVars, props, gone, tag, failed, jobs>>

\* ... reads the properties of SSTs of it, or returns when it cannot ...
ReadProperties ==
    /\ dpc = "version" /\ version' = {}
    /\ \/ /\ dpc' = "read"
          /\ props' = RefsOf(InRanges(version, range))
          /\ UNCHANGED range
       \/ dpc' = "idle" /\ range' = {} /\ UNCHANGED props
    /\ UNCHANGED <<opts, lsmVars, fileVars, events, gcVars, gone, tag, failed, countVars>>

\* ... the base DB deletes the SSTs of what is by then the current version, or
\* fails ...
DeleteTables ==
    /\ dpc = "read"
    /\ \/ /\ dpc' = "deleted"
          /\ gone' = RefsOf(InRanges(tables, range))
          /\ tables' = tables \ InRanges(tables, range)
          /\ UNCHANGED <<range, props>>
       \/ dpc' = "idle" /\ range' = {} /\ props' = {} /\ UNCHANGED <<gone, tables>>
    /\ UNCHANGED <<opts, running, mem, written, fileVars, events, gcVars, version, tag,
                   failed, countVars>>

\* ... and the size of every file that is not obsolete, whatever its state, goes
\* down by what it read first.
UpdateSizes ==
    LET d(f) == - SizeIn(props, f)
        F == {f \in Files(props) : state[f] \notin {"none", "Obsolete"}}
        size == [f \in File |-> IF f \in F THEN UpdateLiveDataSize(f, d(f)) ELSE live[f]]
        empty == {f \in F : size[f] = 0}
        marked == {f \in F \ empty : opts.level_merge /\ Discardable(f, size[f])}
        raced == {f \in Files(props \cup gone) :
                     \/ state[f] = "PendingLSM"
                     \/ \E v \in Value : (<<v, f>> \in props) # (<<v, f>> \in gone)}
    IN /\ dpc = "deleted" /\ dpc' = "idle"
       /\ range' = {} /\ props' = {} /\ gone' = {}
       /\ live' = size
       /\ state' = [f \in File |-> IF f \in Deleted(empty) THEN "Obsolete"
                                   ELSE IF f \in marked THEN "ToMerge" ELSE state[f]]
       /\ obsolete' = obsolete \cup Deleted(empty)
       /\ tag' = [f \in File |-> IF f \in raced /\ tag[f] # "gced" THEN "raced" ELSE tag[f]]
       /\ failed' = failed \cup {f \in F : BelowZero(f, d(f))}
       /\ UNCHANGED <<opts, lsmVars, content, level, nextFile, events, gcVars, version,
                      countVars>>

-----------------------------------------------------------------------------
(* GC and restart.                                                         *)

\* The values for which file f has a reference that may be current.
ValidIn(f) == Values({r \in RefsOf(tables) \cup mem : r[2] = f})

\* PickBlobGC and MarkFilesBeingGC.  What the scan that follows takes for valid is
\* among the values that are valid now: no reference to the file can come back.
GCBegin(f) ==
    /\ gcInputs = {} /\ state[f] = "Normal"
    /\ others < MaxOther /\ others' = others + 1
    /\ gcInputs' = {f} /\ batch' = ValidIn(f)
    /\ state' = [state EXCEPT ![f] = "BeingGC"]
    /\ tag' = [tag EXCEPT ![f] = IF @ = "exact" THEN "over" ELSE @]
    /\ UNCHANGED <<opts, lsmVars, obsolete, live, content, level, nextFile, events,
                   gcOutputs, dropped, rangeVars, failed, jobs>>

\* InstallOutputBlobFiles: the values W that the scan found valid are in a new file,
\* all of it live.
GCInstall(W) ==
    /\ gcInputs # {} /\ gcOutputs = {} /\ W # {} /\ nextFile <= MaxFile
    /\ AddBlobFile(W, 0, "PendingGC", Cardinality(W))
    /\ tag' = [tag EXCEPT ![nextFile] = "over"]
    /\ gcOutputs' = {nextFile} /\ batch' = W
    /\ UNCHANGED <<opts, lsmVars, events, gcInputs, dropped, rangeVars, failed, countVars>>

\* Mutant: a rewrite that succeeds is counted as dropped too.
RewriteKeyCounted(f, g, v) ==
    /\ batch' = batch \ {v} /\ dropped' = dropped \cup {v}
    /\ \/ v \in ValidIn(f) /\ mem' = mem \cup {<<v, g>>}
       \/ UNCHANGED mem
    /\ UNCHANGED <<opts, tables, running, written, fileVars, events, gcInputs, gcOutputs,
                   rangeVars, tag, failed, countVars>>

\* RewriteValidKeyToLSM, for one key: its new reference is in the memtable, or the
\* callback finds the key overwritten and the write is Busy.
RewriteKey(f, g, v) ==
    /\ batch' = batch \ {v}
    /\ \/ v \in ValidIn(f) /\ mem' = mem \cup {<<v, g>>} /\ UNCHANGED dropped
       \/ dropped' = dropped \cup {v} /\ UNCHANGED mem
    /\ UNCHANGED <<opts, tables, running, written, fileVars, events, gcInputs, gcOutputs,
                   rangeVars, tag, failed, countVars>>

\* Once all are written it subtracts what was dropped, whatever the file's state.
SubtractDropped(g) ==
    /\ batch = {} /\ dropped # {} /\ dropped' = {}
    /\ live' = [live EXCEPT ![g] = UpdateLiveDataSize(g, - Cardinality(dropped))]
    /\ UNCHANGED <<opts, lsmVars, state, obsolete, content, level, nextFile, events,
                   gcInputs, gcOutputs, batch, rangeVars, tag, failed, countVars>>

\* DeleteInputBlobFiles, and ReleaseGcFiles: kGCCompleted for inputs and outputs.
\* A job that fails, at any point, only does the latter.
GCEnd(f, ok) ==
    LET released == {g \in gcInputs \cup gcOutputs : state[g] # "Obsolete" /\ ~(ok /\ g = f)}
    IN /\ ok /\ gcOutputs # {} => batch = {} /\ dropped = {}
       /\ gcInputs' = {} /\ gcOutputs' = {} /\ batch' = {} /\ dropped' = {}
       /\ state' = [g \in File |-> IF ok /\ g = f THEN "Obsolete"
                                   ELSE IF g \in released THEN "Normal" ELSE state[g]]
       /\ obsolete' = obsolete \cup IF ok THEN {f} ELSE {}
       /\ tag' = [tag EXCEPT ![f] = IF ok THEN "gced" ELSE @]
       /\ UNCHANGED <<opts, lsmVars, live, content, level, nextFile, events, rangeVars,
                      failed, countVars>>

\* Close or a crash, and Open: InitializeGC flushes the memtable and sums up the
\* properties of all SSTs.  Listener calls that have not come yet never come.
Restart ==
    LET T == tables \cup IF mem = {} THEN {} ELSE {[level |-> 0, refs |-> mem]}
        F == {f \in File : state[f] # "none"} \ obsolete
    IN /\ others < MaxOther /\ others' = others + 1
       /\ tables' = T /\ mem' = {} /\ running' = {} /\ events' = {}
       /\ gcInputs' = {} /\ gcOutputs' = {} /\ batch' = {} /\ dropped' = {}
       /\ dpc' = "idle" /\ version' = {} /\ range' = {} /\ props' = {} /\ gone' = {}
       /\ live' = [f \in File |-> IF f \in F THEN SizeIn(RefsOf(T), f) ELSE 0]
       /\ state' = [f \in File |-> IF f \in F THEN "Normal" ELSE "none"]
       /\ tag' = [f \in File |-> IF f \in F THEN "exact" ELSE tag[f]]
       /\ failed' = {}
       /\ UNCHANGED <<opts, written, obsolete, content, level, nextFile, jobs>>

-----------------------------------------------------------------------------
Compact ==
    \E I \in running, lvl \in Level \ {0}, cut \in Value :
        \E K \in SUBSET RefsOf(I) : \E M \in SUBSET K : FinishCompaction(I, K, M, lvl, cut)

Listen == \E e \in events : OnFlushCompleted(e) \/ OnCompactionCompleted(e)

Next ==
    \/ \E V \in SUBSET (Value \ written), M \in SUBSET mem : Flush(V, M)
    \/ \E I \in SUBSET tables : StartCompaction(I)
    \/ Compact
    \/ \E V \in SUBSET (Value \ written) : FailTable({}, V, 0)
    \/ \E I \in running, lvl \in Level \ {0} :
           \E V \in SUBSET Values({r \in RefsOf(I) : ShouldMerge(r[2], lvl)}) :
               FailTable(I, V, lvl)
    \/ Listen
    \/ \E lo, hi \in Value : TakeVersion(lo .. hi)
    \/ ReadProperties
    \/ DeleteTables
    \/ UpdateSizes
    \/ \E f \in File : GCBegin(f)
    \/ \E W \in SUBSET batch : GCInstall(W)
    \/ \E f \in gcInputs, g \in gcOutputs, v \in batch : RewriteKey(f, g, v)
    \/ \E g \in gcOutputs : SubtractDropped(g)
    \/ \E f \in gcInputs, ok \in BOOLEAN : GCEnd(f, ok)
    \/ Restart

Spec == Init /\ [][Next]_vars

\* The base DB makes every listener call that is due.
FairSpec == Spec /\ WF_vars(Listen)

-----------------------------------------------------------------------------
(* Properties.                                                             *)

\* Types of the variables.  live_data_size_ has no bound here, for a file of which
\* DeleteFilesInRanges took too early is counted again.
TypeOK ==
    /\ opts \in Options /\ obsolete \subseteq File
    /\ tables \subseteq Table /\ version \subseteq Table /\ running \subseteq SUBSET tables
    /\ mem \subseteq Ref /\ written \subseteq Value
    /\ state \in [File -> FileState] /\ live \in [File -> Nat]
    /\ content \in [File -> SUBSET Value] /\ level \in [File -> Level]
    /\ nextFile \in 1 .. MaxFile + 1 /\ events \subseteq Event
    /\ gcInputs \subseteq File /\ gcOutputs \subseteq File
    /\ batch \subseteq Value /\ dropped \subseteq Value
    /\ dpc \in {"idle", "version", "read", "deleted"}
    /\ range \subseteq Value /\ props \subseteq Ref /\ gone \subseteq Ref
    /\ tag \in [File -> {"exact", "over", "gced", "raced", "orphan"}]
    /\ failed \subseteq File

\* References that are in no SST any more and still in live_data_size_: the listener
\* call or the last part of DeleteFilesInRanges is still to come.
Owed == (UNION {e.input \ e.output : e \in events}) \cup gone

Held(f) == Cardinality({r \in RefsOf(tables) \cup Owed : r[2] = f})

\* In whatever order the listener calls come, live_data_size_ is the size that SSTs
\* refer to plus what calls still to come will take away; while the file is
\* kPendingLSM it is what calls that came too early took away.  A file that GC has
\* picked or written may have more, never less.
LiveSizeTracks ==
    \A f \in File :
        /\ tag[f] = "exact" /\ state[f] \in {"Normal", "ToMerge"} => live[f] = Held(f)
        /\ tag[f] = "exact" /\ state[f] = "PendingLSM"
               => live[f] = Cardinality(content[f]) - Held(f)
        /\ tag[f] = "over" /\ state[f] # "Obsolete"
               => live[f] >= Cardinality({r \in RefsOf(tables) \cup mem : r[2] = f})

\* "Delete blob files which have no live data": no SST and no memtable refers to a
\* file that level merge deletes, unless DeleteFilesInRanges read properties that
\* were out of date or met a file its flush or compaction had not completed.
LiveFilesKept ==
    \A f \in obsolete : tag[f] \notin {"gced", "raced"}
                      => f \notin Files(RefsOf(tables) \cup mem)

\* The casts to uint64_t in OnFlushCompleted and OnCompactionCompleted never see a
\* negative number: of a file they complete, the calls that came before took away no
\* more than the call says the file has.
CastsSafe ==
    \A e \in events, f \in File :
        LET n == SizeIn(e.output, f) - SizeIn(e.input, f)
        IN state[f] = "PendingLSM" /\ n > 0 => live[f] <= n

\* What OnCompactionCompleted and DeleteFilesInRanges assert of live_data_size_ holds
\* in whatever order the calls come: no compaction makes a size grow, and none takes
\* away more than there is.  What FileStateTransit asserts of the state of a file
\* that is to be merged is not meant: that can fail.
SizeAssertsHold ==
    \A f \in failed : tag[f] \in {"raced", "gced"}

\* Every output of a flush or compaction leaves kPendingLSM, so that GC can pick it,
\* but for one whose table failed: no listener call comes for that.
OutputsSettle ==
    \A f \in File : (state[f] = "PendingLSM" /\ tag[f] # "orphan") ~> (state[f] # "PendingLSM")

\* LiveFilesKept with no exception.
NoLiveFileDeleted ==
    \A f \in obsolete : tag[f] # "gced" => f \notin Files(RefsOf(tables) \cup mem)
=============================================================================
