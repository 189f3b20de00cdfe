-------------------------- MODULE LiveDataSizeInv ---------------------------
(***************************************************************************)
(* Why live_data_size_ can be trusted: the inductive invariant of          *)
(* LiveDataSize.  A reference is in one place only, in an SST, in the      *)
(* memtable, still to be rewritten by a GC job, or on its way out (a       *)
(* listener call or the last part of DeleteFilesInRanges will subtract     *)
(* it), and once out it never comes back.  So every call moves a size by   *)
(* exactly what it moves from Owed.                                        *)
(***************************************************************************)
EXTENDS LiveDataSize

\* The references of R into file f.
On(R, f) == {r \in R : r[2] = f}

\* What the listener call for e takes away, and the files it has new references to.
Lost(e) == e.input \ e.output
Makes(e, f) == f \in Files(e.output \ e.input)

\* The record of r is in a file that was added, and whose table did not fail.
Known(r) == r[2] < nextFile /\ r[1] \in content[r[2]] /\ tag[r[2]] # "orphan"

\* References into the output of a GC job that it has still to write to the memtable,
\* or to subtract.
Due == (batch \cup dropped) \X gcOutputs

\* References that no SST has yet.
Unflushed == mem \cup Due

KnownInv ==
    /\ \A t \in tables \cup version : \A r \in t.refs : Known(r)
    /\ \A r \in Unflushed \cup gone \cup props : Known(r)
    /\ \A e \in events : \A r \in e.input \cup e.output : Known(r)

\* A reference is in one place.
ApartInv ==
    /\ \A t, u \in tables : t # u => t.refs \cap u.refs = {}
    /\ \A I, J \in running : I # J => I \cap J = {}
    /\ Unflushed \cap RefsOf(tables) = {}
    /\ gone \cap (RefsOf(tables) \cup Unflushed) = {}
    /\ \A e \in events : Lost(e) \cap (RefsOf(tables) \cup Unflushed \cup gone) = {}
    /\ \A e, d \in events : e # d => Lost(e) \cap Lost(d) = {}

\* A GC job has at most one output, and what it has still to rewrite it has neither
\* rewritten nor dropped.
JobInv ==
    /\ gcInputs = {} => gcOutputs = {}
    /\ gcOutputs = {} => dropped = {}
    /\ \A g, h \in gcOutputs : g = h
    /\ batch \cap dropped = {} /\ mem \cap Due = {}

\* A listener call says all of a new file, once, and before that the file is
\* kPendingLSM; of other files it says which references are gone.  Only a flush of
\* what GC wrote has files of which neither is true, and OnFlushCompleted passes
\* over them.
EventInv ==
    /\ \A e \in events : e.kind = "flush" => e.input = {}
    /\ \A e \in events, f \in File :
          Makes(e, f) =>
              \/ /\ On(e.input, f) = {} /\ On(e.output, f) = content[f] \X {f}
                 /\ state[f] = "PendingLSM" \/ tag[f] \in {"raced", "gced"}
              \/ e.kind = "flush" /\ state[f] # "PendingLSM"
    /\ \A e, d \in events, f \in File :
          Makes(e, f) /\ Makes(d, f) /\ state[f] = "PendingLSM" => e = d

\* What the tags say of the states, and that only files of GC are in the memtable.
FileOK(f) ==
    /\ f >= nextFile => state[f] = "none" /\ tag[f] = "exact" /\ f \notin obsolete \cup failed
    /\ f < nextFile /\ state[f] = "none" => f \in obsolete
    /\ tag[f] = "orphan" => state[f] = "PendingLSM" /\ live[f] = 0 /\ f \notin obsolete
    /\ tag[f] = "exact" => state[f] \notin {"PendingGC", "BeingGC"}
    /\ tag[f] = "over" => state[f] # "PendingLSM"
    /\ f \in gcInputs \cup gcOutputs => tag[f] \notin {"exact", "orphan"}

TagInv ==
    /\ \A f \in File : FileOK(f)
    /\ \A r \in Unflushed : tag[r[2]] # "exact" /\ state[r[2]] # "PendingLSM"
    /\ dpc # "deleted" => gone = {}

\* An upper bound on what anything refers to in file f.
Claimed(f) == SizeIn(RefsOf(tables) \cup Unflushed \cup Owed, f)

\* A size is what is in SSTs and what is owed; of a kPendingLSM file it is what was
\* taken away early, and at most the size of the file, so that no cast wraps.
SizeOK(f) ==
    /\ tag[f] = "exact" /\ state[f] \in {"Normal", "ToMerge"} => live[f] = Held(f)
    /\ tag[f] = "exact" /\ state[f] = "PendingLSM"
           => live[f] = Cardinality(content[f]) - Held(f)
    /\ tag[f] = "over" /\ state[f] # "Obsolete" => live[f] >= Claimed(f)
    /\ tag[f] # "orphan" /\ state[f] = "PendingLSM"
           => live[f] <= Cardinality(content[f]) - Held(f)

SizeInv == \A f \in File : SizeOK(f)

\* LiveFilesKept, and that no GC job has still to write a reference to such a file.
KeptInv ==
    \A f \in obsolete : tag[f] \notin {"gced", "raced"}
                      => f \notin Files(RefsOf(tables) \cup Unflushed)

\* The inductive invariant: from it follow LiveSizeTracks, LiveFilesKept,
\* CastsSafe and SizeAssertsHold.
LiveInv ==
    /\ TypeOK /\ KnownInv /\ ApartInv /\ JobInv /\ EventInv /\ TagInv
    /\ SizeInv /\ KeptInv /\ SizeAssertsHold
=============================================================================
