------------------------- MODULE LiveDataSizeSteps --------------------------
(***************************************************************************)
(* LiveInv of LiveDataSize: counting, sets of references, and the steps of *)
(* flushes and compactions up to where their SSTs are installed.           *)
(***************************************************************************)
EXTENDS LiveDataSizeInv, FiniteSetTheorems, TLAPS

-----------------------------------------------------------------------------
(* Counting.                                                               *)

\* SizeIn counts a finite set: no more than MaxValue values are in a file.
LEMMA SizeFinite ==
    ASSUME NEW R \in SUBSET Ref, NEW f
    PROVE  IsFiniteSet(On(R, f)) /\ SizeIn(R, f) = Cardinality(On(R, f))
           /\ SizeIn(R, f) \in Nat
<1>1. IsFiniteSet(Value) /\ IsFiniteSet(File)
    BY LimitAssumption, FS_Interval DEF Value, File
<1>2. IsFiniteSet(Ref)
    BY <1>1, FS_Product, Zenon DEF Ref
<1>3. On(R, f) \in SUBSET Ref
    BY Zenon DEF On
<1>4. IsFiniteSet(On(R, f))
    BY <1>2, <1>3, FS_Subset, Zenon
<1>5. SizeIn(R, f) = Cardinality(On(R, f))
    BY Zenon DEF SizeIn, On
<1> QED
    BY <1>4, <1>5, FS_CardinalityType, Zenon

\* Sets of references that agree on a file have the same size property of it.
LEMMA SizeSame ==
    ASSUME NEW R, NEW S, NEW f, On(R, f) = On(S, f)
    PROVE  SizeIn(R, f) = SizeIn(S, f)
BY Zenon DEF SizeIn, On

\* Fewer references give no larger size.
LEMMA SizeLess ==
    ASSUME NEW R \in SUBSET Ref, NEW S \in SUBSET Ref, NEW f, On(R, f) \subseteq On(S, f)
    PROVE  SizeIn(R, f) <= SizeIn(S, f)
BY SizeFinite, FS_Subset

\* Sizes of references that have nothing in common add up.
LEMMA SizeAdds ==
    ASSUME NEW R \in SUBSET Ref, NEW S \in SUBSET Ref, NEW f,
           On(R, f) \cap On(S, f) = {}
    PROVE  SizeIn(R \cup S, f) = SizeIn(R, f) + SizeIn(S, f)
<1>1. On(R \cup S, f) = On(R, f) \cup On(S, f)
    BY Zenon DEF On
<1>2. Cardinality(On(R, f) \cap On(S, f)) = 0
    BY FS_EmptySet, Zenon
<1>3. Cardinality(On(R, f) \cup On(S, f)) = Cardinality(On(R, f)) + Cardinality(On(S, f))
    BY <1>2, SizeFinite, FS_Union, FS_CardinalityType
<1>4. R \cup S \in SUBSET Ref
    BY Zenon
<1> QED
    BY <1>1, <1>3, <1>4, SizeFinite, Zenon

\* A size is zero only when there is no reference.
LEMMA SizeZero ==
    ASSUME NEW R \in SUBSET Ref, NEW f
    PROVE  SizeIn(R, f) = 0 <=> On(R, f) = {}
BY SizeFinite, FS_EmptySet, Zenon

\* A file all of whose values are referred to has its full size.
LEMMA SizeFull ==
    ASSUME NEW V \in SUBSET Value, NEW f \in File
    PROVE  /\ V \X {f} \in SUBSET Ref
           /\ On(V \X {f}, f) = V \X {f}
           /\ SizeIn(V \X {f}, f) = Cardinality(V)
           /\ Cardinality(V) \in Nat /\ IsFiniteSet(V)
<1>1. V \X {f} \in SUBSET Ref /\ On(V \X {f}, f) = V \X {f}
    <2>1. \A r \in V \X {f} : r[2] = f
        BY Zenon
    <2>2. V \X {f} \in SUBSET Ref
        BY Zenon DEF Ref
    <2> QED
        BY <2>1, <2>2, Zenon DEF On
<1>2. IsFiniteSet(V)
    <2>1. IsFiniteSet(Value)
        BY LimitAssumption, FS_Interval DEF Value
    <2> QED
        BY <2>1, FS_Subset, Zenon
<1>3. IsFiniteSet({f}) /\ Cardinality({f}) = 1
    BY FS_Singleton, Zenon
<1>4. Cardinality(V \X {f}) = Cardinality(V) * Cardinality({f})
    BY <1>2, <1>3, FS_Product, Zenon
<1>5. Cardinality(V) \in Nat
    BY <1>2, FS_CardinalityType, Zenon
<1>6. SizeIn(V \X {f}, f) = Cardinality(V \X {f})
    BY <1>1, SizeFinite, Zenon
<1>7. Cardinality(V) * Cardinality({f}) = Cardinality(V)
    BY <1>3, <1>5
<1>8. SizeIn(V \X {f}, f) = Cardinality(V)
    BY <1>4, <1>6, <1>7, Zenon
<1> QED
    BY <1>1, <1>2, <1>5, <1>8, Zenon

\* A file all of whose values are referred to counts all of its content.
LEMMA SizeWhole ==
    ASSUME NEW R, NEW V \in SUBSET Value, NEW f \in File, On(R, f) = V \X {f}
    PROVE  SizeIn(R, f) = Cardinality(V)
<1>1. On(V \X {f}, f) = V \X {f} /\ SizeIn(V \X {f}, f) = Cardinality(V)
    BY SizeFull, Zenon
<1> DEFINE S == V \X {f}
<1>2. On(S, f) = On(R, f)
    BY <1>1, Zenon
<1> HIDE DEF S
<1>3. SizeIn(R, f) = SizeIn(S, f)
    BY <1>2, Zenon DEF SizeIn, On
<1> QED
    BY <1>1, <1>3, Zenon DEF S

\* UpdateLiveDataSize holds a size at zero.
LEMMA MaxZero ==
    ASSUME NEW n \in Int
    PROVE  Max({0, n}) = IF n > 0 THEN n ELSE 0
<1>1. \E x \in {0, n} : \A y \in {0, n} : x >= y
    <2>1. CASE n > 0
        BY <2>1
    <2>2. CASE ~(n > 0)
        BY <2>2
    <2> QED
        BY <2>1, <2>2, Zenon
<1>2. PICK x \in {0, n} : x = Max({0, n}) /\ \A y \in {0, n} : x >= y
    BY <1>1, Zenon DEF Max
<1> QED
    BY <1>2

-----------------------------------------------------------------------------
(* Sets of references.                                                     *)

\* RefsOf has the references of all SSTs ...
LEMMA RefsIn ==
    ASSUME NEW T, NEW r
    PROVE  r \in RefsOf(T) <=> \E t \in T : r \in t.refs
BY Zenon DEF RefsOf

\* The references of a set of tables are references.
LEMMA RefsTyped ==
    ASSUME NEW T \in SUBSET Table
    PROVE  RefsOf(T) \in SUBSET Ref
BY RefsIn DEF Table

\* ... of one set of them and another ...
LEMMA RefsCup ==
    ASSUME NEW S, NEW T
    PROVE  RefsOf(S \cup T) = RefsOf(S) \cup RefsOf(T)
BY Zenon DEF RefsOf

\* ... and, when no reference is in two SSTs, of those that are left.
LEMMA RefsMinus ==
    ASSUME NEW T, NEW I \in SUBSET T,
           \A t, u \in T : t # u => t.refs \cap u.refs = {}
    PROVE  /\ RefsOf(T \ I) = RefsOf(T) \ RefsOf(I)
           /\ RefsOf(I) \subseteq RefsOf(T)
<1>1. \A r : r \in RefsOf(T \ I) <=> r \in RefsOf(T) \ RefsOf(I)
    <2> SUFFICES ASSUME NEW r
                 PROVE  r \in RefsOf(T \ I) <=> r \in RefsOf(T) \ RefsOf(I)
        BY Zenon
    <2>1. /\ r \in RefsOf(T \ I) <=> \E t \in T \ I : r \in t.refs
          /\ r \in RefsOf(T) <=> \E t \in T : r \in t.refs
          /\ r \in RefsOf(I) <=> \E t \in I : r \in t.refs
        BY RefsIn, Zenon
    <2>2. \A t, u \in T : r \in t.refs /\ r \in u.refs => t = u
        BY Zenon
    <2> QED
        BY <2>1, <2>2, Zenon
<1>2. \A r : r \in RefsOf(I) => r \in RefsOf(T)
    BY Zenon DEF RefsOf
<1> QED
    BY <1>1, <1>2, Zenon

\* One table has its own references, and no table has none.
LEMMA RefsOne ==
    ASSUME NEW t
    PROVE  RefsOf({t}) = t.refs /\ RefsOf({}) = {}
BY Zenon DEF RefsOf

\* SSTs that are made of the sets O have the references that are in O ...
LEMMA RefsMade ==
    ASSUME NEW T, NEW O,
           \A t \in T : t.refs \in O, \A o \in O : \E t \in T : t.refs = o
    PROVE  RefsOf(T) = UNION O
<1>1. \A r : r \in RefsOf(T) <=> \E t \in T : r \in t.refs
    BY RefsIn, Zenon
<1>2. \A r : r \in RefsOf(T) <=> r \in UNION O
    BY <1>1, Zenon
<1> QED
    BY <1>2, Zenon

\* ... and the two sets a compaction's output is cut into have all of it.
LEMMA RefsCut ==
    ASSUME NEW R \in SUBSET Ref, NEW cut \in Value
    PROVE  UNION ({{r \in R : r[1] <= cut}, {r \in R : r[1] > cut}} \ {{}}) = R
<1>1. \A r \in R : r[1] <= cut \/ r[1] > cut
    <2>1. \A r \in R : r[1] \in Int
        BY LimitAssumption DEF Ref, Value
    <2>2. cut \in Int
        BY DEF Value
    <2> QED
        BY <2>1, <2>2
<1> DEFINE A == {r \in R : r[1] <= cut}
           B == {r \in R : r[1] > cut}
<1>2. A \subseteq R /\ B \subseteq R /\ \A r \in R : r \in A \/ r \in B
    BY <1>1, Zenon
<1> HIDE DEF A, B
<1>3. UNION ({A, B} \ {{}}) = R
    BY <1>2, Zenon
<1> QED
    BY <1>3, Zenon DEF A, B

\* The sets of references of a state are sets of references, and sizes are numbers.
LEMMA Typed ==
    TypeOK =>
        /\ RefsOf(tables) \in SUBSET Ref /\ Unflushed \in SUBSET Ref /\ gone \in SUBSET Ref
        /\ Owed \in SUBSET Ref
        /\ \A e \in events : e.input \in SUBSET Ref /\ e.output \in SUBSET Ref
        /\ \A r : r \in Owed <=> r \in gone \/ \E e \in events : r \in Lost(e)
<1> SUFFICES ASSUME TypeOK
             PROVE  /\ RefsOf(tables) \in SUBSET Ref /\ Unflushed \in SUBSET Ref /\ gone \in SUBSET Ref
                    /\ Owed \in SUBSET Ref
                    /\ \A e \in events : e.input \in SUBSET Ref /\ e.output \in SUBSET Ref
                    /\ \A r : r \in Owed <=> r \in gone \/ \E e \in events : r \in Lost(e)
    BY Zenon
<1>1. RefsOf(tables) \in SUBSET Ref /\ Unflushed \in SUBSET Ref /\ gone \in SUBSET Ref
    <2>1. RefsOf(tables) \in SUBSET Ref /\ mem \in SUBSET Ref /\ gone \in SUBSET Ref
        BY RefsTyped, Zenon DEF TypeOK
    <2>2. Due \in SUBSET Ref
        BY Zenon DEF TypeOK, Due, Ref
    <2> QED
        BY <2>1, <2>2, Zenon DEF Unflushed
<1>2. \A e \in events : e.input \in SUBSET Ref /\ e.output \in SUBSET Ref
    BY Zenon DEF TypeOK, Event
<1>3. \A r : r \in Owed <=> r \in gone \/ \E e \in events : r \in Lost(e)
    BY Zenon DEF Owed, Lost
<1>4. Owed \in SUBSET Ref
    BY <1>1, <1>2, <1>3, Zenon DEF Lost
<1> QED
    BY <1>1, <1>2, <1>3, <1>4, Zenon

\* The same after a step that keeps the types.
LEMMA TypedNext ==
    TypeOK' =>
        /\ RefsOf(tables') \in SUBSET Ref /\ Owed' \in SUBSET Ref
        /\ Unflushed' \in SUBSET Ref
        /\ \A r : r \in Owed' <=> r \in gone' \/ \E e \in events' : r \in Lost(e)
<1>1. (TypeOK =>
        /\ RefsOf(tables) \in SUBSET Ref /\ Unflushed \in SUBSET Ref /\ gone \in SUBSET Ref
        /\ Owed \in SUBSET Ref
        /\ \A e \in events : e.input \in SUBSET Ref /\ e.output \in SUBSET Ref
        /\ \A r : r \in Owed <=> r \in gone \/ \E e \in events : r \in Lost(e))'
    BY Typed, PTL
<1> QED
    BY <1>1, Zenon

-----------------------------------------------------------------------------
(* Files.                                                                  *)

\* A file that is added changes no other file.
LEMMA AddFile ==
    ASSUME TypeOK, NEW V \in SUBSET Value, NEW lvl \in Level, NEW st \in FileState,
           NEW n \in Nat, AddBlobFile(V, lvl, st, n)
    PROVE  /\ obsolete' = obsolete
           /\ state' \in [File -> FileState] /\ live' \in [File -> Nat]
           /\ content' \in [File -> SUBSET Value] /\ level' \in [File -> Level]
           /\ nextFile' \in 1 .. MaxFile + 1 /\ nextFile' >= nextFile
           /\ \A f \in File : f # nextFile \/ V = {} =>
                 state'[f] = state[f] /\ live'[f] = live[f] /\ content'[f] = content[f]
           /\ V = {} => nextFile' = nextFile
           /\ V # {} => /\ nextFile \in File /\ nextFile' = nextFile + 1
                        /\ state'[nextFile] = st /\ live'[nextFile] = n
                        /\ content'[nextFile] = V
<1>1. /\ state \in [File -> FileState] /\ live \in [File -> Nat]
      /\ content \in [File -> SUBSET Value] /\ level \in [File -> Level]
      /\ nextFile \in 1 .. MaxFile + 1 /\ MaxFile \in Nat
    BY LimitAssumption, Zenon DEF TypeOK
<1>2. CASE V = {}
    BY <1>1, <1>2 DEF AddBlobFile, fileVars
<1>3. CASE V # {}
    <2>1. nextFile \in File
        BY <1>1, <1>3 DEF AddBlobFile, File
    <2> QED
        BY <1>1, <1>3, <2>1 DEF AddBlobFile
<1> QED
    BY <1>2, <1>3, Zenon

\* Files that were added stay, and none of them becomes an orphan.
Grows ==
    /\ nextFile \in Int /\ nextFile' \in Int /\ nextFile' >= nextFile
    /\ \A f \in File : f < nextFile =>
          content'[f] = content[f] /\ (tag'[f] = "orphan" => tag[f] = "orphan")

\* So a reference that is known stays known.
LEMMA StaysKnown ==
    ASSUME NEW r \in Ref, Known(r), Grows
    PROVE  Known(r)'
<1>1. r[2] \in File /\ r[2] \in Int
    BY LimitAssumption DEF Ref, File
<1> QED
    BY <1>1 DEF Known, Grows

\* What is said of a file stays true when the file stays.
LEMMA FileStays ==
    ASSUME NEW f \in File, FileOK(f),
           state'[f] = state[f], tag'[f] = tag[f], live'[f] = live[f],
           obsolete' = obsolete, failed' = failed,
           gcInputs' = gcInputs, gcOutputs' = gcOutputs,
           f >= nextFile' => f >= nextFile, f < nextFile' => f < nextFile
    PROVE  FileOK(f)'
BY Zenon DEF FileOK

\* ... and so do the sizes when the references do.
LEMMA SizeKept ==
    ASSUME NEW f \in File, SizeOK(f),
           state'[f] = state[f], tag'[f] = tag[f], live'[f] = live[f],
           content'[f] = content[f], Held(f)' = Held(f), Claimed(f)' = Claimed(f)
    PROVE  SizeOK(f)'
BY Zenon DEF SizeOK

\* The sizes of a file stay right when it and the references to it stay, or when
\* there are fewer.
LEMMA SizeStays ==
    ASSUME NEW f \in File, SizeOK(f),
           state'[f] = state[f], tag'[f] = tag[f], live'[f] = live[f],
           content'[f] = content[f],
           tag[f] = "exact" \/ state[f] = "PendingLSM" => Held(f)' = Held(f),
           live[f] \in Nat, Claimed(f) \in Nat, Claimed(f)' \in Nat,
           tag[f] = "over" => Claimed(f)' <= Claimed(f)
    PROVE  SizeOK(f)'
<1> QED
    BY DEF SizeOK

\* Nothing is held or claimed that is not a number.
LEMMA Counted ==
    ASSUME TypeOK, NEW f \in File
    PROVE  /\ Held(f) = SizeIn(RefsOf(tables) \cup Owed, f) /\ Held(f) \in Nat
           /\ Claimed(f) \in Nat /\ live[f] \in Nat
           /\ content[f] \in SUBSET Value /\ Cardinality(content[f]) \in Nat
<1>1. RefsOf(tables) \cup Owed \in SUBSET Ref /\ RefsOf(tables) \cup Unflushed \cup Owed \in SUBSET Ref
    BY Typed, Zenon
<1>2. Held(f) = SizeIn(RefsOf(tables) \cup Owed, f)
    BY Zenon DEF Held, SizeIn
<1>3. Held(f) \in Nat /\ Claimed(f) \in Nat
    BY <1>1, <1>2, SizeFinite, Zenon DEF Claimed
<1>4. live[f] \in Nat /\ content[f] \in SUBSET Value
    BY Zenon DEF TypeOK
<1> QED
    BY <1>2, <1>3, <1>4, SizeFull, Zenon

\* The same after a step that keeps the types.
LEMMA CountedNext ==
    ASSUME TypeOK', NEW f \in File
    PROVE  /\ Held(f)' = SizeIn(RefsOf(tables') \cup Owed', f) /\ Held(f)' \in Nat
           /\ Claimed(f)' \in Nat /\ live'[f] \in Nat
           /\ content'[f] \in SUBSET Value /\ Cardinality(content'[f]) \in Nat
<1>1. (TypeOK => /\ Held(f) = SizeIn(RefsOf(tables) \cup Owed, f) /\ Held(f) \in Nat
                /\ Claimed(f) \in Nat /\ live[f] \in Nat
                /\ content[f] \in SUBSET Value /\ Cardinality(content[f]) \in Nat)'
    BY Counted, PTL
<1> QED
    BY <1>1, Zenon

-----------------------------------------------------------------------------
(* Steps that change no reference and no file.                             *)

\* Where the memtable and the GC job stay, so do the references no SST has.
LEMMA JobStays ==
    ASSUME JobInv, mem' = mem, UNCHANGED gcVars
    PROVE  /\ JobInv' /\ Unflushed' = Unflushed
           /\ gcInputs' = gcInputs /\ gcOutputs' = gcOutputs
<1>1. gcInputs' = gcInputs /\ gcOutputs' = gcOutputs /\ batch' = batch /\ dropped' = dropped
    BY Zenon DEF gcVars
<1>2. Due' = Due
    BY <1>1, Zenon DEF Due
<1> QED
    BY <1>1, <1>2, Zenon DEF JobInv, Unflushed

\* A step that changes no reference, no file and no event keeps LiveInv: one may go
\* from the GC job to the memtable.
LEMMA QuietStep ==
    ASSUME LiveInv, TypeOK', JobInv', Unflushed' = Unflushed,
           UNCHANGED <<tables, fileVars, events, gcInputs, gcOutputs, gone, tag, failed>>,
           \A I, J \in running' : I # J => I \cap J = {},
           \A t \in version' : t \in tables \cup version,
           \A r \in props' : Known(r),
           dpc' # "deleted" => gone = {}
    PROVE  LiveInv'
<1>1. /\ tables' = tables /\ events' = events /\ gone' = gone /\ tag' = tag
      /\ failed' = failed /\ state' = state /\ obsolete' = obsolete /\ live' = live
      /\ content' = content /\ nextFile' = nextFile /\ gcInputs' = gcInputs
      /\ gcOutputs' = gcOutputs
    BY Zenon DEF fileVars
<1>2. Owed' = Owed
    BY <1>1, Zenon DEF Owed
<1>3. \A f : Held(f)' = Held(f) /\ Claimed(f)' = Claimed(f)
    BY <1>1, <1>2, Zenon DEF Held, Claimed
<1>4. KnownInv'
    BY <1>1, Zenon DEF LiveInv, KnownInv, Known
<1>5. ApartInv'
    BY <1>1, Zenon DEF LiveInv, ApartInv
<1>6. EventInv'
    BY <1>1, Zenon DEF LiveInv, EventInv
<1>7. TagInv'
    BY <1>1, Zenon DEF LiveInv, TagInv, FileOK
<1>8. SizeInv'
    BY <1>1, <1>3, Zenon DEF LiveInv, SizeInv, SizeOK
<1>9. KeptInv' /\ SizeAssertsHold'
    BY <1>1, Zenon DEF LiveInv, KeptInv, SizeAssertsHold
<1> QED
    BY <1>4, <1>5, <1>6, <1>7, <1>8, <1>9, Zenon DEF LiveInv

\* A compaction that starts picks tables no other compaction has, and changes nothing else.
LEMMA StartCompactionStep ==
    ASSUME LiveInv, NEW I \in SUBSET tables, StartCompaction(I)
    PROVE  LiveInv'
<1>1. TypeOK /\ ApartInv /\ JobInv /\ TagInv /\ KnownInv
    BY Zenon DEF LiveInv
<1>2. UNCHANGED <<opts, tables, mem, written, fileVars, events, gcVars, rangeVars, tag, failed>>
    BY Zenon DEF StartCompaction
<1>3. TypeOK'
    BY <1>1, <1>2, Zenon DEF StartCompaction, TypeOK, fileVars, gcVars, rangeVars
<1>4. \A J, K \in running' : J # K => J \cap K = {}
    BY <1>1 DEF StartCompaction, ApartInv, Busy
<1> QED
    BY <1>1, <1>2, <1>3, <1>4, JobStays, QuietStep, Zenon DEF rangeVars, TagInv, KnownInv

\* DeleteFilesInRanges takes the current version.
LEMMA TakeVersionStep ==
    ASSUME LiveInv, NEW R \in SUBSET Value, TakeVersion(R)
    PROVE  LiveInv'
<1>1. TypeOK /\ ApartInv /\ JobInv /\ TagInv /\ KnownInv
    BY Zenon DEF LiveInv
<1>2. TypeOK'
    BY <1>1, Zenon DEF TakeVersion, TypeOK, lsmVars, fileVars, gcVars
<1> QED
    BY <1>1, <1>2, JobStays, QuietStep, Zenon
    DEF TakeVersion, lsmVars, TagInv, ApartInv, KnownInv

\* DeleteFilesInRanges reads the properties of tables of that version, or gives up.
LEMMA ReadPropertiesStep ==
    ASSUME LiveInv, ReadProperties
    PROVE  LiveInv'
<1>1. TypeOK /\ ApartInv /\ JobInv /\ TagInv /\ KnownInv
    BY Zenon DEF LiveInv
<1>2. InRanges(version, range) \in SUBSET version
    BY Zenon DEF InRanges
<1>3. RefsOf(InRanges(version, range)) \in SUBSET Ref
    BY <1>1, <1>2, RefsTyped, Zenon DEF TypeOK
<1>4. \A r \in RefsOf(InRanges(version, range)) : Known(r)
    BY <1>1, <1>2, RefsIn, Zenon DEF KnownInv
<1>5. TypeOK'
    BY <1>1, <1>3, Zenon DEF ReadProperties, TypeOK, lsmVars, fileVars, gcVars
<1>6. \A r \in props' : Known(r)
    BY <1>1, <1>4, Zenon DEF ReadProperties, KnownInv
<1> QED
    BY <1>1, <1>5, <1>6, JobStays, QuietStep, Zenon
    DEF ReadProperties, lsmVars, TagInv, ApartInv

\* A step that changes nothing keeps LiveInv.
LEMMA StutterStep ==
    ASSUME LiveInv, UNCHANGED vars
    PROVE  LiveInv'
<1>1. TypeOK /\ ApartInv /\ JobInv /\ TagInv /\ KnownInv
    BY Zenon DEF LiveInv
<1>2. TypeOK'
    BY <1>1, Zenon DEF TypeOK, vars, lsmVars, fileVars, gcVars, rangeVars
<1> QED
    BY <1>1, <1>2, JobStays, QuietStep, Zenon
    DEF vars, lsmVars, rangeVars, TagInv, ApartInv, KnownInv

-----------------------------------------------------------------------------
(* Flush and compaction.                                                   *)

\* Nothing refers to a file that is not there yet.
LEMMA NotYet ==
    ASSUME TypeOK, KnownInv, NEW r, r[2] = nextFile
    PROVE  /\ r \notin RefsOf(tables) /\ r \notin Unflushed /\ r \notin gone /\ r \notin Owed
           /\ \A e \in events : r \notin e.input /\ r \notin e.output
<1>1. nextFile \in Int
    BY LimitAssumption DEF TypeOK
<1>2. ~Known(r)
    BY <1>1 DEF Known
<1>3. r \notin RefsOf(tables)
    BY <1>2, RefsIn, Zenon DEF KnownInv
<1>4. r \notin Unflushed /\ r \notin gone
    BY <1>2, Zenon DEF KnownInv
<1>5. \A e \in events : r \notin e.input /\ r \notin e.output
    BY <1>2, Zenon DEF KnownInv
<1> QED
    BY <1>3, <1>4, <1>5, Typed, Zenon DEF Lost

\* A flush installs its SST; the file it made is kPendingLSM until its call comes.
LEMMA FlushStep ==
    ASSUME LiveInv, NEW V \in SUBSET (Value \ written), NEW M \in SUBSET mem, Flush(V, M)
    PROVE  LiveInv'
<1> DEFINE n == nextFile
           new == V \X {n}
           refs == new \cup M
           t == [level |-> 0, refs |-> refs]
           e == [kind |-> "flush", level |-> 0, input |-> {}, output |-> refs]
<1>1. TypeOK /\ KnownInv /\ ApartInv /\ JobInv /\ EventInv /\ TagInv /\ SizeInv
      /\ KeptInv /\ SizeAssertsHold
    BY Zenon DEF LiveInv
<1>2. /\ AddBlobFile(V, 0, "PendingLSM", 0)
      /\ mem' = {} /\ tables' = tables \cup {t} /\ events' = events \cup {e}
      /\ written' = written \cup V
      /\ UNCHANGED <<opts, running, gcVars, rangeVars, tag, failed>>
    BY Zenon DEF Flush
<1>0. /\ M \subseteq Unflushed /\ Due \subseteq Unflushed /\ M \cap Due = {}
      /\ Unflushed' = Due /\ JobInv'
    <2>1. gcInputs' = gcInputs /\ gcOutputs' = gcOutputs /\ batch' = batch /\ dropped' = dropped
        BY <1>2, Zenon DEF gcVars
    <2>2. Due' = Due
        BY <2>1, Zenon DEF Due
    <2> QED
        BY <1>1, <1>2, <2>1, <2>2, Zenon DEF JobInv, Unflushed
<1>3. V \in SUBSET Value /\ 0 \in Level /\ "PendingLSM" \in FileState /\ 0 \in Nat
    BY OptionAssumption DEF Level, FileState
<1>4. /\ obsolete' = obsolete
      /\ state' \in [File -> FileState] /\ live' \in [File -> Nat]
      /\ content' \in [File -> SUBSET Value] /\ level' \in [File -> Level]
      /\ nextFile' \in 1 .. MaxFile + 1 /\ nextFile' >= n
      /\ \A f \in File : f # n \/ V = {} =>
            state'[f] = state[f] /\ live'[f] = live[f] /\ content'[f] = content[f]
      /\ V = {} => nextFile' = n
      /\ V # {} => /\ n \in File /\ nextFile' = n + 1
                   /\ state'[n] = "PendingLSM" /\ live'[n] = 0 /\ content'[n] = V
    BY <1>1, <1>2, <1>3, AddFile, Zenon
<1>5. /\ new \in SUBSET Ref /\ \A r \in new : r[2] = n /\ r[1] \in V /\ V # {}
      /\ refs \in SUBSET Ref
    BY <1>1, <1>3, <1>4, Zenon DEF Ref, TypeOK
<1>6. TypeOK'
    <2>1. t \in Table /\ e \in Event
        BY <1>3, <1>5, Zenon DEF Table, Event
    <2> HIDE DEF t, e
    <2> QED
        BY <1>1, <1>2, <1>3, <1>4, <2>1, Zenon DEF TypeOK, gcVars, rangeVars
<1>7. n \in Int /\ nextFile' \in Int /\ tag' = tag /\ MaxFile \in Nat
    BY <1>1, <1>2, <1>4, LimitAssumption DEF TypeOK
<1>8. Grows
    BY <1>4, <1>7 DEF Grows
<1>9. n \in File => tag[n] = "exact" /\ state[n] = "none" /\ n \notin obsolete \cup failed
    BY <1>1, <1>7 DEF TagInv, FileOK
<1>10. \A r \in refs : Known(r)'
    <2>1. \A r \in M : Known(r)'
        BY <1>0, <1>1, <1>5, <1>8, StaysKnown, Zenon DEF KnownInv
    <2>2. \A r \in new : Known(r)'
        BY <1>4, <1>5, <1>7, <1>9 DEF Known
    <2> QED
        BY <2>1, <2>2, Zenon
<1>11. KnownInv'
    <2>1. t.refs = refs /\ e.input = {} /\ e.output = refs
        BY Zenon
    <2>2. \A u \in tables \cup version : \A r \in u.refs : Known(r)'
        BY <1>1, <1>8, StaysKnown, Zenon DEF KnownInv, TypeOK, Table
    <2>3. \A r \in Due \cup gone \cup props : Known(r)'
        <3>1. \A r \in Due \cup gone \cup props : Known(r) /\ r \in Ref
            BY <1>0, <1>1, Typed, Zenon DEF KnownInv, TypeOK
        <3> QED
            BY <1>8, <3>1, StaysKnown, Zenon
    <2>4. \A d \in events : \A r \in d.input \cup d.output : Known(r)'
        BY <1>1, <1>8, StaysKnown, Typed, Zenon DEF KnownInv
    <2> HIDE DEF t, e, refs
    <2> QED
        BY <1>0, <1>2, <1>10, <2>1, <2>2, <2>3, <2>4, Zenon DEF KnownInv, rangeVars
<1>12. /\ \A r \in new : /\ r \notin RefsOf(tables) /\ r \notin Unflushed /\ r \notin gone
                         /\ r \notin Owed
                         /\ \A d \in events : r \notin d.input /\ r \notin d.output
    BY <1>1, <1>5, NotYet, Zenon
<1>13. Lost(e) = {} /\ RefsOf(tables') = RefsOf(tables) \cup refs /\ Owed' = Owed
    <2>1. Lost(e) = {}
        BY Zenon DEF Lost
    <2>2. RefsOf(tables') = RefsOf(tables) \cup refs
        <3>1. t.refs = refs
            BY Zenon
        <3> HIDE DEF t, refs
        <3>2. RefsOf({t}) = refs
            BY <3>1, RefsOne, Zenon
        <3> QED
            BY <1>2, <3>2, RefsCup, Zenon
    <2>3. \A r : r \in Owed' <=> r \in gone' \/ \E d \in events' : r \in Lost(d)
        BY <1>6, TypedNext, Zenon
    <2> HIDE DEF e
    <2>4. \A r : r \in Owed' <=> r \in Owed
        BY <1>1, <1>2, <2>1, <2>3, Typed, Zenon DEF rangeVars
    <2> QED
        BY <2>1, <2>2, <2>4, Zenon
<1>14. ApartInv'
    <2>0. /\ Unflushed \cap RefsOf(tables) = {} /\ Unflushed \cap gone = {}
          /\ \A d \in events : Lost(d) \cap Unflushed = {}
        <3>1. Unflushed \cap RefsOf(tables) = {} /\ gone \cap (RefsOf(tables) \cup Unflushed) = {}
            BY <1>1, Zenon DEF ApartInv
        <3>2. \A d \in events : Lost(d) \cap (RefsOf(tables) \cup Unflushed \cup gone) = {}
            BY <1>1, Zenon DEF ApartInv
        <3> QED
            BY <3>1, <3>2, Zenon
    <2>1. /\ refs \cap RefsOf(tables) = {} /\ refs \cap gone = {} /\ refs \cap Due = {}
          /\ \A d \in events : Lost(d) \cap refs = {}
        <3>1. /\ M \cap RefsOf(tables) = {} /\ M \cap gone = {}
              /\ \A d \in events : Lost(d) \cap M = {}
            BY <1>0, <2>0, Zenon
        <3> QED
            BY <1>0, <1>12, <3>1, Zenon DEF Lost
    <2>2. \A u \in tables : u.refs \cap refs = {}
        BY <2>1, RefsIn, Zenon
    <2>3. t.refs = refs
        BY Zenon
    <2> HIDE DEF t, e, refs
    <2>4. \A u, w \in tables' : u # w => u.refs \cap w.refs = {}
        BY <1>1, <1>2, <2>2, <2>3, Zenon DEF ApartInv
    <2>5. /\ \A d \in events' : Lost(d) \cap (RefsOf(tables') \cup gone) = {}
          /\ \A c, d \in events' : c # d => Lost(c) \cap Lost(d) = {}
        BY <1>1, <1>2, <1>13, <2>1, Zenon DEF ApartInv
    <2>6. gone \cap RefsOf(tables') = {} /\ Due \cap RefsOf(tables') = {}
        BY <1>0, <1>1, <1>13, <2>0, <2>1, Zenon DEF ApartInv
    <2>7. gone \cap Due = {} /\ \A d \in events' : Lost(d) \cap Due = {}
        BY <1>0, <1>2, <1>13, <2>0, Zenon
    <2>8. \A d \in events' : Lost(d) \cap (RefsOf(tables') \cup Due \cup gone) = {}
        BY <2>5, <2>7, Zenon
    <2>9. \A I1, J1 \in running : I1 # J1 => I1 \cap J1 = {}
        BY <1>1, Zenon DEF ApartInv
    <2>10. running' = running /\ gone' = gone /\ Unflushed' = Due
        BY <1>0, <1>2, Zenon DEF rangeVars
    <2> QED
        BY <2>4, <2>5, <2>6, <2>7, <2>8, <2>9, <2>10, Zenon DEF ApartInv
<1>15. \A d \in events, f \in File : Makes(d, f) => f # n
    BY <1>1, NotYet, Zenon DEF Makes, Files
<1>16. \A f \in File : Makes(e, f) =>
          \/ f = n /\ V # {}
          \/ f # n /\ state'[f] # "PendingLSM"
    <2>1. \A r \in M : r[2] # n /\ state[r[2]] # "PendingLSM" /\ r[2] \in File
        <3>1. \A r \in M : Known(r) /\ state[r[2]] # "PendingLSM" /\ r \in Ref
            BY <1>0, <1>1, Zenon DEF KnownInv, TagInv, TypeOK
        <3> QED
            BY <1>7, <3>1 DEF Known, Ref
    <2>2. \A f \in File : Makes(e, f) => \E r \in refs : r[2] = f
        BY Zenon DEF Makes, Files
    <2> HIDE DEF e
    <2> QED
        BY <1>4, <1>5, <2>1, <2>2
<1>17. V # {} => On(refs, n) = V \X {n}
    <2>1. \A r \in M : r[2] # n
        BY <1>0, <1>1, NotYet, Zenon
    <2>2. \A r \in new : r[2] = n
        BY <1>5, Zenon
    <2> QED
        BY <2>1, <2>2, Zenon DEF On
<1>18. EventInv'
    <2>1. e.kind = "flush" /\ e.input = {} /\ e.output = refs
        BY Zenon
    <2>2. \A d \in events, f \in File : Makes(d, f) =>
              state'[f] = state[f] /\ content'[f] = content[f] /\ tag'[f] = tag[f]
        BY <1>4, <1>7, <1>15, Zenon
    <2>3. On({}, n) = {}
        BY Zenon DEF On
    <2> HIDE DEF e, refs
    <2>4. \A d \in events' : d.kind = "flush" => d.input = {}
        BY <1>1, <1>2, <2>1, Zenon DEF EventInv
    <2>5. \A d \in events, f \in File : Makes(d, f) =>
              \/ /\ On(d.input, f) = {} /\ On(d.output, f) = content'[f] \X {f}
                 /\ state'[f] = "PendingLSM" \/ tag'[f] \in {"raced", "gced"}
              \/ d.kind = "flush" /\ state'[f] # "PendingLSM"
        BY <1>1, <2>2, Zenon DEF EventInv
    <2>6. \A f \in File : Makes(e, f) =>
              \/ /\ On(e.input, f) = {} /\ On(e.output, f) = content'[f] \X {f}
                 /\ state'[f] = "PendingLSM" \/ tag'[f] \in {"raced", "gced"}
              \/ e.kind = "flush" /\ state'[f] # "PendingLSM"
        BY <1>4, <1>16, <1>17, <2>1, <2>3, Zenon
    <2>7. \A c, d \in events', f \in File :
              Makes(c, f) /\ Makes(d, f) /\ state'[f] = "PendingLSM" => c = d
        <3>1. \A c, d \in events, f \in File :
                  Makes(c, f) /\ Makes(d, f) /\ state'[f] = "PendingLSM" => c = d
            BY <1>1, <2>2, Zenon DEF EventInv
        <3>2. \A d \in events, f \in File :
                  Makes(e, f) /\ Makes(d, f) => state'[f] # "PendingLSM"
            BY <1>15, <1>16, Zenon
        <3> QED
            BY <1>2, <3>1, <3>2
    <2> QED
        BY <1>2, <2>4, <2>5, <2>6, <2>7, Zenon DEF EventInv
<1>19. TagInv'
    <2>1. ASSUME NEW f \in File
          PROVE  FileOK(f)'
        <3>1. FileOK(f) /\ f \in Int
            BY <1>1 DEF TagInv, File
        <3>2. CASE f # n \/ V = {}
            <4>1. /\ state'[f] = state[f] /\ tag'[f] = tag[f] /\ live'[f] = live[f]
                  /\ obsolete' = obsolete /\ failed' = failed
                  /\ gcInputs' = gcInputs /\ gcOutputs' = gcOutputs
                BY <1>2, <1>4, <1>7, <3>2, Zenon DEF gcVars
            <4>2. (f < nextFile' => f < n) /\ (f >= nextFile' => f >= n)
                BY <1>4, <1>7, <3>1, <3>2
            <4> QED
                BY <3>1, <4>1, <4>2, FileStays, Zenon
        <3>3. CASE f = n /\ V # {}
            BY <1>2, <1>4, <1>7, <1>9, <3>1, <3>3 DEF FileOK, gcVars
        <3> QED
            BY <3>2, <3>3, Zenon
    <2>2. \A r \in Due : r[2] \in File /\ r[2] # n
        BY <1>0, <1>1, NotYet, Typed, Zenon DEF Ref
    <2>3. \A r \in Due : tag'[r[2]] # "exact" /\ state'[r[2]] # "PendingLSM"
        BY <1>0, <1>1, <1>4, <1>7, <2>2, Zenon DEF TagInv
    <2> QED
        BY <1>0, <1>1, <1>2, <2>1, <2>3, Zenon DEF TagInv, rangeVars
<1>20. SizeInv'
    <2> SUFFICES ASSUME NEW f \in File
                 PROVE  SizeOK(f)'
        BY Zenon DEF SizeInv
    <2>1. /\ RefsOf(tables) \in SUBSET Ref /\ Owed \in SUBSET Ref /\ Unflushed \in SUBSET Ref
          /\ SizeOK(f)
        BY <1>1, Typed, Zenon DEF SizeInv
    <2>2. /\ Held(f) = SizeIn(RefsOf(tables) \cup Owed, f)
          /\ Held(f)' = SizeIn(RefsOf(tables) \cup refs \cup Owed, f)
          /\ Claimed(f)' = SizeIn(RefsOf(tables) \cup refs \cup Due \cup Owed, f)
        BY <1>0, <1>1, <1>2, <1>6, <1>13, Counted, CountedNext, Zenon DEF Claimed
    <2>3. /\ live[f] \in Nat /\ Claimed(f) \in Nat /\ Claimed(f)' \in Nat
          /\ Cardinality(V) \in Nat
        BY <1>1, <1>3, <1>6, Counted, CountedNext, SizeFull, Zenon
    <2>4. CASE f # n \/ V = {}
        <3>1. On(new, f) = {}
            BY <1>5, <2>4, Zenon DEF On
        <3>2. ASSUME tag[f] = "exact" \/ state[f] = "PendingLSM"
              PROVE  Held(f)' = Held(f)
            <4>1. On(M, f) = {}
                BY <1>0, <1>1, <3>2, Zenon DEF TagInv, On
            <4>2. On(RefsOf(tables) \cup refs \cup Owed, f) = On(RefsOf(tables) \cup Owed, f)
                BY <3>1, <4>1, Zenon DEF On
            <4> QED
                BY <2>2, <4>2, SizeSame
        <3>3. Claimed(f)' <= Claimed(f)
            <4>1. On(RefsOf(tables) \cup refs \cup Due \cup Owed, f)
                      \subseteq On(RefsOf(tables) \cup Unflushed \cup Owed, f)
                BY <1>0, <3>1, Zenon DEF On
            <4> HIDE DEF refs
            <4> QED
                BY <1>0, <1>5, <2>1, <2>2, <4>1, SizeLess, Zenon DEF Claimed
        <3>4. state'[f] = state[f] /\ tag'[f] = tag[f] /\ live'[f] = live[f]
              /\ content'[f] = content[f]
            BY <1>4, <1>7, <2>4, Zenon
        <3> QED
            BY <2>1, <2>3, <3>2, <3>3, <3>4, SizeStays, Zenon
    <2>5. CASE f = n /\ V # {}
        <3>1. On(RefsOf(tables) \cup refs \cup Owed, n) = On(new, n)
            <4>1. \A r : r \in RefsOf(tables) \cup M \cup Owed => r[2] # n
                BY <1>0, <1>1, NotYet, Zenon
            <4> QED
                BY <4>1, Zenon DEF On
        <3>2. Held(f)' = Cardinality(V)
            BY <1>3, <2>2, <2>5, <3>1, SizeSame, SizeFull
        <3> QED
            BY <1>4, <1>7, <1>9, <2>3, <2>5, <3>2 DEF SizeOK
    <2> QED
        BY <2>4, <2>5, Zenon
<1>21. KeptInv' /\ SizeAssertsHold'
    <2>1. ASSUME NEW f \in obsolete, tag[f] \notin {"gced", "raced"}
          PROVE  f \notin Files(RefsOf(tables') \cup Due)
        <3>1. f \notin Files(RefsOf(tables) \cup Unflushed) /\ f # n
            BY <1>1, <1>9, <2>1, Zenon DEF KeptInv, TypeOK
        <3> QED
            BY <1>0, <1>5, <1>13, <3>1, Zenon DEF Files
    <2> QED
        BY <1>0, <1>1, <1>2, <1>4, <2>1, Zenon DEF KeptInv, SizeAssertsHold
<1> QED
    BY <1>0, <1>6, <1>11, <1>14, <1>18, <1>19, <1>20, <1>21, Zenon DEF LiveInv

\* A compaction replaces its inputs: what they lose is owed until its call comes, and a new
\* file waits for that call as kPendingLSM.
LEMMA FinishCompactionStep ==
    ASSUME LiveInv, NEW I \in running, NEW lvl \in Level, NEW cut \in Value,
           NEW K \in SUBSET RefsOf(I), NEW M \in SUBSET K,
           FinishCompaction(I, K, M, lvl, cut)
    PROVE  LiveInv'
<1> DEFINE n == nextFile
           L == RefsOf(tables)
           in == RefsOf(I)
           W == Values(M)
           new == W \X {n}
           out == (K \ M) \cup new
           O == {{r \in out : r[1] <= cut}, {r \in out : r[1] > cut}} \ {{}}
           S == {[level |-> lvl, refs |-> o] : o \in O}
           e == [kind |-> "compaction", level |-> lvl, input |-> in, output |-> out]
<1>1. TypeOK /\ KnownInv /\ ApartInv /\ JobInv /\ EventInv /\ TagInv /\ SizeInv
      /\ KeptInv /\ SizeAssertsHold
    BY Zenon DEF LiveInv
<1>2. /\ AddBlobFile(W, lvl, "PendingLSM", 0)
      /\ running' = running \ {I}
      /\ tables' = (tables \ I) \cup S /\ events' = events \cup {e}
      /\ UNCHANGED <<opts, mem, written, gcVars, rangeVars, tag, failed>>
    BY Zenon DEF FinishCompaction
<1>0. JobInv' /\ Unflushed' = Unflushed /\ gcInputs' = gcInputs /\ gcOutputs' = gcOutputs
    BY <1>1, <1>2, JobStays, Zenon
<1>3. /\ L \in SUBSET Ref /\ in \in SUBSET L /\ I \in SUBSET tables
      /\ RefsOf(tables \ I) = L \ in
    BY <1>1, Typed, RefsMinus, Zenon DEF TypeOK, ApartInv
<1>4. W \in SUBSET Value /\ "PendingLSM" \in FileState /\ 0 \in Nat
    <2>1. \A r \in M : r \in Ref
        BY <1>3, Zenon
    <2> QED
        BY <2>1, Zenon DEF Values, Ref, FileState
<1> HIDE DEF W
<1>5. /\ obsolete' = obsolete
      /\ state' \in [File -> FileState] /\ live' \in [File -> Nat]
      /\ content' \in [File -> SUBSET Value] /\ level' \in [File -> Level]
      /\ nextFile' \in 1 .. MaxFile + 1 /\ nextFile' >= n
      /\ \A f \in File : f # n \/ W = {} =>
            state'[f] = state[f] /\ live'[f] = live[f] /\ content'[f] = content[f]
      /\ W = {} => nextFile' = n
      /\ W # {} => /\ n \in File /\ nextFile' = n + 1
                   /\ state'[n] = "PendingLSM" /\ live'[n] = 0 /\ content'[n] = W
    BY <1>1, <1>2, <1>4, AddFile, Zenon
<1>6. /\ new \in SUBSET Ref /\ \A r \in new : r[2] = n /\ r[1] \in W /\ W # {}
    BY <1>4, <1>5, Zenon DEF Ref
<1>7. \A r \in new : /\ r \notin L /\ r \notin Unflushed /\ r \notin gone /\ r \notin Owed
                     /\ \A d \in events : r \notin d.input /\ r \notin d.output
    BY <1>1, <1>6, NotYet, Zenon
<1>8. out \in SUBSET Ref /\ out \subseteq L \cup new /\ out \subseteq in \cup new
    BY <1>3, <1>6, Zenon
<1>9. RefsOf(S) = out
    <2>1. out \in SUBSET Ref
        BY <1>8, Zenon
    <2>2. UNION O = out
        <3> HIDE DEF out
        <3> QED
            BY <2>1, RefsCut, Zenon
    <2> HIDE DEF O, out
    <2>3. \A t \in S : t.refs \in O
        OBVIOUS
    <2>4. \A o \in O : \E t \in S : t.refs = o
        <3> TAKE o \in O
        <3> WITNESS [level |-> lvl, refs |-> o] \in S
        <3> QED
            BY Zenon
    <2> HIDE DEF S
    <2> QED
        BY <2>2, <2>3, <2>4, RefsMade, Zenon
<1>10. S \in SUBSET Table /\ \A u \in S : u.refs \subseteq out
    BY <1>8 DEF Table
<1>11. \A u, w \in S : u # w => u.refs \cap w.refs = {}
    <2>1. \A r \in out : r[1] \in Int
        BY <1>8 DEF Ref, Value
    <2>2. cut \in Int
        BY DEF Value
    <2> HIDE DEF out
    <2>3. {r \in out : r[1] <= cut} \cap {r \in out : r[1] > cut} = {}
        BY <2>1, <2>2
    <2>4. \A o, p \in O : o # p => o \cap p = {}
        BY <2>3, Zenon
    <2> HIDE DEF O
    <2> QED
        BY <2>4
<1>12. e \in Event /\ e.kind = "compaction" /\ e.input = in /\ e.output = out
    BY <1>3, <1>8, Zenon DEF Event
<1> HIDE DEF S, O, e, new
<1>13. /\ RefsOf(tables') = (L \ in) \cup out
       /\ RefsOf(tables') \subseteq L \cup new
    <2>1. RefsOf(tables') = (L \ in) \cup out
        BY <1>2, <1>3, <1>9, RefsCup
    <2> QED
        BY <1>3, <1>8, <2>1, Zenon
<1>14. TypeOK'
    <2>1. running' \subseteq SUBSET tables'
        BY <1>1, <1>2, Zenon DEF TypeOK, ApartInv
    <2> QED
        BY <1>1, <1>2, <1>5, <1>10, <1>12, <2>1, Zenon DEF TypeOK, gcVars, rangeVars
<1>15. n \in Int /\ nextFile' \in Int /\ tag' = tag /\ MaxFile \in Nat
    BY <1>1, <1>2, <1>5, LimitAssumption DEF TypeOK
<1>16. Grows
    BY <1>5, <1>15 DEF Grows
<1>17. n \in File => tag[n] = "exact" /\ state[n] = "none" /\ n \notin obsolete \cup failed
    BY <1>1, <1>15 DEF TagInv, FileOK
<1>18. \A r \in L \cup new : Known(r)'
    <2>1. \A r \in L : Known(r)'
        BY <1>1, <1>3, <1>16, StaysKnown, RefsIn, Zenon DEF KnownInv
    <2>2. \A r \in new : Known(r)'
        BY <1>5, <1>6, <1>15, <1>17 DEF Known
    <2> QED
        BY <2>1, <2>2, Zenon
<1>19. KnownInv'
    <2>1. \A u \in tables \cup version : \A r \in u.refs : Known(r)'
        BY <1>1, <1>16, StaysKnown, Zenon DEF KnownInv, TypeOK, Table
    <2>2. \A r \in Unflushed \cup gone \cup props : Known(r)'
        <3>1. \A r \in Unflushed \cup gone \cup props : Known(r) /\ r \in Ref
            BY <1>1, Typed, Zenon DEF KnownInv, TypeOK
        <3> QED
            BY <1>16, <3>1, StaysKnown, Zenon
    <2>3. \A d \in events : \A r \in d.input \cup d.output : Known(r)'
        BY <1>1, <1>16, StaysKnown, Typed, Zenon DEF KnownInv
    <2>4. \A r \in out \cup in : Known(r)'
        BY <1>3, <1>8, <1>18, Zenon
    <2>5. \A u \in S : \A r \in u.refs : Known(r)'
        BY <1>10, <2>4, Zenon
    <2> HIDE DEF out, in
    <2> QED
        BY <1>0, <1>2, <1>12, <2>1, <2>2, <2>3, <2>4, <2>5, Zenon DEF KnownInv, rangeVars
<1>20. Lost(e) = in \ out
    BY <1>12, Zenon DEF Lost
<1>21. \A r : r \in Owed' <=> r \in Owed \/ r \in in \ out
    <2>1. \A r : r \in Owed' <=> r \in gone' \/ \E d \in events' : r \in Lost(d)
        BY <1>14, TypedNext, Zenon
    <2> HIDE DEF out, in
    <2> QED
        BY <1>1, <1>2, <1>20, <2>1, Typed, Zenon DEF rangeVars
<1>22. ApartInv'
    <2>1. \A u \in tables \ I : u.refs \cap out = {}
        <3>1. \A u \in tables \ I : u.refs \cap in = {}
            BY <1>3, RefsIn, Zenon
        <3>2. \A u \in tables : u.refs \cap new = {}
            BY <1>7, RefsIn, Zenon
        <3> QED
            BY <1>8, <3>1, <3>2, Zenon
    <2>2. \A u, w \in tables' : u # w => u.refs \cap w.refs = {}
        <3> HIDE DEF out
        <3> QED
            BY <1>1, <1>2, <1>10, <1>11, <2>1 DEF ApartInv
    <2>3. (Unflushed \cup gone) \cap (L \cup new) = {} /\ gone \cap Unflushed = {}
        BY <1>1, <1>7, Zenon DEF ApartInv
    <2>4. \A d \in events : Lost(d) \cap (L \cup new \cup Unflushed \cup gone) = {}
        BY <1>1, <1>7, Zenon DEF ApartInv, Lost
    <2>5. Lost(e) \cap (RefsOf(tables') \cup Unflushed \cup gone) = {} /\ Lost(e) \subseteq L
        BY <1>3, <1>13, <1>20, <2>3, Zenon
    <2>6. \A I1, J1 \in running' : I1 # J1 => I1 \cap J1 = {}
        BY <1>1, <1>2, Zenon DEF ApartInv
    <2>7. \A d \in events' : Lost(d) \cap (RefsOf(tables') \cup Unflushed \cup gone) = {}
        BY <1>2, <1>13, <2>4, <2>5, Zenon
    <2>8. \A c, d \in events' : c # d => Lost(c) \cap Lost(d) = {}
        <3>1. \A c, d \in events : c # d => Lost(c) \cap Lost(d) = {}
            BY <1>1, Zenon DEF ApartInv
        <3>2. \A d \in events : Lost(d) \cap Lost(e) = {} /\ Lost(e) \cap Lost(d) = {}
            BY <2>4, <2>5, Zenon
        <3> QED
            BY <1>2, <3>1, <3>2, Zenon
    <2>9. /\ Unflushed' = Unflushed /\ gone' = gone
          /\ Unflushed \cap gone = {} /\ Unflushed \cap RefsOf(tables') = {} /\ gone \cap RefsOf(tables') = {}
        BY <1>0, <1>2, <1>13, <2>3, Zenon DEF rangeVars
    <2> QED
        BY <2>2, <2>6, <2>7, <2>8, <2>9, Zenon DEF ApartInv
<1>23. \A d \in events, f \in File : Makes(d, f) => f # n
    BY <1>1, NotYet, Zenon DEF Makes, Files
<1>24. \A f \in File : Makes(e, f) => f = n /\ W # {}
    BY <1>6, <1>8, <1>12, Zenon DEF Makes, Files
<1>25. W # {} => On(in, n) = {} /\ On(out, n) = W \X {n}
    <2>1. \A r : r \in L => r[2] # n
        BY <1>1, NotYet, Zenon
    <2>2. On(in, n) = {}
        BY <1>3, <2>1, Zenon DEF On
    <2>3. On(out, n) = On(new, n)
        BY <1>3, <1>8, <2>1, Zenon DEF On
    <2>4. W # {} => On(new, n) = W \X {n}
        BY <1>4, <1>5, SizeFull, Zenon DEF new
    <2> QED
        BY <2>2, <2>3, <2>4, Zenon
<1>26. EventInv'
    <2>1. \A d \in events, f \in File : Makes(d, f) =>
              state'[f] = state[f] /\ content'[f] = content[f] /\ tag'[f] = tag[f]
        BY <1>5, <1>15, <1>23, Zenon
    <2>2. \A d \in events' : d.kind = "flush" => d.input = {}
        BY <1>1, <1>2, <1>12, Zenon DEF EventInv
    <2>3. \A d \in events, f \in File : Makes(d, f) =>
              \/ /\ On(d.input, f) = {} /\ On(d.output, f) = content'[f] \X {f}
                 /\ state'[f] = "PendingLSM" \/ tag'[f] \in {"raced", "gced"}
              \/ d.kind = "flush" /\ state'[f] # "PendingLSM"
        BY <1>1, <2>1, Zenon DEF EventInv
    <2>4. \A f \in File : Makes(e, f) =>
              /\ On(e.input, f) = {} /\ On(e.output, f) = content'[f] \X {f}
              /\ state'[f] = "PendingLSM"
        BY <1>5, <1>12, <1>24, <1>25, Zenon
    <2>5. \A c, d \in events', f \in File :
              Makes(c, f) /\ Makes(d, f) /\ state'[f] = "PendingLSM" => c = d
        <3>1. \A c, d \in events, f \in File :
                  Makes(c, f) /\ Makes(d, f) /\ state'[f] = "PendingLSM" => c = d
            BY <1>1, <2>1, Zenon DEF EventInv
        <3> QED
            BY <1>2, <1>23, <1>24, <3>1
    <2> QED
        BY <1>2, <2>2, <2>3, <2>4, <2>5, Zenon DEF EventInv
<1>27. TagInv'
    <2>1. ASSUME NEW f \in File
          PROVE  FileOK(f)'
        <3>1. FileOK(f) /\ f \in Int
            BY <1>1 DEF TagInv, File
        <3>2. CASE f # n \/ W = {}
            <4>1. /\ state'[f] = state[f] /\ tag'[f] = tag[f] /\ live'[f] = live[f]
                  /\ obsolete' = obsolete /\ failed' = failed
                  /\ gcInputs' = gcInputs /\ gcOutputs' = gcOutputs
                BY <1>0, <1>2, <1>5, <1>15, <3>2, Zenon
            <4>2. (f < nextFile' => f < n) /\ (f >= nextFile' => f >= n)
                BY <1>5, <1>15, <3>1, <3>2
            <4> QED
                BY <3>1, <4>1, <4>2, FileStays, Zenon
        <3>3. CASE f = n /\ W # {}
            <4>1. ~(f >= nextFile')
                BY <1>5, <1>15, <3>3
            <4>2. /\ state'[f] = "PendingLSM" /\ tag'[f] = tag[f] /\ tag[f] = "exact"
                  /\ gcInputs' = gcInputs /\ gcOutputs' = gcOutputs
                BY <1>0, <1>2, <1>5, <1>15, <1>17, <3>3, Zenon
            <4> QED
                BY <3>1, <4>1, <4>2, Zenon DEF FileOK
        <3> QED
            BY <3>2, <3>3, Zenon
    <2>2. \A r \in Unflushed : r[2] \in File /\ r[2] # n
        BY <1>1, NotYet, Typed, Zenon DEF Ref
    <2>3. \A r \in Unflushed : state'[r[2]] = state[r[2]]
        BY <1>5, <2>2, Zenon
    <2> QED
        BY <1>0, <1>1, <1>2, <2>1, <2>3, Zenon DEF TagInv, rangeVars
<1>28. SizeInv'
    <2> SUFFICES ASSUME NEW f \in File
                 PROVE  SizeOK(f)'
        BY Zenon DEF SizeInv
    <2>1. Owed \in SUBSET Ref /\ Unflushed \in SUBSET Ref /\ SizeOK(f)
        BY <1>1, Typed, Zenon DEF SizeInv
    <2>2. RefsOf(tables') \cup Owed' = L \cup new \cup Owed
        BY <1>3, <1>13, <1>21, Zenon
    <2>3. RefsOf(tables') \cup Unflushed' \cup Owed' = L \cup new \cup Unflushed \cup Owed
        BY <1>0, <2>2, Zenon
    <2>4. /\ Held(f) = SizeIn(L \cup Owed, f)
          /\ Held(f)' = SizeIn(L \cup new \cup Owed, f)
          /\ Claimed(f) = SizeIn(L \cup Unflushed \cup Owed, f)
          /\ Claimed(f)' = SizeIn(L \cup new \cup Unflushed \cup Owed, f)
        BY <1>1, <1>14, <2>2, <2>3, Counted, CountedNext, Zenon DEF Claimed
    <2>5. /\ live[f] \in Nat /\ Claimed(f) \in Nat /\ Claimed(f)' \in Nat
          /\ Cardinality(W) \in Nat
        BY <1>1, <1>4, <1>14, Counted, CountedNext, SizeFull, Zenon
    <2>6. CASE f # n \/ W = {}
        <3>1. On(new, f) = {}
            BY <1>6, <2>6, Zenon DEF On
        <3>2. /\ On(L \cup new \cup Owed, f) = On(L \cup Owed, f)
              /\ On(L \cup new \cup Unflushed \cup Owed, f) = On(L \cup Unflushed \cup Owed, f)
            BY <3>1, Zenon DEF On
        <3>3. Held(f)' = Held(f) /\ Claimed(f)' = Claimed(f)
            BY <2>4, <3>2, SizeSame
        <3>4. state'[f] = state[f] /\ tag'[f] = tag[f] /\ live'[f] = live[f]
              /\ content'[f] = content[f]
            BY <1>5, <1>15, <2>6, Zenon
        <3> QED
            BY <2>1, <3>3, <3>4, SizeKept, Zenon
    <2>7. CASE f = n /\ W # {}
        <3>1. \A r : r \in L \cup Owed => r[2] # n
            BY <1>1, NotYet, Zenon
        <3>2. On(L \cup new \cup Owed, n) = On(new, n)
            BY <3>1, Zenon DEF On
        <3>3. SizeIn(new, f) = Cardinality(W)
            BY <1>4, <2>7, SizeFull, Zenon DEF new
        <3>4. Held(f)' = Cardinality(W)
            BY <2>4, <2>7, <3>2, <3>3, SizeSame
        <3> QED
            BY <1>5, <1>15, <1>17, <2>5, <2>7, <3>4 DEF SizeOK
    <2> QED
        BY <2>6, <2>7, Zenon
<1>29. KeptInv' /\ SizeAssertsHold'
    <2>1. ASSUME NEW f \in obsolete, tag[f] \notin {"gced", "raced"}
          PROVE  f \notin Files(RefsOf(tables') \cup Unflushed)
        <3>1. f \notin Files(L \cup Unflushed) /\ f # n
            BY <1>1, <1>17, <2>1, Zenon DEF KeptInv, TypeOK
        <3> QED
            BY <1>6, <1>13, <3>1, Zenon DEF Files
    <2> QED
        BY <1>0, <1>1, <1>2, <1>5, <2>1, Zenon DEF KeptInv, SizeAssertsHold
<1> QED
    BY <1>0, <1>14, <1>19, <1>22, <1>26, <1>27, <1>28, <1>29, Zenon DEF LiveInv

\* A flush or compaction that fails leaves an orphan to which nothing refers.
LEMMA FailTableStep ==
    ASSUME LiveInv, NEW I, NEW V \in SUBSET Value, NEW lvl \in Level, FailTable(I, V, lvl)
    PROVE  LiveInv'
<1> DEFINE n == nextFile
<1>1. TypeOK /\ KnownInv /\ ApartInv /\ JobInv /\ EventInv /\ TagInv /\ SizeInv
      /\ KeptInv /\ SizeAssertsHold
    BY Zenon DEF LiveInv
<1>2. /\ AddBlobFile(V, lvl, "PendingLSM", 0)
      /\ running' = running \ {I}
      /\ tag' = [f \in File |-> IF V # {} /\ f = n THEN "orphan" ELSE tag[f]]
      /\ UNCHANGED <<opts, tables, mem, written, events, gcVars, rangeVars, failed>>
    BY Zenon DEF FailTable
<1>0. JobInv' /\ Unflushed' = Unflushed /\ gcInputs' = gcInputs /\ gcOutputs' = gcOutputs
    BY <1>1, <1>2, JobStays, Zenon
<1>3. "PendingLSM" \in FileState /\ 0 \in Nat
    BY Zenon DEF FileState
<1>4. /\ obsolete' = obsolete
      /\ state' \in [File -> FileState] /\ live' \in [File -> Nat]
      /\ content' \in [File -> SUBSET Value] /\ level' \in [File -> Level]
      /\ nextFile' \in 1 .. MaxFile + 1 /\ nextFile' >= n
      /\ \A f \in File : f # n \/ V = {} =>
            state'[f] = state[f] /\ live'[f] = live[f] /\ content'[f] = content[f]
      /\ V = {} => nextFile' = n
      /\ V # {} => /\ n \in File /\ nextFile' = n + 1
                   /\ state'[n] = "PendingLSM" /\ live'[n] = 0 /\ content'[n] = V
    BY <1>1, <1>2, <1>3, AddFile, Zenon
<1>5. /\ n \in Int /\ nextFile' \in Int
      /\ \A f \in File : f # n \/ V = {} => tag'[f] = tag[f]
      /\ V # {} => tag'[n] = "orphan"
    BY <1>1, <1>2, <1>4, LimitAssumption DEF TypeOK
<1>6. TypeOK'
    <2>1. running' \subseteq SUBSET tables'
        BY <1>1, <1>2, Zenon DEF TypeOK
    <2>2. tag' \in [File -> {"exact", "over", "gced", "raced", "orphan"}]
        BY <1>1, <1>2, Zenon DEF TypeOK
    <2> QED
        BY <1>1, <1>2, <1>4, <2>1, <2>2, Zenon DEF TypeOK, gcVars, rangeVars
<1>7. Grows
    BY <1>4, <1>5 DEF Grows
<1>8. n \in File => /\ tag[n] = "exact" /\ state[n] = "none" /\ n \notin obsolete \cup failed
                    /\ n \notin gcInputs \cup gcOutputs
    BY <1>1, <1>5 DEF TagInv, FileOK
<1>9. KnownInv'
    <2>1. \A u \in tables \cup version : \A r \in u.refs : Known(r)'
        BY <1>1, <1>7, StaysKnown, Zenon DEF KnownInv, TypeOK, Table
    <2>2. \A r \in Unflushed \cup gone \cup props : Known(r)'
        <3>1. \A r \in Unflushed \cup gone \cup props : Known(r) /\ r \in Ref
            BY <1>1, Typed, Zenon DEF KnownInv, TypeOK
        <3> QED
            BY <1>7, <3>1, StaysKnown, Zenon
    <2>3. \A d \in events : \A r \in d.input \cup d.output : Known(r)'
        BY <1>1, <1>7, StaysKnown, Typed, Zenon DEF KnownInv
    <2> QED
        BY <1>0, <1>2, <2>1, <2>2, <2>3, Zenon DEF KnownInv, rangeVars
<1>10. ApartInv'
    BY <1>0, <1>1, <1>2, Zenon DEF ApartInv, rangeVars
<1>11. EventInv'
    <2>1. \A d \in events, f \in File : Makes(d, f) => f # n
        BY <1>1, NotYet, Zenon DEF Makes, Files
    <2>2. \A d \in events, f \in File : Makes(d, f) =>
              state'[f] = state[f] /\ content'[f] = content[f] /\ tag'[f] = tag[f]
        BY <1>4, <1>5, <2>1, Zenon
    <2> QED
        BY <1>1, <1>2, <2>2 DEF EventInv
<1>12. TagInv'
    <2>1. ASSUME NEW f \in File
          PROVE  FileOK(f)'
        <3>1. FileOK(f) /\ f \in Int
            BY <1>1 DEF TagInv, File
        <3>2. CASE f # n \/ V = {}
            <4>1. /\ state'[f] = state[f] /\ tag'[f] = tag[f] /\ live'[f] = live[f]
                  /\ obsolete' = obsolete /\ failed' = failed
                  /\ gcInputs' = gcInputs /\ gcOutputs' = gcOutputs
                BY <1>0, <1>2, <1>4, <1>5, <3>2, Zenon
            <4>2. (f < nextFile' => f < n) /\ (f >= nextFile' => f >= n)
                BY <1>4, <1>5, <3>1, <3>2
            <4> QED
                BY <3>1, <4>1, <4>2, FileStays, Zenon
        <3>3. CASE f = n /\ V # {}
            <4>1. ~(f >= nextFile')
                BY <1>4, <1>5, <3>3
            <4>2. /\ f \notin obsolete' \cup failed'
                  /\ f \notin gcInputs' \cup gcOutputs'
                BY <1>0, <1>2, <1>4, <1>5, <1>8, <3>3, Zenon
            <4> QED
                BY <1>4, <1>5, <1>8, <3>1, <3>3, <4>1, <4>2, Zenon DEF FileOK
        <3> QED
            BY <3>2, <3>3, Zenon
    <2>2. \A r \in Unflushed : r[2] \in File /\ r[2] # n
        BY <1>1, NotYet, Typed, Zenon DEF Ref
    <2>3. \A r \in Unflushed : state'[r[2]] = state[r[2]] /\ tag'[r[2]] = tag[r[2]]
        BY <1>4, <1>5, <2>2, Zenon
    <2> QED
        BY <1>0, <1>1, <1>2, <2>1, <2>3, Zenon DEF TagInv, rangeVars
<1>13. SizeInv'
    <2> SUFFICES ASSUME NEW f \in File
                 PROVE  SizeOK(f)'
        BY Zenon DEF SizeInv
    <2>1. Owed' = Owed
        BY <1>2, Zenon DEF Owed, rangeVars
    <2>2. Held(f)' = Held(f) /\ Claimed(f)' = Claimed(f)
        BY <1>0, <1>2, <2>1, Zenon DEF Held, Claimed
    <2>3. live[f] \in Nat /\ Claimed(f) \in Nat /\ SizeOK(f)
        BY <1>1, Counted, Zenon DEF SizeInv
    <2>4. CASE f # n \/ V = {}
        BY <1>4, <1>5, <2>2, <2>3, <2>4, SizeStays
    <2>5. CASE f = n /\ V # {}
        BY <1>5, <2>5, Zenon DEF SizeOK
    <2> QED
        BY <2>4, <2>5, Zenon
<1>14. KeptInv' /\ SizeAssertsHold'
    <2>1. \A f \in obsolete \cup failed : tag'[f] = tag[f]
        BY <1>1, <1>5, <1>8, Zenon DEF TypeOK
    <2> QED
        BY <1>0, <1>1, <1>2, <1>4, <2>1, Zenon DEF KeptInv, SizeAssertsHold
<1> QED
    BY <1>0, <1>6, <1>9, <1>10, <1>11, <1>12, <1>13, <1>14, Zenon DEF LiveInv
=============================================================================
