------------------------- MODULE LiveDataSizeProofs -------------------------
(***************************************************************************)
(* The listener calls and DeleteFilesInRanges keep LiveInv, for each takes *)
(* from the sizes what it takes from Owed; so do GC and restart.  So       *)
(* LiveInv holds in every behaviour of LiveDataSize, for every number of   *)
(* values, files, levels and jobs.                                         *)
(***************************************************************************)
EXTENDS LiveDataSizeSteps

-----------------------------------------------------------------------------
(* The listener calls.                                                     *)

\* A listener call that comes takes from what is owed what it has lost.
LEMMA OwedLess ==
    ASSUME TypeOK, TypeOK', ApartInv, NEW e \in events,
           events' = events \ {e}, gone' = gone
    PROVE  Owed' = Owed \ Lost(e) /\ Lost(e) \subseteq Owed
<1>1. \A r : r \in Owed' <=> r \in gone' \/ \E d \in events' : r \in Lost(d)
    BY TypedNext, Zenon
<1>2. \A r : r \in Owed <=> r \in gone \/ \E d \in events : r \in Lost(d)
    BY Typed, Zenon
<1>3. \A d \in events : d # e => Lost(d) \cap Lost(e) = {}
    BY Zenon DEF ApartInv
<1>4. Lost(e) \cap gone = {}
    BY Zenon DEF ApartInv
<1> QED
    BY <1>1, <1>2, <1>3, <1>4, Zenon

\* OnFlushCompleted settles the files the flush made, with all they hold.
LEMMA OnFlushCompletedStep ==
    ASSUME LiveInv, NEW e \in events, OnFlushCompleted(e)
    PROVE  LiveInv'
<1> DEFINE F == {f \in Files(e.output) : state[f] = "PendingLSM"}
<1>1. TypeOK /\ KnownInv /\ ApartInv /\ JobInv /\ EventInv /\ TagInv /\ SizeInv
      /\ KeptInv /\ SizeAssertsHold
    BY Zenon DEF LiveInv
<1>2. /\ e.kind = "flush"
      /\ live' = [f \in File |-> IF f \in F THEN FlushedSize(e, f) ELSE live[f]]
      /\ state' = [f \in File |-> IF f \in F THEN "Normal" ELSE state[f]]
      /\ events' = events \ {e}
      /\ UNCHANGED <<opts, lsmVars, obsolete, content, level, nextFile, gcVars, rangeVars,
                     tag, failed, countVars>>
    BY Zenon DEF OnFlushCompleted
<1>0. JobInv' /\ Unflushed' = Unflushed /\ gcInputs' = gcInputs /\ gcOutputs' = gcOutputs
    BY <1>1, <1>2, JobStays, Zenon DEF lsmVars
<1>3. e.input = {} /\ e.output \in SUBSET Ref /\ Lost(e) = {}
    BY <1>1, <1>2, Typed, Zenon DEF EventInv, Lost
<1>4. \A f \in F : f \in File /\ Makes(e, f) /\ state[f] = "PendingLSM"
    BY <1>3, Zenon DEF Makes, Files, Ref
<1>5. \A f \in F : tag[f] # "orphan"
    BY <1>1, Zenon DEF KnownInv, Known, Files
<1> HIDE DEF F
<1>6. ASSUME NEW f \in F
      PROVE  /\ FlushedSize(e, f) = Cardinality(content[f]) - live[f]
             /\ FlushedSize(e, f) \in Nat
    <2>1. On(e.output, f) = content[f] \X {f}
        BY <1>1, <1>4, Zenon DEF EventInv
    <2>2. /\ live[f] \in Nat /\ Held(f) \in Nat /\ Cardinality(content[f]) \in Nat
          /\ content[f] \in SUBSET Value
        BY <1>1, <1>4, Counted, Zenon
    <2>3. SizeIn(e.output, f) = Cardinality(content[f])
        BY <1>4, <2>1, <2>2, SizeWhole, Zenon
    <2>4. live[f] <= Cardinality(content[f]) - Held(f)
        BY <1>1, <1>4, <1>5, Zenon DEF SizeInv, SizeOK
    <2> QED
        BY <2>2, <2>3, <2>4 DEF FlushedSize, Unsigned
<1>7. /\ \A f \in F : live'[f] = Cardinality(content[f]) - live[f] /\ state'[f] = "Normal"
      /\ \A f \in File : f \notin F => live'[f] = live[f] /\ state'[f] = state[f]
    BY <1>2, <1>4, <1>6, Zenon
<1>8. TypeOK'
    <2>1. live' \in [File -> Nat]
        BY <1>1, <1>2, <1>6, Zenon DEF TypeOK
    <2>2. state' \in [File -> FileState]
        BY <1>1, <1>2, Zenon DEF TypeOK, FileState
    <2> QED
        BY <1>1, <1>2, <2>1, <2>2, Zenon DEF TypeOK, lsmVars, gcVars, rangeVars
<1>9. Owed' = Owed
    BY <1>1, <1>2, <1>3, <1>8, OwedLess, Zenon DEF rangeVars
<1>10. KnownInv'
    BY <1>0, <1>1, <1>2, Zenon DEF KnownInv, Known, lsmVars, rangeVars
<1>11. ApartInv'
    BY <1>0, <1>1, <1>2, Zenon DEF ApartInv, lsmVars, rangeVars
<1>12. EventInv'
    <2>1. \A d \in events', f \in File : Makes(d, f) => f \notin F
        BY <1>1, <1>2, <1>4, Zenon DEF EventInv
    <2>2. \A d \in events', f \in File : Makes(d, f) => state'[f] = state[f]
        BY <1>7, <2>1, Zenon
    <2> QED
        BY <1>1, <1>2, <2>2, Zenon DEF EventInv
<1>13. TagInv'
    <2>1. ASSUME NEW f \in File
          PROVE  FileOK(f)'
        <3>1. FileOK(f)
            BY <1>1, Zenon DEF TagInv
        <3>2. /\ tag' = tag /\ obsolete' = obsolete /\ failed' = failed
              /\ gcInputs' = gcInputs /\ gcOutputs' = gcOutputs /\ nextFile' = nextFile
            BY <1>0, <1>2, Zenon
        <3>3. CASE f \notin F
            BY <1>7, <3>1, <3>2, <3>3, Zenon DEF FileOK
        <3>4. CASE f \in F
            BY <1>4, <1>5, <1>7, <3>1, <3>2, <3>4, Zenon DEF FileOK
        <3> QED
            BY <3>3, <3>4, Zenon
    <2>2. \A r \in Unflushed : state'[r[2]] # "PendingLSM"
        BY <1>1, <1>7, Typed, Zenon DEF TagInv, Ref
    <2> QED
        BY <1>0, <1>1, <1>2, <2>1, <2>2, Zenon DEF TagInv, rangeVars
<1>14. SizeInv'
    <2> SUFFICES ASSUME NEW f \in File
                 PROVE  SizeOK(f)'
        BY Zenon DEF SizeInv
    <2>1. Held(f)' = Held(f) /\ Claimed(f)' = Claimed(f)
        BY <1>0, <1>2, <1>9, Zenon DEF Held, Claimed, lsmVars
    <2>2. /\ live[f] \in Nat /\ Claimed(f) \in Nat /\ SizeOK(f) /\ FileOK(f)
          /\ Held(f) \in Nat /\ Cardinality(content[f]) \in Nat
        BY <1>1, Counted, Zenon DEF SizeInv, TagInv
    <2>3. content' = content /\ tag' = tag
        BY <1>2, Zenon
    <2>4. CASE f \notin F
        BY <1>7, <2>1, <2>2, <2>3, <2>4, SizeStays
    <2>5. CASE f \in F
        BY <1>4, <1>7, <2>1, <2>2, <2>3, <2>5 DEF SizeOK, FileOK
    <2> QED
        BY <2>4, <2>5, Zenon
<1>15. KeptInv' /\ SizeAssertsHold'
    BY <1>0, <1>1, <1>2, Zenon DEF KeptInv, SizeAssertsHold, lsmVars
<1> QED
    BY <1>0, <1>8, <1>10, <1>11, <1>12, <1>13, <1>14, <1>15, Zenon DEF LiveInv

\* Only files the sweep is over are marked by it.
LEMMA NeedMergeIn ==
    ASSUME NEW C
    PROVE  NeedMerge(C) \subseteq C
<1>1. \A g : SortedRunsAt(C, g) \subseteq C
    BY Zenon DEF SortedRunsAt
<1> QED
    BY <1>1, Zenon DEF NeedMerge

\* A compaction has either all of a file, which is new, or fewer references to it
\* than before.
LEMMA DiffOf ==
    ASSUME TypeOK, KnownInv, EventInv, NEW e \in events, e.kind = "compaction",
           NEW f \in File
    PROVE  /\ SizeDiff(e, f) \in Int /\ SizeIn(Lost(e), f) \in Nat
           /\ Makes(e, f) => /\ SizeDiff(e, f) = Cardinality(content[f])
                             /\ SizeDiff(e, f) > 0 /\ SizeIn(Lost(e), f) = 0
                             /\ state[f] = "PendingLSM" \/ tag[f] \in {"raced", "gced"}
           /\ ~Makes(e, f) => SizeDiff(e, f) = - SizeIn(Lost(e), f)
           /\ f \notin Files(e.input \cup e.output) => SizeIn(Lost(e), f) = 0
<1>1. e.input \in SUBSET Ref /\ e.output \in SUBSET Ref /\ Lost(e) \in SUBSET Ref
    BY Typed, Zenon DEF Lost
<1>2. /\ SizeIn(e.input, f) \in Nat /\ SizeIn(e.output, f) \in Nat
      /\ SizeIn(Lost(e), f) \in Nat
    BY <1>1, SizeFinite, Zenon
<1>3. ASSUME Makes(e, f)
      PROVE  /\ SizeDiff(e, f) = Cardinality(content[f])
             /\ SizeDiff(e, f) > 0 /\ SizeIn(Lost(e), f) = 0
             /\ state[f] = "PendingLSM" \/ tag[f] \in {"raced", "gced"}
    <2>1. /\ On(e.input, f) = {} /\ On(e.output, f) = content[f] \X {f}
          /\ state[f] = "PendingLSM" \/ tag[f] \in {"raced", "gced"}
        BY <1>3, Zenon DEF EventInv
    <2>2. content[f] \in SUBSET Value
        BY Counted, Zenon
    <2>3. SizeIn(e.output, f) = Cardinality(content[f])
        BY <2>1, <2>2, SizeWhole, Zenon
    <2>4. SizeIn(e.input, f) = 0
        BY <1>1, <2>1, SizeZero, Zenon
    <2>5. On(e.output, f) # {}
        BY <1>3, Zenon DEF Makes, Files, On
    <2>6. SizeIn(e.output, f) # 0
        BY <1>1, <2>5, SizeZero, Zenon
    <2>7. On(Lost(e), f) = {}
        BY <2>1, Zenon DEF On, Lost
    <2>8. SizeIn(Lost(e), f) = 0
        BY <1>1, <2>7, SizeZero, Zenon
    <2> QED
        BY <1>2, <2>1, <2>3, <2>4, <2>6, <2>8 DEF SizeDiff
<1>4. ASSUME ~Makes(e, f)
      PROVE  SizeDiff(e, f) = - SizeIn(Lost(e), f)
    <2>1. On(e.output, f) \subseteq On(e.input, f)
        BY <1>4, Zenon DEF Makes, Files, On
    <2>2. On(e.input, f) = On(e.output \cup Lost(e), f)
        BY <2>1, Zenon DEF On, Lost
    <2>3. On(e.output, f) \cap On(Lost(e), f) = {}
        BY Zenon DEF On, Lost
    <2>4. SizeIn(e.output \cup Lost(e), f) = SizeIn(e.output, f) + SizeIn(Lost(e), f)
        BY <1>1, <2>3, SizeAdds
    <2>5. SizeIn(e.input, f) = SizeIn(e.output \cup Lost(e), f)
        BY <2>2, SizeSame
    <2> QED
        BY <1>2, <2>4, <2>5 DEF SizeDiff
<1>5. ASSUME f \notin Files(e.input \cup e.output)
      PROVE  SizeIn(Lost(e), f) = 0
    <2>1. On(Lost(e), f) = {}
        BY <1>5, Zenon DEF On, Lost, Files
    <2> QED
        BY <1>1, <2>1, SizeZero, Zenon
<1>6. SizeDiff(e, f) \in Int
    BY <1>2 DEF SizeDiff
<1> QED
    BY <1>2, <1>3, <1>4, <1>5, <1>6, Zenon

\* What the call takes away is no longer held or claimed after it.
LEMMA HeldLess ==
    ASSUME TypeOK, TypeOK', ApartInv, NEW e \in events, NEW f \in File,
           events' = events \ {e}, gone' = gone, tables' = tables, Unflushed' = Unflushed
    PROVE  /\ Held(f) = Held(f)' + SizeIn(Lost(e), f)
           /\ Claimed(f) = Claimed(f)' + SizeIn(Lost(e), f)
<1> DEFINE H == RefsOf(tables) \cup Owed'
           C == RefsOf(tables) \cup Unflushed \cup Owed'
<1>1. Owed' = Owed \ Lost(e) /\ Lost(e) \subseteq Owed
    BY OwedLess, Zenon
<1>2. Lost(e) \cap (RefsOf(tables) \cup Unflushed) = {}
    BY Zenon DEF ApartInv
<1>3. RefsOf(tables) \in SUBSET Ref /\ Unflushed \in SUBSET Ref /\ Owed \in SUBSET Ref
    BY Typed, Zenon
<1>4. H \in SUBSET Ref /\ C \in SUBSET Ref /\ Lost(e) \in SUBSET Ref
    BY <1>1, <1>3, Zenon
<1>5. On(H, f) \cap On(Lost(e), f) = {} /\ On(C, f) \cap On(Lost(e), f) = {}
    BY <1>1, <1>2, Zenon DEF On
<1>6. /\ RefsOf(tables) \cup Owed = H \cup Lost(e)
      /\ RefsOf(tables) \cup Unflushed \cup Owed = C \cup Lost(e)
    BY <1>1, Zenon
<1>7. Held(f)' = SizeIn(H, f) /\ Claimed(f)' = SizeIn(C, f)
    BY CountedNext, Zenon DEF Claimed
<1>8. Held(f) = SizeIn(H \cup Lost(e), f) /\ Claimed(f) = SizeIn(C \cup Lost(e), f)
    BY <1>6, Counted, Zenon DEF Claimed
<1> HIDE DEF H, C
<1> QED
    BY <1>4, <1>5, <1>7, <1>8, SizeAdds

\* OnCompactionCompleted pays off what the compaction lost, records it for the files whose
\* own call is still to come, settles the ones it made and drops the empty ones.
LEMMA OnCompactionCompletedStep ==
    ASSUME LiveInv, NEW e \in events, OnCompactionCompleted(e)
    PROVE  LiveInv'
<1> DEFINE d(f) == SizeDiff(e, f)
           F == {f \in Files(e.input \cup e.output) : state[f] \notin {"none", "Obsolete"}}
           early == {f \in F : state[f] = "PendingLSM" /\ d(f) <= 0}
           ready == {f \in F : state[f] = "PendingLSM" /\ d(f) > 0}
           settled == {f \in F : state[f] \in {"Normal", "ToMerge"}}
           size == [f \in File |-> IF f \in early THEN Recorded(f, d(f))
                                   ELSE IF f \in ready THEN Unsigned(d(f) - live[f])
                                   ELSE IF f \in settled THEN UpdateLiveDataSize(f, d(f))
                                   ELSE live[f]]
           empty == {f \in ready \cup settled : size[f] = 0}
           marked == {f \in settled \ empty : /\ opts.level_merge /\ level[f] >= NumLevels - 2
                                              /\ Discardable(f, size[f])}
           sorted == IF opts.level_merge /\ opts.range_merge /\ e.level = NumLevels - 1
                     THEN settled \ (empty \cup marked) ELSE {}
           toMerge == IF opts.level_merge THEN NeedMerge(ready \cup sorted) ELSE {}
           done == [f \in File |-> IF f \in Deleted(empty) THEN "Obsolete"
                                   ELSE IF f \in ready THEN "Normal"
                                   ELSE IF f \in marked THEN "ToMerge" ELSE state[f]]
           lost(f) == SizeIn(Lost(e), f)
           gone0 == Deleted(empty)
<1>1. TypeOK /\ KnownInv /\ ApartInv /\ JobInv /\ EventInv /\ TagInv /\ SizeInv
      /\ KeptInv /\ SizeAssertsHold
    BY Zenon DEF LiveInv
<1>2. /\ e.kind = "compaction"
      /\ live' = size
      /\ state' = [f \in File |-> IF f \in toMerge THEN "ToMerge" ELSE done[f]]
      /\ obsolete' = obsolete \cup gone0
      /\ failed' = failed \cup {f \in settled : d(f) > 0 \/ BelowZero(f, d(f))}
      /\ events' = events \ {e}
      /\ UNCHANGED <<opts, lsmVars, content, level, nextFile, gcVars, rangeVars, tag,
                     countVars>>
    BY Zenon DEF OnCompactionCompleted
<1>0. JobInv' /\ Unflushed' = Unflushed /\ gcInputs' = gcInputs /\ gcOutputs' = gcOutputs
    BY <1>1, <1>2, JobStays, Zenon DEF lsmVars
<1> HIDE DEF done, toMerge, sorted, marked, empty, gone0, size, early, ready, settled
<1>3. F \subseteq File /\ \A f \in F : tag[f] # "orphan" /\ f < nextFile
    BY <1>1, Typed, Zenon DEF KnownInv, Known, Files, Ref
<1>4. \A f \in File : f \in Files(e.input \cup e.output) /\ state[f] \notin {"none", "Obsolete"}
                      => f \in F
    BY Zenon
<1> HIDE DEF F
<1>5. \A f \in File : /\ d(f) \in Int /\ lost(f) \in Nat
                      /\ Makes(e, f) => /\ d(f) = Cardinality(content[f])
                                        /\ d(f) > 0 /\ lost(f) = 0
                                        /\ state[f] = "PendingLSM" \/ tag[f] \in {"raced", "gced"}
                      /\ ~Makes(e, f) => d(f) = - lost(f)
                      /\ f \notin Files(e.input \cup e.output) => lost(f) = 0
    BY <1>1, <1>2, DiffOf, Zenon
<1> HIDE DEF d, lost
<1>6. \A f \in File : /\ live[f] \in Nat /\ Held(f) \in Nat /\ Claimed(f) \in Nat
                      /\ Cardinality(content[f]) \in Nat /\ SizeOK(f) /\ FileOK(f)
    BY <1>1, Counted, Zenon DEF SizeInv, TagInv
\* The three kinds of files, and the size each is given.
<1>7. /\ \A f \in early : f \in F /\ state[f] = "PendingLSM" /\ d(f) <= 0
      /\ \A f \in ready : f \in F /\ state[f] = "PendingLSM" /\ d(f) > 0
      /\ \A f \in settled : f \in F /\ state[f] \in {"Normal", "ToMerge"}
    BY Zenon DEF early, ready, settled
<1>8. \A f \in F : state[f] \in {"PendingLSM", "Normal", "ToMerge"}
                   => f \in early \/ f \in ready \/ f \in settled
    <2>1. \A f \in F : d(f) <= 0 \/ d(f) > 0
        BY <1>3, <1>5
    <2> QED
        BY <2>1, Zenon DEF early, ready, settled
<1>9. \A f \in File : size[f] = IF f \in early THEN Recorded(f, d(f))
                                ELSE IF f \in ready THEN Unsigned(d(f) - live[f])
                                ELSE IF f \in settled THEN UpdateLiveDataSize(f, d(f))
                                ELSE live[f]
    BY Zenon DEF size
<1>10. /\ gone0 \subseteq empty /\ marked \subseteq settled
       /\ \A f \in empty : f \in ready \cup settled /\ size[f] = 0
       /\ toMerge \subseteq ready \cup settled
    <2>1. sorted \subseteq settled
        BY Zenon DEF sorted
    <2>2. toMerge \subseteq ready \cup settled
        BY <2>1, NeedMergeIn, Zenon DEF toMerge
    <2> QED
        BY <2>2, Zenon DEF Deleted, gone0, empty, marked
<1>11. \A f \in early : /\ f \in File /\ state[f] = "PendingLSM" /\ tag[f] # "orphan"
                        /\ f \notin ready /\ f \notin settled
                        /\ d(f) = - lost(f) /\ size[f] = live[f] + lost(f)
    <2> TAKE f \in early
    <2>1. f \in File /\ state[f] = "PendingLSM" /\ d(f) <= 0 /\ tag[f] # "orphan"
        BY <1>3, <1>7, Zenon
    <2>2. f \notin ready /\ f \notin settled
        BY <1>5, <1>7, <2>1
    <2>3. d(f) = - lost(f) /\ lost(f) \in Nat
        BY <1>5, <2>1
    <2>4. size[f] = live[f] - d(f)
        BY <1>9, <2>1, Zenon DEF Recorded
    <2> QED
        BY <1>6, <2>1, <2>2, <2>3, <2>4
<1>12. \A f \in ready : /\ f \in File /\ state[f] = "PendingLSM" /\ tag[f] # "orphan"
                        /\ f \notin early /\ f \notin settled
                        /\ Makes(e, f) /\ lost(f) = 0
                        /\ size[f] = Cardinality(content[f]) - live[f] /\ size[f] \in Nat
    <2> TAKE f \in ready
    <2>1. f \in File /\ state[f] = "PendingLSM" /\ d(f) > 0 /\ tag[f] # "orphan"
        BY <1>3, <1>7, Zenon
    <2>2. f \notin early /\ f \notin settled
        BY <1>5, <1>7, <2>1
    <2>3. Makes(e, f) /\ d(f) = Cardinality(content[f]) /\ lost(f) = 0
        BY <1>5, <2>1
    <2>4. size[f] = Unsigned(d(f) - live[f])
        BY <1>9, <2>1, <2>2, Zenon
    <2>5. live[f] <= Cardinality(content[f]) - Held(f)
        BY <1>6, <2>1, Zenon DEF SizeOK
    <2> QED
        BY <1>6, <2>1, <2>2, <2>3, <2>4, <2>5 DEF Unsigned
<1>13. \A f \in settled : /\ f \in File /\ state[f] \in {"Normal", "ToMerge"}
                          /\ f \notin early /\ f \notin ready
                          /\ size[f] \in Nat
                          /\ size[f] = IF live[f] + d(f) > 0 THEN live[f] + d(f) ELSE 0
    <2> TAKE f \in settled
    <2>1. f \in File /\ state[f] \in {"Normal", "ToMerge"} /\ f \notin early /\ f \notin ready
        BY <1>3, <1>7, Zenon
    <2>2. size[f] = UpdateLiveDataSize(f, d(f))
        BY <1>9, <2>1, Zenon
    <2>3. live[f] + d(f) \in Int
        BY <1>5, <1>6, <2>1
    <2> QED
        BY <2>1, <2>2, <2>3, MaxZero DEF UpdateLiveDataSize
<1>14. \A f \in File : f \notin early \cup ready \cup settled =>
           /\ size[f] = live[f]
           /\ \/ lost(f) = 0
              \/ state[f] \notin {"PendingLSM", "Normal", "ToMerge"}
    BY <1>4, <1>5, <1>8, <1>9, Zenon
<1>15. /\ \A f \in gone0 : f \in File /\ f \in ready \cup settled /\ size[f] = 0
       /\ \A f \in ready \cup settled : state'[f] \in {"Normal", "ToMerge", "Obsolete"}
       /\ \A f \in File : f \notin ready \cup settled => state'[f] = state[f]
    <2>1. \A f \in gone0 : f \in File /\ f \in ready \cup settled /\ size[f] = 0
        BY <1>10, <1>12, <1>13, Zenon
    <2>2. \A f \in File : state'[f] = IF f \in toMerge THEN "ToMerge"
                                      ELSE IF f \in gone0 THEN "Obsolete"
                                      ELSE IF f \in ready THEN "Normal"
                                      ELSE IF f \in marked THEN "ToMerge" ELSE state[f]
        BY <1>2, Zenon DEF gone0, done
    <2>3. \A f \in ready \cup settled : f \in File /\ (f \in ready \/ state[f] \in {"Normal", "ToMerge"})
        BY <1>12, <1>13, Zenon
    <2> QED
        BY <1>10, <2>1, <2>2, <2>3, Zenon
<1>16. TypeOK'
    <2>1. live' \in [File -> Nat]
        <3>1. \A f \in File : size[f] \in Nat
            BY <1>5, <1>6, <1>11, <1>12, <1>13, <1>14
        <3> QED
            BY <1>2, <3>1, Zenon DEF size
    <2>2. state' \in [File -> FileState]
        <3>1. \A f \in File : state'[f] \in FileState
            BY <1>1, <1>15, Zenon DEF FileState, TypeOK
        <3> QED
            BY <1>2, <3>1, Zenon
    <2>3. failed' \subseteq File /\ obsolete' \subseteq File
        BY <1>1, <1>2, <1>13, <1>15, Zenon DEF TypeOK
    <2> QED
        BY <1>1, <1>2, <2>1, <2>2, <2>3, Zenon DEF TypeOK, lsmVars, gcVars, rangeVars
<1>17. \A f \in File : /\ Held(f) = Held(f)' + lost(f) /\ Claimed(f) = Claimed(f)' + lost(f)
                       /\ Held(f)' \in Nat /\ Claimed(f)' \in Nat
    BY <1>0, <1>1, <1>2, <1>16, HeldLess, CountedNext, Zenon DEF lost, lsmVars, rangeVars
\* A call never takes away more of a settled file than there is, and none makes a
\* file that is settled.
<1>18. \A f \in settled : tag[f] \notin {"raced", "gced"} =>
           /\ tag[f] \in {"exact", "over"}
           /\ ~(d(f) > 0) /\ ~BelowZero(f, d(f))
           /\ tag[f] = "exact" => size[f] = Held(f)'
           /\ tag[f] = "over" => size[f] >= Claimed(f)'
    <2> SUFFICES ASSUME NEW f \in settled, tag[f] \notin {"raced", "gced"}
                 PROVE  /\ tag[f] \in {"exact", "over"}
                        /\ ~(d(f) > 0) /\ ~BelowZero(f, d(f))
                        /\ tag[f] = "exact" => size[f] = Held(f)'
                        /\ tag[f] = "over" => size[f] >= Claimed(f)'
        BY Zenon
    <2>1. f \in File /\ state[f] \in {"Normal", "ToMerge"}
        BY <1>13, Zenon
    <2>2. tag[f] \in {"exact", "over"}
        BY <1>1, <1>6, <2>1, Zenon DEF TypeOK, FileOK
    <2>3. d(f) = - lost(f) /\ lost(f) \in Nat
        BY <1>5, <2>1, Zenon
    <2>4. /\ tag[f] = "exact" => live[f] = Held(f)
          /\ tag[f] = "over" => live[f] >= Claimed(f)
        BY <1>6, <2>1, Zenon DEF SizeOK
    <2>5. live[f] + d(f) >= 0
        BY <1>6, <1>17, <2>1, <2>2, <2>3, <2>4
    <2>6. size[f] = live[f] - lost(f)
        BY <1>6, <1>13, <2>1, <2>3, <2>5
    <2>7. /\ tag[f] = "exact" => size[f] = Held(f)'
          /\ tag[f] = "over" => size[f] >= Claimed(f)'
        BY <1>6, <1>17, <2>1, <2>3, <2>4, <2>6
    <2> QED
        BY <1>6, <2>1, <2>2, <2>3, <2>5, <2>7 DEF BelowZero
<1>19. KnownInv'
    BY <1>0, <1>1, <1>2, Zenon DEF KnownInv, Known, lsmVars, rangeVars
<1>20. ApartInv'
    BY <1>0, <1>1, <1>2, Zenon DEF ApartInv, lsmVars, rangeVars
<1>21. EventInv'
    <2>1. \A c \in events', f \in File : Makes(c, f) => f \notin ready
        BY <1>1, <1>2, <1>12, Zenon DEF EventInv
    <2>2. \A c \in events', f \in File : Makes(c, f) =>
              (state'[f] = "PendingLSM" <=> state[f] = "PendingLSM")
        BY <1>13, <1>15, <2>1, Zenon
    <2> QED
        BY <1>1, <1>2, <2>2 DEF EventInv
<1>22. TagInv'
    <2>1. ASSUME NEW f \in File
          PROVE  FileOK(f)'
        <3>1. FileOK(f)
            BY <1>6, Zenon
        <3>2. /\ tag' = tag /\ gcInputs' = gcInputs /\ gcOutputs' = gcOutputs
              /\ nextFile' = nextFile
            BY <1>0, <1>2, Zenon
        <3>3. f \in obsolete' => f \in obsolete \/ f \in ready \cup settled
            BY <1>2, <1>15, Zenon
        <3>4. f \in failed' => f \in failed \/ f \in settled
            BY <1>2, Zenon
        <3>5. obsolete \subseteq obsolete'
            BY <1>2, Zenon
        <3>6. CASE f \notin ready \cup settled
            <4>1. tag[f] = "orphan" => f \notin early
                BY <1>11, Zenon
            <4>2. tag[f] = "orphan" => live'[f] = live[f]
                BY <1>2, <1>14, <3>6, <4>1, Zenon
            <4> QED
                BY <1>15, <3>1, <3>2, <3>3, <3>4, <3>5, <3>6, <4>2, Zenon DEF FileOK
        <3>7. CASE f \in ready \cup settled
            <4>1. /\ state[f] # "none" /\ state'[f] \in {"Normal", "ToMerge", "Obsolete"}
                  /\ tag[f] # "orphan"
                BY <1>12, <1>13, <1>15, <3>1, <3>7, Zenon DEF FileOK
            <4>2. ~(f >= nextFile)
                BY <3>1, <4>1, Zenon DEF FileOK
            <4> QED
                BY <3>1, <3>2, <4>1, <4>2, Zenon DEF FileOK
        <3> QED
            BY <3>6, <3>7, Zenon
    <2>2. \A r \in Unflushed : state'[r[2]] # "PendingLSM"
        BY <1>1, <1>15, Typed, Zenon DEF TagInv, Ref
    <2> QED
        BY <1>0, <1>1, <1>2, <2>1, <2>2, Zenon DEF TagInv, rangeVars
<1>23. SizeInv'
    <2> SUFFICES ASSUME NEW f \in File
                 PROVE  SizeOK(f)'
        BY Zenon DEF SizeInv
    <2>1. content' = content /\ tag' = tag /\ live'[f] = size[f] /\ lost(f) \in Nat
        BY <1>2, <1>5, Zenon
    <2>2. CASE f \in early
        <3>1. /\ state[f] = "PendingLSM" /\ state'[f] = "PendingLSM" /\ tag[f] # "over"
              /\ size[f] = live[f] + lost(f)
            BY <1>6, <1>11, <1>15, <2>2, Zenon DEF FileOK
        <3> QED
            BY <1>6, <1>17, <2>1, <3>1 DEF SizeOK
    <2>3. CASE f \in ready
        <3>1. /\ state[f] = "PendingLSM" /\ tag[f] # "over" /\ lost(f) = 0
              /\ state'[f] # "PendingLSM"
              /\ size[f] = Cardinality(content[f]) - live[f]
            BY <1>6, <1>12, <1>15, <2>3, Zenon DEF FileOK
        <3>2. tag[f] = "exact" => size[f] = Held(f)'
            <4>1. tag[f] = "exact" => live[f] = Cardinality(content[f]) - Held(f)
                BY <1>6, <3>1, Zenon DEF SizeOK
            <4> QED
                BY <1>6, <1>17, <3>1, <4>1
        <3> QED
            BY <2>1, <3>1, <3>2, Zenon DEF SizeOK
    <2>4. CASE f \in settled
        <3>1. state'[f] # "PendingLSM"
            BY <1>15, <2>4, Zenon
        <3> QED
            BY <1>18, <2>1, <2>4, <3>1, Zenon DEF SizeOK
    <2>5. CASE f \notin early \cup ready \cup settled
        <3>1. size[f] = live[f] /\ state'[f] = state[f]
            BY <1>14, <1>15, <2>5, Zenon
        <3>2. CASE lost(f) = 0
            <4>1. Held(f)' = Held(f) /\ Claimed(f)' = Claimed(f)
                BY <1>6, <1>17, <3>2
            <4> QED
                BY <1>6, <1>17, <2>1, <3>1, <4>1, SizeStays
        <3>3. CASE state[f] \notin {"PendingLSM", "Normal", "ToMerge"}
            <4>1. Claimed(f)' <= Claimed(f)
                BY <1>6, <1>17, <2>1
            <4> QED
                BY <1>6, <1>17, <2>1, <3>1, <3>3, <4>1 DEF SizeOK
        <3> QED
            BY <1>14, <2>5, <3>2, <3>3, Zenon
    <2> QED
        BY <2>2, <2>3, <2>4, <2>5, Zenon
<1>24. KeptInv'
    <2> SUFFICES ASSUME NEW f \in gone0, tag[f] \notin {"gced", "raced"}
                 PROVE  f \notin Files(RefsOf(tables) \cup Unflushed)
        BY <1>0, <1>1, <1>2, Zenon DEF KeptInv, lsmVars
    <2>1. f \in File /\ f \in ready \cup settled /\ size[f] = 0
        BY <1>15, Zenon
    <2>2. /\ RefsOf(tables) \in SUBSET Ref /\ Owed' \in SUBSET Ref /\ Unflushed \in SUBSET Ref
          /\ Held(f)' = SizeIn(RefsOf(tables) \cup Owed', f)
          /\ Claimed(f)' = SizeIn(RefsOf(tables) \cup Unflushed \cup Owed', f)
        BY <1>0, <1>1, <1>2, <1>16, <2>1, Typed, TypedNext, CountedNext, Zenon DEF Claimed, lsmVars
    <2>3. CASE tag[f] = "exact"
        <3>1. size[f] = Held(f)'
            <4>1. CASE f \in settled
                BY <1>18, <2>3, <4>1, Zenon
            <4>2. CASE f \in ready
                <5>1. /\ live[f] = Cardinality(content[f]) - Held(f)
                      /\ size[f] = Cardinality(content[f]) - live[f] /\ lost(f) = 0
                    BY <1>6, <1>12, <2>3, <4>2, Zenon DEF SizeOK
                <5> QED
                    BY <1>6, <1>17, <2>1, <5>1
            <4> QED
                BY <2>1, <4>1, <4>2, Zenon
        <3>2. On(RefsOf(tables) \cup Owed', f) = {}
            BY <2>1, <2>2, <3>1, SizeZero, Zenon
        <3>3. On(Unflushed, f) = {}
            BY <1>1, <2>3, Zenon DEF TagInv, On
        <3> QED
            BY <3>2, <3>3, Zenon DEF On, Files
    <2>4. CASE tag[f] # "exact"
        <3>1. f \in settled /\ tag[f] = "over"
            BY <1>1, <1>6, <1>12, <1>18, <2>1, <2>4, Zenon DEF FileOK, TypeOK
        <3>2. Claimed(f)' = 0
            BY <1>17, <1>18, <2>1, <3>1
        <3>3. On(RefsOf(tables) \cup Unflushed \cup Owed', f) = {}
            BY <2>2, <3>2, SizeZero, Zenon
        <3> QED
            BY <3>3, Zenon DEF On, Files
    <2> QED
        BY <2>3, <2>4, Zenon
<1>25. SizeAssertsHold'
    BY <1>1, <1>2, <1>18, Zenon DEF SizeAssertsHold
<1> QED
    BY <1>0, <1>16, <1>19, <1>20, <1>21, <1>22, <1>23, <1>24, <1>25, Zenon DEF LiveInv

-----------------------------------------------------------------------------
(* DeleteFilesInRanges.                                                    *)

\* DeleteFilesInRanges deletes its tables: their references are owed from here on.
LEMMA DeleteTablesStep ==
    ASSUME LiveInv, DeleteTables
    PROVE  LiveInv'
<1> DEFINE D == InRanges(tables, range)
           L == RefsOf(tables)
           G == RefsOf(D)
<1>1. TypeOK /\ KnownInv /\ ApartInv /\ JobInv /\ EventInv /\ TagInv /\ SizeInv
      /\ KeptInv /\ SizeAssertsHold
    BY Zenon DEF LiveInv
<1>2. /\ dpc = "read" /\ gone = {}
      /\ UNCHANGED <<opts, running, mem, written, fileVars, events, gcVars, version, tag,
                     failed, countVars>>
    BY <1>1, Zenon DEF DeleteTables, TagInv
<1>0. JobInv' /\ Unflushed' = Unflushed /\ gcInputs' = gcInputs /\ gcOutputs' = gcOutputs
    BY <1>1, <1>2, JobStays, Zenon
<1>3. CASE dpc' = "idle" /\ range' = {} /\ props' = {} /\ UNCHANGED <<gone, tables>>
    <2>1. TypeOK'
        BY <1>1, <1>2, <1>3, Zenon DEF TypeOK, fileVars, gcVars
    <2> QED
        BY <1>0, <1>1, <1>2, <1>3, <2>1, QuietStep, Zenon DEF ApartInv, KnownInv
<1>4. CASE /\ dpc' = "deleted" /\ gone' = G /\ tables' = tables \ D
           /\ UNCHANGED <<range, props>>
    <2>1. D \in SUBSET tables /\ D \cap Busy = {}
        BY Zenon DEF InRanges
    <2>2. L \in SUBSET Ref /\ Owed \in SUBSET Ref
        BY <1>1, Typed, Zenon
    <2>3. RefsOf(tables') = L \ G /\ G \subseteq L
        BY <1>1, <1>4, <2>1, RefsMinus, Zenon DEF ApartInv
    <2> HIDE DEF D, G
    <2>4. TypeOK'
        <3>1. running' \subseteq SUBSET tables'
            BY <1>1, <1>2, <1>4, <2>1, Zenon DEF TypeOK, Busy
        <3>2. gone' \subseteq Ref /\ tables' \subseteq Table
            BY <1>1, <1>4, <2>2, <2>3, Zenon DEF TypeOK
        <3> QED
            BY <1>1, <1>2, <1>4, <3>1, <3>2, Zenon DEF TypeOK, fileVars, gcVars
    <2>5. Owed' = Owed \cup G
        <3>1. \A r : r \in Owed' <=> r \in gone' \/ \E d \in events' : r \in Lost(d)
            BY <2>4, TypedNext, Zenon
        <3> QED
            BY <1>1, <1>2, <1>4, <3>1, Typed, Zenon
    <2>6. \A f \in File : Held(f)' = Held(f) /\ Claimed(f)' = Claimed(f)
        <3>1. RefsOf(tables') \cup Owed' = L \cup Owed
            BY <2>3, <2>5, Zenon
        <3>2. RefsOf(tables') \cup Unflushed' \cup Owed' = L \cup Unflushed \cup Owed
            BY <1>0, <1>2, <3>1, Zenon
        <3> QED
            BY <1>0, <1>1, <2>4, <3>1, <3>2, Counted, CountedNext, Zenon DEF Claimed
    <2>7. KnownInv'
        <3>1. \A r \in L : Known(r)
            BY <1>1, RefsIn, Zenon DEF KnownInv
        <3> HIDE DEF L
        <3> QED
            BY <1>0, <1>1, <1>2, <1>4, <2>3, <3>1, Zenon DEF KnownInv, Known, fileVars
    <2>8. ApartInv'
        <3>1. L \cap Unflushed = {} /\ \A e \in events : Lost(e) \cap (L \cup Unflushed) = {}
            BY <1>1, Zenon DEF ApartInv
        <3>2. G \cap (RefsOf(tables') \cup Unflushed) = {} /\ Unflushed \cap RefsOf(tables') = {}
            BY <2>3, <3>1, Zenon
        <3>3. \A e \in events : Lost(e) \cap (RefsOf(tables') \cup Unflushed \cup G) = {}
            BY <2>3, <3>1, Zenon
        <3> HIDE DEF L
        <3> QED
            BY <1>0, <1>1, <1>2, <1>4, <3>2, <3>3, Zenon DEF ApartInv
    <2>9. EventInv' /\ TagInv'
        BY <1>0, <1>1, <1>2, <1>4, Zenon DEF EventInv, TagInv, FileOK, fileVars
    <2>10. SizeInv'
        BY <1>1, <1>2, <2>6, Zenon DEF SizeInv, SizeOK, fileVars
    <2>11. KeptInv' /\ SizeAssertsHold'
        <3>1. Files(RefsOf(tables') \cup Unflushed) \subseteq Files(L \cup Unflushed)
            BY <2>3, Zenon DEF Files
        <3> QED
            BY <1>0, <1>1, <1>2, <3>1, Zenon DEF KeptInv, SizeAssertsHold, fileVars
    <2> QED
        BY <1>0, <2>4, <2>7, <2>8, <2>9, <2>10, <2>11, Zenon DEF LiveInv
<1> QED
    BY <1>3, <1>4, Zenon DEF DeleteTables

\* The last part of it pays what it owed.
LEMMA HeldPaid ==
    ASSUME TypeOK, TypeOK', ApartInv, NEW f \in File,
           events' = events, gone' = {}, tables' = tables, Unflushed' = Unflushed
    PROVE  /\ Held(f) = Held(f)' + SizeIn(gone, f)
           /\ Claimed(f) = Claimed(f)' + SizeIn(gone, f)
           /\ SizeIn(gone, f) \in Nat
<1> DEFINE H == RefsOf(tables) \cup Owed'
           C == RefsOf(tables) \cup Unflushed \cup Owed'
<1>1. RefsOf(tables) \in SUBSET Ref /\ Unflushed \in SUBSET Ref /\ Owed \in SUBSET Ref
      /\ gone \in SUBSET Ref
    BY Typed, Zenon
<1>2. Owed' \cup gone = Owed
    <2>1. \A r : r \in Owed' <=> r \in gone' \/ \E d \in events' : r \in Lost(d)
        BY TypedNext, Zenon
    <2> QED
        BY <2>1, Typed, Zenon
<1>3. gone \cap (RefsOf(tables) \cup Unflushed \cup Owed') = {}
    <2>1. \A r : r \in Owed' <=> r \in gone' \/ \E d \in events' : r \in Lost(d)
        BY TypedNext, Zenon
    <2>2. gone \cap (RefsOf(tables) \cup Unflushed) = {} /\ \A d \in events : Lost(d) \cap gone = {}
        BY Zenon DEF ApartInv
    <2> QED
        BY <2>1, <2>2, Zenon
<1>4. H \in SUBSET Ref /\ C \in SUBSET Ref
    BY <1>1, <1>2, Zenon
<1>5. On(H, f) \cap On(gone, f) = {} /\ On(C, f) \cap On(gone, f) = {}
    BY <1>3, Zenon DEF On
<1>6. /\ RefsOf(tables) \cup Owed = H \cup gone
      /\ RefsOf(tables) \cup Unflushed \cup Owed = C \cup gone
    BY <1>2, Zenon
<1>7. Held(f)' = SizeIn(H, f) /\ Claimed(f)' = SizeIn(C, f)
    BY CountedNext, Zenon DEF Claimed
<1>8. Held(f) = SizeIn(H \cup gone, f) /\ Claimed(f) = SizeIn(C \cup gone, f)
    BY <1>6, Counted, Zenon DEF Claimed
<1> HIDE DEF H, C
<1> QED
    BY <1>1, <1>4, <1>5, <1>7, <1>8, SizeAdds, SizeFinite

\* The second half of DeleteFilesInRanges takes the deleted tables from the sizes.
LEMMA UpdateSizesStep ==
    ASSUME LiveInv, UpdateSizes
    PROVE  LiveInv'
<1> DEFINE d(f) == - SizeIn(props, f)
           F == {f \in Files(props) : state[f] \notin {"none", "Obsolete"}}
           size == [f \in File |-> IF f \in F THEN UpdateLiveDataSize(f, d(f)) ELSE live[f]]
           empty == {f \in F : size[f] = 0}
           marked == {f \in F \ empty : opts.level_merge /\ Discardable(f, size[f])}
           raced == {f \in Files(props \cup gone) :
                        \/ state[f] = "PendingLSM"
                        \/ \E v \in Value : (<<v, f>> \in props) # (<<v, f>> \in gone)}
           read(f) == SizeIn(props, f)
           gone0 == Deleted(empty)
<1>1. TypeOK /\ KnownInv /\ ApartInv /\ JobInv /\ EventInv /\ TagInv /\ SizeInv
      /\ KeptInv /\ SizeAssertsHold
    BY Zenon DEF LiveInv
<1>2. /\ dpc' = "idle" /\ range' = {} /\ props' = {} /\ gone' = {}
      /\ live' = size
      /\ state' = [f \in File |-> IF f \in gone0 THEN "Obsolete"
                                  ELSE IF f \in marked THEN "ToMerge" ELSE state[f]]
      /\ obsolete' = obsolete \cup gone0
      /\ tag' = [f \in File |-> IF f \in raced /\ tag[f] # "gced" THEN "raced" ELSE tag[f]]
      /\ failed' = failed \cup {f \in F : BelowZero(f, d(f))}
      /\ UNCHANGED <<opts, lsmVars, content, level, nextFile, events, gcVars, version,
                     countVars>>
    BY Zenon DEF UpdateSizes
<1>0. JobInv' /\ Unflushed' = Unflushed /\ gcInputs' = gcInputs /\ gcOutputs' = gcOutputs
    BY <1>1, <1>2, JobStays, Zenon DEF lsmVars
<1>3. props \in SUBSET Ref /\ gone \in SUBSET Ref
    BY <1>1, Zenon DEF TypeOK
<1>4. /\ F \subseteq File /\ raced \subseteq File
      /\ \A f \in F \cup raced : tag[f] # "orphan" /\ f < nextFile
    <2>1. \A f \in Files(props \cup gone) : f \in File /\ tag[f] # "orphan" /\ f < nextFile
        BY <1>1, <1>3, Zenon DEF KnownInv, Known, Files, Ref
    <2>2. F \subseteq Files(props \cup gone) /\ raced \subseteq Files(props \cup gone)
        BY Zenon DEF Files
    <2> QED
        BY <2>1, <2>2, Zenon
\* Files it did not race for: what it read is what it owes.
<1>5. \A f \in File : f \notin raced =>
          /\ On(props, f) = On(gone, f)
          /\ f \in Files(props) => state[f] # "PendingLSM"
    <2> SUFFICES ASSUME NEW f \in File, f \notin raced
                 PROVE  /\ On(props, f) = On(gone, f)
                        /\ f \in Files(props) => state[f] # "PendingLSM"
        BY Zenon
    <2>1. CASE f \in Files(props \cup gone)
        <3>1. /\ state[f] # "PendingLSM"
              /\ \A v \in Value : <<v, f>> \in props <=> <<v, f>> \in gone
            BY <2>1, Zenon
        <3>2. \A r \in Ref : r[2] = f => (r \in props <=> r \in gone)
            <4> SUFFICES ASSUME NEW r \in Ref, r[2] = f
                         PROVE  r \in props <=> r \in gone
                BY Zenon
            <4>1. r = <<r[1], f>> /\ r[1] \in Value
                BY DEF Ref
            <4> QED
                BY <3>1, <4>1, Zenon
        <3> QED
            BY <1>3, <3>1, <3>2, Zenon DEF On
    <2>2. CASE f \notin Files(props \cup gone)
        BY <2>2, Zenon DEF Files, On
    <2> QED
        BY <2>1, <2>2, Zenon
<1>6. \A f \in File : /\ live[f] \in Nat /\ Held(f) \in Nat /\ Claimed(f) \in Nat
                      /\ Cardinality(content[f]) \in Nat /\ SizeOK(f) /\ FileOK(f)
                      /\ read(f) \in Nat
    BY <1>1, <1>3, Counted, SizeFinite, Zenon DEF SizeInv, TagInv
<1>7. \A f \in raced : f \in Files(props) /\ state[f] = "PendingLSM" => f \in F
    BY Zenon
<1>8. \A f \in F : f \in Files(props) /\ state[f] \notin {"none", "Obsolete"}
    BY Zenon
<1>9. \A f \in File : f \notin F => size[f] = live[f] /\ (read(f) = 0 \/ state[f] \in {"none", "Obsolete"})
    <2> SUFFICES ASSUME NEW f \in File, f \notin F
                 PROVE  size[f] = live[f] /\ (read(f) = 0 \/ state[f] \in {"none", "Obsolete"})
        BY Zenon
    <2>1. f \notin Files(props) => On(props, f) = {}
        BY Zenon DEF Files, On
    <2> QED
        BY <1>3, <2>1, SizeZero, Zenon
<1>10. \A f \in F : /\ size[f] \in Nat /\ size[f] <= live[f]
                    /\ size[f] = IF live[f] - read(f) > 0 THEN live[f] - read(f) ELSE 0
    <2> TAKE f \in F
    <2>1. f \in File /\ size[f] = UpdateLiveDataSize(f, d(f))
        BY <1>4, Zenon
    <2>2. live[f] + d(f) \in Int /\ live[f] + d(f) = live[f] - read(f)
        BY <1>6, <2>1
    <2>3. size[f] = IF live[f] + d(f) > 0 THEN live[f] + d(f) ELSE 0
        <3> HIDE DEF d, size, F
        <3> QED
            BY <2>1, <2>2, MaxZero, Zenon DEF UpdateLiveDataSize
    <2> HIDE DEF d, size, F, read
    <2> QED
        BY <1>6, <2>1, <2>2, <2>3
<1>11. gone0 \subseteq empty /\ empty \subseteq F /\ marked \subseteq F
    BY Zenon DEF Deleted
<1>12. \A f \in gone0 : f \in F /\ size[f] = 0
    BY <1>11, Zenon
<1> HIDE DEF gone0, empty, marked, size, F, raced
<1>13. /\ \A f \in F : state'[f] = state[f] \/ state'[f] \in {"Obsolete", "ToMerge"}
       /\ \A f \in File : f \notin F => state'[f] = state[f]
       /\ \A f \in File : tag'[f] = IF f \in raced /\ tag[f] # "gced" THEN "raced" ELSE tag[f]
    BY <1>2, <1>4, <1>11, Zenon
<1>14. TypeOK'
    <2>1. live' \in [File -> Nat]
        <3>1. \A f \in File : size[f] \in Nat
            BY <1>6, <1>9, <1>10, Zenon
        <3> QED
            BY <1>2, <3>1, Zenon DEF size
    <2>2. state' \in [File -> FileState]
        BY <1>1, <1>2, Zenon DEF FileState, TypeOK
    <2>3. failed' \subseteq File /\ obsolete' \subseteq File
        BY <1>1, <1>2, <1>4, <1>12, Zenon DEF TypeOK
    <2>4. tag' \in [File -> {"exact", "over", "gced", "raced", "orphan"}]
        BY <1>1, <1>2, Zenon DEF TypeOK
    <2> QED
        BY <1>1, <1>2, <2>1, <2>2, <2>3, <2>4, Zenon DEF TypeOK, lsmVars, gcVars
<1>15. \A f \in File : /\ Held(f) = Held(f)' + SizeIn(gone, f)
                       /\ Claimed(f) = Claimed(f)' + SizeIn(gone, f)
                       /\ Held(f)' \in Nat /\ Claimed(f)' \in Nat /\ SizeIn(gone, f) \in Nat
    BY <1>0, <1>1, <1>2, <1>14, HeldPaid, CountedNext, Zenon DEF lsmVars
<1>16. \A f \in File : f \notin raced => read(f) = SizeIn(gone, f)
    BY <1>5, SizeSame, Zenon
<1> HIDE DEF read, d
\* Of those files the size is never below zero, and stays right.
<1>17. \A f \in F : f \notin raced /\ tag[f] \notin {"raced", "gced"} =>
           /\ tag[f] \in {"exact", "over"} /\ ~BelowZero(f, d(f))
           /\ tag[f] = "exact" => size[f] = Held(f)'
           /\ tag[f] = "over" => size[f] >= Claimed(f)'
    <2> SUFFICES ASSUME NEW f \in F, f \notin raced, tag[f] \notin {"raced", "gced"}
                 PROVE  /\ tag[f] \in {"exact", "over"} /\ ~BelowZero(f, d(f))
                        /\ tag[f] = "exact" => size[f] = Held(f)'
                        /\ tag[f] = "over" => size[f] >= Claimed(f)'
        BY Zenon
    <2>1. f \in File /\ state[f] \notin {"none", "Obsolete", "PendingLSM"}
        BY <1>4, <1>5, <1>8, Zenon
    <2>2. tag[f] \in {"exact", "over"}
        BY <1>1, <1>4, <2>1, Zenon DEF TypeOK
    <2>3. /\ tag[f] = "exact" => live[f] = Held(f)
          /\ tag[f] = "over" => live[f] >= Claimed(f)
        BY <1>1, <1>6, <2>1, Zenon DEF SizeOK, FileOK, TypeOK, FileState
    <2>4. live[f] >= read(f) /\ read(f) = SizeIn(gone, f)
        BY <1>6, <1>15, <1>16, <2>1, <2>2, <2>3
    <2>5. size[f] = live[f] - read(f)
        BY <1>6, <1>10, <2>1, <2>4
    <2>6. /\ tag[f] = "exact" => size[f] = Held(f)'
          /\ tag[f] = "over" => size[f] >= Claimed(f)'
        BY <1>6, <1>15, <2>1, <2>3, <2>4, <2>5
    <2>7. ~BelowZero(f, d(f))
        BY <1>6, <2>1, <2>4 DEF BelowZero, d, read
    <2> QED
        BY <2>2, <2>6, <2>7, Zenon
<1>18. KnownInv'
    <2>1. \A r \in Ref : Known(r) => Known(r)'
        BY <1>2, <1>13, Zenon DEF Known, Ref
    <2>2. /\ \A t \in tables \cup version : \A r \in t.refs : r \in Ref
          /\ \A e \in events : \A r \in e.input \cup e.output : r \in Ref
          /\ Unflushed \subseteq Ref
        BY <1>1, Typed, Zenon DEF TypeOK, Table
    <2> QED
        BY <1>0, <1>1, <1>2, <2>1, <2>2, Zenon DEF KnownInv, lsmVars
<1>19. ApartInv'
    BY <1>0, <1>1, <1>2, Zenon DEF ApartInv, lsmVars
<1>20. EventInv'
    <2>1. \A f \in File : /\ state'[f] = "PendingLSM" => state[f] = "PendingLSM"
                          /\ tag[f] \in {"raced", "gced"} => tag'[f] \in {"raced", "gced"}
        BY <1>13, Zenon
    <2>2. \A f \in File : state[f] = "PendingLSM" =>
              state'[f] = "PendingLSM" \/ tag'[f] \in {"raced", "gced"}
        BY <1>5, <1>8, <1>13, Zenon
    <2> QED
        BY <1>1, <1>2, <2>1, <2>2 DEF EventInv
<1>21. TagInv'
    <2>1. ASSUME NEW f \in File
          PROVE  FileOK(f)'
        <3>1. FileOK(f) /\ f \in Int /\ nextFile \in Int
            BY <1>1, <1>6 DEF File, TypeOK
        <3>2. /\ gcInputs' = gcInputs /\ gcOutputs' = gcOutputs /\ nextFile' = nextFile
              /\ obsolete \subseteq obsolete'
            BY <1>0, <1>2, Zenon
        <3>3. /\ f \in obsolete' => f \in obsolete \/ f \in F
              /\ f \in failed' => f \in failed \/ f \in F
            BY <1>2, <1>12, Zenon
        <3>4. f >= nextFile => f \notin F /\ f \notin raced
            BY <1>4, <3>1
        <3>5. tag'[f] = "orphan" => tag[f] = "orphan" /\ f \notin F
            BY <1>4, <1>13, Zenon
        <3>6. f \notin F => live'[f] = live[f] /\ state'[f] = state[f]
            BY <1>2, <1>9, <1>13, Zenon
        <3>7. f \in F => state'[f] # "none"
            BY <1>8, <1>13, Zenon
        <3> QED
            BY <1>13, <3>1, <3>2, <3>3, <3>4, <3>5, <3>6, <3>7, Zenon DEF FileOK
    <2>2. \A r \in Unflushed : tag'[r[2]] # "exact" /\ state'[r[2]] # "PendingLSM"
        BY <1>1, <1>13, Typed, Zenon DEF TagInv, Ref
    <2> QED
        BY <1>0, <1>1, <1>2, <2>1, <2>2, Zenon DEF TagInv
<1>22. SizeInv'
    <2> SUFFICES ASSUME NEW f \in File
                 PROVE  SizeOK(f)'
        BY Zenon DEF SizeInv
    <2>1. content' = content /\ live'[f] = size[f] /\ read(f) \in Nat
        BY <1>2, <1>6, Zenon
    <2>2. CASE f \in raced
        <3>1. tag'[f] \in {"raced", "gced"} /\ tag[f] # "orphan"
            BY <1>4, <1>13, <2>2, Zenon
        <3>2. state'[f] = "PendingLSM" => state[f] = "PendingLSM"
            BY <1>13, Zenon
        <3>3. size[f] <= live[f] /\ size[f] \in Nat
            BY <1>6, <1>9, <1>10
        <3>4. state[f] = "PendingLSM" => live[f] <= Cardinality(content[f]) - Held(f)
            BY <1>6, <3>1, Zenon DEF SizeOK
        <3>5. state[f] = "PendingLSM" => size[f] <= Cardinality(content[f]) - Held(f)'
            BY <1>6, <1>15, <3>3, <3>4
        <3> QED
            BY <2>1, <3>1, <3>2, <3>5, Zenon DEF SizeOK
    <2>3. CASE f \notin raced /\ f \in F
        <3>1. tag'[f] = tag[f] /\ state'[f] # "PendingLSM"
            BY <1>5, <1>8, <1>13, <2>3, Zenon
        <3> QED
            BY <1>17, <2>1, <2>3, <3>1, Zenon DEF SizeOK
    <2>4. CASE f \notin raced /\ f \notin F
        <3>1. tag'[f] = tag[f] /\ state'[f] = state[f] /\ size[f] = live[f]
              /\ read(f) = SizeIn(gone, f)
            BY <1>9, <1>13, <1>16, <2>4, Zenon
        <3>2. Claimed(f)' <= Claimed(f)
            BY <1>6, <1>15
        <3>3. CASE read(f) = 0
            <4>1. Held(f)' = Held(f)
                <5>1. SizeIn(gone, f) = 0
                    BY <3>1, <3>3, Zenon
                <5>2. Held(f) = Held(f)' + SizeIn(gone, f) /\ Held(f)' \in Nat
                    BY <1>15, Zenon
                <5> QED
                    BY <5>1, <5>2
            <4> QED
                BY <1>6, <1>15, <2>1, <3>1, <3>2, <4>1, SizeStays, Zenon
        <3>4. CASE state[f] \in {"none", "Obsolete"}
            BY <1>6, <1>15, <2>1, <3>1, <3>2, <3>4 DEF SizeOK
        <3> QED
            BY <1>9, <2>4, <3>3, <3>4, Zenon
    <2> QED
        BY <2>2, <2>3, <2>4, Zenon
<1>23. KeptInv'
    <2>1. \A f \in File : tag'[f] \notin {"gced", "raced"} => f \notin raced /\ tag'[f] = tag[f]
        BY <1>13, Zenon
    <2>2. ASSUME NEW f \in gone0, f \notin raced, tag[f] \notin {"gced", "raced"}
          PROVE  f \notin Files(RefsOf(tables) \cup Unflushed)
        <3>1. f \in F /\ f \in File /\ size[f] = 0
            BY <1>4, <1>12, Zenon
        <3>2. /\ RefsOf(tables) \in SUBSET Ref /\ Owed' \in SUBSET Ref /\ Unflushed \in SUBSET Ref
              /\ Held(f)' = SizeIn(RefsOf(tables) \cup Owed', f)
              /\ Claimed(f)' = SizeIn(RefsOf(tables) \cup Unflushed \cup Owed', f)
            BY <1>0, <1>1, <1>2, <1>14, <3>1, Typed, TypedNext, CountedNext, Zenon DEF Claimed, lsmVars
        <3>3. CASE tag[f] = "exact"
            <4>1. Held(f)' = 0
                BY <1>17, <2>2, <3>1, <3>3, Zenon
            <4>2. On(RefsOf(tables) \cup Owed', f) = {}
                BY <3>2, <4>1, SizeZero, Zenon
            <4>3. On(Unflushed, f) = {}
                BY <1>1, <3>3, Zenon DEF TagInv, On
            <4> QED
                BY <4>2, <4>3, Zenon DEF On, Files
        <3>4. CASE tag[f] = "over"
            <4>1. Claimed(f)' = 0
                BY <1>15, <1>17, <2>2, <3>1, <3>4
            <4>2. On(RefsOf(tables) \cup Unflushed \cup Owed', f) = {}
                BY <3>2, <4>1, SizeZero, Zenon
            <4> QED
                BY <4>2, Zenon DEF On, Files
        <3> QED
            BY <1>17, <2>2, <3>1, <3>3, <3>4, Zenon
    <2>3. obsolete \subseteq File /\ gone0 \subseteq File
        BY <1>1, <1>4, <1>12, Zenon DEF TypeOK
    <2> QED
        BY <1>0, <1>1, <1>2, <2>1, <2>2, <2>3, Zenon DEF KeptInv, lsmVars
<1>24. SizeAssertsHold'
    <2>1. \A f \in failed' : f \in File /\ (f \in failed \/ (f \in F /\ BelowZero(f, d(f))))
        BY <1>2, <1>14, Zenon DEF TypeOK
    <2> QED
        BY <1>1, <1>13, <1>17, <2>1, Zenon DEF SizeAssertsHold
<1> QED
    BY <1>0, <1>14, <1>18, <1>19, <1>20, <1>21, <1>22, <1>23, <1>24, Zenon DEF LiveInv

-----------------------------------------------------------------------------
(* GC and restart.                                                         *)

\* A GC job takes a settled file as its input.
LEMMA GCBeginStep ==
    ASSUME LiveInv, NEW g \in File, GCBegin(g)
    PROVE  LiveInv'
<1>1. TypeOK /\ KnownInv /\ ApartInv /\ JobInv /\ EventInv /\ TagInv /\ SizeInv
      /\ KeptInv /\ SizeAssertsHold
    BY Zenon DEF LiveInv
<1>2. /\ state[g] = "Normal" /\ gcInputs = {} /\ gcInputs' = {g} /\ batch' = ValidIn(g)
      /\ state' = [state EXCEPT ![g] = "BeingGC"]
      /\ tag' = [tag EXCEPT ![g] = IF @ = "exact" THEN "over" ELSE @]
      /\ UNCHANGED <<opts, lsmVars, obsolete, live, content, level, nextFile, events,
                     gcOutputs, dropped, rangeVars, failed>>
    BY Zenon DEF GCBegin
<1>0. JobInv' /\ Unflushed' = Unflushed
    <2>1. gcOutputs = {} /\ dropped = {} /\ gcOutputs' = {} /\ dropped' = {} /\ mem' = mem
        BY <1>1, <1>2, Zenon DEF JobInv, lsmVars
    <2>2. Due = {} /\ Due' = {}
        BY <2>1, Zenon DEF Due
    <2> QED
        BY <2>1, <2>2, Zenon DEF JobInv, Unflushed
<1>3. TypeOK'
    <2>1. /\ state' \in [File -> FileState]
          /\ tag' \in [File -> {"exact", "over", "gced", "raced", "orphan"}]
        BY <1>1, <1>2, Zenon DEF TypeOK, FileState
    <2>2. batch' \subseteq Value
        <3>1. RefsOf(tables) \cup mem \in SUBSET Ref
            BY <1>1, Typed, Zenon DEF TypeOK
        <3> QED
            BY <1>2, <3>1, Zenon DEF ValidIn, Values, Ref
    <2> QED
        BY <1>1, <1>2, <2>1, <2>2, Zenon DEF TypeOK, lsmVars, rangeVars
<1>4. /\ \A f \in File : f # g => state'[f] = state[f] /\ tag'[f] = tag[f]
      /\ state'[g] = "BeingGC" /\ tag'[g] = IF tag[g] = "exact" THEN "over" ELSE tag[g]
    BY <1>1, <1>2, Zenon DEF TypeOK
<1>5. \A f \in File : FileOK(f) /\ SizeOK(f)
    BY <1>1, Zenon DEF TagInv, SizeInv
<1>6. tag[g] # "orphan" /\ g \in Int /\ nextFile \in Int /\ ~(g >= nextFile)
    BY <1>1, <1>2, <1>5 DEF FileOK, File, TypeOK
<1>7. KnownInv'
    <2>1. \A r \in Ref : Known(r) => Known(r)'
        BY <1>2, <1>4 DEF Known, Ref
    <2>2. /\ \A t \in tables \cup version : \A r \in t.refs : r \in Ref
          /\ \A e \in events : \A r \in e.input \cup e.output : r \in Ref
          /\ Unflushed \cup gone \cup props \subseteq Ref
        BY <1>1, Typed, Zenon DEF TypeOK, Table
    <2> QED
        BY <1>0, <1>1, <1>2, <2>1, <2>2, Zenon DEF KnownInv, lsmVars, rangeVars
<1>8. ApartInv'
    BY <1>0, <1>1, <1>2, Zenon DEF ApartInv, lsmVars, rangeVars
<1>9. EventInv'
    <2>1. \A f \in File : /\ state'[f] = "PendingLSM" <=> state[f] = "PendingLSM"
                          /\ tag[f] \in {"raced", "gced"} => tag'[f] \in {"raced", "gced"}
        BY <1>2, <1>4, Zenon
    <2> QED
        BY <1>1, <1>2, <2>1 DEF EventInv
<1>10. TagInv'
    <2>1. ASSUME NEW f \in File
          PROVE  FileOK(f)'
        <3>1. CASE f # g
            BY <1>2, <1>4, <1>5, <3>1 DEF FileOK
        <3>2. CASE f = g
            BY <1>2, <1>4, <1>5, <1>6, <3>2 DEF FileOK
        <3> QED
            BY <3>1, <3>2, Zenon
    <2>2. \A r \in Unflushed : tag'[r[2]] # "exact" /\ state'[r[2]] # "PendingLSM"
        BY <1>1, <1>4, Typed, Zenon DEF TagInv, Ref
    <2> QED
        BY <1>0, <1>1, <1>2, <2>1, <2>2, Zenon DEF TagInv, rangeVars
<1>11. SizeInv'
    <2> SUFFICES ASSUME NEW f \in File
                 PROVE  SizeOK(f)'
        BY Zenon DEF SizeInv
    <2>1. Owed' = Owed
        BY <1>2, Zenon DEF Owed, rangeVars
    <2>2. Held(f)' = Held(f) /\ Claimed(f)' = Claimed(f)
        BY <1>0, <1>2, <2>1, Zenon DEF Held, Claimed, lsmVars
    <2>3. live[f] \in Nat /\ Claimed(f) \in Nat /\ Held(f) \in Nat
        BY <1>1, Counted, Zenon
    <2>4. CASE f # g
        BY <1>2, <1>4, <1>5, <2>2, <2>3, <2>4, SizeStays
    <2>5. CASE f = g
        <3>1. tag[f] = "exact" => live[f] = Claimed(f)
            <4> SUFFICES ASSUME tag[f] = "exact"
                         PROVE  live[f] = Claimed(f)
                BY Zenon
            <4>1. On(Unflushed, f) = {}
                BY <1>1, Zenon DEF TagInv, On
            <4>2. On(RefsOf(tables) \cup Unflushed \cup Owed, f) = On(RefsOf(tables) \cup Owed, f)
                BY <4>1, Zenon DEF On
            <4>3. Claimed(f) = Held(f)
                <5>1. Held(f) = SizeIn(RefsOf(tables) \cup Owed, f)
                    BY <1>1, Counted, Zenon
                <5> QED
                    BY <4>2, <5>1, SizeSame, Zenon DEF Claimed
            <4>4. live[f] = Held(f)
                BY <1>2, <1>5, <2>5, Zenon DEF SizeOK
            <4> QED
                BY <4>3, <4>4, Zenon
        <3>2. tag[f] = "over" => live[f] >= Claimed(f)
            BY <1>2, <1>5, <2>5, Zenon DEF SizeOK
        <3> QED
            BY <1>2, <1>4, <2>2, <2>3, <2>5, <3>1, <3>2 DEF SizeOK
    <2> QED
        BY <2>4, <2>5, Zenon
<1>12. KeptInv' /\ SizeAssertsHold'
    <2>1. \A f \in File : /\ tag'[f] \notin {"gced", "raced"} => tag[f] \notin {"gced", "raced"}
                          /\ tag[f] \in {"gced", "raced"} => tag'[f] \in {"gced", "raced"}
        BY <1>4, Zenon
    <2> QED
        BY <1>0, <1>1, <1>2, <2>1, Zenon DEF KeptInv, SizeAssertsHold, lsmVars, TypeOK
<1> QED
    BY <1>0, <1>3, <1>7, <1>8, <1>9, <1>10, <1>11, <1>12, Zenon DEF LiveInv

\* A GC job installs its output: it has still to write every reference to it.
LEMMA GCInstallStep ==
    ASSUME LiveInv, NEW W \in SUBSET batch, GCInstall(W)
    PROVE  LiveInv'
<1> DEFINE n == nextFile
           new == W \X {n}
<1>1. TypeOK /\ KnownInv /\ ApartInv /\ JobInv /\ EventInv /\ TagInv /\ SizeInv
      /\ KeptInv /\ SizeAssertsHold
    BY Zenon DEF LiveInv
<1>2. /\ gcInputs # {} /\ gcOutputs = {} /\ W # {}
      /\ AddBlobFile(W, 0, "PendingGC", Cardinality(W))
      /\ tag' = [tag EXCEPT ![n] = "over"] /\ gcOutputs' = {n} /\ batch' = W
      /\ UNCHANGED <<opts, tables, running, mem, written, events, gcInputs, dropped, rangeVars,
                     failed>>
    BY Zenon DEF GCInstall, lsmVars
<1>0. dropped = {} /\ Due = {} /\ Due' = new /\ Unflushed = mem /\ Unflushed' = Unflushed \cup new
    <2>1. dropped = {} /\ dropped' = {}
        BY <1>1, <1>2, Zenon DEF JobInv
    <2>2. Due = {}
        BY <1>2, Zenon DEF Due
    <2>3. batch' \cup dropped' = W
        BY <1>2, <2>1, Zenon
    <2>4. Due' = new
        BY <1>2, <2>3, Zenon DEF Due
    <2> QED
        BY <1>2, <2>1, <2>2, <2>4, Zenon DEF Unflushed
<1>3. W \in SUBSET Value /\ 0 \in Level /\ "PendingGC" \in FileState
    <2>1. W \in SUBSET Value
        BY <1>1, Zenon DEF TypeOK
    <2> QED
        BY <2>1, OptionAssumption DEF Level, FileState
<1>4. n \in File
    BY <1>1, <1>2, LimitAssumption DEF AddBlobFile, TypeOK, File
<1>5. /\ Cardinality(W) \in Nat /\ new \in SUBSET Ref /\ SizeIn(new, n) = Cardinality(W)
    BY <1>3, <1>4, SizeFull, Zenon
<1>6. /\ obsolete' = obsolete
      /\ state' \in [File -> FileState] /\ live' \in [File -> Nat]
      /\ content' \in [File -> SUBSET Value] /\ level' \in [File -> Level]
      /\ nextFile' \in 1 .. MaxFile + 1 /\ nextFile' >= n
      /\ \A f \in File : f # n =>
            state'[f] = state[f] /\ live'[f] = live[f] /\ content'[f] = content[f]
      /\ nextFile' = n + 1
      /\ state'[n] = "PendingGC" /\ live'[n] = Cardinality(W) /\ content'[n] = W
    <2> DEFINE k == Cardinality(W)
    <2>1. W # {}
        BY <1>2, Zenon
    <2>2. TypeOK /\ AddBlobFile(W, 0, "PendingGC", k) /\ k \in Nat
        BY <1>1, <1>2, <1>5, Zenon
    <2> HIDE DEF k
    <2>3. /\ obsolete' = obsolete
          /\ state' \in [File -> FileState] /\ live' \in [File -> Nat]
          /\ content' \in [File -> SUBSET Value] /\ level' \in [File -> Level]
          /\ nextFile' \in 1 .. MaxFile + 1 /\ nextFile' >= n
          /\ \A f \in File : f # n \/ W = {} =>
                state'[f] = state[f] /\ live'[f] = live[f] /\ content'[f] = content[f]
          /\ W = {} => nextFile' = n
          /\ W # {} => /\ n \in File /\ nextFile' = n + 1
                       /\ state'[n] = "PendingGC" /\ live'[n] = k /\ content'[n] = W
        BY <1>3, <2>2, AddFile, Zenon
    <2> QED
        BY <2>1, <2>3, Zenon DEF k
<1>7. /\ n \in Int /\ nextFile' \in Int
      /\ \A f \in File : f # n => tag'[f] = tag[f]
      /\ tag'[n] = "over"
    BY <1>1, <1>2, <1>4, <1>6, LimitAssumption DEF TypeOK
<1>8. TypeOK'
    <2>1. tag' \in [File -> {"exact", "over", "gced", "raced", "orphan"}]
        BY <1>1, <1>2, Zenon DEF TypeOK
    <2>2. batch' \subseteq Value /\ gcOutputs' \subseteq File
        BY <1>2, <1>3, <1>4, Zenon
    <2> QED
        BY <1>1, <1>2, <1>6, <2>1, <2>2, Zenon DEF TypeOK, rangeVars
<1>9. Grows
    BY <1>6, <1>7 DEF Grows
<1>10. tag[n] = "exact" /\ state[n] = "none" /\ n \notin obsolete \cup failed
    BY <1>1, <1>4, <1>7 DEF TagInv, FileOK
<1>11. \A r \in new : r[2] = n /\ r[1] \in W
    BY Zenon
<1>12. \A r \in new : /\ r \notin RefsOf(tables) /\ r \notin Unflushed /\ r \notin gone /\ r \notin Owed
                      /\ \A d \in events : r \notin d.input /\ r \notin d.output
    BY <1>1, <1>11, NotYet, Zenon
<1> HIDE DEF new
<1>19. JobInv'
    <2>1. mem' \cap Due' = {}
        BY <1>0, <1>2, <1>12, Zenon
    <2> QED
        BY <1>0, <1>2, <2>1, Zenon DEF JobInv
<1>13. KnownInv'
    <2>1. \A u \in tables \cup version : \A r \in u.refs : Known(r)'
        BY <1>1, <1>9, StaysKnown, Zenon DEF KnownInv, TypeOK, Table
    <2>2. \A r \in Unflushed \cup gone \cup props : Known(r)'
        <3>1. \A r \in Unflushed \cup gone \cup props : Known(r) /\ r \in Ref
            BY <1>1, Typed, Zenon DEF KnownInv, TypeOK
        <3> QED
            BY <1>9, <3>1, StaysKnown, Zenon
    <2>3. \A d \in events : \A r \in d.input \cup d.output : Known(r)'
        BY <1>1, <1>9, StaysKnown, Typed, Zenon DEF KnownInv
    <2>4. \A r \in new : Known(r)'
        BY <1>6, <1>7, <1>11 DEF Known
    <2> QED
        BY <1>0, <1>2, <2>1, <2>2, <2>3, <2>4, Zenon DEF KnownInv, rangeVars
<1>14. ApartInv'
    <2>1. new \cap (RefsOf(tables) \cup gone) = {} /\ \A e \in events : Lost(e) \cap new = {}
        BY <1>12, Zenon DEF Lost
    <2> QED
        BY <1>0, <1>1, <1>2, <2>1, Zenon DEF ApartInv, rangeVars
<1>15. EventInv'
    <2>1. \A d \in events, f \in File : Makes(d, f) => f # n
        BY <1>1, NotYet, Zenon DEF Makes, Files
    <2>2. \A d \in events, f \in File : Makes(d, f) =>
              state'[f] = state[f] /\ content'[f] = content[f] /\ tag'[f] = tag[f]
        BY <1>6, <1>7, <2>1, Zenon
    <2> QED
        BY <1>1, <1>2, <2>2 DEF EventInv
<1>16. TagInv'
    <2>1. ASSUME NEW f \in File
          PROVE  FileOK(f)'
        <3>1. FileOK(f) /\ f \in Int
            BY <1>1 DEF TagInv, File
        <3>2. CASE f # n
            <4>1. f < nextFile' <=> f < n
                BY <1>6, <1>7, <3>1, <3>2
            <4>2. /\ state'[f] = state[f] /\ tag'[f] = tag[f] /\ live'[f] = live[f]
                  /\ obsolete' = obsolete /\ failed' = failed
                  /\ gcInputs' = gcInputs /\ f \notin gcOutputs'
                BY <1>2, <1>6, <1>7, <3>2, Zenon
            <4> QED
                BY <1>7, <3>1, <4>1, <4>2 DEF FileOK
        <3>3. CASE f = n
            BY <1>2, <1>6, <1>7, <1>10, <3>1, <3>3 DEF FileOK
        <3> QED
            BY <3>2, <3>3, Zenon
    <2>2. \A r \in Unflushed : r[2] \in File /\ r[2] # n
        BY <1>1, NotYet, Typed, Zenon DEF Ref
    <2>3. \A r \in Unflushed : state'[r[2]] = state[r[2]] /\ tag'[r[2]] = tag[r[2]]
        BY <1>6, <1>7, <2>2, Zenon
    <2>4. \A r \in new : tag'[r[2]] # "exact" /\ state'[r[2]] # "PendingLSM"
        BY <1>6, <1>7, <1>11, Zenon
    <2> QED
        BY <1>0, <1>1, <1>2, <2>1, <2>3, <2>4, Zenon DEF TagInv, rangeVars
<1>17. SizeInv'
    <2> SUFFICES ASSUME NEW f \in File
                 PROVE  SizeOK(f)'
        BY Zenon DEF SizeInv
    <2>1. Owed' = Owed
        BY <1>2, Zenon DEF Owed, rangeVars
    <2>2. Held(f)' = Held(f)
        BY <1>2, <2>1, Zenon DEF Held
    <2>3. Claimed(f)' = SizeIn(RefsOf(tables) \cup (Unflushed \cup new) \cup Owed, f)
        BY <1>0, <1>2, <2>1, Zenon DEF Claimed
    <2>4. live[f] \in Nat /\ Claimed(f) \in Nat /\ Claimed(f)' \in Nat /\ SizeOK(f)
        BY <1>1, <1>8, Counted, CountedNext, Zenon DEF SizeInv
    <2>5. CASE f # n
        <3>1. On(RefsOf(tables) \cup (Unflushed \cup new) \cup Owed, f)
                  = On(RefsOf(tables) \cup Unflushed \cup Owed, f)
            BY <1>11, <2>5, Zenon DEF On
        <3>2. Claimed(f)' = Claimed(f)
            BY <2>3, <3>1, SizeSame DEF Claimed
        <3> QED
            <4>1. /\ state'[f] = state[f] /\ tag'[f] = tag[f] /\ live'[f] = live[f]
                  /\ content'[f] = content[f]
                BY <1>6, <1>7, <2>5, Zenon
            <4> QED
                BY <2>2, <2>4, <3>2, <4>1, SizeKept, Zenon
    <2>6. CASE f = n
        <3>1. \A r : r \in RefsOf(tables) \cup Unflushed \cup Owed => r[2] # n
            BY <1>1, NotYet, Zenon
        <3>2. On(RefsOf(tables) \cup (Unflushed \cup new) \cup Owed, f) = On(new, f)
            BY <2>6, <3>1, Zenon DEF On
        <3>3. Claimed(f)' = Cardinality(W)
            BY <1>5, <2>3, <2>6, <3>2, SizeSame
        <3> QED
            BY <1>5, <1>6, <1>7, <2>6, <3>3 DEF SizeOK
    <2> QED
        BY <2>5, <2>6, Zenon
<1>18. KeptInv' /\ SizeAssertsHold'
    <2>1. \A f \in obsolete \cup failed : tag'[f] = tag[f] /\ f # n
        BY <1>1, <1>7, <1>10, Zenon DEF TypeOK
    <2>2. Files(RefsOf(tables) \cup (Unflushed \cup new)) \subseteq Files(RefsOf(tables) \cup Unflushed) \cup {n}
        BY <1>11, Zenon DEF Files
    <2> QED
        BY <1>0, <1>1, <1>2, <1>6, <2>1, <2>2, Zenon DEF KeptInv, SizeAssertsHold
<1> QED
    BY <1>8, <1>13, <1>14, <1>15, <1>16, <1>17, <1>18, <1>19, Zenon DEF LiveInv

\* A key is rewritten or found overwritten: the job owes one rewrite less.
LEMMA RewriteKeyStep ==
    ASSUME LiveInv, NEW f \in gcInputs, NEW g \in gcOutputs, NEW v \in batch,
           RewriteKey(f, g, v)
    PROVE  LiveInv'
<1>1. TypeOK /\ ApartInv /\ JobInv /\ TagInv /\ KnownInv
    BY Zenon DEF LiveInv
<1>2. /\ batch' = batch \ {v}
      /\ \/ mem' = mem \cup {<<v, g>>} /\ dropped' = dropped
         \/ dropped' = dropped \cup {v} /\ mem' = mem
      /\ UNCHANGED <<opts, tables, running, written, fileVars, events, gcInputs, gcOutputs,
                     rangeVars, tag, failed>>
    BY Zenon DEF RewriteKey
<1>3. gcOutputs = {g} /\ gcOutputs' = {g} /\ gcInputs' = gcInputs
    BY <1>1, <1>2, Zenon DEF JobInv
<1>4. v \notin dropped /\ <<v, g>> \in Due /\ <<v, g>> \in Ref
    <2>1. v \notin dropped /\ <<v, g>> \in Due
        BY <1>1, Zenon DEF JobInv, Due
    <2> QED
        BY <1>1, <2>1, Zenon DEF TypeOK, Ref
<1>5. \A w, h : <<w, h>> \in Due <=> (w \in batch \/ w \in dropped) /\ h = g
    BY <1>3, Zenon DEF Due
<1>6. CASE mem' = mem \cup {<<v, g>>} /\ dropped' = dropped
    <2>1. Due' = Due \ {<<v, g>>}
        <3>1. Due' = ((batch \ {v}) \cup dropped) \X {g} /\ Due = (batch \cup dropped) \X {g}
            BY <1>2, <1>3, <1>6, Zenon DEF Due
        <3>2. (batch \ {v}) \cup dropped = (batch \cup dropped) \ {v}
            BY <1>4, Zenon
        <3>3. \A B : (B \ {v}) \X {g} = (B \X {g}) \ {<<v, g>>}
            OBVIOUS
        <3> QED
            BY <3>1, <3>2, <3>3, Zenon
    <2>2. Unflushed' = Unflushed
        BY <1>4, <1>6, <2>1, Zenon DEF Unflushed
    <2>3. JobInv'
        BY <1>1, <1>2, <1>3, <1>6, <2>1, Zenon DEF JobInv
    <2>4. TypeOK'
        BY <1>1, <1>2, <1>4, <1>6, Zenon DEF TypeOK, fileVars, rangeVars
    <2> QED
        BY <1>1, <1>2, <2>2, <2>3, <2>4, QuietStep, Zenon
        DEF rangeVars, TagInv, ApartInv, KnownInv
<1>7. CASE dropped' = dropped \cup {v} /\ mem' = mem
    <2>1. Due' = Due
        <3>1. batch' \cup dropped' = batch \cup dropped
            BY <1>2, <1>7, Zenon
        <3> QED
            BY <1>3, <3>1, Zenon DEF Due
    <2>2. Unflushed' = Unflushed
        BY <1>7, <2>1, Zenon DEF Unflushed
    <2>3. JobInv'
        BY <1>1, <1>2, <1>3, <1>7, <2>1, Zenon DEF JobInv
    <2>4. TypeOK'
        BY <1>1, <1>2, <1>4, <1>7, Zenon DEF TypeOK, fileVars, rangeVars
    <2> QED
        BY <1>1, <1>2, <2>2, <2>3, <2>4, QuietStep, Zenon
        DEF rangeVars, TagInv, ApartInv, KnownInv
<1> QED
    BY <1>2, <1>6, <1>7, Zenon

\* The job subtracts from its output what it dropped, and owes nothing any more.
LEMMA SubtractDroppedStep ==
    ASSUME LiveInv, NEW g \in gcOutputs, SubtractDropped(g)
    PROVE  LiveInv'
<1> DEFINE c == Cardinality(dropped)
<1>1. TypeOK /\ KnownInv /\ ApartInv /\ JobInv /\ EventInv /\ TagInv /\ SizeInv
      /\ KeptInv /\ SizeAssertsHold
    BY Zenon DEF LiveInv
<1>2. /\ batch = {} /\ dropped' = {}
      /\ live' = [live EXCEPT ![g] = UpdateLiveDataSize(g, - c)]
      /\ UNCHANGED <<opts, lsmVars, state, obsolete, content, level, nextFile, events,
                     gcInputs, gcOutputs, batch, rangeVars, tag, failed>>
    BY Zenon DEF SubtractDropped
<1>3. gcOutputs = {g} /\ g \in File /\ dropped \in SUBSET Value /\ live[g] \in Nat
    BY <1>1, Zenon DEF JobInv, TypeOK
<1>4. /\ Due = dropped \X {g} /\ Due \in SUBSET Ref /\ SizeIn(Due, g) = c /\ c \in Nat
      /\ On(Due, g) = Due
    <2>1. Due = dropped \X {g}
        BY <1>2, <1>3, Zenon DEF Due
    <2> QED
        BY <1>3, <2>1, SizeFull, Zenon
<1>5. /\ Unflushed' = mem /\ Unflushed = mem \cup Due /\ mem \cap Due = {} /\ JobInv'
      /\ Unflushed' \subseteq Unflushed
    <2>1. Due' = {} /\ mem' = mem
        BY <1>2, Zenon DEF Due, lsmVars
    <2> QED
        BY <1>1, <1>2, <2>1, Zenon DEF Unflushed, JobInv
<1>6. /\ live'[g] = IF live[g] - c > 0 THEN live[g] - c ELSE 0
      /\ \A f \in File : f # g => live'[f] = live[f]
      /\ live' \in [File -> Nat]
    <2>1. live[g] + (- c) \in Int /\ live[g] + (- c) = live[g] - c
        BY <1>3, <1>4
    <2>2. UpdateLiveDataSize(g, - c) = IF live[g] - c > 0 THEN live[g] - c ELSE 0
        <3> HIDE DEF c
        <3> QED
            BY <2>1, MaxZero DEF UpdateLiveDataSize
    <2>3. UpdateLiveDataSize(g, - c) \in Nat
        BY <1>3, <1>4, <2>2
    <2>4. live \in [File -> Nat]
        BY <1>1, Zenon DEF TypeOK
    <2> HIDE DEF c
    <2> QED
        BY <1>2, <1>3, <2>2, <2>3, <2>4
<1> HIDE DEF c
<1>7. TypeOK'
    BY <1>1, <1>2, <1>6, Zenon DEF TypeOK, lsmVars, rangeVars
<1>8. KnownInv'
    BY <1>1, <1>2, <1>5, Zenon DEF KnownInv, Known, lsmVars, rangeVars
<1>9. ApartInv'
    BY <1>1, <1>2, <1>5, Zenon DEF ApartInv, lsmVars, rangeVars
<1>10. EventInv'
    BY <1>1, <1>2, Zenon DEF EventInv
<1>11. TagInv'
    <2>1. tag[g] # "orphan"
        BY <1>1, <1>3, Zenon DEF TagInv, FileOK
    <2>2. \A f \in File : tag[f] = "orphan" => live'[f] = live[f]
        BY <1>6, <2>1, Zenon
    <2> QED
        BY <1>1, <1>2, <1>5, <2>2, Zenon DEF TagInv, FileOK, rangeVars
<1>12. SizeInv'
    <2> SUFFICES ASSUME NEW f \in File
                 PROVE  SizeOK(f)'
        BY Zenon DEF SizeInv
    <2> DEFINE C == RefsOf(tables) \cup mem \cup Owed
    <2>1. Owed' = Owed /\ tables' = tables
        BY <1>2, Zenon DEF Owed, lsmVars, rangeVars
    <2>2. Held(f)' = Held(f)
        BY <2>1, Zenon DEF Held
    <2>3. /\ live[f] \in Nat /\ Claimed(f) \in Nat /\ Claimed(f)' \in Nat
          /\ SizeOK(f) /\ FileOK(f)
        BY <1>1, <1>7, Counted, CountedNext, Zenon DEF SizeInv, TagInv
    <2>4. C \in SUBSET Ref
        BY <1>1, <1>5, Typed, Zenon
    <2>5. Claimed(f)' = SizeIn(C, f) /\ Claimed(f) = SizeIn(C \cup Due, f)
        <3>1. RefsOf(tables) \cup Unflushed \cup Owed = C \cup Due
            BY <1>5, Zenon
        <3> QED
            BY <1>5, <2>1, <3>1, Zenon DEF Claimed
    <2>6. On(C, f) \cap On(Due, f) = {}
        <3>1. Due \cap RefsOf(tables) = {} /\ Due \cap gone = {}
            BY <1>1, <1>5, Zenon DEF ApartInv
        <3>2. \A e \in events : Lost(e) \cap Due = {}
            BY <1>1, <1>5, Zenon DEF ApartInv
        <3>3. Due \cap Owed = {}
            BY <1>1, <3>1, <3>2, Typed, Zenon
        <3> QED
            BY <1>5, <3>1, <3>3, Zenon DEF On
    <2> HIDE DEF C
    <2>7. Claimed(f) = Claimed(f)' + SizeIn(Due, f)
        <3>1. Due \in SUBSET Ref
            BY <1>4, Zenon
        <3>2. SizeIn(C \cup Due, f) = SizeIn(C, f) + SizeIn(Due, f)
            BY <2>4, <2>6, <3>1, SizeAdds, Zenon
        <3> QED
            BY <2>5, <3>2, Zenon
    <2>8. content' = content /\ tag' = tag /\ state' = state
        BY <1>2, Zenon
    <2>9. CASE f # g
        <3>1. On(Due, f) = {}
            BY <1>4, <2>9, Zenon DEF On
        <3>2. SizeIn(Due, f) = 0
            BY <1>4, <3>1, SizeZero, Zenon
        <3>3. Claimed(f)' = Claimed(f)
            BY <2>3, <2>7, <3>2
        <3>4. live'[f] = live[f]
            BY <1>6, <2>9, Zenon
        <3> QED
            BY <2>2, <2>3, <2>8, <3>3, <3>4, SizeKept, Zenon
    <2>10. CASE f = g
        <3>1. tag[f] # "exact" /\ tag[f] # "orphan"
            BY <1>3, <2>3, <2>10, Zenon DEF FileOK
        <3>2. tag[f] = "over" /\ state[f] # "Obsolete" => live'[f] >= Claimed(f)'
            <4> SUFFICES ASSUME tag[f] = "over", state[f] # "Obsolete"
                         PROVE  live'[f] >= Claimed(f)'
                BY Zenon
            <4>1. live[f] >= Claimed(f)
                BY <2>3, Zenon DEF SizeOK
            <4> QED
                BY <1>4, <1>6, <2>3, <2>7, <2>10, <4>1
        <3>3. state[f] = "PendingLSM" => live'[f] <= Cardinality(content[f]) - Held(f)
            <4> SUFFICES ASSUME state[f] = "PendingLSM"
                         PROVE  live'[f] <= Cardinality(content[f]) - Held(f)
                BY Zenon
            <4>1. live[f] <= Cardinality(content[f]) - Held(f)
                BY <2>3, <3>1, Zenon DEF SizeOK
            <4>2. Held(f) \in Nat /\ Cardinality(content[f]) \in Nat
                BY <1>1, Counted, Zenon
            <4> QED
                BY <1>4, <1>6, <2>3, <2>10, <4>1, <4>2
        <3> QED
            BY <2>2, <2>8, <3>1, <3>2, <3>3, Zenon DEF SizeOK
    <2> QED
        BY <2>9, <2>10, Zenon
<1>13. KeptInv' /\ SizeAssertsHold'
    <2>1. Files(RefsOf(tables') \cup Unflushed') \subseteq Files(RefsOf(tables) \cup Unflushed)
        BY <1>2, <1>5, Zenon DEF Files, lsmVars
    <2> QED
        BY <1>1, <1>2, <2>1, Zenon DEF KeptInv, SizeAssertsHold
<1> QED
    BY <1>5, <1>7, <1>8, <1>9, <1>10, <1>11, <1>12, <1>13, Zenon DEF LiveInv

\* A GC job ends, well or not, and releases its files.
LEMMA GCEndStep ==
    ASSUME LiveInv, NEW g \in gcInputs, NEW ok \in BOOLEAN, GCEnd(g, ok)
    PROVE  LiveInv'
<1> DEFINE released == {f \in gcInputs \cup gcOutputs : state[f] # "Obsolete" /\ ~(ok /\ f = g)}
<1>1. TypeOK /\ KnownInv /\ ApartInv /\ JobInv /\ EventInv /\ TagInv /\ SizeInv
      /\ KeptInv /\ SizeAssertsHold
    BY Zenon DEF LiveInv
<1>2. /\ gcInputs' = {} /\ gcOutputs' = {} /\ batch' = {} /\ dropped' = {}
      /\ state' = [f \in File |-> IF ok /\ f = g THEN "Obsolete"
                                  ELSE IF f \in released THEN "Normal" ELSE state[f]]
      /\ obsolete' = obsolete \cup IF ok THEN {g} ELSE {}
      /\ tag' = [tag EXCEPT ![g] = IF ok THEN "gced" ELSE @]
      /\ UNCHANGED <<opts, lsmVars, live, content, level, nextFile, events, rangeVars, failed>>
    BY Zenon DEF GCEnd
<1>0. Unflushed' = mem /\ Unflushed' \subseteq Unflushed /\ JobInv'
    <2>1. Due' = {} /\ mem' = mem
        BY <1>2, Zenon DEF Due, lsmVars
    <2> QED
        BY <1>2, <2>1, Zenon DEF Unflushed, JobInv
<1>3. \A f \in File : FileOK(f) /\ SizeOK(f)
    BY <1>1, Zenon DEF TagInv, SizeInv
<1>4. g \in File /\ \A f \in released \cup {g} : /\ f \in File /\ f < nextFile
                                                /\ tag[f] \in {"over", "gced", "raced"}
    <2>1. \A f \in gcInputs \cup gcOutputs : f \in File /\ tag[f] \in {"over", "gced", "raced"}
        BY <1>1, <1>3, Zenon DEF TypeOK, FileOK
    <2>2. \A f \in File : f \in Int /\ nextFile \in Int
        BY <1>1, LimitAssumption DEF TypeOK, File
    <2>3. \A f \in gcInputs \cup gcOutputs : f < nextFile
        BY <1>3, <2>1, <2>2 DEF FileOK
    <2> QED
        BY <2>1, <2>3, Zenon
<1>5. \A f \in released : state[f] # "Obsolete"
    BY Zenon
<1>6. /\ \A f \in File : state'[f] = IF ok /\ f = g THEN "Obsolete"
                                     ELSE IF f \in released THEN "Normal" ELSE state[f]
      /\ \A f \in File : tag'[f] = IF ok /\ f = g THEN "gced" ELSE tag[f]
    BY <1>1, <1>2, <1>4, Zenon DEF TypeOK
<1> HIDE DEF released
<1>7. TypeOK'
    <2>1. state' \in [File -> FileState]
        BY <1>1, <1>2, Zenon DEF TypeOK, FileState
    <2>2. tag' \in [File -> {"exact", "over", "gced", "raced", "orphan"}]
        BY <1>1, <1>2, Zenon DEF TypeOK
    <2>3. obsolete' \subseteq File
        BY <1>1, <1>2, <1>4, Zenon DEF TypeOK
    <2> QED
        BY <1>1, <1>2, <2>1, <2>2, <2>3, Zenon DEF TypeOK, lsmVars, rangeVars
<1>8. KnownInv'
    <2>1. \A r \in Ref : Known(r) => Known(r)'
        BY <1>2, <1>6 DEF Known, Ref
    <2>2. /\ \A t \in tables \cup version : \A r \in t.refs : r \in Ref
          /\ \A e \in events : \A r \in e.input \cup e.output : r \in Ref
          /\ Unflushed \cup gone \cup props \subseteq Ref
        BY <1>1, Typed, Zenon DEF TypeOK, Table
    <2> QED
        BY <1>0, <1>1, <1>2, <2>1, <2>2, Zenon DEF KnownInv, lsmVars, rangeVars
<1>9. ApartInv'
    BY <1>0, <1>1, <1>2, Zenon DEF ApartInv, lsmVars, rangeVars
<1>10. EventInv'
    <2>1. \A f \in File : /\ state'[f] = "PendingLSM" => state[f] = "PendingLSM"
                          /\ tag[f] \in {"raced", "gced"} => tag'[f] \in {"raced", "gced"}
        BY <1>6, Zenon
    <2>2. \A f \in File : state[f] = "PendingLSM" =>
              state'[f] = "PendingLSM" \/ tag'[f] \in {"raced", "gced"}
        BY <1>3, <1>4, <1>6, Zenon DEF FileOK
    <2> QED
        BY <1>1, <1>2, <2>1, <2>2, Zenon DEF EventInv
<1>11. TagInv'
    <2>1. ASSUME NEW f \in File
          PROVE  FileOK(f)'
        <3>1. FileOK(f) /\ f \in Int /\ nextFile \in Int
            BY <1>1, <1>3, LimitAssumption DEF TypeOK, File
        <3>2. /\ nextFile' = nextFile /\ live' = live /\ failed' = failed
              /\ obsolete \subseteq obsolete' /\ (f \in obsolete' => f \in obsolete \/ f = g)
              /\ f \notin gcInputs' \cup gcOutputs'
            BY <1>2, Zenon
        <3>3. CASE f \in released \cup {g}
            BY <1>4, <1>6, <3>1, <3>2, <3>3, Zenon DEF FileOK
        <3>4. CASE f \notin released \cup {g}
            BY <1>6, <3>1, <3>2, <3>4, Zenon DEF FileOK
        <3> QED
            BY <3>3, <3>4, Zenon
    <2>2. \A r \in Unflushed : tag'[r[2]] # "exact" /\ state'[r[2]] # "PendingLSM"
        BY <1>1, <1>6, Typed, Zenon DEF TagInv, Ref
    <2> QED
        BY <1>0, <1>1, <1>2, <2>1, <2>2, Zenon DEF TagInv, rangeVars
<1>12. SizeInv'
    <2> SUFFICES ASSUME NEW f \in File
                 PROVE  SizeOK(f)'
        BY Zenon DEF SizeInv
    <2>1. Owed' = Owed
        BY <1>2, Zenon DEF Owed, rangeVars
    <2>2. Held(f)' = Held(f)
        BY <1>2, <2>1, Zenon DEF Held, lsmVars
    <2>3. live' = live /\ content' = content /\ SizeOK(f) /\ tables' = tables
        BY <1>2, <1>3, Zenon DEF lsmVars
    <2>4. live[f] \in Nat /\ Claimed(f) \in Nat /\ Claimed(f)' \in Nat
        BY <1>1, <1>7, Counted, CountedNext, Zenon
    <2>5. Claimed(f)' <= Claimed(f)
        <3>1. /\ RefsOf(tables) \cup Unflushed \cup Owed \in SUBSET Ref
              /\ RefsOf(tables) \cup Unflushed' \cup Owed \in SUBSET Ref
            BY <1>0, <1>1, Typed, Zenon
        <3>2. On(RefsOf(tables) \cup Unflushed' \cup Owed, f)
                  \subseteq On(RefsOf(tables) \cup Unflushed \cup Owed, f)
            BY <1>0, Zenon DEF On
        <3>3. Claimed(f)' = SizeIn(RefsOf(tables) \cup Unflushed' \cup Owed, f)
            BY <2>1, <2>3, Zenon DEF Claimed
        <3> QED
            BY <3>1, <3>2, <3>3, SizeLess, Zenon DEF Claimed
    <2>6. tag[f] = "over" /\ state[f] # "Obsolete" => live[f] >= Claimed(f)'
        <3>1. tag[f] = "over" /\ state[f] # "Obsolete" => live[f] >= Claimed(f)
            BY <2>3, Zenon DEF SizeOK
        <3> QED
            BY <2>4, <2>5, <3>1
    <2>7. CASE f = g \/ f \in released
        BY <1>4, <1>5, <1>6, <2>2, <2>3, <2>6, <2>7, Zenon DEF SizeOK
    <2>8. CASE f # g /\ f \notin released
        BY <1>6, <2>2, <2>3, <2>6, <2>8, Zenon DEF SizeOK
    <2> QED
        BY <2>7, <2>8, Zenon
<1>13. KeptInv' /\ SizeAssertsHold'
    <2>1. \A f \in File : /\ tag'[f] \notin {"gced", "raced"} => tag[f] \notin {"gced", "raced"}
                          /\ tag[f] \in {"gced", "raced"} => tag'[f] \in {"gced", "raced"}
        BY <1>6, Zenon
    <2>2. ok => tag'[g] = "gced"
        BY <1>4, <1>6, Zenon
    <2> QED
        <3>1. Files(RefsOf(tables') \cup Unflushed') \subseteq Files(RefsOf(tables) \cup Unflushed)
            BY <1>0, <1>2, Zenon DEF Files, lsmVars
        <3> QED
            BY <1>1, <1>2, <2>1, <2>2, <3>1, Zenon DEF KeptInv, SizeAssertsHold, TypeOK
<1> QED
    BY <1>0, <1>7, <1>8, <1>9, <1>10, <1>11, <1>12, <1>13, Zenon DEF LiveInv

\* A restart counts every file afresh from the properties of the SSTs.
LEMMA RestartStep ==
    ASSUME LiveInv, Restart
    PROVE  LiveInv'
<1> DEFINE t == [level |-> 0, refs |-> mem]
           T == tables \cup IF mem = {} THEN {} ELSE {t}
           F == {f \in File : state[f] # "none"} \ obsolete
           R == RefsOf(tables) \cup mem
<1>1. TypeOK /\ KnownInv /\ ApartInv /\ JobInv /\ EventInv /\ TagInv /\ SizeInv
      /\ KeptInv /\ SizeAssertsHold
    BY Zenon DEF LiveInv
<1>2. /\ tables' = T /\ mem' = {} /\ running' = {} /\ events' = {}
      /\ gcInputs' = {} /\ gcOutputs' = {} /\ batch' = {} /\ dropped' = {}
      /\ dpc' = "idle" /\ version' = {} /\ range' = {} /\ props' = {} /\ gone' = {}
      /\ live' = [f \in File |-> IF f \in F THEN SizeIn(RefsOf(T), f) ELSE 0]
      /\ state' = [f \in File |-> IF f \in F THEN "Normal" ELSE "none"]
      /\ tag' = [f \in File |-> IF f \in F THEN "exact" ELSE tag[f]]
      /\ failed' = {}
      /\ UNCHANGED <<opts, written, obsolete, content, level, nextFile>>
    BY Zenon DEF Restart
<1>0. Unflushed' = {} /\ JobInv' /\ mem \subseteq Unflushed
    <2>1. Due' = {}
        BY <1>2, Zenon DEF Due
    <2> QED
        BY <1>2, <2>1, Zenon DEF Unflushed, JobInv
<1>3. RefsOf(T) = R
    <2>1. t.refs = mem
        BY Zenon
    <2> HIDE DEF t
    <2>2. RefsOf({t}) = mem /\ RefsOf({}) = {}
        BY <2>1, RefsOne, Zenon
    <2>3. CASE mem = {}
        BY <2>3, Zenon
    <2>4. CASE mem # {}
        BY <2>2, <2>4, RefsCup, Zenon
    <2> QED
        BY <2>3, <2>4, Zenon
<1>4. R \in SUBSET Ref /\ \A f \in File : SizeIn(R, f) \in Nat
    BY <1>0, <1>1, Typed, SizeFinite, Zenon
<1>5. T \in SUBSET Table /\ \A u, w \in T : u # w => u.refs \cap w.refs = {}
    <2>1. t \in Table /\ t.refs = mem
        BY <1>1, OptionAssumption DEF Table, TypeOK, Level
    <2>2. \A u \in tables : u.refs \cap mem = {}
        <3>1. mem \cap RefsOf(tables) = {}
            BY <1>0, <1>1, Zenon DEF ApartInv
        <3> QED
            BY <3>1, Zenon DEF RefsOf
    <2> HIDE DEF t
    <2> QED
        BY <1>1, <2>1, <2>2 DEF TypeOK, ApartInv
<1>6. \A r \in R : Known(r)
    BY <1>0, <1>1, RefsIn, Zenon DEF KnownInv
<1>7. \A f \in File : FileOK(f)
    BY <1>1, Zenon DEF TagInv
<1>8. \A f \in File : f \notin F => f \in obsolete \/ (f >= nextFile /\ tag[f] = "exact")
    <2>1. \A f \in File : f \in Int /\ nextFile \in Int
        BY <1>1, LimitAssumption DEF TypeOK, File
    <2> QED
        BY <1>7, <2>1 DEF FileOK
<1>9. \A f \in F : f \in File /\ f \notin obsolete /\ state[f] # "none"
    BY Zenon
<1> HIDE DEF T, F, R
<1>10. \A f \in File : /\ live'[f] = IF f \in F THEN SizeIn(R, f) ELSE 0
                       /\ state'[f] = IF f \in F THEN "Normal" ELSE "none"
                       /\ tag'[f] = IF f \in F THEN "exact" ELSE tag[f]
    BY <1>2, <1>3, Zenon
<1>11. \A f \in File : tag'[f] # "orphan"
    BY <1>7, <1>8, <1>10, Zenon DEF FileOK
<1>12. TypeOK'
    <2>1. live' \in [File -> Nat]
        BY <1>2, <1>3, <1>4, Zenon
    <2>2. /\ state' \in [File -> FileState]
          /\ tag' \in [File -> {"exact", "over", "gced", "raced", "orphan"}]
        BY <1>1, <1>2, Zenon DEF TypeOK, FileState
    <2> QED
        BY <1>1, <1>2, <1>5, <2>1, <2>2, Zenon DEF TypeOK
<1>13. KnownInv'
    <2>1. \A r \in R : Known(r)'
        BY <1>2, <1>4, <1>6, <1>11, Zenon DEF Known, Ref
    <2>2. \A u \in T : u.refs \subseteq R
        BY <1>3, RefsIn, Zenon
    <2> QED
        BY <1>0, <1>2, <2>1, <2>2, Zenon DEF KnownInv
<1>14. ApartInv'
    BY <1>0, <1>2, <1>5, Zenon DEF ApartInv
<1>15. EventInv'
    BY <1>2, Zenon DEF EventInv
<1>16. TagInv'
    <2>1. ASSUME NEW f \in File
          PROVE  FileOK(f)'
        <3>1. FileOK(f)
            BY <1>7, Zenon
        <3>2. /\ nextFile' = nextFile /\ obsolete' = obsolete /\ f \notin failed'
              /\ f \notin gcInputs' \cup gcOutputs'
            BY <1>2, Zenon
        <3>3. CASE f \in F
            <4>1. ~(f >= nextFile)
                BY <1>9, <3>1, <3>3, Zenon DEF FileOK
            <4> QED
                BY <1>10, <3>2, <3>3, <4>1, Zenon DEF FileOK
        <3>4. CASE f \notin F
            <4>1. f \in obsolete \/ (f >= nextFile /\ f \in Int /\ nextFile \in Int)
                BY <1>1, <1>8, <3>4, LimitAssumption DEF TypeOK, File
            <4> QED
                BY <1>10, <1>11, <3>1, <3>2, <3>4, <4>1, Zenon DEF FileOK
        <3> QED
            BY <3>3, <3>4, Zenon
    <2> QED
        BY <1>0, <1>2, <2>1, Zenon DEF TagInv
<1>17. SizeInv'
    <2> SUFFICES ASSUME NEW f \in File
                 PROVE  SizeOK(f)'
        BY Zenon DEF SizeInv
    <2>1. Owed' = {}
        <3>1. \A r : r \in Owed' <=> r \in gone' \/ \E d \in events' : r \in Lost(d)
            BY <1>12, TypedNext, Zenon
        <3> QED
            BY <1>2, <3>1, Zenon
    <2>2. Held(f)' = SizeIn(R, f) /\ Claimed(f)' = SizeIn(R, f)
        <3>1. RefsOf(tables') \cup Owed' = R /\ RefsOf(tables') \cup Unflushed' \cup Owed' = R
            BY <1>0, <1>2, <1>3, <2>1, Zenon
        <3> QED
            BY <1>12, <3>1, CountedNext, Zenon DEF Claimed
    <2>3. CASE f \in F
        BY <1>10, <2>2, <2>3, Zenon DEF SizeOK
    <2>4. CASE f \notin F
        <3>1. tag[f] = "over" => SizeIn(R, f) = 0
            <4> SUFFICES ASSUME tag[f] = "over"
                         PROVE  SizeIn(R, f) = 0
                BY Zenon
            <4>1. f \notin Files(R)
                BY <1>0, <1>1, <1>8, <2>4, Zenon DEF KeptInv, R, Files
            <4>2. On(R, f) = {}
                BY <4>1, Zenon DEF On, Files
            <4> QED
                BY <1>4, <4>2, SizeZero, Zenon
        <3> QED
            BY <1>10, <2>2, <2>4, <3>1 DEF SizeOK
    <2> QED
        BY <2>3, <2>4, Zenon
<1>18. KeptInv' /\ SizeAssertsHold'
    <2>1. \A f \in obsolete : tag'[f] = tag[f]
        BY <1>1, <1>9, <1>10, Zenon DEF TypeOK
    <2>2. RefsOf(tables') \cup Unflushed' \subseteq RefsOf(tables) \cup Unflushed
        BY <1>0, <1>2, <1>3, Zenon DEF R
    <2> QED
        <3>1. Files(RefsOf(tables') \cup Unflushed') \subseteq Files(RefsOf(tables) \cup Unflushed)
            BY <2>2, Zenon DEF Files
        <3>2. obsolete' = obsolete /\ failed' = {}
            BY <1>2, Zenon
        <3> QED
            BY <1>1, <2>1, <3>1, <3>2, Zenon DEF KeptInv, SizeAssertsHold
<1> QED
    BY <1>0, <1>12, <1>13, <1>14, <1>15, <1>16, <1>17, <1>18, Zenon DEF LiveInv

-----------------------------------------------------------------------------
(* The theorems.                                                           *)

\* A new database has no file and no reference.
LEMMA InitLive == Init => LiveInv
<1> SUFFICES ASSUME Init
             PROVE  LiveInv
    BY Zenon
<1>1. TypeOK
    BY LimitAssumption, OptionAssumption DEF Init, TypeOK, FileState, Level
<1>2. KnownInv /\ ApartInv /\ JobInv /\ EventInv
    <2>1. RefsOf({}) = {}
        BY Zenon DEF RefsOf
    <2>2. Due = {}
        BY Zenon DEF Init, Due
    <2> QED
        BY <2>1, <2>2, Zenon DEF Init, KnownInv, ApartInv, JobInv, EventInv, Unflushed
<1>3. TagInv
    <2>1. \A f \in File : FileOK(f)
        BY DEF Init, FileOK, File
    <2>2. Unflushed = {}
        BY Zenon DEF Init, Due, Unflushed
    <2> QED
        BY <2>1, <2>2, Zenon DEF Init, TagInv
<1>4. SizeInv
    BY Zenon DEF Init, SizeInv, SizeOK
<1>5. KeptInv /\ SizeAssertsHold
    BY Zenon DEF Init, KeptInv, SizeAssertsHold
<1> QED
    BY <1>1, <1>2, <1>3, <1>4, <1>5, Zenon DEF LiveInv

\* Every action keeps the invariant.
LEMMA NextLive == LiveInv /\ [Next]_vars => LiveInv'
<1> SUFFICES ASSUME LiveInv, [Next]_vars
             PROVE  LiveInv'
    BY Zenon
<1>1. 0 \in Level /\ TypeOK
    BY OptionAssumption DEF Level, LiveInv
<1>2. ASSUME NEW V \in SUBSET (Value \ written), NEW M \in SUBSET mem, Flush(V, M)
      PROVE  LiveInv'
    BY <1>2, FlushStep, Zenon
<1>3. ASSUME NEW I \in SUBSET tables, StartCompaction(I)
      PROVE  LiveInv'
    BY <1>3, StartCompactionStep, Zenon
<1>4. ASSUME Compact
      PROVE  LiveInv'
    <2>1. PICK I \in running, lvl \in Level \ {0}, cut \in Value :
              \E K \in SUBSET RefsOf(I) : \E M \in SUBSET K : FinishCompaction(I, K, M, lvl, cut)
        BY <1>4, Zenon DEF Compact
    <2>2. PICK K \in SUBSET RefsOf(I) : \E M \in SUBSET K : FinishCompaction(I, K, M, lvl, cut)
        BY <2>1, Zenon
    <2>3. PICK M \in SUBSET K : FinishCompaction(I, K, M, lvl, cut)
        BY <2>2, Zenon
    <2> QED
        BY <2>3, FinishCompactionStep, Zenon
<1>5. ASSUME NEW V \in SUBSET (Value \ written), FailTable({}, V, 0)
      PROVE  LiveInv'
    BY <1>1, <1>5, FailTableStep, Zenon
<1>6. ASSUME NEW I \in running, NEW lvl \in Level \ {0},
             NEW V \in SUBSET Values({r \in RefsOf(I) : ShouldMerge(r[2], lvl)}),
             FailTable(I, V, lvl)
      PROVE  LiveInv'
    <2>1. RefsOf(I) \in SUBSET Ref
        BY <1>1, RefsTyped, Zenon DEF TypeOK
    <2>2. V \in SUBSET Value
        BY <2>1, Zenon DEF Values, Ref
    <2> QED
        BY <1>6, <2>2, FailTableStep, Zenon
<1>7. ASSUME Listen
      PROVE  LiveInv'
    BY <1>7, OnFlushCompletedStep, OnCompactionCompletedStep, Zenon DEF Listen
<1>8. ASSUME NEW lo \in Value, NEW hi \in Value, TakeVersion(lo .. hi)
      PROVE  LiveInv'
    <2>1. lo .. hi \in SUBSET Value
        BY LimitAssumption DEF Value
    <2> QED
        BY <1>8, <2>1, TakeVersionStep, Zenon
<1>9. ASSUME ReadProperties \/ DeleteTables \/ UpdateSizes \/ Restart
      PROVE  LiveInv'
    BY <1>9, ReadPropertiesStep, DeleteTablesStep, UpdateSizesStep, RestartStep, Zenon
<1>10. ASSUME NEW f \in File, GCBegin(f)
       PROVE  LiveInv'
    BY <1>10, GCBeginStep, Zenon
<1>11. ASSUME NEW W \in SUBSET batch, GCInstall(W)
       PROVE  LiveInv'
    BY <1>11, GCInstallStep, Zenon
<1>14. ASSUME NEW f \in gcInputs, NEW g \in gcOutputs, NEW v \in batch, RewriteKey(f, g, v)
       PROVE  LiveInv'
    BY <1>14, RewriteKeyStep, Zenon
<1>15. ASSUME NEW g \in gcOutputs, SubtractDropped(g)
       PROVE  LiveInv'
    BY <1>15, SubtractDroppedStep, Zenon
<1>12. ASSUME NEW f \in gcInputs, NEW ok \in BOOLEAN, GCEnd(f, ok)
       PROVE  LiveInv'
    BY <1>12, GCEndStep, Zenon
<1>13. ASSUME UNCHANGED vars
       PROVE  LiveInv'
    BY <1>13, StutterStep, Zenon
<1> QED
    BY <1>2, <1>3, <1>4, <1>5, <1>6, <1>7, <1>8, <1>9, <1>10, <1>11, <1>12, <1>13,
       <1>14, <1>15, Zenon DEF Next

\* In whatever order flushes, compactions and their listener calls, DeleteFilesInRanges,
\* GC and restarts come, a reference is in one place and every size is known.
THEOREM LiveSizesInductive == Spec => []LiveInv
<1>1. Init => LiveInv
    BY InitLive, Zenon
<1>2. LiveInv /\ [Next]_vars => LiveInv'
    BY NextLive, Zenon
<1> QED
    BY <1>1, <1>2, PTL DEF Spec

\* No listener call casts a negative number to live_data_size_.
THEOREM NoCastWraps == Spec => []CastsSafe
<1>1. LiveInv => CastsSafe
    <2> SUFFICES ASSUME LiveInv, NEW e \in events, NEW f \in File, state[f] = "PendingLSM",
                        SizeIn(e.output, f) - SizeIn(e.input, f) > 0
                 PROVE  live[f] <= SizeIn(e.output, f) - SizeIn(e.input, f)
        BY Zenon DEF CastsSafe
    <2>1. TypeOK /\ KnownInv /\ EventInv /\ SizeOK(f)
        BY Zenon DEF LiveInv, SizeInv
    <2>2. /\ e.input \in SUBSET Ref /\ e.output \in SUBSET Ref
          /\ SizeIn(e.input, f) \in Nat /\ SizeIn(e.output, f) \in Nat
        BY <2>1, Typed, SizeFinite, Zenon
    \* A file the call has more references to than before is one it made.
    <2>3. Makes(e, f)
        <3> SUFFICES ASSUME ~Makes(e, f)
                     PROVE  FALSE
            BY Zenon
        <3>1. On(e.output, f) \subseteq On(e.input, f)
            BY Zenon DEF Makes, Files, On
        <3>2. SizeIn(e.output, f) <= SizeIn(e.input, f)
            BY <2>2, <3>1, SizeLess, Zenon
        <3> QED
            BY <2>2, <3>2
    <2>4. On(e.input, f) = {} /\ On(e.output, f) = content[f] \X {f}
        BY <2>1, <2>3, Zenon DEF EventInv
    <2>5. /\ live[f] \in Nat /\ Held(f) \in Nat /\ Cardinality(content[f]) \in Nat
          /\ content[f] \in SUBSET Value
        BY <2>1, Counted, Zenon
    <2>6. SizeIn(e.output, f) = Cardinality(content[f]) /\ SizeIn(e.input, f) = 0
        BY <2>2, <2>4, <2>5, SizeWhole, SizeZero, Zenon
    <2>7. tag[f] # "orphan"
        <3>1. PICK r \in e.output : r[2] = f
            BY <2>3, Zenon DEF Makes, Files
        <3> QED
            BY <2>1, <3>1, Zenon DEF KnownInv, Known
    <2>8. live[f] <= Cardinality(content[f]) - Held(f)
        BY <2>1, <2>7, Zenon DEF SizeOK
    <2> QED
        BY <2>5, <2>6, <2>8
<1> QED
    BY <1>1, LiveSizesInductive, PTL

\* live_data_size_ is what SSTs refer to and what calls still to come take away, in
\* whatever order OnFlushCompleted and OnCompactionCompleted are called.
THEOREM LiveSizesTrack == Spec => []LiveSizeTracks
<1>1. LiveInv => LiveSizeTracks
    <2> SUFFICES ASSUME LiveInv, NEW f \in File
                 PROVE  /\ tag[f] = "exact" /\ state[f] \in {"Normal", "ToMerge"} => live[f] = Held(f)
                        /\ tag[f] = "exact" /\ state[f] = "PendingLSM"
                               => live[f] = Cardinality(content[f]) - Held(f)
                        /\ tag[f] = "over" /\ state[f] # "Obsolete"
                               => live[f] >= Cardinality({r \in RefsOf(tables) \cup mem : r[2] = f})
        BY Zenon DEF LiveSizeTracks
    <2> DEFINE R == RefsOf(tables) \cup mem
    <2>1. SizeOK(f) /\ TypeOK
        BY Zenon DEF LiveInv, SizeInv
    <2> DEFINE C == RefsOf(tables) \cup Unflushed \cup Owed
    <2>2. R \in SUBSET Ref /\ C \in SUBSET Ref /\ R \subseteq C
        BY <2>1, Typed, Zenon DEF Unflushed
    <2>4. Claimed(f) = SizeIn(C, f) /\ Claimed(f) \in Nat /\ live[f] \in Nat
        BY <2>1, Counted, Zenon DEF Claimed
    <2> HIDE DEF C
    <2>3. On(R, f) \subseteq On(C, f)
        BY <2>2, Zenon DEF On
    <2> HIDE DEF R
    <2>5. SizeIn(R, f) <= Claimed(f) /\ SizeIn(R, f) \in Nat
        BY <2>2, <2>3, <2>4, SizeLess, SizeFinite, Zenon
    <2>6. tag[f] = "over" /\ state[f] # "Obsolete" => live[f] >= SizeIn(R, f)
        BY <2>1, <2>4, <2>5 DEF SizeOK
    <2>7. SizeIn(R, f) = Cardinality({r \in RefsOf(tables) \cup mem : r[2] = f})
        BY Zenon DEF SizeIn, R
    <2> QED
        BY <2>1, <2>6, <2>7, Zenon DEF SizeOK
<1> QED
    BY <1>1, LiveSizesInductive, PTL

\* Level merge deletes no file that an SST or the memtable refers to, but for the
\* race of DeleteFilesInRanges that LiveFilesKept names.
THEOREM LiveFilesStay == Spec => []LiveFilesKept
<1>1. LiveInv => LiveFilesKept
    <2>1. Files(RefsOf(tables) \cup mem) \subseteq Files(RefsOf(tables) \cup Unflushed)
        BY Zenon DEF Files, Unflushed
    <2> QED
        BY <2>1, Zenon DEF LiveInv, KeptInv, LiveFilesKept
<1> QED
    BY <1>1, LiveSizesInductive, PTL

\* No compaction makes a settled size grow, and neither one nor DeleteFilesInRanges
\* takes away more than there is, but for the race that LiveFilesKept names.
THEOREM SizeAssertions == Spec => []SizeAssertsHold
<1>1. LiveInv => SizeAssertsHold
    BY Zenon DEF LiveInv
<1> QED
    BY <1>1, LiveSizesInductive, PTL
=============================================================================
