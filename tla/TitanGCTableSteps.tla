------------------------- MODULE TitanGCTableSteps --------------------------
(***************************************************************************)
(* Opening a flush or a compaction, writing its table, and finishing,      *)
(* installing, completing or failing it preserve IInv.                     *)
(***************************************************************************)
EXTENDS TitanGCUserSteps, TitanTables, WellFoundedInduction, TLAPS

\* A builder's run keeps the types.
LEMMA BuildTableType ==
    ASSUME TypeOK, NEW t \in Builder, NEW S \in SUBSET Entry, NEW drop,
           NEW G \in SUBSET File, BuildTable(t, S, drop, G),
           compacts' \in 0 .. MaxCompact
    PROVE  TypeOK'
<1> USE BoundsAssumption, ModeAssumption
<1> DEFINE K == Kept(S) \ drop
           M == ToBlob(K, G)
           I == ToInline(K)
           recs == {RecordOf(Separated(e, nextFile)) : e \in M}
           D == (K \ (M \cup I)) \cup {Separated(e, nextFile) : e \in M}
                                 \cup {Inlined(e) : e \in I}
<1>0. /\ IF M = {} THEN UNCHANGED <<nextFile, disk, content>> ELSE NewFile(recs)
      /\ tout' = [tout EXCEPT ![t] = IF M = {} THEN 0 ELSE nextFile]
      /\ tdst' = [tdst EXCEPT ![t] = D]
  BY Zenon DEF BuildTable
<1>1. K \subseteq Entry /\ M \subseteq K /\ I \subseteq K
  BY Zenon DEF Kept, ToBlob, ToInline
<1>2. \A e \in Entry : RecordOf(e) \in Record /\ Inlined(e) \in Entry
  BY DEF Entry, Record, RecordOf, Inlined, Placed, Seq0, File0
<1>3. \A e \in Entry, f \in File : Separated(e, f) \in Entry
  BY DEF Entry, Separated, Placed, File0, File
<1>4. M # {} => nextFile \in File
  <2> HIDE DEF M, recs
  <2> QED
    BY <1>0 DEF TypeOK, NewFile, File
<1>5. recs \subseteq Record
  <2> SUFFICES ASSUME NEW e \in M PROVE RecordOf(Separated(e, nextFile)) \in Record
    BY Zenon
  <2> QED
    BY <1>1, <1>2, <1>3, <1>4, Zenon
<1>6. D \subseteq Entry
  <2>1. ASSUME NEW e \in M PROVE Separated(e, nextFile) \in Entry
    BY <1>1, <1>3, <1>4, Zenon
  <2>2. ASSUME NEW e \in I PROVE Inlined(e) \in Entry
    BY <1>1, <1>2, Zenon
  <2> HIDE DEF K, M, I
  <2> QED
    BY <1>1, <2>1, <2>2, Zenon
<1> HIDE DEF K, M, I, recs, D
<1>7. /\ nextFile' \in 1 .. MaxFile + 1 /\ disk' \subseteq File
      /\ content' \in [File -> SUBSET Record]
  <2>1. CASE M = {}
    BY <1>0, <2>1, Zenon DEF TypeOK
  <2>2. CASE M # {}
    BY <1>0, <1>4, <1>5 DEF TypeOK, NewFile
  <2> QED
    BY <2>1, <2>2, Zenon
<1>8. tout' \in [Builder -> File0]
  BY <1>0, <1>4 DEF TypeOK, File, File0
<1>9. tdst' \in [Builder -> SUBSET Entry]
  BY <1>0, <1>6, Zenon DEF TypeOK
<1>10. /\ tsrc' \in [Builder -> SUBSET Entry] /\ tupto' \in [Builder -> Seq0]
       /\ tpc' \in [Builder -> {"idle", "built", "finished", "installed"}]
  BY Zenon DEF TypeOK, BuildTable
<1>11. UNCHANGED <<dbVars, readVars, meta, obsSeq, manifest, manNext, optVars,
                   gcVars, purgeVars, writes, faults>>
  BY Zenon DEF BuildTable
<1> QED
  BY <1>7, <1>8, <1>9, <1>10, <1>11, Zenon DEF TypeOK, dbVars, readVars, optVars,
     gcVars,
     purgeVars

\* Flush and compaction keep the types.
LEMMA TableType == TypeOK /\ Table => TypeOK'
<1> SUFFICES ASSUME TypeOK, Table PROVE TypeOK'
  BY Zenon
<1> USE BoundsAssumption, ModeAssumption
<1>1. CASE StartFlush
  <2>1. mem \in SUBSET Entry /\ compacts' \in 0 .. MaxCompact
    BY <1>1, Zenon DEF TypeOK, StartFlush
  <2> QED
    BY <1>1, <2>1, BuildTableType DEF StartFlush, Builder
<1>2. CASE StartCompaction
  <2>1. PICK S \in SUBSET sst : \E drop \in {{}, Dead(S)},
             G \in IF LevelMerge THEN SUBSET File ELSE {{}} :
                 BuildTable("compaction", S, drop, G)
    BY <1>2, Zenon DEF StartCompaction
  <2>2. compacts' \in 0 .. MaxCompact
    BY <1>2 DEF StartCompaction, TypeOK
  <2>3. S \in SUBSET Entry
    BY Zenon DEF TypeOK
  <2>4. PICK drop \in {{}, Dead(S)}, G \in SUBSET File : BuildTable("compaction", S, drop, G)
    BY <2>1, Zenon
  <2> QED
    BY <2>2, <2>3, <2>4, BuildTableType, Zenon DEF Builder
<1> USE DEF TypeOK, dbVars, readVars, fileVars, optVars, tableVars, gcVars,
            purgeVars, ghostVars
<1>3. ASSUME NEW t \in Builder, FinishTable(t) PROVE TypeOK'
  <2>1. tout[t] # 0 => tout[t] \in File
    BY DEF File, File0
  <2>2. meta' \in [File -> FileState] /\ manifest' \subseteq File
    BY <1>3, <2>1, Zenon DEF FinishTable, FileState
  <2> QED
    BY <1>3, <2>2, Zenon DEF FinishTable
<1>4. ASSUME NEW t \in Builder, InstallTable(t) PROVE TypeOK'
  BY <1>4 DEF InstallTable, Seq0
<1>5. ASSUME NEW t \in Builder, TableCompleted(t) PROVE TypeOK'
  BY <1>5 DEF TableCompleted, FileState, File0
<1>6. ASSUME NEW t \in Builder, FailTable(t) PROVE TypeOK'
  <2>1. bgError' \in BOOLEAN
    BY <1>6, Zenon DEF FailTable
  <2>2. disk' \subseteq File
    BY <1>6, Zenon DEF FailTable
  <2>3. faults' \in 0 .. MaxFault
    BY <1>6 DEF FailTable
  <2>4. /\ tsrc' \in [Builder -> SUBSET Entry] /\ tdst' \in [Builder -> SUBSET Entry]
        /\ tout' \in [Builder -> File0] /\ tupto' \in [Builder -> Seq0]
        /\ tpc' \in [Builder -> {"idle", "built", "finished", "installed"}]
    BY <1>6 DEF FailTable, Seq0, File0
  <2> QED
    BY <1>6, <2>1, <2>2, <2>3, <2>4, Zenon DEF FailTable
<1> QED
  BY <1>1, <1>2, <1>3, <1>4, <1>5, <1>6, Zenon DEF Table


\* A nonempty set of numbers has a smallest one.
LEMMA SmallestNumber ==
    ASSUME NEW T \in SUBSET Nat, T # {} PROVE \E m \in T : \A n \in T : m <= n
<1>1. IsWellFoundedOn(OpToRel(<, Nat), Nat)
  BY NatLessThanWellFounded, Zenon
<1>2. PICK m \in T : \A n \in T : ~(<<n, m>> \in OpToRel(<, Nat))
  BY <1>1, WFMin, Zenon
<1>3. ASSUME NEW n \in T, n < m PROVE FALSE
  <2>1. <<n, m>> \in Nat \X Nat /\ <<n, m>>[1] < <<n, m>>[2]
    BY <1>3, Zenon
  <2> QED
    BY <1>2, <2>1, Zenon DEF OpToRel
<1> QED
  BY <1>3
\* The base DB keeps, for every entry it reads, that one or a newer one no snapshot
\* tells apart from it.
LEMMA KeptCover ==
    ASSUME TypeOK, NEW S \in SUBSET Entry, NEW x \in S
    PROVE  \E k \in Kept(S) : /\ k.key = x.key /\ x.seq <= k.seq
                              /\ ~SeenBetween(x.seq, k.seq)
<1> DEFINE C == {y \in S : y.key = x.key /\ x.seq <= y.seq /\ ~SeenBetween(x.seq, y.seq)}
           T == {MaxSeq - y.seq : y \in C}
<1>1. /\ MaxSeq \in Nat /\ \A y \in S : y.seq \in Nat /\ y.seq <= MaxSeq
      /\ \A s \in snaps : s.seq \in Nat
  BY BoundsAssumption DEF Entry, Seq0, TypeOK, Snapshot
<1>2. T \in SUBSET Nat
  BY <1>1
<1>3. x \in C
  BY <1>1 DEF SeenBetween
<1>4. PICK k \in C : \A y \in C : MaxSeq - k.seq <= MaxSeq - y.seq
  <2>1. T # {}
    BY <1>3, Zenon
  <2>2. PICK m \in T : \A n \in T : m <= n
    BY <1>2, <2>1, SmallestNumber, Zenon
  <2> QED
    BY <2>2, Zenon
<1>5. \A y \in C : y.seq <= k.seq
  BY <1>1, <1>4
<1>6. ASSUME NEW z \in S, z.key = k.key, z.seq > k.seq PROVE SeenBetween(k.seq, z.seq)
  <2>1. z \notin C
    BY <1>1, <1>5, <1>6
  <2>2. PICK s \in snaps : x.seq <= s.seq /\ s.seq < z.seq
    BY <1>1, <1>6, <2>1 DEF SeenBetween
  <2>3. k.seq <= s.seq
    BY <1>1, <2>2 DEF SeenBetween
  <2> QED
    BY <2>2, <2>3, Zenon DEF SeenBetween
<1> QED
  BY <1>6, Zenon DEF Kept

\* What a builder is about to install has the versions of what it keeps, each in
\* its new blob file, inline, or as it was.
LEMMA BuiltEntries ==
    ASSUME IInv, NEW t \in Builder, NEW S \in SUBSET lsm, NEW drop, NEW G \in SUBSET File,
           BuildTable(t, S, drop, G)
    PROVE  /\ \A e \in Kept(S) \ drop : \E y \in tdst'[t] : SameVersion(e, y)
           /\ \A y \in tdst'[t] : \E e \in Kept(S) \ drop :
                 SameVersion(e, y) /\ e.org = y.org
           /\ TableDst(t)'
<1>0. TypeOK /\ SeqInv /\ FileInv /\ OwnInv /\ RefInv /\ TableInv /\ JobInv /\ ReadInv
  BY Zenon DEF IInv
<1> DEFINE K == Kept(S) \ drop
           M == ToBlob(K, G)
           I == ToInline(K)
           recs == {RecordOf(Separated(e, nextFile)) : e \in M}
           D == (K \ (M \cup I)) \cup {Separated(e, nextFile) : e \in M}
                                 \cup {Inlined(e) : e \in I}
<1>1. EntryTyping /\ NumberTyping
  BY <1>0, EntryTypingHolds, NumberTypingHolds, Zenon
<1>2. /\ IF M = {} THEN UNCHANGED <<nextFile, disk, content>> ELSE NewFile(recs)
      /\ tout' = [tout EXCEPT ![t] = IF M = {} THEN 0 ELSE nextFile]
      /\ tdst' = [tdst EXCEPT ![t] = D]
      /\ tsrc' = [tsrc EXCEPT ![t] = S]
  BY Zenon DEF BuildTable
<1>3. K \subseteq S /\ M \subseteq K /\ I \subseteq K /\ K \subseteq lsm
  BY Zenon DEF Kept, ToBlob, ToInline
<1>4. M = {} \/ I = {}
  BY Zenon DEF ToBlob, ToInline
<1>5. \A e \in M : e.org # 0
  BY <1>0, <1>1, <1>3 DEF ToBlob, SeqInv, NumberTyping
<1> HIDE DEF K, M, I
<1>6. \A e \in lsm : /\ SameVersion(e, Separated(e, nextFile)) /\ SameVersion(e, Inlined(e))
                     /\ Separated(e, nextFile).org = e.org /\ Inlined(e).org = e.org
                     /\ Separated(e, nextFile).file = nextFile /\ Inlined(e).file = 0
  BY Zenon DEF SameVersion, Separated, Inlined, Placed
<1>7. \A e \in K : \E y \in D : SameVersion(e, y)
  BY <1>3, <1>6 DEF SameVersion
<1>8. ASSUME NEW y \in D
      PROVE  \E e \in K : /\ SameVersion(e, y) /\ e.org = y.org
                          /\ \/ y = e /\ e \notin M /\ e \notin I
                             \/ y = Separated(e, nextFile) /\ e \in M
                             \/ y = Inlined(e) /\ e \in I
  BY <1>3, <1>6, Zenon DEF SameVersion
<1>9. M # {} => content'[nextFile] = recs /\ nextFile \in File
  <2> HIDE DEF recs, D
  <2> SUFFICES ASSUME M # {} PROVE content'[nextFile] = recs /\ nextFile \in File
    BY Zenon
  <2>1. nextFile \in File
    BY <1>0, <1>2 DEF TypeOK, NewFile, File
  <2> QED
    BY <1>0, <1>2, <2>1, Zenon DEF TypeOK, NewFile
<1>10. tdst'[t] = D /\ tsrc'[t] = S /\ tout'[t] = IF M = {} THEN 0 ELSE nextFile
  <2> HIDE DEF D
  <2> QED
    BY <1>0, <1>2, Zenon DEF TypeOK
<1>11. \A e \in M : RecordOf(Separated(e, nextFile)) \in recs
  BY Zenon
<1>12. \A x, y \in D : SameVersion(x, y) => x = y
  <2> SUFFICES ASSUME NEW x \in D, NEW y \in D, SameVersion(x, y) PROVE x = y
    BY Zenon
  <2>1. PICK e \in K : /\ SameVersion(e, x)
                       /\ \/ x = e /\ e \notin M /\ e \notin I
                          \/ x = Separated(e, nextFile) /\ e \in M
                          \/ x = Inlined(e) /\ e \in I
    BY <1>8, Zenon
  <2>2. PICK f \in K : /\ SameVersion(f, y)
                       /\ \/ y = f /\ f \notin M /\ f \notin I
                          \/ y = Separated(f, nextFile) /\ f \in M
                          \/ y = Inlined(f) /\ f \in I
    BY <1>8, Zenon
  <2>3. e = f
    BY <1>0, <1>3, <2>1, <2>2, Zenon DEF SameVersion, SeqInv
  <2> QED
    BY <1>4, <2>1, <2>2, <2>3
<1> HIDE DEF D, recs
<1>13. \A y \in D : /\ y.file # 0 => y.org # 0
                    /\ \/ y \in S
                       \/ y.file = 0
                       \/ y.file = tout'[t] /\ RecordOf(y) \in content'[tout'[t]]
  <2> SUFFICES ASSUME NEW y \in D
               PROVE  /\ y.file # 0 => y.org # 0
                      /\ \/ y \in S
                         \/ y.file = 0
                         \/ y.file = tout'[t] /\ RecordOf(y) \in content'[tout'[t]]
    BY Zenon
  <2>1. PICK e \in K : /\ e.org = y.org
                       /\ \/ y = e /\ e \notin M /\ e \notin I
                          \/ y = Separated(e, nextFile) /\ e \in M
                          \/ y = Inlined(e) /\ e \in I
    BY <1>8, Zenon
  <2>2. CASE y = e
    BY <1>0, <1>3, <2>1, <2>2, Zenon DEF SeqInv
  <2>3. CASE y = Separated(e, nextFile) /\ e \in M
    BY <1>3, <1>5, <1>6, <1>9, <1>10, <1>11, <2>1, <2>3, Zenon
  <2>4. CASE y = Inlined(e)
    BY <1>3, <1>6, <2>1, <2>4, Zenon
  <2> QED
    BY <2>1, <2>2, <2>3, <2>4, Zenon
<1>14. tout'[t] # 0 => \E y \in D : /\ y.file = tout'[t]
                                    /\ RecordOf(y) \in content'[tout'[t]]
  BY <1>3, <1>6, <1>9, <1>10, <1>11 DEF D
<1>15. TableDst(t)'
  <2>1. \A y \in D : \E x \in S : SameVersion(x, y) /\ x.org = y.org
    BY <1>3, <1>8, Zenon
  <2>2. tdst'[t] = D /\ tsrc'[t] = S
    BY <1>10, Zenon
  <2>3. \A x, y \in tdst'[t] : SameVersion(x, y) => x = y
    BY <1>12, <2>2, Zenon
  <2>4. \A y \in tdst'[t] :
            /\ \E x \in tsrc'[t] : SameVersion(x, y) /\ x.org = y.org
            /\ y.file # 0 => y.org # 0
            /\ \/ y \in tsrc'[t]
               \/ y.file = 0
               \/ y.file = tout'[t] /\ RecordOf(y) \in content'[tout'[t]]
    BY <1>13, <2>1, <2>2, Zenon
  <2>5. tout'[t] # 0 => \E y \in tdst'[t] : /\ y.file = tout'[t]
                                           /\ RecordOf(y) \in content'[tout'[t]]
    BY <1>14, <2>2, Zenon
  <2> QED
    BY <2>3, <2>4, <2>5, Zenon DEF TableDst, SameVersion, RecordOf
<1> QED
  BY <1>7, <1>8, <1>10, <1>15, Zenon DEF K

\* A builder's run writes one new blob file and nothing anybody else looks at.
LEMMA BuildTableStep ==
    ASSUME IInv, TypeOK', NEW t \in Builder, NEW S \in SUBSET lsm, NEW drop,
           NEW G \in SUBSET File,
           t = "flush" => S = mem /\ drop = {},
           t = "compaction" => S \subseteq sst /\ drop \in {{}, Dead(S)},
           BuildTable(t, S, drop, G)
    PROVE  IInv'
<1>0. TypeOK /\ SeqInv /\ FileInv /\ OwnInv /\ RefInv /\ TableInv /\ JobInv /\ ReadInv
  BY Zenon DEF IInv
<1>1. EntryTyping /\ NumberTyping /\ NumberTyping'
  BY <1>0, EntryTypingHolds, NumberTypingHolds, NumberTypingHoldsP, Zenon
<1>2. UNCHANGED <<dbVars, readVars, meta, obsSeq, manifest, manNext, gcVars, purgeVars>>
  BY Zenon DEF BuildTable
<1>3. /\ tpc[t] = "idle" /\ tpc'[t] = "built" /\ tsrc'[t] = S /\ tupto'[t] = lastSeq
      /\ \A u \in Builder : u # t => /\ tpc'[u] = tpc[u] /\ tout'[u] = tout[u]
                                     /\ tsrc'[u] = tsrc[u] /\ tdst'[u] = tdst[u]
                                     /\ tupto'[u] = tupto[u]
  BY DEF BuildTable, TypeOK
<1>4. lsm' = lsm
  BY <1>2, Zenon DEF lsm, dbVars
<1>5. PICK recs : \/ tout'[t] = 0 /\ UNCHANGED <<nextFile, disk, content>>
                  \/ /\ NewFile(recs) /\ tout'[t] = nextFile
                     /\ \A r, q \in recs : r.key = q.key /\ r.off = q.off => r = q
  <2> DEFINE K == Kept(S) \ drop
             M == ToBlob(K, G)
             R == {RecordOf(Separated(e, nextFile)) : e \in M}
  <2>1. IF M = {} THEN UNCHANGED <<nextFile, disk, content>> ELSE NewFile(R)
    BY Zenon DEF BuildTable
  <2>2. tout'[t] = IF M = {} THEN 0 ELSE nextFile
    BY Zenon DEF BuildTable, TypeOK
  <2>3. ASSUME NEW d \in M, NEW e \in M,
               RecordOf(Separated(d, nextFile)).key = RecordOf(Separated(e, nextFile)).key,
               RecordOf(Separated(d, nextFile)).off = RecordOf(Separated(e, nextFile)).off
        PROVE  d = e
    <3>1. d \in lsm /\ e \in lsm
      BY Zenon DEF ToBlob, Kept
    <3>2. d.key = e.key /\ d.seq = e.seq
      BY <2>3, Zenon DEF RecordOf, Separated, Placed
    <3> QED
      BY <1>0, <3>1, <3>2, Zenon DEF SeqInv, SameVersion
  <2>4. \A r, q \in R : r.key = q.key /\ r.off = q.off => r = q
    BY <2>3, Zenon
  <2> HIDE DEF M, R
  <2> QED
    BY <2>1, <2>2, <2>4, Zenon
<1>6. /\ nextFile <= nextFile' /\ disk \subseteq disk'
      /\ \A f \in disk' : f \in disk \/ (f = nextFile /\ f < nextFile')
      /\ \A f \in File : f < nextFile => content'[f] = content[f]
      /\ \A f \in File : content'[f] = content[f] \/ (f = nextFile /\ content'[f] = recs
                          /\ \A r, q \in recs : r.key = q.key /\ r.off = q.off => r = q)
      /\ tout'[t] # 0 => /\ tout'[t] = nextFile /\ tout'[t] < nextFile' /\ tout'[t] \in disk'
                         /\ tout'[t] \in File
  <2>1. CASE tout'[t] = 0 /\ UNCHANGED <<nextFile, disk, content>>
    <3>1. nextFile \in Nat
      BY <1>1, Zenon DEF NumberTyping
    <3>2. nextFile <= nextFile
      BY <3>1
    <3> QED
      BY <2>1, <3>1, <3>2, Zenon
  <2>2. CASE /\ NewFile(recs) /\ tout'[t] = nextFile
             /\ \A r, q \in recs : r.key = q.key /\ r.off = q.off => r = q
    <3>1. nextFile \in File
      BY <1>0, <1>1, <2>2, BoundsAssumption, Zenon DEF NewFile, File, TypeOK
    <3>2. content \in [File -> SUBSET Record]
      BY <1>0, Zenon DEF TypeOK
    <3> QED
      BY <1>1, <2>2, <3>1 DEF NewFile, NumberTyping
  <2> QED
    BY <1>5, <2>1, <2>2, Zenon
<1>7. SeqInv'
  BY <1>0, <1>2, SeqFrame, Zenon DEF readVars
<1>8. FileInv'
  <2>1. \A f \in disk : f \in Nat
    BY <1>0, <1>1, Zenon DEF TypeOK, NumberTyping
  <2>2. \A f \in disk' : f < nextFile'
    BY <1>0, <1>1, <1>6, <2>1 DEF FileInv, FileBound, NumberTyping
  <2>3. \A f \in cand : f \in Nat
    BY <1>0, <1>1, Zenon DEF TypeOK, NumberTyping
  <2>4. /\ manNext' <= nextFile' /\ \A f \in cand' : meta'[f] = "none" /\ f < nextFile'
    BY <1>0, <1>1, <1>2, <1>6, <2>3 DEF FileInv, FileBound, FileAgree, NumberTyping,
       purgeVars
  <2>5. \A f \in File : \A r, q \in content'[f] : r.key = q.key /\ r.off = q.off => r = q
    BY <1>0, <1>6, Zenon DEF FileInv, FileRecords
  <2>6. FileBound'
    BY <1>0, <1>2, <1>4, <1>6, <2>2, <2>4, <2>5, Zenon DEF FileInv, FileBound
  <2>7. FileAgree'
    BY <1>0, <1>2, <1>4, <1>6, <2>2, <2>4, <2>5, Zenon DEF FileInv, FileAgree
  <2>8. FileRecords'
    BY <1>0, <1>2, <1>4, <1>6, <2>2, <2>4, <2>5, Zenon DEF FileInv, FileRecords
  <2> QED
    BY <2>6, <2>7, <2>8, Zenon DEF FileInv, FileBound
<1>9. OwnInv'
  <2>0. /\ nextFile \in Nat /\ nextFile' \in Nat /\ nextFile <= nextFile' /\ 1 <= nextFile
        /\ \A u \in Builder : tout[u] \in Nat
    BY <1>0, <1>1, <1>6 DEF FileInv, FileBound, NumberTyping
  <2>1. \A u \in Builder : tout[u] < nextFile /\ tout[u] < nextFile'
    BY <1>0, <2>0 DEF OwnInv, OwnBound
  <2>2. \A j \in Job : \A f \in inputs[j] \cup outs[j] : f < nextFile /\ f < nextFile'
    BY <1>0, <1>1, <2>0, FileTypingHolds DEF OwnInv, OwnBound, FileTyping,
       NumberTyping
  <2>3. tout'[t] # 0 => /\ meta[tout'[t]] = "none" /\ tout'[t] \notin cand
                        /\ \A e \in lsm : e.file # tout'[t]
    <3>1. /\ nextFile \notin disk /\ nextFile \notin cand
          /\ nextFile \in File => meta[nextFile] = "none"
      BY <1>0, <2>0 DEF FileInv, FileBound, FileAgree
    <3>2. \A e \in lsm : e.file # nextFile
      BY <1>0, <1>1 DEF FileInv, FileBound, NumberTyping
    <3>3. tout'[t] # 0 => tout'[t] = nextFile /\ tout'[t] \in File
      BY <1>6, Zenon
    <3> QED
      BY <3>1, <3>2, <3>3, Zenon
  <2>4. tout'[t] # 0 => tout'[t] = nextFile /\ nextFile < nextFile'
    BY <1>6, Zenon
  <2>5. \A u \in Builder : tout'[u] < nextFile'
    BY <1>3, <2>0, <2>1, <2>4
  <2>6. \A u \in Builder : u # t => tout'[u] = tout[u] /\ (tout[u] # 0 => tout[u] # tout'[t])
    BY <1>3, <2>0, <2>1, <2>4
  <2>7. \A j \in Job : tout'[t] \notin inputs[j] \cup outs[j]
    BY <1>0, <1>1, <2>2, <2>4 DEF TypeOK, NumberTyping
  <2>8. /\ \A u \in Builder : tpc'[u] = "idle" => tout'[u] = 0
        /\ \A u, v \in Builder : tout'[u] = tout'[v] /\ tout'[u] # 0 => u = v
        /\ \A u \in Builder, j \in Job : tout'[u] \notin inputs'[j] \cup outs'[j]
    BY <1>0, <1>2, <1>3, <2>6, <2>7 DEF OwnInv, OwnApart, OwnBuilder, gcVars
  <2>9. \A u \in Builder : tpc'[u] = "built" /\ tout'[u] # 0 =>
           /\ meta'[tout'[u]] = "none" /\ tout'[u] \in disk' /\ tout'[u] \notin cand'
           /\ \A e \in lsm' : e.file # tout'[u]
    BY <1>0, <1>2, <1>3, <1>4, <1>6, <2>3 DEF OwnInv, OwnBuilder, purgeVars
  <2>10. /\ \A u \in Builder : tpc'[u] = "finished" /\ tout'[u] # 0 =>
                meta'[tout'[u]] = "PendingLSM"
         /\ \A u \in Builder : tpc'[u] = "installed" /\ tout'[u] # 0 =>
                meta'[tout'[u]] \in {"PendingLSM", "Obsolete", "none"}
    BY <1>0, <1>2, <1>3 DEF OwnInv, OwnBuilder
  <2>11. \A j \in Job : pc'[j] = "run" => \A f \in outs'[j] :
           /\ meta'[f] = "none" /\ f \in disk' /\ f \notin cand'
           /\ \A e \in lsm' : e.file # f
    BY <1>0, <1>2, <1>4, <1>6, Zenon DEF OwnInv, OwnJob, gcVars, purgeVars
  <2>12. OwnBound'
    BY <1>0, <1>2, <2>2, <2>5, <2>8, <2>9, <2>10, <2>11, Zenon DEF OwnInv, OwnBound,
       gcVars
  <2>13. OwnApart'
    BY <1>0, <1>2, <2>2, <2>5, <2>8, <2>9, <2>10, <2>11, Zenon DEF OwnInv, OwnApart,
       gcVars
  <2>14. OwnBuilder'
    BY <1>0, <1>2, <2>2, <2>5, <2>8, <2>9, <2>10, <2>11, Zenon DEF OwnInv,
       OwnBuilder, gcVars
  <2>15. OwnJob'
    BY <1>0, <1>2, <2>2, <2>5, <2>8, <2>9, <2>10, <2>11, Zenon DEF OwnInv, OwnJob,
       gcVars
  <2> QED
    BY <2>12, <2>13, <2>14, <2>15, Zenon DEF OwnInv, OwnBound
<1>10. RefInv'
  BY <1>2, <1>6, RefGrow, Zenon DEF dbVars, readVars
<1>11. ASSUME NEW u \in Builder, u # t, Running(u)'
       PROVE  TableSrc(u)' /\ TableDst(u)' /\ TableDrop(u)'
  <2>1. /\ TableSrc(u) /\ TableDst(u) /\ TableDrop(u) /\ tsrc'[u] = tsrc[u]
        /\ tdst'[u] = tdst[u] /\ tout'[u] = tout[u] /\ tupto'[u] = tupto[u]
    BY <1>0, <1>3, <1>11, Zenon DEF TableInv, Running
  <2>2. tout[u] # 0 => content'[tout[u]] = content[tout[u]]
    BY <1>0, <1>6, FileTypingHolds, Zenon DEF OwnInv, OwnBound, FileTyping
  <2>3. tout[u] = 0 => \A y \in tdst[u] : y.file = tout[u] => y.file = 0
    BY Zenon
  <2>4. TableSrc(u)'
    BY <1>2, <2>1, Zenon DEF TableSrc, dbVars
  <2>5. TableDst(u)'
    BY <2>1, <2>2, <2>3, Zenon DEF TableDst, RecordOf, SameVersion
  <2>6. TableDrop(u)'
    BY <1>2, <1>4, <2>1, Zenon DEF TableDrop, SameVersion, SeenBetween, readVars
  <2> QED
    BY <2>4, <2>5, <2>6, Zenon
<1>12. TableSrc(t)'
  <2>1. \A e \in mem : e.seq <= lastSeq
    BY <1>0, Zenon DEF SeqInv, lsm
  <2> QED
    BY <1>1, <1>2, <1>3, <2>1 DEF TableSrc, NumberTyping, dbVars
<1>13. /\ TableDst(t)'
       /\ \A e \in Kept(S) \ drop : \E y \in tdst'[t] : SameVersion(e, y)
       /\ \A y \in tdst'[t] : \E e \in Kept(S) \ drop : SameVersion(e, y)
  BY BuiltEntries, Zenon
<1>14. ASSUME NEW x \in S
       PROVE  \/ \E y \in tdst'[t] : SameVersion(x, y)
              \/ \E y \in tdst'[t] : /\ y.key = x.key /\ x.seq < y.seq
                                     /\ ~SeenBetween(x.seq, y.seq)
              \/ /\ t = "compaction"
                 /\ \A z \in lsm : z.key = x.key /\ z.seq <= x.seq => z \in S
                 /\ \A y \in tdst'[t] : y.key = x.key => x.seq < y.seq
  <2>1. PICK k \in Kept(S) : k.key = x.key /\ x.seq <= k.seq /\ ~SeenBetween(x.seq, k.seq)
    BY <1>0, <1>1, KeptCover, Zenon DEF EntryTyping
  <2>2. k \in S /\ Kept(S) \subseteq S
    BY Zenon DEF Kept
  <2>3. x.seq \in Nat /\ k.seq \in Nat
    BY <1>1, <2>2, Zenon DEF EntryTyping
  <2>4. CASE k \notin drop
    <3>1. PICK y \in tdst'[t] : SameVersion(k, y)
      BY <1>13, <2>1, <2>4, Zenon
    <3> QED
      BY <2>1, <2>3, <3>1 DEF SameVersion
  <2>5. CASE k \in drop
    <3>1. t = "compaction" /\ drop = Dead(S)
      BY <2>5, Zenon DEF Builder
    <3>2. \A z \in lsm : z.key = k.key /\ z.seq < k.seq => z \in S \ Kept(S)
      BY <2>5, <3>1, Zenon DEF Dead
    <3>3. \A z \in lsm : z.key = k.key /\ z.seq = k.seq => z = k
      BY <1>0, <2>2, Zenon DEF SeqInv, SameVersion
    <3>4. ASSUME NEW z \in lsm, z.key = x.key, z.seq <= x.seq PROVE z \in S
      BY <1>1, <2>1, <2>3, <3>2, <3>3, <3>4 DEF EntryTyping
    <3>5. ASSUME NEW y \in tdst'[t], y.key = x.key PROVE x.seq < y.seq
      <4>1. PICK e \in Kept(S) \ drop : SameVersion(e, y)
        BY <1>13, Zenon
      <4>2. e \in lsm /\ e.seq \in Nat /\ e # k
        BY <1>1, <2>2, <2>5, <4>1, Zenon DEF EntryTyping
      <4> QED
        BY <2>1, <2>3, <3>2, <3>3, <3>5, <4>1, <4>2 DEF SameVersion
    <3> QED
      BY <3>1, <3>4, <3>5, Zenon
  <2> QED
    BY <2>4, <2>5, Zenon
<1>15. TableDrop(t)'
  BY <1>2, <1>3, <1>4, <1>14, Zenon DEF TableDrop, SameVersion, SeenBetween,
     readVars
<1>16. TableInv'
  BY <1>11, <1>12, <1>13, <1>15, Zenon DEF TableInv
<1>17. JobInv'
  <2> SUFFICES ASSUME NEW j \in Job PROVE JobPhase(j)' /\ JobRefs(j)' /\ JobCopies(j)'
    BY Zenon DEF JobInv
  <2>1. JobPhase(j) /\ JobRefs(j) /\ JobCopies(j)
    BY <1>0, Zenon DEF JobInv
  <2>2. \A f \in inputs[j] \cup outs[j] : content'[f] = content[f]
    BY <1>0, <1>6, FileTypingHolds, Zenon DEF OwnInv, OwnBound, FileTyping
  <2>3. JobPhase(j)' /\ JobRefs(j)'
    BY <1>2, <1>4, <2>1, Zenon DEF JobPhase, JobRefs, HiddenUpTo, RecordOf, dbVars,
       gcVars
  <2>4. JobCopies(j)'
    BY <1>2, <1>4, <2>1, <2>2, Zenon DEF JobCopies, gcVars
  <2> QED
    BY <2>3, <2>4, Zenon
<1>18. ReadInv'
  BY <1>1, <1>2, <1>6, ReadGrow, Zenon DEF NumberTyping, readVars, purgeVars
<1> QED
  BY <1>7, <1>8, <1>9, <1>10, <1>16, <1>17, <1>18, Zenon DEF IInv


\* The file of a builder is of no job.
LEMMA JobFilesApart ==
    ASSUME TypeOK, OwnInv, NEW t \in Builder, NEW j \in Job, NEW f \in inputs[j] \cup outs[j]
    PROVE  f \in File /\ f # tout[t]
<1>1. f \in File
  BY FileTypingHolds, Zenon DEF FileTyping
<1>2. tout[t] \notin inputs[j] \cup outs[j]
  BY Zenon DEF OwnInv, OwnApart
<1> QED
  BY <1>1, <1>2, Zenon

\* A reader that found an index found one into a file.
LEMMA ReadsTyped == ASSUME TypeOK, ReadInv PROVE \A r \in reads : r[2].file \in File
<1>1. \A r \in reads : r[2] \in Entry /\ r[2].file # 0
  BY Zenon DEF TypeOK, ReadInv
<1>2. \A e \in Entry : e.file # 0 => e.file \in File
  BY DEF Entry, File0, File
<1> QED
  BY <1>1, <1>2, Zenon

\* The builder's file was unknown to everybody and becomes PendingLSM.
LEMMA FinishTableStep == ASSUME IInv, NEW t \in Builder, FinishTable(t) PROVE IInv'
<1>0. TypeOK /\ SeqInv /\ FileInv /\ OwnInv /\ RefInv /\ TableInv /\ JobInv /\ ReadInv
  BY Zenon DEF IInv
<1>1. TypeOK'
  BY <1>0, TableType, Zenon DEF Table
<1>2. EntryTyping /\ NumberTyping
  BY <1>0, EntryTypingHolds, NumberTypingHolds, Zenon
<1>3. /\ UNCHANGED <<dbVars, readVars, nextFile, disk, content, obsSeq, tsrc, tdst, tout,
                     tupto, gcVars, purgeVars>>
      /\ manNext' = nextFile
  BY Zenon DEF FinishTable
<1>4. /\ tpc[t] = "built" /\ tpc'[t] = "finished"
      /\ \A u \in Builder : u # t => tpc'[u] = tpc[u]
  BY <1>0, Zenon DEF FinishTable, TypeOK
<1>5. lsm' = lsm
  BY <1>3, Zenon DEF lsm, dbVars
<1>6. /\ \A f \in File : f # tout[t] => meta'[f] = meta[f]
      /\ \A f \in File : f = tout[t] => meta[f] = "none" /\ meta'[f] = "PendingLSM"
      /\ \A f \in File : f \in manifest' <=> f \in manifest \/ f = tout[t]
      /\ tout[t] # 0 => tout[t] \in File
  <2>1. tout[t] # 0 => tout[t] \in File /\ meta[tout[t]] = "none"
    BY <1>0, <1>4, Zenon DEF TypeOK, OwnInv, OwnBuilder, File0, File
  <2>2. 0 \notin File
    BY DEF File
  <2>3. meta \in [File -> FileState]
    BY <1>0, Zenon DEF TypeOK
  <2>4. CASE tout[t] = 0
    BY <2>2, <2>4, Zenon DEF FinishTable
  <2>5. CASE tout[t] # 0
    BY <2>1, <2>3, <2>5, Zenon DEF FinishTable
  <2> QED
    BY <2>4, <2>5, Zenon
<1>7. tout[t] # 0 => /\ tout[t] \in disk /\ tout[t] < nextFile /\ tout[t] \notin cand
                     /\ \A e \in lsm : e.file # tout[t]
  BY <1>0, <1>4, Zenon DEF OwnInv, OwnBound, OwnBuilder
<1>8. FileInv'
  <2>1. \A f \in File : f \in manifest' <=> meta'[f] \in LiveState
    BY <1>0, <1>6, Zenon DEF FileInv, FileAgree, LiveState
  <2>2. \A f \in File : meta'[f] # "none" => f \in disk'
    BY <1>0, <1>2, <1>3, <1>6, <1>7 DEF FileInv, FileAgree, NumberTyping
  <2>3. \A f \in manifest' : f < manNext'
    <3> SUFFICES ASSUME NEW f \in manifest' PROVE f < nextFile
      BY <1>3, Zenon
    <3>1. f \in File
      BY <1>1, Zenon DEF TypeOK
    <3> QED
      BY <1>0, <1>2, <1>6, <1>7, <3>1 DEF FileInv, FileBound, NumberTyping
  <2>4. \A e \in lsm' : e.file < manNext'
    <3>1. /\ manNext' = nextFile /\ lsm' = lsm /\ manNext \in Nat /\ nextFile \in Nat
          /\ manNext <= nextFile /\ \A e \in lsm : e.file \in Nat /\ e.file < manNext
      BY <1>0, <1>2, <1>3, <1>5, Zenon DEF FileInv, FileBound, NumberTyping, EntryTyping
    <3> QED
      BY <3>1
  <2>5. \A f \in cand' : meta'[f] = "none" /\ f < nextFile'
    BY <1>0, <1>2, <1>3, <1>6, <1>7, FileTypingHolds, Zenon DEF FileInv, FileBound,
       FileAgree, FileTyping, NumberTyping, purgeVars
  <2>6. FileBound'
    BY <1>0, <1>2, <1>3, <2>3, <2>4, <2>5 DEF FileInv, FileBound, NumberTyping
  <2>7. FileAgree'
    BY <1>0, <1>2, <1>3, <2>1, <2>2, <2>3, <2>4, <2>5, Zenon DEF FileInv, FileAgree,
       NumberTyping
  <2>8. FileRecords'
    BY <1>0, <1>2, <1>3, <2>1, <2>2, <2>3, <2>4, <2>5, Zenon DEF FileInv,
       FileRecords, NumberTyping
  <2> QED
    BY <2>6, <2>7, <2>8, Zenon DEF FileInv, FileBound
<1>9. OwnInv'
  <2>1. \A u \in Builder : tout[u] # 0 => tout[u] \in File
    BY <1>0 DEF TypeOK, File0, File
  <2>2. \A j \in Job : inputs[j] \subseteq File /\ outs[j] \subseteq File
    BY <1>0, Zenon DEF TypeOK
  <2>3. \A u \in Builder : u # t /\ tout[u] # 0 => meta'[tout[u]] = meta[tout[u]]
    BY <1>0, <1>6, <2>1, Zenon DEF OwnInv, OwnApart
  <2>4. \A j \in Job : \A f \in inputs[j] \cup outs[j] : meta'[f] = meta[f]
    BY <1>0, <1>6, JobFilesApart, Zenon
  <2>5. tout[t] # 0 => meta'[tout[t]] = "PendingLSM"
    BY <1>6, Zenon
  <2>6. OwnBound'
    BY <1>0, <1>3, Zenon DEF OwnInv, OwnBound, gcVars
  <2>7. OwnApart'
    BY <1>0, <1>3, Zenon DEF OwnInv, OwnApart, gcVars
  <2>8. OwnBuilder'
    BY <1>0, <1>3, <1>4, <1>5, <2>3, <2>5 DEF OwnInv, OwnBuilder, purgeVars
  <2>9. OwnJob'
    BY <1>0, <1>3, <1>5, <2>4, Zenon DEF OwnInv, OwnJob, OwnBound, gcVars, purgeVars
  <2> QED
    BY <2>6, <2>7, <2>8, <2>9, Zenon DEF OwnInv, OwnBound
<1>10. RefInv'
  BY <1>0, <1>2, <1>3, <1>5, <1>6, <1>7 DEF RefInv, EntryTyping, dbVars, readVars
<1>11. TableInv'
  <2> SUFFICES ASSUME NEW u \in Builder, Running(u)'
               PROVE  TableSrc(u)' /\ TableDst(u)' /\ TableDrop(u)'
    BY Zenon DEF TableInv
  <2>1. TableSrc(u) /\ TableDst(u) /\ TableDrop(u)
    BY <1>0, <1>4, Zenon DEF TableInv, Running
  <2>2. TableSrc(u)' /\ TableDst(u)'
    BY <1>3, <2>1, Zenon DEF TableSrc, TableDst, RecordOf, SameVersion, dbVars
  <2>3. TableDrop(u)'
    BY <1>3, <1>5, <2>1, Zenon DEF TableDrop, SameVersion, SeenBetween, readVars
  <2> QED
    BY <2>2, <2>3, Zenon
<1>12. JobInv'
  <2>1. \A j \in Job : \A f \in outs[j] : meta'[f] = meta[f]
    BY <1>0, <1>6, JobFilesApart, Zenon
  <2> SUFFICES ASSUME NEW j \in Job PROVE JobPhase(j)' /\ JobRefs(j)' /\ JobCopies(j)'
    BY Zenon DEF JobInv
  <2>2. JobPhase(j) /\ JobRefs(j) /\ JobCopies(j)
    BY <1>0, Zenon DEF JobInv
  <2>3. JobPhase(j)' /\ JobRefs(j)'
    BY <1>3, <1>5, <2>2, Zenon DEF JobPhase, JobRefs, HiddenUpTo, RecordOf, dbVars, gcVars
  <2>4. JobCopies(j)'
    BY <1>3, <1>5, <2>1, <2>2, Zenon DEF JobCopies, gcVars
  <2> QED
    BY <2>3, <2>4, Zenon
<1>13. ReadInv'
  <2>1. \A r \in reads : r[2].file \in File
    BY <1>0, ReadsTyped, Zenon
  <2> QED
    BY <1>0, <1>3, <1>6, <2>1, Zenon DEF ReadInv, RecordOf, readVars, purgeVars
<1> QED
  BY <1>1, <1>3, <1>8, <1>9, <1>10, <1>11, <1>12, <1>13, SeqFrame, Zenon DEF IInv,
     readVars

\* Installing an SST replaces the entries the builder read by the ones it wrote,
\* all of them durable from now on.
LEMMA InstallEntries ==
    ASSUME IInv, NEW t \in Builder, InstallTable(t)
    PROVE  /\ Running(t) /\ TableSrc(t) /\ TableDst(t) /\ TableDrop(t)
           /\ tsrc[t] \subseteq lsm
           /\ lsm' = (lsm \ tsrc[t]) \cup tdst[t]
           /\ durSeq <= durSeq' /\ durSeq' <= lastSeq /\ durSeq' \in Nat
           /\ \A y \in tdst[t] : y.seq \in Nat /\ y.seq <= durSeq'
<1>0. TypeOK /\ SeqInv /\ FileInv /\ OwnInv /\ RefInv /\ TableInv /\ JobInv /\ ReadInv
  BY Zenon DEF IInv
<1>1. EntryTyping /\ NumberTyping
  BY <1>0, EntryTypingHolds, NumberTypingHolds, Zenon
<1>2. Running(t)
  BY Zenon DEF InstallTable, Running
<1>3. TableSrc(t) /\ TableDst(t) /\ TableDrop(t) /\ tsrc[t] \subseteq lsm
  BY <1>0, <1>2, RunningBuilder, Zenon DEF TableInv
<1>4. mem \cap sst = {}
  BY <1>0, <1>1 DEF SeqInv, EntryTyping, lsm
<1>5. durSeq <= durSeq' /\ durSeq' <= lastSeq /\ durSeq' \in Nat
      /\ (t = "flush" => tupto[t] <= durSeq')
  BY <1>0, <1>1, <1>3 DEF InstallTable, TableSrc, NumberTyping, SeqInv
<1>6. CASE t = "flush"
  <2>1. lsm' = (lsm \ tsrc[t]) \cup tdst[t]
    BY <1>3, <1>4, <1>6, Zenon DEF InstallTable, TableSrc, lsm
  <2>2. \A x \in tsrc[t] : x.seq \in Nat /\ x.seq <= durSeq'
    <3>1. \A x \in tsrc[t] : x.seq \in Nat /\ x.seq <= tupto[t] /\ tupto[t] \in Nat
      BY <1>1, <1>3, <1>6, Zenon DEF TableSrc, EntryTyping, NumberTyping
    <3> QED
      BY <1>5, <1>6, <3>1
  <2>3. \A y \in tdst[t] : y.seq \in Nat /\ y.seq <= durSeq'
    BY <1>3, <2>2, Zenon DEF TableDst, SameVersion
  <2> QED
    BY <1>2, <1>3, <1>5, <2>1, <2>3, Zenon
<1>7. CASE t = "compaction"
  <2>1. lsm' = (lsm \ tsrc[t]) \cup tdst[t]
    BY <1>3, <1>4, <1>7, Zenon DEF InstallTable, TableSrc, lsm
  <2>2. \A x \in tsrc[t] : x.seq \in Nat /\ x.seq <= durSeq'
    <3>1. \A x \in tsrc[t] : x.seq \in Nat /\ x.seq <= durSeq
      BY <1>0, <1>1, <1>3, <1>7, Zenon DEF TableSrc, EntryTyping, SeqInv
    <3>2. durSeq \in Nat
      BY <1>1, Zenon DEF NumberTyping
    <3> QED
      BY <1>5, <3>1, <3>2
  <2>3. \A y \in tdst[t] : y.seq \in Nat /\ y.seq <= durSeq'
    BY <1>3, <2>2, Zenon DEF TableDst, SameVersion
  <2> QED
    BY <1>2, <1>3, <1>5, <2>1, <2>3, Zenon
<1> QED
  BY <1>6, <1>7, Zenon DEF Builder

\* What an entry hid another by is still there, or something newer is that hides
\* both from the same snapshots.
LEMMA InstallCover ==
    ASSUME IInv, NEW t \in Builder, InstallTable(t), NEW e \in lsm', NEW x \in lsm,
           x.key = e.key, e.seq < x.seq
    PROVE  \E w \in lsm' : /\ w.key = e.key /\ w.seq \in Nat
                           /\ w.seq = x.seq \/ (x.seq < w.seq /\ w.seq <= durSeq')
                           /\ ~SeenBetween(x.seq, w.seq)
<1>0. TypeOK /\ SeqInv /\ FileInv /\ OwnInv /\ RefInv /\ TableInv /\ JobInv /\ ReadInv
  BY Zenon DEF IInv
<1>1. EntryTyping /\ NumberTyping
  BY <1>0, EntryTypingHolds, NumberTypingHolds, Zenon
<1>2. /\ TableDst(t) /\ TableDrop(t) /\ tsrc[t] \subseteq lsm
      /\ lsm' = (lsm \ tsrc[t]) \cup tdst[t]
      /\ \A y \in tdst[t] : y.seq \in Nat /\ y.seq <= durSeq'
  BY InstallEntries, Zenon
<1>3. x.seq \in Nat /\ ~SeenBetween(x.seq, x.seq)
  <2>1. x.seq \in Nat /\ \A s \in snaps : s.seq \in Nat
    BY <1>1, Zenon DEF EntryTyping, NumberTyping
  <2>2. \A m, n \in Nat : ~(m <= n /\ n < m)
    OBVIOUS
  <2> QED
    BY <2>1, <2>2, Zenon DEF SeenBetween
<1>4. CASE x \notin tsrc[t]
  BY <1>2, <1>3, <1>4, Zenon
<1>5. CASE \E y \in tdst[t] : SameVersion(x, y)
  BY <1>2, <1>3, <1>5, Zenon DEF SameVersion
<1>6. CASE \E y \in tdst[t] : y.key = x.key /\ x.seq < y.seq /\ ~SeenBetween(x.seq, y.seq)
  BY <1>2, <1>6, Zenon
<1>7. CASE /\ \A z \in lsm : z.key = x.key /\ z.seq <= x.seq => z \in tsrc[t]
           /\ \A y \in tdst[t] : y.key = x.key => x.seq < y.seq
  <2>1. e \notin tdst[t] /\ e \in lsm
    <3>1. e \in tdst[t] => x.seq < e.seq /\ e.seq \in Nat
      BY <1>2, <1>7, Zenon
    <3>2. ~(x.seq < e.seq /\ e.seq \in Nat)
      BY <1>3
    <3> QED
      BY <1>2, <3>1, <3>2, Zenon
  <2>2. e \in tsrc[t]
    <3>1. e.seq \in Nat
      BY <1>1, <2>1, Zenon DEF EntryTyping
    <3>2. e.seq <= x.seq
      BY <1>3, <3>1
    <3> QED
      BY <1>7, <2>1, <3>2, Zenon
  <2> QED
    BY <1>2, <2>1, <2>2, Zenon
<1> QED
  BY <1>2, <1>4, <1>5, <1>6, <1>7, Zenon DEF TableDrop

\* The base DB installs the SST of a flush or compaction.
LEMMA InstallTableStep == ASSUME IInv, NEW t \in Builder, InstallTable(t) PROVE IInv'
<1>0. TypeOK /\ SeqInv /\ FileInv /\ OwnInv /\ RefInv /\ TableInv /\ JobInv /\ ReadInv
  BY Zenon DEF IInv
<1>1. TypeOK'
  BY <1>0, TableType, Zenon DEF Table
<1>2. EntryTyping /\ NumberTyping /\ EntryTyping'
  BY <1>0, <1>1, EntryTypingHolds, NumberTypingHolds, EntryTypingHoldsP, Zenon
<1>3. UNCHANGED <<lastSeq, readVars, fileVars, tout, gcVars, purgeVars>>
  BY Zenon DEF InstallTable
<1>4. /\ tpc[t] = "finished" /\ tpc'[t] = "installed"
      /\ \A u \in Builder : u # t => /\ tpc'[u] = tpc[u] /\ tsrc'[u] = tsrc[u]
                                     /\ tdst'[u] = tdst[u] /\ tupto'[u] = tupto[u]
  BY <1>0, Zenon DEF InstallTable, TypeOK
<1>5. /\ Running(t) /\ TableSrc(t) /\ TableDst(t) /\ TableDrop(t)
      /\ tsrc[t] \subseteq lsm
      /\ lsm' = (lsm \ tsrc[t]) \cup tdst[t]
      /\ durSeq <= durSeq' /\ durSeq' <= lastSeq /\ durSeq' \in Nat
      /\ \A y \in tdst[t] : y.seq \in Nat /\ y.seq <= durSeq'
  BY InstallEntries, Zenon
<1>6. \A e \in lsm' : \/ e \in lsm
                      \/ e.file = 0
                      \/ /\ e.file = tout[t] /\ e.file # 0
                         /\ RecordOf(e) \in content[tout[t]]
  BY <1>5, Zenon DEF TableDst
<1>7. tout[t] # 0 => tout[t] \in File /\ meta[tout[t]] = "PendingLSM"
  BY <1>0, <1>4, FileTypingHolds, Zenon DEF OwnInv, OwnBuilder, FileTyping
<1>8. SeqInv'
  <2>1. /\ durSeq' <= lastSeq'
        /\ \A e \in lsm' : e.seq <= lastSeq'
        /\ \A s \in snaps' : s.seq <= lastSeq'
    <3>1. /\ lastSeq' = lastSeq /\ snaps' = snaps /\ lastSeq \in Nat
          /\ \A e \in lsm : e.seq <= lastSeq
          /\ \A s \in snaps : s.seq <= lastSeq
      BY <1>0, <1>2, <1>3, Zenon DEF SeqInv, NumberTyping, readVars
    <3> QED
      BY <1>5, <3>1
  <2>2. \A e \in sst' : e.seq <= durSeq'
    BY <1>0, <1>2, <1>5 DEF SeqInv, InstallTable, EntryTyping, NumberTyping, lsm
  <2>3. ASSUME NEW x \in lsm', NEW y \in lsm', SameVersion(x, y) PROVE x = y
    <3>1. CASE x \in tdst[t] /\ y \in tdst[t]
      BY <1>5, <2>3, <3>1, Zenon DEF TableDst
    <3>2. CASE x \notin tdst[t] /\ y \notin tdst[t]
      BY <1>0, <1>5, <2>3, <3>2, Zenon DEF SeqInv
    <3>3. ASSUME NEW u \in tdst[t], NEW v \in lsm \ tsrc[t], SameVersion(u, v) PROVE FALSE
      <4>1. PICK w \in tsrc[t] : SameVersion(w, u)
        BY <1>5, Zenon DEF TableDst
      <4>2. SameVersion(w, v)
        BY <3>3, <4>1, Zenon DEF SameVersion
      <4> QED
        BY <1>0, <1>5, <4>2, Zenon DEF SeqInv
    <3> QED
      BY <1>5, <2>3, <3>1, <3>2, <3>3, Zenon DEF SameVersion
  <2>4. ASSUME NEW m \in mem', NEW x \in sst', m.key = x.key PROVE x.seq < m.seq
    <3>1. m \in mem
      BY Zenon DEF InstallTable
    <3>2. CASE x \in sst
      BY <1>0, <2>4, <3>1, <3>2, Zenon DEF SeqInv
    <3>3. CASE x \in tdst[t]
      <4>1. PICK y \in tsrc[t] : SameVersion(y, x)
        BY <1>5, <3>3, Zenon DEF TableDst
      <4>2. CASE t = "flush"
        <5>1. m \in mem \ tsrc[t]
          BY <4>2, Zenon DEF InstallTable
        <5>2. y.seq <= tupto[t] /\ tupto[t] < m.seq
          BY <1>5, <4>2, <5>1, Zenon DEF TableSrc
        <5>3. y.seq \in Nat /\ m.seq \in Nat /\ tupto[t] \in Nat
          BY <1>2, <1>5, <3>1, Zenon DEF EntryTyping, NumberTyping, lsm
        <5> QED
          BY <4>1, <5>2, <5>3 DEF SameVersion
      <4>3. CASE t = "compaction"
        BY <1>0, <1>5, <2>4, <3>1, <4>1, <4>3, Zenon DEF TableSrc, SameVersion,
           SeqInv
      <4> QED
        BY <4>2, <4>3, Zenon DEF Builder
    <3> QED
      BY <3>2, <3>3, Zenon DEF InstallTable
  <2>5. \A e \in lsm' : e.file # 0 => e.org # 0
    BY <1>0, <1>5, Zenon DEF SeqInv, TableDst
  <2> QED
    BY <2>1, <2>2, <2>3, <2>4, <2>5, Zenon DEF SeqInv
<1>9. FileInv'
  <2>1. tout[t] # 0 => tout[t] < manNext
    BY <1>0, <1>7, Zenon DEF FileInv, FileBound, FileAgree, LiveState
  <2>2. \A e \in lsm' : e.file < manNext
    <3>1. 1 <= manNext /\ manNext \in Nat /\ \A e \in lsm : e.file < manNext
      BY <1>0, <1>2, Zenon DEF FileInv, FileBound, NumberTyping
    <3>2. 0 < manNext
      BY <3>1
    <3> QED
      BY <1>6, <2>1, <3>1, <3>2, Zenon
  <2>3. FileBound'
    BY <1>0, <1>3, <2>2, Zenon DEF FileInv, FileBound, fileVars, purgeVars
  <2>4. FileAgree'
    BY <1>0, <1>3, <2>2, Zenon DEF FileInv, FileAgree, fileVars, purgeVars
  <2>5. FileRecords'
    BY <1>0, <1>3, <2>2, Zenon DEF FileInv, FileRecords, fileVars, purgeVars
  <2> QED
    BY <2>3, <2>4, <2>5, Zenon DEF FileInv, FileBound
<1>10. OwnInv'
  <2>1. \A u \in Builder : tpc'[u] = "built" /\ tout[u] # 0 =>
            \A e \in lsm' : e.file # tout[u]
    <3> SUFFICES ASSUME NEW u \in Builder, tpc'[u] = "built", tout[u] # 0, NEW e \in lsm'
                 PROVE  e.file # tout[u]
      BY Zenon
    <3>1. u # t /\ tpc[u] = "built"
      BY <1>4, Zenon
    <3>2. tout[u] # tout[t] /\ \A d \in lsm : d.file # tout[u]
      BY <1>0, <3>1, Zenon DEF OwnInv, OwnApart, OwnBuilder
    <3> QED
      BY <1>6, <3>2, Zenon
  <2>2. \A j \in Job : pc[j] = "run" => \A f \in outs[j] : \A e \in lsm' : e.file # f
    <3> SUFFICES ASSUME NEW j \in Job, pc[j] = "run", NEW f \in outs[j], NEW e \in lsm'
                 PROVE  e.file # f
      BY Zenon
    <3>1. f # tout[t] /\ f # 0
      BY <1>0, FileTypingHolds, JobFilesApart, Zenon DEF FileTyping
    <3>2. \A d \in lsm : d.file # f
      BY <1>0, Zenon DEF OwnInv, OwnJob
    <3> QED
      BY <1>6, <3>1, <3>2, Zenon
  <2>3. OwnBound'
    BY <1>0, <1>3, <1>4, <2>1, <2>2, Zenon DEF OwnInv, OwnBound, fileVars, gcVars,
       purgeVars
  <2>4. OwnApart'
    BY <1>0, <1>3, <1>4, <2>1, <2>2, Zenon DEF OwnInv, OwnApart, fileVars, gcVars,
       purgeVars
  <2>5. OwnBuilder'
    <3>1. OwnBuilder
      BY <1>0, Zenon DEF OwnInv
    <3>2. tout' = tout /\ meta' = meta /\ disk' = disk /\ cand' = cand
      BY <1>3, Zenon DEF fileVars, purgeVars
    <3>3. \A u \in Builder : tpc'[u] = tpc[u] \/ (u = t /\ tpc'[u] = "installed")
      BY <1>4, Zenon
    <3>4. \A u \in Builder : /\ tpc'[u] = "idle" => tout[u] = 0
                             /\ tpc'[u] = "built" /\ tout[u] # 0 =>
                                    meta[tout[u]] = "none" /\ tout[u] \in disk /\ tout[u] \notin cand
                             /\ tpc'[u] = "finished" /\ tout[u] # 0 => meta[tout[u]] = "PendingLSM"
      BY <3>1, <3>3, Zenon DEF OwnBuilder
    <3>5. \A u \in Builder : tpc'[u] = "installed" /\ tout[u] # 0 =>
              meta[tout[u]] \in {"PendingLSM", "Obsolete", "none"}
      BY <1>7, <3>1, <3>3, Zenon DEF OwnBuilder
    <3> QED
      BY <2>1, <3>2, <3>4, <3>5, Zenon DEF OwnBuilder
  <2>6. OwnJob'
    BY <1>0, <1>3, <1>4, <2>1, <2>2, Zenon DEF OwnInv, OwnJob, fileVars, gcVars,
       purgeVars
  <2> QED
    BY <2>3, <2>4, <2>5, <2>6, Zenon DEF OwnInv, OwnBound
<1>11. RefInv'
  <2> SUFFICES ASSUME NEW e \in lsm', e.file # 0
        PROVE \/ meta[e.file] \in LiveState /\ RecordOf(e) \in content[e.file]
              \/ /\ meta[e.file] = "Obsolete" /\ RecordOf(e) \in content[e.file]
                 /\ \E w \in lsm' : /\ w.key = e.key /\ e.seq < w.seq /\ w.seq <= durSeq'
                                    /\ \A s \in snaps : e.seq <= s.seq /\ s.seq < w.seq
                                                        => s.seq <= obsSeq[e.file]
              \/ /\ meta[e.file] = "none"
                 /\ \E w \in lsm' : /\ w.key = e.key /\ e.seq < w.seq /\ w.seq <= durSeq'
                                    /\ \A s \in snaps : e.seq <= s.seq /\ s.seq < w.seq
                                                        => s.racy
    BY <1>3, Zenon DEF RefInv, RecordOf, fileVars, readVars
  <2>1. CASE e \notin lsm
    BY <1>6, <1>7, <2>1, Zenon DEF LiveState
  <2>2. ASSUME e \in lsm, NEW x \in lsm, x.key = e.key, e.seq < x.seq, x.seq <= durSeq
        PROVE  \E w \in lsm' : /\ w.key = e.key /\ e.seq < w.seq /\ w.seq <= durSeq'
                               /\ \A s \in snaps : s.seq < w.seq => s.seq < x.seq
    <3>1. PICK w \in lsm' : /\ w.key = e.key /\ w.seq \in Nat
                            /\ w.seq = x.seq \/ (x.seq < w.seq /\ w.seq <= durSeq')
                            /\ ~SeenBetween(x.seq, w.seq)
      BY <2>2, InstallCover, Zenon
    <3>2. /\ e.seq \in Nat /\ x.seq \in Nat /\ durSeq \in Nat
          /\ \A s \in snaps : s.seq \in Nat /\ ~(x.seq <= s.seq /\ s.seq < w.seq)
      BY <1>2, <2>2, <3>1, Zenon DEF SeenBetween, EntryTyping, NumberTyping
    <3>3. e.seq < w.seq /\ w.seq <= durSeq'
      <4>1. durSeq <= durSeq' /\ durSeq' \in Nat
        BY <1>5, Zenon
      <4> QED
        BY <2>2, <3>1, <3>2, <4>1
    <3>4. \A s \in snaps : s.seq < w.seq => s.seq < x.seq
      BY <3>2
    <3> QED
      BY <3>1, <3>3, <3>4, Zenon
  <2>3. CASE e \in lsm
    BY <1>0, <2>2, <2>3, Zenon DEF RefInv
  <2> QED
    BY <2>1, <2>3, Zenon
<1>12. TableInv'
  <2> SUFFICES ASSUME NEW u \in Builder, Running(u)'
               PROVE  TableSrc(u)' /\ TableDst(u)' /\ TableDrop(u)'
    BY Zenon DEF TableInv
  <2>1. u # t /\ Running(u)
    BY <1>4, Zenon DEF Running
  <2>2. /\ TableSrc(u) /\ TableDst(u) /\ TableDrop(u) /\ tsrc[u] \subseteq lsm
        /\ tsrc'[u] = tsrc[u] /\ tdst'[u] = tdst[u] /\ tupto'[u] = tupto[u]
        /\ tout' = tout /\ content' = content /\ snaps' = snaps /\ lastSeq' = lastSeq
    BY <1>0, <1>3, <1>4, <2>1, RunningBuilder, Zenon DEF TableInv, fileVars,
       readVars
  <2>3. TableSrc(u)'
    BY <1>5, <2>1, <2>2, Zenon DEF TableSrc, InstallTable, Builder
  <2>4. TableDst(u)'
    BY <2>2, Zenon DEF TableDst, RecordOf, SameVersion
  <2>5. ASSUME u = "compaction", NEW x \in tsrc[u], NEW z \in tdst[t],
               z.key = x.key, z.seq <= x.seq
        PROVE  FALSE
    <3>1. PICK y \in tsrc[t] : SameVersion(y, z)
      BY <1>5, Zenon DEF TableDst
    <3>2. y \in mem /\ x \in sst
      BY <1>5, <2>1, <2>2, <2>5, Zenon DEF TableSrc, Builder
    <3> QED
      BY <1>0, <1>2, <2>5, <3>1, <3>2 DEF SeqInv, SameVersion, EntryTyping, lsm
  <2>6. TableDrop(u)'
    BY <1>5, <2>2, <2>5, Zenon DEF TableDrop, SameVersion, SeenBetween
  <2> QED
    BY <2>3, <2>4, <2>6, Zenon
<1>13. JobInv'
  <2> SUFFICES ASSUME NEW j \in Job PROVE JobPhase(j)' /\ JobRefs(j)' /\ JobCopies(j)'
    BY Zenon DEF JobInv
  <2>1. JobPhase(j) /\ JobRefs(j) /\ JobCopies(j)
    BY <1>0, Zenon DEF JobInv
  <2>2. \A e \in lsm' : e.file \in inputs[j] => e \in lsm
    <3> SUFFICES ASSUME NEW e \in lsm', e.file \in inputs[j] PROVE e \in lsm
      BY Zenon
    <3>1. e.file # tout[t] /\ e.file # 0
      BY <1>0, FileTypingHolds, JobFilesApart, Zenon DEF FileTyping
    <3> QED
      BY <1>6, <3>1, Zenon
  <2>3. ASSUME NEW e \in lsm', e \in lsm, NEW n \in {durSeq, lastSeq}, HiddenUpTo(e, n)
        PROVE  \E w \in lsm' : /\ w.key = e.key /\ e.seq < w.seq
                               /\ w.seq <= IF n = durSeq THEN durSeq' ELSE lastSeq
    <3>1. PICK x \in lsm : x.key = e.key /\ e.seq < x.seq /\ x.seq <= n
      BY <2>3, Zenon DEF HiddenUpTo
    <3>2. PICK w \in lsm' : /\ w.key = e.key /\ w.seq \in Nat
                            /\ w.seq = x.seq \/ (x.seq < w.seq /\ w.seq <= durSeq')
      BY <3>1, InstallCover, Zenon
    <3> QED
      BY <1>2, <1>5, <3>1, <3>2 DEF EntryTyping, NumberTyping
  <2>4. JobPhase(j)'
    BY <1>3, <2>1, Zenon DEF JobPhase, gcVars
  <2>5. JobRefs(j)'
    <3> SUFFICES ASSUME NEW e \in lsm', e.file \in inputs[j]
          PROVE  /\ \/ <<e.file, RecordOf(e)>> \in todo[j]
                    \/ \E b \in batch[j] : b.src = e.file /\ b.rec = RecordOf(e)
                    \/ HiddenUpTo(e, IF pc[j] = "delete" THEN durSeq ELSE lastSeq)'
                 /\ e.key \in fresh[j] /\ <<e.file, RecordOf(e)>> \in todo[j]
                    => HiddenUpTo(e, lastSeq)'
      BY <1>3, Zenon DEF JobRefs, RecordOf, gcVars
    <3>1. HiddenUpTo(e, durSeq) => HiddenUpTo(e, durSeq)'
      BY <2>2, <2>3, Zenon DEF HiddenUpTo
    <3>2. HiddenUpTo(e, lastSeq) => HiddenUpTo(e, lastSeq)'
      BY <1>2, <1>3, <1>5, <2>2, <2>3 DEF HiddenUpTo, NumberTyping
    <3> QED
      BY <1>3, <2>1, <2>2, <3>1, <3>2, Zenon DEF JobRefs, gcVars
  <2>6. JobCopies(j)'
    BY <1>3, <2>1, <2>2, Zenon DEF JobCopies, gcVars, fileVars
  <2> QED
    BY <2>4, <2>5, <2>6, Zenon
<1>14. ReadInv'
  BY <1>0, <1>3, ReadFrame, Zenon DEF readVars, fileVars, purgeVars
<1> QED
  BY <1>1, <1>8, <1>9, <1>10, <1>11, <1>12, <1>13, <1>14, Zenon DEF IInv

\* OnFlushCompleted and OnCompactionCompleted move a file between live states.
LEMMA TableCompletedStep == ASSUME IInv, NEW t \in Builder, TableCompleted(t) PROVE IInv'
<1>0. TypeOK /\ SeqInv /\ FileInv /\ OwnInv /\ RefInv /\ TableInv /\ JobInv /\ ReadInv
  BY Zenon DEF IInv
<1>1. TypeOK'
  BY <1>0, TableType, Zenon DEF Table
<1>2. EntryTyping /\ NumberTyping
  BY <1>0, EntryTypingHolds, NumberTypingHolds, Zenon
<1>3. UNCHANGED <<dbVars, readVars, nextFile, disk, content, obsSeq, manifest, manNext, tsrc,
                  tdst, tupto, gcVars, purgeVars>>
  BY Zenon DEF TableCompleted
<1>4. /\ tpc[t] = "installed" /\ tpc'[t] = "idle" /\ tout'[t] = 0
      /\ \A u \in Builder : u # t => tpc'[u] = tpc[u] /\ tout'[u] = tout[u]
  BY <1>0, Zenon DEF TableCompleted, TypeOK
<1>5. lsm' = lsm
  BY <1>3, Zenon DEF lsm, dbVars
<1>6. /\ tout[t] # 0 => tout[t] \in File
      /\ \A f \in File : \/ meta'[f] = meta[f]
                         \/ f = tout[t] /\ meta[f] = "PendingLSM" /\ meta'[f] = "Normal"
  <2>1. meta \in [File -> FileState] /\ (tout[t] # 0 => tout[t] \in File)
    BY <1>0 DEF TypeOK, File0, File
  <2> QED
    BY <2>1, Zenon DEF TableCompleted
<1>7. \A f \in File : /\ meta'[f] \in LiveState <=> meta[f] \in LiveState
                      /\ meta'[f] = "Obsolete" <=> meta[f] = "Obsolete"
                      /\ meta'[f] = "none" <=> meta[f] = "none"
  BY <1>6, Zenon DEF LiveState
<1>8. FileInv'
  <2>1. FileBound'
    BY <1>0, <1>3, <1>5, <1>7, FileTypingHolds, Zenon DEF FileInv, FileBound,
       FileTyping, purgeVars
  <2>2. FileAgree'
    BY <1>0, <1>3, <1>5, <1>7, FileTypingHolds, Zenon DEF FileInv, FileAgree,
       FileTyping, purgeVars
  <2>3. FileRecords'
    BY <1>0, <1>3, <1>5, <1>7, FileTypingHolds, Zenon DEF FileInv, FileRecords,
       FileTyping, purgeVars
  <2> QED
    BY <2>1, <2>2, <2>3, Zenon DEF FileInv, FileBound
<1>9. OwnInv'
  <2>1. \A u \in Builder : tout[u] # 0 => tout[u] \in File
    BY <1>0 DEF TypeOK, File0, File
  <2>2. \A u \in Builder : u # t /\ tout[u] # 0 => meta'[tout[u]] = meta[tout[u]]
    BY <1>0, <1>6, <2>1, Zenon DEF OwnInv, OwnApart
  <2>3. \A j \in Job : \A f \in inputs[j] \cup outs[j] : meta'[f] = meta[f]
    <3> SUFFICES ASSUME NEW j \in Job, NEW f \in inputs[j] \cup outs[j] PROVE meta'[f] = meta[f]
      BY Zenon
    <3>1. f \in File /\ f # tout[t]
      BY <1>0, JobFilesApart, Zenon
    <3> QED
      BY <1>6, <3>1, Zenon
  <2>4. \A j \in Job : 0 \notin inputs[j] \cup outs[j]
    BY <1>0, <1>2 DEF TypeOK, NumberTyping
  <2>5. OwnBound'
    <3>1. nextFile \in Nat /\ 1 <= manNext /\ manNext <= nextFile /\ manNext \in Nat
      BY <1>0, <1>2, Zenon DEF NumberTyping, FileInv, FileBound
    <3>2. 0 < nextFile
      BY <3>1
    <3> QED
      BY <1>0, <1>3, <1>4, <3>2, Zenon DEF OwnInv, OwnBound, gcVars
  <2>6. OwnApart'
    BY <1>0, <1>3, <1>4, <2>4, Zenon DEF OwnInv, OwnApart, gcVars
  <2>7. OwnBuilder'
    <3> SUFFICES ASSUME NEW u \in Builder
          PROVE  /\ tpc'[u] = "idle" => tout'[u] = 0
                 /\ tpc'[u] = "built" /\ tout'[u] # 0 =>
                        /\ meta'[tout'[u]] = "none" /\ tout'[u] \in disk /\ tout'[u] \notin cand
                        /\ \A e \in lsm : e.file # tout'[u]
                 /\ tpc'[u] = "finished" /\ tout'[u] # 0 => meta'[tout'[u]] = "PendingLSM"
                 /\ tpc'[u] = "installed" /\ tout'[u] # 0 =>
                        meta'[tout'[u]] \in {"PendingLSM", "Obsolete", "none"}
      BY <1>3, <1>5, Zenon DEF OwnBuilder, purgeVars
    <3>1. CASE u = t
      BY <1>4, <3>1, Zenon
    <3>2. CASE u # t
      <4>1. tpc'[u] = tpc[u] /\ tout'[u] = tout[u] /\ (tout[u] # 0 => meta'[tout[u]] = meta[tout[u]])
        BY <1>4, <2>2, <3>2, Zenon
      <4>2. OwnBuilder
        BY <1>0, Zenon DEF OwnInv
      <4>3. tpc'[u] = "idle" => tout'[u] = 0
        BY <4>1, <4>2, Zenon DEF OwnBuilder
      <4>4. tpc'[u] = "built" /\ tout'[u] # 0 =>
                /\ meta'[tout'[u]] = "none" /\ tout'[u] \in disk /\ tout'[u] \notin cand
                /\ \A e \in lsm : e.file # tout'[u]
        BY <4>1, <4>2, Zenon DEF OwnBuilder
      <4>5. /\ tpc'[u] = "finished" /\ tout'[u] # 0 => meta'[tout'[u]] = "PendingLSM"
            /\ tpc'[u] = "installed" /\ tout'[u] # 0 =>
                   meta'[tout'[u]] \in {"PendingLSM", "Obsolete", "none"}
        BY <4>1, <4>2, Zenon DEF OwnBuilder
      <4> QED
        BY <4>3, <4>4, <4>5, Zenon
    <3> QED
      BY <3>1, <3>2, Zenon
  <2>8. OwnJob'
    BY <1>0, <1>3, <1>5, <2>3, Zenon DEF OwnInv, OwnJob, gcVars, purgeVars
  <2> QED
    BY <2>5, <2>6, <2>7, <2>8, Zenon DEF OwnInv, OwnBound
<1>10. RefInv'
  BY <1>0, <1>2, <1>3, <1>5, <1>7, Zenon DEF RefInv, EntryTyping, dbVars, readVars
<1>11. TableInv'
  <2> SUFFICES ASSUME NEW u \in Builder, Running(u)'
               PROVE  TableSrc(u)' /\ TableDst(u)' /\ TableDrop(u)'
    BY Zenon DEF TableInv
  <2>1. /\ TableSrc(u) /\ TableDst(u) /\ TableDrop(u)
        /\ tout'[u] = tout[u]
    BY <1>0, <1>4, Zenon DEF TableInv, Running
  <2>2. TableSrc(u)' /\ TableDst(u)'
    BY <1>3, <2>1, Zenon DEF TableSrc, TableDst, RecordOf, SameVersion, dbVars
  <2>3. TableDrop(u)'
    BY <1>3, <1>5, <2>1, Zenon DEF TableDrop, SameVersion, SeenBetween, readVars
  <2> QED
    BY <2>2, <2>3, Zenon
<1>12. JobInv'
  <2>1. \A j \in Job : \A f \in outs[j] : meta'[f] = meta[f]
    <3> SUFFICES ASSUME NEW j \in Job, NEW f \in outs[j] PROVE meta'[f] = meta[f]
      BY Zenon
    <3>1. f \in File /\ f # tout[t]
      BY <1>0, JobFilesApart, Zenon
    <3> QED
      BY <1>6, <3>1, Zenon
  <2> SUFFICES ASSUME NEW j \in Job PROVE JobPhase(j)' /\ JobRefs(j)' /\ JobCopies(j)'
    BY Zenon DEF JobInv
  <2>2. JobPhase(j) /\ JobRefs(j) /\ JobCopies(j)
    BY <1>0, Zenon DEF JobInv
  <2>3. JobPhase(j)' /\ JobRefs(j)'
    BY <1>3, <1>5, <2>2, Zenon DEF JobPhase, JobRefs, HiddenUpTo, RecordOf, dbVars, gcVars
  <2>4. JobCopies(j)'
    BY <1>3, <1>5, <2>1, <2>2, Zenon DEF JobCopies, gcVars
  <2> QED
    BY <2>3, <2>4, Zenon
<1>13. ReadInv'
  <2>1. \A r \in reads : r[2].file \in File
    BY <1>0, ReadsTyped, Zenon
  <2> QED
    BY <1>0, <1>3, <1>7, <2>1, Zenon DEF ReadInv, RecordOf, readVars, purgeVars
<1> QED
  BY <1>1, <1>3, <1>8, <1>9, <1>10, <1>11, <1>12, <1>13, SeqFrame, Zenon DEF IInv,
     readVars

\* A builder that fails leaves the files of the others alone.
LEMMA FailTableStep == ASSUME IInv, NEW t \in Builder, FailTable(t) PROVE IInv'
<1>0. TypeOK /\ SeqInv /\ FileInv /\ OwnInv /\ RefInv /\ TableInv /\ JobInv /\ ReadInv
  BY Zenon DEF IInv
<1>1. TypeOK'
  BY <1>0, TableType, Zenon DEF Table
<1>2. EntryTyping /\ NumberTyping
  BY <1>0, EntryTypingHolds, NumberTypingHolds, Zenon
<1>3. UNCHANGED <<dbVars, readVars, nextFile, content, meta, obsSeq, manifest, manNext,
                  gcVars, purgeVars>>
  BY Zenon DEF FailTable
<1>4. /\ tpc'[t] = "idle" /\ tout'[t] = 0
      /\ \A u \in Builder : u # t => /\ tpc'[u] = tpc[u] /\ tout'[u] = tout[u]
                                     /\ tsrc'[u] = tsrc[u] /\ tdst'[u] = tdst[u]
                                     /\ tupto'[u] = tupto[u]
  BY <1>0, Zenon DEF FailTable, TypeOK
<1>5. lsm' = lsm
  BY <1>3, Zenon DEF lsm, dbVars
<1>6. /\ disk' \subseteq disk
      /\ \A f \in disk \ disk' : tpc[t] = "built" /\ f = tout[t]
  BY Zenon DEF FailTable
<1>7. FileInv'
  <2>1. \A f \in File : meta[f] # "none" => f \in disk'
    <3>1. \A f \in File : meta[f] # "none" => f \in disk /\ f # 0
      BY <1>0, FileTypingHolds, Zenon DEF FileInv, FileAgree, FileTyping
    <3>2. tpc[t] = "built" /\ tout[t] # 0 => meta[tout[t]] = "none"
      BY <1>0, Zenon DEF OwnInv, OwnBuilder
    <3> QED
      BY <1>6, <3>1, <3>2, Zenon
  <2>2. FileBound'
    BY <1>0, <1>3, <1>5, <1>6, <2>1, Zenon DEF FileInv, FileBound, purgeVars
  <2>3. FileAgree'
    BY <1>0, <1>3, <1>5, <1>6, <2>1, Zenon DEF FileInv, FileAgree, purgeVars
  <2>4. FileRecords'
    BY <1>0, <1>3, <1>5, <1>6, <2>1, Zenon DEF FileInv, FileRecords, purgeVars
  <2> QED
    BY <2>2, <2>3, <2>4, Zenon DEF FileInv, FileBound
<1>8. OwnInv'
  <2>1. \A u \in Builder : u # t /\ tout[u] # 0 /\ tout[u] \in disk => tout[u] \in disk'
    <3>1. \A u \in Builder : u # t /\ tout[u] # 0 => tout[u] # tout[t]
      BY <1>0, Zenon DEF OwnInv, OwnApart
    <3> QED
      BY <1>6, <3>1
  <2>2. \A j \in Job : \A f \in outs[j] : f \in disk => f \in disk'
    <3>1. \A j \in Job : \A f \in outs[j] : f # tout[t]
      BY <1>0, Zenon DEF OwnInv, OwnApart
    <3> QED
      BY <1>6, <3>1
  <2>3. \A j \in Job : 0 \notin inputs[j] \cup outs[j]
    BY <1>0, <1>2 DEF TypeOK, NumberTyping
  <2>4. OwnBound'
    <3>1. nextFile \in Nat /\ 1 <= manNext /\ manNext <= nextFile /\ manNext \in Nat
      BY <1>0, <1>2, Zenon DEF NumberTyping, FileInv, FileBound
    <3>2. 0 < nextFile
      BY <3>1
    <3> QED
      BY <1>0, <1>3, <1>4, <3>2, Zenon DEF OwnInv, OwnBound, gcVars
  <2>5. OwnApart'
    <3>1. OwnApart
      BY <1>0, Zenon DEF OwnInv
    <3>2. /\ inputs' = inputs /\ outs' = outs
          /\ \A u \in Builder : tout'[u] = 0 \/ tout'[u] = tout[u]
      BY <1>3, <1>4, Zenon DEF gcVars
    <3> QED
      BY <2>3, <3>1, <3>2, Zenon DEF OwnApart
  <2>6. OwnBuilder'
    <3> SUFFICES ASSUME NEW u \in Builder
          PROVE  /\ tpc'[u] = "idle" => tout'[u] = 0
                 /\ tpc'[u] = "built" /\ tout'[u] # 0 =>
                        /\ meta[tout'[u]] = "none" /\ tout'[u] \in disk' /\ tout'[u] \notin cand
                        /\ \A e \in lsm : e.file # tout'[u]
                 /\ tpc'[u] = "finished" /\ tout'[u] # 0 => meta[tout'[u]] = "PendingLSM"
                 /\ tpc'[u] = "installed" /\ tout'[u] # 0 =>
                        meta[tout'[u]] \in {"PendingLSM", "Obsolete", "none"}
      BY <1>3, <1>5, Zenon DEF OwnBuilder, purgeVars
    <3>1. CASE u = t
      BY <1>4, <3>1, Zenon
    <3>2. CASE u # t
      <4>1. /\ tpc'[u] = tpc[u] /\ tout'[u] = tout[u]
            /\ tout[u] # 0 /\ tout[u] \in disk => tout[u] \in disk'
        BY <1>4, <2>1, <3>2, Zenon
      <4>2. OwnBuilder
        BY <1>0, Zenon DEF OwnInv
      <4>3. tpc'[u] = "idle" => tout'[u] = 0
        BY <4>1, <4>2, Zenon DEF OwnBuilder
      <4>4. tpc'[u] = "built" /\ tout'[u] # 0 =>
                /\ meta[tout'[u]] = "none" /\ tout'[u] \in disk' /\ tout'[u] \notin cand
                /\ \A e \in lsm : e.file # tout'[u]
        BY <4>1, <4>2, Zenon DEF OwnBuilder
      <4>5. /\ tpc'[u] = "finished" /\ tout'[u] # 0 => meta[tout'[u]] = "PendingLSM"
            /\ tpc'[u] = "installed" /\ tout'[u] # 0 =>
                   meta[tout'[u]] \in {"PendingLSM", "Obsolete", "none"}
        BY <4>1, <4>2, Zenon DEF OwnBuilder
      <4> QED
        BY <4>3, <4>4, <4>5, Zenon
    <3> QED
      BY <3>1, <3>2, Zenon
  <2>7. OwnJob'
    BY <1>0, <1>3, <1>5, <2>2, Zenon DEF OwnInv, OwnJob, gcVars, purgeVars
  <2> QED
    BY <2>4, <2>5, <2>6, <2>7, Zenon DEF OwnInv, OwnBound
<1>9. RefInv'
  BY <1>0, <1>3, RefFrame, Zenon DEF dbVars, readVars
<1>10. TableInv'
  <2> SUFFICES ASSUME NEW u \in Builder, Running(u)'
               PROVE  TableSrc(u)' /\ TableDst(u)' /\ TableDrop(u)'
    BY Zenon DEF TableInv
  <2>1. /\ TableSrc(u) /\ TableDst(u) /\ TableDrop(u) /\ tsrc'[u] = tsrc[u]
        /\ tdst'[u] = tdst[u] /\ tout'[u] = tout[u] /\ tupto'[u] = tupto[u]
    BY <1>0, <1>4, Zenon DEF TableInv, Running
  <2>2. TableSrc(u)' /\ TableDst(u)'
    BY <1>3, <2>1, Zenon DEF TableSrc, TableDst, RecordOf, SameVersion, dbVars
  <2>3. TableDrop(u)'
    BY <1>3, <1>5, <2>1, Zenon DEF TableDrop, SameVersion, SeenBetween, readVars
  <2> QED
    BY <2>2, <2>3, Zenon
<1>11. JobInv' /\ ReadInv'
  BY <1>0, <1>3, JobFrame, ReadFrame, Zenon DEF dbVars, readVars, gcVars, purgeVars
<1> QED
  BY <1>1, <1>3, <1>7, <1>8, <1>9, <1>10, <1>11, SeqFrame, Zenon DEF IInv, readVars

\* Flush and compaction preserve the invariant.
LEMMA TableStep == ASSUME IInv, Table PROVE IInv'
<1>0. TypeOK'
  BY TableType, Zenon DEF IInv
<1>1. CASE StartFlush
  <2>1. mem \in SUBSET lsm /\ {} \in SUBSET File
    BY Zenon DEF lsm
  <2>2. BuildTable("flush", mem, {}, {}) /\ "flush" \in Builder
    BY <1>1, Zenon DEF StartFlush, Builder
  <2> QED
    BY <1>0, <2>1, <2>2, BuildTableStep, Zenon
<1>2. CASE StartCompaction
  <2>1. PICK S \in SUBSET sst : \E drop \in {{}, Dead(S)},
             G \in IF LevelMerge THEN SUBSET File ELSE {{}} :
                 BuildTable("compaction", S, drop, G)
    BY <1>2, Zenon DEF StartCompaction
  <2>2. PICK drop \in {{}, Dead(S)}, G \in SUBSET File : BuildTable("compaction", S, drop, G)
    BY <2>1, Zenon
  <2>3. S \in SUBSET lsm /\ "compaction" \in Builder
    BY Zenon DEF lsm, Builder
  <2> QED
    BY <1>0, <2>2, <2>3, BuildTableStep, Zenon
<1>3. ASSUME NEW t \in Builder, FinishTable(t) \/ InstallTable(t) \/ TableCompleted(t)
                                \/ FailTable(t)
      PROVE  IInv'
  BY <1>3, FinishTableStep, InstallTableStep, TableCompletedStep, FailTableStep,
     Zenon
<1> QED
  BY <1>1, <1>2, <1>3, Zenon DEF Table
=============================================================================
