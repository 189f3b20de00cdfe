-------------------------- MODULE GCSchedulerProofs --------------------------
(***************************************************************************)
(* The counters of the GC scheduler agree, dropping column families        *)
(* excludes GC, and no wakeup is lost, for any number of threads, column   *)
(* families and drop requests.                                             *)
(***************************************************************************)
EXTENDS GCScheduler, FiniteSetTheorems, TLAPS

\* The sets of threads and droppers that the counters count are finite.
LEMMA Counting ==
    /\ IsFiniteSet(Busy) /\ Cardinality(Busy) \in Nat
    /\ IsFiniteSet(Collecting) /\ Cardinality(Collecting) \in Nat
    /\ IsFiniteSet(Dropping) /\ Cardinality(Dropping) \in Nat
    /\ MaxBackgroundGC \in Nat
    /\ Cardinality(Busy) <= MaxBackgroundGC /\ Cardinality(Collecting) <= MaxBackgroundGC
<1>1. Busy \in SUBSET Thread /\ Collecting \in SUBSET Thread /\ Dropping \in SUBSET Dropper
  BY Zenon DEF Busy, Collecting, Dropping
<1>2. IsFiniteSet(Thread) /\ IsFiniteSet(Dropper)
  BY ActorAssumption, Zenon
<1>3. IsFiniteSet(Busy) /\ Cardinality(Busy) <= Cardinality(Thread)
  BY <1>1, <1>2, FS_Subset, Zenon
<1>4. IsFiniteSet(Collecting) /\ Cardinality(Collecting) <= Cardinality(Thread)
  BY <1>1, <1>2, FS_Subset, Zenon
<1>5. IsFiniteSet(Dropping)
  BY <1>1, <1>2, FS_Subset, Zenon
<1> QED
  BY <1>2, <1>3, <1>4, <1>5, FS_CardinalityType, Zenon DEF MaxBackgroundGC

\* ... also after a step.
LEMMA CountingP ==
    /\ IsFiniteSet(Busy') /\ Cardinality(Busy') \in Nat
    /\ IsFiniteSet(Collecting') /\ Cardinality(Collecting') \in Nat
    /\ Cardinality(Busy') <= MaxBackgroundGC /\ Cardinality(Collecting') <= MaxBackgroundGC
<1>1. Busy' \in SUBSET Thread /\ Collecting' \in SUBSET Thread
  BY Zenon DEF Busy, Collecting
<1>2. IsFiniteSet(Thread)
  BY ActorAssumption, Zenon
<1>3. IsFiniteSet(Busy') /\ Cardinality(Busy') <= Cardinality(Thread)
  BY <1>1, <1>2, FS_Subset, Zenon
<1>4. IsFiniteSet(Collecting') /\ Cardinality(Collecting') <= Cardinality(Thread)
  BY <1>1, <1>2, FS_Subset, Zenon
<1> QED
  BY <1>3, <1>4, FS_CardinalityType, Zenon DEF MaxBackgroundGC

\* A thread that goes from p to q: what that does to the counted sets.
LEMMA ThreadStep ==
    ASSUME TypeOK, NEW t \in Thread, NEW q, tpc' = [tpc EXCEPT ![t] = q]
    PROVE  /\ q \in {"start", "wait", "gc", "end"} => Busy' = Busy \cup {t}
           /\ q \notin {"start", "wait", "gc", "end"} => Busy' = Busy \ {t}
           /\ q \in {"gc", "end"} => Collecting' = Collecting \cup {t}
           /\ q \notin {"gc", "end"} => Collecting' = Collecting \ {t}
  BY Zenon DEF TypeOK, Busy, Collecting

\* MaybeScheduleGC starts no more jobs than are unscheduled and than threads are left.
LEMMA NewJobsRange ==
    ASSUME NEW u \in Nat, NEW s \in 0 .. MaxBackgroundGC
    PROVE  NewJobs(u, s) \in 0 .. u /\ s + NewJobs(u, s) <= MaxBackgroundGC
<1>1. MaxBackgroundGC \in Nat
  BY Counting, Zenon
<1>2. CASE shutdown
  BY <1>1, <1>2 DEF NewJobs
<1>3. CASE ~shutdown
  BY <1>1, <1>3 DEF NewJobs
<1> QED
  BY <1>2, <1>3
, Zenon
\* The counters are natural numbers.
LEMMA Numbers ==
    ASSUME TypeOK
    PROVE  /\ unscheduled \in Nat /\ scheduled \in Nat /\ submitted \in Nat
           /\ running \in Nat /\ dropReqs \in Nat /\ Len(queue) \in Nat
           /\ scheduled <= MaxBackgroundGC
  BY Counting DEF TypeOK

\* A new database.
LEMMA InitSched == Init => SchedInv
<1> SUFFICES ASSUME Init PROVE SchedInv
  BY Zenon
<1>1. MaxBackgroundGC \in Nat
  BY Counting, Zenon
<1>2. Busy = {} /\ Collecting = {} /\ Dropping = {}
  BY Zenon DEF Init, Busy, Collecting, Dropping
<1>3. Cardinality(Busy) = 0 /\ Cardinality(Collecting) = 0 /\ Cardinality(Dropping) = 0
  BY <1>2, FS_EmptySet, Zenon
<1>4. TypeOK
  <2>1. shutdown \in BOOLEAN /\ poolExit \in BOOLEAN
    BY Zenon DEF Init
  <2>2. /\ queue \in Seq(CF) /\ unscheduled \in Nat /\ triggers \in 0 .. MaxTrigger
        /\ scheduled \in 0 .. MaxBackgroundGC /\ submitted \in 0 .. MaxBackgroundGC
        /\ running \in 0 .. MaxBackgroundGC /\ dropReqs \in Nat
    BY <1>1, ActorAssumption DEF Init
  <2> QED
    BY <2>1, <2>2, Zenon DEF Init, TypeOK
<1> QED
  BY <1>3, <1>4 DEF Init, SchedInv, QueueMatches, DropExcludesGC, NoLostWakeup

\* A GC request.
LEMMA TriggerStep == ASSUME SchedInv, NEW c \in CF, Trigger(c) PROVE SchedInv'
<1>1. TypeOK /\ QueueMatches /\ NoLostWakeup
  BY Zenon DEF SchedInv
<1> DEFINE k == NewJobs(unscheduled + 1, scheduled)
<1>2. /\ unscheduled' = (unscheduled + 1) - k
      /\ scheduled' = scheduled + k /\ submitted' = submitted + k
  BY Zenon DEF Trigger, MaybeScheduleGC
<1>k. k \in 0 .. unscheduled + 1 /\ scheduled + k <= MaxBackgroundGC
  <2>1. unscheduled + 1 \in Nat /\ scheduled \in 0 .. MaxBackgroundGC
    BY <1>1 DEF TypeOK
  <2> QED
    BY <2>1, NewJobsRange, Zenon
<1> HIDE DEF k
<1>3. /\ queue' = Append(queue, c) /\ triggers' = triggers + 1 /\ triggers < MaxTrigger
      /\ UNCHANGED <<running, dropReqs, waiting, tpc, tcf, dropVars, closeVars>>
  BY Zenon DEF Trigger
<1>4. Busy' = Busy /\ Collecting' = Collecting /\ Dropping' = Dropping
  BY <1>3, Zenon DEF Busy, Collecting, Dropping, dropVars
<1>5. queue' \in Seq(CF) /\ Len(queue') = Len(queue) + 1
  BY <1>1, <1>3 DEF TypeOK
<1>6. /\ Len(queue') = unscheduled' + scheduled' - running'
      /\ scheduled' = submitted' + Cardinality(Busy)
      /\ unscheduled' \in Nat /\ scheduled' \in 0 .. MaxBackgroundGC
      /\ submitted' \in 0 .. MaxBackgroundGC
  <2>1. /\ Len(queue) = unscheduled + scheduled - running
        /\ scheduled = submitted + Cardinality(Busy)
    BY <1>1, Zenon DEF QueueMatches
  <2>2. /\ Len(queue) + 1 = ((unscheduled + 1) - k) + (scheduled + k) - running
        /\ scheduled + k = (submitted + k) + Cardinality(Busy)
        /\ (unscheduled + 1) - k \in Nat /\ scheduled + k \in 0 .. MaxBackgroundGC
        /\ submitted + k \in 0 .. MaxBackgroundGC
    <3>1. k \in Nat /\ k <= unscheduled + 1
      BY <1>1, <1>k, Numbers
    <3>2. Len(queue) + 1 = ((unscheduled + 1) - k) + (scheduled + k) - running
      BY <1>1, <2>1, <3>1, Numbers
    <3>3. scheduled + k = (submitted + k) + Cardinality(Busy)
      BY <1>1, <2>1, <3>1, Numbers, Counting
    <3>4. (unscheduled + 1) - k \in Nat
      BY <1>1, <3>1, Numbers
    <3>5. scheduled + k \in 0 .. MaxBackgroundGC /\ submitted + k \in 0 .. MaxBackgroundGC
      <4>1. scheduled + k \in Nat /\ submitted + k \in Nat
        BY <1>1, <3>1, Numbers
      <4>2. submitted + k <= scheduled + k
        <5>1. submitted <= scheduled
          BY <1>1, <2>1, Numbers, Counting
        <5> QED
          BY <1>1, <3>1, <5>1, Numbers
      <4> QED
        BY <1>k, <4>1, <4>2, Counting
    <3> QED
      BY <3>2, <3>3, <3>4, <3>5, Zenon
  <2> QED
    BY <1>2, <1>3, <1>5, <2>2, Zenon
<1>7. QueueMatches'
  BY <1>1, <1>3, <1>4, <1>6, Zenon DEF QueueMatches
<1>8. TypeOK'
  BY <1>1, <1>3, <1>5, <1>6, ActorAssumption DEF TypeOK, dropVars, closeVars
<1>9. NoLostWakeup'
  <2>1. scheduled > 0 => scheduled' > 0
    BY <1>1, <1>2, <1>k, Numbers
  <2> QED
    BY <1>1, <1>3, <2>1, Zenon DEF NoLostWakeup
<1> QED
  BY <1>3, <1>4, <1>7, <1>8, <1>9, Zenon DEF SchedInv, DropExcludesGC, dropVars

\* A pool thread takes a job.
LEMMA TakeJobStep == ASSUME SchedInv, NEW t \in Thread, TakeJob(t) PROVE SchedInv'
<1>1. TypeOK /\ QueueMatches
  BY Zenon DEF SchedInv
<1>2. /\ tpc[t] = "free" /\ submitted > 0 /\ submitted' = submitted - 1
      /\ tpc' = [tpc EXCEPT ![t] = "start"]
      /\ UNCHANGED <<queue, unscheduled, scheduled, triggers, running, dropReqs,
                     waiting, tcf, dropVars, closeVars>>
  BY Zenon DEF TakeJob
<1>3. Busy' = Busy \cup {t} /\ Collecting' = Collecting \ {t}
  BY <1>1, <1>2, ThreadStep, Zenon
<1>4. t \notin Busy /\ t \notin Collecting
  BY <1>2, Zenon DEF Busy, Collecting
<1>5. Cardinality(Busy') = Cardinality(Busy) + 1 /\ Cardinality(Collecting') = Cardinality(Collecting)
  BY <1>3, <1>4, Counting, FS_AddElement, FS_RemoveElement, Zenon
<1>6. QueueMatches'
  <2>1. /\ Len(queue) = unscheduled + scheduled - running
        /\ scheduled = submitted + Cardinality(Busy) /\ running = Cardinality(Collecting)
    BY <1>1, Zenon DEF QueueMatches
  <2>2. /\ Len(queue') = unscheduled' + scheduled' - running'
        /\ scheduled' = submitted' + Cardinality(Busy')
        /\ running' = Cardinality(Collecting')
    BY <1>1, <1>2, <1>5, <2>1, Counting, Numbers
  <2> QED
    BY <2>2, Zenon DEF QueueMatches
<1>7. TypeOK'
  BY <1>1, <1>2, Counting DEF TypeOK, dropVars, closeVars
<1>8. Dropping' = Dropping
  BY <1>2, Zenon DEF Dropping, dropVars
<1>9. \A x \in Thread : tpc'[x] = "gc" => tcf'[x] \in CF
  BY <1>1, <1>2, Zenon DEF SchedInv, TypeOK
<1> QED
  BY <1>2, <1>6, <1>7, <1>8, <1>9, Zenon DEF SchedInv, DropExcludesGC,
     NoLostWakeup, dropVars

\* A pool thread exits.
LEMMA ExitThreadStep == ASSUME SchedInv, NEW t \in Thread, ExitThread(t) PROVE SchedInv'
<1>1. TypeOK /\ QueueMatches
  BY Zenon DEF SchedInv
<1>2. /\ tpc[t] = "free" /\ tpc' = [tpc EXCEPT ![t] = "exited"]
      /\ UNCHANGED <<queueVars, running, dropReqs, waiting, tcf, dropVars, closeVars>>
  BY Zenon DEF ExitThread
<1>3. Busy' = Busy /\ Collecting' = Collecting /\ Dropping' = Dropping
  BY <1>1, <1>2, Zenon DEF Busy, Collecting, Dropping, TypeOK, dropVars
<1>4. TypeOK' /\ QueueMatches'
  BY <1>1, <1>2, <1>3, Zenon DEF TypeOK, QueueMatches, queueVars, dropVars,
     closeVars
<1>5. \A x \in Thread : tpc'[x] = "gc" => tcf'[x] \in CF
  BY <1>1, <1>2, Zenon DEF SchedInv, TypeOK
<1> QED
  BY <1>2, <1>3, <1>4, <1>5, Zenon DEF SchedInv, DropExcludesGC, NoLostWakeup,
     queueVars, dropVars

\* A job starts, or waits for drop requests.
LEMMA StartGCStep == ASSUME SchedInv, NEW t \in Thread, StartGC(t) PROVE SchedInv'
<1>1. TypeOK /\ QueueMatches /\ DropExcludesGC /\ NoLostWakeup
  BY Zenon DEF SchedInv
<1>2. /\ tpc[t] \in {"start", "wait"}
      /\ UNCHANGED <<unscheduled, scheduled, submitted, triggers, dropReqs, dropVars, closeVars>>
  BY Zenon DEF StartGC
<1>3. Dropping' = Dropping
  BY <1>2, Zenon DEF Dropping, dropVars
<1>4. t \in Busy /\ t \notin Collecting
  BY <1>2, Zenon DEF Busy, Collecting
<1>5. CASE dropReqs > 0
  <2>1. /\ waiting' = waiting \cup {t} /\ tpc' = [tpc EXCEPT ![t] = "wait"]
        /\ UNCHANGED <<queue, running, tcf>>
    BY <1>5, Zenon DEF StartGC
  <2>2. Busy' = Busy \cup {t} /\ Collecting' = Collecting \ {t}
    <3>1. TypeOK /\ tpc' = [tpc EXCEPT ![t] = "wait"]
      BY <1>1, <2>1, Zenon
    <3>2. Busy' = Busy \cup {t}
      BY <3>1, ThreadStep, Zenon
    <3>3. Collecting' = Collecting \ {t}
      BY <3>1, Zenon DEF TypeOK, Collecting
    <3> QED
      BY <3>2, <3>3, Zenon
  <2>3. Busy' = Busy /\ Collecting' = Collecting
    BY <1>4, <2>2, Zenon
  <2>4. QueueMatches'
    BY <1>1, <1>2, <2>1, <2>3, Zenon DEF QueueMatches
  <2>5. TypeOK'
    BY <1>1, <1>2, <2>1, Zenon DEF TypeOK, dropVars, closeVars
  <2>6. NoLostWakeup'
    BY <1>1, <1>2, <1>5, <2>1, ActorAssumption, Zenon DEF NoLostWakeup
  <2>7. \A x \in Thread : tpc'[x] = "gc" => tcf'[x] \in CF
    BY <1>1, <2>1, Zenon DEF SchedInv, TypeOK
  <2> QED
    BY <1>2, <1>3, <2>1, <2>4, <2>5, <2>6, <2>7, Zenon DEF SchedInv,
       DropExcludesGC, dropVars
<1>6. CASE ~(dropReqs > 0)
  <2>1. dropReqs = 0 /\ Cardinality(Dropping) = 0
    BY <1>1, <1>6, Numbers, Counting DEF SchedInv
  <2>2. Dropping = {}
    BY <2>1, Counting, FS_EmptySet, Zenon
  <2>3. Collecting \cup {t} \in SUBSET Busy
    BY <1>4, Zenon DEF Busy, Collecting
  <2>4. Cardinality(Collecting \cup {t}) = Cardinality(Collecting) + 1
    BY <1>4, Counting, FS_AddElement, Zenon
  <2>5. Cardinality(Collecting \cup {t}) <= Cardinality(Busy)
    BY <2>3, Counting, FS_Subset, Zenon
  <2>6. /\ Len(queue) = unscheduled + scheduled - running
        /\ scheduled = submitted + Cardinality(Busy) /\ running = Cardinality(Collecting)
    BY <1>1, Zenon DEF QueueMatches
  <2>7. Len(queue) > 0
    <3>1. running + 1 <= Cardinality(Busy)
      BY <2>4, <2>5, <2>6, Zenon
    <3>2. running + 1 <= scheduled
      BY <1>1, <2>6, <3>1, Numbers, Counting
    <3> QED
      BY <1>1, <2>6, <3>2, Numbers
  <2>8. queue # <<>>
    BY <2>7
  <2>9. PICK p \in {"gc", "end"} : tpc' = [tpc EXCEPT ![t] = p]
    BY <1>6, Zenon DEF StartGC
  <2>10. /\ running' = running + 1 /\ queue' = Tail(queue) /\ waiting' = waiting
         /\ tcf' = [tcf EXCEPT ![t] = Head(queue)]
    BY <1>6, <2>8, Zenon DEF StartGC
  <2>11. Busy' = Busy /\ Collecting' = Collecting \cup {t}
    <3>1. Busy' = Busy \cup {t}
      BY <1>1, <2>9, ThreadStep, Zenon
    <3>2. Collecting' = Collecting \cup {t}
      BY <1>1, <2>9, ThreadStep, Zenon
    <3> QED
      BY <1>4, <3>1, <3>2, Zenon
  <2>12. queue' \in Seq(CF) /\ Head(queue) \in CF /\ Len(queue') = Len(queue) - 1
    BY <1>1, <2>8, <2>10 DEF TypeOK
  <2>13. QueueMatches'
    <3>1. Len(queue') = unscheduled' + scheduled' - running'
      <4>1. Len(queue) - 1 = unscheduled + scheduled - (running + 1)
        BY <1>1, <2>6, Numbers
      <4> QED
        BY <1>2, <2>10, <2>12, <4>1, Zenon
    <3>2. scheduled' = submitted' + Cardinality(Busy') /\ running' = Cardinality(Collecting')
      BY <1>2, <2>4, <2>6, <2>10, <2>11, Zenon
    <3> QED
      BY <3>1, <3>2, Zenon DEF QueueMatches
  <2>14. running' \in 0 .. MaxBackgroundGC
    BY <2>4, <2>5, <2>6, <2>10, Counting
  <2>15. TypeOK'
    BY <1>1, <1>2, <2>9, <2>10, <2>12, <2>14, Zenon DEF TypeOK, dropVars, closeVars
  <2>16. DropExcludesGC'
    BY <1>2, <2>2, Zenon DEF Dropping, DropExcludesGC, dropVars
  <2>17. NoLostWakeup'
    <3>1. running > 0 => running' > 0
      BY <1>1, <2>10, Numbers
    <3> QED
      BY <1>1, <1>2, <2>10, <3>1, Zenon DEF NoLostWakeup
  <2>18. \A x \in Thread : tpc'[x] = "gc" => tcf'[x] \in CF
    BY <1>1, <2>9, <2>10, <2>12, Zenon DEF SchedInv, TypeOK
  <2> QED
    BY <1>2, <1>3, <2>13, <2>15, <2>16, <2>17, <2>18, Zenon DEF SchedInv, dropVars
<1> QED
  BY <1>5, <1>6
, Zenon
\* A job is done.
LEMMA FinishGCStep == ASSUME SchedInv, NEW t \in Thread, FinishGC(t) PROVE SchedInv'
<1>1. TypeOK /\ QueueMatches /\ DropExcludesGC /\ NoLostWakeup
  BY Zenon DEF SchedInv
<1>2. /\ tpc[t] = "gc" /\ tpc' = [tpc EXCEPT ![t] = "end"]
      /\ UNCHANGED <<scheduled, submitted, running, dropReqs, waiting, tcf, dropVars, closeVars>>
  BY Zenon DEF FinishGC
<1>3. Busy' = Busy /\ Collecting' = Collecting /\ Dropping' = Dropping
  <2>1. Busy' = Busy \cup {t} /\ Collecting' = Collecting \cup {t}
    BY <1>1, <1>2, ThreadStep, Zenon
  <2>2. t \in Busy /\ t \in Collecting
    BY <1>2, Zenon DEF Busy, Collecting
  <2>3. Dropping' = Dropping
    BY <1>2, Zenon DEF Dropping, dropVars
  <2> QED
    BY <2>1, <2>2, <2>3, Zenon
<1>4. tcf[t] \in CF
  BY <1>2, Zenon DEF SchedInv
<1>5. \A x \in Thread : tpc'[x] = "gc" => tcf'[x] \in CF
  BY <1>1, <1>2, Zenon DEF SchedInv, TypeOK
<1>6. QueueMatches' /\ TypeOK'
  <2>1. CASE UNCHANGED <<queue, unscheduled, triggers>>
    BY <1>1, <1>2, <1>3, <2>1, Zenon DEF QueueMatches, TypeOK, dropVars, closeVars
  <2>2. CASE /\ triggers < MaxTrigger /\ triggers' = triggers + 1
             /\ queue' = Append(queue, tcf[t]) /\ unscheduled' = unscheduled + 1
    <3>1. queue' \in Seq(CF) /\ Len(queue') = Len(queue) + 1 /\ unscheduled' \in Nat
      BY <1>1, <1>4, <2>2 DEF TypeOK
    <3>2. Len(queue) = unscheduled + scheduled - running
      BY <1>1, Zenon DEF QueueMatches
    <3>3. Len(queue') = unscheduled' + scheduled' - running'
      BY <1>1, <1>2, <2>2, <3>1, <3>2, Numbers
    <3>4. QueueMatches'
      BY <1>1, <1>2, <1>3, <3>3, Zenon DEF QueueMatches
    <3>5. TypeOK'
      BY <1>1, <1>2, <2>2, <3>1, ActorAssumption DEF TypeOK, dropVars, closeVars
    <3> QED
      BY <3>4, <3>5, Zenon
  <2> QED
    BY <2>1, <2>2, Zenon DEF FinishGC
<1> QED
  BY <1>1, <1>2, <1>3, <1>5, <1>6, Zenon DEF SchedInv, DropExcludesGC,
     NoLostWakeup, dropVars

\* A job ends.
LEMMA EndGCStep == ASSUME SchedInv, NEW t \in Thread, EndGC(t) PROVE SchedInv'
<1>1. TypeOK /\ QueueMatches /\ DropExcludesGC /\ NoLostWakeup
  BY Zenon DEF SchedInv
<1> DEFINE k == NewJobs(unscheduled, scheduled - 1)
<1>2. /\ tpc[t] = "end" /\ tpc' = [tpc EXCEPT ![t] = "free"]
      /\ running' = running - 1 /\ tcf' = [tcf EXCEPT ![t] = NoCF]
      /\ waiting' = IF scheduled' = 0 \/ running' = 0 THEN {} ELSE waiting
      /\ UNCHANGED <<queue, triggers, dropReqs, dropVars, closeVars>>
  BY Zenon DEF EndGC
<1>3. /\ unscheduled' = unscheduled - k
      /\ scheduled' = (scheduled - 1) + k /\ submitted' = submitted + k
  BY Zenon DEF EndGC, MaybeScheduleGC
<1>4. t \in Busy /\ t \in Collecting
  BY <1>2, Zenon DEF Busy, Collecting
<1>5. Busy' = Busy \ {t} /\ Collecting' = Collecting \ {t} /\ Dropping' = Dropping
  <2>1. Busy' = Busy \ {t}
    BY <1>1, <1>2, Zenon DEF TypeOK, Busy
  <2>2. Collecting' = Collecting \ {t}
    BY <1>1, <1>2, Zenon DEF TypeOK, Collecting
  <2>3. Dropping' = Dropping
    BY <1>2, Zenon DEF Dropping, dropVars
  <2> QED
    BY <2>1, <2>2, <2>3, Zenon
<1>6. /\ Cardinality(Busy') = Cardinality(Busy) - 1
      /\ Cardinality(Collecting') = Cardinality(Collecting) - 1
  BY <1>4, <1>5, Counting, FS_RemoveElement, Zenon
<1>7. Cardinality(Busy) >= 1 /\ Cardinality(Collecting) >= 1
  BY <1>6, Counting, CountingP
<1>8. /\ Len(queue) = unscheduled + scheduled - running
      /\ scheduled = submitted + Cardinality(Busy) /\ running = Cardinality(Collecting)
  BY <1>1, Zenon DEF QueueMatches
<1>9. scheduled >= 1 /\ running >= 1
  BY <1>1, <1>7, <1>8, Numbers, Counting
<1>10. k \in 0 .. unscheduled /\ (scheduled - 1) + k <= MaxBackgroundGC
  <2>1. unscheduled \in Nat /\ scheduled - 1 \in 0 .. MaxBackgroundGC
    BY <1>1, <1>9, Numbers, Counting
  <2> QED
    BY <2>1, NewJobsRange, Zenon
<1> HIDE DEF k
<1>11. k \in Nat /\ k <= unscheduled
  BY <1>1, <1>10, Numbers
<1>12. Len(queue) = (unscheduled - k) + ((scheduled - 1) + k) - (running - 1)
  <2>1. unscheduled \in Int /\ scheduled \in Int /\ running \in Int /\ k \in Int
    BY <1>1, <1>11, Numbers
  <2>2. (unscheduled - k) + ((scheduled - 1) + k) - (running - 1)
            = unscheduled + scheduled - running
    BY <2>1
  <2> QED
    BY <1>8, <2>2, Zenon
<1>13. (scheduled - 1) + k = (submitted + k) + (Cardinality(Busy) - 1)
  BY <1>1, <1>8, <1>11, Numbers, Counting
<1>14. QueueMatches'
  <2>1. Len(queue') = unscheduled' + scheduled' - running'
    BY <1>2, <1>3, <1>12, Zenon
  <2>2. scheduled' = submitted' + Cardinality(Busy')
    BY <1>3, <1>6, <1>13, Zenon
  <2>3. running' = Cardinality(Collecting')
    BY <1>2, <1>6, <1>8, Zenon
  <2> QED
    BY <2>1, <2>2, <2>3, Zenon DEF QueueMatches
<1>15. /\ unscheduled - k \in Nat /\ (scheduled - 1) + k \in Nat /\ submitted + k \in Nat
       /\ running - 1 \in Nat
  BY <1>1, <1>9, <1>11, Numbers
<1>16. submitted + k <= (scheduled - 1) + k
  <2>1. submitted <= scheduled - 1
    BY <1>1, <1>7, <1>8, Numbers, Counting
  <2> QED
    BY <1>1, <1>11, <2>1, Numbers
<1>17. /\ unscheduled' \in Nat /\ scheduled' \in 0 .. MaxBackgroundGC
       /\ submitted' \in 0 .. MaxBackgroundGC
  <2>1. (scheduled - 1) + k \in 0 .. MaxBackgroundGC /\ submitted + k \in 0 .. MaxBackgroundGC
    BY <1>10, <1>15, <1>16, Counting
  <2> QED
    BY <1>3, <1>15, <2>1, Zenon
<1>18. running' \in 0 .. MaxBackgroundGC
  <2>1. running <= MaxBackgroundGC
    BY <1>1, Counting DEF TypeOK
  <2> QED
    BY <1>1, <1>2, <1>15, <2>1, Numbers, Counting
<1>19. TypeOK'
  BY <1>1, <1>2, <1>17, <1>18, Zenon DEF TypeOK, dropVars, closeVars
<1>20. DropExcludesGC'
  BY <1>1, <1>2, <1>9 DEF DropExcludesGC, dropVars
<1>21. NoLostWakeup'
  <2>1. waiting' \in SUBSET waiting /\ (waiting' # {} => scheduled' > 0 /\ running' > 0)
    <3>1. CASE scheduled' = 0 \/ running' = 0
      BY <1>2, <3>1, Zenon
    <3>2. CASE scheduled' # 0 /\ running' # 0
      <4>1. scheduled' > 0 /\ running' > 0
        BY <1>17, <1>18, <3>2, Counting
      <4>2. waiting' = waiting
        BY <1>2, <3>2, Zenon
      <4> QED
        BY <4>1, <4>2, Zenon
    <3> QED
      BY <3>1, <3>2, Zenon
  <2> QED
    BY <1>1, <1>2, <2>1, Zenon DEF NoLostWakeup
<1>22. \A x \in Thread : tpc'[x] = "gc" => tcf'[x] \in CF
  BY <1>1, <1>2, Zenon DEF SchedInv, TypeOK
<1> QED
  BY <1>2, <1>5, <1>14, <1>19, <1>20, <1>21, <1>22, Zenon DEF SchedInv, dropVars

\* A dropper that goes from one place to another: what that does to Dropping.
LEMMA DropperStep ==
    ASSUME TypeOK, NEW d \in Dropper, NEW q, dpc' = [dpc EXCEPT ![d] = q]
    PROVE  /\ q \in {"wait", "base", "commit"} => Dropping' = Dropping \cup {d}
           /\ q \notin {"wait", "base", "commit"} => Dropping' = Dropping \ {d}
  BY Zenon DEF TypeOK, Dropping

\* What the steps of droppers and of Close leave alone.
LEMMA PoolUnchanged ==
    ASSUME SchedInv, UNCHANGED <<queueVars, running, tpc, tcf>>
    PROVE  /\ QueueMatches' /\ \A x \in Thread : tpc'[x] = "gc" => tcf'[x] \in CF
           /\ queue' \in Seq(CF) /\ unscheduled' \in Nat /\ triggers' \in 0 .. MaxTrigger
           /\ scheduled' \in 0 .. MaxBackgroundGC /\ submitted' \in 0 .. MaxBackgroundGC
           /\ running' \in 0 .. MaxBackgroundGC
           /\ tpc' \in [Thread -> {"free", "start", "wait", "gc", "end", "exited"}]
           /\ tcf' \in [Thread -> CF \cup {NoCF}]
<1>1. Busy' = Busy /\ Collecting' = Collecting
  BY Zenon DEF Busy, Collecting
<1>2. QueueMatches'
  BY <1>1, Zenon DEF SchedInv, QueueMatches, queueVars
<1> QED
  BY <1>2, Zenon DEF SchedInv, TypeOK, queueVars

\* A dropper waits for running jobs, or need not.
LEMMA WaitNoGCStep ==
    ASSUME SchedInv, NEW d \in Dropper, WaitNoGC(d), UNCHANGED <<queueVars, running, tpc, tcf>>
    PROVE  /\ waiting' \in SUBSET (waiting \cup {d}) /\ (d \in waiting' \ waiting => running > 0)
           /\ \E q \in {"wait", "base"} : dpc' = [dpc EXCEPT ![d] = q] /\ (q = "base" => running = 0)
<1>1. running \in Nat
  BY Numbers, Zenon DEF SchedInv
<1>2. CASE running > 0
  BY <1>2, Zenon DEF WaitNoGC
<1>3. CASE ~(running > 0)
  <2>1. running = 0
    BY <1>1, <1>3
  <2> QED
    BY <1>3, <2>1, Zenon DEF WaitNoGC
<1> QED
  BY <1>2, <1>3
, Zenon
\* DropColumnFamilies starts.
LEMMA DropBeginStep ==
    ASSUME SchedInv, NEW d \in Dropper, NEW c \in CF, DropBegin(d, c) PROVE SchedInv'
<1>1. TypeOK /\ DropExcludesGC /\ NoLostWakeup /\ dropReqs >= Cardinality(Dropping)
  BY Zenon DEF SchedInv
<1>2. /\ dpc[d] = "idle" /\ dropReqs' = dropReqs + 1 /\ dcf' = [dcf EXCEPT ![d] = c]
      /\ WaitNoGC(d) /\ UNCHANGED <<queueVars, running, tpc, tcf, baseDropped, dropped, closeVars>>
  BY Zenon DEF DropBegin
<1>3. UNCHANGED <<queueVars, running, tpc, tcf>>
  BY <1>2, Zenon
<1>4. PICK q \in {"wait", "base"} : dpc' = [dpc EXCEPT ![d] = q] /\ (q = "base" => running = 0)
  BY <1>2, <1>3, WaitNoGCStep, Zenon
<1>5. waiting' \in SUBSET (waiting \cup {d}) /\ (d \in waiting' \ waiting => running > 0)
  BY <1>2, <1>3, WaitNoGCStep, Zenon
<1>6. d \notin Dropping
  BY <1>2, Zenon DEF Dropping
<1>7. Dropping' = Dropping \cup {d}
  BY <1>1, <1>4, DropperStep, Zenon
<1>8. Cardinality(Dropping') = Cardinality(Dropping) + 1
  BY <1>6, <1>7, Counting, FS_AddElement, Zenon
<1>9. dropReqs' >= Cardinality(Dropping') /\ dropReqs' \in Nat /\ (dropReqs > 0 => dropReqs' > 0)
  <2>1. dropReqs + 1 >= Cardinality(Dropping) + 1 /\ dropReqs + 1 \in Nat /\ dropReqs + 1 > 0
    BY <1>1, Numbers, Counting
  <2> QED
    BY <1>2, <1>8, <2>1, Zenon
<1>10. TypeOK'
  BY <1>1, <1>2, <1>3, <1>4, <1>5, <1>9, PoolUnchanged, Zenon DEF TypeOK, closeVars
<1>11. DropExcludesGC'
  BY <1>1, <1>2, <1>4, Zenon DEF TypeOK, DropExcludesGC
<1>12. NoLostWakeup'
  BY <1>1, <1>2, <1>5, <1>9, ActorAssumption, Zenon DEF NoLostWakeup, queueVars
<1>13. \A x \in Dropper : dpc'[x] # "idle" => dcf'[x] \in CF
  BY <1>1, <1>2, <1>4, Zenon DEF SchedInv, TypeOK
<1> QED
  BY <1>3, <1>9, <1>10, <1>11, <1>12, <1>13, PoolUnchanged, Zenon DEF SchedInv

\* A dropper that is signalled checks again.
LEMMA DropWakeStep == ASSUME SchedInv, NEW d \in Dropper, DropWake(d) PROVE SchedInv'
<1>1. TypeOK /\ DropExcludesGC /\ NoLostWakeup /\ dropReqs >= Cardinality(Dropping)
  BY Zenon DEF SchedInv
<1>2. /\ dpc[d] = "wait" /\ WaitNoGC(d)
      /\ UNCHANGED <<queueVars, running, dropReqs, tpc, tcf, dcf, baseDropped, dropped, closeVars>>
  BY Zenon DEF DropWake
<1>3. UNCHANGED <<queueVars, running, tpc, tcf>>
  BY <1>2, Zenon
<1>4. PICK q \in {"wait", "base"} : dpc' = [dpc EXCEPT ![d] = q] /\ (q = "base" => running = 0)
  BY <1>2, <1>3, WaitNoGCStep, Zenon
<1>5. waiting' \in SUBSET (waiting \cup {d}) /\ (d \in waiting' \ waiting => running > 0)
  BY <1>2, <1>3, WaitNoGCStep, Zenon
<1>6. Dropping' = Dropping
  <2>1. Dropping' = Dropping \cup {d}
    BY <1>1, <1>4, DropperStep, Zenon
  <2>2. d \in Dropping
    BY <1>2, Zenon DEF Dropping
  <2> QED
    BY <2>1, <2>2, Zenon
<1>7. TypeOK'
  BY <1>1, <1>2, <1>3, <1>4, <1>5, PoolUnchanged, Zenon DEF TypeOK, closeVars
<1>8. DropExcludesGC'
  BY <1>1, <1>2, <1>4, Zenon DEF TypeOK, DropExcludesGC
<1>9. NoLostWakeup'
  BY <1>1, <1>2, <1>5, ActorAssumption, Zenon DEF NoLostWakeup, queueVars
<1>10. \A x \in Dropper : dpc'[x] # "idle" => dcf'[x] \in CF
  BY <1>1, <1>2, <1>4, Zenon DEF SchedInv, TypeOK
<1> QED
  BY <1>1, <1>2, <1>3, <1>6, <1>7, <1>8, <1>9, <1>10, PoolUnchanged, Zenon DEF
     SchedInv

\* The base DB drops the column family, or refuses.
LEMMA DropBaseStep == ASSUME SchedInv, NEW d \in Dropper, DropBase(d) PROVE SchedInv'
<1>1. TypeOK /\ DropExcludesGC /\ NoLostWakeup /\ dropReqs >= Cardinality(Dropping)
  BY Zenon DEF SchedInv
<1>2. /\ dpc[d] = "base"
      /\ UNCHANGED <<queueVars, running, dropReqs, waiting, tpc, tcf, dcf, dropped, closeVars>>
  BY Zenon DEF DropBase
<1>3. UNCHANGED <<queueVars, running, tpc, tcf>>
  BY <1>2, Zenon
<1>4. PICK q \in {"failed", "commit"} : dpc' = [dpc EXCEPT ![d] = q]
  BY Zenon DEF DropBase
<1>5. dcf[d] \in CF => baseDropped' \subseteq CF
  BY <1>1, Zenon DEF DropBase, TypeOK
<1>6. d \in Dropping
  BY <1>2, Zenon DEF Dropping
<1>7. Dropping' \in SUBSET Dropping
  <2>1. Dropping' = Dropping \cup {d} \/ Dropping' = Dropping \ {d}
    BY <1>1, <1>4, DropperStep, Zenon
  <2> QED
    BY <1>6, <2>1, Zenon
<1>8. dropReqs' >= Cardinality(Dropping')
  <2>1. IsFiniteSet(Dropping') /\ Cardinality(Dropping') <= Cardinality(Dropping)
    BY <1>7, Counting, FS_Subset, Zenon
  <2>2. Cardinality(Dropping') \in Nat
    BY <2>1, FS_CardinalityType, Zenon
  <2>3. dropReqs >= Cardinality(Dropping')
    BY <1>1, <2>1, <2>2, Numbers, Counting
  <2> QED
    BY <1>2, <2>3, Zenon
<1>9. dcf[d] \in CF
  BY <1>2, Zenon DEF SchedInv
<1>10. TypeOK'
  BY <1>1, <1>2, <1>3, <1>4, <1>5, <1>9, PoolUnchanged, Zenon DEF TypeOK, closeVars
<1>11. DropExcludesGC'
  BY <1>1, <1>2, <1>4, Zenon DEF TypeOK, DropExcludesGC
<1>12. NoLostWakeup'
  BY <1>1, <1>2, Zenon DEF NoLostWakeup, queueVars
<1>13. \A x \in Dropper : dpc'[x] # "idle" => dcf'[x] \in CF
  BY <1>1, <1>2, <1>4, Zenon DEF SchedInv, TypeOK
<1> QED
  BY <1>3, <1>8, <1>10, <1>11, <1>12, <1>13, PoolUnchanged, Zenon DEF SchedInv

\* The request of a dropper is over.
LEMMA DropCommitStep == ASSUME SchedInv, NEW d \in Dropper, DropCommit(d) PROVE SchedInv'
<1>1. TypeOK /\ DropExcludesGC /\ NoLostWakeup /\ dropReqs >= Cardinality(Dropping)
  BY Zenon DEF SchedInv
<1>2. /\ dpc[d] = "commit" /\ dropped' = dropped \cup {dcf[d]} /\ dropReqs' = dropReqs - 1
      /\ waiting' = IF dropReqs' = 0 THEN {} ELSE waiting
      /\ dpc' = [dpc EXCEPT ![d] = "done"]
      /\ UNCHANGED <<queueVars, running, tpc, tcf, dcf, baseDropped, closeVars>>
  BY Zenon DEF DropCommit
<1>3. UNCHANGED <<queueVars, running, tpc, tcf>>
  BY <1>2, Zenon
<1>4. d \in Dropping
  BY <1>2, Zenon DEF Dropping
<1>5. Dropping' = Dropping \ {d}
  BY <1>1, <1>2, Zenon DEF TypeOK, Dropping
<1>6. Cardinality(Dropping') = Cardinality(Dropping) - 1 /\ Cardinality(Dropping') \in Nat
  BY <1>4, <1>5, Counting, FS_RemoveElement, FS_CardinalityType, Zenon
<1>7. dropReqs - 1 \in Nat /\ dropReqs - 1 >= Cardinality(Dropping) - 1
  BY <1>1, <1>6, Numbers, Counting
<1>8. dropReqs' \in Nat /\ dropReqs' >= Cardinality(Dropping')
  BY <1>2, <1>6, <1>7, Zenon
<1>9. waiting' \in SUBSET waiting /\ (waiting' # {} => dropReqs' > 0)
  <2>1. CASE dropReqs' = 0
    BY <1>2, <2>1, Zenon
  <2>2. CASE dropReqs' # 0
    <3>1. dropReqs' > 0
      BY <1>8, <2>2
    <3> QED
      BY <1>2, <2>2, <3>1, Zenon
  <2> QED
    BY <2>1, <2>2, Zenon
<1>10. dcf[d] \in CF
  BY <1>2, Zenon DEF SchedInv
<1>11. TypeOK'
  BY <1>1, <1>2, <1>3, <1>8, <1>9, <1>10, PoolUnchanged, Zenon DEF TypeOK, closeVars
<1>12. DropExcludesGC'
  BY <1>1, <1>2, Zenon DEF TypeOK, DropExcludesGC
<1>13. NoLostWakeup'
  BY <1>1, <1>2, <1>9, Zenon DEF NoLostWakeup, queueVars
<1>14. \A x \in Dropper : dpc'[x] # "idle" => dcf'[x] \in CF
  BY <1>1, <1>2, Zenon DEF SchedInv, TypeOK
<1> QED
  BY <1>3, <1>8, <1>11, <1>12, <1>13, <1>14, PoolUnchanged, Zenon DEF SchedInv

\* Close, up to where it looks at bg_gc_scheduled_.
LEMMA CloseStep ==
    ASSUME SchedInv, CloseBegin \/ CloseJoin \/ CloseCheck PROVE SchedInv'
<1>1. TypeOK /\ DropExcludesGC /\ NoLostWakeup /\ dropReqs >= Cardinality(Dropping)
  BY Zenon DEF SchedInv
<1>2. /\ UNCHANGED <<queueVars, running, dropReqs, tpc, tcf, dropVars>>
      /\ shutdown' \in {shutdown, TRUE} /\ poolExit' \in {poolExit, TRUE}
      /\ cpc' \in {"join", "joining", "wait", "closed"}
  BY Zenon DEF CloseBegin, CloseJoin, CloseCheck
<1>3. /\ waiting' \in SUBSET (waiting \cup {Closer})
      /\ Closer \in waiting' \ waiting => scheduled > 0
  BY Zenon DEF CloseBegin, CloseJoin, CloseCheck
<1>4. UNCHANGED <<queueVars, running, tpc, tcf>>
  BY <1>2, Zenon
<1>5. shutdown' \in BOOLEAN /\ poolExit' \in BOOLEAN
  BY <1>1, <1>2, Zenon DEF TypeOK
<1>6. TypeOK'
  BY <1>1, <1>2, <1>3, <1>4, <1>5, PoolUnchanged, Zenon DEF TypeOK, dropVars
<1>7. DropExcludesGC' /\ Dropping' = Dropping
  BY <1>1, <1>2, Zenon DEF DropExcludesGC, Dropping, dropVars
<1>8. NoLostWakeup'
  BY <1>1, <1>2, <1>3, ActorAssumption, Zenon DEF NoLostWakeup, queueVars
<1> QED
  BY <1>1, <1>2, <1>4, <1>6, <1>7, <1>8, PoolUnchanged, Zenon DEF SchedInv, dropVars

\* Nothing happens.
LEMMA StutterStep == ASSUME SchedInv, UNCHANGED vars PROVE SchedInv'
<1>1. UNCHANGED <<queueVars, running, tpc, tcf>>
  BY Zenon DEF vars
<1>2. Dropping' = Dropping
  BY Zenon DEF vars, dropVars, Dropping
<1>3. shutdown' \in BOOLEAN /\ poolExit' \in BOOLEAN
  BY Zenon DEF SchedInv, TypeOK, vars, closeVars
<1>4. TypeOK'
  BY <1>1, <1>3, PoolUnchanged, Zenon DEF SchedInv, TypeOK, vars, dropVars,
     closeVars
<1> QED
  BY <1>1, <1>2, <1>4, PoolUnchanged, Zenon
  DEF SchedInv, DropExcludesGC, NoLostWakeup, vars, queueVars, dropVars

\* The counters, the queue and the condition variable of the scheduler stay
\* consistent, whatever order GC requests, jobs, drops and Close come in.
THEOREM SchedulerInductive == Spec => []SchedInv
<1>1. SchedInv /\ [Next]_vars => SchedInv'
  <2> SUFFICES ASSUME SchedInv, [Next]_vars PROVE SchedInv'
    BY Zenon
  <2>1. CASE \E c \in CF : Trigger(c)
    BY <2>1, TriggerStep, Zenon
  <2>2. CASE \E t \in Thread : Pool(t)
    BY <2>2, TakeJobStep, ExitThreadStep, StartGCStep, FinishGCStep, EndGCStep,
       Zenon DEF Pool
  <2>3. CASE \E d \in Dropper, c \in CF : DropBegin(d, c)
    BY <2>3, DropBeginStep, Zenon
  <2>4. CASE \E d \in Dropper : Drop(d)
    BY <2>4, DropWakeStep, DropBaseStep, DropCommitStep, Zenon DEF Drop
  <2>5. CASE CloseBegin \/ CloseJoin \/ CloseCheck
    BY <2>5, CloseStep, Zenon
  <2>6. CASE UNCHANGED vars
    BY <2>6, StutterStep, Zenon
  <2> QED
    BY <2>1, <2>2, <2>3, <2>4, <2>5, <2>6, Zenon DEF Next
<1> QED
  BY <1>1, InitSched, PTL DEF Spec

\* The counters bg_gc_scheduled_ and bg_gc_running_ never go below zero or past
\* max_background_gc, and the threads and waiters are where the code can leave them.
THEOREM SchedulerTypes == Spec => []TypeOK
<1>1. SchedInv => TypeOK
  BY Zenon DEF SchedInv
<1> QED
  BY <1>1, SchedulerInductive, PTL

\* Every scheduled GC job finds its column family in gc_queue_, and the counters say
\* how many jobs there are.
THEOREM QueueAlwaysMatches == Spec => []QueueMatches
<1>1. SchedInv => QueueMatches
  BY Zenon DEF SchedInv
<1> QED
  BY <1>1, SchedulerInductive, PTL

\* No GC job runs while a column family is dropped from the base DB and BlobFileSet.
THEOREM DropsExcludeGC == Spec => []DropExcludesGC
<1>1. SchedInv => DropExcludesGC
  BY Zenon DEF SchedInv
<1> QED
  BY <1>1, SchedulerInductive, PTL

\* Nobody sleeps on bg_cv_ when what it waits for has come.
THEOREM WakeupsNotLost == Spec => []NoLostWakeup
<1>1. SchedInv => NoLostWakeup
  BY Zenon DEF SchedInv
<1> QED
  BY <1>1, SchedulerInductive, PTL
=============================================================================
