----------------------------- MODULE GCScheduler -----------------------------
(***************************************************************************)
(* How TitanDBImpl schedules GC jobs on its thread pool, and how dropping  *)
(* column families and closing the database wait for them: gc_queue_, the  *)
(* four counters guarded by mutex_, and the condition variable bg_cv_ that *)
(* three kinds of threads wait on.  A step is what a thread does while it  *)
(* holds mutex_.  A thread in waiting sleeps in bg_cv_.Wait(); SignalAll   *)
(* empties the set, and who was in it checks its condition again.          *)
(***************************************************************************)
EXTENDS Integers, Sequences, FiniteSets

CONSTANTS
    Thread,      \* threads of thread_pool_: max_background_gc of them
    CF,          \* column families
    Dropper,     \* callers of DropColumnFamilies, one call each
    Closer,      \* the caller of Close
    NoCF,        \* no column family
    BadDrop,     \* whether a call may name a column family that is dropped already
    MaxTrigger   \* bound on the number of GC requests

ASSUME ActorAssumption ==
    /\ IsFiniteSet(Thread) /\ Thread # {} /\ IsFiniteSet(Dropper)
    /\ Thread \cap Dropper = {} /\ Closer \notin Thread \cup Dropper
    /\ NoCF \notin CF /\ BadDrop \in BOOLEAN /\ MaxTrigger \in Nat

MaxBackgroundGC == Cardinality(Thread)

VARIABLES
    queue,        \* gc_queue_
    unscheduled,  \* unscheduled_gc_
    scheduled,    \* bg_gc_scheduled_
    running,      \* bg_gc_running_
    dropReqs,     \* drop_cf_requests_
    waiting,      \* who sleeps on bg_cv_
    shutdown,     \* shuting_down_
    submitted,    \* jobs in the queue of the thread pool
    poolExit,     \* exit_all_threads_ of the thread pool
    tpc, tcf,     \* a pool thread: where it is, its column family
    dpc, dcf,     \* a dropper
    cpc,          \* Close
    baseDropped,  \* column families the base DB dropped
    dropped,      \* column families obsolete in BlobFileSet
    triggers      \* how many GC requests there were

queueVars == <<queue, unscheduled, scheduled, submitted, triggers>>
dropVars == <<dpc, dcf, baseDropped, dropped>>
closeVars == <<cpc, shutdown, poolExit>>
vars == <<queueVars, running, dropReqs, waiting, tpc, tcf, dropVars, closeVars>>

\* A dropper between its two critical sections.
Dropping == {d \in Dropper : dpc[d] \in {"wait", "base", "commit"}}

Init ==
    /\ queue = <<>> /\ unscheduled = 0 /\ scheduled = 0 /\ running = 0
    /\ dropReqs = 0 /\ waiting = {} /\ shutdown = FALSE
    /\ submitted = 0 /\ poolExit = FALSE
    /\ tpc = [t \in Thread |-> "free"] /\ tcf = [t \in Thread |-> NoCF]
    /\ dpc = [d \in Dropper |-> "idle"] /\ dcf = [d \in Dropper |-> NoCF]
    /\ cpc = "open" /\ baseDropped = {} /\ dropped = {} /\ triggers = 0

-----------------------------------------------------------------------------
(* The queue.                                                              *)

\* Mutant: max_background_gc is not looked at.
NewJobsUnbounded(u, s) == IF shutdown THEN 0 ELSE u

\* How often the loop of MaybeScheduleGC runs, when unscheduled_gc_ is u and
\* bg_gc_scheduled_ is s.
NewJobs(u, s) ==
    IF shutdown THEN 0
    ELSE IF u < MaxBackgroundGC - s THEN u ELSE MaxBackgroundGC - s

\* Mutant: unscheduled_gc_ is not counted down.
MaybeScheduleForever(u, s) ==
    /\ unscheduled' = u
    /\ scheduled' = s + NewJobs(u, s)
    /\ submitted' = submitted + NewJobs(u, s)

MaybeScheduleGC(u, s) ==
    /\ unscheduled' = u - NewJobs(u, s)
    /\ scheduled' = s + NewJobs(u, s)
    /\ submitted' = submitted + NewJobs(u, s)

\* OnCompactionCompleted, DeleteFilesInRanges and InitializeGC end with
\* AddToGCQueue and MaybeScheduleGC.
Trigger(c) ==
    /\ cpc # "closed" /\ c \notin baseDropped
    /\ triggers < MaxTrigger /\ triggers' = triggers + 1
    /\ queue' = Append(queue, c)
    /\ MaybeScheduleGC(unscheduled + 1, scheduled)
    /\ UNCHANGED <<running, dropReqs, waiting, tpc, tcf, dropVars, closeVars>>

-----------------------------------------------------------------------------
(* A thread of the pool: BGThread and BackgroundCallGC.                    *)

\* The thread takes a job from the queue of the pool ...
TakeJob(t) ==
    /\ tpc[t] = "free" /\ submitted > 0 /\ ~poolExit
    /\ submitted' = submitted - 1
    /\ tpc' = [tpc EXCEPT ![t] = "start"]
    /\ UNCHANGED <<queue, unscheduled, scheduled, triggers, running, dropReqs,
                   waiting, tcf, dropVars, closeVars>>

\* ... or ends.  JoinAllThreads does not wait for jobs still in the queue.
ExitThread(t) ==
    /\ tpc[t] = "free" /\ poolExit
    /\ tpc' = [tpc EXCEPT ![t] = "exited"]
    /\ UNCHANGED <<queueVars, running, dropReqs, waiting, tcf, dropVars, closeVars>>

\* Mutant: drop requests are not waited for.
StartGCAtOnce(t) ==
    /\ tpc[t] = "start"
    /\ running' = running + 1
    /\ LET c == IF queue = <<>> THEN NoCF ELSE Head(queue)
       IN /\ queue' = IF queue = <<>> THEN queue ELSE Tail(queue)
          /\ tcf' = [tcf EXCEPT ![t] = c]
          /\ \E p \in IF c \in CF \ dropped THEN {"gc", "end"} ELSE {"end"} :
                tpc' = [tpc EXCEPT ![t] = p]
    /\ UNCHANGED <<unscheduled, scheduled, submitted, triggers, dropReqs, waiting,
                   dropVars, closeVars>>

\* The start of BackgroundCallGC: wait for drop requests, then take the first
\* column family.  BackgroundGC has nothing to do when it is dropped or when the
\* picker finds no files; otherwise it unlocks mutex_ and runs the job.
StartGC(t) ==
    /\ \/ tpc[t] = "start"
       \/ tpc[t] = "wait" /\ t \notin waiting
    /\ IF dropReqs > 0
       THEN /\ waiting' = waiting \cup {t}
            /\ tpc' = [tpc EXCEPT ![t] = "wait"]
            /\ UNCHANGED <<queue, running, tcf>>
       ELSE LET c == IF queue = <<>> THEN NoCF ELSE Head(queue)
            IN /\ running' = running + 1
               /\ queue' = IF queue = <<>> THEN queue ELSE Tail(queue)
               /\ tcf' = [tcf EXCEPT ![t] = c]
               /\ \E p \in IF c \in CF \ dropped THEN {"gc", "end"} ELSE {"end"} :
                     tpc' = [tpc EXCEPT ![t] = p]
               /\ UNCHANGED waiting
    /\ UNCHANGED <<unscheduled, scheduled, submitted, triggers, dropReqs, dropVars,
                   closeVars>>

\* The job is done, well or not: the end of BackgroundGC.  With trigger_next the
\* column family goes back to the queue, unless that is overwhelmed.  Logging
\* unlocks mutex_ again.
FinishGC(t) ==
    /\ tpc[t] = "gc"
    /\ tpc' = [tpc EXCEPT ![t] = "end"]
    /\ \/ UNCHANGED <<queue, unscheduled, triggers>>
       \/ /\ scheduled - 1 + Len(queue) < 2 * MaxBackgroundGC
          /\ triggers < MaxTrigger /\ triggers' = triggers + 1
          /\ queue' = Append(queue, tcf[t])
          /\ unscheduled' = unscheduled + 1
    /\ UNCHANGED <<scheduled, submitted, running, dropReqs, waiting, tcf, dropVars,
                   closeVars>>

\* Mutant: only the DB destructor is signalled.
EndGCForDestructor(t) ==
    /\ tpc[t] = "end"
    /\ running' = running - 1
    /\ MaybeScheduleGC(unscheduled, scheduled - 1)
    /\ waiting' = IF scheduled' = 0 THEN {} ELSE waiting
    /\ tpc' = [tpc EXCEPT ![t] = "free"]
    /\ tcf' = [tcf EXCEPT ![t] = NoCF]
    /\ UNCHANGED <<queue, triggers, dropReqs, dropVars, closeVars>>

\* The end of BackgroundCallGC.
EndGC(t) ==
    /\ tpc[t] = "end"
    /\ running' = running - 1
    /\ MaybeScheduleGC(unscheduled, scheduled - 1)
    /\ waiting' = IF scheduled' = 0 \/ running' = 0 THEN {} ELSE waiting
    /\ tpc' = [tpc EXCEPT ![t] = "free"]
    /\ tcf' = [tcf EXCEPT ![t] = NoCF]
    /\ UNCHANGED <<queue, triggers, dropReqs, dropVars, closeVars>>

-----------------------------------------------------------------------------
(* DropColumnFamilies.                                                     *)

\* Has it to wait for running GC jobs?
WaitNoGC(d) ==
    /\ dpc' = [dpc EXCEPT ![d] = IF running > 0 THEN "wait" ELSE "base"]
    /\ waiting' = IF running > 0 THEN waiting \cup {d} ELSE waiting

\* The base DB refuses a column family that is dropped already.
DropBegin(d, c) ==
    /\ dpc[d] = "idle" /\ cpc = "open"
    /\ ~BadDrop => /\ c \notin baseDropped
                   /\ \A e \in Dropper : dpc[e] # "idle" => dcf[e] # c
    /\ dropReqs' = dropReqs + 1
    /\ dcf' = [dcf EXCEPT ![d] = c]
    /\ WaitNoGC(d)
    /\ UNCHANGED <<queueVars, running, tpc, tcf, baseDropped, dropped, closeVars>>

DropWake(d) ==
    /\ dpc[d] = "wait" /\ d \notin waiting
    /\ WaitNoGC(d)
    /\ UNCHANGED <<queueVars, running, dropReqs, tpc, tcf, dcf, baseDropped, dropped,
                   closeVars>>

\* Without mutex_: the base DB drops the column family, or refuses and the call
\* returns at once.
DropBase(d) ==
    /\ dpc[d] = "base"
    /\ IF dcf[d] \in baseDropped
       THEN /\ dpc' = [dpc EXCEPT ![d] = "failed"]
            /\ UNCHANGED baseDropped
       ELSE /\ dpc' = [dpc EXCEPT ![d] = "commit"]
            /\ baseDropped' = baseDropped \cup {dcf[d]}
    /\ UNCHANGED <<queueVars, running, dropReqs, waiting, tpc, tcf, dcf, dropped,
                   closeVars>>

\* Mutant: GC threads that wait are not signalled.
DropCommitSilent(d) ==
    /\ dpc[d] = "commit"
    /\ dropped' = dropped \cup {dcf[d]}
    /\ dropReqs' = dropReqs - 1
    /\ dpc' = [dpc EXCEPT ![d] = "done"]
    /\ UNCHANGED <<queueVars, running, waiting, tpc, tcf, dcf, baseDropped,
                   closeVars>>

\* BlobFileSet drops it too, and the request is over.
DropCommit(d) ==
    /\ dpc[d] = "commit"
    /\ dropped' = dropped \cup {dcf[d]}
    /\ dropReqs' = dropReqs - 1
    /\ waiting' = IF dropReqs' = 0 THEN {} ELSE waiting
    /\ dpc' = [dpc EXCEPT ![d] = "done"]
    /\ UNCHANGED <<queueVars, running, tpc, tcf, dcf, baseDropped, closeVars>>

-----------------------------------------------------------------------------
(* CloseImpl.  No other call of the user is in progress.                   *)

CloseBegin ==
    /\ cpc = "open" /\ Dropping = {}
    /\ shutdown' = TRUE
    /\ cpc' = "join"
    /\ UNCHANGED <<queueVars, running, dropReqs, waiting, tpc, tcf, dropVars, poolExit>>

\* JoinAllThreads tells the threads to exit ...
CloseJoin ==
    /\ cpc = "join"
    /\ poolExit' = TRUE
    /\ cpc' = "joining"
    /\ UNCHANGED <<queueVars, running, dropReqs, waiting, tpc, tcf, dropVars, shutdown>>

\* ... and returns when they have; then bg_gc_scheduled_ is checked.
CloseCheck ==
    /\ \/ cpc = "joining" /\ \A t \in Thread : tpc[t] = "exited"
       \/ cpc = "wait" /\ Closer \notin waiting
    /\ cpc' = IF scheduled > 0 THEN "wait" ELSE "closed"
    /\ waiting' = IF scheduled > 0 THEN waiting \cup {Closer} ELSE waiting
    /\ UNCHANGED <<queueVars, running, dropReqs, tpc, tcf, dropVars, shutdown, poolExit>>

-----------------------------------------------------------------------------
Pool(t) == TakeJob(t) \/ ExitThread(t) \/ StartGC(t) \/ FinishGC(t) \/ EndGC(t)

Drop(d) == DropWake(d) \/ DropBase(d) \/ DropCommit(d)

Next ==
    \/ \E c \in CF : Trigger(c)
    \/ \E t \in Thread : Pool(t)
    \/ \E d \in Dropper, c \in CF : DropBegin(d, c)
    \/ \E d \in Dropper : Drop(d)
    \/ CloseBegin
    \/ CloseJoin
    \/ CloseCheck

Spec == Init /\ [][Next]_vars

\* Threads run: a pool thread, a dropper that has started and a Close that has
\* started take their next step when they can.
FairSpec ==
    /\ Spec
    /\ \A t \in Thread : WF_vars(Pool(t))
    /\ \A d \in Dropper : WF_vars(Drop(d))
    /\ WF_vars(CloseJoin) /\ WF_vars(CloseCheck)

-----------------------------------------------------------------------------
(* Properties.                                                             *)

\* Types of the variables; the counters never go below zero, and no more jobs are
\* scheduled than there are threads.
TypeOK ==
    /\ queue \in Seq(CF) /\ unscheduled \in Nat /\ triggers \in 0 .. MaxTrigger
    /\ scheduled \in 0 .. MaxBackgroundGC /\ submitted \in 0 .. MaxBackgroundGC
    /\ running \in 0 .. MaxBackgroundGC /\ dropReqs \in Nat
    /\ waiting \subseteq Thread \cup Dropper \cup {Closer}
    /\ tpc \in [Thread -> {"free", "start", "wait", "gc", "end", "exited"}]
    /\ tcf \in [Thread -> CF \cup {NoCF}]
    /\ dpc \in [Dropper -> {"idle", "wait", "base", "commit", "done", "failed"}]
    /\ dcf \in [Dropper -> CF \cup {NoCF}]
    /\ cpc \in {"open", "join", "joining", "wait", "closed"}
    /\ shutdown \in BOOLEAN /\ poolExit \in BOOLEAN
    /\ baseDropped \subseteq CF /\ dropped \subseteq CF

\* Threads with a job, and those whose job has got past the drop requests.
Busy == {t \in Thread : tpc[t] \in {"start", "wait", "gc", "end"}}
Collecting == {t \in Thread : tpc[t] \in {"gc", "end"}}

\* Every job that is scheduled and has not started yet finds a column family in
\* gc_queue_, every one in gc_queue_ beyond those is counted in unscheduled_gc_, and
\* bg_gc_running_ counts the threads at work.
QueueMatches ==
    /\ Len(queue) = unscheduled + scheduled - running
    /\ scheduled = submitted + Cardinality(Busy)
    /\ running = Cardinality(Collecting)

\* While a column family is being dropped, from the base DB to BlobFileSet, no GC
\* job runs: "otherwise GC jobs can fail and set background error".
DropExcludesGC ==
    \A d \in Dropper : dpc[d] \in {"base", "commit"} => running = 0

\* Nobody sleeps on bg_cv_ once what it waits for has come: the end of
\* BackgroundCallGC and DropColumnFamilies signal whenever they must.
NoLostWakeup ==
    /\ \A t \in waiting \cap Thread : dropReqs > 0
    /\ \A d \in waiting \cap Dropper : running > 0
    /\ Closer \in waiting => scheduled > 0

\* The inductive invariant: what is above, plus that every dropper between its two
\* critical sections is counted, and that a job at work and a dropper that has
\* started have a column family.
SchedInv ==
    /\ TypeOK /\ QueueMatches /\ DropExcludesGC /\ NoLostWakeup
    /\ dropReqs >= Cardinality(Dropping)
    /\ \A t \in Thread : tpc[t] = "gc" => tcf[t] \in CF
    /\ \A d \in Dropper : dpc[d] # "idle" => dcf[d] \in CF

\* A GC request is served: gc_queue_ gets empty, unless the database shuts down or
\* the base DB refused a drop (what that does is WaitingThreadsGoOn).
QueueServed ==
    (queue # <<>>) ~> \/ queue = <<>> \/ shutdown
                      \/ \E d \in Dropper : dpc[d] = "failed"

\* DropColumnFamilies returns, although GC jobs come and go.
DropReturns == \A d \in Dropper : (dpc[d] = "wait") ~> (dpc[d] \in {"done", "failed"})

\* CloseImpl says "`bg_gc_scheduled_` should be 0 after `JoinAllThreads`".
ScheduledZeroAfterJoin ==
    (\A t \in Thread : tpc[t] = "exited") => scheduled = 0

\* A GC thread that waits for drop requests goes on: bg_cv_ is signalled "whenever
\* drop_cf_requests_ goes down to 0".
WaitingThreadsGoOn == \A t \in Thread : (tpc[t] = "wait") ~> (tpc[t] # "wait")
=============================================================================
