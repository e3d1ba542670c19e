-------------------------------- MODULE Bio --------------------------------
(***************************************************************************)
(* The background I/O service of bio.c: one worker thread per job type, a  *)
(* FIFO of jobs per type guarded by a mutex, and the main thread, which    *)
(* creates jobs, asks how many are pending, or blocks for one step.        *)
(*                                                                         *)
(* Every lock, unlock, condition wait and signal of bio.c is a step of its *)
(* own, so that the steps of the worker between popping a job and removing *)
(* it from the list interleave with the main thread.                       *)
(***************************************************************************)
EXTENDS Integers, Sequences

CONSTANTS
  Types,    \* the job types: BIO_CLOSE_FILE, BIO_AOF_FSYNC, BIO_LAZY_FREE
  MaxJobs   \* bound on the jobs created per type

ASSUME MaxJobsAssumption == MaxJobs \in Nat

VARIABLES
  jobs,      \* bio_jobs[type]: numbers of the jobs in the list, oldest first
  pending,   \* bio_pending[type]
  mutex,     \* bio_mutex[type]: who holds it
  wpc,       \* where the worker thread of each type is
  mpc,       \* where the main thread is inside bio.c
  mtype,     \* the type argument of the main thread's current call
  created,   \* history: how many jobs of each type were created
  processed  \* history: the jobs executed, in order of execution

bioVars == <<jobs, pending, mutex, wpc, mpc, mtype, created, processed>>

\* The worker is at the top of its loop with the lock held, blocked on (or
\* woken from) bio_newjob_cond, executing a job, or about to lock again.
WorkerPC == {"start", "top", "wait", "woken", "work", "relock"}

\* The main thread is outside bio.c, inside one of the three calls with the
\* lock held, or blocked on (or woken from) bio_step_cond.
MainPC == {"idle", "create", "query", "step", "step_wait", "step_woken"}

BioTypeOK ==
  /\ jobs \in [Types -> Seq(Nat)]
  /\ pending \in [Types -> Nat]
  /\ mutex \in [Types -> {"free", "main", "worker"}]
  /\ wpc \in [Types -> WorkerPC]
  /\ mpc \in MainPC
  /\ mtype \in Types
  /\ created \in [Types -> Nat]
  /\ processed \in [Types -> Seq(Nat)]

\* bioInit: every queue empty, every thread spawned.
BioInit ==
  /\ jobs = [t \in Types |-> <<>>]
  /\ pending = [t \in Types |-> 0]
  /\ mutex = [t \in Types |-> "free"]
  /\ wpc = [t \in Types |-> "start"]
  /\ mpc = "idle"
  /\ mtype \in Types
  /\ created = [t \in Types |-> 0]
  /\ processed = [t \in Types |-> <<>>]

-----------------------------------------------------------------------------
(* The main thread.                                                         *)

\* pthread_mutex_lock at the start of each of the three calls.
MainLock(t, call) ==
  /\ mpc = "idle"
  /\ mutex[t] = "free"
  /\ call = "create" => created[t] < MaxJobs
  /\ mutex' = [mutex EXCEPT ![t] = "main"]
  /\ mpc' = call
  /\ mtype' = t
  /\ UNCHANGED <<jobs, pending, wpc, created, processed>>

\* Mutant of AddJob: the job is added at the head of the list.
AddJobAtHead(t) == <<created[t] + 1>> \o jobs[t]

\* listAddNodeTail(bio_jobs[type], job), jobs being numbered by creation.
AddJob(t) == Append(jobs[t], created[t] + 1)

\* Mutant of SignalNewJob: the signal is forgotten.
NoSignal(t) == wpc[t]

\* pthread_cond_signal(&bio_newjob_cond[type]): where the worker is after it.
SignalNewJob(t) == IF wpc[t] = "wait" THEN "woken" ELSE wpc[t]

\* bioCreateBackgroundJob with the lock held: append, count, signal, unlock.
\* A signal with nobody waiting is lost.
bioCreateBackgroundJob ==
  /\ mpc = "create"
  /\ created' = [created EXCEPT ![mtype] = @ + 1]
  /\ jobs' = [jobs EXCEPT ![mtype] = AddJob(mtype)]
  /\ pending' = [pending EXCEPT ![mtype] = @ + 1]
  /\ wpc' = [wpc EXCEPT ![mtype] = SignalNewJob(mtype)]
  /\ mutex' = [mutex EXCEPT ![mtype] = "free"]
  /\ mpc' = "idle"
  /\ UNCHANGED <<mtype, processed>>

\* bioPendingJobsOfType: read the counter and unlock.
bioPendingJobsOfType ==
  /\ mpc = "query"
  /\ mutex' = [mutex EXCEPT ![mtype] = "free"]
  /\ mpc' = "idle"
  /\ UNCHANGED <<jobs, pending, wpc, mtype, created, processed>>

\* bioWaitStepOfType: return at once when nothing is pending, otherwise
\* release the lock and block on bio_step_cond.
bioWaitStepOfType ==
  /\ mpc = "step"
  /\ mutex' = [mutex EXCEPT ![mtype] = "free"]
  /\ mpc' = IF pending[mtype] = 0 THEN "idle" ELSE "step_wait"
  /\ UNCHANGED <<jobs, pending, wpc, mtype, created, processed>>

\* pthread_cond_wait returns to bioWaitStepOfType with the lock held; the
\* call reads the counter, unlocks and returns.
StepReturn ==
  /\ mpc = "step_woken"
  /\ mutex[mtype] = "free"
  /\ mutex' = [mutex EXCEPT ![mtype] = "main"]
  /\ mpc' = "query"
  /\ UNCHANGED <<jobs, pending, wpc, mtype, created, processed>>

-----------------------------------------------------------------------------
(* The worker thread of type t: bioProcessBackgroundJobs.                   *)

\* The first lock, and the one with which pthread_cond_wait returns.
WorkerLock(t) ==
  /\ wpc[t] \in {"start", "woken"}
  /\ mutex[t] = "free"
  /\ mutex' = [mutex EXCEPT ![t] = "worker"]
  /\ wpc' = [wpc EXCEPT ![t] = "top"]
  /\ UNCHANGED <<jobs, pending, mpc, mtype, created, processed>>

\* An empty list: pthread_cond_wait releases the lock and blocks in one step.
WorkerWait(t) ==
  /\ wpc[t] = "top"
  /\ jobs[t] = <<>>
  /\ mutex' = [mutex EXCEPT ![t] = "free"]
  /\ wpc' = [wpc EXCEPT ![t] = "wait"]
  /\ UNCHANGED <<jobs, pending, mpc, mtype, created, processed>>

\* Mutant of WorkerPop: the job is already uncounted when it is popped.
WorkerPopUncounts(t) ==
  /\ wpc[t] = "top"
  /\ jobs[t] # <<>>
  /\ pending' = [pending EXCEPT ![t] = @ - 1]
  /\ mutex' = [mutex EXCEPT ![t] = "free"]
  /\ wpc' = [wpc EXCEPT ![t] = "work"]
  /\ UNCHANGED <<jobs, mpc, mtype, created, processed>>

\* Take the address of the first job, leave it in the list, and unlock.
WorkerPop(t) ==
  /\ wpc[t] = "top"
  /\ jobs[t] # <<>>
  /\ mutex' = [mutex EXCEPT ![t] = "free"]
  /\ wpc' = [wpc EXCEPT ![t] = "work"]
  /\ UNCHANGED <<jobs, pending, mpc, mtype, created, processed>>

\* close(), redis_fsync() or a lazy free, without the lock.
WorkerProcess(t) ==
  /\ wpc[t] = "work"
  /\ processed' = [processed EXCEPT ![t] = Append(@, Head(jobs[t]))]
  /\ wpc' = [wpc EXCEPT ![t] = "relock"]
  /\ UNCHANGED <<jobs, pending, mutex, mpc, mtype, created>>

\* pthread_cond_broadcast(&bio_step_cond[type]): where main is after it.
BroadcastStep(t) ==
  IF mpc = "step_wait" /\ mtype = t THEN "step_woken" ELSE mpc

\* Lock again, remove the job, decrement and broadcast bio_step_cond.
WorkerDone(t) ==
  /\ wpc[t] = "relock"
  /\ mutex[t] = "free"
  /\ mutex' = [mutex EXCEPT ![t] = "worker"]
  /\ jobs' = [jobs EXCEPT ![t] = Tail(@)]
  /\ pending' = [pending EXCEPT ![t] = @ - 1]
  /\ mpc' = BroadcastStep(t)
  /\ wpc' = [wpc EXCEPT ![t] = "top"]
  /\ UNCHANGED <<mtype, created, processed>>

\* POSIX lets a condition wait return without a signal.
SpuriousWakeup(t) ==
  /\ \/ /\ wpc[t] = "wait"
        /\ wpc' = [wpc EXCEPT ![t] = "woken"]
        /\ UNCHANGED mpc
     \/ /\ mpc = "step_wait" /\ mtype = t
        /\ mpc' = "step_woken"
        /\ UNCHANGED wpc
  /\ UNCHANGED <<jobs, pending, mutex, mtype, created, processed>>

Main ==
  \/ \E t \in Types, call \in {"create", "query", "step"} : MainLock(t, call)
  \/ bioCreateBackgroundJob
  \/ bioPendingJobsOfType
  \/ bioWaitStepOfType
  \/ StepReturn

Worker(t) ==
  \/ WorkerLock(t)
  \/ WorkerWait(t)
  \/ WorkerPop(t)
  \/ WorkerProcess(t)
  \/ WorkerDone(t)

BioNext ==
  \/ Main
  \/ \E t \in Types : Worker(t) \/ SpuriousWakeup(t)

\* The operating system runs every thread that can run.  Locks are not
\* first-come first-served, but a thread that keeps asking for a mutex that
\* is free again and again gets it: strong fairness for the lock steps.
BioFairness ==
  /\ WF_bioVars(bioCreateBackgroundJob)
  /\ WF_bioVars(bioPendingJobsOfType)
  /\ WF_bioVars(bioWaitStepOfType)
  /\ SF_bioVars(StepReturn)
  /\ \A t \in Types :
       /\ SF_bioVars(WorkerLock(t))
       /\ SF_bioVars(WorkerDone(t))
       /\ WF_bioVars(WorkerWait(t))
       /\ WF_bioVars(WorkerPop(t))
       /\ WF_bioVars(WorkerProcess(t))

BioSpec == BioInit /\ [][BioNext]_bioVars

BioFairSpec == BioSpec /\ BioFairness

-----------------------------------------------------------------------------
(* Properties.                                                              *)

\* At most one thread is inside the critical section of a type, and the
\* mutex records which: the list and the counter of bio.c are only touched
\* there.
MutexInv ==
  \A t \in Types :
    /\ wpc[t] = "top" <=> mutex[t] = "worker"
    /\ (mpc \in {"create", "query", "step"} /\ mtype = t) <=> mutex[t] = "main"

\* bioPendingJobsOfType returning 0 means that no job of the type is queued
\* or still executing: every job ever created has been executed.  The AOF
\* flush and the eviction loop rely on it.
PendingZeroMeansDone ==
  \A t \in Types : pending[t] = 0 => Len(processed[t]) = created[t]

\* Jobs of one type run exactly once each and in the order of creation: "jobs
\* of the same type are guaranteed to be processed from the least recently
\* inserted to the most recently inserted".
ProcessedInOrder ==
  \A t \in Types :
    /\ Len(processed[t]) <= created[t]
    /\ \A i \in 1..Len(processed[t]) : processed[t][i] = i

\* The list holds the jobs not executed yet, plus the one the worker has
\* executed and not removed; the counter is its length.
CountOf(t) ==
  /\ pending[t] = Len(jobs[t])
  /\ Len(processed[t]) + Len(jobs[t])
       = IF wpc[t] = "relock" THEN created[t] + 1 ELSE created[t]
  /\ wpc[t] \in {"work", "relock"} => Len(jobs[t]) > 0

\* The list is in the order of creation and ends with the newest job.
OrderOf(t) ==
  \A i \in 1..Len(jobs[t]) : jobs[t][i] = created[t] - Len(jobs[t]) + i

QueueInv == \A t \in Types : CountOf(t) /\ OrderOf(t)

\* No wakeup is lost: a job that was created is eventually executed.
EveryJobRuns ==
  \A t \in Types, n \in 1..MaxJobs :
    created[t] >= n ~> Len(processed[t]) >= n

\* A thread blocked in bioWaitStepOfType is eventually released.
StepWaitEnds == mpc = "step_wait" ~> mpc = "idle"
\* The two condition variables of bio.c together: no wakeup of a worker or of
\* the thread waiting for one is lost.
NoWakeupLost == EveryJobRuns /\ StepWaitEnds
=============================================================================
