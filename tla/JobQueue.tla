------------------------------ MODULE JobQueue ------------------------------
(***************************************************************************)
(* The jobs table: JobService and the worker loop of workers/runner.py.    *)
(*                                                                         *)
(* Whoever enqueues does so inside its own request's transaction, together *)
(* with other writes (its "work"), and both become visible at the commit.  *)
(* The worker claims, runs the handler and completes in one transaction:   *)
(* RUNNING and the attempt it counts are never visible to anybody else,    *)
(* and whatever goes wrong before the commit leaves the row as it was.     *)
(*                                                                         *)
(* Jobs are numbered in the order of their next_run_at, which enqueue sets *)
(* to the time of the call; row j is the row that caller j inserts.        *)
(***************************************************************************)
EXTENDS Naturals

CONSTANTS
  MaxJobs,             \* bound: enqueue calls in a behaviour
  Keys, NoKey,         \* idempotency keys, and none
  Workers,             \* worker processes
  Cancellers,          \* callers of JobService.cancel
  MaxCrashes,          \* bound: worker processes that die
  SessionFactoryBound  \* the runner's async_session_factory is not None

ASSUME JobQueueAssumption ==
  /\ MaxJobs \in Nat
  /\ MaxCrashes \in Nat
  /\ NoKey \notin Keys
  /\ SessionFactoryBound \in BOOLEAN

Job == 1..MaxJobs
NoJob == 0

VARIABLES
  status,    \* jobs.status as committed
  attempts,  \* jobs.attempts as committed
  caller,    \* the transaction that enqueues, per job
  worker,    \* what each worker process is doing
  cancel,    \* what each canceller is doing
  broken,    \* jobs whose handler raises at present
  crashes    \* worker processes that died so far

vars == <<status, attempts, caller, worker, cancel, broken, crashes>>

\* RUNNING, RETRYING, FAILED and DEAD_LETTER are never committed.
JobStatus == {"none", "pending", "completed", "cancelled"}

CallerPc == {"idle", "inserting", "returning", "committed", "aborted"}

TypeOK ==
  /\ status \in [Job -> JobStatus]
  /\ attempts \in [Job -> Nat]
  /\ caller \in [Job -> [pc : CallerPc, key : Keys \cup {NoKey},
                         job : Job \cup {NoJob}, work : BOOLEAN]]
  /\ worker \in [Workers -> Job \cup {NoJob}]
  /\ cancel \in [Cancellers -> Job \cup {NoJob}]
  /\ broken \in SUBSET Job
  /\ crashes \in 0..MaxCrashes

Caller(pc, key, job, work) ==
  [pc |-> pc, key |-> key, job |-> job, work |-> work]

Init ==
  /\ status = [j \in Job |-> "none"]
  /\ attempts = [j \in Job |-> 0]
  /\ caller = [j \in Job |-> Caller("idle", NoKey, NoJob, FALSE)]
  /\ worker = [w \in Workers |-> NoJob]
  /\ cancel = [c \in Cancellers |-> NoJob]
  /\ broken \in SUBSET Job
  /\ crashes = 0

-----------------------------------------------------------------------------
(* JobService.enqueue inside its caller's transaction.                     *)

\* The committed rows with idempotency key k.
RowsWith(k) == {i \in Job : k # NoKey /\ status[i] # "none" /\ caller[i].key = k}

\* The uncommitted entries of the unique index for key k.
InsertedWith(k) ==
  {i \in Job : k # NoKey /\ caller[i] = Caller("returning", k, i, TRUE)}

\* The request has written its own work and calls enqueue, which looks for
\* the key.
Enqueue(j, k) ==
  /\ caller[j].pc = "idle"
  /\ \A i \in Job : i < j => caller[i].pc # "idle"
  /\ \/ /\ RowsWith(k) = {}
        /\ caller' = [caller EXCEPT ![j] = Caller("inserting", k, NoJob, TRUE)]
     \/ \E i \in RowsWith(k) :
          caller' = [caller EXCEPT ![j] = Caller("returning", k, i, TRUE)]
  /\ UNCHANGED <<status, attempts, worker, cancel, broken, crashes>>

FlushInsert_NoConstraint(j) ==
  /\ caller[j].pc = "inserting"
  /\ caller' = [caller EXCEPT ![j] = Caller("returning", @.key, j, TRUE)]
  /\ UNCHANGED <<status, attempts, worker, cancel, broken, crashes>>

\* Mutant: the job is inserted and committed in a session of enqueue's own.
FlushInsert_OwnSession(j) ==
  LET k == caller[j].key
  IN  /\ caller[j].pc = "inserting"
      /\ \/ /\ RowsWith(k) = {}
            /\ status' = [status EXCEPT ![j] = "pending"]
            /\ caller' = [caller EXCEPT ![j] = Caller("returning", k, j, TRUE)]
         \/ \E i \in RowsWith(k) :
              /\ caller' = [caller EXCEPT ![j] = Caller("returning", k, i, TRUE)]
              /\ UNCHANGED status
      /\ UNCHANGED <<attempts, worker, cancel, broken, crashes>>

\* The insert waits while another transaction has an uncommitted row with the
\* key.  On the unique violation the whole session is rolled back, the
\* caller's work with it, and the winner's row is returned.
FlushInsert(j) ==
  LET k == caller[j].key
  IN  /\ caller[j].pc = "inserting"
      /\ InsertedWith(k) = {}
      /\ \/ /\ RowsWith(k) = {}
            /\ caller' = [caller EXCEPT ![j] = Caller("returning", k, j, TRUE)]
         \/ \E i \in RowsWith(k) :
              caller' = [caller EXCEPT ![j] = Caller("returning", k, i, FALSE)]
      /\ UNCHANGED <<status, attempts, worker, cancel, broken, crashes>>

CommitCaller(j) ==
  /\ caller[j].pc = "returning"
  /\ status' = IF caller[j].job = j
               THEN [status EXCEPT ![j] = "pending"] ELSE status
  /\ caller' = [caller EXCEPT ![j].pc = "committed"]
  /\ UNCHANGED <<attempts, worker, cancel, broken, crashes>>

\* The request fails after or during enqueue: everything is rolled back.
AbortCaller(j) ==
  /\ caller[j].pc \in {"inserting", "returning"}
  /\ caller' = [caller EXCEPT ![j] = Caller("aborted", @.key, NoJob, FALSE)]
  /\ UNCHANGED <<status, attempts, worker, cancel, broken, crashes>>

-----------------------------------------------------------------------------
(* The worker loop: process_one.                                           *)

Locked(j) == \E w \in Workers : worker[w] = j

Claimable(j) == status[j] = "pending" /\ ~Locked(j)

Claim_LockIgnored(w, j) ==
  /\ SessionFactoryBound
  /\ worker[w] = NoJob
  /\ status[j] = "pending"
  /\ worker' = [worker EXCEPT ![w] = j]
  /\ UNCHANGED <<status, attempts, caller, cancel, broken, crashes>>

\* claim_next: FOR UPDATE SKIP LOCKED on the first due row.
Claim(w, j) ==
  /\ SessionFactoryBound
  /\ worker[w] = NoJob
  /\ Claimable(j) /\ \A i \in Job : Claimable(i) => j <= i
  /\ worker' = [worker EXCEPT ![w] = j]
  /\ UNCHANGED <<status, attempts, caller, cancel, broken, crashes>>

Finish_NotFlushed(w) ==
  /\ worker[w] # NoJob /\ worker[w] \notin broken
  /\ worker' = [worker EXCEPT ![w] = NoJob]
  /\ UNCHANGED <<status, attempts, caller, cancel, broken, crashes>>

\* The handler (or _default_handler, which skips a job without one) returns,
\* complete() and the commit: the attempt counted by the
\* claim becomes visible together with COMPLETED and the handler's own writes.
Finish(w) ==
  LET j == worker[w]
  IN  /\ j # NoJob /\ j \notin broken
      /\ status' = [status EXCEPT ![j] = "completed"]
      /\ attempts' = [attempts EXCEPT ![j] = @ + 1]
      /\ worker' = [worker EXCEPT ![w] = NoJob]
      /\ UNCHANGED <<caller, cancel, broken, crashes>>

FailAttempt_ClaimCommitted(w) ==
  /\ worker[w] # NoJob /\ worker[w] \in broken
  /\ status' = [status EXCEPT ![worker[w]] = "running"]
  /\ worker' = [worker EXCEPT ![w] = NoJob]
  /\ UNCHANGED <<attempts, caller, cancel, broken, crashes>>

\* The handler raises: the rollback undoes the claim and expires the job
\* object, so reading job.id for JobService.fail raises as well.  The loop
\* logs it and polls again: no RETRYING, no backoff, no dead letter.
FailAttempt(w) ==
  /\ worker[w] # NoJob /\ worker[w] \in broken
  /\ worker' = [worker EXCEPT ![w] = NoJob]
  /\ UNCHANGED <<status, attempts, caller, cancel, broken, crashes>>

\* The process dies and is started again: its transaction is rolled back.
WorkerDies(w) ==
  /\ worker[w] # NoJob
  /\ crashes < MaxCrashes
  /\ crashes' = crashes + 1
  /\ worker' = [worker EXCEPT ![w] = NoJob]
  /\ UNCHANGED <<status, attempts, caller, cancel, broken>>

\* What made the handlers raise is put right.
Repair ==
  /\ broken # {}
  /\ broken' = {}
  /\ UNCHANGED <<status, attempts, caller, worker, cancel, crashes>>

-----------------------------------------------------------------------------
(* JobService.cancel: the status is read in one statement and overwritten  *)
(* by a later one, which waits for the row lock of a worker.               *)

BeginCancel(c, j) ==
  /\ cancel[c] = NoJob
  /\ status[j] \notin {"none", "completed", "cancelled"}
  /\ cancel' = [cancel EXCEPT ![c] = j]
  /\ UNCHANGED <<status, attempts, caller, worker, broken, crashes>>

CommitCancel(c) ==
  /\ cancel[c] # NoJob /\ ~Locked(cancel[c])
  /\ status' = [status EXCEPT ![cancel[c]] = "cancelled"]
  /\ cancel' = [cancel EXCEPT ![c] = NoJob]
  /\ UNCHANGED <<attempts, caller, worker, broken, crashes>>

-----------------------------------------------------------------------------
CallerStep(j) == FlushInsert(j) \/ CommitCaller(j)

WorkerStep(w) == (\E j \in Job : Claim(w, j)) \/ Finish(w) \/ FailAttempt(w)

\* Every call has been answered; the workers poll an empty queue.
Idle ==
  /\ \A j \in Job : caller[j].pc \in {"committed", "aborted"}
  /\ UNCHANGED vars

Next ==
  \/ \E j \in Job : \/ \E k \in Keys \cup {NoKey} : Enqueue(j, k)
                    \/ CallerStep(j)
                    \/ AbortCaller(j)
  \/ \E w \in Workers : WorkerStep(w) \/ WorkerDies(w)
  \/ \E c \in Cancellers : (\E j \in Job : BeginCancel(c, j)) \/ CommitCancel(c)
  \/ Repair
  \/ Idle

Spec == Init /\ [][Next]_vars

\* Workers keep polling and handlers end, one way or the other.
FairSpec == Spec /\ \A w \in Workers : WF_vars(WorkerStep(w))

-----------------------------------------------------------------------------
(* Properties.                                                             *)

\* Where job j stands for whoever relies on the queue.
Phase(j) ==
  IF status[j] = "none" THEN "absent"
  ELSE IF attempts[j] > 0 THEN "effective"
  ELSE IF status[j] = "cancelled" THEN "withdrawn"
  ELSE "queued"

RowKey(j) == IF status[j] = "none" THEN NoKey ELSE caller[j].key

\* The job table implements the abstract queue: cancelling a job that took
\* effect in the meantime changes its status only.
Queue == INSTANCE TaskQueue WITH
  Task <- Job,
  Key <- Keys,
  phase <- [j \in Job |-> Phase(j)],
  key <- [j \in Job |-> RowKey(j)]

ImplementsTaskQueue == Queue!Spec

\* A job takes effect at most once, however many workers poll and die, and
\* completed means that it did.
ExactlyOnce ==
  \A j \in Job : /\ attempts[j] <= 1
                 /\ status[j] = "completed" => attempts[j] = 1

\* Whoever was answered holds a committed job with the key it asked for, and
\* a job is there, for workers and other callers to find, only with the work
\* of the request that enqueued it: a request that fails after enqueue leaves
\* none behind.
EnqueueIsAtomicWithWork ==
  /\ \A j \in Job : caller[j].pc = "committed" =>
       LET i == caller[j].job IN status[i] # "none" /\ caller[i].key = caller[j].key
  /\ \A j \in Job : status[j] # "none" => caller[j].work

\* A pending job takes effect or is cancelled, unless the handler of a job ahead
\* of it, or its own, keeps raising: failed attempts and dead workers lose
\* nothing, and a job that fails holds up only those behind it.
PendingJobsSettle ==
  \A j \in Job :
    (status[j] = "pending" /\ broken \cap 1..j = {}) ~> status[j] # "pending"
=============================================================================
