--------------------------- MODULE JobQueueProofs ---------------------------
(***************************************************************************)
(* JobQueue for any number of jobs, keys, workers, cancellers and crashes: *)
(* a job takes effect at most once, enqueueing is atomic with its caller's *)
(* work, and the table implements TaskQueue.                               *)
(***************************************************************************)
EXTENDS JobQueue, TLAPS

\* The invariant holds the row lock to the pending rows: only a worker's own
\* commit can take a row it holds out of "pending".
LockInv ==
  /\ \A w \in Workers : worker[w] # NoJob => status[worker[w]] = "pending"
  /\ \A v, w \in Workers : worker[v] = worker[w] /\ worker[v] # NoJob => v = w

\* attempts counts the executions that were committed.
EffectInv == \A j \in Job :
  /\ status[j] \in {"none", "pending"} => attempts[j] = 0
  /\ status[j] = "completed" => attempts[j] = 1
  /\ status[j] = "cancelled" => attempts[j] \in {0, 1}

\* A row is there once its caller has committed, and with the caller's work.
RowInv == \A j \in Job : status[j] # "none" =>
  caller[j].pc = "committed" /\ caller[j].work

\* What a caller is going to be answered, or was.
AnswerInv == \A j \in Job :
  /\ caller[j].pc = "returning" =>
       \/ caller[j].job = j /\ caller[j].work
       \/ /\ caller[j].job \in Job /\ status[caller[j].job] # "none"
          /\ caller[caller[j].job].key = caller[j].key
  /\ caller[j].pc = "committed" =>
       /\ caller[j].job \in Job /\ status[caller[j].job] # "none"
       /\ caller[caller[j].job].key = caller[j].key

\* The unique index: rows that are committed or inserted.
Indexed(j) ==
  \/ status[j] # "none"
  \/ caller[j].pc = "returning" /\ caller[j].job = j

KeyInv == \A i, j \in Job :
  Indexed(i) /\ Indexed(j) /\ caller[i].key = caller[j].key
    => i = j \/ caller[i].key = NoKey

CancelInv == \A c \in Cancellers :
  cancel[c] # NoJob => status[cancel[c]] # "none"

QueueInv == TypeOK /\ LockInv /\ EffectInv /\ RowInv /\ AnswerInv /\ KeyInv
            /\ CancelInv

\* The number that stands for no job is not a job's.
LEMMA NoJobIsNone == NoJob \notin Job
BY JobQueueAssumption DEF Job, NoJob

\* The empty job table satisfies the invariant.
LEMMA InitQueueInv == Init => QueueInv
<1> SUFFICES ASSUME Init PROVE QueueInv
  OBVIOUS
<1>1. TypeOK
  BY JobQueueAssumption DEF Init, TypeOK, Caller, CallerPc, JobStatus
<1>2. LockInv /\ EffectInv /\ RowInv /\ CancelInv
  BY DEF Init, LockInv, EffectInv, RowInv, CancelInv
<1>3. AnswerInv /\ KeyInv
  BY DEF Init, AnswerInv, KeyInv, Indexed, Caller
<1> QED
  BY <1>1, <1>2, <1>3 DEF QueueInv

-----------------------------------------------------------------------------
(* The callers' steps change a caller, and a row when its caller commits.  *)

\* Caller j moves without touching any row.
CallerMoves(j, next) ==
  /\ next \in [pc : CallerPc, key : Keys \cup {NoKey}, job : Job \cup {NoJob}, work : BOOLEAN]
  /\ caller[j].pc # "committed" /\ next.pc # "committed"
  /\ next.pc = "returning" =>
       \/ /\ next.job = j /\ next.work
          /\ \A i \in Job : Indexed(i) /\ caller[i].key = next.key
                              => next.key = NoKey \/ i = j
       \/ /\ next.job # j /\ next.job \in Job /\ status[next.job] # "none"
          /\ caller[next.job].key = next.key
  /\ caller' = [caller EXCEPT ![j] = next]
  /\ UNCHANGED <<status, attempts, worker, cancel, broken, crashes>>

\* A transaction that moves before its commit (enqueue) keeps the invariant, if
\* its answer is sound and its key is free in the unique index.
LEMMA CallerMovesInv ==
  ASSUME QueueInv, NEW j \in Job, NEW next, CallerMoves(j, next)
  PROVE  QueueInv'
<1> USE DEF QueueInv, CallerMoves
<1>1. \A i \in Job : i # j => caller'[i] = caller[i]
  BY DEF TypeOK
<1>2. caller'[j] = next
  BY DEF TypeOK
<1>3. status[j] = "none" /\ UNCHANGED <<status, attempts, worker, cancel>>
  BY DEF RowInv
<1>4. TypeOK'
  BY DEF TypeOK
<1>5. LockInv' /\ EffectInv' /\ RowInv' /\ CancelInv'
  BY <1>1, <1>3 DEF LockInv, EffectInv, RowInv, CancelInv
<1>6. AnswerInv'
  <2>1. ASSUME NEW i \in Job, i # j PROVE AnswerInv!(i)'
    BY <1>1, <1>3, <2>1 DEF AnswerInv
  <2>2. AnswerInv!(j)'
    BY <1>1, <1>2, <1>3 DEF AnswerInv
  <2> QED
    BY <2>1, <2>2 DEF AnswerInv
<1>7. KeyInv'
  <2>1. ASSUME NEW i \in Job, i # j PROVE Indexed(i)' <=> Indexed(i)
    BY <1>1, <1>3, <2>1 DEF Indexed
  <2>2. Indexed(j)' => next.pc = "returning" /\ next.job = j
    BY <1>2, <1>3 DEF Indexed
  <2> QED
    BY <1>1, <1>2, <2>1, <2>2 DEF KeyInv
<1> QED
  BY <1>4, <1>5, <1>6, <1>7

\* enqueue's look for the key is such a move.
LEMMA EnqueueMoves ==
  ASSUME QueueInv, NEW j \in Job, NEW k \in Keys \cup {NoKey}, Enqueue(j, k)
  PROVE  \E next : CallerMoves(j, next)
<1>1. CASE /\ caller' = [caller EXCEPT ![j] = Caller("inserting", k, NoJob, TRUE)]
           /\ UNCHANGED <<status, attempts, worker, cancel, broken, crashes>>
  <2>1. CallerMoves(j, Caller("inserting", k, NoJob, TRUE))
    BY <1>1 DEF Enqueue, CallerMoves, Caller, CallerPc
  <2> QED
    BY <2>1
<1>2. ASSUME NEW i \in RowsWith(k),
             caller' = [caller EXCEPT ![j] = Caller("returning", k, i, TRUE)],
             UNCHANGED <<status, attempts, worker, cancel, broken, crashes>>
      PROVE  \E next : CallerMoves(j, next)
  <2>1. i \in Job /\ status[i] # "none" /\ caller[i].key = k /\ i # j
    BY DEF RowsWith, QueueInv, RowInv, Enqueue
  <2>2. CallerMoves(j, Caller("returning", k, i, TRUE))
    BY <1>2, <2>1 DEF Enqueue, CallerMoves, Caller, CallerPc
  <2> QED
    BY <2>2
<1> QED
  BY <1>1, <1>2 DEF Enqueue

\* enqueue's insert is such a move, on a unique violation too.
LEMMA FlushInsertMoves ==
  ASSUME QueueInv, NEW j \in Job, FlushInsert(j)
  PROVE  \E next : CallerMoves(j, next)
<1> DEFINE k == caller[j].key
<1>0. k \in Keys \cup {NoKey} /\ caller[j].pc = "inserting" /\ InsertedWith(k) = {}
  BY DEF QueueInv, TypeOK, FlushInsert
<1>1. CASE /\ RowsWith(k) = {}
           /\ caller' = [caller EXCEPT ![j] = Caller("returning", k, j, TRUE)]
           /\ UNCHANGED <<status, attempts, worker, cancel, broken, crashes>>
  <2>1. ASSUME NEW i \in Job, Indexed(i), caller[i].key = k PROVE k = NoKey
    <3>1. CASE status[i] # "none"
      BY <1>1, <2>1, <3>1 DEF RowsWith
    <3>2. CASE caller[i].pc = "returning" /\ caller[i].job = i /\ status[i] = "none"
      <4>1. caller[i].work = TRUE
        BY <3>2 DEF QueueInv, AnswerInv
      <4>2. caller[i] = Caller("returning", k, i, TRUE)
        BY <2>1, <3>2, <4>1 DEF QueueInv, TypeOK, Caller
      <4> QED
        BY <1>0, <4>2 DEF InsertedWith
    <3> QED
      BY <2>1, <3>1, <3>2 DEF Indexed
  <2>2. CallerMoves(j, Caller("returning", k, j, TRUE))
    BY <1>0, <1>1, <2>1 DEF CallerMoves, Caller, CallerPc
  <2> QED
    BY <2>2
<1>2. ASSUME NEW i \in RowsWith(k),
             caller' = [caller EXCEPT ![j] = Caller("returning", k, i, FALSE)],
             UNCHANGED <<status, attempts, worker, cancel, broken, crashes>>
      PROVE  \E next : CallerMoves(j, next)
  <2>1. i \in Job /\ status[i] # "none" /\ caller[i].key = k /\ i # j
    BY <1>0 DEF RowsWith, QueueInv, RowInv
  <2>2. CallerMoves(j, Caller("returning", k, i, FALSE))
    BY <1>0, <1>2, <2>1 DEF CallerMoves, Caller, CallerPc
  <2> QED
    BY <2>2
<1> QED
  BY <1>1, <1>2 DEF FlushInsert

\* A rollback of the enqueuing request is such a move.
LEMMA AbortCallerMoves ==
  ASSUME QueueInv, NEW j \in Job, AbortCaller(j)
  PROVE  \E next : CallerMoves(j, next)
<1>1. caller[j].key \in Keys \cup {NoKey}
  BY DEF QueueInv, TypeOK
<1>2. CallerMoves(j, Caller("aborted", caller[j].key, NoJob, FALSE))
  BY <1>1 DEF AbortCaller, CallerMoves, Caller, CallerPc
<1> QED
  BY <1>2

\* The commit of the enqueuing request keeps the invariant.
LEMMA CommitCallerInv ==
  ASSUME QueueInv, NEW j \in Job, CommitCaller(j)
  PROVE  QueueInv'
<1> USE DEF QueueInv
<1> DEFINE own == caller[j].job = j
<1>1. /\ caller[j].pc = "returning" /\ status[j] = "none"
      /\ UNCHANGED <<attempts, worker, cancel, broken, crashes>>
  BY DEF CommitCaller, RowInv
<1>2. /\ \A i \in Job : i # j => caller'[i] = caller[i] /\ status'[i] = status[i]
      /\ caller'[j] = [caller[j] EXCEPT !.pc = "committed"]
      /\ status'[j] = IF own THEN "pending" ELSE "none"
  BY <1>1 DEF CommitCaller, TypeOK
<1>3. /\ caller'[j].pc = "committed" /\ caller'[j].key = caller[j].key
      /\ caller'[j].job = caller[j].job /\ caller'[j].work = caller[j].work
  BY <1>2 DEF TypeOK
<1>4. TypeOK'
  <2>1. status' \in [Job -> JobStatus]
    BY DEF CommitCaller, TypeOK, JobStatus
  <2>2. caller' \in [Job -> [pc : CallerPc, key : Keys \cup {NoKey},
                             job : Job \cup {NoJob}, work : BOOLEAN]]
    BY DEF CommitCaller, TypeOK, CallerPc
  <2> QED
    BY <1>1, <2>1, <2>2 DEF TypeOK
<1>5. LockInv'
  BY <1>1, <1>2 DEF LockInv, TypeOK
<1>6. EffectInv'
  BY <1>1, <1>2 DEF EffectInv
<1>7. RowInv'
  BY <1>1, <1>2, <1>3, NoJobIsNone DEF RowInv, AnswerInv
<1>8. AnswerInv'
  <2>1. \A i \in Job : status[i] # "none" => status'[i] # "none" /\ i # j
    BY <1>1, <1>2
  <2>2. ASSUME NEW i \in Job, i # j PROVE AnswerInv!(i)'
    BY <1>2, <2>1, <2>2 DEF AnswerInv
  <2>3. AnswerInv!(j)'
    <3>1. CASE own
      BY <1>2, <1>3, <3>1 DEF AnswerInv
    <3>2. CASE ~own
      <4>1. /\ caller[j].job \in Job /\ status[caller[j].job] # "none"
            /\ caller[caller[j].job].key = caller[j].key
        BY <1>1, <3>2 DEF AnswerInv
      <4>2. /\ status'[caller[j].job] # "none"
            /\ caller'[caller[j].job].key = caller[j].key
        BY <1>2, <2>1, <3>2, <4>1
      <4> QED
        BY <1>3, <4>1, <4>2 DEF AnswerInv
    <3> QED
      BY <3>1, <3>2
  <2> QED
    BY <2>2, <2>3 DEF AnswerInv
<1>9. KeyInv'
  <2>1. \A i \in Job : Indexed(i)' => Indexed(i)
    BY <1>1, <1>2, <1>3 DEF Indexed
  <2>2. \A i \in Job : caller'[i].key = caller[i].key
    BY <1>2, <1>3
  <2> QED
    BY <2>1, <2>2 DEF KeyInv
<1>10. CancelInv'
  BY <1>1, <1>2 DEF CancelInv, TypeOK
<1> QED
  BY <1>4, <1>5, <1>6, <1>7, <1>8, <1>9, <1>10

-----------------------------------------------------------------------------
(* The workers' and the cancellers' steps change no caller, and a row only *)
(* from one status to another.                                             *)

\* A step that leaves the callers alone and removes no row keeps what callers
\* were answered.
LEMMA RowsStay ==
  ASSUME QueueInv, caller' = caller, status' \in [Job -> JobStatus],
         \A j \in Job : status[j] # "none" <=> status'[j] # "none"
  PROVE  RowInv' /\ AnswerInv' /\ KeyInv'
<1>1. RowInv'
  BY DEF QueueInv, RowInv
<1>2. AnswerInv'
  BY DEF QueueInv, AnswerInv
<1>3. KeyInv'
  BY DEF QueueInv, KeyInv, Indexed
<1> QED
  BY <1>1, <1>2, <1>3

\* Worker w takes up j, or puts down what it has, and no row changes.
LEMMA WorkerMoves ==
  ASSUME QueueInv, NEW w \in Workers, NEW j \in Job \cup {NoJob},
         worker' = [worker EXCEPT ![w] = j],
         j # NoJob => Claimable(j),
         UNCHANGED <<status, attempts, caller, cancel, broken>>,
         crashes' \in 0..MaxCrashes
  PROVE  QueueInv'
<1> USE DEF QueueInv
<1>1. TypeOK'
  BY DEF TypeOK
<1>2. LockInv'
  BY DEF LockInv, TypeOK, Claimable, Locked
<1>3. EffectInv' /\ CancelInv'
  BY DEF EffectInv, CancelInv
<1>4. RowInv' /\ AnswerInv' /\ KeyInv'
  BY RowsStay DEF TypeOK
<1> QED
  BY <1>1, <1>2, <1>3, <1>4

\* complete() with the worker's commit keeps the invariant.
LEMMA FinishInv ==
  ASSUME QueueInv, NEW w \in Workers, Finish(w)
  PROVE  QueueInv'
<1> USE DEF QueueInv
<1> DEFINE j == worker[w]
<1>1. j \in Job /\ status[j] = "pending" /\ attempts[j] = 0
  BY DEF Finish, TypeOK, LockInv, EffectInv
<1>2. /\ \A i \in Job : i # j => status'[i] = status[i] /\ attempts'[i] = attempts[i]
      /\ status'[j] = "completed" /\ attempts'[j] = 1
  BY <1>1 DEF Finish, TypeOK
<1>3. TypeOK'
  BY <1>1, <1>2, NoJobIsNone DEF Finish, TypeOK, JobStatus
<1>4. LockInv'
  <2>1. \A v \in Workers : worker'[v] # NoJob => v # w /\ worker'[v] = worker[v]
    BY DEF Finish, TypeOK
  <2>2. \A v \in Workers : worker'[v] # NoJob => worker'[v] # j /\ worker'[v] \in Job
    BY <2>1, <1>1, NoJobIsNone DEF LockInv, TypeOK
  <2> QED
    BY <1>2, <2>1, <2>2 DEF LockInv
<1>5. EffectInv'
  BY <1>2 DEF EffectInv
<1>6. RowInv' /\ AnswerInv' /\ KeyInv'
  BY <1>1, <1>2, <1>3, RowsStay DEF Finish, TypeOK
<1>7. CancelInv'
  BY <1>1, <1>2 DEF CancelInv, Finish, TypeOK
<1> QED
  BY <1>3, <1>4, <1>5, <1>6, <1>7

\* cancel's UPDATE keeps the invariant.
LEMMA CommitCancelInv ==
  ASSUME QueueInv, NEW c \in Cancellers, CommitCancel(c)
  PROVE  QueueInv'
<1> USE DEF QueueInv
<1> DEFINE j == cancel[c]
<1>1. j \in Job /\ status[j] # "none" /\ ~Locked(j)
  BY DEF CommitCancel, TypeOK, CancelInv
<1>2. /\ \A i \in Job : i # j => status'[i] = status[i]
      /\ status'[j] = "cancelled"
      /\ UNCHANGED <<attempts, caller, worker, broken, crashes>>
  BY <1>1 DEF CommitCancel, TypeOK
<1>3. TypeOK'
  BY <1>1, <1>2 DEF CommitCancel, TypeOK, JobStatus
<1>4. LockInv'
  BY <1>1, <1>2 DEF LockInv, Locked, TypeOK
<1>5. EffectInv'
  <2>1. attempts[j] \in {0, 1}
    BY <1>1 DEF EffectInv, TypeOK, JobStatus
  <2> QED
    BY <1>2, <2>1 DEF EffectInv
<1>6. RowInv' /\ AnswerInv' /\ KeyInv'
  BY <1>1, <1>2, <1>3, RowsStay DEF TypeOK
<1>7. CancelInv'
  BY <1>2 DEF CancelInv, CommitCancel, TypeOK
<1> QED
  BY <1>3, <1>4, <1>5, <1>6, <1>7

-----------------------------------------------------------------------------
\* Every step of the queue keeps the invariant.
LEMMA NextQueueInv == QueueInv /\ [Next]_vars => QueueInv'
<1> SUFFICES ASSUME QueueInv, [Next]_vars PROVE QueueInv'
  OBVIOUS
<1>1. ASSUME NEW j \in Job, NEW k \in Keys \cup {NoKey}, Enqueue(j, k)
      PROVE  QueueInv'
  BY <1>1, EnqueueMoves, CallerMovesInv
<1>2. ASSUME NEW j \in Job, FlushInsert(j) PROVE QueueInv'
  BY <1>2, FlushInsertMoves, CallerMovesInv
<1>3. ASSUME NEW j \in Job, CommitCaller(j) PROVE QueueInv'
  BY <1>3, CommitCallerInv
<1>4. ASSUME NEW j \in Job, AbortCaller(j) PROVE QueueInv'
  BY <1>4, AbortCallerMoves, CallerMovesInv
<1>5. ASSUME NEW w \in Workers, NEW j \in Job, Claim(w, j) PROVE QueueInv'
  BY <1>5, WorkerMoves DEF Claim, QueueInv, TypeOK
<1>6. ASSUME NEW w \in Workers, Finish(w) PROVE QueueInv'
  BY <1>6, FinishInv
<1>7. ASSUME NEW w \in Workers, FailAttempt(w) PROVE QueueInv'
  BY <1>7, WorkerMoves DEF FailAttempt, QueueInv, TypeOK
<1>8. ASSUME NEW w \in Workers, WorkerDies(w) PROVE QueueInv'
  <2>1. crashes' \in 0..MaxCrashes
    BY <1>8, JobQueueAssumption DEF WorkerDies, QueueInv, TypeOK
  <2> QED
    BY <1>8, <2>1, WorkerMoves DEF WorkerDies
<1>9. ASSUME NEW c \in Cancellers, NEW j \in Job, BeginCancel(c, j)
      PROVE  QueueInv'
  <2>1. TypeOK' /\ LockInv' /\ EffectInv' /\ CancelInv'
    BY <1>9 DEF BeginCancel, QueueInv, TypeOK, LockInv, EffectInv, CancelInv
  <2>2. RowInv' /\ AnswerInv' /\ KeyInv'
    BY <1>9, RowsStay DEF BeginCancel, QueueInv, TypeOK
  <2> QED
    BY <2>1, <2>2 DEF QueueInv
<1>10. ASSUME NEW c \in Cancellers, CommitCancel(c) PROVE QueueInv'
  BY <1>10, CommitCancelInv
<1>11. CASE Repair \/ UNCHANGED vars
  <2>1. UNCHANGED <<status, attempts, caller, worker, cancel, crashes>>
    BY <1>11 DEF Repair, vars
  <2>2. TypeOK' /\ LockInv' /\ EffectInv' /\ CancelInv'
    BY <1>11, <2>1 DEF Repair, vars, QueueInv, TypeOK, LockInv, EffectInv, CancelInv
  <2>3. RowInv' /\ AnswerInv' /\ KeyInv'
    BY <2>1, RowsStay DEF QueueInv, TypeOK
  <2> QED
    BY <2>2, <2>3 DEF QueueInv
<1> QED
  BY <1>1, <1>2, <1>3, <1>4, <1>5, <1>6, <1>7, <1>8, <1>9, <1>10, <1>11
  DEF Next, CallerStep, WorkerStep, Idle

\* The invariant holds in every reachable state.
LEMMA QueueInvariant == Spec => []QueueInv
<1>1. Init => QueueInv
  BY InitQueueInv
<1>2. QueueInv /\ [Next]_vars => QueueInv'
  BY NextQueueInv
<1> QED
  BY <1>1, <1>2, PTL DEF Spec

\* Every variable keeps its type.
THEOREM TypeCorrect == Spec => []TypeOK
<1>1. QueueInv => TypeOK
  BY DEF QueueInv
<1> QED
  BY <1>1, QueueInvariant, PTL

\* However many workers claim, fail and die, a job takes effect at most once
\* and is completed only when it did (claim_next, complete and their
\* transaction).
THEOREM EffectOnce == Spec => []ExactlyOnce
<1>1. QueueInv => ExactlyOnce
  BY DEF QueueInv, EffectInv, ExactlyOnce, TypeOK, JobStatus
<1> QED
  BY <1>1, QueueInvariant, PTL

\* A caller that was answered holds a committed job with its key, and a row is
\* never there without the work it was enqueued with (enqueue, get_db).
THEOREM EnqueueAtomic == Spec => []EnqueueIsAtomicWithWork
<1>1. QueueInv => EnqueueIsAtomicWithWork
  BY DEF QueueInv, AnswerInv, RowInv, EnqueueIsAtomicWithWork
<1> QED
  BY <1>1, QueueInvariant, PTL
-----------------------------------------------------------------------------
(* The refinement: what a step changes of the abstract state, job by job.  *)

\* Nothing the abstract queue sees changes for job j.
Quiet(j) == Phase(j)' = Phase(j) /\ RowKey(j)' = RowKey(j)

\* A step that leaves the rows alone changes nothing of the abstract queue.
LEMMA AllQuiet ==
  ASSUME \A j \in Job : Quiet(j)
  PROVE  UNCHANGED <<[j \in Job |-> Phase(j)], [j \in Job |-> RowKey(j)]>>
BY DEF Quiet

\* A step that leaves the rows alone, and the callers of committed rows.
LEMMA RowsUnchanged ==
  ASSUME QueueInv, UNCHANGED <<status, attempts>>,
         \A j \in Job : caller[j].pc = "committed" => caller'[j] = caller[j]
  PROVE  \A j \in Job : Quiet(j)
BY DEF QueueInv, RowInv, Quiet, Phase, RowKey

\* The commit of an enqueuing request submits a task, or stutters.
LEMMA CommitCallerSubmits ==
  ASSUME QueueInv, NEW j \in Job, CommitCaller(j)
  PROVE  Queue!Next \/ \A i \in Job : Quiet(i)
<1> USE DEF QueueInv
<1>1. /\ caller[j].pc = "returning" /\ status[j] = "none"
      /\ attempts' = attempts /\ attempts[j] = 0
  BY DEF CommitCaller, RowInv, EffectInv
<1>2. /\ \A i \in Job : i # j => caller'[i] = caller[i] /\ status'[i] = status[i]
      /\ caller'[j].key = caller[j].key
  BY DEF CommitCaller, TypeOK
<1>3. \A i \in Job : i # j => Quiet(i)
  BY <1>1, <1>2 DEF Quiet, Phase, RowKey
<1>4. CASE caller[j].job = j
  <2> DEFINE k == caller[j].key
  <2>1. status'[j] = "pending"
    BY <1>4 DEF CommitCaller, TypeOK
  <2>2. Phase(j) = "absent" /\ Phase(j)' = "queued" /\ RowKey(j)' = k
    BY <1>1, <1>2, <2>1 DEF Phase, RowKey
  <2>3. ASSUME k # NoKey, NEW i \in Job, Phase(i) # "absent" PROVE RowKey(i) # k
    <3>1. status[i] # "none"
      BY <2>3 DEF Phase
    <3> QED
      BY <1>1, <1>4, <2>3, <3>1 DEF KeyInv, Indexed, RowKey
  <2>4. [i \in Job |-> Phase(i)]' = [[i \in Job |-> Phase(i)] EXCEPT ![j] = "queued"]
    BY <1>3, <2>2 DEF Quiet
  <2>5. [i \in Job |-> RowKey(i)]' = [[i \in Job |-> RowKey(i)] EXCEPT ![j] = k]
    BY <1>3, <2>2 DEF Quiet
  <2>6. Queue!Submit(j, k)
    BY <2>2, <2>3, <2>4, <2>5 DEF Queue!Submit
  <2>7. k \in Keys \cup {NoKey}
    BY DEF TypeOK
  <2> QED
    BY <2>6, <2>7 DEF Queue!Next
<1>5. CASE caller[j].job # j
  BY <1>1, <1>3, <1>5 DEF CommitCaller, Quiet, Phase, RowKey
<1> QED
  BY <1>4, <1>5

\* A row that goes from one status to another, its attempts to n.
LEMMA RowSettles ==
  ASSUME QueueInv, NEW j \in Job, NEW n \in Nat, NEW s \in {"completed", "cancelled"},
         status[j] # "none",
         status' = [status EXCEPT ![j] = s],
         attempts' = [attempts EXCEPT ![j] = n],
         caller' = caller
  PROVE  /\ \A i \in Job : i # j => Quiet(i)
         /\ [i \in Job |-> RowKey(i)]' = [i \in Job |-> RowKey(i)]
         /\ [i \in Job |-> Phase(i)]'
              = [[i \in Job |-> Phase(i)] EXCEPT ![j] = Phase(j)']
<1>1. /\ \A i \in Job : i # j => status'[i] = status[i] /\ attempts'[i] = attempts[i]
      /\ status'[j] = s
  BY DEF QueueInv, TypeOK
<1>2. \A i \in Job : i # j => Quiet(i)
  BY <1>1 DEF Quiet, Phase, RowKey
<1>3. RowKey(j)' = RowKey(j)
  BY <1>1 DEF RowKey
<1> QED
  BY <1>2, <1>3 DEF Quiet

\* The worker's commit is the task's effect.
LEMMA FinishTakesEffect ==
  ASSUME QueueInv, NEW w \in Workers, Finish(w)
  PROVE  Queue!Next
<1>1. PICK j \in Job : j = worker[w] /\ status[j] = "pending" /\ attempts[j] = 0
  BY DEF QueueInv, Finish, TypeOK, LockInv, EffectInv
<1>2. /\ status' = [status EXCEPT ![j] = "completed"]
      /\ attempts' = [attempts EXCEPT ![j] = 1]
      /\ caller' = caller
  BY <1>1 DEF Finish
<1>3. Phase(j) = "queued" /\ Phase(j)' = "effective"
  BY <1>1, <1>2 DEF Phase, QueueInv, TypeOK
<1>4. Queue!TakeEffect(j)
  BY <1>1, <1>2, <1>3, RowSettles DEF Queue!TakeEffect
<1> QED
  BY <1>1, <1>4 DEF Queue!Next

\* cancel's UPDATE withdraws a queued task, or stutters when it took effect.
LEMMA CommitCancelWithdraws ==
  ASSUME QueueInv, NEW c \in Cancellers, CommitCancel(c)
  PROVE  Queue!Next \/ \A i \in Job : Quiet(i)
<1>1. PICK j \in Job : j = cancel[c] /\ status[j] # "none"
  BY DEF QueueInv, CommitCancel, TypeOK, CancelInv
<1>2. /\ status' = [status EXCEPT ![j] = "cancelled"]
      /\ attempts' = [attempts EXCEPT ![j] = attempts[j]]
      /\ attempts[j] \in Nat
      /\ attempts' = attempts /\ caller' = caller
  BY <1>1 DEF CommitCancel, QueueInv, TypeOK
<1>3. /\ \A i \in Job : i # j => Quiet(i)
      /\ [i \in Job |-> RowKey(i)]' = [i \in Job |-> RowKey(i)]
      /\ [i \in Job |-> Phase(i)]'
           = [[i \in Job |-> Phase(i)] EXCEPT ![j] = Phase(j)']
  BY <1>1, <1>2, RowSettles
<1>4. RowKey(j)' = RowKey(j) /\ status'[j] = "cancelled"
  BY <1>1, <1>2 DEF RowKey, QueueInv, TypeOK
<1>5. CASE Phase(j) = "queued"
  <2>1. Phase(j)' = "withdrawn"
    BY <1>1, <1>2, <1>4, <1>5 DEF Phase
  <2>2. Queue!Withdraw(j)
    BY <1>1, <1>3, <1>5, <2>1 DEF Queue!Withdraw
  <2> QED
    BY <1>1, <2>2 DEF Queue!Next
<1>6. CASE Phase(j) # "queued"
  <2>1. Phase(j)' = Phase(j)
    BY <1>1, <1>2, <1>4, <1>6 DEF Phase
  <2> QED
    BY <1>3, <1>4, <2>1 DEF Quiet
<1> QED
  BY <1>5, <1>6

\* Every step of the queue is a step of the abstract queue or a stutter.
LEMMA NextRefines ==
  ASSUME QueueInv, [Next]_vars
  PROVE  Queue!Next \/ \A j \in Job : Quiet(j)
<1>1. ASSUME NEW j \in Job,
             \/ \E k \in Keys \cup {NoKey} : Enqueue(j, k)
             \/ FlushInsert(j) \/ AbortCaller(j)
      PROVE  \A i \in Job : Quiet(i)
  <2>1. caller[j].pc # "committed" /\ UNCHANGED <<status, attempts>>
    BY <1>1 DEF Enqueue, FlushInsert, AbortCaller
  <2>2. \A i \in Job : i # j => caller'[i] = caller[i]
    BY <1>1 DEF Enqueue, FlushInsert, AbortCaller, QueueInv, TypeOK
  <2> QED
    BY <2>1, <2>2, RowsUnchanged
<1>2. ASSUME NEW j \in Job, CommitCaller(j)
      PROVE  Queue!Next \/ \A i \in Job : Quiet(i)
  BY <1>2, CommitCallerSubmits
<1>3. ASSUME NEW w \in Workers, Finish(w) PROVE Queue!Next
  BY <1>3, FinishTakesEffect
<1>4. ASSUME NEW c \in Cancellers, CommitCancel(c)
      PROVE  Queue!Next \/ \A i \in Job : Quiet(i)
  BY <1>4, CommitCancelWithdraws
<1>5. ASSUME UNCHANGED <<status, attempts, caller>>
      PROVE  \A i \in Job : Quiet(i)
  BY <1>5, RowsUnchanged
<1>6. ASSUME \/ \E w \in Workers : \/ \E j \in Job : Claim(w, j)
                                   \/ FailAttempt(w) \/ WorkerDies(w)
             \/ \E c \in Cancellers : \E j \in Job : BeginCancel(c, j)
             \/ Repair \/ UNCHANGED vars
      PROVE  UNCHANGED <<status, attempts, caller>>
  BY <1>6 DEF Claim, FailAttempt, WorkerDies, BeginCancel, Repair, vars
<1> QED
  BY <1>1, <1>2, <1>3, <1>4, <1>5, <1>6
  DEF Next, CallerStep, WorkerStep, Idle

\* The jobs table, with its transactions, row locks and unique index,
\* implements the abstract queue: JobService keeps TaskQueue's promises.
THEOREM Refinement == Spec => ImplementsTaskQueue
<1>1. Init => Queue!Init
  BY DEF Init, Queue!Init, Phase, RowKey
<1>2. QueueInv /\ [Next]_vars =>
        [Queue!Next]_<<[j \in Job |-> Phase(j)], [j \in Job |-> RowKey(j)]>>
  BY NextRefines, AllQuiet
<1> QED
  BY <1>1, <1>2, QueueInvariant, PTL DEF Spec, ImplementsTaskQueue, Queue!Spec
=============================================================================
