-------------------------- MODULE PublishingProofs --------------------------
(***************************************************************************)
(* Publishing for any number of uploads, requests, workers and crashes:    *)
(* it uses the job queue as JobQueue specifies it, so that what is proved  *)
(* of the queue holds of the transcode jobs; a takedown holds and a        *)
(* publication stays unless an overlapping actor wrote the track.          *)
(***************************************************************************)
EXTENDS Publishing, TLAPS

\* JobQueueProofs, of the queue as this part uses it.
QueueFacts == INSTANCE JobQueueProofs WITH
  MaxJobs <- MaxTracks,
  Keys <- Track,
  NoKey <- 0,
  Cancellers <- {},
  SessionFactoryBound <- TRUE

\* The constants of that queue are what its proofs assume.
LEMMA QueueAssumption == QueueFacts!JobQueueAssumption
BY PublishingAssumption DEF QueueFacts!JobQueueAssumption, Track

\* The proofs are about this queue.
LEMMA SameQueue ==
  /\ Queue!Init <=> QueueFacts!Init
  /\ [Queue!Next]_(Queue!vars) <=> [QueueFacts!Next]_(QueueFacts!vars)
BY DEF Queue!Init, QueueFacts!Init, Queue!Enqueue, QueueFacts!Enqueue,
      Queue!FlushInsert, QueueFacts!FlushInsert, Queue!CommitCaller,
      QueueFacts!CommitCaller, Queue!AbortCaller, QueueFacts!AbortCaller,
      Queue!Claim, QueueFacts!Claim, Queue!Finish, QueueFacts!Finish,
      Queue!FailAttempt, QueueFacts!FailAttempt, Queue!WorkerDies,
      QueueFacts!WorkerDies, Queue!Repair, QueueFacts!Repair,
      Queue!BeginCancel, QueueFacts!BeginCancel, Queue!CommitCancel,
      QueueFacts!CommitCancel, Queue!CallerStep, QueueFacts!CallerStep,
      Queue!WorkerStep, QueueFacts!WorkerStep, Queue!Idle, QueueFacts!Idle,
      Queue!Next, QueueFacts!Next, Queue!vars, QueueFacts!vars,
      Queue!Caller, QueueFacts!Caller, Queue!RowsWith, QueueFacts!RowsWith,
      Queue!InsertedWith, QueueFacts!InsertedWith, Queue!Locked,
      QueueFacts!Locked, Queue!Claimable, QueueFacts!Claimable, Queue!Job,
      QueueFacts!Job, Queue!NoJob, QueueFacts!NoJob

\* Every step is a step of the queue or leaves the queue alone.
LEMMA NextUsesQueue == [Next]_vars => [Queue!Next]_(Queue!vars)
<1> SUFFICES ASSUME [Next]_vars PROVE [Queue!Next]_(Queue!vars)
  OBVIOUS
<1> USE DEF Queue!Next, Queue!Job, Track
<1>1. ASSUME NEW t \in Track, Upload(t) \/ InsertJob(t) \/ CommitUpload(t) \/ AbortUpload(t)
      PROVE  Queue!Next
  BY <1>1 DEF Upload, InsertJob, CommitUpload, AbortUpload, Queue!CallerStep
<1>2. ASSUME NEW w \in Workers, WorkerStep(w) \/ WorkerDies(w)
      PROVE  Queue!Next
  BY <1>2 DEF WorkerStep, WorkerDies, ClaimTranscode, FinishTranscode, FailTranscode,
              Queue!WorkerStep
<1>3. CASE Repair
  BY <1>3 DEF Repair
<1>4. ASSUME NEW r \in Requests,
             \/ \E t \in Track : BeginPublish(r, t) \/ BeginTakedown(r, t)
             \/ CommitRequest(r) \/ AbortRequest(r)
      PROVE  UNCHANGED Queue!vars
  BY <1>4 DEF BeginPublish, BeginTakedown, Begins, CommitRequest, AbortRequest,
              queueVars, Queue!vars
<1>5. CASE UNCHANGED vars
  BY <1>5 DEF vars, queueVars, Queue!vars
<1> QED
  BY <1>1, <1>2, <1>3, <1>4, <1>5 DEF Next, Idle

\* The uploads, the worker and its crashes are a behaviour of the job queue
\* (upload_track, runner.py): nothing that a request does to a track in between
\* disturbs the jobs.
THEOREM UsesQueue == Spec => Queue!Spec
<1>1. Init => Queue!Init
  BY DEF Init
<1>2. [Next]_vars => [Queue!Next]_(Queue!vars)
  BY NextUsesQueue
<1> QED
  BY <1>1, <1>2, PTL DEF Spec, Queue!Spec

\* So the invariant of the job queue's proofs holds here.
LEMMA QueueInvariant == Spec => []QueueFacts!QueueInv
<1>1. Init => QueueFacts!Init
  BY SameQueue DEF Init
<1>2. [Next]_vars => [QueueFacts!Next]_(QueueFacts!vars)
  BY NextUsesQueue, SameQueue
<1>3. QueueFacts!Spec => []QueueFacts!QueueInv
  <2>1. QueueFacts!JobQueueAssumption
    BY QueueAssumption
  <2> QED
    BY <2>1, QueueFacts!QueueInvariant, PTL
<1> QED
  BY <1>1, <1>2, <1>3, PTL DEF Spec, QueueFacts!Spec

\* What is used of it.
LEMMA QueueKnows ==
  ASSUME QueueFacts!QueueInv
  PROVE  /\ Queue!TypeOK
         /\ status \in [Track -> {"none", "pending", "completed", "cancelled"}]
         /\ \A t \in Track : status[t] # "none" => caller[t].pc = "committed"
         /\ \A w \in Workers : worker[w] # 0 =>
              worker[w] \in Track /\ status[worker[w]] = "pending"
         /\ \A t \in Track : caller[t].pc = "returning" =>
              \/ caller[t].job = t /\ caller[t].work
              \/ /\ caller[t].job \in Track /\ status[caller[t].job] # "none"
                 /\ caller[caller[t].job].key = caller[t].key
<1> USE DEF QueueFacts!QueueInv, QueueFacts!Job, QueueFacts!NoJob, Track
<1>1. Queue!TypeOK
  BY DEF QueueFacts!TypeOK, QueueFacts!JobStatus, QueueFacts!CallerPc, Queue!TypeOK,
         Queue!JobStatus, Queue!CallerPc, Queue!Job, Queue!NoJob
<1>2. /\ status \in [Track -> {"none", "pending", "completed", "cancelled"}]
      /\ \A w \in Workers : worker[w] \in Track \cup {0}
  BY DEF QueueFacts!TypeOK, QueueFacts!JobStatus
<1>3. \A t \in Track : status[t] # "none" => caller[t].pc = "committed"
  BY DEF QueueFacts!RowInv
<1>4. \A w \in Workers : worker[w] # 0 =>
        worker[w] \in Track /\ status[worker[w]] = "pending"
  BY <1>2 DEF QueueFacts!LockInv
<1>5. \A t \in Track : caller[t].pc = "returning" =>
        \/ caller[t].job = t /\ caller[t].work
        \/ /\ caller[t].job \in Track /\ status[caller[t].job] # "none"
           /\ caller[caller[t].job].key = caller[t].key
  BY DEF QueueFacts!AnswerInv
<1> QED
  BY <1>1, <1>2, <1>3, <1>4, <1>5

-----------------------------------------------------------------------------
(* The invariant.                                                          *)

\* A request has read a track that is there; it counts as committed only once
\* it ended, and a publication has read a status it may leave.
RequestInv == \A r \in Requests :
  /\ req[r].pc # "idle" =>
       /\ req[r].track \in Track /\ track[req[r].track] # "none"
       /\ req[r].op \in {"publish", "takedown"}
       /\ req[r].op = "publish" => seen[Request(r)] \in {"processing", "draft"}
  /\ Request(r) \in done => req[r].pc = "ended"

\* Uploads use the track's id as the key and store the master first.
UploadInv == \A t \in Track :
  caller[t].pc # "idle" => caller[t].key = t /\ t \in master

\* The job, the track and the derivatives of an upload go together.
BackedInv == \A t \in Track :
  /\ track[t] # "none" <=> status[t] # "none"
  /\ Transcode(t) \in done <=> status[t] = "completed"
  /\ derivatives[t] = IF Transcode(t) \in done THEN 1 ELSE 0
  /\ track[t] = "draft" => Transcode(t) \in done

\* What an actor has read was committed by others.
BeforeInv == \A a \in Actor : before[a] \subseteq done

\* The actors that have read track t.
Readers(t) ==
  {Transcode(t)} \cup
  {Request(r) : r \in {p \in Requests : req[p].pc # "idle" /\ req[p].track = t}}

Raced(q, t) == \E x \in Undoers(t) : Overlap(x, Request(q))

\* Whoever read something else after a takedown read what a race had left.
SeenInv == \A t \in Track : \A q \in Committed("takedown", t), a \in Readers(t) :
  Request(q) \in before[a] /\ seen[a] # "takedown" => Raced(q, t)

\* A takedown that a request has read was undone since by somebody it overlaps.
LostInv == \A t \in Track, r \in Requests :
  /\ req[r].pc = "checked" /\ req[r].track = t
  /\ seen[Request(r)] = "takedown" /\ track[t] # "takedown"
  => \E x \in Undoers(t) : x \notin before[Request(r)]

\* A track is PROCESSING until the first commit that changes it.
ProcessingInv == \A t \in Track : track[t] = "processing" =>
  \A r \in Requests : req[r].pc # "idle" /\ req[r].track = t =>
    Request(r) \notin done /\ seen[Request(r)] = "processing"

\* A transcode that has read PROCESSING read it before every such commit.
TranscodeInv == \A t \in Track : seen[Transcode(t)] = "processing" =>
  \A r \in Requests : req[r].pc # "idle" /\ req[r].track = t =>
    Request(r) \notin before[Transcode(t)]

PublishingInv ==
  /\ TypeOK /\ RequestInv /\ UploadInv /\ BackedInv /\ BeforeInv
  /\ SeenInv /\ LostInv /\ ProcessingInv /\ TranscodeInv
  /\ TakedownHoldsUnlessRaced /\ DraftAfterRequestOnlyByTranscode

\* Actors differ when their kinds or their names do.
LEMMA ActorsDiffer ==
  /\ \A t \in Track : Transcode(t) \in Actor
  /\ \A r \in Requests : Request(r) \in Actor
  /\ \A t \in Track, r \in Requests : Transcode(t) # Request(r)
  /\ \A t, u \in Track : Transcode(t) = Transcode(u) => t = u
  /\ \A r, q \in Requests : Request(r) = Request(q) => r = q
BY DEF Actor, Transcode, Request

\* Who is among the undoers and the readers of a track.
LEMMA UndoersAre ==
  ASSUME NEW t, NEW x
  PROVE  x \in Undoers(t) <=>
           \/ \E p \in Requests : /\ x = Request(p) /\ x \in done
                                  /\ req[p].op = "publish" /\ req[p].track = t
           \/ x = Transcode(t) /\ x \in done
BY DEF Undoers, Committed

LEMMA ReadersAre ==
  ASSUME NEW t, NEW x
  PROVE  x \in Readers(t) <=>
           \/ \E r \in Requests : x = Request(r) /\ req[r].pc # "idle" /\ req[r].track = t
           \/ x = Transcode(t)
BY DEF Readers

\* The initial states.
LEMMA InitPublishingInv == Init => PublishingInv
<1> SUFFICES ASSUME Init PROVE PublishingInv
  OBVIOUS
<1> USE DEF Init
<1>1. TypeOK
  <2>1. QueueFacts!QueueInv
    BY SameQueue, QueueAssumption, QueueFacts!InitQueueInv
  <2>2. track \in [Track -> TrackStatus] /\ seen \in [Actor -> TrackStatus]
    BY DEF TrackStatus
  <2> QED
    BY <2>1, <2>2, QueueKnows DEF TypeOK
<1>2. /\ \A t \in Track : status[t] = "none" /\ caller[t].pc = "idle"
      /\ \A t \in Track : track[t] = "none" /\ derivatives[t] = 0
      /\ \A r \in Requests : req[r].pc = "idle"
      /\ \A a \in Actor : before[a] = {} /\ seen[a] = "none"
      /\ done = {}
  BY DEF Queue!Init, Queue!Caller, Queue!Job, Track
<1>3. RequestInv /\ UploadInv /\ BackedInv /\ BeforeInv
  BY <1>2 DEF RequestInv, UploadInv, BackedInv, BeforeInv
<1>4. SeenInv /\ LostInv /\ ProcessingInv /\ TranscodeInv
  BY <1>2, ActorsDiffer DEF SeenInv, LostInv, ProcessingInv, TranscodeInv, Committed
<1>5. TakedownHoldsUnlessRaced /\ DraftAfterRequestOnlyByTranscode
  BY <1>2 DEF TakedownHoldsUnlessRaced, DraftAfterRequestOnlyByTranscode, Committed
<1> QED
  BY <1>1, <1>3, <1>4, <1>5 DEF PublishingInv

-----------------------------------------------------------------------------
(* The steps of the queue that no track sees.                              *)

\* The requests and the statuses they read stay as they are.
LEMMA RaceStays ==
  ASSUME PublishingInv, UNCHANGED <<track, req, seen, before, done>>
  PROVE  /\ BeforeInv' /\ SeenInv' /\ LostInv' /\ ProcessingInv' /\ TranscodeInv'
         /\ TakedownHoldsUnlessRaced' /\ DraftAfterRequestOnlyByTranscode'
         /\ RequestInv'
BY DEF PublishingInv, RequestInv, BeforeInv, SeenInv, LostInv, ProcessingInv, TranscodeInv,
       TakedownHoldsUnlessRaced, DraftAfterRequestOnlyByTranscode,
       Committed, Undoers, Overlap, Readers, Raced

\* Uploads before their commit, failed attempts, crashes and repairs.
LEMMA QuietInv ==
  ASSUME PublishingInv, Queue!TypeOK', UNCHANGED <<track, req, seen, before, done>>,
         UNCHANGED <<status, derivatives>>, master \subseteq master', master' \subseteq Track,
         \A t \in Track : caller'[t].pc # "idle" => caller'[t].key = t /\ t \in master'
  PROVE  PublishingInv'
<1>1. TypeOK'
  BY DEF PublishingInv, TypeOK
<1>2. UploadInv'
  BY DEF UploadInv
<1>3. BackedInv'
  BY DEF PublishingInv, BackedInv
<1> QED
  BY <1>1, <1>2, <1>3, RaceStays DEF PublishingInv

\* The upload's steps before its commit.
LEMMA UploadStepInv ==
  ASSUME PublishingInv, Queue!TypeOK', NEW t \in Track,
         Upload(t) \/ InsertJob(t) \/ AbortUpload(t)
  PROVE  PublishingInv'
<1>1. /\ caller \in [Track -> [pc : Queue!CallerPc, key : Track \cup {0},
                               job : Track \cup {0}, work : BOOLEAN]]
      /\ UploadInv /\ master \subseteq Track
  BY DEF PublishingInv, TypeOK, Queue!TypeOK, Queue!Job, Queue!NoJob, Track
<1>2. \E next : /\ caller' = [caller EXCEPT ![t] = next]
                /\ next.key = t /\ t \in master'
  <2>1. CASE Upload(t)
    <3>1. PICK pc, i : caller' = [caller EXCEPT ![t] = Queue!Caller(pc, t, i, TRUE)]
      BY <2>1 DEF Upload, Queue!Enqueue
    <3>2. Queue!Caller(pc, t, i, TRUE).key = t /\ t \in master'
      BY <2>1 DEF Upload, Queue!Caller
    <3> QED
      BY <3>1, <3>2
  <2>2. CASE InsertJob(t) \/ AbortUpload(t)
    <3>1. caller[t].key = t /\ t \in master /\ master' = master
      BY <1>1, <2>2 DEF UploadInv, InsertJob, AbortUpload, Queue!FlushInsert,
                        Queue!AbortCaller
    <3>2. CASE InsertJob(t)
      BY <3>1, <3>2 DEF InsertJob, Queue!FlushInsert, Queue!Caller
    <3>3. CASE AbortUpload(t)
      <4>1. caller' = [caller EXCEPT ![t] = Queue!Caller("aborted", caller[t].key, 0, FALSE)]
        BY <1>1, <3>3 DEF AbortUpload, Queue!AbortCaller, Queue!NoJob
      <4>2. Queue!Caller("aborted", caller[t].key, 0, FALSE).key = t
        BY <3>1 DEF Queue!Caller
      <4> QED
        BY <3>1, <4>1, <4>2
    <3> QED
      BY <2>2, <3>2, <3>3
  <2> QED
    BY <2>1, <2>2
<1>3. master \subseteq master' /\ master' \subseteq Track
  BY <1>1 DEF Upload, InsertJob, AbortUpload
<1>4. \A u \in Track : caller'[u].pc # "idle" => caller'[u].key = u /\ u \in master'
  BY <1>1, <1>2, <1>3 DEF UploadInv
<1>5. UNCHANGED <<status, track, req, seen, before, done, derivatives>>
  BY DEF Upload, InsertJob, AbortUpload, Queue!Enqueue, Queue!FlushInsert,
         Queue!AbortCaller, raceVars
<1> QED
  BY <1>3, <1>4, <1>5, QuietInv

\* The worker's steps that commit nothing.
LEMMA WorkerStepInv ==
  ASSUME PublishingInv, Queue!TypeOK',
         Repair \/ \E w \in Workers : FailTranscode(w) \/ WorkerDies(w)
  PROVE  PublishingInv'
<1>1. UNCHANGED <<status, caller, master, track, req, seen, before, done, derivatives>>
  BY DEF Repair, FailTranscode, WorkerDies, Queue!Repair, Queue!FailAttempt,
         Queue!WorkerDies, raceVars
<1> QED
  BY <1>1, QuietInv DEF PublishingInv, UploadInv, TypeOK

-----------------------------------------------------------------------------
(* What a step keeps of the actors that have committed: what they read and *)
(* did stays as it was, and so do the witnesses of a race.                 *)

Persist ==
  /\ done \subseteq done'
  /\ \A r \in Requests : Request(r) \in done =>
       req'[r].op = req[r].op /\ req'[r].track = req[r].track
  /\ \A a \in done : before'[a] = before[a]

\* Who has committed a request or can undo one stays so.
LEMMA CommittedStay ==
  ASSUME Persist, NEW t \in Track
  PROVE  /\ \A op \in {"publish", "takedown"} : Committed(op, t) \subseteq Committed(op, t)'
         /\ \A x \in Undoers(t) : x \in Undoers(t)' /\ x \in done /\ x \in done'
<1>1. \A op \in {"publish", "takedown"} : Committed(op, t) \subseteq Committed(op, t)'
  BY DEF Committed, Persist
<1>2. ASSUME NEW x \in Undoers(t) PROVE x \in Undoers(t)' /\ x \in done /\ x \in done'
  BY <1>1, <1>2 DEF Undoers, Committed, Persist
<1> QED
  BY <1>1, <1>2

\* So a race stays one.
LEMMA RacedStays ==
  ASSUME Persist, NEW t \in Track, NEW q \in Requests, Request(q) \in done, Raced(q, t)
  PROVE  Raced(q, t)'
<1>1. PICK x \in Undoers(t) : Overlap(x, Request(q))
  BY DEF Raced
<1>2. x \in Undoers(t)' /\ x \in done
  BY CommittedStay
<1>3. Overlap(x, Request(q))'
  BY <1>1, <1>2 DEF Overlap, Persist
<1> QED
  BY <1>2, <1>3 DEF Raced

\* An actor that commits now overlaps every committed one that it had not seen.
LEMMA CommitsNow ==
  ASSUME BeforeInv, Persist, NEW a \in Actor, a \notin done, before'[a] = before[a],
         NEW b \in Actor, b \in done, b \notin before[a]
  PROVE  Overlap(a, b)'
BY DEF Overlap, BeforeInv, Persist

\* Nothing but the listed requests commits.
LEMMA SameCommitted ==
  ASSUME NEW op, NEW t, NEW r \in Requests, TypeOK,
         \A p \in Requests : Request(p) \in done' => Request(p) \in done \/ p = r,
         \A p \in Requests : p # r => req'[p] = req[p],
         NEW p \in Committed(op, t)', p # r
  PROVE  p \in Committed(op, t)
BY DEF Committed

-----------------------------------------------------------------------------
(* The commit of an upload.                                                *)

LEMMA CommitUploadInv ==
  ASSUME PublishingInv, QueueFacts!QueueInv, Queue!TypeOK',
         NEW t \in Track, CommitUpload(t)
  PROVE  PublishingInv'
<1> USE DEF PublishingInv
<1>1. /\ caller[t].pc = "returning" /\ caller[t].key = t /\ t \in master
      /\ status[t] = "none"
  BY QueueKnows DEF CommitUpload, Queue!CommitCaller, UploadInv
<1>2. caller[t].job = t /\ caller[t].work
  <2>1. \A u \in Track : status[u] # "none" => caller[u].key = u
    BY QueueKnows DEF UploadInv
  <2> QED
    BY <1>1, <2>1, QueueKnows
<1>3. /\ status' = [status EXCEPT ![t] = "pending"]
      /\ track' = [track EXCEPT ![t] = "processing"]
      /\ caller' = [caller EXCEPT ![t].pc = "committed"]
      /\ UNCHANGED <<master, derivatives, req, seen, before, done>>
  BY <1>2 DEF CommitUpload, Queue!CommitCaller, raceVars
<1>4. track[t] = "none" /\ Transcode(t) \notin done
  BY <1>1 DEF BackedInv
<1>5. \A r \in Requests : req[r].pc # "idle" => req[r].track \in Track /\ req[r].track # t
  BY <1>4 DEF RequestInv
<1>6. \A r \in Requests : Request(r) \in done => req[r].track # t
  BY <1>5 DEF RequestInv
<1>7. /\ track'[t] = "processing" /\ status'[t] = "pending"
      /\ \A u \in Track : u # t => track'[u] = track[u] /\ status'[u] = status[u]
  BY <1>3, QueueKnows DEF TypeOK
<1>8. TypeOK'
  BY <1>3 DEF TypeOK, TrackStatus
<1>9. RequestInv' /\ BeforeInv'
  BY <1>3, <1>7 DEF RequestInv, BeforeInv
<1>10. UploadInv'
  <2>1. caller \in [Track -> [pc : Queue!CallerPc, key : Track \cup {0},
                              job : Track \cup {0}, work : BOOLEAN]]
    BY QueueKnows DEF Queue!TypeOK, Queue!Job, Queue!NoJob, Track
  <2>2. \A u \in Track : u # t => caller'[u] = caller[u]
    BY <1>3, <2>1
  <2>3. caller'[t].key = t
    BY <1>1, <1>3, <2>1
  <2> QED
    BY <1>1, <1>3, <2>2, <2>3 DEF UploadInv
<1>11. BackedInv'
  BY <1>1, <1>3, <1>4, <1>7 DEF BackedInv
<1>12. SeenInv' /\ TranscodeInv'
  BY <1>3 DEF SeenInv, TranscodeInv, Committed, Readers, Raced, Undoers, Overlap
<1>13. LostInv'
  BY <1>3, <1>5, <1>7 DEF LostInv, Undoers, Committed
<1>14. ProcessingInv'
  BY <1>3, <1>5, <1>7 DEF ProcessingInv
<1>15. ASSUME NEW u \in Track, u # t
       PROVE  TakedownHoldsUnlessRaced!(u)' /\ DraftAfterRequestOnlyByTranscode!(u)'
  <2>1. TakedownHoldsUnlessRaced!(u)'
    BY <1>3, <1>7, <1>15 DEF TakedownHoldsUnlessRaced, Undoers, Committed, Overlap
  <2>2. DraftAfterRequestOnlyByTranscode!(u)'
    BY <1>3, <1>7, <1>15 DEF DraftAfterRequestOnlyByTranscode, Committed, Overlap
  <2> QED
    BY <2>1, <2>2
<1>16. Committed("takedown", t)' = {} /\ track'[t] # "draft"
  BY <1>3, <1>6, <1>7 DEF Committed
<1>17. TakedownHoldsUnlessRaced' /\ DraftAfterRequestOnlyByTranscode'
  BY <1>15, <1>16 DEF TakedownHoldsUnlessRaced, DraftAfterRequestOnlyByTranscode
<1> QED
  BY <1>8, <1>9, <1>10, <1>11, <1>12, <1>13, <1>14, <1>17

-----------------------------------------------------------------------------
(* The actors' reads.                                                      *)

\* What was committed was not raced by an actor that has yet to commit, so a
\* read changes nothing of it.
LEMMA ReadsKeepRaces ==
  ASSUME PublishingInv, Persist, UNCHANGED <<track, done>>,
         \A p \in Requests : req[p] # req'[p] => Request(p) \notin done
  PROVE  /\ TakedownHoldsUnlessRaced'
         /\ \A t \in Track, q \in Requests : Raced(q, t) /\ Request(q) \in done => Raced(q, t)'
         /\ \A op, t : Committed(op, t)' = Committed(op, t)
<1>1. \A op, t : Committed(op, t)' = Committed(op, t)
  BY DEF Committed
<1>2. \A t \in Track, q \in Requests : Raced(q, t) /\ Request(q) \in done => Raced(q, t)'
  BY RacedStays
<1>3. TakedownHoldsUnlessRaced'
  <2>1. ASSUME NEW t \in Track, NEW q \in Committed("takedown", t), track[t] # "takedown"
        PROVE  Raced(q, t)'
    BY <1>2, <2>1 DEF PublishingInv, TakedownHoldsUnlessRaced, Raced, Committed
  <2> QED
    BY <1>1, <2>1 DEF TakedownHoldsUnlessRaced, Raced
<1> QED
  BY <1>1, <1>2, <1>3

\* A worker claims the transcode of t and reads the track.
LEMMA ClaimInv ==
  ASSUME PublishingInv, QueueFacts!QueueInv, Queue!TypeOK',
         NEW w \in Workers, NEW t \in Track, ClaimTranscode(w, t)
  PROVE  PublishingInv'
<1> USE DEF PublishingInv
<1> DEFINE a == Transcode(t)
<1>1. /\ seen' = [seen EXCEPT ![a] = track[t]]
      /\ before' = [before EXCEPT ![a] = done]
      /\ UNCHANGED <<status, caller, track, master, derivatives, req, done>>
      /\ status[t] = "pending"
  BY DEF ClaimTranscode, Reads, Queue!Claim, Queue!Claimable
<1>2. a \in Actor /\ a \notin done
  BY <1>1, ActorsDiffer DEF BackedInv
<1>3. /\ seen'[a] = track[t] /\ before'[a] = done
      /\ \A b \in Actor : b # a => seen'[b] = seen[b] /\ before'[b] = before[b]
  BY <1>1, <1>2 DEF TypeOK
<1>4. Persist
  BY <1>1, <1>2, <1>3 DEF Persist, TypeOK
<1>5. /\ TakedownHoldsUnlessRaced'
      /\ \A u \in Track, q \in Requests : Raced(q, u) /\ Request(q) \in done => Raced(q, u)'
      /\ \A op, u : Committed(op, u)' = Committed(op, u)
  BY <1>1, <1>4, ReadsKeepRaces
<1>6. TypeOK'
  BY <1>1, <1>2 DEF TypeOK
<1>7. UploadInv' /\ BackedInv'
  BY <1>1 DEF UploadInv, BackedInv
<1>8. \A r \in Requests : seen'[Request(r)] = seen[Request(r)]
                          /\ before'[Request(r)] = before[Request(r)]
  BY <1>3, ActorsDiffer
<1>9. RequestInv' /\ BeforeInv' /\ ProcessingInv'
  BY <1>1, <1>2, <1>3, <1>8 DEF RequestInv, BeforeInv, ProcessingInv
<1>10. SeenInv'
  <2>1. ASSUME NEW u \in Track, NEW q \in Committed("takedown", u), NEW b \in Readers(u),
               Request(q) \in before'[b], seen'[b] # "takedown"
        PROVE  Raced(q, u)
    <3>1. b \in Actor /\ q \in Requests
      BY ActorsDiffer DEF Readers, Committed
    <3>2. CASE b # a
      BY <1>3, <2>1, <3>1, <3>2 DEF SeenInv
    <3>3. CASE b = a
      <4>1. u = t
        BY <3>3, ActorsDiffer, ReadersAre
      <4> QED
        BY <1>3, <2>1, <3>3, <4>1 DEF TakedownHoldsUnlessRaced, Raced
    <3> QED
      BY <3>2, <3>3
  <2>2. ASSUME NEW u \in Track, NEW q \in Committed("takedown", u)
        PROVE  q \in Requests /\ Request(q) \in done
    BY DEF Committed
  <2>3. \A u \in Track : Readers(u)' = Readers(u)
    BY <1>1 DEF Readers
  <2> QED
    BY <1>5, <2>1, <2>2, <2>3 DEF SeenInv
<1>11. LostInv'
  <2>1. \A u \in Track : \A x \in Undoers(u) : x \in Undoers(u)'
    BY <1>4, CommittedStay
  <2> QED
    BY <1>1, <1>8, <2>1 DEF LostInv
<1>12. TranscodeInv'
  <2>1. ASSUME NEW u \in Track, u # t
        PROVE  seen'[Transcode(u)] = seen[Transcode(u)]
               /\ before'[Transcode(u)] = before[Transcode(u)]
    BY <1>3, <2>1, ActorsDiffer
  <2>2. TranscodeInv!(t)'
    BY <1>1, <1>3 DEF ProcessingInv
  <2> QED
    BY <1>1, <2>1, <2>2 DEF TranscodeInv
<1>13. DraftAfterRequestOnlyByTranscode'
  <2>1. ASSUME NEW u \in Track, track[u] = "draft" PROVE Transcode(u) \in done
    BY <2>1 DEF BackedInv
  <2>2. ASSUME NEW u \in Track, NEW r \in Requests, Transcode(u) \in done, Request(r) \in done,
               Overlap(Transcode(u), Request(r))
        PROVE  Overlap(Transcode(u), Request(r))'
    BY <1>4, <2>2 DEF Persist, Overlap
  <2> QED
    BY <1>1, <1>5, <2>1, <2>2 DEF DraftAfterRequestOnlyByTranscode, Committed
<1> QED
  BY <1>5, <1>6, <1>7, <1>9, <1>10, <1>11, <1>12, <1>13

\* A request checks its track.
LEMMA BeginsInv ==
  ASSUME PublishingInv, QueueFacts!QueueInv, Queue!TypeOK',
         NEW r \in Requests, NEW t \in Track, NEW op \in {"publish", "takedown"},
         Begins(r, op, t), op = "publish" => track[t] \in {"processing", "draft"}
  PROVE  PublishingInv'
<1> USE DEF PublishingInv
<1> DEFINE a == Request(r)
           next == [pc |-> "checked", op |-> op, track |-> t]
<1>1. /\ seen' = [seen EXCEPT ![a] = track[t]]
      /\ before' = [before EXCEPT ![a] = done]
      /\ req' = [req EXCEPT ![r] = next]
      /\ UNCHANGED <<status, caller, track, master, derivatives, done>>
      /\ req[r].pc = "idle" /\ track[t] # "none"
  BY DEF Begins, Reads, queueVars
<1>2. a \in Actor /\ a \notin done
  BY <1>1, ActorsDiffer DEF RequestInv
<1>3. /\ seen'[a] = track[t] /\ before'[a] = done
      /\ \A b \in Actor : b # a => seen'[b] = seen[b] /\ before'[b] = before[b]
  BY <1>1, <1>2 DEF TypeOK
<1>4. /\ req'[r].pc = "checked" /\ req'[r].op = op /\ req'[r].track = t
      /\ \A p \in Requests : p # r => req'[p] = req[p]
  BY <1>1 DEF TypeOK
<1>5. Persist
  BY <1>1, <1>2, <1>3, <1>4 DEF Persist, TypeOK
<1>6. /\ TakedownHoldsUnlessRaced'
      /\ \A u \in Track, q \in Requests : Raced(q, u) /\ Request(q) \in done => Raced(q, u)'
      /\ \A o, u : Committed(o, u)' = Committed(o, u)
  BY <1>1, <1>2, <1>4, <1>5, ReadsKeepRaces
<1>7. TypeOK'
  BY <1>1, <1>2 DEF TypeOK
<1>8. UploadInv' /\ BackedInv'
  BY <1>1 DEF UploadInv, BackedInv
<1>9. /\ \A p \in Requests : p # r => seen'[Request(p)] = seen[Request(p)]
                                       /\ before'[Request(p)] = before[Request(p)]
      /\ \A u \in Track : seen'[Transcode(u)] = seen[Transcode(u)]
                          /\ before'[Transcode(u)] = before[Transcode(u)]
  BY <1>3, ActorsDiffer
<1>10. RequestInv'
  <2>1. ASSUME NEW p \in Requests, p # r PROVE RequestInv!(p)'
    BY <1>1, <1>4, <1>9, <2>1 DEF RequestInv
  <2>2. RequestInv!(r)'
    BY <1>1, <1>2, <1>3, <1>4 DEF RequestInv
  <2> QED
    BY <2>1, <2>2 DEF RequestInv
<1>11. BeforeInv'
  BY <1>1, <1>3 DEF BeforeInv
<1>12. ProcessingInv'
  BY <1>1, <1>2, <1>3, <1>4, <1>9 DEF ProcessingInv
<1>13. SeenInv'
  <2>1. ASSUME NEW u \in Track, NEW q \in Committed("takedown", u), NEW b \in Readers(u)',
               Request(q) \in before'[b], seen'[b] # "takedown"
        PROVE  Raced(q, u)
    <3>1. q \in Requests /\ b \in Actor
      BY ActorsDiffer DEF Readers, Committed
    <3>2. CASE b # a
      <4>1. b \in Readers(u)
        BY <1>4, <2>1, <3>2 DEF Readers
      <4> QED
        BY <1>3, <2>1, <3>1, <3>2, <4>1 DEF SeenInv
    <3>3. CASE b = a
      <4>1. u = t
        BY <1>4, <3>3, ActorsDiffer DEF Readers
      <4> QED
        BY <1>3, <2>1, <3>3, <4>1 DEF TakedownHoldsUnlessRaced, Raced
    <3> QED
      BY <3>2, <3>3
  <2>2. ASSUME NEW u \in Track, NEW q \in Committed("takedown", u)
        PROVE  q \in Requests /\ Request(q) \in done
    BY DEF Committed
  <2> QED
    BY <1>6, <2>1, <2>2 DEF SeenInv
<1>14. LostInv'
  <2>1. \A u \in Track : \A x \in Undoers(u) : x \in Undoers(u)'
    BY <1>5, CommittedStay
  <2>2. ASSUME NEW u \in Track, NEW p \in Requests, p # r PROVE LostInv!(u, p)'
    BY <1>1, <1>4, <1>9, <2>1, <2>2 DEF LostInv
  <2>3. ASSUME NEW u \in Track PROVE LostInv!(u, r)'
    BY <1>1, <1>3, <1>4
  <2> QED
    BY <2>2, <2>3 DEF LostInv
<1>15. TranscodeInv'
  <2>1. \A u \in Track : a \notin before[Transcode(u)]
    BY <1>2, ActorsDiffer DEF BeforeInv
  <2> QED
    BY <1>4, <1>9, <2>1 DEF TranscodeInv
<1>16. DraftAfterRequestOnlyByTranscode'
  <2>1. ASSUME NEW u \in Track, track[u] = "draft" PROVE Transcode(u) \in done
    BY <2>1 DEF BackedInv
  <2>2. ASSUME NEW u \in Track, NEW p \in Requests, Transcode(u) \in done, Request(p) \in done,
               Overlap(Transcode(u), Request(p))
        PROVE  Overlap(Transcode(u), Request(p))'
    BY <1>5, <2>2 DEF Persist, Overlap
  <2> QED
    BY <1>1, <1>6, <2>1, <2>2 DEF DraftAfterRequestOnlyByTranscode, Committed
<1> QED
  BY <1>6, <1>7, <1>8, <1>10, <1>11, <1>12, <1>13, <1>14, <1>15, <1>16

-----------------------------------------------------------------------------
(* The actors' commits.                                                    *)

\* The transcode of t commits, and takes the track out of PROCESSING if that
\* is what it read.
LEMMA FinishInv ==
  ASSUME PublishingInv, QueueFacts!QueueInv, Queue!TypeOK',
         NEW w \in Workers, FinishTranscode(w)
  PROVE  PublishingInv'
<1> USE DEF PublishingInv
<1>0. PICK t \in Track : worker[w] = t /\ status[t] = "pending"
  BY QueueKnows DEF FinishTranscode, Queue!Finish, Queue!NoJob
<1> DEFINE a == Transcode(t)
<1>1. /\ status' = [status EXCEPT ![t] = "completed"]
      /\ derivatives' = [derivatives EXCEPT ![t] = @ + 1]
      /\ track' = [track EXCEPT ![t] = IF seen[a] = "processing" THEN "draft" ELSE @]
      /\ done' = done \cup {a}
      /\ UNCHANGED <<caller, master, req, seen, before>>
  BY <1>0 DEF FinishTranscode, Queue!Finish
<1>2. a \in Actor /\ a \notin done /\ derivatives[t] = 0
  BY <1>0, ActorsDiffer DEF BackedInv
<1>3. /\ status'[t] = "completed" /\ derivatives'[t] = 1
      /\ \A u \in Track : u # t => /\ status'[u] = status[u] /\ track'[u] = track[u]
                                   /\ derivatives'[u] = derivatives[u]
  BY <1>1, <1>2, QueueKnows DEF TypeOK
<1>4. track'[t] = IF seen[a] = "processing" THEN "draft" ELSE track[t]
  BY <1>1 DEF TypeOK
<1>5. Persist
  BY <1>1 DEF Persist
<1>6. /\ \A r \in Requests : Request(r) \in done' <=> Request(r) \in done
      /\ \A op, u : Committed(op, u)' = Committed(op, u)
  BY <1>1, ActorsDiffer DEF Committed
<1>7. TypeOK'
  BY <1>1, <1>2, <1>4 DEF TypeOK, TrackStatus
<1>8. RequestInv' /\ UploadInv' /\ BeforeInv'
  BY <1>0, <1>1, <1>3, <1>4, <1>6 DEF RequestInv, UploadInv, BeforeInv, BackedInv
<1>9. BackedInv'
  <2>1. ASSUME NEW u \in Track, u # t PROVE BackedInv!(u)'
    <3>1. Transcode(u) \in done' <=> Transcode(u) \in done
      BY <1>1, <2>1, ActorsDiffer
    <3> QED
      BY <1>3, <2>1, <3>1 DEF BackedInv
  <2>2. BackedInv!(t)'
    BY <1>0, <1>1, <1>3, <1>4 DEF BackedInv
  <2> QED
    BY <2>1, <2>2 DEF BackedInv
<1>10. ASSUME NEW u \in Track, NEW q \in Requests, Raced(q, u), Request(q) \in done
       PROVE  Raced(q, u)'
  BY <1>5, <1>10, RacedStays
<1>11. ASSUME NEW u \in Track, NEW q \in Committed("takedown", u)
       PROVE  q \in Requests /\ Request(q) \in done /\ Request(q) \in Actor
  BY ActorsDiffer DEF Committed
<1>12. SeenInv'
  <2>1. \A u \in Track : Readers(u)' = Readers(u)
    BY <1>1 DEF Readers
  <2> QED
    BY <1>1, <1>6, <1>10, <1>11, <2>1 DEF SeenInv
\* The transcode undoes a takedown only if it did not see it.
<1>13. TakedownHoldsUnlessRaced'
  <2>1. ASSUME NEW u \in Track, NEW q \in Committed("takedown", u), track'[u] # "takedown"
        PROVE  Raced(q, u)'
    <3>1. CASE track[u] # "takedown"
      BY <1>10, <1>11, <3>1 DEF TakedownHoldsUnlessRaced, Raced
    <3>2. CASE track[u] = "takedown"
      <4>1. u = t /\ seen[a] = "processing"
        BY <1>3, <1>4, <2>1, <3>2
      <4>2. CASE Request(q) \in before[a]
        <5>1. a \in Readers(u)
          BY <4>1 DEF Readers
        <5> QED
          BY <1>10, <1>11, <4>1, <4>2, <5>1 DEF SeenInv
      <4>3. CASE Request(q) \notin before[a]
        <5>1. Overlap(a, Request(q))'
          BY <1>1, <1>2, <1>5, <1>11, <4>3, CommitsNow
        <5>2. a \in Undoers(u)'
          BY <1>1, <4>1 DEF Undoers
        <5> QED
          BY <5>1, <5>2 DEF Raced
      <4> QED
        BY <4>2, <4>3
    <3> QED
      BY <3>1, <3>2
  <2> QED
    BY <1>6, <2>1 DEF TakedownHoldsUnlessRaced, Raced
<1>14. LostInv'
  <2>1. ASSUME NEW u \in Track, NEW r \in Requests,
               req[r].pc = "checked", req[r].track = u,
               seen[Request(r)] = "takedown", track'[u] # "takedown"
        PROVE  \E x \in Undoers(u)' : x \notin before[Request(r)]
    <3>1. CASE track[u] # "takedown"
      BY <1>5, <2>1, <3>1, CommittedStay DEF LostInv
    <3>2. CASE track[u] = "takedown"
      <4>1. u = t
        BY <1>3, <2>1, <3>2
      <4>2. a \in Undoers(u)' /\ a \notin before[Request(r)]
        BY <1>1, <1>2, <4>1, ActorsDiffer DEF Undoers, BeforeInv
      <4> QED
        BY <4>2
    <3> QED
      BY <3>1, <3>2
  <2> QED
    BY <1>1, <2>1 DEF LostInv
<1>15. ProcessingInv' /\ TranscodeInv'
  BY <1>1, <1>3, <1>4, <1>6 DEF ProcessingInv, TranscodeInv
\* It makes a track DRAFT only if it saw no commit that changed the track.
<1>16. DraftAfterRequestOnlyByTranscode'
  <2>1. ASSUME NEW u \in Track, track'[u] = "draft", NEW p \in Committed("publish", u)
        PROVE  \E r \in Committed("publish", u) \cup Committed("takedown", u) :
                 Overlap(Transcode(u), Request(r))'
    <3>0. p \in Requests /\ Request(p) \in done /\ req[p].track = u /\ Request(p) \in Actor
      BY ActorsDiffer DEF Committed
    <3>1. CASE u = t /\ seen[a] = "processing"
      <4>1. req[p].pc # "idle"
        BY <3>0 DEF RequestInv
      <4>2. Request(p) \notin before[a]
        BY <3>0, <3>1, <4>1 DEF TranscodeInv
      <4>3. Overlap(a, Request(p))'
        BY <1>1, <1>2, <1>5, <3>0, <4>2, CommitsNow
      <4> QED
        BY <2>1, <3>1, <4>3
    <3>2. CASE ~(u = t /\ seen[a] = "processing")
      <4>1. track[u] = "draft" /\ Transcode(u) \in done
        BY <1>3, <1>4, <2>1, <3>2 DEF BackedInv
      <4>2. PICK r \in Committed("publish", u) \cup Committed("takedown", u) :
              Overlap(Transcode(u), Request(r))
        BY <2>1, <4>1 DEF DraftAfterRequestOnlyByTranscode
      <4>3. Request(r) \in done
        BY DEF Committed
      <4>4. Overlap(Transcode(u), Request(r))'
        BY <1>5, <4>1, <4>2, <4>3 DEF Persist, Overlap
      <4> QED
        BY <4>4
    <3> QED
      BY <3>1, <3>2
  <2> QED
    BY <1>6, <2>1 DEF DraftAfterRequestOnlyByTranscode
<1> QED
  BY <1>7, <1>8, <1>9, <1>12, <1>13, <1>14, <1>15, <1>16

\* A publication or a takedown commits.
LEMMA CommitRequestInv ==
  ASSUME PublishingInv, Queue!TypeOK', NEW r \in Requests, CommitRequest(r)
  PROVE  PublishingInv'
<1> USE DEF PublishingInv
<1>0. PICK t \in Track : req[r].track = t /\ track[t] # "none"
  BY DEF CommitRequest, RequestInv
<1> DEFINE a == Request(r)
           new == IF req[r].op = "publish" THEN "published" ELSE "takedown"
<1>1. /\ track' = [track EXCEPT ![t] = IF seen[a] = new THEN @ ELSE new]
      /\ done' = done \cup {a} /\ req[r].pc = "checked"
      /\ UNCHANGED <<status, caller, master, derivatives, seen, before>>
  BY <1>0 DEF CommitRequest, queueVars
<1>2. a \in Actor /\ a \notin done /\ req[r].op \in {"publish", "takedown"}
  BY <1>1, ActorsDiffer DEF RequestInv
<1>3. \A u \in Track : u # t => track'[u] = track[u]
  BY <1>1 DEF TypeOK
<1>4. track'[t] = IF seen[a] = new THEN track[t] ELSE new
  BY <1>1 DEF TypeOK
<1>5. /\ req' \in [Requests -> [pc : {"idle", "checked", "ended"},
                                op : {"none", "publish", "takedown"},
                                track : Track \cup {0}]]
      /\ req'[r].pc = "ended" /\ req'[r].op = req[r].op /\ req'[r].track = t
      /\ \A p \in Requests : p # r => req'[p] = req[p]
  <2>1. req[r] \in [pc : {"idle", "checked", "ended"}, op : {"none", "publish", "takedown"},
                    track : Track \cup {0}]
    BY DEF TypeOK
  <2>2. req' = [req EXCEPT ![r] = [req[r] EXCEPT !.pc = "ended"]]
    BY DEF CommitRequest, TypeOK
  <2> QED
    BY <1>0, <2>1, <2>2 DEF TypeOK
<1>6. Persist
  BY <1>0, <1>1, <1>5 DEF Persist
<1>7. \A p \in Requests : Request(p) \in done' <=> Request(p) \in done \/ p = r
  BY <1>1, ActorsDiffer
<1>8. \A u \in Track : Transcode(u) \in done' <=> Transcode(u) \in done
  BY <1>1, ActorsDiffer
<1>9. \A op, u : \A p \in Committed(op, u)' :
        \/ p \in Committed(op, u) /\ p # r
        \/ p = r /\ op = req[r].op /\ u = t
  BY <1>2, <1>5, <1>7 DEF Committed
<1>10. TypeOK'
  BY <1>1, <1>2, <1>4, <1>5 DEF TypeOK, TrackStatus
<1>11. UploadInv' /\ BeforeInv'
  BY <1>1 DEF UploadInv, BeforeInv
<1>12. BackedInv'
  BY <1>0, <1>1, <1>3, <1>4, <1>8 DEF BackedInv
<1>13. RequestInv'
  BY <1>0, <1>1, <1>3, <1>4, <1>5, <1>7 DEF RequestInv
<1>14. ASSUME NEW u \in Track, NEW q \in Requests, Raced(q, u), Request(q) \in done
       PROVE  Raced(q, u)'
  BY <1>6, <1>14, RacedStays
<1>15. ASSUME NEW u \in Track, NEW q \in Committed("takedown", u)
       PROVE  q \in Requests /\ Request(q) \in done /\ Request(q) \in Actor
  BY ActorsDiffer DEF Committed
<1>16. \A b \in Actor : a \notin before[b]
  BY <1>2 DEF BeforeInv
<1>17. SeenInv'
  <2>1. \A u \in Track : Readers(u)' = Readers(u)
    BY <1>0, <1>1, <1>5 DEF Readers
  <2>2. \A u \in Track : \A b \in Readers(u) : b \in Actor
    BY ActorsDiffer DEF Readers
  <2>3. ASSUME NEW u \in Track, NEW q \in Committed("takedown", u)', NEW b \in Readers(u),
               Request(q) \in before[b], seen[b] # "takedown"
        PROVE  Raced(q, u)'
    <3>1. q \in Committed("takedown", u)
      BY <1>9, <1>16, <2>2, <2>3
    <3> QED
      BY <1>14, <1>15, <2>3, <3>1 DEF SeenInv
  <2> QED
    BY <1>1, <2>1, <2>3 DEF SeenInv
<1>18. req[r].op = "publish" => new = "published" /\ track'[t] = "published" /\ a \in Undoers(t)'
  <2> SUFFICES ASSUME req[r].op = "publish"
               PROVE  track'[t] = "published" /\ a \in Undoers(t)'
    OBVIOUS
  <2>1. seen[a] \in {"processing", "draft"}
    BY <1>1 DEF RequestInv
  <2>2. r \in Committed("publish", t)'
    BY <1>5, <1>7 DEF Committed
  <2> QED
    BY <1>4, <2>1, <2>2 DEF Undoers
<1>19. req[r].op = "takedown" => new = "takedown"
  OBVIOUS
\* A publication undoes a takedown only if it did not see it; a takedown that
\* writes nothing was undone since it read the track.
<1>20. TakedownHoldsUnlessRaced'
  <2>1. ASSUME NEW u \in Track, NEW q \in Committed("takedown", u)', track'[u] # "takedown"
        PROVE  Raced(q, u)'
    <3>1. CASE q \in Committed("takedown", u) /\ track[u] # "takedown"
      BY <1>14, <1>15, <3>1 DEF TakedownHoldsUnlessRaced, Raced
    <3>2. CASE q \in Committed("takedown", u) /\ track[u] = "takedown"
      <4>1. u = t /\ req[r].op = "publish"
        BY <1>2, <1>3, <1>4, <1>19, <2>1, <3>2
      <4>2. seen[a] # "takedown"
        BY <1>1, <4>1 DEF RequestInv
      <4>3. CASE Request(q) \in before[a]
        <5>1. a \in Readers(u)
          BY <1>0, <1>1, <4>1 DEF Readers
        <5> QED
          BY <1>14, <1>15, <3>2, <4>2, <4>3, <5>1 DEF SeenInv
      <4>4. CASE Request(q) \notin before[a]
        <5>1. Overlap(a, Request(q))'
          BY <1>1, <1>2, <1>6, <1>15, <3>2, <4>4, CommitsNow
        <5> QED
          BY <1>18, <4>1, <5>1 DEF Raced
      <4> QED
        BY <4>3, <4>4
    <3>3. CASE q = r /\ req[r].op = "takedown" /\ u = t
      <4>1. seen[a] = "takedown" /\ track[t] # "takedown"
        BY <1>4, <1>19, <2>1, <3>3
      <4>2. PICK x \in Undoers(t) : x \notin before[a]
        BY <1>0, <1>1, <4>1 DEF LostInv
      <4>3. x \in Undoers(t)' /\ x \in done
        BY <1>6, CommittedStay
      <4>4. Overlap(x, a)'
        BY <1>1, <1>16, <4>2, <4>3 DEF Overlap, TypeOK
      <4> QED
        BY <3>3, <4>3, <4>4 DEF Raced
    <3> QED
      BY <1>9, <3>1, <3>2, <3>3
  <2> QED
    BY <2>1 DEF TakedownHoldsUnlessRaced, Raced
<1>21. LostInv'
  <2>1. ASSUME NEW u \in Track, NEW p \in Requests,
               req'[p].pc = "checked", req'[p].track = u,
               seen[Request(p)] = "takedown", track'[u] # "takedown"
        PROVE  \E x \in Undoers(u)' : x \notin before[Request(p)]
    <3>0. p # r /\ req[p].pc = "checked" /\ req[p].track = u
      BY <1>5, <2>1
    <3>1. CASE track[u] # "takedown"
      BY <1>6, <2>1, <3>0, <3>1, CommittedStay DEF LostInv
    <3>2. CASE track[u] = "takedown"
      <4>1. u = t /\ req[r].op = "publish"
        BY <1>2, <1>3, <1>4, <1>19, <2>1, <3>2
      <4> QED
        BY <1>16, <1>18, <4>1, ActorsDiffer
    <3> QED
      BY <3>1, <3>2
  <2> QED
    BY <1>1, <2>1 DEF LostInv
<1>22. ProcessingInv'
  <2>1. ASSUME track'[t] = "processing" PROVE FALSE
    <3>1. seen[a] = new /\ track[t] = "processing"
      BY <1>4, <2>1
    <3>2. seen[a] = "processing"
      BY <1>0, <1>1, <3>1 DEF ProcessingInv
    <3> QED
      BY <3>1, <3>2
  <2> QED
    BY <1>1, <1>3, <1>5, <1>7, <2>1 DEF ProcessingInv
<1>23. TranscodeInv'
  BY <1>0, <1>1, <1>5 DEF TranscodeInv
<1>24. DraftAfterRequestOnlyByTranscode'
  <2>1. ASSUME NEW u \in Track, track'[u] = "draft", NEW p \in Committed("publish", u)'
        PROVE  \E q \in Committed("publish", u)' \cup Committed("takedown", u)' :
                 Overlap(Transcode(u), Request(q))'
    <3>1. track[u] = "draft" /\ p \in Committed("publish", u)
      BY <1>2, <1>3, <1>4, <1>9, <1>18, <1>19, <2>1
    <3>2. Transcode(u) \in done
      BY <3>1 DEF BackedInv
    <3>3. PICK q \in Committed("publish", u) \cup Committed("takedown", u) :
            Overlap(Transcode(u), Request(q))
      BY <3>1 DEF DraftAfterRequestOnlyByTranscode
    <3>4. q \in Committed("publish", u)' \cup Committed("takedown", u)'
      BY <1>6, CommittedStay
    <3>5. Overlap(Transcode(u), Request(q))'
      BY <1>1, <3>3 DEF Overlap
    <3> QED
      BY <3>4, <3>5
  <2> QED
    BY <2>1 DEF DraftAfterRequestOnlyByTranscode
<1> QED
  BY <1>10, <1>11, <1>12, <1>13, <1>17, <1>20, <1>21, <1>22, <1>23, <1>24

\* A request that gives up has committed nothing.
LEMMA AbortRequestInv ==
  ASSUME PublishingInv, Queue!TypeOK', NEW r \in Requests, AbortRequest(r)
  PROVE  PublishingInv'
<1> USE DEF PublishingInv
<1>1. /\ UNCHANGED <<status, caller, track, master, derivatives, seen, before, done>>
      /\ req[r].pc = "checked"
  BY DEF AbortRequest, queueVars, raceVars
<1>2. /\ req' \in [Requests -> [pc : {"idle", "checked", "ended"},
                                op : {"none", "publish", "takedown"},
                                track : Track \cup {0}]]
      /\ req'[r].pc = "ended" /\ req'[r].op = req[r].op /\ req'[r].track = req[r].track
      /\ \A p \in Requests : p # r => req'[p] = req[p]
  <2>1. req[r] \in [pc : {"idle", "checked", "ended"}, op : {"none", "publish", "takedown"},
                    track : Track \cup {0}]
    BY DEF TypeOK
  <2>2. req' = [req EXCEPT ![r] = [req[r] EXCEPT !.pc = "ended"]]
    BY DEF AbortRequest, TypeOK
  <2> QED
    BY <2>1, <2>2 DEF TypeOK
<1>3. TypeOK'
  BY <1>1, <1>2 DEF TypeOK
<1>4. UploadInv' /\ BackedInv' /\ BeforeInv' /\ RequestInv'
  BY <1>1, <1>2 DEF UploadInv, BackedInv, BeforeInv, RequestInv
<1>5. Persist
  BY <1>1, <1>2 DEF Persist
<1>6. Request(r) \notin done
  BY <1>1 DEF RequestInv
<1>7. /\ TakedownHoldsUnlessRaced'
      /\ \A op, u : Committed(op, u)' = Committed(op, u)
  BY <1>1, <1>2, <1>5, <1>6, ReadsKeepRaces
<1>8. \A u \in Track : Readers(u)' = Readers(u) /\ Undoers(u)' = Undoers(u)
  BY <1>1, <1>2, <1>7 DEF Readers, Undoers
<1>9. SeenInv'
  BY <1>1, <1>7, <1>8 DEF SeenInv, Raced, Overlap
<1>10. LostInv' /\ ProcessingInv' /\ TranscodeInv'
  BY <1>1, <1>2, <1>8 DEF LostInv, ProcessingInv, TranscodeInv
<1>11. DraftAfterRequestOnlyByTranscode'
  BY <1>1, <1>7 DEF DraftAfterRequestOnlyByTranscode, Overlap
<1> QED
  BY <1>3, <1>4, <1>7, <1>9, <1>10, <1>11

-----------------------------------------------------------------------------
(* The theorems.                                                           *)

LEMMA NextPublishingInv ==
  PublishingInv /\ QueueFacts!QueueInv /\ Queue!TypeOK' /\ [Next]_vars => PublishingInv'
<1> SUFFICES ASSUME PublishingInv, QueueFacts!QueueInv, Queue!TypeOK', [Next]_vars
             PROVE  PublishingInv'
  OBVIOUS
<1>1. ASSUME NEW t \in Track, Upload(t) \/ InsertJob(t) \/ CommitUpload(t) \/ AbortUpload(t)
      PROVE  PublishingInv'
  BY <1>1, UploadStepInv, CommitUploadInv
<1>2. ASSUME NEW w \in Workers, WorkerStep(w) \/ WorkerDies(w)
      PROVE  PublishingInv'
  BY <1>2, ClaimInv, FinishInv, WorkerStepInv DEF WorkerStep
<1>3. CASE Repair
  BY <1>3, WorkerStepInv
<1>4. ASSUME NEW r \in Requests, NEW t \in Track, BeginPublish(r, t) \/ BeginTakedown(r, t)
      PROVE  PublishingInv'
  BY <1>4, BeginsInv DEF BeginPublish, BeginTakedown
<1>5. ASSUME NEW r \in Requests, CommitRequest(r) \/ AbortRequest(r)
      PROVE  PublishingInv'
  BY <1>5, CommitRequestInv, AbortRequestInv
<1>6. CASE UNCHANGED vars
  BY <1>6, QuietInv DEF vars, queueVars, raceVars, PublishingInv, UploadInv, TypeOK
<1> QED
  BY <1>1, <1>2, <1>3, <1>4, <1>5, <1>6 DEF Next, Idle

\* The invariant holds in every reachable state.
LEMMA PublishingInvariant == Spec => []PublishingInv
<1>1. Init => PublishingInv
  BY InitPublishingInv
<1>2. PublishingInv /\ QueueFacts!QueueInv /\ Queue!TypeOK' /\ [Next]_vars => PublishingInv'
  BY NextPublishingInv
<1>3. QueueFacts!QueueInv => Queue!TypeOK
  BY QueueKnows
<1> QED
  BY <1>1, <1>2, <1>3, QueueInvariant, PTL DEF Spec

\* Tracks, masters, derivatives and what requests and workers have read are
\* well typed, whoever fails or dies (artist_upload.py, handlers.py).
THEOREM TypeCorrect == Spec => []TypeOK
<1>1. PublishingInv => TypeOK
  BY DEF PublishingInv
<1> QED
  BY <1>1, PublishingInvariant, PTL

\* A committed takedown holds, unless a publication or the transcode that read
\* the track before it committed wrote the track after it (takedown_track,
\* publish_track, handle_transcode).
THEOREM TakedownHolds == Spec => []TakedownHoldsUnlessRaced
<1>1. PublishingInv => TakedownHoldsUnlessRaced
  BY DEF PublishingInv
<1> QED
  BY <1>1, PublishingInvariant, PTL

\* A track that was published is back in DRAFT only by a transcode that was
\* running while a request changed the track (handle_transcode, publish_track).
THEOREM DraftOnlyByTranscode == Spec => []DraftAfterRequestOnlyByTranscode
<1>1. PublishingInv => DraftAfterRequestOnlyByTranscode
  BY DEF PublishingInv
<1> QED
  BY <1>1, PublishingInvariant, PTL

\* A track that can be seen has its master and its job, and its derivatives are
\* recorded once, with the job's completion, over any number of failed attempts
\* and crashes (upload_track, handle_transcode).
THEOREM TrackBacked == Spec => []TrackIsBacked
<1>1. PublishingInv /\ QueueFacts!QueueInv => TrackIsBacked
  <2> SUFFICES ASSUME PublishingInv, QueueFacts!QueueInv, NEW t \in Track
               PROVE  TrackIsBacked!(t)
    BY DEF TrackIsBacked
  <2>1. status[t] # "none" => caller[t].pc = "committed"
    BY QueueKnows
  <2> QED
    BY <2>1 DEF PublishingInv, BackedInv, UploadInv
<1> QED
  BY <1>1, PublishingInvariant, QueueInvariant, PTL

\* An upload that was answered is there with a job of its own: its key is made
\* from its track, so enqueue loses no race for it (upload_track, enqueue).
THEOREM AnsweredUpload == Spec => []AnsweredUploadHasItsTrack
<1>1. PublishingInv /\ QueueFacts!QueueInv => AnsweredUploadHasItsTrack
  <2> SUFFICES ASSUME PublishingInv, QueueFacts!QueueInv,
                      NEW t \in Track, caller[t].pc = "committed"
               PROVE  track[t] # "none" /\ caller[t].job = t
    BY DEF AnsweredUploadHasItsTrack
  <2> DEFINE i == caller[t].job
  <2>1. i \in Track /\ status[i] # "none" /\ caller[i].key = caller[t].key
    BY DEF QueueFacts!QueueInv, QueueFacts!AnswerInv, QueueFacts!Job, Track
  <2>2. caller[i].key = i /\ caller[t].key = t
    BY <2>1, QueueKnows DEF PublishingInv, UploadInv
  <2> QED
    BY <2>1, <2>2 DEF PublishingInv, BackedInv
<1> QED
  BY <1>1, PublishingInvariant, QueueInvariant, PTL
=============================================================================
