----------------------------- MODULE Publishing -----------------------------
(***************************************************************************)
(* A track from its upload to its publication or takedown: the upload      *)
(* request, the transcode job that the JobQueue module's worker runs for   *)
(* it, the artist's publication and the moderator's takedown.              *)
(*                                                                         *)
(* Each of them reads tracks.status, decides on what it read, and assigns  *)
(* the status in an UPDATE at the end of its transaction.  The transcode   *)
(* holds its copy for as long as FFmpeg runs.  Actors are the requests and *)
(* the transcode of each track; `before` says which of them had committed  *)
(* when an actor read the track.                                           *)
(*                                                                         *)
(* The worker is one that has the session factory and the handlers, which  *)
(* `python -m app.workers.runner` is not: see the README.                  *)
(***************************************************************************)
EXTENDS Naturals, FiniteSets

CONSTANTS
  MaxTracks,       \* bound: uploads in a behaviour
  Requests,        \* publication and takedown requests
  Workers,         \* worker processes
  MaxCrashes       \* bound: worker processes that die

ASSUME PublishingAssumption ==
  /\ MaxTracks \in Nat
  /\ MaxCrashes \in Nat

Track == 1..MaxTracks

VARIABLES
  status, attempts, caller, worker, cancel, broken, crashes,  \* JobQueue
  track,        \* tracks.status as committed
  master,       \* tracks whose master object is in the permanent bucket
  derivatives,  \* derivative sets committed for each track
  seen,         \* the status an actor's transaction read
  req,          \* what each request does: position, operation, track
  before,       \* actors that had committed when an actor read its track
  done          \* actors that have committed

queueVars == <<status, attempts, caller, worker, cancel, broken, crashes>>
raceVars == <<seen, before, done>>
vars == <<queueVars, track, master, derivatives, req, raceVars>>

\* The queue as this part uses it: one job per track, its key derived from
\* the track's id, and nobody cancels.
Queue == INSTANCE JobQueue WITH
  MaxJobs <- MaxTracks,
  Keys <- Track,
  NoKey <- 0,
  Cancellers <- {},
  SessionFactoryBound <- TRUE

\* HIDDEN and DELETED exist, but no code assigns them.
TrackStatus == {"none", "processing", "draft", "published", "takedown"}

Transcode(t) == <<"transcode", t>>
Request(r) == <<"request", r>>
Actor == {Transcode(t) : t \in Track} \cup {Request(r) : r \in Requests}

TypeOK ==
  /\ Queue!TypeOK
  /\ track \in [Track -> TrackStatus]
  /\ master \in SUBSET Track
  /\ derivatives \in [Track -> Nat]
  /\ seen \in [Actor -> TrackStatus]
  /\ req \in [Requests -> [pc : {"idle", "checked", "ended"},
                           op : {"none", "publish", "takedown"},
                           track : Track \cup {0}]]
  /\ before \in [Actor -> SUBSET Actor]
  /\ done \in SUBSET Actor

Init ==
  /\ Queue!Init
  /\ track = [t \in Track |-> "none"]
  /\ master = {}
  /\ derivatives = [t \in Track |-> 0]
  /\ seen = [a \in Actor |-> "none"]
  /\ req = [r \in Requests |-> [pc |-> "idle", op |-> "none", track |-> 0]]
  /\ before = [a \in Actor |-> {}]
  /\ done = {}

\* An actor reads the status it will decide on.
Reads(a, t) ==
  /\ seen' = [seen EXCEPT ![a] = track[t]]
  /\ before' = [before EXCEPT ![a] = done]

-----------------------------------------------------------------------------
(* upload_track.                                                           *)

\* Mutant: the key is not made from the track's id.
Upload_SharedKey(t) ==
  /\ Queue!Enqueue(t, 1)
  /\ master' = master \cup {t}
  /\ UNCHANGED <<track, derivatives, req, raceVars>>

Upload_MasterLater(t) ==
  /\ Queue!Enqueue(t, t)
  /\ UNCHANGED <<track, master, derivatives, req, raceVars>>

\* The track and license rows are flushed, the master is stored, and the
\* transcode job is enqueued.  The object store does not roll back.
Upload(t) ==
  /\ Queue!Enqueue(t, t)
  /\ master' = master \cup {t}
  /\ UNCHANGED <<track, derivatives, req, raceVars>>

InsertJob(t) ==
  /\ Queue!FlushInsert(t)
  /\ UNCHANGED <<track, master, derivatives, req, raceVars>>

\* The track commits with the job, unless enqueue has rolled it back.
CommitUpload(t) ==
  /\ Queue!CommitCaller(t)
  /\ track' = [track EXCEPT ![t] = IF caller[t].work THEN "processing" ELSE @]
  /\ UNCHANGED <<master, derivatives, req, raceVars>>

AbortUpload(t) ==
  /\ Queue!AbortCaller(t)
  /\ UNCHANGED <<track, master, derivatives, req, raceVars>>

-----------------------------------------------------------------------------
(* The worker: handle_transcode between claim and commit.                  *)

ClaimTranscode(w, t) ==
  /\ Queue!Claim(w, t)
  /\ Reads(Transcode(t), t)
  /\ UNCHANGED <<track, master, derivatives, req, done>>

FinishTranscode_StatusKept(w) ==
  LET t == worker[w]
  IN  /\ Queue!Finish(w)
      /\ t \in master
      /\ derivatives' = [derivatives EXCEPT ![t] = @ + 1]
      /\ done' = done \cup {Transcode(t)}
      /\ UNCHANGED <<track, master, req, seen, before>>

FinishTranscode_Forced(w) ==
  LET t == worker[w]
  IN  /\ Queue!Finish(w)
      /\ t \in master
      /\ derivatives' = [derivatives EXCEPT ![t] = @ + 1]
      /\ track' = [track EXCEPT ![t] = "draft"]
      /\ done' = done \cup {Transcode(t)}
      /\ UNCHANGED <<master, req, seen, before>>

\* The derivatives are stored and recorded, the track leaves PROCESSING if
\* that is what the handler read, and all of it commits with the job.
FinishTranscode(w) ==
  LET t == worker[w]
  IN  /\ Queue!Finish(w)
      /\ t \in master
      /\ derivatives' = [derivatives EXCEPT ![t] = @ + 1]
      /\ track' = [track EXCEPT ![t] =
                     IF seen[Transcode(t)] = "processing" THEN "draft" ELSE @]
      /\ done' = done \cup {Transcode(t)}
      /\ UNCHANGED <<master, req, seen, before>>

FailTranscode(w) ==
  /\ Queue!FailAttempt(w)
  /\ UNCHANGED <<track, master, derivatives, req, raceVars>>

WorkerDies(w) ==
  /\ Queue!WorkerDies(w)
  /\ UNCHANGED <<track, master, derivatives, req, raceVars>>

Repair ==
  /\ Queue!Repair
  /\ UNCHANGED <<track, master, derivatives, req, raceVars>>

-----------------------------------------------------------------------------
(* publish_track and resolve_report with takedown_track.                   *)

Begins(r, op, t) ==
  /\ req[r].pc = "idle"
  /\ track[t] # "none"
  /\ req' = [req EXCEPT ![r] = [pc |-> "checked", op |-> op, track |-> t]]
  /\ Reads(Request(r), t)
  /\ UNCHANGED <<queueVars, track, master, derivatives, done>>

BeginPublish_AnyStatus(r, t) == Begins(r, "publish", t)

\* The status must be PROCESSING or DRAFT; a published track is returned
\* unchanged, and every uploaded track has an active license.
BeginPublish(r, t) ==
  /\ track[t] \in {"processing", "draft"}
  /\ Begins(r, "publish", t)

BeginTakedown(r, t) == Begins(r, "takedown", t)

\* The flush writes the status only if it differs from what was read.
CommitRequest(r) ==
  LET new == IF req[r].op = "publish" THEN "published" ELSE "takedown"
  IN  /\ req[r].pc = "checked"
      /\ track' = [track EXCEPT ![req[r].track] =
                     IF seen[Request(r)] = new THEN @ ELSE new]
      /\ req' = [req EXCEPT ![r].pc = "ended"]
      /\ done' = done \cup {Request(r)}
      /\ UNCHANGED <<queueVars, master, derivatives, seen, before>>

AbortRequest(r) ==
  /\ req[r].pc = "checked"
  /\ req' = [req EXCEPT ![r].pc = "ended"]
  /\ UNCHANGED <<queueVars, track, master, derivatives, raceVars>>

-----------------------------------------------------------------------------
WorkerStep(w) == \/ \E t \in Track : ClaimTranscode(w, t)
                 \/ FinishTranscode(w)
                 \/ FailTranscode(w)

\* Every upload has been answered; the workers poll.
Idle ==
  /\ \A t \in Track : caller[t].pc \in {"committed", "aborted"}
  /\ UNCHANGED vars

Next ==
  \/ \E t \in Track : \/ Upload(t) \/ InsertJob(t)
                      \/ CommitUpload(t) \/ AbortUpload(t)
  \/ \E w \in Workers : WorkerStep(w) \/ WorkerDies(w)
  \/ Repair
  \/ \E r \in Requests : \/ \E t \in Track : BeginPublish(r, t) \/ BeginTakedown(r, t)
                         \/ CommitRequest(r)
                         \/ AbortRequest(r)
  \/ Idle

Spec == Init /\ [][Next]_vars

\* Workers keep polling and handlers end, one way or the other.
FairSpec == Spec /\ \A w \in Workers : WF_vars(WorkerStep(w))

-----------------------------------------------------------------------------
(* Properties.                                                             *)

Overlap(a, b) == a \notin before[b] /\ b \notin before[a]

\* The committed requests of one kind for track t.
Committed(op, t) ==
  {r \in Requests : Request(r) \in done /\ req[r].op = op /\ req[r].track = t}

\* The committed actors that can take track t out of a takedown.
Undoers(t) ==
  {Request(p) : p \in Committed("publish", t)} \cup ({Transcode(t)} \cap done)

\* A committed takedown holds unless a publication or the transcode, reading
\* the track before the takedown committed, wrote it afterwards.
TakedownHoldsUnlessRaced ==
  \A t \in Track : \A q \in Committed("takedown", t) :
    track[t] # "takedown" => \E a \in Undoers(t) : Overlap(a, Request(q))

\* A published track goes back to DRAFT only under a transcode that was
\* running while some request changed the track.
DraftAfterRequestOnlyByTranscode ==
  \A t \in Track :
    track[t] = "draft" /\ Committed("publish", t) # {} =>
      \E r \in Committed("publish", t) \cup Committed("takedown", t) :
        Overlap(Transcode(t), Request(r))

\* A track that can be seen has its master stored and its transcode job
\* recorded, and its derivatives are recorded once and only with the job's
\* completion, across failed attempts and dying workers.
TrackIsBacked ==
  \A t \in Track :
    /\ track[t] # "none" => t \in master /\ status[t] # "none"
    /\ derivatives[t] = IF Transcode(t) \in done THEN 1 ELSE 0
    /\ status[t] = "completed" => derivatives[t] = 1

\* Whoever is answered for an upload has its track, and the track a job of its
\* own, although enqueue rolls the upload back and answers with another's job
\* when it loses a race for the key (job.py:68).
AnsweredUploadHasItsTrack ==
  \A t \in Track : caller[t].pc = "committed" => track[t] # "none" /\ caller[t].job = t

\* Every uploaded track leaves PROCESSING, unless the transcode of an earlier
\* one, or its own, keeps raising.
UploadsLeaveProcessing ==
  \A t \in Track :
    (track[t] = "processing" /\ broken \cap 1..t = {}) ~> track[t] # "processing"

\* "Move track out of processing if it was waiting" (handlers.py:110).
OnlyProcessingBecomesDraft ==
  [][\A t \in Track : track[t] # "draft" /\ track'[t] = "draft"
                        => track[t] = "processing"]_vars
=============================================================================
