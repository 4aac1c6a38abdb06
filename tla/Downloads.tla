------------------------------ MODULE Downloads ------------------------------
(***************************************************************************)
(* The download queue of the device (mobile/src/offline/downloadService).  *)
(*                                                                         *)
(* The job list and the index of offline tracks are two values in          *)
(* AsyncStorage.  queueDownload adds a job and starts a loop of            *)
(* processQueue; the library screen starts loops too.  A loop takes a      *)
(* queued job, marks it as running, asks the server for a URL, downloads   *)
(* it, enters the track in the index, marks the job as completed or        *)
(* failed, and goes on with the next one.                                  *)
(*                                                                         *)
(* Each update of the list or the index reads the whole value, awaits, and *)
(* writes the whole value: nothing keeps loops and taps apart.  A restart  *)
(* forgets every loop and keeps the storage.                               *)
(*                                                                         *)
(* A job is a track in its quality.  The order of the list is left out: a  *)
(* loop may take any queued job.                                           *)
(***************************************************************************)
EXTENDS Naturals

CONSTANTS
  Tracks, NoTrack,
  Taps,      \* bound: calls of queueDownload in a behaviour
  Loops,     \* bound: calls of processQueue at the same time
  MaxFaults  \* bound: failures of storage and server, and restarts

ASSUME DownloadsAssumption ==
  MaxFaults \in Nat /\ NoTrack \notin Tracks

VARIABLES
  jobs,    \* the job list: the status of each track's job
  index,   \* the tracks with an entry in the index of offline tracks
  tap,     \* what each queueDownload is doing
  loop,    \* what each processQueue is doing
  faults,  \* failures and restarts so far
  hazard   \* which of the ways to disturb the storage have happened

vars == <<jobs, index, tap, loop, faults, hazard>>

JobStatus == {"absent", "queued", "running", "completed", "failed"}
\* What updateJob writes: a status, or the progress only.
Goal == {"none", "running", "progress", "completed", "failed"}
JobList == [Tracks -> JobStatus]

NoJobs == [t \in Tracks |-> "absent"]

\* goal: the status that a loop is about to write for its job.
Idle == [pc |-> "idle", track |-> NoTrack, goal |-> "none", jobs |-> NoJobs,
         index |-> {}]

LoopPc == {"idle", "finding", "reading", "writing", "asking", "fetching",
           "entering"}

TypeOK ==
  /\ jobs \in JobList
  /\ index \subseteq Tracks
  /\ tap \in [Taps -> [pc : {"idle", "writing", "done"},
                       track : Tracks \cup {NoTrack}, jobs : JobList]]
  /\ loop \in [Loops -> [pc : LoopPc, track : Tracks \cup {NoTrack}, goal : Goal,
                        jobs : JobList, index : SUBSET Tracks]]
  /\ \A p \in Loops : /\ loop[p].track = NoTrack <=> loop[p].pc \in {"idle", "finding"}
                      /\ loop[p].goal = "none" <=> loop[p].pc \in {"idle", "finding"}
  /\ faults \in 0..MaxFaults
  /\ hazard \subseteq {"overlap", "indexOverlap", "staleFind", "failure", "restart"}

Tapping(pc, t, copy) == [pc |-> pc, track |-> t, jobs |-> copy]

Init ==
  /\ jobs = NoJobs
  /\ index = {}
  /\ tap = [u \in Taps |-> Tapping("idle", NoTrack, NoJobs)]
  /\ loop = [p \in Loops |-> Idle]
  /\ faults = 0
  /\ hazard = {}

Fault == faults < MaxFaults /\ faults' = faults + 1

\* saveDownloadJobs by a task that read copy.
Save(copy, next, more) ==
  /\ jobs' = next
  /\ hazard' = hazard \cup more \cup (IF jobs # copy THEN {"overlap"} ELSE {})

-----------------------------------------------------------------------------
(* queueDownload                                                           *)

\* Mutant: only a job that is still queued is left alone.
QueueDownload_RunningToo(u, t) ==
  /\ tap[u].pc = "idle"
  /\ tap' = [tap EXCEPT ![u] = IF jobs[t] = "queued" THEN Tapping("done", t, NoJobs)
                               ELSE Tapping("writing", t, jobs)]
  /\ UNCHANGED <<jobs, index, loop, faults, hazard>>

\* Reads the list: a job that is queued or running is left alone.
QueueDownload(u, t) ==
  /\ tap[u].pc = "idle"
  /\ tap' = [tap EXCEPT ![u] = IF jobs[t] \in {"queued", "running"}
                               THEN Tapping("done", t, NoJobs)
                               ELSE Tapping("writing", t, jobs)]
  /\ UNCHANGED <<jobs, index, loop, faults, hazard>>

StartLoop(p) == loop[p].pc = "idle" /\ loop' = [loop EXCEPT ![p].pc = "finding"]

\* Writes the list with the new job, and starts a loop.
SaveQueued(u) ==
  /\ tap[u].pc = "writing"
  /\ Save(tap[u].jobs, [tap[u].jobs EXCEPT ![tap[u].track] = "queued"], {})
  /\ tap' = [tap EXCEPT ![u] = Tapping("done", @.track, NoJobs)]
  /\ \E p \in Loops : StartLoop(p)
  /\ UNCHANGED <<index, faults>>

\* The library screen gets the focus, or its retry button is pressed.
OpenLibrary ==
  /\ \E p \in Loops : StartLoop(p)
  /\ UNCHANGED <<jobs, index, tap, faults, hazard>>

-----------------------------------------------------------------------------
(* processQueue                                                            *)

\* Loop p is about to write status s for its job.
Towards(p, s) == [loop EXCEPT ![p].pc = "reading", ![p].goal = s]

\* Reads the list and takes a queued job.
Find(p) ==
  /\ loop[p].pc = "finding"
  /\ \/ \E t \in Tracks :
          /\ jobs[t] = "queued"
          /\ loop' = [loop EXCEPT ![p] =
                        [Idle EXCEPT !.pc = "reading", !.track = t, !.goal = "running"]]
     \/ /\ \A t \in Tracks : jobs[t] # "queued"
        /\ loop' = [loop EXCEPT ![p] = Idle]
  /\ UNCHANGED <<jobs, index, tap, faults, hazard>>

\* updateJob: reads the list, then writes it with the job patched.
ReadJobs(p) ==
  /\ loop[p].pc = "reading"
  /\ loop' = [loop EXCEPT ![p].pc = "writing", ![p].jobs = jobs]
  /\ UNCHANGED <<jobs, index, tap, faults, hazard>>

\* Mutant: the mark of a running job is not written.
Patched_Unmarked(p) ==
  IF loop[p].goal \in {"running", "progress"} THEN loop[p].jobs
  ELSE [loop[p].jobs EXCEPT ![loop[p].track] = loop[p].goal]

\* The patch of the progress keeps the status that was read.
Patched(p) ==
  LET read == loop[p].jobs
      t == loop[p].track
  IN  IF read[t] = "absent" \/ loop[p].goal = "progress" THEN read
      ELSE [read EXCEPT ![t] = loop[p].goal]

\* Mutant: the loop ends after one job.
After_OneJob(p) ==
  LET went(pc) == [loop[p] EXCEPT !.pc = pc, !.jobs = NoJobs]
  IN  CASE loop[p].goal = "running" -> went("asking")
        [] loop[p].goal = "progress" -> went("fetching")
        [] OTHER -> Idle

\* What the loop does after the write.
After(p) ==
  LET went(pc) == [loop[p] EXCEPT !.pc = pc, !.jobs = NoJobs]
  IN  CASE loop[p].goal = "running" -> went("asking")
        [] loop[p].goal = "progress" -> went("fetching")
        [] OTHER -> [Idle EXCEPT !.pc = "finding"]

WriteJobs(p) ==
  /\ loop[p].pc = "writing"
  /\ Save(loop[p].jobs, Patched(p),
          IF loop[p].goal = "running" /\ jobs[loop[p].track] # "queued"
          THEN {"staleFind"} ELSE {})
  /\ loop' = [loop EXCEPT ![p] = After(p)]
  /\ UNCHANGED <<index, tap, faults>>

\* The server answers with a signed URL.
Ask(p) ==
  /\ loop[p].pc = "asking"
  /\ loop' = Towards(p, "progress")
  /\ UNCHANGED <<jobs, index, tap, faults, hazard>>

\* tryNativeDownload ends, with a file or without (the entry then holds the
\* URL), and upsertOfflineTrack reads the index.
ReadIndex(p) ==
  /\ loop[p].pc = "fetching"
  /\ loop' = [loop EXCEPT ![p].pc = "entering", ![p].index = index]
  /\ UNCHANGED <<jobs, index, tap, faults, hazard>>

WriteIndex(p) ==
  /\ loop[p].pc = "entering"
  /\ index' = loop[p].index \cup {loop[p].track}
  /\ hazard' = hazard \cup (IF index # loop[p].index THEN {"indexOverlap"} ELSE {})
  /\ loop' = [loop EXCEPT ![p].pc = "reading", ![p].goal = "completed",
                          ![p].index = {}]
  /\ UNCHANGED <<jobs, tap, faults>>

-----------------------------------------------------------------------------
(* Failures                                                                *)

\* Mutant: the error of the request is lost.
AskFails_Ignored(p) ==
  /\ Fault /\ loop[p].pc = "asking"
  /\ loop' = Towards(p, "completed")
  /\ UNCHANGED <<jobs, index, tap, hazard>>

\* The request throws: the job is marked as failed.
AskFails(p) ==
  /\ Fault /\ loop[p].pc = "asking"
  /\ loop' = Towards(p, "failed")
  /\ UNCHANGED <<jobs, index, tap, hazard>>

\* A read that fails counts as an empty list or index.
ReadFails(p) ==
  /\ Fault /\ loop[p].pc \in {"finding", "reading", "fetching"}
  /\ loop' = CASE loop[p].pc = "finding" -> [loop EXCEPT ![p] = Idle]
               [] loop[p].pc = "reading" -> [loop EXCEPT ![p].pc = "writing"]
               [] OTHER -> [loop EXCEPT ![p].pc = "entering"]
  /\ hazard' = hazard \cup {"failure"}
  /\ UNCHANGED <<jobs, index, tap>>

\* A write that fails inside the try marks the job as failed; outside of it,
\* before the request and in the handler, it ends the loop.
WriteFails(p) ==
  /\ Fault /\ loop[p].pc \in {"writing", "entering"}
  /\ loop' = IF loop[p].pc = "writing" /\ loop[p].goal \in {"running", "failed"}
             THEN [loop EXCEPT ![p] = Idle]
             ELSE [loop EXCEPT ![p] = [Idle EXCEPT !.pc = "reading", !.goal = "failed",
                                                   !.track = loop[p].track]]
  /\ hazard' = hazard \cup {"failure"}
  /\ UNCHANGED <<jobs, index, tap>>

\* In queueDownload a failed read adds the job to an empty list, and a failed
\* write adds none.
TapFails(u) ==
  /\ Fault
  /\ \/ /\ tap[u].pc = "idle"
        /\ \E t \in Tracks : tap' = [tap EXCEPT ![u] = Tapping("writing", t, NoJobs)]
     \/ /\ tap[u].pc = "writing"
        /\ tap' = [tap EXCEPT ![u] = Tapping("done", @.track, NoJobs)]
  /\ hazard' = hazard \cup {"failure"}
  /\ UNCHANGED <<jobs, index, loop>>

\* The application is killed and started again.
Restart ==
  /\ Fault /\ \E p \in Loops : loop[p] # Idle
  /\ loop' = [p \in Loops |-> Idle]
  /\ tap' = [u \in Taps |-> IF tap[u].pc = "writing"
                            THEN Tapping("done", tap[u].track, NoJobs) ELSE tap[u]]
  /\ hazard' = hazard \cup {"restart"}
  /\ UNCHANGED <<jobs, index>>

-----------------------------------------------------------------------------
LoopStep(p) ==
  \/ Find(p) \/ ReadJobs(p) \/ WriteJobs(p) \/ Ask(p)
  \/ ReadIndex(p) \/ WriteIndex(p)

Next ==
  \/ \E u \in Taps : \/ \E t \in Tracks : QueueDownload(u, t)
                     \/ SaveQueued(u)
                     \/ TapFails(u)
  \/ OpenLibrary
  \/ \E p \in Loops : LoopStep(p) \/ AskFails(p) \/ ReadFails(p) \/ WriteFails(p)
  \/ Restart

Spec == Init /\ [][Next]_vars

\* Promises settle, answers and downloads among them.  Nobody has to open
\* the library.
FairSpec == Spec /\ \A p \in Loops : WF_vars(LoopStep(p))

-----------------------------------------------------------------------------
(* Properties.                                                             *)

Undisturbed == hazard \cap {"overlap", "failure", "restart"} = {}

\* A job that is completed has its track in the index, whatever happens to
\* the job list, unless two updates of the index overlap or the storage fails.
CompletedIsIndexed ==
  hazard \cap {"indexOverlap", "failure"} = {} =>
    \A t \in Tracks : jobs[t] = "completed" => t \in index

\* Two loops work on one job only if one found it before the other had marked
\* it, or an overlapping write took the mark back.
OneLoopPerJob ==
  \A p, q \in Loops :
    /\ p # q
    /\ {loop[p].pc, loop[q].pc} \subseteq {"asking", "fetching", "entering"}
    /\ loop[p].track = loop[q].track
    => hazard \cap {"staleFind", "overlap"} # {}

\* Every queued job is completed or failed by the loops that queueDownload
\* and the loops themselves start, unless a write overlaps, the storage fails
\* or the application dies.
QueuedJobsSettle ==
  \A t \in Tracks :
    jobs[t] = "queued" ~> (jobs[t] \in {"completed", "failed"} \/ ~Undisturbed)

\* A job left running by a loop that died, in the eyes of every task.
Interrupted(t) ==
  /\ jobs[t] = "running"
  /\ \A p \in Loops : /\ loop[p].track # t
                      /\ loop[p].pc = "writing" => loop[p].jobs[t] = "running"
  /\ \A u \in Taps : tap[u].pc = "writing" =>
                      tap[u].track # t /\ tap[u].jobs[t] = "running"

\* Nothing takes an interrupted job up again: not the next start, nor the
\* retry button, nor another request for the same track.
InterruptedIsStuck ==
  [][\A t \in Tracks : Interrupted(t) => Interrupted(t)' \/ "failure" \in hazard']_vars
=============================================================================
