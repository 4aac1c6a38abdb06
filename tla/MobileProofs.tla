---------------------------- MODULE MobileProofs ----------------------------
(***************************************************************************)
(* Proofs about the three parts of the mobile application, one after the   *)
(* other: the downloads, the authentication store and the player; and, at  *)
(* the end, the types of the specification that joins them.                *)
(***************************************************************************)
EXTENDS MCMobile, FiniteSetTheorems, SequenceTheorems, TLAPS

-----------------------------------------------------------------------------
(* The downloads.                                                          *)

\* The type of what a loop knows.
LoopState == [pc : LoopPc, track : Tracks \cup {NoTrack}, goal : Goal,
              jobs : JobList, index : SUBSET Tracks]

\* The type of what a tap knows.
TapState == [pc : {"idle", "writing", "done"}, track : Tracks \cup {NoTrack},
             jobs : JobList]

\* What one loop does, failing or not.
AnyLoopStep(p) == LoopStep(p) \/ AskFails(p) \/ ReadFails(p) \/ WriteFails(p)

\* What one tap does.
AnyTapStep(u) == (\E t \in Tracks : QueueDownload(u, t)) \/ SaveQueued(u) \/ TapFails(u)

-----------------------------------------------------------------------------
(* Types.                                                                  *)

\* The stored lists, the tasks and the bounds start well typed.
LEMMA InitTypeOK == Init => TypeOK
<1> SUFFICES ASSUME Init PROVE TypeOK
  OBVIOUS
<1>1. NoJobs \in JobList
  BY DEF NoJobs, JobList, JobStatus
<1> QED
  BY <1>1, DownloadsAssumption DEF Init, TypeOK, Tapping, Idle, LoopPc, Goal

\* A loop that is at a job knows the job and what it goes for.
LEMMA AtJob ==
  ASSUME TypeOK, NEW p \in Loops, loop[p].pc \notin {"idle", "finding"}
  PROVE  /\ loop[p].track \in Tracks
         /\ loop[p].goal \in {"running", "progress", "completed", "failed"}
         /\ loop[p] \in LoopState
<1>1. loop[p] \in LoopState
  BY DEF TypeOK, LoopState
<1> QED
  BY <1>1 DEF TypeOK, LoopState, Goal

\* Patching a job that was read gives a list again.
LEMMA PatchedType ==
  ASSUME TypeOK, NEW p \in Loops, loop[p].pc = "writing"
  PROVE  Patched(p) \in JobList
<1>1. /\ loop[p].track \in Tracks /\ loop[p] \in LoopState
      /\ loop[p].goal \in {"running", "progress", "completed", "failed"}
  BY AtJob
<1>2. loop[p].jobs \in [Tracks -> JobStatus]
  BY <1>1 DEF LoopState, JobList
<1>3. loop[p].goal # "progress" => loop[p].goal \in JobStatus
  BY <1>1 DEF JobStatus
<1> QED
  BY <1>1, <1>2, <1>3 DEF Patched, JobList

\* What TypeOK says of one loop.
Sound(s) ==
  /\ s \in LoopState
  /\ s.track = NoTrack <=> s.pc \in {"idle", "finding"}
  /\ s.goal = "none" <=> s.pc \in {"idle", "finding"}

\* A step after which loop p is as s, and the others are as they were.
Moves(p, s) == Sound(s) /\ loop' = [loop EXCEPT ![p] = s]

\* A loop is well typed in every well-typed state.
LEMMA LoopsSound ==
  ASSUME TypeOK PROVE loop \in [Loops -> LoopState] /\ \A p \in Loops : Sound(loop[p])
BY DEF TypeOK, Sound, LoopState

\* An idle loop is well typed.
LEMMA IdleSound == Sound(Idle) /\ Idle.track = NoTrack /\ NoJobs \in JobList
<1>1. NoJobs \in JobList
  BY DEF NoJobs, JobList, JobStatus
<1> QED
  BY <1>1 DEF Sound, Idle, LoopState, LoopPc, Goal

\* A loop that takes a job or keeps the one it has is well typed.
LEMMA AtJobSound ==
  ASSUME NEW s \in LoopState, s.track \in Tracks, s.goal # "none",
         s.pc \notin {"idle", "finding"}
  PROVE  Sound(s)
BY DownloadsAssumption DEF Sound

\* It is enough that the loop that moves stays well typed.
LEMMA StepTypeOK ==
  ASSUME TypeOK, NEW p \in Loops, NEW s, Moves(p, s),
         jobs' \in JobList, index' \subseteq Tracks, tap' \in [Taps -> TapState],
         faults' \in 0..MaxFaults,
         hazard' \subseteq {"overlap", "indexOverlap", "staleFind", "failure", "restart"}
  PROVE  TypeOK'
<1>1. loop' \in [Loops -> LoopState]
  BY LoopsSound DEF Moves, Sound
<1>2. \A q \in Loops : Sound(loop'[q])
  BY LoopsSound DEF Moves
<1> QED
  BY <1>1, <1>2 DEF TypeOK, Sound, LoopState, TapState

\* A failure is counted within the bound.
LEMMA FaultType == TypeOK /\ Fault => faults' \in 0..MaxFaults
BY DownloadsAssumption DEF TypeOK, Fault

\* Where a loop may go, by the action it takes.
LEMMA LoopMoves ==
  ASSUME TypeOK, NEW p \in Loops, AnyLoopStep(p)
  PROVE  \E s : Moves(p, s)
<1>0. loop \in [Loops -> LoopState] /\ loop[p] \in LoopState /\ Sound(loop[p])
  BY LoopsSound
<1>1. ASSUME NEW t \in Tracks, NEW g \in Goal \ {"none"}
      PROVE  Sound([Idle EXCEPT !.pc = "reading", !.track = t, !.goal = g])
  <2> DEFINE s == [Idle EXCEPT !.pc = "reading", !.track = t, !.goal = g]
  <2>1. Idle \in LoopState
    BY IdleSound DEF Sound
  <2>2. s \in LoopState
    <3>1. t \in Tracks \cup {NoTrack} /\ g \in Goal /\ "reading" \in LoopPc
      BY DEF LoopPc
    <3> QED
      BY <2>1, <3>1 DEF LoopState
  <2>3. s.track = t /\ s.goal = g /\ s.pc = "reading"
    BY <2>1 DEF LoopState
  <2>5. g # "none"
    BY <1>1
  <2>4. Sound(s)
    BY <2>2, <2>3, <2>5, AtJobSound
  <2> QED
    BY <2>4 DEF s
<1>2. CASE Find(p)
  <2>1. Sound(Idle)
    BY IdleSound
  <2>2. CASE \E t \in Tracks : loop' = [loop EXCEPT ![p] =
               [Idle EXCEPT !.pc = "reading", !.track = t, !.goal = "running"]]
    BY <1>1, <2>2 DEF Moves, Goal
  <2>3. CASE loop' = [loop EXCEPT ![p] = Idle]
    BY <2>1, <2>3 DEF Moves
  <2> QED
    BY <1>2, <2>2, <2>3 DEF Find
<1>3. ASSUME loop[p].pc \notin {"idle", "finding"}
      PROVE  loop[p].track \in Tracks /\ loop[p].goal \in Goal \ {"none"}
  BY <1>3, AtJob DEF Goal
<1>4. CASE ReadJobs(p)
  <2> DEFINE s == [loop[p] EXCEPT !.pc = "writing", !.jobs = jobs]
  <2>1. loop' = [loop EXCEPT ![p] = s]
    BY <1>0, <1>4 DEF ReadJobs
  <2>2. Sound(s)
    BY <1>0, <1>3, <1>4, AtJobSound DEF ReadJobs, LoopState, LoopPc, TypeOK
  <2> QED
    BY <2>1, <2>2 DEF Moves
<1>5. CASE WriteJobs(p)
  <2>1. loop' = [loop EXCEPT ![p] = After(p)]
    BY <1>5 DEF WriteJobs
  <2>2. CASE loop[p].goal \in {"running", "progress"}
    <3> DEFINE s(pc) == [loop[p] EXCEPT !.pc = pc, !.jobs = NoJobs]
    <3>1. After(p) = s("asking") \/ After(p) = s("fetching")
      BY <2>2 DEF After
    <3>2. Sound(s("asking")) /\ Sound(s("fetching"))
      BY <1>0, <1>3, <1>5, AtJobSound, IdleSound DEF WriteJobs, LoopState, LoopPc
    <3> QED
      BY <2>1, <3>1, <3>2 DEF Moves
  <2>3. CASE loop[p].goal \notin {"running", "progress"}
    <3>1. After(p) = [Idle EXCEPT !.pc = "finding"]
      BY <2>3 DEF After
    <3>2. Sound([Idle EXCEPT !.pc = "finding"])
      BY IdleSound DEF Sound, Idle, LoopState, LoopPc, Goal
    <3> QED
      BY <2>1, <3>1, <3>2 DEF Moves
  <2> QED
    BY <2>2, <2>3
<1>6. ASSUME NEW g \in Goal \ {"none"}, loop' = Towards(p, g),
             loop[p].pc \notin {"idle", "finding"}
      PROVE  \E s : Moves(p, s)
  <2> DEFINE s == [loop[p] EXCEPT !.pc = "reading", !.goal = g]
  <2>1. loop' = [loop EXCEPT ![p] = s]
    BY <1>0, <1>6 DEF Towards
  <2>2. Sound(s)
    BY <1>0, <1>3, <1>6, AtJobSound DEF LoopState, LoopPc
  <2> QED
    BY <2>1, <2>2 DEF Moves
<1>7. CASE Ask(p)
  BY <1>6, <1>7 DEF Ask, Goal
<1>8. CASE AskFails(p)
  BY <1>6, <1>8 DEF AskFails, Goal
<1>9. CASE ReadIndex(p)
  <2> DEFINE s == [loop[p] EXCEPT !.pc = "entering", !.index = index]
  <2>1. loop' = [loop EXCEPT ![p] = s]
    BY <1>0, <1>9 DEF ReadIndex
  <2>2. Sound(s)
    BY <1>0, <1>3, <1>9, AtJobSound DEF ReadIndex, LoopState, LoopPc, TypeOK
  <2> QED
    BY <2>1, <2>2 DEF Moves
<1>10. CASE WriteIndex(p)
  <2> DEFINE s == [loop[p] EXCEPT !.pc = "reading", !.goal = "completed", !.index = {}]
  <2>1. loop' = [loop EXCEPT ![p] = s]
    BY <1>0, <1>10 DEF WriteIndex
  <2>2. Sound(s)
    BY <1>0, <1>3, <1>10, AtJobSound DEF WriteIndex, LoopState, LoopPc, Goal
  <2> QED
    BY <2>1, <2>2 DEF Moves
<1>11. CASE ReadFails(p)
  <2>1. CASE loop[p].pc = "finding"
    BY <1>11, <2>1, IdleSound DEF ReadFails, Moves
  <2>2. CASE loop[p].pc # "finding"
    <3>1. PICK pc \in {"writing", "entering"} : loop' = [loop EXCEPT ![p].pc = pc]
      BY <1>11, <2>2 DEF ReadFails
    <3>2. loop' = [loop EXCEPT ![p] = [loop[p] EXCEPT !.pc = pc]]
      BY <1>0, <3>1
    <3>3. Sound([loop[p] EXCEPT !.pc = pc])
      BY <1>0, <1>3, <1>11, <2>2, AtJobSound DEF ReadFails, LoopState, LoopPc
    <3> QED
      BY <3>2, <3>3 DEF Moves
  <2> QED
    BY <2>1, <2>2
<1>12. CASE WriteFails(p)
  <2>1. Sound([Idle EXCEPT !.pc = "reading", !.track = loop[p].track, !.goal = "failed"])
    BY <1>1, <1>3, <1>12 DEF WriteFails, Goal
  <2>2. [Idle EXCEPT !.pc = "reading", !.goal = "failed", !.track = loop[p].track]
        = [Idle EXCEPT !.pc = "reading", !.track = loop[p].track, !.goal = "failed"]
    BY DEF Idle
  <2> QED
    BY <1>12, <2>1, <2>2, IdleSound DEF WriteFails, Moves
<1> QED
  BY <1>2, <1>4, <1>5, <1>7, <1>8, <1>9, <1>10, <1>11, <1>12 DEF AnyLoopStep, LoopStep

\* Every step of a loop leaves everything well typed.
LEMMA LoopTypeOK ==
  ASSUME TypeOK, NEW p \in Loops, AnyLoopStep(p)
  PROVE  TypeOK'
<1>1. PICK s : Moves(p, s)
  BY LoopMoves
<1>2. jobs' \in JobList
  BY PatchedType DEF AnyLoopStep, LoopStep, Find, ReadJobs, WriteJobs, Save, Ask,
     ReadIndex, WriteIndex, AskFails, ReadFails, WriteFails, TypeOK
<1>3. index' \subseteq Tracks
  <2>1. CASE WriteIndex(p)
    BY <2>1, AtJob DEF WriteIndex, LoopState
  <2>2. CASE ~WriteIndex(p)
    BY <2>2 DEF AnyLoopStep, LoopStep, Find, ReadJobs, WriteJobs, Ask,
       ReadIndex, AskFails, ReadFails, WriteFails, TypeOK
  <2> QED
    BY <2>1, <2>2
<1>4. tap' \in [Taps -> TapState]
  BY DEF AnyLoopStep, LoopStep, Find, ReadJobs, WriteJobs, Ask,
     ReadIndex, WriteIndex, AskFails, ReadFails, WriteFails, TypeOK, TapState
<1>5. faults' \in 0..MaxFaults
  BY FaultType DEF AnyLoopStep, LoopStep, Find, ReadJobs, WriteJobs, Ask,
     ReadIndex, WriteIndex, AskFails, ReadFails, WriteFails, TypeOK
<1>6. hazard' \subseteq {"overlap", "indexOverlap", "staleFind", "failure", "restart"}
  BY DEF AnyLoopStep, LoopStep, Find, ReadJobs, WriteJobs, Save, Ask,
     ReadIndex, WriteIndex, AskFails, ReadFails, WriteFails, TypeOK
<1> QED
  BY <1>1, <1>2, <1>3, <1>4, <1>5, <1>6, StepTypeOK

\* A loop that starts is well typed.
LEMMA StartTypeOK ==
  ASSUME TypeOK, NEW p \in Loops, StartLoop(p)
  PROVE  \E s : Moves(p, s)
<1> DEFINE s == [loop[p] EXCEPT !.pc = "finding"]
<1>1. loop' = [loop EXCEPT ![p] = s]
  BY LoopsSound DEF StartLoop
<1>2. Sound(s)
  BY LoopsSound DEF StartLoop, Sound, LoopState, LoopPc
<1> QED
  BY <1>1, <1>2 DEF Moves

\* So does every step of a tap, of the library screen and a restart.
LEMMA OtherTypeOK ==
  ASSUME TypeOK, (\E u \in Taps : AnyTapStep(u)) \/ OpenLibrary \/ Restart
  PROVE  TypeOK'
<1>0. tap \in [Taps -> TapState] /\ NoJobs \in JobList /\ jobs \in JobList
  BY IdleSound DEF TypeOK, TapState
<1>1. ASSUME NEW u \in Taps, NEW t \in Tracks, QueueDownload(u, t) PROVE TypeOK'
  BY <1>0, <1>1 DEF QueueDownload, Tapping, TypeOK
<1>2. ASSUME NEW u \in Taps, SaveQueued(u) PROVE TypeOK'
  <2>1. PICK p \in Loops : StartLoop(p)
    BY <1>2 DEF SaveQueued
  <2>2. PICK s : Moves(p, s)
    BY <2>1, StartTypeOK
  <2>3. jobs' \in JobList
    BY <1>0, <1>2 DEF SaveQueued, Save, TapState, JobList, JobStatus
  <2>4. tap' \in [Taps -> TapState]
    BY <1>0, <1>2 DEF SaveQueued, Tapping, TapState
  <2>5. /\ index' = index /\ faults' = faults
        /\ hazard' \subseteq {"overlap", "indexOverlap", "staleFind", "failure", "restart"}
    BY <1>2 DEF SaveQueued, Save, TypeOK
  <2> QED
    BY <2>2, <2>3, <2>4, <2>5, StepTypeOK DEF TypeOK
<1>3. ASSUME NEW u \in Taps, TapFails(u) PROVE TypeOK'
  BY <1>0, <1>3, FaultType DEF TapFails, Tapping, TypeOK, TapState
<1>4. CASE OpenLibrary
  <2>1. PICK p \in Loops : StartLoop(p)
    BY <1>4 DEF OpenLibrary
  <2>2. PICK s : Moves(p, s)
    BY <2>1, StartTypeOK
  <2> QED
    BY <1>0, <1>4, <2>2, StepTypeOK DEF OpenLibrary, TypeOK
<1>5. CASE Restart
  <2>1. \A p \in Loops : loop'[p] = Idle
    BY <1>5 DEF Restart
  <2>2. loop' \in [Loops -> LoopState]
    BY <1>5, IdleSound DEF Restart, Sound
  <2>3. tap' \in [Taps -> TapState]
    BY <1>0, <1>5 DEF Restart, Tapping, TapState
  <2> QED
    BY <1>5, <2>1, <2>2, <2>3, IdleSound, FaultType
       DEF Restart, TypeOK, Sound, LoopState, TapState
<1> QED
  BY <1>1, <1>2, <1>3, <1>4, <1>5 DEF AnyTapStep

LEMMA DownloadsNextTypeOK == TypeOK /\ [Next]_vars => TypeOK'
<1> SUFFICES ASSUME TypeOK, [Next]_vars PROVE TypeOK'
  OBVIOUS
<1>1. CASE UNCHANGED vars
  BY <1>1 DEF vars, TypeOK
<1>2. CASE Next
  BY <1>2, LoopTypeOK, OtherTypeOK DEF Next, AnyLoopStep, AnyTapStep
<1> QED
  BY <1>1, <1>2

\* Every reachable state is well typed.
THEOREM DownloadsTypeCorrect == Spec => []TypeOK
  BY InitTypeOK, DownloadsNextTypeOK, PTL DEF Spec

-----------------------------------------------------------------------------
(* An interrupted job stays as it is.                                      *)

\* A loop keeps its hands off an interrupted job, unless storage fails.
LEMMA LoopLeavesInterrupted ==
  ASSUME TypeOK, NEW p \in Loops, LoopStep(p) \/ AskFails(p),
         NEW t \in Tracks, Interrupted(t)
  PROVE  Interrupted(t)'
<1>0. /\ loop \in [Loops -> LoopState] /\ loop[p].track # t /\ t # NoTrack
      /\ jobs[t] = "running" /\ Idle.track # t /\ Idle.pc # "writing"
      /\ \A q \in Loops : loop[q].track # t /\ (loop[q].pc = "writing" => loop[q].jobs[t] = "running")
  BY LoopsSound, IdleSound, DownloadsAssumption DEF Interrupted, Idle
<1> SUFFICES /\ jobs'[t] = "running" /\ tap' = tap
             /\ \A q \in Loops : /\ loop'[q].track # t
                                 /\ loop'[q].pc = "writing" => loop'[q].jobs[t] = "running"
  BY DEF Interrupted
<1>1. CASE Find(p)
  <2>1. ASSUME NEW v \in Tracks, v # t
        PROVE  LET s == [Idle EXCEPT !.pc = "reading", !.track = v, !.goal = "running"]
               IN  s.track # t /\ s.pc # "writing"
    BY <2>1, IdleSound DEF Sound, LoopState
  <2> QED
    BY <1>0, <1>1, <2>1 DEF Find
<1>2. CASE ReadJobs(p)
  BY <1>0, <1>2 DEF ReadJobs, LoopState
<1>3. CASE WriteJobs(p)
  <2>1. After(p).track # t /\ After(p).pc # "writing"
    <3>1. [Idle EXCEPT !.pc = "finding"].track # t /\ [Idle EXCEPT !.pc = "finding"].pc = "finding"
      BY <1>0, IdleSound DEF Sound, LoopState
    <3> QED
      BY <1>0, <3>1 DEF After, LoopState
  <2>2. Patched(p)[t] = "running"
    BY <1>0, <1>3 DEF WriteJobs, Patched, LoopState, JobList
  <2> QED
    BY <1>0, <1>3, <2>1, <2>2 DEF WriteJobs, Save
<1>4. CASE Ask(p) \/ AskFails(p)
  BY <1>0, <1>4 DEF Ask, AskFails, Towards, LoopState
<1>5. CASE ReadIndex(p) \/ WriteIndex(p)
  BY <1>0, <1>5 DEF ReadIndex, WriteIndex, LoopState
<1> QED
  BY <1>1, <1>2, <1>3, <1>4, <1>5 DEF LoopStep

\* So do the taps and the library screen.
LEMMA TapLeavesInterrupted ==
  ASSUME TypeOK, NEW t \in Tracks, Interrupted(t),
         \/ \E u \in Taps : (\E v \in Tracks : QueueDownload(u, v)) \/ SaveQueued(u)
         \/ OpenLibrary
  PROVE  Interrupted(t)'
<1>0. /\ tap \in [Taps -> TapState] /\ jobs[t] = "running"
      /\ loop \in [Loops -> LoopState]
  BY LoopsSound DEF TypeOK, TapState, Interrupted
<1>1. ASSUME NEW u \in Taps, NEW v \in Tracks, QueueDownload(u, v)
      PROVE  Interrupted(t)'
  BY <1>0, <1>1 DEF QueueDownload, Tapping, Interrupted
<1>2. ASSUME NEW p \in Loops, StartLoop(p)
      PROVE  \A q \in Loops : /\ loop'[q].track = loop[q].track
                              /\ loop'[q].pc = "writing" =>
                                   loop[q].pc = "writing" /\ loop'[q].jobs = loop[q].jobs
  BY <1>0, <1>2 DEF StartLoop, LoopState
<1>3. ASSUME NEW u \in Taps, SaveQueued(u) PROVE Interrupted(t)'
  <2>1. tap[u].track # t /\ tap[u].jobs[t] = "running" /\ tap[u].jobs \in [Tracks -> JobStatus]
    BY <1>0, <1>3 DEF SaveQueued, Interrupted, TapState, JobList
  <2>2. jobs'[t] = "running"
    BY <1>3, <2>1 DEF SaveQueued, Save
  <2>3. \A w \in Taps : tap'[w].pc = "writing" => tap'[w] = tap[w] /\ tap[w].pc = "writing"
    BY <1>0, <1>3 DEF SaveQueued, Tapping
  <2>4. PICK p \in Loops : StartLoop(p)
    BY <1>3 DEF SaveQueued
  <2> QED
    BY <1>2, <2>2, <2>3, <2>4 DEF Interrupted
<1>4. CASE OpenLibrary
  BY <1>2, <1>4 DEF OpenLibrary, Interrupted
<1> QED
  BY <1>1, <1>3, <1>4

\* A job that was left running is left running for good: nothing the device
\* does takes it up again.
THEOREM InterruptedStays == Spec => InterruptedIsStuck
<1>1. TypeOK /\ [Next]_vars =>
        [\A t \in Tracks : Interrupted(t) => Interrupted(t)' \/ "failure" \in hazard']_vars
  <2> SUFFICES ASSUME TypeOK, Next, NEW t \in Tracks, Interrupted(t)
               PROVE  Interrupted(t)' \/ "failure" \in hazard'
    BY DEF vars
  <2>1. CASE \E p \in Loops : ReadFails(p) \/ WriteFails(p)
    BY <2>1 DEF ReadFails, WriteFails
  <2>2. CASE \E u \in Taps : TapFails(u)
    BY <2>2 DEF TapFails
  <2>3. CASE Restart
    BY <2>3, IdleSound, DownloadsAssumption DEF Restart, Interrupted, Tapping, Idle
  <2> QED
    BY <2>1, <2>2, <2>3, LoopLeavesInterrupted, TapLeavesInterrupted DEF Next
<1> QED
  BY DownloadsTypeCorrect, <1>1, PTL DEF Spec, InterruptedIsStuck

-----------------------------------------------------------------------------
(* A completed job is in the index.                                        *)

\* Nothing has disturbed the index.
Clean == hazard \cap {"indexOverlap", "failure"} = {}

\* Every completed job of a list is in an index.
Backed(list, ix) == \A t \in Tracks : list[t] = "completed" => t \in ix

\* So it is in the copy that a loop is about to write, and its own job is
\* before the loop marks it as completed.
LoopBacked(s, ix) ==
  /\ s.pc = "writing" => Backed(s.jobs, ix)
  /\ s.goal = "completed" => s.track \in ix

\* The inductive invariant: the stored list is backed by the index, and so is
\* every copy that a task may still write over it.
AllBacked ==
  Clean => /\ Backed(jobs, index)
           /\ \A p \in Loops : LoopBacked(loop[p], index)
           /\ \A u \in Taps : tap[u].pc = "writing" => Backed(tap[u].jobs, index)

\* A loop keeps every list backed.
LEMMA LoopBacks ==
  ASSUME TypeOK, AllBacked, Clean, Clean', NEW p \in Loops, LoopStep(p) \/ AskFails(p)
  PROVE  AllBacked'
<1>0. /\ loop \in [Loops -> LoopState] /\ Backed(jobs, index)
      /\ \A q \in Loops : LoopBacked(loop[q], index)
      /\ \A u \in Taps : tap[u].pc = "writing" => Backed(tap[u].jobs, index)
  BY LoopsSound DEF AllBacked
<1>1. ASSUME NEW s, LoopBacked(s, index'), loop' = [loop EXCEPT ![p] = s],
             tap' = tap, index \subseteq index', Backed(jobs', index')
      PROVE  AllBacked'
  <2>1. \A q \in Loops : LoopBacked(loop'[q], index')
    BY <1>0, <1>1 DEF LoopBacked, Backed
  <2>2. \A u \in Taps : tap'[u].pc = "writing" => Backed(tap'[u].jobs, index')
    BY <1>0, <1>1 DEF Backed
  <2> QED
    BY <1>1, <2>1, <2>2 DEF AllBacked, LoopBacked, Backed
<1>2. Idle \in LoopState /\ LoopBacked(Idle, index)
  BY IdleSound DEF Sound, Idle, LoopBacked
<1>3. CASE Find(p)
  <2>1. ASSUME NEW t \in Tracks
        PROVE  LoopBacked([Idle EXCEPT !.pc = "reading", !.track = t, !.goal = "running"], index)
    BY <1>2 DEF LoopBacked, LoopState
  <2> QED
    BY <1>0, <1>1, <1>2, <1>3, <2>1 DEF Find
<1>4. CASE ReadJobs(p)
  <2>1. LoopBacked([loop[p] EXCEPT !.pc = "writing", !.jobs = jobs], index)
    BY <1>0 DEF LoopBacked, LoopState
  <2> QED
    BY <1>0, <1>1, <1>4, <2>1 DEF ReadJobs
<1>5. CASE WriteJobs(p)
  <2>1. LoopBacked(After(p), index)
    <3>1. LoopBacked([Idle EXCEPT !.pc = "finding"], index)
      BY <1>2, IdleSound DEF LoopBacked, LoopState, Idle
    <3> QED
      BY <1>0, <3>1 DEF After, LoopBacked, LoopState
  <2>2. Backed(Patched(p), index)
    BY <1>0, <1>5 DEF WriteJobs, Patched, LoopState, JobList, LoopBacked, Backed
  <2> QED
    BY <1>0, <1>1, <1>5, <2>1, <2>2 DEF WriteJobs, Save
<1>6. CASE Ask(p) \/ AskFails(p)
  <2>1. \A g : LoopBacked([loop[p] EXCEPT !.pc = "reading", !.goal = g], index)
               \/ g = "completed"
    BY <1>0 DEF LoopBacked, LoopState
  <2>2. PICK g \in {"progress", "failed"} :
             loop' = [loop EXCEPT ![p] = [loop[p] EXCEPT !.pc = "reading", !.goal = g]]
    BY <1>0, <1>6 DEF Ask, AskFails, Towards
  <2> QED
    BY <1>0, <1>1, <1>6, <2>1, <2>2 DEF Ask, AskFails
<1>7. CASE ReadIndex(p)
  <2>1. LoopBacked([loop[p] EXCEPT !.pc = "entering", !.index = index], index)
    BY <1>0 DEF LoopBacked, LoopState
  <2> QED
    BY <1>0, <1>1, <1>7, <2>1 DEF ReadIndex
<1>8. CASE WriteIndex(p)
  <2>1. index = loop[p].index /\ index' = index \cup {loop[p].track}
    BY <1>8 DEF WriteIndex, Clean
  <2>2. LoopBacked([loop[p] EXCEPT !.pc = "reading", !.goal = "completed", !.index = {}], index')
    BY <1>0, <2>1 DEF LoopBacked, LoopState
  <2>3. Backed(jobs, index')
    BY <1>0, <2>1 DEF Backed
  <2> QED
    BY <1>0, <1>1, <1>8, <2>1, <2>2, <2>3 DEF WriteIndex
<1> QED
  BY <1>3, <1>4, <1>5, <1>6, <1>7, <1>8 DEF LoopStep

\* So do the taps, the library screen and a restart.
LEMMA OtherBacks ==
  ASSUME TypeOK, AllBacked, Clean,
         \/ \E u \in Taps : (\E t \in Tracks : QueueDownload(u, t)) \/ SaveQueued(u)
         \/ OpenLibrary
         \/ Restart
  PROVE  AllBacked'
<1>0. /\ loop \in [Loops -> LoopState] /\ tap \in [Taps -> TapState]
      /\ Backed(jobs, index)
      /\ \A q \in Loops : LoopBacked(loop[q], index)
      /\ \A u \in Taps : tap[u].pc = "writing" => Backed(tap[u].jobs, index)
  BY LoopsSound DEF AllBacked, TypeOK, TapState
<1>1. ASSUME NEW p \in Loops, StartLoop(p)
      PROVE  \A q \in Loops : LoopBacked(loop'[q], index)
  BY <1>0, <1>1 DEF StartLoop, LoopState, LoopBacked
<1>2. ASSUME NEW u \in Taps, NEW t \in Tracks, QueueDownload(u, t) PROVE AllBacked'
  <2>1. \A w \in Taps : tap'[w].pc = "writing" => Backed(tap'[w].jobs, index)
    BY <1>0, <1>2 DEF QueueDownload, Tapping
  <2> QED
    BY <1>0, <1>2, <2>1 DEF QueueDownload, AllBacked, LoopBacked, Backed
<1>3. ASSUME NEW u \in Taps, SaveQueued(u) PROVE AllBacked'
  <2>1. Backed(jobs', index)
    BY <1>0, <1>3 DEF SaveQueued, Save, Backed, TapState, JobList
  <2>2. \A w \in Taps : tap'[w].pc = "writing" => Backed(tap'[w].jobs, index)
    BY <1>0, <1>3 DEF SaveQueued, Tapping
  <2>3. \A q \in Loops : LoopBacked(loop'[q], index)
    BY <1>1, <1>3 DEF SaveQueued
  <2> QED
    BY <1>3, <2>1, <2>2, <2>3 DEF SaveQueued, AllBacked, LoopBacked, Backed
<1>4. CASE OpenLibrary
  <2>1. \A q \in Loops : LoopBacked(loop'[q], index)
    BY <1>1, <1>4 DEF OpenLibrary
  <2> QED
    BY <1>0, <1>4, <2>1 DEF OpenLibrary, AllBacked, LoopBacked, Backed
<1>5. CASE Restart
  <2>1. \A q \in Loops : LoopBacked(loop'[q], index)
    BY <1>5 DEF Restart, LoopBacked, Idle
  <2>2. \A w \in Taps : tap'[w].pc = "writing" => Backed(tap'[w].jobs, index)
    BY <1>0, <1>5 DEF Restart, Tapping
  <2> QED
    BY <1>0, <1>5, <2>1, <2>2 DEF Restart, AllBacked, LoopBacked, Backed
<1> QED
  BY <1>2, <1>3, <1>4, <1>5

\* A completed job has its track in the index, unless two updates of the
\* index overlap or the storage fails: overlapping updates of the job list
\* and restarts do no harm.
THEOREM CompletedBacked == Spec => []CompletedIsIndexed
<1>1. Init => AllBacked
  BY DEF Init, AllBacked, Backed, LoopBacked, NoJobs, Idle, Tapping
<1>2. TypeOK /\ AllBacked /\ [Next]_vars => AllBacked'
  <2> SUFFICES ASSUME TypeOK, AllBacked, [Next]_vars, Clean' PROVE AllBacked'
    BY DEF AllBacked
  <2>1. CASE UNCHANGED vars
    BY <2>1 DEF vars, AllBacked, Clean, Backed, LoopBacked
  <2>2. CASE Next
    <3>1. hazard \subseteq hazard'
      BY <2>2 DEF Next, LoopStep, QueueDownload, SaveQueued, Save, TapFails, OpenLibrary,
         Find, ReadJobs, WriteJobs, Ask, ReadIndex, WriteIndex, AskFails, ReadFails,
         WriteFails, Restart
    <3>2. Clean
      BY <3>1 DEF Clean
    <3>3. ~(\E p \in Loops : ReadFails(p) \/ WriteFails(p)) /\ ~(\E u \in Taps : TapFails(u))
      BY DEF Clean, ReadFails, WriteFails, TapFails
    <3> QED
      BY <2>2, <3>2, <3>3, LoopBacks, OtherBacks DEF Next
  <2> QED
    BY <2>1, <2>2
<1>3. AllBacked => CompletedIsIndexed
  BY DEF AllBacked, CompletedIsIndexed, Clean, Backed
<1> QED
  BY DownloadsTypeCorrect, <1>1, <1>2, <1>3, PTL DEF Spec
-----------------------------------------------------------------------------
(* Two loops do not work on one job.                                       *)

\* No loop found a job too late, and no update of the list overlapped another.
Calm == hazard \cap {"staleFind", "overlap"} = {}

\* A loop that has marked its job as running and has not yet ended it.
Holds(s) ==
  \/ s.pc \in {"asking", "fetching", "entering"}
  \/ s.pc \in {"reading", "writing"} /\ s.goal # "running"

\* The inductive invariant: the job of a loop is marked as long as the loop
\* holds it, no other loop holds it, and no tap is about to queue a job that
\* was marked when it read the list.
HeldOnce ==
  Calm =>
    /\ \A p \in Loops : Holds(loop[p]) => jobs[loop[p].track] = "running"
    /\ \A p, q \in Loops :
         Holds(loop[p]) /\ Holds(loop[q]) /\ loop[p].track = loop[q].track => p = q
    /\ \A u \in Taps : tap[u].pc = "writing" =>
         tap[u].track \in Tracks /\ tap[u].jobs[tap[u].track] \notin {"queued", "running"}

\* It is enough that the marks stay, and that a loop which moves holds
\* nothing new.
LEMMA LoopHolds ==
  ASSUME TypeOK, HeldOnce, Calm, NEW p \in Loops, NEW s, loop' = [loop EXCEPT ![p] = s],
         tap' = tap,
         \A q \in Loops : q # p /\ Holds(loop[q]) =>
           jobs'[loop[q].track] = "running" /\ (Holds(s) => s.track # loop[q].track),
         Holds(s) => jobs'[s.track] = "running"
  PROVE  HeldOnce'
<1>1. loop'[p] = s /\ \A q \in Loops : q # p => loop'[q] = loop[q]
  BY LoopsSound
<1>2. \A q \in Loops : Holds(loop'[q]) => jobs'[loop'[q].track] = "running"
  BY <1>1
<1>3. \A q, r \in Loops : Holds(loop'[q]) /\ Holds(loop'[r]) /\ loop'[q].track = loop'[r].track
        => q = r
  BY <1>1 DEF HeldOnce
<1> QED
  BY <1>2, <1>3 DEF HeldOnce, Holds

\* A loop that keeps its job, or takes none that is held, keeps the marks.
LEMMA QuietHolds ==
  ASSUME TypeOK, HeldOnce, Calm, NEW p \in Loops, NEW s, loop' = [loop EXCEPT ![p] = s],
         tap' = tap, jobs' = jobs, Holds(s) => Holds(loop[p]) /\ s.track = loop[p].track
  PROVE  HeldOnce'
<1>1. \A q \in Loops : Holds(loop[q]) => jobs[loop[q].track] = "running"
  BY DEF HeldOnce
<1>2. \A q \in Loops : q # p /\ Holds(loop[q]) /\ Holds(loop[p]) => loop[p].track # loop[q].track
  BY DEF HeldOnce
<1>3. \A q \in Loops : q # p /\ Holds(loop[q]) =>
        jobs'[loop[q].track] = "running" /\ (Holds(s) => s.track # loop[q].track)
  BY <1>1, <1>2
<1>4. Holds(s) => jobs'[s.track] = "running"
  BY <1>1
<1> QED
  BY <1>3, <1>4, LoopHolds

\* A loop marks a job that is queued, and ends the job that it holds.
LEMMA WriteHolds ==
  ASSUME TypeOK, HeldOnce, Calm, Calm', NEW p \in Loops, WriteJobs(p)
  PROVE  HeldOnce'
<1> DEFINE t == loop[p].track
           g == loop[p].goal
<1>1. /\ loop[p].pc = "writing" /\ loop[p].jobs = jobs /\ jobs' = Patched(p)
      /\ g = "running" => jobs[t] = "queued"
      /\ loop' = [loop EXCEPT ![p] = After(p)] /\ tap' = tap
  BY DEF WriteJobs, Save, Calm
<1>2. /\ t \in Tracks /\ g \in {"running", "progress", "completed", "failed"}
      /\ loop[p] \in LoopState /\ jobs \in [Tracks -> JobStatus]
  BY <1>1, AtJob DEF TypeOK, JobList
<1>3. \A q \in Loops : Holds(loop[q]) => jobs[loop[q].track] = "running"
  BY DEF HeldOnce
<1>4. g # "running" => Holds(loop[p]) /\ jobs[t] = "running"
  BY <1>1, <1>3 DEF Holds
<1>5. \A q \in Loops : q # p /\ Holds(loop[q]) => loop[q].track # t
  BY <1>1, <1>2, <1>3, <1>4 DEF HeldOnce
<1>6. \A v \in Tracks : v # t => jobs'[v] = jobs[v]
  BY <1>1, <1>2 DEF Patched
<1>7. g \in {"running", "progress"} => jobs'[t] = "running"
  BY <1>1, <1>2, <1>4 DEF Patched
<1>8. Holds(After(p)) => g \in {"running", "progress"} /\ After(p).track = t
  <2>1. CASE g \in {"running", "progress"}
    BY <1>2, <2>1 DEF After, LoopState
  <2>2. CASE g \notin {"running", "progress"}
    <3>1. After(p) = [Idle EXCEPT !.pc = "finding"]
      BY <2>2 DEF After
    <3>2. After(p).pc = "finding"
      BY <3>1, IdleSound DEF Sound, LoopState
    <3> QED
      BY <3>2 DEF Holds
  <2> QED
    BY <2>1, <2>2
<1>9. \A q \in Loops : q # p /\ Holds(loop[q]) => jobs'[loop[q].track] = "running"
  <2> SUFFICES ASSUME NEW q \in Loops, q # p, Holds(loop[q])
               PROVE  jobs'[loop[q].track] = "running"
    OBVIOUS
  <2>1. loop[q].track \in Tracks
    BY LoopsSound, AtJob DEF Holds
  <2> QED
    BY <1>3, <1>5, <1>6, <2>1
<1>10. \A q \in Loops : q # p /\ Holds(loop[q]) =>
         jobs'[loop[q].track] = "running" /\ (Holds(After(p)) => After(p).track # loop[q].track)
  BY <1>5, <1>8, <1>9
<1>11. Holds(After(p)) => jobs'[After(p).track] = "running"
  BY <1>7, <1>8
<1> QED
  BY <1>1, <1>10, <1>11, LoopHolds

\* Every other step of a loop leaves the list alone.
LEMMA LoopStepHolds ==
  ASSUME TypeOK, HeldOnce, Calm, Calm', NEW p \in Loops, AnyLoopStep(p)
  PROVE  HeldOnce'
<1>0. loop \in [Loops -> LoopState] /\ loop[p] \in LoopState /\ Idle \in LoopState
      /\ ~Holds(Idle)
  BY LoopsSound, IdleSound DEF Sound, Holds, Idle
<1>1. CASE Find(p)
  <2>1. ASSUME NEW t \in Tracks
        PROVE  ~Holds([Idle EXCEPT !.pc = "reading", !.track = t, !.goal = "running"])
    BY <1>0 DEF Holds, LoopState
  <2> QED
    BY <1>0, <1>1, <2>1, QuietHolds DEF Find
<1>2. CASE WriteJobs(p)
  BY <1>2, WriteHolds
<1>3. CASE ReadJobs(p) \/ Ask(p) \/ AskFails(p) \/ ReadIndex(p) \/ WriteIndex(p)
  <2>1. loop[p].pc \in {"reading", "asking", "fetching", "entering"} /\ tap' = tap /\ jobs' = jobs
    BY <1>3 DEF ReadJobs, Ask, AskFails, ReadIndex, WriteIndex
  <2>2. PICK s : /\ loop' = [loop EXCEPT ![p] = s] /\ s.track = loop[p].track
                 /\ s.goal = loop[p].goal \/ Holds(loop[p])
                 /\ loop[p].pc = "reading" => s.pc = "writing" /\ s.goal = loop[p].goal
    BY <1>0, <1>3 DEF ReadJobs, Ask, AskFails, ReadIndex, WriteIndex, Towards, LoopState, Holds
  <2>3. Holds(s) => Holds(loop[p])
    BY <2>1, <2>2 DEF Holds
  <2> QED
    BY <2>1, <2>2, <2>3, QuietHolds
<1>4. CASE ReadFails(p)
  <2>1. loop[p].pc \in {"finding", "reading", "fetching"} /\ tap' = tap /\ jobs' = jobs
    BY <1>4 DEF ReadFails
  <2>2. PICK s : /\ loop' = [loop EXCEPT ![p] = s]
                 /\ Holds(s) => Holds(loop[p]) /\ s.track = loop[p].track
    <3>1. CASE loop[p].pc = "finding"
      BY <1>0, <1>4, <3>1 DEF ReadFails
    <3>2. CASE loop[p].pc = "reading"
      <4> DEFINE r == [loop[p] EXCEPT !.pc = "writing"]
      <4>1. loop' = [loop EXCEPT ![p] = r]
        BY <1>0, <1>4, <3>2 DEF ReadFails
      <4>2. r.pc = "writing" /\ r.goal = loop[p].goal /\ r.track = loop[p].track
        BY <1>0 DEF LoopState
      <4> QED
        BY <3>2, <4>1, <4>2 DEF Holds
    <3>3. CASE loop[p].pc = "fetching"
      <4> DEFINE r == [loop[p] EXCEPT !.pc = "entering"]
      <4>1. loop' = [loop EXCEPT ![p] = r]
        BY <1>0, <1>4, <3>3 DEF ReadFails
      <4>2. r.track = loop[p].track
        BY <1>0 DEF LoopState
      <4> QED
        BY <3>3, <4>1, <4>2 DEF Holds
    <3> QED
      BY <2>1, <3>1, <3>2, <3>3
  <2> QED
    BY <2>1, <2>2, QuietHolds
<1>5. CASE WriteFails(p)
  <2>1. loop[p].pc \in {"writing", "entering"} /\ tap' = tap /\ jobs' = jobs
    BY <1>5 DEF WriteFails
  <2> DEFINE f == [Idle EXCEPT !.pc = "reading", !.goal = "failed", !.track = loop[p].track]
  <2>2. f.track = loop[p].track
    BY <1>0 DEF LoopState
  <2> HIDE DEF f
  <2>3. CASE loop[p].pc = "writing" /\ loop[p].goal \in {"running", "failed"}
    BY <1>0, <1>5, <2>1, <2>3, QuietHolds DEF WriteFails
  <2>4. CASE ~(loop[p].pc = "writing" /\ loop[p].goal \in {"running", "failed"})
    <3>1. loop' = [loop EXCEPT ![p] = f] /\ Holds(loop[p])
      BY <1>5, <2>1, <2>4 DEF WriteFails, Holds, f
    <3> QED
      BY <2>1, <2>2, <3>1, QuietHolds
  <2> QED
    BY <2>3, <2>4
<1> QED
  BY <1>1, <1>2, <1>3, <1>4, <1>5 DEF AnyLoopStep, LoopStep

\* A tap queues only what nobody holds, and a loop that starts holds nothing.
LEMMA OtherHolds ==
  ASSUME TypeOK, HeldOnce, Calm, Calm', (\E u \in Taps : AnyTapStep(u)) \/ OpenLibrary \/ Restart
  PROVE  HeldOnce'
<1>0. /\ loop \in [Loops -> LoopState] /\ tap \in [Taps -> TapState]
      /\ \A u \in Taps : tap[u].pc = "writing" =>
           tap[u].track \in Tracks /\ tap[u].jobs[tap[u].track] \notin {"queued", "running"}
  BY LoopsSound DEF HeldOnce, TypeOK, TapState
<1>1. \A t \in Tracks : NoJobs[t] \notin {"queued", "running"}
  BY DEF NoJobs
<1>2. ASSUME loop' = loop, jobs' = jobs,
             \A u \in Taps : tap'[u].pc = "writing" =>
               tap'[u].track \in Tracks /\ tap'[u].jobs[tap'[u].track] \notin {"queued", "running"}
      PROVE  HeldOnce'
  BY <1>2 DEF HeldOnce, Holds
<1>3. ASSUME NEW u \in Taps, NEW t \in Tracks, QueueDownload(u, t) PROVE HeldOnce'
  <2>1. \A w \in Taps : tap'[w].pc = "writing" =>
          tap'[w].track \in Tracks /\ tap'[w].jobs[tap'[w].track] \notin {"queued", "running"}
    BY <1>0, <1>3 DEF QueueDownload, Tapping
  <2> QED
    BY <1>2, <1>3, <2>1 DEF QueueDownload
<1>4. ASSUME NEW u \in Taps, TapFails(u) PROVE HeldOnce'
  <2>1. \A w \in Taps : tap'[w].pc = "writing" =>
          tap'[w].track \in Tracks /\ tap'[w].jobs[tap'[w].track] \notin {"queued", "running"}
    BY <1>0, <1>1, <1>4 DEF TapFails, Tapping
  <2> QED
    BY <1>2, <1>4, <2>1 DEF TapFails
<1>5. ASSUME NEW p \in Loops, StartLoop(p)
      PROVE  \A q \in Loops : Holds(loop'[q]) => loop'[q] = loop[q]
  BY <1>0, <1>5 DEF StartLoop, LoopState, Holds
<1>6. ASSUME NEW u \in Taps, SaveQueued(u) PROVE HeldOnce'
  <2>1. /\ tap[u].jobs = jobs /\ tap[u].track \in Tracks /\ jobs[tap[u].track] # "running"
        /\ jobs' = [jobs EXCEPT ![tap[u].track] = "queued"]
        /\ tap' = [tap EXCEPT ![u] = Tapping("done", @.track, NoJobs)]
    BY <1>0, <1>6 DEF SaveQueued, Save, Calm
  <2>2. \A q \in Loops : Holds(loop'[q]) => loop'[q] = loop[q]
    BY <1>5, <1>6 DEF SaveQueued
  <2>3. \A q \in Loops : Holds(loop'[q]) => jobs'[loop'[q].track] = "running"
    <3> SUFFICES ASSUME NEW q \in Loops, Holds(loop'[q])
                 PROVE  jobs'[loop[q].track] = "running"
      BY <2>2
    <3>1. Holds(loop[q]) /\ jobs[loop[q].track] = "running"
      BY <2>2 DEF HeldOnce
    <3>2. loop[q].track \in Tracks
      BY <3>1, AtJob DEF Holds
    <3> QED
      BY <2>1, <3>1, <3>2 DEF TypeOK, JobList
  <2>4. \A w \in Taps : tap'[w].pc = "writing" => tap'[w] = tap[w]
    BY <1>0, <2>1 DEF Tapping
  <2>5. \A q, r \in Loops : Holds(loop'[q]) /\ Holds(loop'[r]) /\ loop'[q].track = loop'[r].track
          => q = r
    BY <2>2 DEF HeldOnce
  <2> QED
    BY <1>0, <2>3, <2>4, <2>5 DEF HeldOnce, Holds
<1>7. CASE OpenLibrary
  <2>1. \A q \in Loops : Holds(loop'[q]) => loop'[q] = loop[q]
    BY <1>5, <1>7 DEF OpenLibrary
  <2>2. \A q \in Loops : Holds(loop'[q]) => jobs[loop'[q].track] = "running"
    BY <2>1 DEF HeldOnce
  <2>3. \A q, r \in Loops : Holds(loop'[q]) /\ Holds(loop'[r]) /\ loop'[q].track = loop'[r].track
          => q = r
    BY <2>1 DEF HeldOnce
  <2> QED
    BY <1>0, <1>7, <2>2, <2>3 DEF OpenLibrary, HeldOnce, Holds
<1>8. CASE Restart
  <2>1. \A q \in Loops : ~Holds(loop'[q])
    BY <1>8 DEF Restart, Holds, Idle
  <2>2. \A w \in Taps : tap'[w].pc # "writing"
    BY <1>0, <1>8 DEF Restart, Tapping
  <2> QED
    BY <2>1, <2>2 DEF HeldOnce, Holds
<1> QED
  BY <1>3, <1>4, <1>6, <1>7, <1>8 DEF AnyTapStep

\* Two loops work on one job only if one found it before the other had marked
\* it or an overlapping write took the mark back, whatever fails and however
\* often the application is restarted (processQueue).
THEOREM OneLoop == Spec => []OneLoopPerJob
<1>1. Init => HeldOnce
  BY DEF Init, HeldOnce, Holds, Idle, Tapping
<1>2. TypeOK /\ HeldOnce /\ [Next]_vars => HeldOnce'
  <2> SUFFICES ASSUME TypeOK, HeldOnce, [Next]_vars, Calm' PROVE HeldOnce'
    BY DEF HeldOnce
  <2>1. CASE UNCHANGED vars
    BY <2>1 DEF vars, HeldOnce, Calm, Holds
  <2>2. CASE Next
    <3>1. hazard \subseteq hazard'
      BY <2>2 DEF Next, LoopStep, QueueDownload, SaveQueued, Save, TapFails, OpenLibrary,
         Find, ReadJobs, WriteJobs, Ask, ReadIndex, WriteIndex, AskFails, ReadFails,
         WriteFails, Restart
    <3>2. Calm
      BY <3>1 DEF Calm
    <3> QED
      BY <2>2, <3>2, LoopStepHolds, OtherHolds DEF Next, AnyLoopStep, AnyTapStep
  <2> QED
    BY <2>1, <2>2
<1>3. HeldOnce => OneLoopPerJob
  BY DEF HeldOnce, OneLoopPerJob, Calm, Holds
<1> QED
  BY DownloadsTypeCorrect, <1>1, <1>2, <1>3, PTL DEF Spec

-----------------------------------------------------------------------------
(* The authentication store.                                               *)

Awaits(c) == sign[c].pc \notin {"new", "done"}

\* A call waits for a step of its own kind, and one that was not made is none.
Kinds ==
  \A c \in Sign :
    /\ sign[c].pc = "new" => sign[c].op = "none"
    /\ sign[c].pc = "me" => sign[c].op = "hydrate"
    /\ sign[c].pc \in {"register", "login", "save"} => sign[c].op = "login"
    /\ sign[c].pc = "logout" => sign[c].op = "logout"
    /\ sign[c].pc = "clear" => sign[c].op \in {"hydrate", "logout"}

\* Until hydrate has ended nobody is shown, nothing else awaits, and the token
\* it asks about is the one that is stored; it has been called when it has ended.
HydrateInv ==
  /\ auth.isHydrated => \E c \in Sign : sign[c].op = "hydrate"
  /\ \A c, d \in Sign : sign[c].op = "hydrate" /\ sign[d].op = "hydrate" => c = d
  /\ \A c \in Sign : sign[c].op = "hydrate" /\ Awaits(c) => ~auth.isHydrated
  /\ ~auth.isHydrated => /\ auth.user = NoAccount
                         /\ \A c \in Sign : Awaits(c) => sign[c].op = "hydrate"
  /\ \A c \in Sign : sign[c].pc = "me" => sign[c].account = stored

\* One login awaits at a time, and nobody is shown meanwhile.
LoginInv ==
  /\ \A c \in Sign : sign[c].op = "login" /\ Awaits(c) => auth.user = NoAccount /\ auth.isLoading
  /\ \A c, d \in Sign : sign[c].op = "login" /\ Awaits(c) /\ sign[d].op = "login" /\ Awaits(d)
                        => c = d

\* A logout that awaits was made for what is shown.
LogoutInv ==
  \/ LogoutTwice
  \/ \A c \in Sign : sign[c].op = "logout" /\ Awaits(c) =>
       auth.user # NoAccount /\ sign[c].of = auth.by

AuthInv ==
  /\ AuthTypeOK /\ Kinds /\ HydrateInv /\ LoginInv /\ LogoutInv /\ UserMatchesToken

-----------------------------------------------------------------------------

LEMMA ModesHaveListener ==
  ASSUME NEW roles \in SUBSET Extra
  PROVE  "listener" \in deriveModes(roles) /\ deriveModes(roles) \subseteq {"listener"} \cup Extra
  BY DEF deriveModes, Extra

LEMMA AuthInitInv == AuthInit => AuthInv
  <1> SUFFICES ASSUME AuthInit PROVE AuthInv OBVIOUS
  <1>1. AuthTypeOK
    BY AuthStoreAssumption, ModesHaveListener
    DEF AuthInit, AuthTypeOK, AuthState, SignState, SignedOut, NewSign, deriveModes, Extra
  <1>2. \A c \in Sign : sign[c].pc = "new" /\ sign[c].op = "none" BY DEF AuthInit, NewSign
  <1>3. ~auth.isHydrated /\ auth.user = NoAccount /\ undone = {} BY DEF AuthInit, SignedOut
  <1> QED BY <1>1, <1>2, <1>3
    DEF AuthInv, Kinds, HydrateInv, LoginInv, LogoutInv, UserMatchesToken, Awaits

-----------------------------------------------------------------------------
(* The shapes of the steps: what they do to sign.                          *)

LEMMA CallShape ==
  ASSUME AuthTypeOK, NEW c \in Sign, NEW op \in {"hydrate", "login", "logout"},
         NEW pc \in {"me", "register", "login", "logout"},
         NEW a \in Accounts \cup {NoAccount}, Calls(c, op, pc, a)
  PROVE  /\ sign' \in [Sign -> SignState]
         /\ sign[c].pc = "new"
         /\ sign'[c] = [pc |-> pc, op |-> op, account |-> a, of |-> auth.by]
         /\ \A d \in Sign : d # c => sign'[d] = sign[d]
         /\ stored' = stored /\ undone' = undone
  <1> auth.by \in {0} \cup Sign BY DEF AuthTypeOK, AuthState
  <1> QED BY DEF AuthTypeOK, SignState, Calls

LEMMA ContinuesShape ==
  ASSUME AuthTypeOK, NEW c \in Sign, NEW pc,
         NEW next \in {"save", "login", "clear", "done"}, Continues(c, pc, next)
  PROVE  /\ sign' \in [Sign -> SignState]
         /\ sign[c].pc = pc
         /\ sign'[c].pc = next /\ sign'[c].op = sign[c].op
         /\ sign'[c].account = sign[c].account /\ sign'[c].of = sign[c].of
         /\ \A d \in Sign : d # c => sign'[d] = sign[d]
  BY DEF AuthTypeOK, SignState, Continues

LEMMA ShowsShape ==
  ASSUME AuthTypeOK, NEW c \in Sign, NEW a \in Accounts \cup {NoAccount}, NEW mode,
         mode \in {"listener"} \cup Extra, Shows(c, a, mode)
  PROVE  /\ auth' \in AuthState /\ auth'.activeMode \in deriveModes(auth'.roles)
         /\ auth'.user = a /\ auth'.isHydrated /\ ~auth'.isLoading /\ auth'.by = c
  <1>1. PICK roles \in SUBSET Extra :
          auth' = [auth EXCEPT !.user = a, !.roles = roles, !.isHydrated = TRUE,
                               !.isLoading = FALSE, !.by = c,
                               !.activeMode = IF mode \in deriveModes(roles) THEN mode
                                              ELSE "listener"]
    BY DEF Shows
  <1> QED BY <1>1, ModesHaveListener DEF AuthTypeOK, AuthState
-----------------------------------------------------------------------------
(* Preservation, action by action.                                         *)

\* hydrate begins: it is the only call since the start.
LEMMA HydrateKeeps ==
  ASSUME AuthInv, NEW c \in Sign, Hydrate(c)
  PROVE  AuthInv'
  <1> USE DEF AuthInv
  <1>1. /\ \A d \in Sign : sign[d].op # "hydrate"
        /\ auth' = auth /\ stored' = stored /\ undone' = undone
        /\ sign' \in [Sign -> SignState] /\ sign[c].pc = "new"
        /\ sign'[c] = [pc |-> "me", op |-> "hydrate", account |-> stored, of |-> auth.by]
        /\ \A d \in Sign : d # c => sign'[d] = sign[d]
    BY CallShape DEF Hydrate, AuthTypeOK
  <1>2. AuthTypeOK' BY <1>1 DEF AuthTypeOK, AuthState, SignState
  <1>3. Kinds' BY <1>1 DEF Kinds
  <1>4. HydrateInv' BY <1>1 DEF HydrateInv, Kinds, Awaits
  <1>5. LoginInv' BY <1>1 DEF LoginInv, HydrateInv, Kinds, Awaits
  <1>6. LogoutInv' BY <1>1 DEF LogoutInv, LogoutTwice, LoginInv, HydrateInv, Kinds, Awaits
  <1>7. UserMatchesToken' BY <1>1 DEF UserMatchesToken, LogoutInv, LogoutTwice, HydrateInv, LoginInv, Kinds, Awaits
  <1> QED BY <1>2, <1>3, <1>4, <1>5, <1>6, <1>7

\* The account that is shown is the one whose tokens are stored.
LEMMA MeKeeps ==
  ASSUME AuthInv, NEW c \in Sign, Me(c)
  PROVE  AuthInv'
  <1> USE DEF AuthInv
  <1>1. /\ sign' \in [Sign -> SignState] /\ sign[c].pc = "me"
        /\ sign'[c].pc = "done" /\ sign'[c].op = sign[c].op /\ sign'[c].of = sign[c].of
        /\ \A d \in Sign : d # c => sign'[d] = sign[d]
        /\ auth' \in AuthState /\ auth'.activeMode \in deriveModes(auth'.roles)
        /\ auth'.user = sign[c].account /\ auth'.isHydrated /\ stored' = stored /\ undone' = undone
    <2>1. sign[c].account \in Accounts \cup {NoAccount} /\ auth.activeMode \in {"listener"} \cup Extra
      BY DEF AuthTypeOK, AuthState, SignState
    <2> QED BY <2>1, ContinuesShape, ShowsShape DEF Me
  <1>2. AuthTypeOK' BY <1>1 DEF AuthTypeOK, AuthState, SignState
  <1>3. Kinds' BY <1>1 DEF Kinds
  <1>4. HydrateInv' BY <1>1 DEF HydrateInv, Kinds, Awaits
  <1>5. LoginInv' BY <1>1 DEF LoginInv, HydrateInv, Kinds, Awaits
  <1>6. LogoutInv' BY <1>1 DEF LogoutInv, LogoutTwice, LoginInv, HydrateInv, Kinds, Awaits
  <1>7. UserMatchesToken' BY <1>1 DEF UserMatchesToken, LogoutInv, LogoutTwice, HydrateInv, LoginInv, Kinds, Awaits
  <1> QED BY <1>2, <1>3, <1>4, <1>5, <1>6, <1>7

\* No step but the next one to take.
LEMMA MeFailsKeeps ==
  ASSUME AuthInv, NEW c \in Sign, MeFails(c)
  PROVE  AuthInv'
  <1> USE DEF AuthInv
  <1>1. /\ sign' \in [Sign -> SignState] /\ sign[c].pc = "me" /\ sign'[c].pc = "clear"
        /\ sign'[c].op = sign[c].op /\ sign'[c].of = sign[c].of
        /\ sign'[c].account = sign[c].account
        /\ \A d \in Sign : d # c => sign'[d] = sign[d]
        /\ auth' = auth /\ stored' = stored /\ undone' = undone
    BY ContinuesShape DEF MeFails
  <1>2. AuthTypeOK' BY <1>1 DEF AuthTypeOK, AuthState, SignState
  <1>3. Kinds' BY <1>1 DEF Kinds
  <1>4. HydrateInv' BY <1>1 DEF HydrateInv, Kinds, Awaits
  <1>5. LoginInv' BY <1>1 DEF LoginInv, HydrateInv, Kinds, Awaits
  <1>6. LogoutInv' BY <1>1 DEF LogoutInv, LogoutTwice, LoginInv, HydrateInv, Kinds, Awaits
  <1>7. UserMatchesToken' BY <1>1 DEF UserMatchesToken, LogoutInv, LogoutTwice, HydrateInv, LoginInv, Kinds, Awaits
  <1> QED BY <1>2, <1>3, <1>4, <1>5, <1>6, <1>7

\* A login begins only while nobody is shown and no login awaits.
LEMMA LoginKeeps ==
  ASSUME AuthInv, NEW c \in Sign, NEW a \in Accounts, Login(c, a)
  PROVE  AuthInv'
  <1> USE DEF AuthInv
  <1>1. /\ auth.isHydrated /\ auth.user = NoAccount /\ ~auth.isLoading
        /\ auth' = [auth EXCEPT !.isLoading = TRUE, !.error = FALSE]
        /\ stored' = stored /\ undone' = undone
        /\ sign' \in [Sign -> SignState] /\ sign[c].pc = "new"
        /\ sign'[c].pc \in {"login", "register"} /\ sign'[c].op = "login"
        /\ \A d \in Sign : d # c => sign'[d] = sign[d]
    <2>1. PICK pc \in {"login", "register"} : Calls(c, "login", pc, a) BY DEF Login
    <2>2. /\ sign' \in [Sign -> SignState] /\ sign[c].pc = "new"
          /\ sign'[c] = [pc |-> pc, op |-> "login", account |-> a, of |-> auth.by]
          /\ \A d \in Sign : d # c => sign'[d] = sign[d]
          /\ stored' = stored /\ undone' = undone
      BY <2>1, CallShape
    <2> QED BY <2>1, <2>2 DEF Login, CanSignIn
  <1>2. AuthTypeOK' BY <1>1 DEF AuthTypeOK, AuthState, SignState
  <1>3. Kinds' BY <1>1 DEF Kinds
  <1>4. HydrateInv' BY <1>1 DEF HydrateInv, Kinds, Awaits
  <1>5. LoginInv' BY <1>1 DEF LoginInv, HydrateInv, Kinds, Awaits
  <1>6. LogoutInv' BY <1>1 DEF LogoutInv, LogoutTwice, LoginInv, HydrateInv, Kinds, Awaits
  <1>7. UserMatchesToken' BY <1>1 DEF UserMatchesToken, LogoutInv, LogoutTwice, HydrateInv, LoginInv, Kinds, Awaits
  <1> QED BY <1>2, <1>3, <1>4, <1>5, <1>6, <1>7

\* register goes on with login.
LEMMA RegisteredKeeps ==
  ASSUME AuthInv, NEW c \in Sign, Registered(c)
  PROVE  AuthInv'
  <1> USE DEF AuthInv
  <1>1. /\ sign' \in [Sign -> SignState] /\ sign[c].pc = "register" /\ sign'[c].pc = "login"
        /\ sign'[c].op = sign[c].op /\ sign'[c].of = sign[c].of
        /\ sign'[c].account = sign[c].account
        /\ \A d \in Sign : d # c => sign'[d] = sign[d]
        /\ auth' = [auth EXCEPT !.isLoading = TRUE, !.error = FALSE]
        /\ stored' = stored /\ undone' = undone
    BY ContinuesShape DEF Registered
  <1>2. AuthTypeOK' BY <1>1 DEF AuthTypeOK, AuthState, SignState
  <1>3. Kinds' BY <1>1 DEF Kinds
  <1>4. HydrateInv' BY <1>1 DEF HydrateInv, Kinds, Awaits
  <1>5. LoginInv' BY <1>1 DEF LoginInv, HydrateInv, Kinds, Awaits
  <1>6. LogoutInv' BY <1>1 DEF LogoutInv, LogoutTwice, LoginInv, HydrateInv, Kinds, Awaits
  <1>7. UserMatchesToken' BY <1>1 DEF UserMatchesToken, LogoutInv, LogoutTwice, HydrateInv, LoginInv, Kinds, Awaits
  <1> QED BY <1>2, <1>3, <1>4, <1>5, <1>6, <1>7

\* The answer is there, and nothing is written yet.
LEMMA LoggedInKeeps ==
  ASSUME AuthInv, NEW c \in Sign, LoggedIn(c)
  PROVE  AuthInv'
  <1> USE DEF AuthInv
  <1>1. /\ sign' \in [Sign -> SignState] /\ sign[c].pc = "login" /\ sign'[c].pc = "save"
        /\ sign'[c].op = sign[c].op /\ sign'[c].of = sign[c].of
        /\ sign'[c].account = sign[c].account
        /\ \A d \in Sign : d # c => sign'[d] = sign[d]
        /\ auth' = auth /\ stored' = stored /\ undone' = undone
    BY ContinuesShape DEF LoggedIn
  <1>2. AuthTypeOK' BY <1>1 DEF AuthTypeOK, AuthState, SignState
  <1>3. Kinds' BY <1>1 DEF Kinds
  <1>4. HydrateInv' BY <1>1 DEF HydrateInv, Kinds, Awaits
  <1>5. LoginInv' BY <1>1 DEF LoginInv, HydrateInv, Kinds, Awaits
  <1>6. LogoutInv' BY <1>1 DEF LogoutInv, LogoutTwice, LoginInv, HydrateInv, Kinds, Awaits
  <1>7. UserMatchesToken' BY <1>1 DEF UserMatchesToken, LogoutInv, LogoutTwice, HydrateInv, LoginInv, Kinds, Awaits
  <1> QED BY <1>2, <1>3, <1>4, <1>5, <1>6, <1>7

\* Nobody was shown, so that no logout awaits.
LEMMA SaveTokensKeeps ==
  ASSUME AuthInv, NEW c \in Sign, SaveTokens(c)
  PROVE  AuthInv'
  <1> USE DEF AuthInv
  <1>1. /\ sign' \in [Sign -> SignState] /\ sign[c].pc = "save"
        /\ sign'[c].pc = "done" /\ sign'[c].op = sign[c].op /\ sign'[c].of = sign[c].of
        /\ \A d \in Sign : d # c => sign'[d] = sign[d]
        /\ auth' \in AuthState /\ auth'.activeMode \in deriveModes(auth'.roles)
        /\ auth'.user = sign[c].account /\ stored' = sign[c].account
        /\ sign[c].account \in Accounts \cup {NoAccount}
        /\ auth'.isHydrated /\ undone' = undone
    <2>1. sign[c].account \in Accounts \cup {NoAccount} BY DEF AuthTypeOK, SignState
    <2> QED BY <2>1, ContinuesShape, ShowsShape DEF SaveTokens
  <1>2. AuthTypeOK' BY <1>1 DEF AuthTypeOK, AuthState, SignState
  <1>3. Kinds' BY <1>1 DEF Kinds
  <1>4. HydrateInv' BY <1>1 DEF HydrateInv, Kinds, Awaits
  <1>5. LoginInv' BY <1>1 DEF LoginInv, HydrateInv, Kinds, Awaits
  <1>6. LogoutInv' BY <1>1 DEF LogoutInv, LogoutTwice, LoginInv, HydrateInv, Kinds, Awaits
  <1>7. UserMatchesToken' BY <1>1 DEF UserMatchesToken, LogoutInv, LogoutTwice, HydrateInv, LoginInv, Kinds, Awaits
  <1> QED BY <1>2, <1>3, <1>4, <1>5, <1>6, <1>7

\* The login that awaited is over, and there was no other.
LEMMA LoginFailsKeeps ==
  ASSUME AuthInv, NEW c \in Sign, LoginFails(c)
  PROVE  AuthInv'
  <1> USE DEF AuthInv
  <1>1. /\ sign' \in [Sign -> SignState] /\ sign[c].pc \in {"register", "login", "save"}
        /\ sign'[c].pc = "done" /\ sign'[c].op = sign[c].op /\ sign'[c].of = sign[c].of
        /\ \A d \in Sign : d # c => sign'[d] = sign[d]
        /\ auth' = [auth EXCEPT !.isLoading = FALSE, !.error = TRUE]
        /\ stored' = stored /\ undone' = undone
    <2>1. PICK pc \in {"register", "login", "save"} : Continues(c, pc, "done") BY DEF LoginFails
    <2> QED BY <2>1, ContinuesShape DEF LoginFails
  <1>2. AuthTypeOK' BY <1>1 DEF AuthTypeOK, AuthState, SignState
  <1>3. Kinds' BY <1>1 DEF Kinds
  <1>4. HydrateInv' BY <1>1 DEF HydrateInv, Kinds, Awaits
  <1>5. LoginInv' BY <1>1 DEF LoginInv, HydrateInv, Kinds, Awaits
  <1>6. LogoutInv' BY <1>1 DEF LogoutInv, LogoutTwice, LoginInv, HydrateInv, Kinds, Awaits
  <1>7. UserMatchesToken' BY <1>1 DEF UserMatchesToken, LogoutInv, LogoutTwice, HydrateInv, LoginInv, Kinds, Awaits
  <1> QED BY <1>2, <1>3, <1>4, <1>5, <1>6, <1>7

\* A logout is made for what is shown.
LEMMA LogoutKeeps ==
  ASSUME AuthInv, NEW c \in Sign, Logout(c)
  PROVE  AuthInv'
  <1> USE DEF AuthInv
  <1>1. /\ auth.user # NoAccount
        /\ auth' = auth /\ stored' = stored /\ undone' = undone
        /\ sign' \in [Sign -> SignState] /\ sign[c].pc = "new"
        /\ sign'[c] = [pc |-> "logout", op |-> "logout", account |-> NoAccount, of |-> auth.by]
        /\ \A d \in Sign : d # c => sign'[d] = sign[d]
    BY CallShape DEF Logout
  <1>2. AuthTypeOK' BY <1>1 DEF AuthTypeOK, AuthState, SignState
  <1>3. Kinds' BY <1>1 DEF Kinds
  <1>4. HydrateInv' BY <1>1 DEF HydrateInv, Kinds, Awaits
  <1>5. LoginInv' BY <1>1 DEF LoginInv, HydrateInv, Kinds, Awaits
  <1>6. LogoutInv' BY <1>1 DEF LogoutInv, LogoutTwice, LoginInv, HydrateInv, Kinds, Awaits
  <1>7. UserMatchesToken' BY <1>1 DEF UserMatchesToken, LogoutInv, LogoutTwice, HydrateInv, LoginInv, Kinds, Awaits
  <1> QED BY <1>2, <1>3, <1>4, <1>5, <1>6, <1>7

\* Whatever the answer.
LEMMA LogoutAnsweredKeeps ==
  ASSUME AuthInv, NEW c \in Sign, LogoutAnswered(c)
  PROVE  AuthInv'
  <1> USE DEF AuthInv
  <1>1. /\ sign' \in [Sign -> SignState] /\ sign[c].pc = "logout" /\ sign'[c].pc = "clear"
        /\ sign'[c].op = sign[c].op /\ sign'[c].of = sign[c].of
        /\ sign'[c].account = sign[c].account
        /\ \A d \in Sign : d # c => sign'[d] = sign[d]
        /\ auth' = auth /\ stored' = stored /\ undone' = undone
    BY ContinuesShape DEF LogoutAnswered
  <1>2. AuthTypeOK' BY <1>1 DEF AuthTypeOK, AuthState, SignState
  <1>3. Kinds' BY <1>1 DEF Kinds
  <1>4. HydrateInv' BY <1>1 DEF HydrateInv, Kinds, Awaits
  <1>5. LoginInv' BY <1>1 DEF LoginInv, HydrateInv, Kinds, Awaits
  <1>6. LogoutInv' BY <1>1 DEF LogoutInv, LogoutTwice, LoginInv, HydrateInv, Kinds, Awaits
  <1>7. UserMatchesToken' BY <1>1 DEF UserMatchesToken, LogoutInv, LogoutTwice, HydrateInv, LoginInv, Kinds, Awaits
  <1> QED BY <1>2, <1>3, <1>4, <1>5, <1>6, <1>7

\* What is cleared is what the logout was made for, unless two were made for it.
LEMMA ClearTokensKeeps ==
  ASSUME AuthInv, NEW c \in Sign, ClearTokens(c)
  PROVE  AuthInv'
  <1> USE DEF AuthInv
  <1>1. /\ sign' \in [Sign -> SignState] /\ sign[c].pc = "clear"
        /\ sign'[c].pc = "done" /\ sign'[c].op = sign[c].op /\ sign'[c].of = sign[c].of
        /\ \A d \in Sign : d # c => sign'[d] = sign[d]
        /\ auth' \in AuthState /\ auth'.activeMode \in deriveModes(auth'.roles)
        /\ auth'.user = NoAccount /\ auth'.isHydrated /\ auth'.isLoading = auth.isLoading
        /\ stored' = NoAccount
        /\ undone' = undone \cup (IF auth.user # NoAccount /\ sign[c].of # auth.by
                                 THEN {c} ELSE {})
    <2>1. /\ auth' = [SignedOut EXCEPT !.isHydrated = TRUE, !.isLoading = auth.isLoading,
                                       !.error = auth.error /\ sign[c].op = "hydrate"]
          /\ auth.isLoading \in BOOLEAN /\ auth.error \in BOOLEAN
      BY DEF ClearTokens, AuthTypeOK, AuthState
    <2>2. auth' \in AuthState /\ auth'.activeMode = "listener" /\ auth'.roles = {}
      <3> DEFINE e == auth.error /\ sign[c].op = "hydrate"
      <3>1. e \in BOOLEAN OBVIOUS
      <3> HIDE DEF e
      <3>2. auth' = [SignedOut EXCEPT !.isHydrated = TRUE, !.isLoading = auth.isLoading,
                                      !.error = e]
        BY <2>1 DEF e
      <3> QED BY <2>1, <3>1, <3>2 DEF SignedOut, AuthState
    <2>3. auth'.user = NoAccount /\ auth'.isHydrated /\ auth'.isLoading = auth.isLoading
      BY <2>1 DEF SignedOut
    <2>4. "listener" \in deriveModes({}) BY DEF deriveModes
    <2> QED BY <2>2, <2>3, <2>4, ContinuesShape DEF ClearTokens
  <1>2. AuthTypeOK' BY <1>1 DEF AuthTypeOK, AuthState, SignState
  <1>3. Kinds' BY <1>1 DEF Kinds
  <1>4. HydrateInv' BY <1>1 DEF HydrateInv, Kinds, Awaits
  <1>5. LoginInv' BY <1>1 DEF LoginInv, HydrateInv, Kinds, Awaits
  <1>6. LogoutInv' BY <1>1 DEF LogoutInv, LogoutTwice, LoginInv, HydrateInv, Kinds, Awaits
  <1>7. UserMatchesToken' BY <1>1 DEF UserMatchesToken, LogoutInv, LogoutTwice, HydrateInv, LoginInv, Kinds, Awaits
  <1> QED BY <1>2, <1>3, <1>4, <1>5, <1>6, <1>7

\* The call is over and nothing was set.
LEMMA ClearFailsKeeps ==
  ASSUME AuthInv, NEW c \in Sign, ClearFails(c)
  PROVE  AuthInv'
  <1> USE DEF AuthInv
  <1>1. /\ sign' \in [Sign -> SignState] /\ sign[c].pc = "clear" /\ sign'[c].pc = "done"
        /\ sign'[c].op = sign[c].op /\ sign'[c].of = sign[c].of
        /\ sign'[c].account = sign[c].account
        /\ \A d \in Sign : d # c => sign'[d] = sign[d]
        /\ auth' = auth /\ stored' = stored /\ undone' = undone
    BY ContinuesShape DEF ClearFails
  <1>2. AuthTypeOK' BY <1>1 DEF AuthTypeOK, AuthState, SignState
  <1>3. Kinds' BY <1>1 DEF Kinds
  <1>4. HydrateInv' BY <1>1 DEF HydrateInv, Kinds, Awaits
  <1>5. LoginInv' BY <1>1 DEF LoginInv, HydrateInv, Kinds, Awaits
  <1>6. LogoutInv' BY <1>1 DEF LogoutInv, LogoutTwice, LoginInv, HydrateInv, Kinds, Awaits
  <1>7. UserMatchesToken' BY <1>1 DEF UserMatchesToken, LogoutInv, LogoutTwice, HydrateInv, LoginInv, Kinds, Awaits
  <1> QED BY <1>2, <1>3, <1>4, <1>5, <1>6, <1>7

\* Only the mode changes.
LEMMA SetModeKeeps ==
  ASSUME AuthInv, NEW m, SetMode(m)
  PROVE  AuthInv'
  <1> USE DEF AuthInv
  <1>1. /\ auth' \in AuthState /\ auth'.activeMode \in deriveModes(auth'.roles)
        /\ auth'.user = auth.user /\ auth'.isHydrated = auth.isHydrated
        /\ auth'.isLoading = auth.isLoading /\ auth'.by = auth.by
        /\ sign' = sign /\ stored' = stored /\ undone' = undone
    <2>1. /\ auth' = [auth EXCEPT !.activeMode = m] /\ m \in deriveModes(auth.roles)
          /\ auth \in AuthState
      BY DEF SetMode, AuthTypeOK
    <2>2. m \in {"listener"} \cup Extra BY <2>1, ModesHaveListener DEF AuthState
    <2> QED BY <2>1, <2>2 DEF SetMode, AuthState
  <1>2. AuthTypeOK' BY <1>1 DEF AuthTypeOK, AuthState, SignState
  <1>3. Kinds' BY <1>1 DEF Kinds
  <1>4. HydrateInv' BY <1>1 DEF HydrateInv, Kinds, Awaits
  <1>5. LoginInv' BY <1>1 DEF LoginInv, HydrateInv, Kinds, Awaits
  <1>6. LogoutInv' BY <1>1 DEF LogoutInv, LogoutTwice, LoginInv, HydrateInv, Kinds, Awaits
  <1>7. UserMatchesToken' BY <1>1 DEF UserMatchesToken, LogoutInv, LogoutTwice, HydrateInv, LoginInv, Kinds, Awaits
  <1> QED BY <1>2, <1>3, <1>4, <1>5, <1>6, <1>7

\* Nothing is left of the calls.
LEMMA AuthRestartKeeps ==
  ASSUME AuthInv, AuthRestart
  PROVE  AuthInv'
  <1> USE DEF AuthInv
  <1>1. /\ auth' \in AuthState /\ auth'.activeMode \in deriveModes(auth'.roles)
        /\ auth'.user = NoAccount /\ ~auth'.isHydrated
        /\ undone' = {} /\ stored' \in Accounts \cup {NoAccount}
        /\ sign' \in [Sign -> SignState]
        /\ \A d \in Sign : sign'[d].pc \in {"new", "done"} /\ sign'[d].op = "none"
    <2>1. auth' = SignedOut BY DEF AuthRestart
    <2>2. /\ auth' \in AuthState /\ auth'.activeMode \in deriveModes(auth'.roles)
          /\ auth'.user = NoAccount /\ ~auth'.isHydrated
      BY <2>1 DEF SignedOut, AuthState, deriveModes
    <2> QED BY <2>2 DEF AuthRestart, AuthTypeOK, SignState, NewSign
  <1>2. AuthTypeOK' BY <1>1 DEF AuthTypeOK, AuthState, SignState
  <1>3. Kinds' BY <1>1 DEF Kinds
  <1>4. HydrateInv' BY <1>1 DEF HydrateInv, Kinds, Awaits
  <1>5. LoginInv' BY <1>1 DEF LoginInv, HydrateInv, Kinds, Awaits
  <1>6. LogoutInv' BY <1>1 DEF LogoutInv, LogoutTwice, LoginInv, HydrateInv, Kinds, Awaits
  <1>7. UserMatchesToken' BY <1>1 DEF UserMatchesToken, LogoutInv, LogoutTwice, HydrateInv, LoginInv, Kinds, Awaits
  <1> QED BY <1>2, <1>3, <1>4, <1>5, <1>6, <1>7

LEMMA AuthNextKeeps == AuthInv /\ [AuthNext]_authVars => AuthInv'
  <1> SUFFICES ASSUME AuthInv, [AuthNext]_authVars PROVE AuthInv' OBVIOUS
  <1>1. CASE UNCHANGED authVars
    BY <1>1 DEF AuthInv, AuthTypeOK, Kinds, HydrateInv, LoginInv, LogoutInv, LogoutTwice,
                UserMatchesToken, Awaits, authVars
  <1>2. ASSUME NEW c \in Sign, NEW a \in Accounts,
               \/ Hydrate(c) \/ Me(c) \/ MeFails(c) \/ Login(c, a)
               \/ Registered(c) \/ LoggedIn(c) \/ SaveTokens(c) \/ LoginFails(c)
        PROVE  AuthInv'
    BY <1>2, HydrateKeeps, MeKeeps, MeFailsKeeps, LoginKeeps, RegisteredKeeps, LoggedInKeeps,
       SaveTokensKeeps, LoginFailsKeeps
  <1>3. ASSUME NEW c \in Sign,
               Logout(c) \/ LogoutAnswered(c) \/ ClearTokens(c) \/ ClearFails(c)
        PROVE  AuthInv'
    BY <1>3, LogoutKeeps, LogoutAnsweredKeeps, ClearTokensKeeps, ClearFailsKeeps
  <1>4. ASSUME NEW m, SetMode(m) PROVE AuthInv' BY <1>4, SetModeKeeps
  <1>5. CASE AuthRestart BY <1>5, AuthRestartKeeps
  <1> QED BY <1>1, <1>2, <1>3, <1>4, <1>5, HydrateKeeps, MeKeeps, MeFailsKeeps, RegisteredKeeps,
             LoggedInKeeps, SaveTokensKeeps, LoginFailsKeeps DEF AuthNext

\* The store and the tokens are well typed, and the mode is one that the roles
\* give, for any number of accounts and calls (authStore).
THEOREM AuthTypeCorrect == AuthSpec => []AuthTypeOK
  <1>1. AuthInv => AuthTypeOK BY DEF AuthInv
  <1> QED BY AuthInitInv, AuthNextKeeps, <1>1, PTL DEF AuthSpec

\* The user shown is the one whose tokens are stored, and a login is undone by a
\* logout made for another only if two were made for one (authStore.logout).
THEOREM UserMatches == AuthSpec => []UserMatchesToken
  <1>1. AuthInv => UserMatchesToken BY DEF AuthInv
  <1> QED BY AuthInitInv, AuthNextKeeps, <1>1, PTL DEF AuthSpec

-----------------------------------------------------------------------------
(* The player: its inductive invariant.                                    *)

First == 1  \* the call that App makes

\* At most one call has called setupPlayer.
OneSetUp == \A c, d \in Call : call[c].setUp /\ call[d].setUp => c = d

\* What a call is about at each of its steps.
CallInv == \A c \in Call :
  /\ call[c].pc = "new" => ~call[c].setUp
  /\ call[c].op = "init" => c = First
  /\ call[c].pc \in {"setup", "options"} => call[c].op \in {"init", "play"} /\ call[c].setUp
  /\ call[c].pc \in {"lookup", "preview", "download", "reset", "add", "start", "report"}
       => call[c].op = "play"
  /\ call[c].pc = "control" => call[c].op \in {"pause", "resume", "stop"}
  /\ call[c].pc = "clear" => call[c].op = "stop"
  /\ call[c].pc \in Steps /\ call[c].op = "play" => call[c].track \in PlayerTracks

\* Before the engine is loaded nothing has happened yet; afterwards the store
\* listens, and the native player is used only if it was set up.
LoadInv ==
  /\ player.nativeReady => player.subscribed
  /\ \A c \in Call : call[c].pc # "new" => player.nativeReady \/ call[First].setUp
  /\ \A c \in Call : call[c].setUp => native.linked
  /\ OneSetUp =>
       /\ \A c \in Call : call[c].pc \in {"setup", "options"} =>
            ~player.nativeReady /\ call[c].op = "init"
       /\ ~player.nativeReady =>
            /\ player.current = NoCurrent /\ ~player.isPlaying /\ ~player.isBuffering
            /\ player.status = "idle" /\ ~player.useNative /\ ~player.error
            /\ \A c \in Call : call[c].pc \in {"new", "setup", "options"}
       /\ ~player.useNative =>
            /\ native.queue = <<>> /\ ~native.playing /\ states = <<>>
            /\ \A c \in Call : call[c].pc \notin {"reset", "add", "start", "clear"}

LastState == states[Len(states)]

\* What plays is the current track, and the store shows it or will when the last
\* event arrives.
Agrees ==
  /\ native.queue # <<>> => player.current # NoCurrent
  /\ player.useNative /\ player.current # NoCurrent => native.queue = <<player.current>>
  /\ states = <<>> =>
       /\ ~player.isBuffering /\ player.status # "loading"
       /\ player.isPlaying <=> player.status = "playing"
       /\ player.isPlaying => player.current # NoCurrent
       /\ player.useNative => player.isPlaying = native.playing
  /\ states # <<>> =>
       /\ LastState \in {"none", "paused", "stopped", "playing"}
       /\ LastState = "playing" <=> native.playing

\* How far the only call under way has got.
OnItsWay(c) ==
  /\ call[c].pc \in {"reset", "add", "start"} => player.current = call[c].track
  /\ call[c].pc = "add" => native.queue = <<>>
  /\ call[c].pc = "start" => native.queue = <<call[c].track>>
  /\ call[c].pc = "report" => Agrees
  /\ call[c].pc = "control" /\ call[c].op \in {"pause", "resume"} =>
       /\ player.current # NoCurrent
       /\ player.useNative => native.queue = <<player.current>>
  /\ call[c].pc = "control" /\ call[c].op = "stop" => player.current = NoCurrent
  /\ call[c].pc = "clear" => player.current = NoCurrent

\* When nothing upset it, one call at a time goes its way, and in between the
\* store and the native player agree.
PlayInv == OneSetUp /\ upset = {} =>
  /\ \A c, d \in UnderWay : c = d
  /\ ~player.error => /\ \A c \in UnderWay : OnItsWay(c)
                      /\ UnderWay = {} => Agrees

ShownInv == PlayerTypeOK /\ CallInv /\ LoadInv /\ PlayInv

-----------------------------------------------------------------------------
(* The player: the records of its state.                                   *)

Statuses == {"idle", "loading", "playing", "paused", "stopped"}

NativeStates == {"none", "buffering", "playing", "paused", "stopped", "ended"}

Stores == [current : PlayerTracks \cup {NoCurrent}, isPlaying : BOOLEAN,
           isBuffering : BOOLEAN, error : BOOLEAN, subscribed : BOOLEAN,
           status : Statuses, useNative : BOOLEAN, nativeReady : BOOLEAN]

Natives == [linked : BOOLEAN, up : BOOLEAN, queue : Seq(PlayerTracks), playing : BOOLEAN]

Steppings == [pc : {"new", "done"} \cup Steps, track : PlayerTracks \cup {NoCurrent},
              op : {"none", "init", "play", "pause", "resume", "stop"}, setUp : BOOLEAN]

LEMMA PlayerTypeIs ==
  PlayerTypeOK <=> /\ player \in Stores
                   /\ native \in Natives
                   /\ native.playing => native.queue # <<>>
                   /\ states \in Seq(NativeStates)
                   /\ call \in [Call -> Steppings]
                   /\ upset \subseteq {"overlap", "swallowed", "ended"}
  BY DEF PlayerTypeOK, Stores, Natives, NativeStates, Steppings, Statuses

-----------------------------------------------------------------------------
(* The player: what its operators do.                                      *)

LEMMA LastOfAppend ==
  ASSUME NEW S, NEW s \in Seq(S), NEW x \in S
  PROVE  /\ Append(s, x) \in Seq(S) /\ Append(s, x) # <<>>
         /\ Append(s, x)[Len(Append(s, x))] = x
  OBVIOUS

LEMMA LastOfTwo ==
  ASSUME NEW S, NEW s \in Seq(S), NEW x \in S, NEW y \in S
  PROVE  /\ s \o <<x, y>> \in Seq(S) /\ s \o <<x, y>> # <<>>
         /\ (s \o <<x, y>>)[Len(s \o <<x, y>>)] = y
  OBVIOUS

LEMMA LastOfTail ==
  ASSUME NEW S, NEW s \in Seq(S), s # <<>>
  PROVE  /\ Tail(s) \in Seq(S) /\ Head(s) \in S
         /\ Tail(s) # <<>> => Tail(s)[Len(Tail(s))] = s[Len(s)]
         /\ Tail(s) = <<>> => Head(s) = s[Len(s)]
  <1>1. Len(s) \in Nat \ {0} /\ Head(s) = s[1] /\ Head(s) \in S OBVIOUS
  <1>2. Tail(s) \in Seq(S) /\ Len(Tail(s)) = Len(s) - 1 OBVIOUS
  <1>3. ASSUME Tail(s) # <<>> PROVE Tail(s)[Len(Tail(s))] = s[Len(s)]
    <2>1. Len(Tail(s)) \in 1..Len(s) - 1 BY <1>1, <1>2, <1>3
    <2> QED BY <1>1, <1>2, <2>1
  <1>4. ASSUME Tail(s) = <<>> PROVE Head(s) = s[Len(s)]
    <2>1. Len(s) = 1 BY <1>1, <1>2, <1>4
    <2> QED BY <1>1, <2>1
  <1> QED BY <1>1, <1>2, <1>3, <1>4

\* emit changes the status, and what is shown once the store has subscribed.
LEMMA EmitIs ==
  ASSUME NEW p \in Stores, NEW s \in Statuses
  PROVE  /\ Emit(p, s) \in Stores
         /\ Emit(p, s).status = s
         /\ Emit(p, s).current = p.current /\ Emit(p, s).error = p.error
         /\ Emit(p, s).subscribed = p.subscribed
         /\ Emit(p, s).useNative = p.useNative /\ Emit(p, s).nativeReady = p.nativeReady
         /\ p.subscribed => /\ Emit(p, s).isPlaying <=> s = "playing"
                            /\ Emit(p, s).isBuffering <=> s = "loading"
  BY DEF Emit, Stores

LEMMA StatusIs ==
  ASSUME NEW s \in NativeStates, s # "ended"
  PROVE  /\ StatusOf(s) \in Statuses
         /\ StatusOf(s) = "playing" <=> s = "playing"
         /\ StatusOf(s) = "loading" <=> s = "buffering"
  BY DEF StatusOf, NativeStates, Statuses

\* What a call that goes on changes of itself, and leaves of the others.
LEMMA GoesIs ==
  ASSUME call \in [Call -> Steppings], NEW c \in Call, NEW pc \in Steps \cup {"done"},
         NEW p, Goes(c, pc, p)
  PROVE  /\ player' = p
         /\ call' \in [Call -> Steppings]
         /\ \A d \in Call : d # c => call'[d] = call[d]
         /\ call'[c].pc = pc
         /\ \A d \in Call : call'[d].setUp = call[d].setUp
         /\ pc # "done" => call'[c].op = call[c].op /\ call'[c].track = call[c].track
         /\ pc = "done" => call'[c].op = "none"
  <1>1. player' = p BY DEF Goes
  <1>2. CASE pc = "done"
    <2> DEFINE next == [NewCall EXCEPT !.pc = pc, !.setUp = call[c].setUp]
    <2>1. /\ next \in Steppings /\ next.pc = pc /\ next.setUp = call[c].setUp
          /\ next.op = "none"
      BY <1>2 DEF NewCall, Steppings
    <2>2. call' = [call EXCEPT ![c] = next] BY <1>2 DEF Goes
    <2> HIDE DEF next
    <2> QED BY <1>1, <1>2, <2>1, <2>2
  <1>3. CASE pc # "done"
    <2> DEFINE next == [call[c] EXCEPT !.pc = pc]
    <2>1. /\ next \in Steppings /\ next.pc = pc /\ next.setUp = call[c].setUp
          /\ next.op = call[c].op /\ next.track = call[c].track
      BY <1>3 DEF Steppings
    <2>2. call' = [call EXCEPT ![c] = next] BY <1>3 DEF Goes
    <2> HIDE DEF next
    <2> QED BY <1>1, <1>3, <2>1, <2>2
  <1> QED BY <1>2, <1>3

\* What a call that begins is, and what it finds.
LEMMA BeginsIs ==
  ASSUME call \in [Call -> Steppings], NEW c \in Call,
         NEW op \in {"init", "play", "pause", "resume", "stop"},
         NEW t \in PlayerTracks \cup {NoCurrent}, NEW pc \in Steps \cup {"done"},
         NEW p, Begins(c, op, t, pc, p)
  PROVE  /\ player' = p /\ UNCHANGED <<native, states>>
         /\ call[c].pc = "new"
         /\ call' \in [Call -> Steppings]
         /\ \A d \in Call : d # c => call'[d] = call[d]
         /\ call'[c].pc = pc /\ call'[c].op = op /\ call'[c].track = t
         /\ call'[c].setUp <=> pc = "setup"
         /\ upset' = IF UnderWay # {} THEN upset \cup {"overlap"}
                     ELSE IF op = "play" THEN {} ELSE upset
  <1> DEFINE next == [pc |-> pc, op |-> op, track |-> t, setUp |-> pc = "setup"]
  <1>1. /\ next \in Steppings /\ next.pc = pc /\ next.op = op /\ next.track = t
        /\ next.setUp <=> pc = "setup"
    BY DEF Steppings
  <1>2. call' = [call EXCEPT ![c] = next] BY DEF Begins
  <1> HIDE DEF next
  <1> QED BY <1>1, <1>2 DEF Begins

\* The first call is the initEngine of App.
LEMMA BeginsInOrder ==
  ASSUME NEW c \in Call, NEW op, NEW t, NEW pc, NEW p, Begins(c, op, t, pc, p)
  PROVE  /\ First \in Call
         /\ c # First => call[First].pc # "new" /\ op # "init"
         /\ c = First => op = "init"
  BY PlayerAssumption DEF Begins, Call, First

LEMMA LoadedIs ==
  ASSUME NEW p \in Stores, NEW ok \in BOOLEAN
  PROVE  LET q == [Loaded(p, ok) EXCEPT !.subscribed = TRUE]
         IN  /\ q \in Stores /\ q.nativeReady /\ q.subscribed /\ (q.useNative <=> ok)
             /\ q.current = p.current /\ q.isPlaying = p.isPlaying
             /\ q.isBuffering = p.isBuffering /\ q.error = p.error /\ q.status = p.status
  BY DEF Loaded, Stores

-----------------------------------------------------------------------------
(* The player: what the native player does when it is called.              *)

LEMMA NativeResetIs ==
  ASSUME native \in Natives, states \in Seq(NativeStates), NativeReset
  PROVE  /\ native' \in Natives /\ native'.queue = <<>> /\ ~native'.playing
         /\ native'.linked = native.linked
         /\ states' \in Seq(NativeStates) /\ states' # <<>>
         /\ states'[Len(states')] = "none"
  <1>1. \A q \in Seq(PlayerTracks) :
          LET n == [native EXCEPT !.queue = q, !.playing = FALSE]
          IN  n \in Natives /\ n.queue = q /\ ~n.playing /\ n.linked = native.linked
    BY DEF Natives
  <1>0. /\ native' \in Natives /\ native'.queue = <<>> /\ ~native'.playing
        /\ native'.linked = native.linked
    <2>1. native' = [native EXCEPT !.queue = <<>>, !.playing = FALSE] BY DEF NativeReset
    <2>2. <<>> \in Seq(PlayerTracks) OBVIOUS
    <2> QED BY <1>1, <2>1, <2>2
  <1>2. states' = Append(states, "none") /\ "none" \in NativeStates
    BY DEF NativeReset, NativeStates
  <1> QED BY <1>0, <1>2, LastOfAppend

LEMMA NativeAddIs ==
  ASSUME native \in Natives, NEW t \in PlayerTracks, NativeAdd(t)
  PROVE  /\ native' \in Natives /\ native'.queue = Append(native.queue, t)
         /\ native'.linked = native.linked
         /\ native'.queue # <<>> /\ states' = states
  <1>1. /\ native.queue \in Seq(PlayerTracks)
        /\ \A q \in Seq(PlayerTracks) :
             LET n == [native EXCEPT !.queue = q] IN n \in Natives /\ n.queue = q /\ n.linked = native.linked
    BY DEF Natives
  <1>2. Append(native.queue, t) \in Seq(PlayerTracks) /\ Append(native.queue, t) # <<>>
    BY <1>1, LastOfAppend
  <1>3. native' = [native EXCEPT !.queue = Append(native.queue, t)] /\ states' = states
    BY DEF NativeAdd
  <1> QED BY <1>1, <1>2, <1>3

LEMMA NativePlayIs ==
  ASSUME native \in Natives, states \in Seq(NativeStates), NativePlay
  PROVE  /\ native' \in Natives /\ native'.queue = native.queue
         /\ native'.linked = native.linked
         /\ native'.playing <=> native.queue # <<>>
         /\ states' \in Seq(NativeStates)
         /\ IF native.queue = <<>> THEN states' = states
            ELSE states' # <<>> /\ states'[Len(states')] = "playing"
  <1>1. /\ native' \in Natives /\ native'.queue = native.queue
        /\ native'.linked = native.linked
        /\ native'.playing <=> native.queue # <<>>
    BY DEF NativePlay, Natives
  <1>2. states' = IF native.queue = <<>> THEN states ELSE states \o <<"buffering", "playing">>
    BY DEF NativePlay
  <1>3. "buffering" \in NativeStates /\ "playing" \in NativeStates BY DEF NativeStates
  <1> QED BY <1>1, <1>2, <1>3, LastOfTwo

LEMMA NativeHaltIs ==
  ASSUME native \in Natives, states \in Seq(NativeStates),
         NEW s \in NativeStates, NativeHalt(s)
  PROVE  /\ native' \in Natives /\ native'.queue = native.queue /\ ~native'.playing
         /\ native'.linked = native.linked
         /\ states' \in Seq(NativeStates) /\ states' # <<>>
         /\ states'[Len(states')] = s
  <1>1. /\ native' \in Natives /\ native'.queue = native.queue /\ ~native'.playing
        /\ native'.linked = native.linked
    BY DEF NativeHalt, Natives
  <1>2. states' = Append(states, s) BY DEF NativeHalt
  <1> QED BY <1>1, <1>2, LastOfAppend

-----------------------------------------------------------------------------
(* The player: what every call that goes on, or begins, keeps.             *)

\* A call under way that upsets nothing is the only one if nothing was upset.
LEMMA GoesAlone ==
  ASSUME ShownInv, NEW c \in Call, call[c].pc \in Steps, NEW pc \in Steps \cup {"done"}, NEW p,
         Goes(c, pc, p), upset' = upset,
         OneSetUp /\ UnderWay = {c} /\ upset = {} /\ ~p.error =>
           IF pc = "done" THEN Agrees' ELSE OnItsWay(c)'
  PROVE  PlayInv'
  <1> call \in [Call -> Steppings] BY PlayerTypeIs DEF ShownInv
  <1>1. /\ player' = p /\ call'[c].pc = pc
        /\ \A d \in Call : d # c => call'[d] = call[d]
        /\ \A d \in Call : call'[d].setUp = call[d].setUp
    BY GoesIs
  <1> SUFFICES ASSUME OneSetUp', upset' = {}
               PROVE  /\ \A a, b \in UnderWay' : a = b
                      /\ ~p.error => /\ \A a \in UnderWay' : OnItsWay(a)'
                                     /\ UnderWay' = {} => Agrees'
    BY <1>1 DEF PlayInv
  <1>2. OneSetUp /\ upset = {} BY <1>1 DEF OneSetUp
  <1>3. UnderWay = {c} BY <1>2 DEF ShownInv, PlayInv, UnderWay
  <1>4. UnderWay' \subseteq {c} BY <1>1, <1>3 DEF UnderWay
  <1>5. pc # "done" => UnderWay' = {c} BY <1>1, <1>4 DEF UnderWay
  <1>6. pc = "done" => UnderWay' = {} BY <1>1, <1>4 DEF UnderWay, Steps
  <1> QED BY <1>2, <1>3, <1>4, <1>5, <1>6

\* One that begins while nothing is under way is the only one.
LEMMA BeginsAlone ==
  ASSUME ShownInv, NEW c \in Call,
         NEW op \in {"init", "play", "pause", "resume", "stop"},
         NEW t \in PlayerTracks \cup {NoCurrent}, NEW pc \in Steps \cup {"done"},
         NEW p, Begins(c, op, t, pc, p),
         OneSetUp /\ UnderWay = {} /\ (op = "play" \/ upset = {}) /\ ~p.error =>
           IF pc = "done" THEN Agrees' ELSE OnItsWay(c)'
  PROVE  PlayInv'
  <1> call \in [Call -> Steppings] BY PlayerTypeIs DEF ShownInv
  <1>a. player' = p BY DEF Begins
  <1>b. /\ call'[c].pc = pc /\ call[c].pc = "new"
        /\ \A d \in Call : d # c => call'[d] = call[d]
    BY BeginsIs
  <1>1. /\ player' = p /\ call'[c].pc = pc /\ call[c].pc = "new"
        /\ \A d \in Call : d # c => call'[d] = call[d]
    BY <1>a, <1>b
  <1>0. upset' = IF UnderWay # {} THEN upset \cup {"overlap"}
                 ELSE IF op = "play" THEN {} ELSE upset
    BY BeginsIs
  <1> SUFFICES ASSUME OneSetUp', upset' = {}
               PROVE  /\ \A a, b \in UnderWay' : a = b
                      /\ ~p.error => /\ \A a \in UnderWay' : OnItsWay(a)'
                                     /\ UnderWay' = {} => Agrees'
    BY <1>1 DEF PlayInv
  <1>2. ~call[c].setUp BY <1>1 DEF ShownInv, CallInv
  <1>3. OneSetUp BY <1>1, <1>2 DEF OneSetUp
  <1>4. UnderWay = {} /\ (op = "play" \/ upset = {}) BY <1>0
  <1>5. UnderWay' \subseteq {c} BY <1>1, <1>4 DEF UnderWay
  <1>6. pc # "done" => UnderWay' = {c} BY <1>1, <1>5 DEF UnderWay
  <1>7. pc = "done" => UnderWay' = {} BY <1>1, <1>5 DEF UnderWay, Steps
  <1> QED BY <1>3, <1>4, <1>5, <1>6, <1>7

\* A call past initEngine leaves the engine's flags, and goes to a native call
\* only if the engine is native.
LEMMA GoesLoaded ==
  ASSUME ShownInv, NEW c \in Call, call[c].pc \in Steps \ {"setup", "options"},
         NEW pc \in (Steps \cup {"done"}) \ {"setup", "options"}, NEW p, Goes(c, pc, p),
         p.nativeReady = player.nativeReady, p.useNative = player.useNative,
         p.subscribed = player.subscribed,
         OneSetUp /\ pc \in {"reset", "add", "start", "clear"} => player.useNative,
         native'.linked = native.linked,
         ~player.useNative /\ OneSetUp => UNCHANGED <<native, states>>
  PROVE  LoadInv'
  <1> call \in [Call -> Steppings] BY PlayerTypeIs DEF ShownInv
  <1>1. /\ player' = p /\ call'[c].pc = pc
        /\ \A d \in Call : d # c => call'[d] = call[d]
        /\ \A d \in Call : call'[d].setUp = call[d].setUp
    BY GoesIs
  <1>2. \A d \in Call : call'[d].pc # "new" => call[d].pc # "new" BY <1>1 DEF Steps
  <1>3. p.nativeReady => p.subscribed BY DEF ShownInv, LoadInv
  <1>4. \A d \in Call : call'[d].pc # "new" => p.nativeReady \/ call'[First].setUp
    <2>1. \A d \in Call : First \in Call BY PlayerAssumption DEF Call, First
    <2> QED BY <1>1, <1>2, <2>1 DEF ShownInv, LoadInv
  <1>5. ASSUME OneSetUp'
        PROVE  /\ \A d \in Call : call'[d].pc \in {"setup", "options"} =>
                    ~p.nativeReady /\ call'[d].op = "init"
               /\ p.nativeReady
               /\ ~p.useNative =>
                    /\ native'.queue = <<>> /\ ~native'.playing /\ states' = <<>>
                    /\ \A d \in Call : call'[d].pc \notin {"reset", "add", "start", "clear"}
    <2>1. OneSetUp BY <1>1, <1>5 DEF OneSetUp
    <2>2. player.nativeReady BY <2>1 DEF ShownInv, LoadInv, Steps
    <2>3. \A d \in Call : call'[d].pc \in {"setup", "options"} =>
            ~p.nativeReady /\ call'[d].op = "init"
      BY <1>1, <2>1 DEF ShownInv, LoadInv
    <2>4. ASSUME ~p.useNative
          PROVE  /\ native'.queue = <<>> /\ ~native'.playing /\ states' = <<>>
                 /\ \A d \in Call : call'[d].pc \notin {"reset", "add", "start", "clear"}
      BY <1>1, <2>1, <2>4 DEF ShownInv, LoadInv
    <2> QED BY <2>2, <2>3, <2>4
  <1>6. \A d \in Call : call'[d].setUp => native'.linked BY <1>1 DEF ShownInv, LoadInv
  <1> QED BY <1>1, <1>3, <1>4, <1>5, <1>6 DEF LoadInv

\* Such a call is about what it was about.
LEMMA GoesAbout ==
  ASSUME ShownInv, NEW c \in Call, call[c].pc \in Steps, NEW pc \in Steps \cup {"done"}, NEW p,
         Goes(c, pc, p),
         pc \in {"setup", "options"} => call[c].pc \in {"setup", "options"},
         pc \in {"lookup", "preview", "download", "reset", "add", "start", "report"}
           => call[c].op = "play",
         pc \in {"control", "clear"} => call[c].op = "stop"
  PROVE  CallInv'
  <1> call \in [Call -> Steppings] BY PlayerTypeIs DEF ShownInv
  <1>1. /\ call'[c].pc = pc
        /\ \A d \in Call : d # c => call'[d] = call[d]
        /\ \A d \in Call : call'[d].setUp = call[d].setUp
        /\ pc # "done" => call'[c].op = call[c].op /\ call'[c].track = call[c].track
        /\ pc = "done" => call'[c].op = "none"
    BY GoesIs
  <1> SUFFICES ASSUME NEW d \in Call PROVE CallInv!(d)' BY DEF CallInv
  <1>2. CASE d # c BY <1>1, <1>2 DEF ShownInv, CallInv
  <1>3. CASE d = c /\ pc = "done" BY <1>1, <1>3 DEF Steps
  <1>4. CASE d = c /\ pc # "done" BY <1>1, <1>4 DEF ShownInv, CallInv, Steps
  <1> QED BY <1>2, <1>3, <1>4

\* A call that begins is about what it was made for.
LEMMA BeginsAbout ==
  ASSUME ShownInv, NEW c \in Call,
         NEW op \in {"init", "play", "pause", "resume", "stop"},
         NEW t \in PlayerTracks \cup {NoCurrent}, NEW pc \in {"setup", "lookup", "control", "done"},
         NEW p, Begins(c, op, t, pc, p),
         pc = "setup" => op \in {"init", "play"}, pc = "lookup" => op = "play",
         pc = "control" => op \in {"pause", "resume", "stop"},
         op = "play" => t \in PlayerTracks
  PROVE  CallInv'
  <1> call \in [Call -> Steppings] BY PlayerTypeIs DEF ShownInv
  <1> pc \in Steps \cup {"done"} BY DEF Steps
  <1>1. /\ call'[c].pc = pc /\ call'[c].op = op /\ call'[c].track = t
        /\ call'[c].setUp <=> pc = "setup"
    BY BeginsIs
  <1>2. \A d \in Call : d # c => call'[d] = call[d] BY BeginsIs
  <1>3. op = "init" => c = First BY BeginsInOrder
  <1> SUFFICES ASSUME NEW d \in Call PROVE CallInv!(d)' BY DEF CallInv
  <1>4. CASE d # c BY <1>2, <1>4 DEF ShownInv, CallInv
  <1>5. CASE d = c BY <1>1, <1>3, <1>5 DEF Steps
  <1> QED BY <1>4, <1>5

\* One that calls setupPlayer is the first, or the second to do so.
LEMMA BeginsSetUp ==
  ASSUME ShownInv, NEW c \in Call, NEW op \in {"init", "play"},
         NEW t \in PlayerTracks \cup {NoCurrent}, NEW p \in Stores, Begins(c, op, t, "setup", p),
         ~player.nativeReady, native.linked, op = "init" => p = player,
         p.nativeReady = player.nativeReady
  PROVE  LoadInv'
  <1> call \in [Call -> Steppings] BY PlayerTypeIs DEF ShownInv
  <1> "setup" \in Steps \cup {"done"} BY DEF Steps
  <1> op \in {"init", "play", "pause", "resume", "stop"} OBVIOUS
  <1>0. player' = p /\ UNCHANGED <<native, states>> BY DEF Begins
  <1>1. call'[c].pc = "setup" /\ call'[c].op = op /\ call'[c].setUp BY DEF Begins
  <1>2. call[c].pc = "new" /\ \A d \in Call : d # c => call'[d] = call[d] BY BeginsIs
  <1>3. First \in Call /\ (c # First => call[First].pc # "new") /\ (c = First => op = "init")
    BY BeginsInOrder
  <1>4. c # First => call'[First].setUp BY <1>2, <1>3 DEF ShownInv, LoadInv
  <1>5. \A d \in Call : call'[d].pc # "new" => p.nativeReady \/ call'[First].setUp
    BY <1>1, <1>4
  <1>6. \A d \in Call : call'[d].setUp => native'.linked
    BY <1>0, <1>1, <1>2 DEF ShownInv, LoadInv
  <1>7. ASSUME OneSetUp' PROVE LoadInv!4'
    <2>1. c = First /\ p = player BY <1>1, <1>3, <1>4, <1>7 DEF OneSetUp
    <2>2. ~call[c].setUp BY <1>2 DEF ShownInv, CallInv
    <2>3. OneSetUp BY <1>2, <1>7, <2>2 DEF OneSetUp
    <2>4. \A d \in Call : call'[d].pc \in {"setup", "options"} =>
            ~player'.nativeReady /\ call'[d].op = "init"
      BY <1>0, <1>1, <1>2, <1>3, <2>1, <2>3 DEF ShownInv, LoadInv
    <2> QED BY <1>0, <1>1, <1>2, <2>1, <2>3, <2>4 DEF ShownInv, LoadInv
  <1> QED BY <1>0, <1>5, <1>6, <1>7 DEF LoadInv

\* One that finds the engine loaded, or loads it without the native player.
LEMMA BeginsLoaded ==
  ASSUME ShownInv, NEW c \in Call,
         NEW op \in {"init", "play", "pause", "resume", "stop"},
         NEW t \in PlayerTracks \cup {NoCurrent}, NEW pc \in {"lookup", "control", "done"},
         NEW p \in Stores, Begins(c, op, t, pc, p),
         p.nativeReady => p.subscribed, player.nativeReady => p.nativeReady,
         c = First => p.nativeReady,
         OneSetUp => p.nativeReady /\ p.useNative = player.useNative,
         OneSetUp => player.nativeReady \/ \A d \in Call : call[d].pc \notin {"setup", "options"}
  PROVE  LoadInv'
  <1> call \in [Call -> Steppings] BY PlayerTypeIs DEF ShownInv
  <1> pc \in Steps \cup {"done"} BY DEF Steps
  <1>0. player' = p /\ UNCHANGED <<native, states>> BY DEF Begins
  <1>1. call'[c].pc = pc /\ ~call'[c].setUp BY BeginsIs
  <1>2. call[c].pc = "new" /\ \A d \in Call : d # c => call'[d] = call[d] BY BeginsIs
  <1>3. First \in Call /\ (c # First => call[First].pc # "new") BY BeginsInOrder
  <1>5. \A d \in Call : call'[d].pc # "new" => p.nativeReady \/ call'[First].setUp
    BY <1>2, <1>3 DEF ShownInv, LoadInv
  <1>6. \A d \in Call : call'[d].setUp => native'.linked
    BY <1>0, <1>1, <1>2 DEF ShownInv, LoadInv
  <1>7. ASSUME OneSetUp' PROVE LoadInv!4'
    <2>2. ~call[c].setUp BY <1>2 DEF ShownInv, CallInv
    <2>3. OneSetUp BY <1>2, <1>7, <2>2 DEF OneSetUp
    <2>4. \A d \in Call : call'[d].pc \notin {"setup", "options"}
      BY <1>1, <1>2, <2>3 DEF ShownInv, LoadInv
    <2>5. ~player'.useNative =>
            /\ native'.queue = <<>> /\ ~native'.playing /\ states' = <<>>
            /\ \A d \in Call : call'[d].pc \notin {"reset", "add", "start", "clear"}
      BY <1>0, <1>1, <1>2, <2>3 DEF ShownInv, LoadInv
    <2> QED BY <1>0, <2>3, <2>4, <2>5
  <1> QED BY <1>0, <1>5, <1>6, <1>7 DEF LoadInv

LEMMA BeginsTyped ==
  ASSUME ShownInv, NEW c \in Call,
         NEW op \in {"init", "play", "pause", "resume", "stop"},
         NEW t \in PlayerTracks \cup {NoCurrent}, NEW pc \in {"setup", "lookup", "control", "done"},
         NEW p \in Stores, Begins(c, op, t, pc, p)
  PROVE  PlayerTypeOK'
  <1> call \in [Call -> Steppings] BY PlayerTypeIs DEF ShownInv
  <1> pc \in Steps \cup {"done"} BY DEF Steps
  <1>1. call' \in [Call -> Steppings] BY BeginsIs
  <1>2. player' = p /\ UNCHANGED <<native, states>> BY DEF Begins
  <1>3. upset \subseteq {"overlap", "swallowed", "ended"} BY PlayerTypeIs DEF ShownInv
  <1>4. upset' \subseteq {"overlap", "swallowed", "ended"} BY <1>3 DEF Begins
  <1>5. /\ native' \in Natives /\ states' \in Seq(NativeStates)
        /\ native'.playing => native'.queue # <<>>
    BY <1>2, PlayerTypeIs DEF ShownInv
  <1> QED BY <1>1, <1>2, <1>4, <1>5
    DEF PlayerTypeOK, Stores, Natives, NativeStates, Steppings, Statuses

-----------------------------------------------------------------------------
(* The player: the calls of the store.                                     *)

LEMMA InitEngineKeeps ==
  ASSUME ShownInv, NEW c \in Call, NEW op \in {"init", "play"},
         NEW t \in PlayerTracks \cup {NoCurrent}, op = "play" => t \in PlayerTracks,
         NEW p \in Stores, InitEngine(c, op, t, p), op = "init" => p = player,
         p.nativeReady = player.nativeReady, p.useNative = player.useNative
  PROVE  ShownInv'
  <1> op \in {"init", "play", "pause", "resume", "stop"} OBVIOUS
  <1> DEFINE after == IF op = "init" THEN "done" ELSE "lookup"
             q == [p EXCEPT !.subscribed = TRUE]
             js == [Loaded(p, FALSE) EXCEPT !.subscribed = TRUE]
  <1>0. after \in {"setup", "lookup", "control", "done"} /\ after \in Steps \cup {"done"}
        /\ after \in {"lookup", "control", "done"}
    BY DEF Steps
  <1>1. CASE player.nativeReady
    <2>1. Begins(c, op, t, after, q) BY <1>1 DEF InitEngine
    <2>2. /\ q \in Stores /\ q.nativeReady /\ q.subscribed /\ q.useNative = player.useNative
          /\ op = "init" => /\ q.current = player.current /\ q.isPlaying = player.isPlaying
                            /\ q.isBuffering = player.isBuffering /\ q.error = player.error
                            /\ q.status = player.status
      BY <1>1 DEF Stores
    <2>3. player' = q /\ UNCHANGED <<native, states>> BY <2>1 DEF Begins
    <2> HIDE DEF q
    <2>4. ASSUME OneSetUp /\ UnderWay = {} /\ (op = "play" \/ upset = {}) /\ ~q.error
          PROVE  IF after = "done" THEN Agrees' ELSE OnItsWay(c)'
      <3>1. CASE op = "init"
        <4>1. Agrees BY <2>2, <2>4, <3>1 DEF ShownInv, PlayInv
        <4>2. Agrees' BY <2>2, <2>3, <3>1, <4>1 DEF Agrees, LastState
        <4> QED BY <3>1, <4>2
      <3>2. CASE op = "play"
        <4>1. call'[c].pc = "lookup" BY <1>0, <2>1, <3>2, BeginsIs, PlayerTypeIs DEF ShownInv
        <4> QED BY <3>2, <4>1 DEF OnItsWay
      <3> QED BY <3>1, <3>2
    <2>5. op = "play" => after = "lookup" OBVIOUS
    <2>6. op = "init" => after = "done" OBVIOUS
    <2> HIDE DEF after
    <2>7. CallInv' BY <1>0, <2>1, <2>5, <2>6, BeginsAbout
    <2>8. LoadInv' BY <1>0, <1>1, <2>1, <2>2, BeginsLoaded
    <2>9. PlayInv' BY <1>0, <2>1, <2>4, BeginsAlone
    <2> QED BY <1>0, <2>1, <2>2, <2>7, <2>8, <2>9, BeginsTyped DEF ShownInv
  <1>2. CASE ~player.nativeReady /\ native.linked
    <2>1. Begins(c, op, t, "setup", p) BY <1>2 DEF InitEngine
    <2>2. "setup" \in Steps \cup {"done"} BY DEF Steps
    <2>3. call'[c].pc = "setup" BY <2>1, <2>2, BeginsIs, PlayerTypeIs DEF ShownInv
    <2>4. OnItsWay(c)' BY <2>3 DEF OnItsWay
    <2>5. PlayInv' BY <2>1, <2>2, <2>4, BeginsAlone
    <2>6. CallInv' BY <2>1, BeginsAbout
    <2>7. LoadInv' BY <1>2, <2>1, BeginsSetUp
    <2> QED BY <2>1, <2>5, <2>6, <2>7, BeginsTyped DEF ShownInv
  <1>3. CASE ~player.nativeReady /\ ~native.linked
    <2>1. Begins(c, op, t, after, js) BY <1>3 DEF InitEngine
    <2>2. /\ js \in Stores /\ js.nativeReady /\ js.subscribed /\ ~js.useNative
          /\ js.current = p.current /\ js.isPlaying = p.isPlaying
          /\ js.isBuffering = p.isBuffering /\ js.error = p.error /\ js.status = p.status
      BY LoadedIs
    <2>3. player' = js /\ UNCHANGED <<native, states>> BY <2>1 DEF Begins
    <2> HIDE DEF js
    <2>4. ASSUME OneSetUp /\ UnderWay = {} /\ (op = "play" \/ upset = {}) /\ ~js.error
          PROVE  IF after = "done" THEN Agrees' ELSE OnItsWay(c)'
      <3>1. CASE op = "init"
        <4>1. Agrees BY <2>2, <2>4, <3>1 DEF ShownInv, PlayInv
        <4>2. Agrees' BY <2>2, <2>3, <3>1, <4>1 DEF Agrees, LastState
        <4> QED BY <3>1, <4>2
      <3>2. CASE op = "play"
        <4>1. call'[c].pc = "lookup" BY <1>0, <2>1, <2>2, <3>2, BeginsIs, PlayerTypeIs DEF ShownInv
        <4> QED BY <3>2, <4>1 DEF OnItsWay
      <3> QED BY <3>1, <3>2
    <2>5. op = "play" => after = "lookup" OBVIOUS
    <2>6. op = "init" => after = "done" OBVIOUS
    <2> HIDE DEF after
    <2>7. CallInv' BY <1>0, <2>1, <2>2, <2>5, <2>6, BeginsAbout
    <2>8. OneSetUp => js.useNative = player.useNative
      <3>1. player.useNative \in BOOLEAN /\ js.useNative \in BOOLEAN
        BY <2>2, PlayerTypeIs DEF ShownInv, Stores
      <3>2. OneSetUp => ~player.useNative BY <1>3 DEF ShownInv, LoadInv
      <3> QED BY <2>2, <3>1, <3>2
    <2>9. \A d \in Call : call[d].pc \notin {"setup", "options"}
      BY <1>3 DEF ShownInv, LoadInv, CallInv
    <2>10. LoadInv' BY <1>0, <1>3, <2>1, <2>2, <2>8, <2>9, BeginsLoaded
    <2>11. PlayInv' BY <1>0, <2>1, <2>2, <2>4, BeginsAlone
    <2> QED BY <1>0, <2>1, <2>2, <2>7, <2>10, <2>11, BeginsTyped DEF ShownInv
  <1> QED BY <1>1, <1>2, <1>3

LEMMA StartKeeps == ASSUME ShownInv, NEW c \in Call, Start(c) PROVE ShownInv'
  <1>1. player \in Stores BY PlayerTypeIs DEF ShownInv
  <1>2. InitEngine(c, "init", NoCurrent, player) BY DEF Start
  <1> QED BY <1>1, <1>2, InitEngineKeeps

LEMMA PlayTrackKeeps ==
  ASSUME ShownInv, NEW c \in Call, NEW t \in PlayerTracks, PlayTrack(c, t) PROVE ShownInv'
  <1> DEFINE p == [player EXCEPT !.isBuffering = TRUE, !.error = FALSE]
  <1>1. player \in Stores BY PlayerTypeIs DEF ShownInv
  <1>2. p \in Stores /\ p.nativeReady = player.nativeReady /\ p.useNative = player.useNative
    BY <1>1 DEF Stores
  <1>3. InitEngine(c, "play", t, p) BY DEF PlayTrack
  <1> HIDE DEF p
  <1> QED BY <1>2, <1>3, InitEngineKeeps

\* The buttons: a call for a track that is shown, or one that shows none.
LEMMA ButtonKeeps ==
  ASSUME ShownInv, NEW c \in Call, NEW op \in {"pause", "resume", "stop"}, NEW p \in Stores,
         Begins(c, op, NoCurrent, "control", p),
         OneSetUp => player.nativeReady,
         p.nativeReady = player.nativeReady, p.useNative = player.useNative,
         p.subscribed = player.subscribed, p.error = player.error,
         IF op = "stop" THEN p.current = NoCurrent
         ELSE player.current # NoCurrent /\ p.current = player.current
  PROVE  ShownInv'
  <1> /\ op \in {"init", "play", "pause", "resume", "stop"}
      /\ NoCurrent \in PlayerTracks \cup {NoCurrent}
      /\ "control" \in Steps \cup {"done"} /\ "control" \in {"lookup", "control", "done"}
    BY DEF Steps
  <1>1. call \in [Call -> Steppings] BY PlayerTypeIs DEF ShownInv
  <1>2. call'[c].pc = "control" /\ call'[c].op = op BY <1>1 DEF Begins
  <1>3. player' = p /\ UNCHANGED <<native, states>> BY DEF Begins
  <1>4. c # First BY BeginsInOrder
  <1>5. ASSUME OneSetUp /\ UnderWay = {} /\ (op = "play" \/ upset = {}) /\ ~p.error
        PROVE  OnItsWay(c)'
    <2>1. Agrees BY <1>5 DEF ShownInv, PlayInv
    <2> QED BY <1>2, <1>3, <2>1 DEF OnItsWay, Agrees
  <1>6. PlayInv' BY <1>5, BeginsAlone
  <1>7. CallInv' BY BeginsAbout
  <1>8. p.nativeReady => p.subscribed BY DEF ShownInv, LoadInv
  <1>9. LoadInv' BY <1>4, <1>8, BeginsLoaded
  <1> QED BY <1>6, <1>7, <1>9, BeginsTyped DEF ShownInv

LEMMA PauseKeeps == ASSUME ShownInv, NEW c \in Call, Pause(c) PROVE ShownInv'
  <1> DEFINE p == [player EXCEPT !.isPlaying = FALSE]
  <1>1. player \in Stores BY PlayerTypeIs DEF ShownInv
  <1>2. /\ p \in Stores /\ p.nativeReady = player.nativeReady /\ p.useNative = player.useNative
        /\ p.subscribed = player.subscribed /\ p.error = player.error /\ p.current = player.current
    BY <1>1 DEF Stores
  <1>3. player.current # NoCurrent /\ Begins(c, "pause", NoCurrent, "control", p) BY DEF Pause
  <1> HIDE DEF p
  <1>4. OneSetUp => player.nativeReady BY <1>3 DEF ShownInv, LoadInv
  <1> QED BY <1>2, <1>3, <1>4, ButtonKeeps

LEMMA ResumeKeeps == ASSUME ShownInv, NEW c \in Call, Resume(c) PROVE ShownInv'
  <1> DEFINE p == [player EXCEPT !.isPlaying = TRUE]
  <1>1. player \in Stores BY PlayerTypeIs DEF ShownInv
  <1>2. /\ p \in Stores /\ p.nativeReady = player.nativeReady /\ p.useNative = player.useNative
        /\ p.subscribed = player.subscribed /\ p.error = player.error /\ p.current = player.current
    BY <1>1 DEF Stores
  <1>3. player.current # NoCurrent /\ Begins(c, "resume", NoCurrent, "control", p) BY DEF Resume
  <1> HIDE DEF p
  <1>4. OneSetUp => player.nativeReady BY <1>3 DEF ShownInv, LoadInv
  <1> QED BY <1>2, <1>3, <1>4, ButtonKeeps

LEMMA StopKeeps == ASSUME ShownInv, NEW c \in Call, Stop(c) PROVE ShownInv'
  <1> DEFINE p == [player EXCEPT !.isPlaying = FALSE, !.current = NoCurrent]
  <1>1. player \in Stores BY PlayerTypeIs DEF ShownInv
  <1>2. /\ p \in Stores /\ p.nativeReady = player.nativeReady /\ p.useNative = player.useNative
        /\ p.subscribed = player.subscribed /\ p.error = player.error /\ p.current = NoCurrent
    BY <1>1 DEF Stores
  <1>3. /\ player.current # NoCurrent \/ player.error
        /\ Begins(c, "stop", NoCurrent, "control", p)
    BY DEF Stop
  <1> HIDE DEF p
  <1>4. OneSetUp => player.nativeReady BY <1>3 DEF ShownInv, LoadInv
  <1> QED BY <1>2, <1>3, <1>4, ButtonKeeps

-----------------------------------------------------------------------------
(* The player: initEngine, and the rest of playTrack.                      *)

LEMMA GoesTyped ==
  ASSUME ShownInv, NEW c \in Call, NEW pc \in Steps \cup {"done"}, NEW p \in Stores,
         Goes(c, pc, p), native' \in Natives, native'.playing => native'.queue # <<>>,
         states' \in Seq(NativeStates), upset' \subseteq {"overlap", "swallowed", "ended"}
  PROVE  PlayerTypeOK'
  <1>1. call \in [Call -> Steppings] BY PlayerTypeIs DEF ShownInv
  <1>2. call' \in [Call -> Steppings] BY <1>1, GoesIs
  <1>3. player' \in Stores BY DEF Goes
  <1> QED BY <1>2, <1>3
    DEF PlayerTypeOK, Stores, Natives, NativeStates, Steppings, Statuses

\* A step of a call that leaves the native player alone.
LEMMA GoesTypedQuietly ==
  ASSUME ShownInv, NEW c \in Call, NEW pc \in Steps \cup {"done"}, NEW p \in Stores,
         Goes(c, pc, p), UNCHANGED <<native, states, upset>>
  PROVE  PlayerTypeOK'
  <1>1. /\ native \in Natives
        /\ native.playing => native.queue # <<>>
        /\ states \in Seq(NativeStates) /\ upset \subseteq {"overlap", "swallowed", "ended"}
    BY PlayerTypeIs DEF ShownInv
  <1>0. native' = native /\ states' = states /\ upset' = upset OBVIOUS
  <1>2. native' \in Natives /\ (native'.playing => native'.queue # <<>>) BY <1>0, <1>1
  <1>3. states' \in Seq(NativeStates) BY <1>0, <1>1
  <1>4. upset' \subseteq {"overlap", "swallowed", "ended"} BY <1>0, <1>1
  <1> QED BY <1>2, <1>3, <1>4, GoesTyped

\* initEngine ends: the store listens, to the native player or to the JS engine.
LEMMA InitedKeeps ==
  ASSUME ShownInv, NEW c \in Call, call[c].pc \in {"setup", "options"}, NEW ok \in BOOLEAN,
         Inited(c, Loaded(player, ok)), UNCHANGED <<native, states, upset>>
  PROVE  ShownInv'
  <1> DEFINE after == IF call[c].op = "init" THEN "done" ELSE "lookup"
             q == [Loaded(player, ok) EXCEPT !.subscribed = TRUE]
  <1>1. player \in Stores /\ call \in [Call -> Steppings] BY PlayerTypeIs DEF ShownInv
  <1>2. /\ q \in Stores /\ q.nativeReady /\ q.subscribed /\ (q.useNative <=> ok)
        /\ q.current = player.current /\ q.isPlaying = player.isPlaying
        /\ q.isBuffering = player.isBuffering /\ q.error = player.error
        /\ q.status = player.status
    BY <1>1, LoadedIs
  <1>3. Goes(c, after, q) BY DEF Inited
  <1>4. /\ after \in Steps \cup {"done"} /\ after \in {"lookup", "done"}
        /\ call[c].op = "init" => after = "done"
        /\ call[c].op # "init" => after = "lookup"
    BY DEF Steps
  <1>5. call[c].pc \in Steps /\ call[c].op \in {"init", "play"} /\ call[c].setUp
    BY DEF ShownInv, CallInv, Steps
  <1> HIDE DEF after, q
  <1>6. player' = q /\ call'[c].pc = after BY <1>1, <1>3, <1>4, GoesIs
  <1>7. /\ \A d \in Call : d # c => call'[d] = call[d]
        /\ \A d \in Call : call'[d].setUp = call[d].setUp
    BY <1>1, <1>3, <1>4, GoesIs
  <1>8. ASSUME OneSetUp
        PROVE  /\ call[c].op = "init" /\ ~player.nativeReady
               /\ player.current = NoCurrent /\ ~player.isPlaying /\ ~player.isBuffering
               /\ player.status = "idle"
               /\ native.queue = <<>> /\ ~native.playing /\ states = <<>>
    BY <1>5, <1>8 DEF ShownInv, LoadInv
  <1>9. CallInv' BY <1>3, <1>4, <1>5, GoesAbout
  <1>10. LoadInv'
    <2>1. OneSetUp' => OneSetUp BY <1>7 DEF OneSetUp
    <2>2. \A d \in Call : call'[d].setUp => native'.linked BY <1>7 DEF ShownInv, LoadInv
    <2>3. OneSetUp' => \A d \in Call : call'[d].pc \notin {"setup", "options"}
      BY <1>4, <1>5, <1>6, <1>7, <2>1 DEF OneSetUp, ShownInv, CallInv
    <2>4. ASSUME OneSetUp'
          PROVE  \A d \in Call : call'[d].pc \notin {"reset", "add", "start", "clear"}
      BY <1>4, <1>6, <1>7, <1>8, <2>1, <2>4 DEF ShownInv, LoadInv
    <2>5. OneSetUp' => native'.queue = <<>> /\ ~native'.playing /\ states' = <<>>
      BY <1>8, <2>1
    <2> QED BY <1>2, <1>6, <2>2, <2>3, <2>4, <2>5 DEF LoadInv
  <1>11. PlayInv'
    <2>1. ASSUME OneSetUp /\ UnderWay = {c} /\ upset = {} /\ ~q.error
          PROVE  IF after = "done" THEN Agrees' ELSE OnItsWay(c)'
      <3>1. after = "done" BY <1>4, <1>8, <2>1
      <3>2. player'.isPlaying = native'.playing
        <4>1. player.isPlaying \in BOOLEAN /\ native.playing \in BOOLEAN
          BY PlayerTypeIs DEF ShownInv, Stores, Natives
        <4> QED BY <1>2, <1>6, <1>8, <2>1, <4>1
      <3> QED BY <1>2, <1>6, <1>8, <2>1, <3>1, <3>2 DEF Agrees
    <2> QED BY <1>3, <1>4, <1>5, <2>1, GoesAlone
  <1>12. PlayerTypeOK' BY <1>2, <1>3, <1>4, GoesTypedQuietly
  <1> QED BY <1>9, <1>10, <1>11, <1>12 DEF ShownInv

LEMMA SetUpKeeps == ASSUME ShownInv, NEW c \in Call, SetUp(c) PROVE ShownInv'
  <1>0. player \in Stores /\ native \in Natives /\ call \in [Call -> Steppings]
    BY PlayerTypeIs DEF ShownInv
  <1>1. CASE native' = [native EXCEPT !.up = TRUE] /\ Goes(c, "options", player)
    <2> "options" \in Steps \cup {"done"} BY DEF Steps
    <2>1. /\ native' \in Natives /\ native'.queue = native.queue
          /\ native'.playing = native.playing /\ native'.linked = native.linked
      BY <1>0, <1>1 DEF Natives
    <2>2. call[c].pc \in Steps /\ call[c].pc = "setup" BY DEF SetUp, Steps
    <2>3. UNCHANGED <<states, upset, player>> BY <1>1 DEF SetUp, Goes
    <2>4. call'[c].pc = "options" /\ \A d \in Call : d # c => call'[d] = call[d]
      BY <1>0, <1>1, GoesIs
    <2>5. /\ \A d \in Call : call'[d].setUp = call[d].setUp
          /\ call'[c].op = call[c].op
      BY <1>0, <1>1, GoesIs
    <2>6. CallInv' BY <1>1, <2>2, GoesAbout
    <2>7. LoadInv'
      <3>1. OneSetUp' => OneSetUp BY <2>5 DEF OneSetUp
      <3>2. \A d \in Call : call'[d].pc # "new" => call[d].pc # "new" BY <2>2, <2>4
      <3>3. \A d \in Call : call'[d].pc # "new" => player'.nativeReady \/ call'[First].setUp
        <4>1. \A d \in Call : First \in Call BY PlayerAssumption DEF Call, First
        <4> QED BY <2>3, <2>5, <3>2, <4>1 DEF ShownInv, LoadInv
      <3>4. \A d \in Call : call'[d].setUp => native'.linked BY <2>1, <2>5 DEF ShownInv, LoadInv
      <3>5. ASSUME OneSetUp' PROVE LoadInv!4'
        <4>1. \A d \in Call : call'[d].pc \in {"setup", "options"} =>
                ~player'.nativeReady /\ call'[d].op = "init"
          BY <2>2, <2>3, <2>4, <2>5, <3>1, <3>5 DEF ShownInv, LoadInv
        <4> QED BY <2>1, <2>2, <2>3, <2>4, <3>1, <3>5, <4>1 DEF ShownInv, LoadInv
      <3> QED BY <2>3, <3>3, <3>4, <3>5 DEF LoadInv, ShownInv
    <2>8. OnItsWay(c)' BY <2>4 DEF OnItsWay
    <2>9. PlayInv' BY <1>1, <2>2, <2>3, <2>8, GoesAlone
    <2>10. PlayerTypeOK'
      <3>1. /\ native'.playing => native'.queue # <<>>
            /\ states' \in Seq(NativeStates) /\ upset' \subseteq {"overlap", "swallowed", "ended"}
        BY <2>1, <2>3, PlayerTypeIs DEF ShownInv
      <3> QED BY <1>0, <1>1, <2>1, <3>1, GoesTyped
    <2> QED BY <2>6, <2>7, <2>9, <2>10 DEF ShownInv
  <1>2. CASE Inited(c, Loaded(player, FALSE)) /\ UNCHANGED native
    BY <1>2, InitedKeeps DEF SetUp
  <1> QED BY <1>1, <1>2 DEF SetUp

LEMMA UpdateOptionsKeeps == ASSUME ShownInv, NEW c \in Call, UpdateOptions(c) PROVE ShownInv'
  <1>1. PICK ok \in BOOLEAN : Inited(c, Loaded(player, ok)) BY DEF UpdateOptions
  <1> QED BY <1>1, InitedKeeps DEF UpdateOptions

\* Past initEngine the engine is loaded, and its flags are the ones that stay.
LEMMA LoadedMeans ==
  ASSUME ShownInv, OneSetUp, NEW c \in Call, call[c].pc \in Steps \ {"setup", "options"}
  PROVE  /\ player.nativeReady /\ player.subscribed
         /\ ~player.useNative => native.queue = <<>> /\ ~native.playing /\ states = <<>>
         /\ call[c].pc \in {"reset", "add", "start", "clear"} => player.useNative
  BY DEF ShownInv, LoadInv, Steps

\* catch: an error is shown.
LEMMA CatchKeeps ==
  ASSUME ShownInv, NEW c \in Call, call[c].pc \in Steps \ {"setup", "options"}, Catch(c),
         UNCHANGED <<native, states, upset>>
  PROVE  ShownInv'
  <1> DEFINE p == [player EXCEPT !.isBuffering = FALSE, !.isPlaying = FALSE, !.error = TRUE]
  <1> "done" \in Steps \cup {"done"} /\ "done" \in (Steps \cup {"done"}) \ {"setup", "options"}
    BY DEF Steps
  <1>1. player \in Stores BY PlayerTypeIs DEF ShownInv
  <1>2. /\ p \in Stores /\ p.nativeReady = player.nativeReady /\ p.useNative = player.useNative
        /\ p.subscribed = player.subscribed /\ p.error
    BY <1>1 DEF Stores
  <1>3. Goes(c, "done", p) BY DEF Catch
  <1> HIDE DEF p
  <1>4. CallInv' BY <1>3, GoesAbout
  <1>5. LoadInv' BY <1>2, <1>3, GoesLoaded
  <1>6. PlayInv' BY <1>2, <1>3, GoesAlone
  <1>7. PlayerTypeOK' BY <1>2, <1>3, GoesTypedQuietly
  <1> QED BY <1>4, <1>5, <1>6, <1>7 DEF ShownInv

\* A step of playTrack that changes nothing but where it is.
LEMMA WaitKeeps ==
  ASSUME ShownInv, NEW c \in Call, NEW pc \in {"preview", "download", "done"},
         call[c].pc \in {"lookup", "preview", "report"},
         call[c].pc = "report" <=> pc = "done",
         Goes(c, pc, player), UNCHANGED <<native, states, upset>>
  PROVE  ShownInv'
  <1> /\ pc \in Steps \cup {"done"} /\ pc \in (Steps \cup {"done"}) \ {"setup", "options"}
      /\ call[c].pc \in Steps \ {"setup", "options"} /\ call[c].pc \in Steps
    BY DEF Steps
  <1>1. player \in Stores /\ call \in [Call -> Steppings] BY PlayerTypeIs DEF ShownInv
  <1>2. call[c].op = "play" BY DEF ShownInv, CallInv
  <1>3. CallInv' BY <1>2, GoesAbout
  <1>4. LoadInv' BY GoesLoaded
  <1>5. ASSUME OneSetUp /\ UnderWay = {c} /\ upset = {} /\ ~player.error
        PROVE  IF pc = "done" THEN Agrees' ELSE OnItsWay(c)'
    <2>1. call'[c].pc = pc /\ player' = player BY <1>1, GoesIs
    <2>2. CASE pc = "done"
      <3>1. OnItsWay(c) BY <1>5 DEF ShownInv, PlayInv
      <3>2. Agrees BY <2>2, <3>1 DEF OnItsWay
      <3> QED BY <2>1, <2>2, <3>2 DEF Agrees, LastState
    <2>3. CASE pc # "done" BY <2>1, <2>3 DEF OnItsWay
    <2> QED BY <2>2, <2>3
  <1>6. PlayInv' BY <1>5, GoesAlone
  <1>7. PlayerTypeOK' BY <1>1, GoesTypedQuietly
  <1> QED BY <1>3, <1>4, <1>6, <1>7 DEF ShownInv

\* The track becomes current; without the native player it plays at once.
LEMMA EnginePlayKeeps ==
  ASSUME ShownInv, NEW c \in Call, call[c].pc \in {"lookup", "preview", "download"},
         EnginePlay(c), UNCHANGED <<native, states, upset>>
  PROVE  ShownInv'
  <1> DEFINE shown == [player EXCEPT !.current = call[c].track, !.isPlaying = TRUE,
                                     !.isBuffering = FALSE]
             p == Emit(shown, "loading")
             pc == IF p.useNative THEN "reset" ELSE "report"
             q == IF p.useNative THEN p ELSE Emit(p, "playing")
  <1>1. player \in Stores /\ call \in [Call -> Steppings] BY PlayerTypeIs DEF ShownInv
  <1>2. call[c].op = "play" /\ call[c].track \in PlayerTracks
    BY DEF ShownInv, CallInv, Steps
  <1>3. /\ shown \in Stores /\ shown.current = call[c].track
        /\ shown.nativeReady = player.nativeReady /\ shown.useNative = player.useNative
        /\ shown.subscribed = player.subscribed
    BY <1>1, <1>2 DEF Stores
  <1>4. Goes(c, pc, q) BY DEF EnginePlay
  <1> HIDE DEF shown
  <1>5. /\ p \in Stores /\ p.current = call[c].track
        /\ p.nativeReady = player.nativeReady /\ p.useNative = player.useNative
        /\ p.subscribed = player.subscribed
    BY <1>3, EmitIs DEF Statuses
  <1> HIDE DEF p
  <1>6. /\ q \in Stores /\ q.current = call[c].track
        /\ q.nativeReady = player.nativeReady /\ q.useNative = player.useNative
        /\ q.subscribed = player.subscribed
        /\ ~player.useNative => /\ q.status = "playing"
                                /\ player.subscribed => q.isPlaying /\ ~q.isBuffering
    BY <1>5, EmitIs DEF Statuses
  <1>7. /\ pc \in Steps \cup {"done"} /\ pc \in (Steps \cup {"done"}) \ {"setup", "options"}
        /\ pc \in {"reset", "report"}
        /\ pc = "reset" <=> player.useNative
        /\ call[c].pc \in Steps \ {"setup", "options"} /\ call[c].pc \in Steps
    BY <1>5 DEF Steps
  <1> HIDE DEF q, pc
  <1>8. CallInv' BY <1>2, <1>4, <1>7, GoesAbout
  <1>9. LoadInv' BY <1>4, <1>6, <1>7, GoesLoaded
  <1>10. ASSUME OneSetUp /\ UnderWay = {c} /\ upset = {} /\ ~q.error
         PROVE  OnItsWay(c)'
    <2>1. call'[c].pc = pc /\ call'[c].track = call[c].track /\ player' = q
      BY <1>1, <1>4, <1>7, GoesIs
    <2>2. CASE pc = "reset" BY <1>6, <2>1, <2>2 DEF OnItsWay
    <2>3. CASE pc = "report"
      <3>1. /\ player.subscribed /\ ~player.useNative
            /\ native.queue = <<>> /\ ~native.playing /\ states = <<>>
        BY <1>7, <1>10, <2>3, LoadedMeans
      <3>2. /\ player'.isPlaying /\ ~player'.isBuffering /\ player'.status = "playing"
            /\ ~player'.useNative /\ player'.current # NoCurrent
        BY <1>2, <1>6, <2>1, <3>1, PlayerAssumption
      <3>3. Agrees' BY <3>1, <3>2 DEF Agrees
      <3> QED BY <2>1, <2>3, <3>3 DEF OnItsWay
    <2> QED BY <1>7, <2>2, <2>3
  <1>11. PlayInv' BY <1>4, <1>7, <1>10, GoesAlone
  <1>12. PlayerTypeOK' BY <1>4, <1>6, <1>7, GoesTypedQuietly
  <1> QED BY <1>8, <1>9, <1>11, <1>12 DEF ShownInv

LEMMA LookupKeeps == ASSUME ShownInv, NEW c \in Call, Lookup(c) PROVE ShownInv'
  <1>1. call[c].pc = "lookup" /\ UNCHANGED <<native, states, upset>> BY DEF Lookup
  <1>2. call[c].pc \in Steps \ {"setup", "options"} BY <1>1 DEF Steps
  <1>3. CASE EnginePlay(c) BY <1>1, <1>3, EnginePlayKeeps
  <1>4. CASE Goes(c, "preview", player) BY <1>1, <1>4, WaitKeeps
  <1>5. CASE Catch(c) BY <1>1, <1>2, <1>5, CatchKeeps
  <1> QED BY <1>3, <1>4, <1>5 DEF Lookup

LEMMA PreviewKeeps == ASSUME ShownInv, NEW c \in Call, Preview(c) PROVE ShownInv'
  <1>1. call[c].pc = "preview" /\ UNCHANGED <<native, states, upset>> BY DEF Preview
  <1>2. CASE EnginePlay(c) BY <1>1, <1>2, EnginePlayKeeps
  <1>3. CASE Goes(c, "download", player) BY <1>1, <1>3, WaitKeeps
  <1> QED BY <1>2, <1>3 DEF Preview

LEMMA DownloadKeeps == ASSUME ShownInv, NEW c \in Call, Download(c) PROVE ShownInv'
  <1>1. call[c].pc = "download" /\ UNCHANGED <<native, states, upset>> BY DEF Download
  <1>2. call[c].pc \in Steps \ {"setup", "options"} BY <1>1 DEF Steps
  <1>3. CASE EnginePlay(c) BY <1>1, <1>3, EnginePlayKeeps
  <1>4. CASE Catch(c) BY <1>1, <1>2, <1>4, CatchKeeps
  <1> QED BY <1>3, <1>4 DEF Download

LEMMA ReportKeeps == ASSUME ShownInv, NEW c \in Call, Report(c) PROVE ShownInv'
  BY WaitKeeps DEF Report

LEMMA RejectedKeeps == ASSUME ShownInv, NEW c \in Call, Rejected(c) PROVE ShownInv'
  <1>1. call[c].pc \in Steps \ {"setup", "options"} BY DEF Rejected, Steps
  <1> QED BY <1>1, CatchKeeps DEF Rejected

-----------------------------------------------------------------------------
(* The player: the native calls.                                           *)

LEMMA ResetKeeps == ASSUME ShownInv, NEW c \in Call, Reset(c) PROVE ShownInv'
  <1> "add" \in Steps \cup {"done"} /\ "add" \in (Steps \cup {"done"}) \ {"setup", "options"}
    BY DEF Steps
  <1>1. /\ player \in Stores /\ call \in [Call -> Steppings] /\ native \in Natives
        /\ states \in Seq(NativeStates) /\ upset \subseteq {"overlap", "swallowed", "ended"}
    BY PlayerTypeIs DEF ShownInv
  <1>2. call[c].pc = "reset" /\ Goes(c, "add", player) /\ NativeReset /\ upset' = upset
    BY DEF Reset
  <1>3. call[c].pc \in Steps \ {"setup", "options"} /\ call[c].pc \in Steps /\ call[c].op = "play"
    BY <1>2 DEF Steps, ShownInv, CallInv
  <1>4. /\ native' \in Natives /\ native'.queue = <<>> /\ ~native'.playing
        /\ native'.linked = native.linked /\ states' \in Seq(NativeStates)
    BY <1>1, <1>2, NativeResetIs
  <1>5. OneSetUp => player.useNative BY <1>2, <1>3, LoadedMeans
  <1>6. CallInv' BY <1>2, <1>3, GoesAbout
  <1>7. LoadInv' BY <1>2, <1>3, <1>4, <1>5, GoesLoaded
  <1>8. ASSUME OneSetUp /\ UnderWay = {c} /\ upset = {} /\ ~player.error
        PROVE  OnItsWay(c)'
    <2>1. OnItsWay(c) BY <1>8 DEF ShownInv, PlayInv
    <2>2. call'[c].pc = "add" /\ call'[c].track = call[c].track /\ player' = player
      BY <1>1, <1>2, GoesIs
    <2> QED BY <1>2, <1>4, <2>1, <2>2 DEF OnItsWay
  <1>9. PlayInv' BY <1>2, <1>3, <1>8, GoesAlone
  <1>10. PlayerTypeOK' BY <1>1, <1>2, <1>4, GoesTyped
  <1> QED BY <1>6, <1>7, <1>9, <1>10 DEF ShownInv

LEMMA AddKeeps == ASSUME ShownInv, NEW c \in Call, Add(c) PROVE ShownInv'
  <1> "start" \in Steps \cup {"done"} /\ "start" \in (Steps \cup {"done"}) \ {"setup", "options"}
    BY DEF Steps
  <1>1. /\ player \in Stores /\ call \in [Call -> Steppings] /\ native \in Natives
        /\ states \in Seq(NativeStates) /\ upset \subseteq {"overlap", "swallowed", "ended"}
    BY PlayerTypeIs DEF ShownInv
  <1>2. call[c].pc = "add" /\ Goes(c, "start", player) /\ NativeAdd(call[c].track) /\ upset' = upset
    BY DEF Add
  <1>3. /\ call[c].pc \in Steps \ {"setup", "options"} /\ call[c].pc \in Steps
        /\ call[c].op = "play" /\ call[c].track \in PlayerTracks
    BY <1>2 DEF Steps, ShownInv, CallInv
  <1>4. /\ native' \in Natives /\ native'.queue = Append(native.queue, call[c].track)
        /\ native'.queue # <<>> /\ native'.linked = native.linked /\ states' = states
    BY <1>1, <1>2, <1>3, NativeAddIs
  <1>5. OneSetUp => player.useNative BY <1>2, <1>3, LoadedMeans
  <1>6. CallInv' BY <1>2, <1>3, GoesAbout
  <1>7. LoadInv' BY <1>2, <1>3, <1>4, <1>5, GoesLoaded
  <1>8. ASSUME OneSetUp /\ UnderWay = {c} /\ upset = {} /\ ~player.error
        PROVE  OnItsWay(c)'
    <2>1. OnItsWay(c) BY <1>8 DEF ShownInv, PlayInv
    <2>2. call'[c].pc = "start" /\ call'[c].track = call[c].track /\ player' = player
      BY <1>1, <1>2, GoesIs
    <2>3. native'.queue = <<call[c].track>>
      <3>1. native.queue = <<>> BY <1>2, <2>1 DEF OnItsWay
      <3> QED BY <1>4, <3>1
    <2>4. player.current = call[c].track BY <1>2, <2>1 DEF OnItsWay
    <2> QED BY <2>2, <2>3, <2>4 DEF OnItsWay
  <1>9. PlayInv' BY <1>2, <1>3, <1>8, GoesAlone
  <1>10. states' \in Seq(NativeStates) BY <1>1, <1>4
  <1>11. PlayerTypeOK' BY <1>1, <1>2, <1>4, <1>10, GoesTyped
  <1> QED BY <1>6, <1>7, <1>9, <1>11 DEF ShownInv

LEMMA PlayKeeps == ASSUME ShownInv, NEW c \in Call, Play(c) PROVE ShownInv'
  <1> DEFINE q == Emit(player, "playing")
  <1> "report" \in Steps \cup {"done"} /\ "report" \in (Steps \cup {"done"}) \ {"setup", "options"}
    BY DEF Steps
  <1>1. /\ player \in Stores /\ call \in [Call -> Steppings] /\ native \in Natives
        /\ states \in Seq(NativeStates) /\ upset \subseteq {"overlap", "swallowed", "ended"}
    BY PlayerTypeIs DEF ShownInv
  <1>2. call[c].pc = "start" /\ Goes(c, "report", q) /\ NativePlay /\ upset' = upset
    BY DEF Play
  <1>3. /\ call[c].pc \in Steps \ {"setup", "options"} /\ call[c].pc \in Steps
        /\ call[c].op = "play" /\ call[c].track \in PlayerTracks
    BY <1>2 DEF Steps, ShownInv, CallInv
  <1>4. /\ q \in Stores /\ q.status = "playing" /\ q.current = player.current
        /\ q.error = player.error /\ q.subscribed = player.subscribed
        /\ q.useNative = player.useNative /\ q.nativeReady = player.nativeReady
        /\ player.subscribed => q.isPlaying /\ ~q.isBuffering
    BY <1>1, EmitIs DEF Statuses
  <1> HIDE DEF q
  <1>5. /\ native' \in Natives /\ native'.queue = native.queue
        /\ native'.linked = native.linked
        /\ native'.playing <=> native.queue # <<>>
        /\ states' \in Seq(NativeStates)
        /\ native.queue # <<>> => states' # <<>> /\ states'[Len(states')] = "playing"
    BY <1>1, <1>2, NativePlayIs
  <1>6. OneSetUp => player.useNative BY <1>2, <1>3, LoadedMeans
  <1>7. CallInv' BY <1>2, <1>3, GoesAbout
  <1>8. LoadInv' BY <1>2, <1>3, <1>4, <1>5, <1>6, GoesLoaded
  <1>9. ASSUME OneSetUp /\ UnderWay = {c} /\ upset = {} /\ ~q.error
        PROVE  OnItsWay(c)'
    <2>1. OnItsWay(c) BY <1>4, <1>9 DEF ShownInv, PlayInv
    <2>2. call'[c].pc = "report" /\ player' = q BY <1>1, <1>2, GoesIs
    <2>3. native.queue = <<call[c].track>> /\ player.current = call[c].track
      BY <1>2, <2>1 DEF OnItsWay
    <2>4. native.queue # <<>> /\ player.current # NoCurrent BY <1>3, <2>3, PlayerAssumption
    <2>5. Agrees' BY <1>4, <1>5, <2>2, <2>3, <2>4 DEF Agrees, LastState
    <2> QED BY <2>2, <2>5 DEF OnItsWay
  <1>10. PlayInv' BY <1>2, <1>3, <1>9, GoesAlone
  <1>11. PlayerTypeOK' BY <1>1, <1>2, <1>4, <1>5, GoesTyped
  <1> QED BY <1>7, <1>8, <1>10, <1>11 DEF ShownInv

LEMMA ClearKeeps == ASSUME ShownInv, NEW c \in Call, Clear(c) PROVE ShownInv'
  <1> DEFINE q == Emit(player, "stopped")
  <1> "done" \in Steps \cup {"done"} /\ "done" \in (Steps \cup {"done"}) \ {"setup", "options"}
    BY DEF Steps
  <1>1. /\ player \in Stores /\ call \in [Call -> Steppings] /\ native \in Natives
        /\ states \in Seq(NativeStates) /\ upset \subseteq {"overlap", "swallowed", "ended"}
    BY PlayerTypeIs DEF ShownInv
  <1>2. call[c].pc = "clear" /\ Goes(c, "done", q) /\ NativeReset /\ upset' = upset
    BY DEF Clear
  <1>3. call[c].pc \in Steps \ {"setup", "options"} /\ call[c].pc \in Steps BY <1>2 DEF Steps
  <1>4. /\ q \in Stores /\ q.status = "stopped" /\ q.current = player.current
        /\ q.error = player.error /\ q.subscribed = player.subscribed
        /\ q.useNative = player.useNative /\ q.nativeReady = player.nativeReady
    BY <1>1, EmitIs DEF Statuses
  <1> HIDE DEF q
  <1>5. /\ native' \in Natives /\ native'.queue = <<>> /\ ~native'.playing
        /\ native'.linked = native.linked /\ states' \in Seq(NativeStates)
        /\ states' # <<>> /\ states'[Len(states')] = "none"
    BY <1>1, <1>2, NativeResetIs
  <1>6. OneSetUp => player.useNative BY <1>2, <1>3, LoadedMeans
  <1>7. CallInv' BY <1>2, <1>3, GoesAbout
  <1>8. LoadInv' BY <1>2, <1>3, <1>4, <1>5, <1>6, GoesLoaded
  <1>9. ASSUME OneSetUp /\ UnderWay = {c} /\ upset = {} /\ ~q.error
        PROVE  Agrees'
    <2>1. OnItsWay(c) BY <1>4, <1>9 DEF ShownInv, PlayInv
    <2>2. player' = q BY <1>1, <1>2, GoesIs
    <2>3. player.current = NoCurrent BY <1>2, <2>1 DEF OnItsWay
    <2> QED BY <1>4, <1>5, <2>2, <2>3 DEF Agrees, LastState
  <1>10. PlayInv' BY <1>2, <1>3, <1>9, GoesAlone
  <1>11. PlayerTypeOK' BY <1>1, <1>2, <1>4, <1>5, GoesTyped
  <1> QED BY <1>7, <1>8, <1>10, <1>11 DEF ShownInv

LEMMA SwallowedKeeps == ASSUME ShownInv, NEW c \in Call, Swallowed(c) PROVE ShownInv'
  <1> "done" \in Steps \cup {"done"} /\ "done" \in (Steps \cup {"done"}) \ {"setup", "options"}
    BY DEF Steps
  <1>1. /\ player \in Stores /\ native \in Natives /\ states \in Seq(NativeStates)
        /\ native.playing => native.queue # <<>>
    BY PlayerTypeIs DEF ShownInv
  <1>2. Goes(c, "done", player) /\ native' = native /\ states' = states BY DEF Swallowed
  <1>3. call[c].pc \in Steps \ {"setup", "options"} /\ call[c].pc \in Steps
    BY DEF Swallowed, Steps
  <1>4. upset' # {} /\ upset' \subseteq {"overlap", "swallowed", "ended"}
    BY PlayerTypeIs DEF Swallowed, ShownInv
  <1>5. CallInv' BY <1>2, <1>3, GoesAbout
  <1>6. LoadInv' BY <1>2, <1>3, GoesLoaded
  <1>7. PlayInv' BY <1>4 DEF PlayInv
  <1>8. /\ native' \in Natives /\ states' \in Seq(NativeStates)
        /\ native'.playing => native'.queue # <<>>
    BY <1>1, <1>2
  <1>9. PlayerTypeOK' BY <1>1, <1>2, <1>4, <1>8, GoesTyped
  <1> QED BY <1>5, <1>6, <1>7, <1>9 DEF ShownInv

\* Pause, resume and stop reach the native player, or change the status alone.
LEMMA ControlKeeps == ASSUME ShownInv, NEW c \in Call, Control(c) PROVE ShownInv'
  <1> DEFINE op == call[c].op
             ended == [pause |-> "paused", resume |-> "playing", stop |-> "stopped"][op]
             q == Emit(player, ended)
  <1> /\ "done" \in Steps \cup {"done"} /\ "done" \in (Steps \cup {"done"}) \ {"setup", "options"}
      /\ "clear" \in Steps \cup {"done"} /\ "clear" \in (Steps \cup {"done"}) \ {"setup", "options"}
    BY DEF Steps
  <1>1. /\ player \in Stores /\ call \in [Call -> Steppings] /\ native \in Natives
        /\ states \in Seq(NativeStates) /\ upset \subseteq {"overlap", "swallowed", "ended"}
    BY PlayerTypeIs DEF ShownInv
  <1>2. call[c].pc = "control" /\ upset' = upset BY DEF Control
  <1>3. /\ call[c].pc \in Steps \ {"setup", "options"} /\ call[c].pc \in Steps
        /\ op \in {"pause", "resume", "stop"}
    BY <1>2 DEF Steps, ShownInv, CallInv
  <1>4. ended = IF op = "pause" THEN "paused" ELSE IF op = "resume" THEN "playing" ELSE "stopped"
    BY <1>3
  <1>5. player.useNative =>
          /\ IF op = "resume" THEN NativePlay ELSE NativeHalt(ended)
          /\ IF op = "stop" THEN Goes(c, "clear", player) ELSE Goes(c, "done", q)
    BY DEF Control
  <1>6. ~player.useNative => Goes(c, "done", q) /\ native' = native /\ states' = states
    BY DEF Control
  <1> HIDE DEF ended
  <1>7. ended \in Statuses /\ ended \in NativeStates /\ ended # "loading"
    BY <1>4 DEF Statuses, NativeStates
  <1>8. /\ q \in Stores /\ q.status = ended /\ q.current = player.current
        /\ q.error = player.error /\ q.subscribed = player.subscribed
        /\ q.useNative = player.useNative /\ q.nativeReady = player.nativeReady
        /\ player.subscribed => /\ q.isPlaying <=> ended = "playing"
                                /\ ~q.isBuffering
    BY <1>1, <1>7, EmitIs
  <1> HIDE DEF q
  <1>9. ASSUME OneSetUp /\ UnderWay = {c} /\ upset = {} /\ ~player.error
        PROVE  /\ player.subscribed
               /\ op \in {"pause", "resume"} =>
                    /\ player.current # NoCurrent
                    /\ player.useNative => native.queue = <<player.current>>
               /\ op = "stop" => player.current = NoCurrent
               /\ ~player.useNative => native.queue = <<>> /\ ~native.playing /\ states = <<>>
    <2>1. OnItsWay(c) BY <1>9 DEF ShownInv, PlayInv
    <2>2. /\ player.subscribed
          /\ ~player.useNative => native.queue = <<>> /\ ~native.playing /\ states = <<>>
      BY <1>3, <1>9, LoadedMeans
    <2> QED BY <1>2, <2>1, <2>2 DEF OnItsWay
  <1>10. CASE player.useNative /\ op = "resume"
    <2>1. Goes(c, "done", q) /\ NativePlay BY <1>5, <1>10
    <2>2. /\ native' \in Natives /\ native'.queue = native.queue
          /\ native'.linked = native.linked
          /\ native'.playing <=> native.queue # <<>>
          /\ states' \in Seq(NativeStates)
          /\ native.queue # <<>> => states' # <<>> /\ states'[Len(states')] = "playing"
      BY <1>1, <2>1, NativePlayIs
    <2>3. CallInv' BY <1>3, <2>1, GoesAbout
    <2>4. LoadInv' BY <1>3, <1>8, <1>10, <2>1, <2>2, GoesLoaded
    <2>5. ASSUME OneSetUp /\ UnderWay = {c} /\ upset = {} /\ ~q.error PROVE Agrees'
      <3>1. player' = q BY <1>1, <2>1, GoesIs
      <3>2. player.current # NoCurrent /\ native.queue = <<player.current>>
        BY <1>8, <1>9, <1>10, <2>5
      <3>3. native.queue # <<>> BY <3>2
      <3> QED BY <1>8, <2>2, <3>1, <3>2, <3>3 DEF Agrees, LastState
    <2>6. PlayInv' BY <1>2, <1>3, <2>1, <2>5, GoesAlone
    <2>7. PlayerTypeOK' BY <1>1, <1>2, <1>8, <2>1, <2>2, GoesTyped
    <2> QED BY <2>3, <2>4, <2>6, <2>7 DEF ShownInv
  <1>11. CASE player.useNative /\ op = "pause"
    <2>1. Goes(c, "done", q) /\ NativeHalt("paused") BY <1>4, <1>5, <1>11
    <2>2. /\ native' \in Natives /\ native'.queue = native.queue /\ ~native'.playing
          /\ native'.linked = native.linked
          /\ states' \in Seq(NativeStates) /\ states' # <<>> /\ states'[Len(states')] = "paused"
      BY <1>1, <2>1, NativeHaltIs DEF NativeStates
    <2>3. CallInv' BY <1>3, <2>1, GoesAbout
    <2>4. LoadInv' BY <1>3, <1>8, <1>11, <2>1, <2>2, GoesLoaded
    <2>5. ASSUME OneSetUp /\ UnderWay = {c} /\ upset = {} /\ ~q.error PROVE Agrees'
      <3>1. player' = q BY <1>1, <2>1, GoesIs
      <3>2. player.current # NoCurrent /\ native.queue = <<player.current>>
        BY <1>8, <1>9, <1>11, <2>5
      <3> QED BY <1>8, <2>2, <3>1, <3>2 DEF Agrees, LastState
    <2>6. PlayInv' BY <1>2, <1>3, <2>1, <2>5, GoesAlone
    <2>7. PlayerTypeOK' BY <1>1, <1>2, <1>8, <2>1, <2>2, GoesTyped
    <2> QED BY <2>3, <2>4, <2>6, <2>7 DEF ShownInv
  <1>12. CASE player.useNative /\ op = "stop"
    <2>1. Goes(c, "clear", player) /\ NativeHalt("stopped") BY <1>4, <1>5, <1>12
    <2>2. /\ native' \in Natives /\ native'.queue = native.queue /\ ~native'.playing
          /\ native'.linked = native.linked /\ states' \in Seq(NativeStates)
      BY <1>1, <2>1, NativeHaltIs DEF NativeStates
    <2>3. CallInv' BY <1>3, <1>12, <2>1, GoesAbout
    <2>4. LoadInv' BY <1>3, <1>12, <2>1, <2>2, GoesLoaded
    <2>5. ASSUME OneSetUp /\ UnderWay = {c} /\ upset = {} /\ ~player.error PROVE OnItsWay(c)'
      <3>1. player' = player /\ call'[c].pc = "clear" BY <1>1, <2>1, GoesIs
      <3>2. player.current = NoCurrent BY <1>9, <1>12, <2>5
      <3> QED BY <3>1, <3>2 DEF OnItsWay
    <2>6. PlayInv' BY <1>2, <1>3, <2>1, <2>5, GoesAlone
    <2>7. PlayerTypeOK' BY <1>1, <1>2, <2>1, <2>2, GoesTyped
    <2> QED BY <2>3, <2>4, <2>6, <2>7 DEF ShownInv
  <1>13. CASE ~player.useNative
    <2>1. Goes(c, "done", q) /\ native' = native /\ states' = states BY <1>6, <1>13
    <2>2. CallInv' BY <1>3, <2>1, GoesAbout
    <2>3. LoadInv' BY <1>3, <1>8, <2>1, GoesLoaded
    <2>4. ASSUME OneSetUp /\ UnderWay = {c} /\ upset = {} /\ ~q.error PROVE Agrees'
      <3>1. player' = q BY <1>1, <2>1, GoesIs
      <3>2. /\ player.subscribed /\ native.queue = <<>> /\ ~native.playing /\ states = <<>>
            /\ ended = "playing" => player.current # NoCurrent
        BY <1>3, <1>4, <1>8, <1>9, <1>13, <2>4
      <3> QED BY <1>7, <1>8, <1>13, <2>1, <3>1, <3>2 DEF Agrees
    <2>5. PlayInv' BY <1>2, <1>3, <2>1, <2>4, GoesAlone
    <2>6. /\ native' \in Natives /\ states' \in Seq(NativeStates)
          /\ native'.playing => native'.queue # <<>>
      BY <1>1, <2>1, PlayerTypeIs DEF ShownInv
    <2>7. PlayerTypeOK' BY <1>1, <1>2, <1>8, <2>1, <2>6, GoesTyped
    <2> QED BY <2>2, <2>3, <2>5, <2>7 DEF ShownInv
  <1> QED BY <1>3, <1>10, <1>11, <1>12, <1>13

-----------------------------------------------------------------------------
(* The player: what happens without a call of the store.                   *)

\* While the native player has something to say, the store listens to it.
LEMMA NativeMeans ==
  ASSUME ShownInv, OneSetUp, states # <<>> \/ native.playing \/ native.queue # <<>>
  PROVE  player.useNative /\ player.nativeReady /\ player.subscribed
  BY DEF ShownInv, LoadInv

\* A step of the listener changes what is shown, and the states on their way.
LEMMA ListenerKeeps ==
  ASSUME ShownInv, NEW p \in Stores, player' = p, UNCHANGED <<native, call, upset>>,
         states' \in Seq(NativeStates), states # <<>> \/ native.playing,
         p.current = player.current, p.error = player.error, p.subscribed = player.subscribed,
         p.useNative = player.useNative, p.nativeReady = player.nativeReady,
         OneSetUp /\ Agrees => Agrees'
  PROVE  ShownInv'
  <1>0. native' = native /\ call' = call /\ upset' = upset OBVIOUS
  <1>1. PlayerTypeOK' BY <1>0, PlayerTypeIs
    DEF ShownInv, PlayerTypeOK, Stores, Natives, NativeStates, Steppings, Statuses
  <1>2. CallInv' BY <1>0 DEF ShownInv, CallInv
  <1>3. OneSetUp' <=> OneSetUp BY <1>0 DEF OneSetUp
  <1>4. UnderWay' = UnderWay BY <1>0 DEF UnderWay
  <1>5. OneSetUp => player.useNative /\ player.nativeReady BY NativeMeans
  <1>6. LoadInv' BY <1>0, <1>3, <1>5 DEF ShownInv, LoadInv
  <1>7. PlayInv'
    <2> SUFFICES ASSUME OneSetUp, upset = {}
                 PROVE  /\ \A c, d \in UnderWay' : c = d
                        /\ ~p.error => /\ \A c \in UnderWay' : OnItsWay(c)'
                                       /\ UnderWay' = {} => Agrees'
      BY <1>0, <1>3 DEF PlayInv
    <2>1. \A c, d \in UnderWay : c = d BY DEF ShownInv, PlayInv
    <2>2. ASSUME ~p.error, NEW c \in UnderWay PROVE OnItsWay(c)'
      <3>1. OnItsWay(c) BY <2>2 DEF ShownInv, PlayInv
      <3> QED BY <1>0, <3>1 DEF OnItsWay
    <2>3. ~p.error /\ UnderWay = {} => Agrees' BY DEF ShownInv, PlayInv
    <2> QED BY <1>4, <2>1, <2>2, <2>3
  <1> QED BY <1>1, <1>2, <1>6, <1>7 DEF ShownInv

LEMMA DeliverKeeps == ASSUME ShownInv, Deliver PROVE ShownInv'
  <1> DEFINE h == Head(states)
             p == IF h = "ended" THEN player ELSE Emit(player, StatusOf(h))
  <1>1. /\ player \in Stores /\ native \in Natives /\ states \in Seq(NativeStates)
        /\ native.playing => native.queue # <<>>
    BY PlayerTypeIs DEF ShownInv
  <1>2. states # <<>> /\ states' = Tail(states) /\ player' = p /\ UNCHANGED <<native, call, upset>>
    BY DEF Deliver
  <1>3. /\ states' \in Seq(NativeStates) /\ h \in NativeStates
        /\ states' # <<>> => states'[Len(states')] = states[Len(states)]
        /\ states' = <<>> => h = states[Len(states)]
    BY <1>1, <1>2, LastOfTail
  <1> HIDE DEF h
  <1>4. /\ p \in Stores /\ p.current = player.current /\ p.error = player.error
        /\ p.subscribed = player.subscribed
        /\ p.useNative = player.useNative /\ p.nativeReady = player.nativeReady
        /\ h # "ended" => p.status = StatusOf(h)
        /\ h # "ended" /\ player.subscribed => /\ p.isPlaying <=> StatusOf(h) = "playing"
                                               /\ p.isBuffering <=> StatusOf(h) = "loading"
    BY <1>1, <1>3, StatusIs, EmitIs
  <1> HIDE DEF p
  <1>5. ASSUME OneSetUp, Agrees PROVE Agrees'
    <2>1. player.useNative /\ player.subscribed BY <1>2, <1>5, NativeMeans
    <2>2. /\ states[Len(states)] \in {"none", "paused", "stopped", "playing"}
          /\ states[Len(states)] = "playing" <=> native.playing
      BY <1>2, <1>5 DEF Agrees, LastState
    <2>3. CASE states' # <<>>
      BY <1>2, <1>3, <1>4, <1>5, <2>2, <2>3 DEF Agrees, LastState
    <2>4. CASE states' = <<>>
      <3>1. h # "ended" /\ h # "buffering" /\ (h = "playing" <=> native.playing)
        BY <1>3, <2>2, <2>4
      <3>2. /\ p.status = "playing" <=> native.playing
            /\ p.status # "loading" /\ ~p.isBuffering
            /\ p.isPlaying <=> native.playing
        BY <1>3, <1>4, <2>1, <3>1, StatusIs
      <3>3. native.playing => player.current # NoCurrent BY <1>1, <1>5 DEF Agrees
      <3>4. p.isPlaying = native.playing
        <4>1. p.isPlaying \in BOOLEAN /\ native.playing \in BOOLEAN BY <1>1, <1>4 DEF Stores, Natives
        <4> QED BY <3>2, <4>1
      <3> QED BY <1>2, <1>4, <1>5, <2>4, <3>2, <3>3, <3>4 DEF Agrees
    <2> QED BY <2>3, <2>4
  <1> QED BY <1>2, <1>3, <1>4, <1>5, ListenerKeeps

LEMMA ReemitKeeps == ASSUME ShownInv, Reemit PROVE ShownInv'
  <1> DEFINE p == Emit(player, player.status)
  <1>1. player \in Stores /\ native \in Natives /\ states \in Seq(NativeStates)
    BY PlayerTypeIs DEF ShownInv
  <1>2. native.playing /\ states' = states /\ player' = p /\ UNCHANGED <<native, call, upset>>
    BY DEF Reemit
  <1>3. player.status \in Statuses BY <1>1 DEF Stores
  <1>4. /\ p \in Stores /\ p.current = player.current /\ p.error = player.error
        /\ p.subscribed = player.subscribed /\ p.status = player.status
        /\ p.useNative = player.useNative /\ p.nativeReady = player.nativeReady
        /\ player.subscribed => /\ p.isPlaying <=> player.status = "playing"
                                /\ p.isBuffering <=> player.status = "loading"
    BY <1>1, <1>3, EmitIs
  <1> HIDE DEF p
  <1>5. ASSUME OneSetUp, Agrees PROVE Agrees'
    <2>1. player.subscribed BY <1>2, <1>5, NativeMeans
    <2>2. states = <<>> => p.isPlaying = player.isPlaying
      <3>1. p.isPlaying \in BOOLEAN /\ player.isPlaying \in BOOLEAN BY <1>1, <1>4 DEF Stores
      <3>2. states = <<>> => (player.isPlaying <=> player.status = "playing") BY <1>5 DEF Agrees
      <3> QED BY <1>4, <2>1, <3>1, <3>2
    <2> QED BY <1>2, <1>4, <1>5, <2>1, <2>2 DEF Agrees, LastState
  <1>6. states' \in Seq(NativeStates) BY <1>1, <1>2
  <1> QED BY <1>2, <1>4, <1>5, <1>6, ListenerKeeps

LEMMA RemoteKeeps == ASSUME ShownInv, Remote PROVE ShownInv'
  <1>1. /\ player \in Stores /\ native \in Natives /\ states \in Seq(NativeStates)
        /\ native.playing => native.queue # <<>>
        /\ upset \subseteq {"overlap", "swallowed", "ended"}
    BY PlayerTypeIs DEF ShownInv
  <1>2. /\ player' = player /\ call' = call
        /\ upset' = upset \cup (IF UnderWay # {} THEN {"overlap"} ELSE {})
                          \cup (IF states' # states /\ states'[Len(states')] = "ended"
                                THEN {"ended"} ELSE {})
        /\ RemotePlay \/ RemoteHalt
    BY DEF Remote
  <1>3. /\ native.queue # <<>> /\ native'.queue = native.queue
        /\ native' \in Natives /\ native'.linked = native.linked
        /\ states' \in Seq(NativeStates) /\ states' # <<>>
        /\ states'[Len(states')] \in {"paused", "stopped", "ended", "playing"}
        /\ states'[Len(states')] = "playing" <=> native'.playing
    <2>1. CASE RemotePlay
      <3>1. native.queue # <<>> /\ NativePlay BY <2>1 DEF RemotePlay
      <3> QED BY <1>1, <3>1, NativePlayIs
    <2>2. CASE RemoteHalt
      <3>1. PICK s \in {"paused", "stopped", "ended"} : NativeHalt(s) BY <2>2 DEF RemoteHalt
      <3>2. native.playing BY <2>2 DEF RemoteHalt
      <3>3. s \in NativeStates BY DEF NativeStates
      <3> QED BY <1>1, <3>1, <3>2, <3>3, NativeHaltIs
    <2> QED BY <1>2, <2>1, <2>2
  <1>4. PlayerTypeOK'
    <2>1. upset' \subseteq {"overlap", "swallowed", "ended"} BY <1>1, <1>2
    <2>2. player' \in Stores BY <1>1, <1>2
    <2>3. call' \in [Call -> Steppings] BY <1>2, PlayerTypeIs DEF ShownInv
    <2>4. native'.queue # <<>> BY <1>3
    <2> QED BY <1>3, <2>1, <2>2, <2>3, <2>4
      DEF PlayerTypeOK, Stores, Natives, NativeStates, Steppings, Statuses
  <1>5. CallInv' BY <1>2 DEF ShownInv, CallInv
  <1>6. OneSetUp' <=> OneSetUp BY <1>2 DEF OneSetUp
  <1>7. OneSetUp => player.useNative /\ player.nativeReady BY <1>3, NativeMeans
  <1>8. LoadInv' BY <1>2, <1>3, <1>6, <1>7 DEF ShownInv, LoadInv
  <1>9. PlayInv'
    <2> SUFFICES ASSUME OneSetUp, upset' = {}
                 PROVE  /\ \A c, d \in UnderWay' : c = d
                        /\ ~player.error => /\ \A c \in UnderWay' : OnItsWay(c)'
                                            /\ UnderWay' = {} => Agrees'
      BY <1>2, <1>6 DEF PlayInv
    <2>1. upset = {} /\ UnderWay = {} BY <1>2
    <2>3. UnderWay' = {} BY <1>2, <2>1 DEF UnderWay
    <2>4. ASSUME ~player.error PROVE Agrees'
      <3>1. Agrees BY <2>1, <2>4 DEF ShownInv, PlayInv
      <3>2. states'[Len(states')] # "ended"
        <4>1. states' # states => states'[Len(states')] # "ended" BY <1>2
        <4>2. states' = states => states'[Len(states')] # "ended"
          BY <1>3, <3>1 DEF Agrees, LastState
        <4> QED BY <4>1, <4>2
      <3> QED BY <1>2, <1>3, <3>1, <3>2 DEF Agrees, LastState
    <2> QED BY <2>3, <2>4
  <1> QED BY <1>4, <1>5, <1>8, <1>9 DEF ShownInv

-----------------------------------------------------------------------------
(* The player: the invariant, and what is shown.                           *)

LEMMA PlayerInitInv == PlayerInit => ShownInv
  <1> SUFFICES ASSUME PlayerInit PROVE ShownInv OBVIOUS
  <1>1. /\ player \in Stores
        /\ player.current = NoCurrent /\ ~player.isPlaying /\ ~player.isBuffering
        /\ ~player.error /\ player.status = "idle" /\ ~player.useNative /\ ~player.nativeReady
    BY DEF PlayerInit, Stores, Statuses
  <1>2. /\ native \in Natives /\ native.queue = <<>> /\ ~native.playing
    <2>1. native \in [linked : BOOLEAN, up : {FALSE}, queue : {<<>>}, playing : {FALSE}]
      BY DEF PlayerInit
    <2>2. <<>> \in Seq(PlayerTracks) OBVIOUS
    <2>3. native.queue = <<>> /\ native.playing = FALSE BY <2>1
    <2> QED BY <2>1, <2>2, <2>3 DEF Natives
  <1>3. states = <<>> /\ upset = {} /\ states \in Seq(NativeStates) BY DEF PlayerInit
  <1>4. /\ call \in [Call -> Steppings]
        /\ \A c \in Call : call[c].pc = "new" /\ call[c].op = "none" /\ ~call[c].setUp
    <2>1. NewCall \in Steppings /\ NewCall.pc = "new" /\ NewCall.op = "none" /\ ~NewCall.setUp
      BY DEF NewCall, Steppings
    <2>2. call = [c \in Call |-> NewCall] BY DEF PlayerInit
    <2> QED BY <2>1, <2>2
  <1>5. PlayerTypeOK BY <1>1, <1>2, <1>3, <1>4, PlayerTypeIs
  <1>6. CallInv BY <1>4 DEF CallInv, Steps
  <1>7. LoadInv BY <1>1, <1>2, <1>3, <1>4 DEF LoadInv
  <1>8. UnderWay = {} BY <1>4 DEF UnderWay, Steps
  <1>9. Agrees
    <2>1. player.isPlaying = native.playing
      <3>1. player.isPlaying \in BOOLEAN /\ native.playing \in BOOLEAN
        BY <1>1, <1>2 DEF Stores, Natives
      <3> QED BY <1>1, <1>2, <3>1
    <2> QED BY <1>1, <1>2, <1>3, <2>1 DEF Agrees
  <1>10. PlayInv BY <1>8, <1>9 DEF PlayInv
  <1> QED BY <1>5, <1>6, <1>7, <1>10 DEF ShownInv

LEMMA PlayerNextKeeps == ShownInv /\ [PlayerNext]_playerVars => ShownInv'
  <1> SUFFICES ASSUME ShownInv, [PlayerNext]_playerVars PROVE ShownInv' OBVIOUS
  <1>1. CASE UNCHANGED playerVars
    <2>1. player' = player /\ native' = native /\ states' = states /\ call' = call /\ upset' = upset
      BY <1>1 DEF playerVars
    <2>2. PlayerTypeOK' BY <2>1 DEF ShownInv, PlayerTypeOK
    <2>3. CallInv' BY <2>1 DEF ShownInv, CallInv
    <2>4. OneSetUp' <=> OneSetUp BY <2>1 DEF OneSetUp
    <2>5. LoadInv' BY <2>1, <2>4 DEF ShownInv, LoadInv
    <2>6. UnderWay' = UnderWay BY <2>1 DEF UnderWay
    <2>7. Agrees' <=> Agrees BY <2>1 DEF Agrees, LastState
    <2>8. \A c \in Call : OnItsWay(c)' <=> OnItsWay(c) BY <2>1, <2>7 DEF OnItsWay
    <2>9. UnderWay \subseteq Call BY DEF UnderWay
    <2>10. PlayInv' BY <2>1, <2>4, <2>6, <2>7, <2>8, <2>9 DEF ShownInv, PlayInv
    <2> QED BY <2>2, <2>3, <2>5, <2>10 DEF ShownInv
  <1>2. CASE Deliver BY <1>2, DeliverKeeps
  <1>3. CASE Reemit BY <1>3, ReemitKeeps
  <1>4. CASE Remote BY <1>4, RemoteKeeps
  <1>5. ASSUME NEW c \in Call, NEW t \in PlayerTracks, PlayTrack(c, t) PROVE ShownInv'
    BY <1>5, PlayTrackKeeps
  <1>6. ASSUME NEW c \in Call, Start(c) \/ Pause(c) \/ Resume(c) \/ Stop(c) PROVE ShownInv'
    BY <1>6, StartKeeps, PauseKeeps, ResumeKeeps, StopKeeps
  <1>7. ASSUME NEW c \in Call, SetUp(c) \/ UpdateOptions(c) \/ Lookup(c) \/ Preview(c) \/ Download(c)
        PROVE  ShownInv'
    BY <1>7, SetUpKeeps, UpdateOptionsKeeps, LookupKeeps, PreviewKeeps, DownloadKeeps
  <1>8. ASSUME NEW c \in Call, Reset(c) \/ Add(c) \/ Play(c) \/ Report(c) \/ Rejected(c)
        PROVE  ShownInv'
    BY <1>8, ResetKeeps, AddKeeps, PlayKeeps, ReportKeeps, RejectedKeeps
  <1>9. ASSUME NEW c \in Call, Control(c) \/ Clear(c) \/ Swallowed(c) PROVE ShownInv'
    BY <1>9, ControlKeeps, ClearKeeps, SwallowedKeeps
  <1> QED BY <1>1, <1>2, <1>3, <1>4, <1>5, <1>6, <1>7, <1>8, <1>9 DEF PlayerNext

\* Of calls that are not two, any two are the same.
LEMMA NotTwiceIsOne == ~SetUpTwice => OneSetUp
  <1> DEFINE S == {c \in Call : call[c].setUp}
  <1> SUFFICES ASSUME ~SetUpTwice, NEW c \in S, NEW d \in S, c # d PROVE FALSE
    BY DEF OneSetUp
  <1>1. ~(Cardinality(S) > 1) BY DEF SetUpTwice
  <1>2. IsFiniteSet(Call) BY PlayerAssumption, FS_Interval DEF Call
  <1>3. S \in SUBSET Call OBVIOUS
  <1>4. {c, d} \in SUBSET S OBVIOUS
  <1> HIDE DEF S
  <1>5. IsFiniteSet(S) BY <1>2, <1>3, FS_Subset
  <1>6. Cardinality(S) \in Nat BY <1>5, FS_CardinalityType
  <1>7. IsFiniteSet({c, d}) /\ Cardinality({c, d}) <= Cardinality(S) BY <1>4, <1>5, FS_Subset
  <1>8. Cardinality({c, d}) = 2
    <2>1. IsFiniteSet({c}) /\ Cardinality({c}) = 1 BY FS_Singleton
    <2>2. {c} \cup {d} = {c, d} /\ d \notin {c} OBVIOUS
    <2>3. Cardinality({c} \cup {d}) = 1 + 1 BY <2>1, <2>2, FS_AddElement
    <2> QED BY <2>2, <2>3
  <1> QED BY <1>1, <1>6, <1>7, <1>8

LEMMA ShownInvShows == ShownInv => ShowsWhatPlays
  <1> SUFFICES ASSUME ShownInv, Settled, upset = {}, ~player.error, ~SetUpTwice
               PROVE  /\ ~player.isBuffering
                      /\ player.isPlaying => player.current # NoCurrent
                      /\ player.isPlaying /\ player.useNative => native.playing
                      /\ native.playing => player.isPlaying /\ native.queue = <<player.current>>
    BY DEF ShowsWhatPlays
  <1>1. OneSetUp BY NotTwiceIsOne
  <1>2. Agrees BY <1>1 DEF ShownInv, PlayInv, Settled
  <1>3. /\ states = <<>>
        /\ native.playing => native.queue # <<>>
    BY PlayerTypeIs DEF Settled, ShownInv
  <1>4. native.playing => player.useNative BY <1>1, NativeMeans
  <1> QED BY <1>2, <1>3, <1>4 DEF Agrees

LEMMA ShownInvHolds == PlayerSpec => []ShownInv
  BY PlayerInitInv, PlayerNextKeeps, PTL DEF PlayerSpec

\* The store, the native player, its events and the calls keep their types, and
\* the native player plays only from a queue that is not empty.
THEOREM PlayerTypeCorrect == PlayerSpec => []PlayerTypeOK
  <1>1. ShownInv => PlayerTypeOK BY DEF ShownInv
  <1> QED BY <1>1, ShownInvHolds, PTL

\* Once every call of playerStore has been answered and every native event
\* delivered, the store shows what trackPlayerService plays, unless one of the
\* named causes came between.
THEOREM ShowsIt == PlayerSpec => []ShowsWhatPlays
  BY ShownInvShows, ShownInvHolds, PTL

-----------------------------------------------------------------------------
(* The three together.                                                     *)

\* Whichever part a behaviour is about, every part keeps its types: the device's
\* list and loops, the player and its calls, the store and its tokens.
THEOREM MobileTypeCorrect == MCSpec => []MobileTypeOK
  <1> DEFINE Inv == TypeOK /\ ShownInv /\ AuthInv
  <1>1. MCInit => Inv BY InitTypeOK, PlayerInitInv, AuthInitInv DEF MCInit
  <1>2. Inv /\ [MCNext]_MCVars => Inv'
    <2> SUFFICES ASSUME Inv, [MCNext]_MCVars PROVE Inv' OBVIOUS
    <2>1. [Next]_vars /\ [PlayerNext]_playerVars /\ [AuthNext]_authVars
      BY DEF MCNext, MCVars
    <2>2. TypeOK' BY <2>1, DownloadsNextTypeOK
    <2> QED BY <2>1, <2>2, PlayerNextKeeps, AuthNextKeeps
  <1>3. Inv => MobileTypeOK BY DEF ShownInv, AuthInv, MobileTypeOK
  <1> QED BY <1>1, <1>2, <1>3, PTL DEF MCSpec
=============================================================================
