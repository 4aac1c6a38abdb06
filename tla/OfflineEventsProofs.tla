------------------------- MODULE OfflineEventsProofs -------------------------
(***************************************************************************)
(* OfflineEvents for any number of events and flushes, any cap, any limit  *)
(* and any number of failures: an accepted request has recorded what it    *)
(* carried, and only simultaneous requests meet the unique index.          *)
(***************************************************************************)
EXTENDS OfflineEvents, TLAPS, SequenceTheorems

\* The type of what a task is doing, and of its request.
TaskState == [pc : {"idle", "draining", "sending", "reading", "writing", "done"},
              held : Seq(Event), copy : Seq(Event)]

RequestState == [pc : {"none", "open", "ok", "failed"}, batch : Seq(Event),
                 next : Nat, fresh : SUBSET Event, met : BOOLEAN]

-----------------------------------------------------------------------------
(* Types.                                                                  *)

\* A task that has something to send or to queue holds an event.
Holding == \A t \in Task : task[t].pc \in {"sending", "reading", "writing"} =>
                             task[t].held # <<>>

\* A request goes through its batch from the first event on.
Forward == \A t \in Task : request[t].next >= 1

TypeInv == TypeOK /\ Holding /\ Forward

\* The last n events of a sequence are a sequence of at most n events.
LEMMA LastOfType ==
  ASSUME NEW n \in Nat \ {0}, NEW S, NEW s \in Seq(S)
  PROVE  LastOf(n, s) \in Seq(S) /\ Len(LastOf(n, s)) <= n
<1>1. CASE Len(s) <= n
  BY <1>1 DEF LastOf
<1>2. CASE Len(s) > n
  <2>1. Len(s) \in Nat /\ Len(s) - n + 1 \in 1..Len(s) /\ Len(s) - n + 1 <= Len(s) + 1
    BY <1>2, LenProperties
  <2>2. \A i \in (Len(s) - n + 1)..Len(s) : s[i] \in S
    BY <2>1, ElementOfSeq
  <2>3. SubSeq(s, Len(s) - n + 1, Len(s)) \in Seq(S)
    BY <2>1, <2>2, SubSeqProperties
  <2>4. Len(SubSeq(s, Len(s) - n + 1, Len(s))) = Len(s) - (Len(s) - n + 1) + 1
    BY <2>1, <2>2, SubSeqProperties
  <2> QED
    BY <1>2, <2>1, <2>3, <2>4 DEF LastOf
<1> QED
  BY <1>1, <1>2, LenProperties

\* A task at rest or at work is well typed.
LEMMA DoingType ==
  ASSUME NEW pc \in {"idle", "draining", "sending", "reading", "writing", "done"},
         NEW held \in Seq(Event), NEW copy \in Seq(Event)
  PROVE  /\ Doing(pc, held, copy) \in TaskState
         /\ Doing(pc, held, copy).pc = pc /\ Doing(pc, held, copy).held = held
BY DEF Doing, TaskState

\* A task that has nothing left to do holds nothing to send.
LEMMA RestType ==
  ASSUME NEW t PROVE Rest(t) \in TaskState /\ Rest(t).pc \in {"idle", "done"}
<1>1. <<>> \in Seq(Event)
  BY EmptySeq
<1>2. Rest(t) = Doing("idle", <<>>, <<>>) \/ Rest(t) = Doing("done", <<>>, <<>>)
  BY DEF Rest
<1>3. \A pc \in {"idle", "done"} : Doing(pc, <<>>, <<>>) \in TaskState /\ Doing(pc, <<>>, <<>>).pc = pc
  BY <1>1 DEF Doing, TaskState
<1> QED
  BY <1>2, <1>3

\* A write leaves a queue within the cap.
LEMMA StoreType ==
  ASSUME TypeOK, NEW copy, NEW s \in Seq(Event), NEW more \in SUBSET Hazards,
         Store(copy, s, more)
  PROVE  queue' \in Seq(Event) /\ Len(queue') <= QueueCap /\ hazard' \subseteq Hazards
BY LastOfType, OfflineEventsAssumption DEF Store, TypeOK, Hazards

\* A failure is counted within the bound.
LEMMA FaultType == TypeOK /\ Fault => faults' \in 0..MaxFaults
BY OfflineEventsAssumption DEF TypeOK, Fault

\* The storage starts empty and the tasks at rest.
LEMMA InitType == Init => TypeInv
<1> SUFFICES ASSUME Init PROVE TypeInv
  OBVIOUS
<1>1. <<>> \in Seq(Event) /\ Len(<<>>) = 0
  OBVIOUS
<1> QED
  BY <1>1, DoingType, OfflineEventsAssumption
     DEF Init, TypeInv, TypeOK, Holding, Forward, Doing, NoRequest, Hazards

\* What TypeInv says of the tasks and of the requests.
LEMMA TypeParts ==
  TypeInv <=> /\ queue \in Seq(Event) /\ Len(queue) <= QueueCap
              /\ task \in [Task -> TaskState] /\ Holding
              /\ request \in [Task -> RequestState] /\ Forward
              /\ recorded \subseteq Event /\ faults \in 0..MaxFaults
              /\ hazard \subseteq Hazards
BY DEF TypeInv, TypeOK, TaskState, RequestState

\* A task may become d.
Sound(d) == d \in TaskState
            /\ (d.pc \in {"sending", "reading", "writing"} => d.held # <<>>)

\* A step of one task on the device.
TaskMoves(t, d) == Sound(d) /\ task' = [task EXCEPT ![t] = d]

\* It is enough that the task that moves stays well typed.
LEMMA TaskStepType ==
  ASSUME TypeInv, NEW t \in Task, NEW d, TaskMoves(t, d)
  PROVE  task' \in [Task -> TaskState] /\ Holding'
<1>1. task \in [Task -> TaskState] /\ Holding
  BY TypeParts
<1> QED
  BY <1>1 DEF TaskMoves, Sound, Holding

\* A task may become one that works on what it holds, or one that holds nothing.
LEMMA DoingSound ==
  ASSUME NEW pc \in {"idle", "draining", "sending", "reading", "writing", "done"},
         NEW held \in Seq(Event), NEW copy \in Seq(Event),
         pc \in {"idle", "draining", "done"} \/ held # <<>>
  PROVE  Sound(Doing(pc, held, copy))
BY DoingType DEF Sound

\* Any task may rest.
LEMMA RestSound == ASSUME NEW t PROVE Sound(Rest(t))
BY RestType DEF Sound

\* Where a task goes, by the action it takes.
LEMMA TaskMovesSound ==
  ASSUME TypeInv, NEW t \in Task,
         DeviceStep(t) \/ Refuse(t) \/ ReadFails(t) \/ WriteFails(t) \/ NetworkFails(t)
         \/ (t \in Event /\ TrackEvent(t)) \/ (t \in Flush /\ FlushAnalyticsQueue(t))
  PROVE  task' \in [Task -> TaskState] /\ Holding'
<1>0. /\ task \in [Task -> TaskState] /\ Holding /\ queue \in Seq(Event)
      /\ task[t] \in TaskState /\ <<>> \in Seq(Event)
      /\ task[t].held \in Seq(Event) /\ task[t].copy \in Seq(Event)
      /\ task[t].pc \in {"sending", "reading", "writing"} => task[t].held # <<>>
  BY TypeParts, EmptySeq DEF TaskState, Holding
<1> SUFFICES (\E d : TaskMoves(t, d)) \/ task' = task
  BY <1>0, TaskStepType DEF Holding
<1>1. Sound(Rest(t)) /\ Sound(task[t])
  BY <1>0, RestSound DEF Sound
<1>2. CASE ReadQueue(t)
  <2>1. Sound(Doing("writing", task[t].held, queue))
    BY <1>0, <1>2, DoingSound DEF ReadQueue
  <2> QED
    BY <1>0, <1>2, <2>1 DEF ReadQueue, TaskMoves
<1>3. CASE WriteQueue(t)
  <2>1. task[t].held # <<>> /\ Len(task[t].held) \in Nat /\ Len(task[t].held) # 0
    BY <1>0, <1>3, EmptySeq, LenProperties DEF WriteQueue
  <2>2. Tail(task[t].held) \in Seq(Event) /\ Len(Tail(task[t].held)) = Len(task[t].held) - 1
    BY <1>0, <2>1, HeadTailProperties
  <2>3. Len(task[t].held) # 1 => Tail(task[t].held) # <<>>
    <3> SUFFICES ASSUME Len(task[t].held) # 1, Tail(task[t].held) = <<>> PROVE FALSE
      OBVIOUS
    <3>1. Len(<<>>) = 0
      OBVIOUS
    <3>2. Len(Tail(task[t].held)) = 0
      BY <3>1, Zenon
    <3> QED
      BY <2>1, <2>2, <3>2
  <2>4. Len(task[t].held) # 1 => Sound(Doing("reading", Tail(task[t].held), <<>>))
    BY <1>0, <2>2, <2>3, DoingSound
  <2> QED
    BY <1>0, <1>1, <1>3, <2>4 DEF WriteQueue, TaskMoves
<1>4. CASE Drain(t)
  <2>1. task[t].copy # <<>> => Sound(Doing("sending", task[t].copy, <<>>))
    BY <1>0, DoingSound
  <2> QED
    BY <1>0, <1>1, <1>4, <2>1 DEF Drain, TaskMoves
<1>5. task[t].pc = "sending" => Sound(Doing("reading", task[t].held, <<>>))
  BY <1>0, DoingSound
<1>6. CASE Answer(t)
  BY <1>0, <1>1, <1>5, <1>6 DEF Answer, TaskMoves
<1>7. CASE Refuse(t) \/ NetworkFails(t)
  BY <1>0, <1>5, <1>7 DEF Refuse, NetworkFails, TaskMoves
<1>8. CASE ReadFails(t)
  <2>1. task[t].pc = "reading" => Sound(Doing("writing", task[t].held, <<>>))
    BY <1>0, DoingSound
  <2>2. Sound(Doing("draining", <<>>, <<>>))
    BY <1>0, DoingSound
  <2> QED
    BY <1>0, <1>8, <2>1, <2>2 DEF ReadFails, TaskMoves
<1>9. CASE WriteFails(t)
  BY <1>1, <1>9 DEF WriteFails, TaskMoves
<1>10. CASE t \in Event /\ TrackEvent(t)
  <2>1. <<t>> \in Seq(Event) /\ <<t>> # <<>>
    BY <1>10
  <2>2. Sound(Doing("sending", <<t>>, <<>>)) /\ Sound(Doing("reading", <<t>>, <<>>))
    BY <1>0, <2>1, DoingSound
  <2> QED
    BY <1>10, <2>2 DEF TrackEvent, TaskMoves
<1>11. CASE t \in Flush /\ FlushAnalyticsQueue(t)
  <2>1. Sound(Doing("draining", <<>>, queue))
    BY <1>0, DoingSound
  <2> QED
    BY <1>11, <2>1 DEF FlushAnalyticsQueue, TaskMoves
<1> QED
  BY <1>2, <1>3, <1>4, <1>6, <1>7, <1>8, <1>9, <1>10, <1>11 DEF DeviceStep

\* A request may become r.
Asked(r) == r \in RequestState /\ r.next >= 1

\* A request is received, ingests its next event, and ends.
LEMMA RequestMovesSound ==
  ASSUME TypeInv, NEW t \in Task,
         Receive(t) \/ Ingest(t) \/ Commit(t) \/ Conflict(t) \/ ServerFails(t) \/ Answer(t)
  PROVE  request' \in [Task -> RequestState] /\ Forward'
<1>0. /\ request \in [Task -> RequestState] /\ \A u \in Task : Asked(request[u])
      /\ task[t].held \in Seq(Event) /\ recorded \subseteq Event
  BY TypeParts DEF Asked, Forward, TaskState
<1>1. ASSUME NEW r, Asked(r), request' = [request EXCEPT ![t] = r]
      PROVE  request' \in [Task -> RequestState] /\ Forward'
  BY <1>0, <1>1 DEF Asked, Forward
<1>2. Asked(NoRequest)
  BY EmptySeq DEF Asked, NoRequest, RequestState
<1>3. CASE Receive(t)
  <2> DEFINE r(u) == IF u = t
       THEN [NoRequest EXCEPT !.pc = "open", !.batch = task[t].held, !.met = Rivals(t) # {}]
       ELSE [request[u] EXCEPT !.met = @ \/ u \in Rivals(t)]
  <2>1. \A u \in Task : Asked(r(u))
    <3>1. Asked(r(t))
      BY <1>0, <1>2 DEF Asked, RequestState
    <3>2. ASSUME NEW u \in Task, u # t PROVE Asked(r(u))
      BY <1>0, <3>2 DEF Asked, RequestState
    <3> QED
      BY <3>1, <3>2
  <2>2. request' = [u \in Task |-> r(u)]
    BY <1>3 DEF Receive
  <2> QED
    BY <2>1, <2>2 DEF Asked, Forward
<1>4. CASE Ingest(t)
  <2> DEFINE e == request[t].batch[request[t].next]
             r == [request[t] EXCEPT !.next = @ + 1, !.fresh = @ \cup ({e} \ recorded)]
  <2>1. request' = [request EXCEPT ![t] = r]
    BY <1>0, <1>4 DEF Ingest
  <2>2. e \in Event
    BY <1>0, <1>4, ElementOfSeq, LenProperties DEF Ingest, Asked, RequestState
  <2>3. Asked(r)
    <3>1. /\ request[t] \in RequestState /\ request[t].next + 1 \in Nat
          /\ request[t].next + 1 >= 1
      BY <1>0 DEF Asked, RequestState
    <3>2. request[t].fresh \cup ({e} \ recorded) \in SUBSET Event
      BY <2>2, <3>1 DEF RequestState
    <3> HIDE DEF e
    <3> QED
      BY <3>1, <3>2 DEF Asked, RequestState
  <2> QED
    BY <1>1, <2>1, <2>3
<1>5. CASE Commit(t) \/ Conflict(t) \/ ServerFails(t)
  <2>1. \A pc \in {"ok", "failed"} : Asked([request[t] EXCEPT !.pc = pc])
    BY <1>0 DEF Asked, RequestState
  <2>2. PICK pc \in {"ok", "failed"} :
             request' = [request EXCEPT ![t] = [request[t] EXCEPT !.pc = pc]]
    BY <1>0, <1>5 DEF Commit, Conflict, ServerFails
  <2> QED
    BY <1>1, <2>1, <2>2
<1>6. CASE Answer(t)
  BY <1>1, <1>2, <1>6 DEF Answer
<1> QED
  BY <1>3, <1>4, <1>5, <1>6

\* The queue, the records and the counters stay within their bounds.
LEMMA StorageType ==
  ASSUME TypeInv, Next
  PROVE  /\ queue' \in Seq(Event) /\ Len(queue') <= QueueCap
         /\ recorded' \subseteq Event /\ faults' \in 0..MaxFaults
         /\ hazard' \subseteq Hazards
<1>0. /\ queue \in Seq(Event) /\ Len(queue) <= QueueCap /\ recorded \subseteq Event
      /\ faults \in 0..MaxFaults /\ hazard \subseteq Hazards /\ TypeOK
      /\ task \in [Task -> TaskState] /\ Holding
      /\ request \in [Task -> RequestState]
  BY TypeParts DEF TypeInv
<1>1. ASSUME NEW t \in Task, WriteQueue(t)
      PROVE  queue' \in Seq(Event) /\ Len(queue') <= QueueCap /\ hazard' \subseteq Hazards
  <2>1. /\ task[t].held \in Seq(Event) /\ task[t].held # <<>>
        /\ task[t].copy \in Seq(Event)
    BY <1>0, <1>1 DEF WriteQueue, TaskState, Holding
  <2>2. Head(task[t].held) \in Event
    BY <2>1, HeadTailProperties
  <2>3. Append(task[t].copy, Head(task[t].held)) \in Seq(Event)
    BY <2>1, <2>2, AppendProperties
  <2>4. Store(task[t].copy, Append(task[t].copy, Head(task[t].held)), {})
    BY <1>1 DEF WriteQueue
  <2>5. {} \in SUBSET Hazards
    OBVIOUS
  <2> QED
    BY <1>0, <2>3, <2>4, <2>5, StoreType
<1>2. ASSUME NEW t \in Task, Drain(t)
      PROVE  queue' \in Seq(Event) /\ Len(queue') <= QueueCap /\ hazard' \subseteq Hazards
  <2>1. Store(task[t].copy, <<>>, {})
    BY <1>2 DEF Drain
  <2>2. {} \in SUBSET Hazards /\ <<>> \in Seq(Event)
    BY EmptySeq
  <2> QED
    BY <1>0, <2>1, <2>2, StoreType
<1>3. ASSUME NEW t \in Task, Commit(t) PROVE recorded' \subseteq Event
  BY <1>0, <1>3 DEF Commit, RequestState
<1>4. Fault => faults' \in 0..MaxFaults
  BY <1>0, FaultType
<1>5. ASSUME NEW t \in Task, DeviceStep(t)
      PROVE  /\ queue' \in Seq(Event) /\ Len(queue') <= QueueCap /\ hazard' \subseteq Hazards
             /\ recorded' = recorded /\ faults' = faults
  BY <1>0, <1>1, <1>2, <1>5 DEF DeviceStep, ReadQueue, WriteQueue, Drain, Answer
<1>6. ASSUME NEW t \in Task, ServerStep(t)
      PROVE  /\ queue' = queue /\ hazard' \subseteq Hazards
             /\ recorded' \subseteq Event /\ faults' = faults
  BY <1>0, <1>3, <1>6
     DEF ServerStep, Receive, Refuse, Ingest, Commit, Conflict, Hazards
<1>7. ASSUME NEW t \in Task, Failure(t)
      PROVE  /\ queue' = queue /\ hazard' \subseteq Hazards
             /\ recorded' = recorded /\ faults' \in 0..MaxFaults
  BY <1>0, <1>4, <1>7
     DEF Failure, ReadFails, WriteFails, NetworkFails, ServerFails, Hazards
<1>8. CASE Restart
  BY <1>0, <1>4, <1>8 DEF Restart, Hazards
<1>9. CASE (\E e \in Event : TrackEvent(e)) \/ (\E f \in Flush : FlushAnalyticsQueue(f))
  BY <1>0, <1>9 DEF TrackEvent, FlushAnalyticsQueue
<1> QED
  BY <1>0, <1>5, <1>6, <1>7, <1>8, <1>9 DEF Next

\* Every step keeps the tasks well typed.
LEMMA TasksType ==
  ASSUME TypeInv, Next PROVE task' \in [Task -> TaskState] /\ Holding'
<1>0. task \in [Task -> TaskState] /\ Holding
  BY TypeParts
<1>1. CASE Restart
  <2>1. <<>> \in Seq(Event)
    BY EmptySeq
  <2>2. Sound(Doing("idle", <<>>, <<>>)) /\ \A t \in Task : Sound(Rest(t))
    BY <2>1, DoingSound, RestSound
  <2> QED
    BY <1>1, <2>2 DEF Restart, Sound, Holding
<1>2. CASE \E t \in Task : ServerStep(t) /\ ~Refuse(t)
  BY <1>0, <1>2 DEF ServerStep, Receive, Ingest, Commit, Conflict, Holding
<1>3. CASE \E t \in Task : ServerFails(t)
  BY <1>0, <1>3 DEF ServerFails, Holding
<1>4. Event \subseteq Task /\ Flush \subseteq Task
  BY DEF Task
<1> QED
  BY <1>1, <1>2, <1>3, <1>4, TaskMovesSound DEF Next, Failure

\* Every step keeps the requests well typed.
LEMMA RequestsType ==
  ASSUME TypeInv, Next PROVE request' \in [Task -> RequestState] /\ Forward'
<1>0. request \in [Task -> RequestState] /\ Forward
  BY TypeParts
<1>1. CASE \E t \in Task : Receive(t) \/ Ingest(t) \/ Commit(t) \/ Conflict(t)
                           \/ ServerFails(t) \/ Answer(t)
  BY <1>1, RequestMovesSound
<1>2. CASE ~\E t \in Task : Receive(t) \/ Ingest(t) \/ Commit(t) \/ Conflict(t)
                            \/ ServerFails(t) \/ Answer(t)
  <2>1. request' = request
    BY <1>2 DEF Next, DeviceStep, ServerStep, Failure, TrackEvent, FlushAnalyticsQueue,
       ReadQueue, WriteQueue, Drain, Refuse, ReadFails, WriteFails, NetworkFails, Restart
  <2> QED
    BY <1>0, <2>1 DEF Forward
<1> QED
  BY <1>1, <1>2

\* The types, with what they rest on, are inductive.
LEMMA TypeStep == TypeInv /\ [Next]_vars => TypeInv'
<1> SUFFICES ASSUME TypeInv, [Next]_vars PROVE TypeInv'
  OBVIOUS
<1>1. CASE UNCHANGED vars
  BY <1>1 DEF vars, TypeInv, TypeOK, Holding, Forward
<1>2. CASE Next
  BY <1>2, StorageType, TasksType, RequestsType
     DEF TypeInv, TypeOK, TaskState, RequestState
<1> QED
  BY <1>1, <1>2

\* Every reachable state is well typed, and the queue is never over its cap.
THEOREM TypeCorrect == Spec => []TypeOK
<1>1. TypeInv => TypeOK
  BY DEF TypeInv
<1> QED
  BY InitType, TypeStep, <1>1, PTL DEF Spec

-----------------------------------------------------------------------------
(* Accepted batches and conflicts.                                         *)

Open(t) == request[t].pc = "open"

Batch(t) == Elements(request[t].batch)

\* What an open request has gone through is recorded or will be with it.
AcceptedInv ==
  \A t \in Task :
    /\ request[t].pc = "ok" => Batch(t) \subseteq recorded
    /\ Open(t) => \A i \in DOMAIN request[t].batch :
                    i < request[t].next =>
                      request[t].batch[i] \in recorded \cup request[t].fresh

\* Open requests with an event in common have both met one, and so has one
\* whose fresh events are recorded by now.
RivalInv ==
  \A t \in Task :
    Open(t) => /\ request[t].fresh \subseteq Batch(t)
               /\ \A u \in Task : u # t /\ Open(u) /\ Batch(u) \cap Batch(t) # {} =>
                                    request[t].met
               /\ request[t].fresh \cap recorded # {} => request[t].met

\* Steps that leave the server alone leave both invariants alone.
LEMMA ServerLeft ==
  ASSUME request' = request, recorded' = recorded
  PROVE  (AcceptedInv => AcceptedInv') /\ (RivalInv => RivalInv')
<1>1. \A t : Open(t)' = Open(t) /\ Batch(t)' = Batch(t)
  BY DEF Open, Batch, Elements
<1>2. AcceptedInv => AcceptedInv'
  BY <1>1 DEF AcceptedInv
<1>3. RivalInv => RivalInv'
  BY <1>1 DEF RivalInv
<1> QED
  BY <1>2, <1>3

\* The requests of the other tasks keep their batches, their progress and what
\* they have met.
Others(t) ==
  \A u \in Task \ {t} :
    /\ request'[u].pc = request[u].pc /\ request'[u].batch = request[u].batch
    /\ request'[u].next = request[u].next /\ request'[u].fresh = request[u].fresh
    /\ request[u].met => request'[u].met

\* What the steps of the server do to a request.
LEMMA ServerMoves ==
  ASSUME TypeInv, NEW t \in Task
  PROVE  /\ Receive(t) => /\ Others(t) /\ recorded' = recorded
                          /\ request'[t].pc = "open" /\ request'[t].fresh = {}
                          /\ request'[t].batch = task[t].held /\ request'[t].next = 1
                          /\ request'[t].met <=> Rivals(t) # {}
                          /\ \A u \in Rivals(t) : request'[u].met
         /\ Ingest(t) => LET e == request[t].batch[request[t].next] IN
                          /\ Others(t) /\ recorded' = recorded
                          /\ request'[t].pc = "open" /\ request'[t].batch = request[t].batch
                          /\ request'[t].next = request[t].next + 1
                          /\ request'[t].fresh = request[t].fresh \cup ({e} \ recorded)
                          /\ request'[t].met = request[t].met
                          /\ e \in Batch(t)
         /\ Commit(t) => /\ Others(t) /\ recorded' = recorded \cup request[t].fresh
                         /\ request'[t].pc = "ok" /\ request'[t].batch = request[t].batch
         /\ Conflict(t) \/ ServerFails(t) =>
              Others(t) /\ recorded' = recorded /\ request'[t].pc = "failed"
         /\ Answer(t) => Others(t) /\ recorded' = recorded /\ request'[t].pc = "none"
<1>0. /\ request \in [Task -> RequestState] /\ request[t] \in RequestState
      /\ request[t].next >= 1
  BY TypeParts DEF Forward
<1>1. CASE Receive(t)
  <2>1. /\ request'[t] = [NoRequest EXCEPT !.pc = "open", !.batch = task[t].held,
                                           !.met = Rivals(t) # {}]
        /\ \A u \in Task \ {t} :
             request'[u] = [request[u] EXCEPT !.met = @ \/ u \in Rivals(t)]
    BY <1>1 DEF Receive
  <2>2. Rivals(t) \subseteq Task \ {t}
    BY DEF Rivals
  <2>3. /\ request'[t].pc = "open" /\ request'[t].fresh = {}
        /\ request'[t].batch = task[t].held /\ request'[t].next = 1
        /\ request'[t].met <=> Rivals(t) # {}
    BY <2>1 DEF NoRequest
  <2>4. Others(t) /\ \A u \in Rivals(t) : request'[u].met
    <3>1. \A u \in Task \ {t} :
            /\ request'[u].pc = request[u].pc /\ request'[u].batch = request[u].batch
            /\ request'[u].next = request[u].next /\ request'[u].fresh = request[u].fresh
            /\ request'[u].met = (request[u].met \/ u \in Rivals(t))
      <4> TAKE u \in Task \ {t}
      <4> DEFINE b == request[u].met \/ u \in Rivals(t)
      <4>1. request'[u] = [request[u] EXCEPT !.met = b]
        BY <2>1
      <4> HIDE DEF b
      <4>2. /\ request'[u].pc = request[u].pc /\ request'[u].batch = request[u].batch
            /\ request'[u].next = request[u].next /\ request'[u].fresh = request[u].fresh
            /\ request'[u].met = b
        BY <1>0, <4>1 DEF RequestState
      <4> QED
        BY <4>2 DEF b
    <3> QED
      BY <2>2, <3>1, Zenon DEF Others
  <2> QED
    BY <1>1, <2>3, <2>4 DEF Receive, Ingest, Commit, Conflict, ServerFails, Ingested, Answer
<1>2. CASE Ingest(t)
  <2>1. request[t].batch[request[t].next] \in Batch(t)
    BY <1>0, <1>2, LenProperties DEF Ingest, Batch, Elements, RequestState
  <2> QED
    BY <1>0, <1>2, <2>1 DEF Receive, Ingest, Commit, Conflict, ServerFails, Ingested,
                            Answer, Others, RequestState
<1> QED
  BY <1>0, <1>1, <1>2 DEF Commit, Conflict, ServerFails, Answer, Ingested, NoRequest,
                          Others, RequestState

\* What the invariants look at in the requests of the other tasks.
LEMMA OthersSame ==
  ASSUME NEW t, Others(t)
  PROVE  \A u \in Task \ {t} : /\ Open(u)' = Open(u)
                               /\ Batch(u)' = Batch(u)
                               /\ request'[u].fresh = request[u].fresh
                               /\ request[u].met => request'[u].met
<1> TAKE u \in Task \ {t}
<1>1. Batch(u)' = Batch(u)
  BY DEF Others, Batch, Elements
<1> QED
  BY <1>1 DEF Others, Open

\* Every step keeps what requests have gone through recorded or about to be.
LEMMA AcceptedStep == TypeInv /\ AcceptedInv /\ Next => AcceptedInv'
<1> SUFFICES ASSUME TypeInv, AcceptedInv, Next PROVE AcceptedInv'
  OBVIOUS
<1>0. \A u \in Task : /\ request[u].batch \in Seq(Event) /\ request[u].next \in Nat
                      /\ task[u].held \in Seq(Event) /\ request[u].fresh \subseteq Event
                      /\ DOMAIN request[u].batch = 1..Len(request[u].batch)
                      /\ Len(request[u].batch) \in Nat
                      /\ DOMAIN task[u].held = 1..Len(task[u].held)
                      /\ Len(task[u].held) \in Nat
  BY TypeParts, LenProperties DEF RequestState, TaskState
\* The part of the invariant that is about one task.
<1> DEFINE Good(t) ==
      /\ request[t].pc = "ok" => Batch(t) \subseteq recorded
      /\ Open(t) => \A i \in DOMAIN request[t].batch :
                      i < request[t].next =>
                        request[t].batch[i] \in recorded \cup request[t].fresh
<1>1. ASSUME NEW t \in Task, Others(t), recorded \subseteq recorded', Good(t)'
      PROVE  AcceptedInv'
  <2>1. ASSUME NEW u \in Task \ {t} PROVE Good(u)'
    BY <1>1 DEF Others, AcceptedInv, Open, Batch, Elements
  <2> QED
    BY <1>1, <2>1 DEF AcceptedInv
<1>2. ASSUME NEW t \in Task, Receive(t) PROVE AcceptedInv'
  BY <1>0, <1>1, <1>2, ServerMoves DEF Open
<1>3. ASSUME NEW t \in Task, Ingest(t) PROVE AcceptedInv'
  <2> DEFINE e == request[t].batch[request[t].next]
  <2>1. /\ request'[t].pc = "open" /\ request'[t].batch = request[t].batch
        /\ request'[t].next = request[t].next + 1 /\ recorded' = recorded /\ Others(t)
        /\ request'[t].fresh = request[t].fresh \cup ({e} \ recorded) /\ Open(t)
    BY <1>3, ServerMoves DEF Open, Ingest
  <2>2. ASSUME NEW i \in DOMAIN request[t].batch, i < request[t].next + 1
        PROVE  request[t].batch[i] \in recorded \cup request[t].fresh \cup {e}
    <3>1. i < request[t].next \/ i = request[t].next
      BY <1>0, <2>2
    <3> QED
      BY <2>1, <3>1 DEF AcceptedInv
  <2>3. Good(t)'
    BY <2>1, <2>2 DEF Open
  <2> QED
    BY <1>1, <2>1, <2>3
<1>4. ASSUME NEW t \in Task, Commit(t) PROVE AcceptedInv'
  <2>1. \A i \in DOMAIN request[t].batch :
          request[t].batch[i] \in recorded \cup request[t].fresh
    BY <1>0, <1>4 DEF Commit, Ingested, AcceptedInv, Open
  <2>2. Good(t)'
    BY <1>4, <2>1, ServerMoves DEF Open, Batch, Elements
  <2> QED
    BY <1>1, <1>4, <2>2, ServerMoves
<1>5. ASSUME NEW t \in Task, Conflict(t) \/ ServerFails(t) \/ Answer(t) PROVE AcceptedInv'
  BY <1>1, <1>5, ServerMoves DEF Open
<1>6. CASE UNCHANGED <<request, recorded>>
  BY <1>6, ServerLeft
<1> QED
  BY <1>2, <1>3, <1>4, <1>5, <1>6
     DEF Next, DeviceStep, ServerStep, Failure, TrackEvent, FlushAnalyticsQueue, ReadQueue,
         WriteQueue, Drain, Refuse, ReadFails, WriteFails, NetworkFails, Restart

\* Every step keeps rivals informed of each other.
LEMMA RivalStep == TypeInv /\ RivalInv /\ Next => RivalInv'
<1> SUFFICES ASSUME TypeInv, RivalInv, Next PROVE RivalInv'
  OBVIOUS
\* The invariant in full, before and after.
<1> DEFINE Clash(u, v) == u # v /\ Open(u) /\ Open(v) /\ Batch(u) \cap Batch(v) # {}
<1>0. \A v \in Task :
        Open(v) => /\ request[v].fresh \subseteq Batch(v)
                   /\ \A u \in Task : Clash(u, v) => request[v].met
                   /\ request[v].fresh \cap recorded # {} => request[v].met
  BY DEF RivalInv
\* It is kept by a step that keeps it for t, and for the others towards t.
<1>1. ASSUME NEW t \in Task, Others(t),
             Open(t)' => /\ request'[t].fresh \subseteq Batch(t)'
                         /\ \A u \in Task : Clash(u, t)' => request'[t].met
                         /\ request'[t].fresh \cap recorded' # {} => request'[t].met,
             \A v \in Task \ {t} :
               Open(v) => /\ Clash(t, v)' => request'[v].met
                          /\ request[v].fresh \cap recorded' # {} => request'[v].met
      PROVE  RivalInv'
  <2>1. ASSUME NEW v \in Task \ {t}, Open(v)'
        PROVE  /\ request'[v].fresh \subseteq Batch(v)'
               /\ \A u \in Task : Clash(u, v)' => request'[v].met
               /\ request'[v].fresh \cap recorded' # {} => request'[v].met
    <3>1. /\ Open(v) /\ Batch(v)' = Batch(v) /\ request'[v].fresh = request[v].fresh
          /\ request[v].met => request'[v].met
      BY <1>1, <2>1, OthersSame
    <3>2. ASSUME NEW u \in Task, Clash(u, v)' PROVE request'[v].met
      <4>1. CASE u = t
        BY <1>1, <3>1, <3>2, <4>1
      <4>2. CASE u # t
        <5>1. Clash(u, v)
          BY <1>1, <3>1, <3>2, <4>2, OthersSame
        <5> QED
          BY <1>0, <3>1, <5>1
      <4> QED
        BY <4>1, <4>2
    <3> QED
      BY <1>0, <1>1, <3>1, <3>2
  <2>2. ASSUME NEW v \in Task, Open(v)'
        PROVE  /\ request'[v].fresh \subseteq Batch(v)'
               /\ \A u \in Task : Clash(u, v)' => request'[v].met
               /\ request'[v].fresh \cap recorded' # {} => request'[v].met
    BY <1>1, <2>1, <2>2
  <2> QED
    BY <2>2 DEF RivalInv
<1>2. ASSUME NEW t \in Task, Receive(t) PROVE RivalInv'
  <2>1. /\ Others(t) /\ recorded' = recorded /\ Open(t)' /\ request'[t].fresh = {}
        /\ request'[t].batch = task[t].held
        /\ request'[t].met <=> Rivals(t) # {}
        /\ \A u \in Rivals(t) : request'[u].met
    BY <1>2, ServerMoves DEF Open
  <2>2. Batch(t)' = Elements(task[t].held)
    BY <2>1 DEF Batch, Elements
  <2>3. \A u \in Task \ {t} : Open(u)' /\ Batch(u)' \cap Batch(t)' # {} => u \in Rivals(t)
    BY <2>1, <2>2, OthersSame DEF Rivals, Open, Batch
  <2>4. \A u \in Task : Clash(u, t)' => request'[t].met
    BY <2>1, <2>3
  <2>5. \A v \in Task \ {t} : Clash(t, v)' => request'[v].met
    BY <2>1, <2>3
  <2>6. \A v \in Task \ {t} :
          Open(v) => (request[v].fresh \cap recorded' # {} => request'[v].met)
    BY <1>0, <2>1, OthersSame
  <2> QED
    BY <1>1, <2>1, <2>4, <2>5, <2>6
<1>3. ASSUME NEW t \in Task, Ingest(t) PROVE RivalInv'
  <2> DEFINE e == request[t].batch[request[t].next]
  <2>1. /\ Others(t) /\ recorded' = recorded /\ request'[t].pc = "open" /\ Open(t)
        /\ request'[t].batch = request[t].batch /\ e \in Batch(t)
        /\ request'[t].fresh = request[t].fresh \cup ({e} \ recorded)
        /\ request'[t].met = request[t].met
    BY <1>3, ServerMoves DEF Open, Ingest
  <2>2. Batch(t)' = Batch(t) /\ Open(t)'
    BY <2>1 DEF Batch, Elements, Open
  <2>3. \A u \in Task \ {t} : (Clash(u, t)' => Clash(u, t)) /\ (Clash(t, u)' => Clash(t, u))
    BY <2>1, <2>2, OthersSame
  <2>4. request'[t].fresh \subseteq Batch(t)'
    BY <1>0, <2>1, <2>2
  <2>5. request'[t].fresh \cap recorded' # {} => request'[t].met
    BY <1>0, <2>1
  <2>6. \A u \in Task : Clash(u, t)' => request'[t].met
    BY <1>0, <2>1, <2>3
  <2>7. \A v \in Task \ {t} :
          Open(v) => /\ Clash(t, v)' => request'[v].met
                     /\ request[v].fresh \cap recorded' # {} => request'[v].met
    BY <1>0, <2>1, <2>3, OthersSame
  <2> QED
    BY <1>1, <2>1, <2>4, <2>5, <2>6, <2>7
<1>4. ASSUME NEW t \in Task, Commit(t) PROVE RivalInv'
  <2>1. /\ Others(t) /\ recorded' = recorded \cup request[t].fresh
        /\ request'[t].pc = "ok" /\ Open(t)
    BY <1>4, ServerMoves DEF Open, Commit, Ingested
  <2>2. ~Open(t)'
    BY <2>1 DEF Open
  <2>3. ASSUME NEW v \in Task \ {t}, Open(v), request[v].fresh \cap recorded' # {}
        PROVE  request'[v].met
    <3>1. CASE request[v].fresh \cap recorded # {}
      BY <1>0, <2>1, <2>3, <3>1, OthersSame
    <3>2. CASE request[v].fresh \cap request[t].fresh # {}
      <4>1. Clash(t, v)
        BY <1>0, <2>1, <2>3, <3>2
      <4> QED
        BY <1>0, <2>1, <2>3, <4>1, OthersSame
    <3> QED
      BY <2>1, <2>3, <3>1, <3>2
  <2> QED
    BY <1>1, <2>1, <2>2, <2>3
<1>5. ASSUME NEW t \in Task, Conflict(t) \/ ServerFails(t) \/ Answer(t) PROVE RivalInv'
  <2>1. Others(t) /\ recorded' = recorded /\ request'[t].pc # "open"
    BY <1>5, ServerMoves
  <2>2. ~Open(t)'
    BY <2>1 DEF Open
  <2> QED
    BY <1>0, <1>1, <2>1, <2>2, OthersSame
<1>6. CASE UNCHANGED <<request, recorded>>
  BY <1>6, ServerLeft
<1> QED
  BY <1>2, <1>3, <1>4, <1>5, <1>6
     DEF Next, DeviceStep, ServerStep, Failure, TrackEvent, FlushAnalyticsQueue, ReadQueue,
         WriteQueue, Drain, Refuse, ReadFails, WriteFails, NetworkFails, Restart

\* A request that is answered with 202 has recorded every event it carried,
\* although ingest_batch skips the items that fail.
THEOREM AcceptedRecorded == Spec => []AcceptedIsRecorded
<1>1. Init => AcceptedInv
  BY DEF Init, AcceptedInv, NoRequest, Open
<1>2. TypeInv /\ AcceptedInv /\ [Next]_vars => AcceptedInv'
  BY AcceptedStep, ServerLeft DEF vars
<1>3. AcceptedInv => AcceptedIsRecorded
  BY DEF AcceptedInv, AcceptedIsRecorded, Batch
<1> QED
  BY InitType, TypeStep, <1>1, <1>2, <1>3, PTL DEF Spec

\* A request meets the unique index only when another one with the same event
\* was in progress at the same time: sending again later is harmless.
THEOREM ConflictNeedsRival == Spec => []ConflictOnlyByRival
<1>1. Init => RivalInv
  BY DEF Init, RivalInv, NoRequest, Open
<1>2. TypeInv /\ RivalInv /\ [Next]_vars => RivalInv'
  BY RivalStep, ServerLeft DEF vars
<1>3. RivalInv => ConflictOnlyByRival
  BY DEF RivalInv, ConflictOnlyByRival, Ingested, Open
<1> QED
  BY InitType, TypeStep, <1>1, <1>2, <1>3, PTL DEF Spec
-----------------------------------------------------------------------------
(* Nothing is lost without a hazard.                                       *)

Calm == hazard \subseteq {"oversize"}

Held(t) == Elements(task[t].held)

\* A task at rest or draining holds nothing; an answer that finds its task
\* sending is the answer to what the task holds.
Fit(t) ==
  /\ task[t].pc \in {"idle", "draining", "done"} => task[t].held = <<>>
  /\ task[t].pc = "draining" \/ (t \in Event /\ task[t].pc = "idle") => request[t].pc = "none"
  /\ task[t].pc = "sending" /\ request[t].pc # "none" => request[t].batch = task[t].held

Safe(e) == e \in recorded \cup Elements(queue) \/ \E t \in Task : e \in Held(t)

KeptInv ==
  Calm => /\ \A t \in Task : Fit(t)
          /\ \A e \in Event : Tracked(e) => Safe(e)

\* What is appended is added to the elements.
LEMMA ElementsAppend ==
  ASSUME NEW s \in Seq(Event), NEW x \in Event
  PROVE  Elements(Append(s, x)) = Elements(s) \cup {x}
<1>1. /\ Len(s) \in Nat /\ DOMAIN s = 1..Len(s)
      /\ DOMAIN Append(s, x) = 1..(Len(s) + 1)
      /\ \A i \in 1..Len(s) : Append(s, x)[i] = s[i]
      /\ Append(s, x)[Len(s) + 1] = x
  BY AppendProperties, LenProperties
<1>2. 1..(Len(s) + 1) = 1..Len(s) \cup {Len(s) + 1}
  BY <1>1
<1> QED
  BY <1>1, <1>2 DEF Elements

\* The elements are the first one and those after it.
LEMMA ElementsSplit ==
  ASSUME NEW s \in Seq(Event), s # <<>>
  PROVE  /\ Elements(s) \subseteq {Head(s)} \cup Elements(Tail(s))
         /\ Len(s) = 1 => Elements(s) = {Head(s)}
<1>1. /\ Len(s) \in Nat \ {0} /\ DOMAIN s = 1..Len(s) /\ Head(s) = s[1]
  BY LenProperties, EmptySeq, HeadTailProperties
<1>2. /\ Tail(s) \in Seq(Event) /\ Len(Tail(s)) = Len(s) - 1
      /\ \A i \in 1..Len(Tail(s)) : Tail(s)[i] = s[i + 1]
  BY HeadTailProperties
<1>3. DOMAIN Tail(s) = 1..(Len(s) - 1)
  BY <1>2, LenProperties
<1>4. ASSUME NEW i \in DOMAIN s, i # 1 PROVE s[i] \in Elements(Tail(s))
  <2>1. i - 1 \in DOMAIN Tail(s) /\ i - 1 \in 1..Len(Tail(s)) /\ (i - 1) + 1 = i
    BY <1>1, <1>2, <1>3, <1>4
  <2>2. Tail(s)[i - 1] = s[i]
    BY <1>2, <2>1
  <2> QED
    BY <2>1, <2>2 DEF Elements
<1> QED
  BY <1>1, <1>4 DEF Elements

\* A write of which nobody lost anything appends to what is stored.
LEMMA CalmStore ==
  ASSUME TypeInv, NEW copy, NEW s \in Seq(Event), NEW more, Store(copy, s, more), Calm'
  PROVE  queue = copy /\ queue' = s
<1>1. "overlap" \notin hazard' /\ "trimmed" \notin hazard'
  BY DEF Calm
<1>2. queue = copy /\ ~(Len(s) > QueueCap)
  BY <1>1 DEF Store
<1>3. Len(s) <= QueueCap
  BY <1>2, LenProperties, OfflineEventsAssumption
<1> QED
  BY <1>2, <1>3 DEF Store, LastOf

\* Hazards are not forgotten.
LEMMA CalmBefore == Next /\ Calm' => Calm
BY DEF Next, DeviceStep, ServerStep, Failure, TrackEvent, FlushAnalyticsQueue, ReadQueue,
       WriteQueue, Drain, Answer, Receive, Refuse, Ingest, Commit, Conflict, ReadFails,
       WriteFails, NetworkFails, ServerFails, Restart, Store, Calm

\* The other tasks and their requests are as they were.
Apart(t) ==
  \A u \in Task \ {t} : /\ task'[u] = task[u]
                        /\ request'[u].pc = request[u].pc
                        /\ request'[u].batch = request[u].batch

\* It is enough that the task that moves leaves what it and the storage held
\* in its hands, in the storage or recorded.
LEMMA OneKeeps ==
  ASSUME KeptInv, Calm, NEW t \in Task, Apart(t), Fit(t)',
         recorded \subseteq recorded',
         Elements(queue) \cup Held(t) \subseteq recorded' \cup Elements(queue') \cup Held(t)',
         t \in Event /\ Tracked(t)' => Tracked(t) \/ t \in Held(t)'
  PROVE  KeptInv'
<1>1. \A u \in Task \ {t} : Fit(u)' /\ Held(u)' = Held(u)
  BY DEF KeptInv, Apart, Fit, Held, Elements
<1>2. \A e \in Event \ {t} : Tracked(e)' => Tracked(e)
  BY DEF Apart, Tracked, Task
<1>3. ASSUME NEW e \in Event, Safe(e) PROVE Safe(e)'
  <2>1. CASE e \in recorded \cup Elements(queue) \cup Held(t)
    BY <2>1 DEF Safe
  <2>2. CASE \E u \in Task \ {t} : e \in Held(u)
    BY <1>1, <2>2 DEF Safe
  <2> QED
    BY <1>3, <2>1, <2>2 DEF Safe
<1>4. ASSUME NEW e \in Event, Tracked(e)' PROVE Safe(e)'
  <2>1. CASE Tracked(e)
    BY <1>3, <2>1 DEF KeptInv
  <2>2. CASE ~Tracked(e)
    BY <1>2, <1>4, <2>2 DEF Safe
  <2> QED
    BY <2>1, <2>2
<1> QED
  BY <1>1, <1>4 DEF KeptInv

\* What the device does to its tasks.
LEMMA DeviceKeeps ==
  ASSUME TypeInv, AcceptedInv, KeptInv, Calm, Calm', NEW t \in Task,
         DeviceStep(t) \/ Refuse(t) \/ NetworkFails(t)
         \/ (t \in Event /\ TrackEvent(t)) \/ (t \in Flush /\ FlushAnalyticsQueue(t))
  PROVE  KeptInv'
<1>0. /\ task \in [Task -> TaskState] /\ request \in [Task -> RequestState]
      /\ queue \in Seq(Event) /\ Fit(t)
      /\ task[t].held \in Seq(Event) /\ task[t].copy \in Seq(Event)
      /\ task[t].pc \in {"sending", "reading", "writing"} => task[t].held # <<>>
      /\ Elements(<<>>) = {}
  BY TypeParts DEF KeptInv, TaskState, Holding, Elements
\* A task that becomes d, while the requests are left alone.
<1>1. ASSUME NEW pc, NEW held, NEW copy, task' = [task EXCEPT ![t] = Doing(pc, held, copy)],
             request' = request, recorded' = recorded
      PROVE  /\ Apart(t) /\ Held(t)' = Elements(held)
             /\ task'[t].pc = pc /\ task'[t].held = held
  BY <1>0, <1>1 DEF Apart, Held, Doing, Elements
<1>2. Rest(t) = Doing("done", <<>>, <<>>) \/ (t \notin Event /\ Rest(t) = Doing("idle", <<>>, <<>>))
  BY OfflineEventsAssumption DEF Rest, Event
<1>a. ASSUME task' = [task EXCEPT ![t] = Rest(t)], request' = request
      PROVE  /\ Apart(t) /\ task'[t].held = <<>> /\ task'[t].pc \in {"idle", "done"}
             /\ t \in Event => task'[t].pc # "idle"
  <2>1. /\ Rest(t).held = <<>> /\ Rest(t).pc \in {"idle", "done"}
        /\ t \in Event => Rest(t).pc # "idle"
    BY <1>2 DEF Doing
  <2>2. task'[t] = Rest(t) /\ \A u \in Task \ {t} : task'[u] = task[u]
    BY <1>0, <1>a
  <2> QED
    BY <1>a, <2>1, <2>2 DEF Apart
<1>3. CASE ReadQueue(t)
  <2>1. /\ Apart(t) /\ Held(t)' = Held(t) /\ task'[t].pc = "writing"
    BY <1>1, <1>3 DEF ReadQueue, Held
  <2> QED
    BY <1>3, <2>1, OneKeeps DEF ReadQueue, Fit, Tracked
<1>4. CASE WriteQueue(t)
  <2> DEFINE x == Head(task[t].held)
  <2>1. task[t].held # <<>> /\ x \in Event
    BY <1>0, <1>4, HeadTailProperties DEF WriteQueue
  <2>2. queue = task[t].copy /\ queue' = Append(task[t].copy, x)
    <3>1. Append(task[t].copy, x) \in Seq(Event)
      BY <1>0, <2>1, AppendProperties
    <3>2. Store(task[t].copy, Append(task[t].copy, x), {})
      BY <1>4 DEF WriteQueue
    <3> QED
      BY <3>1, <3>2, CalmStore
  <2>3. Elements(queue') = Elements(queue) \cup {x}
    BY <1>0, <2>1, <2>2, ElementsAppend
  <2>4. CASE Len(task[t].held) = 1
    <3>1. task' = [task EXCEPT ![t] = Rest(t)] /\ request' = request /\ recorded' = recorded
      BY <1>4, <2>4 DEF WriteQueue
    <3>2. Apart(t) /\ task'[t].held = <<>> /\ task'[t].pc \in {"idle", "done"}
          /\ (t \in Event => task'[t].pc # "idle")
      BY <1>a, <3>1
    <3>3. Held(t) = {x}
      BY <1>0, <2>1, <2>4, ElementsSplit DEF Held
    <3>4. Tracked(t)
      BY <1>4 DEF WriteQueue, Tracked
    <3> QED
      BY <2>3, <3>1, <3>2, <3>3, <3>4, OneKeeps DEF Fit
  <2>5. CASE Len(task[t].held) # 1
    <3>1. /\ task' = [task EXCEPT ![t] = Doing("reading", Tail(task[t].held), <<>>)]
          /\ request' = request /\ recorded' = recorded
      BY <1>4, <2>5 DEF WriteQueue
    <3>2. Apart(t) /\ task'[t].pc = "reading" /\ Held(t)' = Elements(Tail(task[t].held))
      BY <1>1, <3>1
    <3>3. Held(t) \subseteq {x} \cup Elements(Tail(task[t].held))
      BY <1>0, <2>1, ElementsSplit DEF Held
    <3>4. Tracked(t)
      BY <1>4 DEF WriteQueue, Tracked
    <3> QED
      BY <2>3, <3>1, <3>2, <3>3, <3>4, OneKeeps DEF Fit
  <2> QED
    BY <2>4, <2>5
<1>5. CASE Drain(t)
  <2>1. queue = task[t].copy /\ queue' = <<>>
    <3>1. Store(task[t].copy, <<>>, {}) /\ <<>> \in Seq(Event)
      BY <1>5, EmptySeq DEF Drain
    <3> QED
      BY <3>1, CalmStore
  <2>2. Held(t) = {} /\ request[t].pc = "none" /\ Tracked(t)
    BY <1>0, <1>5 DEF Drain, Fit, Held, Tracked
  <2>3. CASE task[t].copy = <<>>
    <3>1. task' = [task EXCEPT ![t] = Rest(t)] /\ request' = request /\ recorded' = recorded
      BY <1>5, <2>3 DEF Drain
    <3>2. Apart(t) /\ task'[t].held = <<>> /\ task'[t].pc \in {"idle", "done"}
          /\ (t \in Event => task'[t].pc # "idle")
      BY <1>a, <3>1
    <3> QED
      BY <1>0, <2>1, <2>2, <2>3, <3>1, <3>2, OneKeeps DEF Fit
  <2>4. CASE task[t].copy # <<>>
    <3>1. /\ task' = [task EXCEPT ![t] = Doing("sending", task[t].copy, <<>>)]
          /\ request' = request /\ recorded' = recorded
      BY <1>5, <2>4 DEF Drain
    <3>2. Apart(t) /\ task'[t].pc = "sending" /\ Held(t)' = Elements(queue)
      BY <1>1, <2>1, <3>1
    <3> QED
      BY <2>2, <3>1, <3>2, OneKeeps DEF Fit
  <2> QED
    BY <2>3, <2>4
<1>6. CASE Answer(t)
  <2>1. /\ Others(t) /\ recorded' = recorded /\ request'[t].pc = "none"
        /\ request[t].pc \in {"ok", "failed"} /\ queue' = queue
    BY <1>6, ServerMoves DEF Answer
  <2>2. \A u \in Task \ {t} : task'[u] = task[u]
    BY <1>0, <1>6 DEF Answer
  <2>3. Apart(t)
    BY <2>1, <2>2 DEF Apart, Others
  <2>4. CASE task[t].pc # "sending"
    <3>1. task'[t] = task[t]
      BY <1>0, <1>6, <2>4 DEF Answer
    <3>2. Held(t)' = Held(t) /\ Fit(t)'
      BY <1>0, <2>1, <2>4, <3>1 DEF Held, Fit
    <3> QED
      BY <2>1, <2>3, <3>1, <3>2, OneKeeps DEF Tracked
  <2>5. CASE task[t].pc = "sending" /\ request[t].pc = "ok"
    <3>1. task'[t] = Rest(t)
      BY <1>0, <1>6, <2>5 DEF Answer
    <3>2. task'[t].held = <<>> /\ task'[t].pc \in {"idle", "done"}
          /\ (t \in Event => task'[t].pc # "idle")
      BY <1>2, <3>1 DEF Doing
    <3>3. Held(t) \subseteq recorded
      BY <1>0, <2>5 DEF AcceptedInv, Fit, Held, Batch
    <3>4. Fit(t)'
      BY <2>1, <3>2 DEF Fit
    <3>5. Tracked(t)
      BY <2>5 DEF Tracked
    <3> QED
      BY <2>1, <2>3, <3>3, <3>4, <3>5, OneKeeps
  <2>6. CASE task[t].pc = "sending" /\ request[t].pc # "ok"
    <3>1. task'[t] = Doing("reading", task[t].held, <<>>)
      BY <1>0, <1>6, <2>6 DEF Answer
    <3>2. Held(t)' = Held(t) /\ task'[t].pc = "reading" /\ Fit(t)' /\ Tracked(t)
      BY <2>6, <3>1 DEF Held, Doing, Fit, Tracked
    <3> QED
      BY <2>1, <2>3, <3>2, OneKeeps
  <2> QED
    BY <2>4, <2>5, <2>6
<1>7. CASE Refuse(t) \/ NetworkFails(t)
  <2>1. /\ task' = [task EXCEPT ![t] = Doing("reading", task[t].held, <<>>)]
        /\ request' = request /\ recorded' = recorded /\ queue' = queue /\ Tracked(t)
    BY <1>0, <1>7 DEF Refuse, NetworkFails, Tracked
  <2>2. Apart(t) /\ task'[t].pc = "reading" /\ Held(t)' = Held(t)
    BY <1>1, <2>1 DEF Held
  <2> QED
    BY <2>1, <2>2, OneKeeps DEF Fit
<1>8. CASE t \in Event /\ TrackEvent(t)
  <2>1. PICK pc \in {"sending", "reading"} : task' = [task EXCEPT ![t] = Doing(pc, <<t>>, <<>>)]
    BY <1>8 DEF TrackEvent
  <2>2. /\ request' = request /\ recorded' = recorded /\ queue' = queue
        /\ Held(t) = {} /\ request[t].pc = "none"
    BY <1>0, <1>8 DEF TrackEvent, Fit, Held
  <2>3. Apart(t) /\ task'[t].pc = pc /\ Held(t)' = Elements(<<t>>)
    BY <1>1, <2>1, <2>2
  <2>4. t \in Elements(<<t>>)
    BY DEF Elements
  <2> QED
    BY <2>2, <2>3, <2>4, OneKeeps DEF Fit
<1>9. CASE t \in Flush /\ FlushAnalyticsQueue(t)
  <2>1. /\ task' = [task EXCEPT ![t] = Doing("draining", <<>>, queue)]
        /\ request' = request /\ recorded' = recorded /\ queue' = queue
        /\ Held(t) = {} /\ request[t].pc = "none"
    BY <1>0, <1>9 DEF FlushAnalyticsQueue, Fit, Held
  <2>2. Apart(t) /\ task'[t].pc = "draining" /\ task'[t].held = <<>>
    BY <1>1, <2>1
  <2>3. t \notin Event
    BY <1>9, OfflineEventsAssumption DEF Flush, Event
  <2> QED
    BY <2>1, <2>2, <2>3, OneKeeps DEF Fit
<1> QED
  BY <1>3, <1>4, <1>5, <1>6, <1>7, <1>8, <1>9 DEF DeviceStep

\* What the server does leaves the device alone, and a request carries what
\* its task holds.
LEMMA ServerKeeps ==
  ASSUME TypeInv, KeptInv, Calm, NEW t \in Task,
         Receive(t) \/ Ingest(t) \/ Commit(t) \/ Conflict(t) \/ ServerFails(t)
  PROVE  KeptInv'
<1>1. /\ Others(t) /\ task' = task /\ queue' = queue /\ recorded \subseteq recorded' /\ Fit(t)
  BY ServerMoves DEF Receive, Ingest, Commit, Conflict, ServerFails, KeptInv
<1>2. Apart(t)
  BY <1>1 DEF Apart, Others
<1>3. Fit(t)'
  <2>1. CASE Receive(t)
    <3>1. request'[t].batch = task[t].held
      BY <2>1, ServerMoves
    <3>2. task[t].pc = "sending" /\ task' = task
      BY <2>1 DEF Receive
    <3> QED
      BY <1>1, <3>1, <3>2 DEF Fit
  <2>2. CASE Ingest(t) \/ Commit(t) \/ Conflict(t) \/ ServerFails(t)
    <3>1. request[t].pc = "open" /\ request'[t].batch = request[t].batch
      BY <2>2, TypeParts
         DEF Ingest, Commit, Conflict, ServerFails, Ingested, RequestState
    <3> QED
      BY <1>1, <3>1 DEF Fit
  <2> QED
    BY <2>1, <2>2
<1>4. Held(t)' = Held(t) /\ Tracked(t)' = Tracked(t)
  BY <1>1 DEF Held, Tracked
<1> QED
  BY <1>1, <1>2, <1>3, <1>4, OneKeeps

\* Every step keeps what was tracked, as long as no hazard occurs.
LEMMA KeptStep == TypeInv /\ AcceptedInv /\ KeptInv /\ [Next]_vars => KeptInv'
<1> SUFFICES ASSUME TypeInv, AcceptedInv, KeptInv, [Next]_vars PROVE KeptInv'
  OBVIOUS
<1>1. CASE UNCHANGED vars
  BY <1>1 DEF vars, KeptInv, Calm, Fit, Safe, Tracked, Held, Elements
<1>2. CASE Next /\ ~Calm'
  BY <1>2 DEF KeptInv
<1>3. CASE Next /\ Calm'
  <2>1. Calm
    BY <1>3, CalmBefore
  <2>2. ~Restart /\ \A t \in Task : ~ReadFails(t) /\ ~WriteFails(t)
    BY <1>3 DEF Restart, ReadFails, WriteFails, Calm
  <2>3. Event \subseteq Task /\ Flush \subseteq Task
    BY DEF Task
  <2> QED
    BY <1>3, <2>1, <2>2, <2>3, DeviceKeeps, ServerKeeps DEF Next, ServerStep, DeviceStep, Failure
<1> QED
  BY <1>1, <1>2, <1>3

\* An event that trackEvent was called for is recorded, stored or in a task's
\* hands, unless one of the hazards has happened.
THEOREM NothingLost == Spec => []LostOnlyByHazard
<1>1. Init => AcceptedInv /\ KeptInv
  BY DEF Init, AcceptedInv, KeptInv, NoRequest, Open, Fit, Tracked, Doing, Task
<1>2. TypeInv /\ AcceptedInv /\ [Next]_vars => AcceptedInv'
  BY AcceptedStep, ServerLeft DEF vars
<1>3. KeptInv => LostOnlyByHazard
  BY DEF KeptInv, LostOnlyByHazard, Calm, Safe, Held
<1> QED
  BY InitType, TypeStep, KeptStep, <1>1, <1>2, <1>3, PTL DEF Spec
=============================================================================
