---------------------------- MODULE OfflineEvents ----------------------------
(***************************************************************************)
(* The device's queue of analytics events (mobile/src/offline) and the     *)
(* server's ingestion of them.                                             *)
(*                                                                         *)
(* trackEvent sends an event, or appends it to the persisted queue when    *)
(* the device is offline or the request fails.  flushAnalyticsQueue takes  *)
(* the whole queue and sends it as one batch; what fails is appended       *)
(* again, event by event.  Every append and every drain is a read of the   *)
(* storage, an await, and a write: tasks interleave at each await, and a   *)
(* restart of the application forgets all of them but keeps the queue.     *)
(*                                                                         *)
(* The server looks each event of a request up and inserts what is not     *)
(* there, in one transaction: it answers after the commit, and an insert   *)
(* that meets the unique index on event_id fails the whole request.        *)
(***************************************************************************)
EXTENDS Naturals, Sequences

CONSTANTS
  MaxEvents,   \* bound: events tracked in a behaviour
  OnStart,     \* the flush that startAnalyticsSync calls once per start
  OnConnect,   \* bound: flushes of its NetInfo listener at the same time
  QueueCap,    \* events the stored queue is trimmed to (500)
  BatchLimit,  \* events a batch may hold (100)
  MaxFaults    \* bound: failures of storage, network and server, and restarts

ASSUME OfflineEventsAssumption ==
  /\ MaxEvents \in Nat /\ QueueCap \in Nat \ {0}
  /\ BatchLimit \in Nat \ {0} /\ MaxFaults \in Nat
  /\ OnStart \notin OnConnect \cup (1..MaxEvents)
  /\ OnConnect \cap (1..MaxEvents) = {}

Event == 1..MaxEvents

Flush == {OnStart} \cup OnConnect

\* One task per tracked event, and one per flush.
Task == Event \cup Flush

VARIABLES
  queue,     \* the events in AsyncStorage
  task,      \* what each task on the device is doing
  request,   \* the request of each task, as the server has it
  recorded,  \* events with a committed row in analytics_events
  faults,    \* failures and restarts so far
  hazard     \* which of the ways to lose an event have happened

vars == <<queue, task, request, recorded, faults, hazard>>

Hazards == {"overlap", "trimmed", "oversize", "failure"}

Elements(s) == {s[i] : i \in DOMAIN s}

\* held: events only the task knows; copy: what it read from the storage.
Doing(pc, held, copy) == [pc |-> pc, held |-> held, copy |-> copy]

\* Mutant: a flush leaves its "syncing" mark behind.
Rest_MarkKept(t) == Doing("done", <<>>, <<>>)

Rest(t) == Doing(IF t \in OnConnect THEN "idle" ELSE "done", <<>>, <<>>)

NoRequest == [pc |-> "none", batch |-> <<>>, next |-> 1, fresh |-> {}, met |-> FALSE]

TypeOK ==
  /\ queue \in Seq(Event) /\ Len(queue) <= QueueCap
  /\ task \in [Task -> [pc : {"idle", "draining", "sending", "reading", "writing", "done"},
                        held : Seq(Event), copy : Seq(Event)]]
  /\ request \in [Task -> [pc : {"none", "open", "ok", "failed"}, batch : Seq(Event),
                           next : Nat, fresh : SUBSET Event, met : BOOLEAN]]
  /\ recorded \subseteq Event
  /\ faults \in 0..MaxFaults
  /\ hazard \subseteq Hazards

Init ==
  /\ queue = <<>>
  /\ task = [t \in Task |-> Doing("idle", <<>>, <<>>)]
  /\ request = [t \in Task |-> NoRequest]
  /\ recorded = {}
  /\ faults = 0
  /\ hazard = {}

Fault == faults < MaxFaults /\ faults' = faults + 1

-----------------------------------------------------------------------------
(* storage.ts                                                              *)

\* Mutant: trimmed one event too late.
LastOf_OffByOne(n, s) == IF Len(s) <= n + 1 THEN s ELSE SubSeq(s, Len(s) - n, Len(s))

\* The last n events of s.
LastOf(n, s) == IF Len(s) <= n THEN s ELSE SubSeq(s, Len(s) - n + 1, Len(s))

\* A write by a task that read copy: s replaces whatever is stored by now.
Store(copy, s, more) ==
  /\ queue' = LastOf(QueueCap, s)
  /\ hazard' = hazard \cup more
                 \cup (IF queue # copy THEN {"overlap"} ELSE {})
                 \cup (IF Len(s) > QueueCap THEN {"trimmed"} ELSE {})

\* enqueueAnalytics: reads the queue, then writes it with the event appended.
ReadQueue(t) ==
  /\ task[t].pc = "reading"
  /\ task' = [task EXCEPT ![t] = Doing("writing", @.held, queue)]
  /\ UNCHANGED <<queue, request, recorded, faults, hazard>>

WriteQueue(t) ==
  /\ task[t].pc = "writing"
  /\ Store(task[t].copy, Append(task[t].copy, Head(task[t].held)), {})
  /\ task' = [task EXCEPT ![t] = IF Len(@.held) = 1 THEN Rest(t)
                                 ELSE Doing("reading", Tail(@.held), <<>>)]
  /\ UNCHANGED <<request, recorded, faults>>

\* drainAnalyticsQueue: writes the empty queue, whatever was read.
Drain(t) ==
  /\ task[t].pc = "draining"
  /\ Store(task[t].copy, <<>>, {})
  /\ task' = [task EXCEPT ![t] = IF @.copy = <<>> THEN Rest(t)
                                 ELSE Doing("sending", @.copy, <<>>)]
  /\ UNCHANGED <<request, recorded, faults>>

\* A read that fails counts as an empty queue, which the next write makes true.
ReadFails(t) ==
  /\ Fault /\ task[t].pc \in {"reading", "draining"}
  /\ task' = [task EXCEPT ![t] = IF @.pc = "reading" THEN Doing("writing", @.held, <<>>)
                                 ELSE Doing("draining", <<>>, <<>>)]
  /\ hazard' = hazard \cup {"failure"}
  /\ UNCHANGED <<queue, request, recorded>>

\* A write that fails rejects, and nobody keeps what the task still held.
WriteFails(t) ==
  /\ Fault /\ task[t].pc \in {"writing", "draining"}
  /\ task' = [task EXCEPT ![t] = Rest(t)]
  /\ hazard' = hazard \cup {"failure"}
  /\ UNCHANGED <<queue, request, recorded>>

-----------------------------------------------------------------------------
(* analytics.ts                                                            *)

\* trackEvent: sent when the device is online, queued when it is not.
TrackEvent(e) ==
  /\ task[e].pc = "idle" /\ \A d \in 1..(e - 1) : task[d].pc # "idle"
  /\ \E pc \in {"sending", "reading"} :
       task' = [task EXCEPT ![e] = Doing(pc, <<e>>, <<>>)]
  /\ UNCHANGED <<queue, request, recorded, faults, hazard>>

\* flushAnalyticsQueue, at the start and whenever the device gets online:
\* the read of drainAnalyticsQueue.
FlushAnalyticsQueue(f) ==
  /\ task[f].pc = "idle" /\ request[f].pc = "none"
  /\ task' = [task EXCEPT ![f] = Doing("draining", <<>>, queue)]
  /\ UNCHANGED <<queue, request, recorded, faults, hazard>>

\* Mutant: a failed batch is not queued again.
Answer_Dropped(t) ==
  /\ request[t].pc \in {"ok", "failed"}
  /\ request' = [request EXCEPT ![t] = NoRequest]
  /\ task' = [task EXCEPT ![t] = IF @.pc # "sending" THEN @ ELSE Rest(t)]
  /\ UNCHANGED <<queue, recorded, faults, hazard>>

\* apiRequest returns or throws: what was not taken is queued again.
Answer(t) ==
  /\ request[t].pc \in {"ok", "failed"}
  /\ request' = [request EXCEPT ![t] = NoRequest]
  /\ task' = [task EXCEPT ![t] =
                IF @.pc # "sending" THEN @
                ELSE IF request[t].pc = "ok" THEN Rest(t)
                ELSE Doing("reading", @.held, <<>>)]
  /\ UNCHANGED <<queue, recorded, faults, hazard>>

\* The request or its answer is lost: apiRequest throws all the same.
NetworkFails(t) ==
  /\ Fault /\ task[t].pc = "sending"
  /\ task' = [task EXCEPT ![t] = Doing("reading", @.held, <<>>)]
  /\ UNCHANGED <<queue, request, recorded, hazard>>

\* The application is killed and started again.
Restart ==
  /\ Fault /\ \E t \in Task : task[t].pc \notin {"idle", "done"}
  /\ task' = [t \in Task |-> IF t \in Event /\ task[t].pc # "idle" THEN Rest(t)
                             ELSE Doing("idle", <<>>, <<>>)]
  /\ hazard' = hazard \cup {"failure"}
  /\ UNCHANGED <<queue, request, recorded>>

-----------------------------------------------------------------------------
(* AnalyticsService                                                        *)

\* Requests in flight at the same time that carry an event of t's.
Rivals(t) ==
  {u \in Task \ {t} : request[u].pc = "open"
                      /\ Elements(request[u].batch) \cap Elements(task[t].held) # {}}

\* The request reaches the server.
Receive(t) ==
  /\ task[t].pc = "sending" /\ request[t].pc = "none"
  /\ Len(task[t].held) <= BatchLimit
  /\ request' = [u \in Task |->
       IF u = t
       THEN [NoRequest EXCEPT !.pc = "open", !.batch = task[t].held, !.met = Rivals(t) # {}]
       ELSE [request[u] EXCEPT !.met = @ \/ u \in Rivals(t)]]
  /\ UNCHANGED <<queue, task, recorded, faults, hazard>>

\* A batch over the limit fails validation: 422, like any other error.
Refuse(t) ==
  /\ task[t].pc = "sending" /\ request[t].pc = "none"
  /\ Len(task[t].held) > BatchLimit
  /\ task' = [task EXCEPT ![t] = Doing("reading", @.held, <<>>)]
  /\ hazard' = hazard \cup {"oversize"}
  /\ UNCHANGED <<queue, request, recorded, faults>>

\* Mutant: duplicates are remembered before they are committed.
Ingest_RememberedEarly(t) ==
  /\ request[t].pc = "open" /\ request[t].next <= Len(request[t].batch)
  /\ LET e == request[t].batch[request[t].next] IN
       request' = [request EXCEPT ![t].next = @ + 1,
         ![t].fresh = @ \cup ({e} \ (recorded \cup UNION {request[u].fresh : u \in Task}))]
  /\ UNCHANGED <<queue, task, recorded, faults, hazard>>

\* Mutant: inserted without looking.
Ingest_Unchecked(t) ==
  /\ request[t].pc = "open" /\ request[t].next <= Len(request[t].batch)
  /\ request' = [request EXCEPT ![t].next = @ + 1,
                                ![t].fresh = @ \cup {request[t].batch[request[t].next]}]
  /\ UNCHANGED <<queue, task, recorded, faults, hazard>>

\* ingest: an event that is neither committed nor flushed before is added.
Ingest(t) ==
  /\ request[t].pc = "open" /\ request[t].next <= Len(request[t].batch)
  /\ LET e == request[t].batch[request[t].next] IN
       request' = [request EXCEPT ![t].next = @ + 1,
                                  ![t].fresh = @ \cup ({e} \ recorded)]
  /\ UNCHANGED <<queue, task, recorded, faults, hazard>>

Ingested(t) == request[t].pc = "open" /\ request[t].next > Len(request[t].batch)

Commit(t) ==
  /\ Ingested(t) /\ request[t].fresh \cap recorded = {}
  /\ recorded' = recorded \cup request[t].fresh
  /\ request' = [request EXCEPT ![t].pc = "ok"]
  /\ UNCHANGED <<queue, task, faults, hazard>>

\* An event was committed by another request since it was looked up: the
\* insert fails, ingest_batch carries on, and the session cannot commit.
Conflict(t) ==
  /\ Ingested(t) /\ request[t].fresh \cap recorded # {}
  /\ request' = [request EXCEPT ![t].pc = "failed"]
  /\ UNCHANGED <<queue, task, recorded, faults, hazard>>

\* Anything else that raises rolls the request back.
ServerFails(t) ==
  /\ Fault /\ request[t].pc = "open"
  /\ request' = [request EXCEPT ![t].pc = "failed"]
  /\ UNCHANGED <<queue, task, recorded, hazard>>

-----------------------------------------------------------------------------
DeviceStep(t) == ReadQueue(t) \/ WriteQueue(t) \/ Drain(t) \/ Answer(t)

ServerStep(t) == Receive(t) \/ Refuse(t) \/ Ingest(t) \/ Commit(t) \/ Conflict(t)

Failure(t) == ReadFails(t) \/ WriteFails(t) \/ NetworkFails(t) \/ ServerFails(t)

Next ==
  \/ \E e \in Event : TrackEvent(e)
  \/ \E f \in Flush : FlushAnalyticsQueue(f)
  \/ \E t \in Task : DeviceStep(t) \/ ServerStep(t) \/ Failure(t)
  \/ Restart

Spec == Init /\ [][Next]_vars

\* Promises that can settle do, the server works its requests off, and the
\* device gets online again and again.
FairSpec ==
  /\ Spec
  /\ \A t \in Task : WF_vars(DeviceStep(t)) /\ WF_vars(ServerStep(t))
  /\ WF_vars(\E f \in OnConnect : FlushAnalyticsQueue(f))

-----------------------------------------------------------------------------
(* Properties.                                                             *)

Tracked(e) == task[e].pc # "idle"

\* A tracked event is recorded, queued or in a task's hands, unless two
\* accesses to the queue overlapped, the cap cut it, or the storage failed
\* or the application died.
LostOnlyByHazard ==
  hazard \subseteq {"oversize"} =>
    \A e \in Event : Tracked(e) =>
      \/ e \in recorded \cup Elements(queue)
      \/ \E t \in Task : e \in Elements(task[t].held)

\* Although ingest_batch skips the items that fail, a request that is
\* answered with 202 has recorded every event it carried.
AcceptedIsRecorded ==
  \A t \in Task : request[t].pc = "ok" => Elements(request[t].batch) \subseteq recorded

\* Sending an event again is harmless: a request only meets the unique index
\* when another one with the same event was in progress at the same time.
ConflictOnlyByRival ==
  \A t \in Task : Ingested(t) /\ request[t].fresh \cap recorded # {} => request[t].met

\* Once failures stop, a tracked event is recorded, unless it was lost as
\* above or it is in a queue that is longer than a batch may be.
TrackedIsRecorded ==
  \A e \in Event : Tracked(e) ~> (e \in recorded \/ hazard # {})
=============================================================================
