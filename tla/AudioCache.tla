----------------------------- MODULE AudioCache -----------------------------
(***************************************************************************)
(* The audio cache of one (provider, track, quality): downloads that miss, *)
(* acquire the audio and store it under the Redis single-flight lock, and  *)
(* the CACHE_CLEANUP job that purges what expired.                         *)
(*                                                                         *)
(* Three stores disagree here.  The bucket changes at once and never rolls *)
(* back; cache_entries changes when a transaction commits; the lock is     *)
(* released when the factory returns, before that commit.  The storage key *)
(* of an entry is its content hash, so an object is named by its content   *)
(* and entries with the same content share it.                             *)
(*                                                                         *)
(* Every entry lives equally long (the demand is always "medium"), so      *)
(* expires_at orders the entries as they were stored: the stamp of an      *)
(* entry is its place in that order, and entries up to `now` are expired.  *)
(***************************************************************************)
EXTENDS Naturals, FiniteSets

CONSTANTS
  MaxRequests,   \* bound: downloads in a behaviour
  PoolSize,      \* downloads that run at the same time
  MaxCleanups,   \* bound: cleanup jobs in a behaviour
  PurgeLimit,    \* purge_limit of a cleanup job
  Contents       \* bodies the provider may return for the track

ASSUME AudioCacheAssumption ==
  /\ MaxRequests \in Nat /\ PoolSize \in Nat
  /\ MaxCleanups \in Nat /\ PurgeLimit \in Nat
  /\ IsFiniteSet(Contents)

Request == 1..MaxRequests
None == 0

VARIABLES
  row,      \* cache_entries as committed; row r is the one request r inserts
  objects,  \* contents in the cache bucket
  lock,     \* the request whose token is in the Redis lock, or None
  req,      \* what each download does
  clean,    \* what the cleanup job does
  clock,    \* stamps given out so far
  now,      \* entries with a stamp up to now are past their expires_at
  lapsed,   \* requests whose lock ran out before they released it
  twins,    \* contents that had two entries at some time
  crossed   \* contents stored while a cleanup had them on its list

vars == <<row, objects, lock, req, clean, clock, now, lapsed, twins, crossed>>
history == <<lapsed, twins, crossed>>

\* The body is content; entry is the row in hand; write is what the
\* transaction has flushed; seen: the row that it updates was READY as it was
\* read.
RequestState ==
  [pc : {"new", "resolving", "waiting", "inside", "storing", "selecting",
         "flushing", "flushed", "bypass", "found", "answered", "failed"},
   content : {"none"} \cup Contents, entry : Request \cup {None},
   write : {"none", "insert", "update"}, seen : BOOLEAN, stamp : Nat, single : BOOLEAN]

TypeOK ==
  /\ row \in [Request -> [status : {"none", "ready", "expired"},
                          content : {"none"} \cup Contents, stamp : Nat]]
  /\ objects \in SUBSET Contents
  /\ lock \in Request \cup {None}
  /\ req \in [Request -> RequestState]
  /\ clean \in [runs : 0..MaxCleanups, pc : {"idle", "object", "row"},
                marked : SUBSET Request, todo : SUBSET Request, gone : SUBSET Request]
  /\ clock \in Nat /\ now \in 0..clock
  /\ lapsed \in SUBSET Request
  /\ twins \in SUBSET Contents /\ crossed \in SUBSET Contents

NoRow == [status |-> "none", content |-> "none", stamp |-> 0]

Fresh(pc) == [pc |-> pc, content |-> "none", entry |-> None, write |-> "none",
              seen |-> FALSE, stamp |-> 0, single |-> FALSE]

Init ==
  /\ row = [r \in Request |-> NoRow]
  /\ objects = {}
  /\ lock = None
  /\ req = [r \in Request |-> Fresh("new")]
  /\ clean = [runs |-> 0, pc |-> "idle", marked |-> {}, todo |-> {}, gone |-> {}]
  /\ clock = 0 /\ now = 0
  /\ lapsed = {} /\ twins = {} /\ crossed = {}

-----------------------------------------------------------------------------
(* Queries and row locks.                                                  *)

Live(e) == row[e].status = "ready" /\ row[e].stamp > now

\* lookup: any of the live entries.
Hits == {e \in Request : Live(e)}

\* The entry with this content, whatever its status (store_bytes).
EntriesOf(c) == {e \in Request : row[e].status # "none" /\ row[e].content = c}

\* Rows that an open transaction has written.
Refreshing(e) ==
  \E r \in Request : /\ req[r].pc \in {"flushed", "found"}
                     /\ req[r].write = "update" /\ req[r].entry = e

Purging(e) == e \in clean.marked \cup clean.gone

InFlight == {r \in Request : req[r].pc \notin {"new", "answered", "failed"}}

Goes(r, pc) == req' = [req EXCEPT ![r].pc = pc]

Ends(r, pc) == req' = [req EXCEPT ![r] = Fresh(pc)]

Finds(r, e) == req' = [req EXCEPT ![r].pc = "found", ![r].entry = e]

-----------------------------------------------------------------------------
(* A download.                                                             *)

\* MusicEngine.download looks first without any lock.
Lookup(r) ==
  /\ req[r].pc = "new"
  /\ \A q \in Request : q < r => req[q].pc # "new"
  /\ Cardinality(InFlight) < PoolSize
  /\ \/ Hits = {} /\ Goes(r, "resolving")
     \/ \E e \in Hits : Finds(r, e)
  /\ UNCHANGED <<row, objects, lock, clean, clock, now, history>>

\* The provider returns the body, and get_or_acquire looks again.
Resolve(r, c) ==
  /\ req[r].pc = "resolving"
  /\ \/ /\ Hits = {}
        /\ req' = [req EXCEPT ![r].pc = "waiting", ![r].content = c]
     \/ \E e \in Hits : Finds(r, e)
  /\ UNCHANGED <<row, objects, lock, clean, clock, now, history>>

\* SET NX with the request's token.
GetLock(r) ==
  /\ req[r].pc = "waiting" /\ lock = None
  /\ lock' = r
  /\ req' = [req EXCEPT ![r].pc = "inside", ![r].single = TRUE]
  /\ UNCHANGED <<row, objects, clean, clock, now, history>>

\* The wait times out, or Redis or the bucket fails before anything is stored:
\* store without the lock, released or not.
Bypass(r) ==
  /\ req[r].pc \in {"waiting", "inside", "storing"}
  /\ req' = [req EXCEPT ![r].pc = "bypass", ![r].single = FALSE]
  /\ lock' \in {lock, IF lock = r THEN None ELSE lock}
  /\ UNCHANGED <<row, objects, clean, clock, now, history>>

\* The look under the lock.
Recheck(r) ==
  /\ req[r].pc = "inside"
  /\ \/ Hits = {} /\ Goes(r, "storing")
     \/ \E e \in Hits : req' = [req EXCEPT ![r].pc = "flushed", ![r].entry = e]
  /\ UNCHANGED <<row, objects, lock, clean, clock, now, history>>

\* store_bytes: the object goes to the bucket, and expires_at is set.
Put(r) ==
  LET c == req[r].content
  IN  /\ req[r].pc \in {"storing", "bypass"}
      /\ objects' = objects \cup {c}
      /\ clock' = clock + 1
      /\ req' = [req EXCEPT ![r].pc = "selecting", ![r].stamp = clock + 1]
      /\ crossed' = crossed \cup {row[e].content : e \in EntriesOf(c) \cap clean.todo}
      /\ UNCHANGED <<row, lock, clean, now, lapsed, twins>>

\* An entry with the content is refreshed; otherwise one is inserted.  What was
\* hit under the lock is in the session, and is not read again.
Select(r) ==
  LET found == EntriesOf(req[r].content)
  IN  /\ req[r].pc = "selecting"
      /\ \/ /\ found = {}
            /\ req' = [req EXCEPT ![r].pc = "flushing", ![r].entry = r, ![r].write = "insert"]
         \/ \E e \in found :
              req' = [req EXCEPT ![r].pc = "flushing", ![r].entry = e, ![r].write = "update",
                                 ![r].seen = row[e].status = "ready" \/ e = req[r].entry]
      /\ UNCHANGED <<row, objects, lock, clean, clock, now, history>>

\* The flush; an UPDATE waits for whoever has written the row.
Flush(r) ==
  LET e == req[r].entry
  IN  /\ req[r].pc = "flushing"
      /\ req[r].write = "update" =>
           row[e].status # "none" /\ ~Refreshing(e) /\ ~Purging(e)
      /\ Goes(r, IF req[r].single THEN "flushed" ELSE "found")
      /\ UNCHANGED <<row, objects, lock, clean, clock, now, history>>

ReleaseLock_AnyToken(r) ==
  /\ req[r].pc = "flushed"
  /\ lock' = None
  /\ Goes(r, "found")
  /\ UNCHANGED <<row, objects, clean, clock, now, history>>

\* The script deletes the lock only if the token is still the request's.
ReleaseLock(r) ==
  /\ req[r].pc = "flushed"
  /\ lock' = IF lock = r THEN None ELSE lock
  /\ Goes(r, "found")
  /\ UNCHANGED <<row, objects, clean, clock, now, history>>

\* Redis fails before the release, and get_or_acquire stores without the lock:
\* a second time in the same transaction, where it finds the row it has
\* written, or for the first time after a hit under the lock.
RedisLost(r) ==
  /\ req[r].pc = "flushed"
  /\ \/ /\ req[r].write # "none"
        /\ objects' = objects \cup {req[r].content}
        /\ clock' = clock + 1
        /\ req' = [req EXCEPT ![r].pc = "found", ![r].stamp = clock + 1]
     \/ /\ req[r].write = "none"
        /\ req' = [req EXCEPT ![r].pc = "bypass", ![r].single = FALSE]
        /\ UNCHANGED <<objects, clock>>
  /\ UNCHANGED <<row, lock, clean, now, history>>

\* The entry is touched, its URL signed, and the transaction commits.  The
\* touch of an entry that a cleanup has deleted fails.  An attribute that is
\* assigned the value it has is not written: an entry that was read READY stays
\* EXPIRED when a cleanup has marked it since.
Deliver(r) ==
  LET e == req[r].entry
      kept == req[r].write = "update" /\ req[r].seen
      new == [status |-> IF kept THEN row[e].status ELSE "ready",
              content |-> req[r].content, stamp |-> req[r].stamp]
  IN  /\ req[r].pc = "found"
      /\ req[r].write = "none" =>
           row[e].status # "none" /\ ~Refreshing(e) /\ ~Purging(e)
      /\ row' = IF req[r].write = "none" THEN row ELSE [row EXCEPT ![e] = new]
      /\ twins' = twins \cup {row'[i].content : i \in {j \in Request \ {e} :
                    row'[j].status # "none" /\ row'[j].content = row'[e].content}}
      /\ Ends(r, "answered")
      /\ UNCHANGED <<objects, lock, clean, clock, now, lapsed, crossed>>

\* The UPDATE finds no row: under the lock get_or_acquire stores once more
\* before the session, which needs a rollback, fails it.
Stale(r) ==
  /\ req[r].pc \in {"flushing", "found"} /\ req[r].write # "insert"
  /\ row[req[r].entry].status = "none"
  /\ objects' = IF req[r].pc = "flushing" /\ req[r].single
                THEN objects \cup {req[r].content} ELSE objects
  /\ lock' = IF lock = r THEN None ELSE lock
  /\ Ends(r, "failed")
  /\ UNCHANGED <<row, clean, clock, now, history>>

\* The request fails and is rolled back: the provider, the bucket, a row that
\* is gone, or the process.  In the last case the lock is not released.
Fail(r) ==
  /\ r \in InFlight
  /\ Ends(r, "failed")
  /\ lock' \in {lock, IF lock = r THEN None ELSE lock}
  /\ UNCHANGED <<row, objects, clean, clock, now, history>>

\* The lock's TTL runs out.
LockExpires ==
  /\ lock # None
  /\ lock' = None
  /\ lapsed' = lapsed \cup {lock}
  /\ UNCHANGED <<row, objects, req, clean, clock, now, twins, crossed>>

\* Time passes over the oldest unexpired stamp; transactions are too short
\* for an entry to run out before it is committed.
TimePasses ==
  /\ now < clock
  /\ \A r \in InFlight : req[r].stamp # now + 1
  /\ now' = now + 1
  /\ UNCHANGED <<row, objects, lock, req, clean, clock, history>>

-----------------------------------------------------------------------------
(* handle_cache_cleanup, one transaction of the worker.                    *)

\* The first n of a set of entries by expires_at.
Oldest(S, n) ==
  {e \in S : Cardinality({f \in S : row[f].stamp < row[e].stamp}) < n}

BeginCleanup_AnyAge ==
  LET listed == Oldest({e \in Request : row[e].status # "none"}, PurgeLimit)
  IN  /\ clean.pc = "idle" /\ clean.runs < MaxCleanups
      /\ \A e \in listed : ~Refreshing(e)
      /\ clean' = [runs |-> clean.runs + 1, pc |-> "object", marked |-> {},
                   todo |-> listed, gone |-> {}]
      /\ crossed' = crossed \cup
           ({row[e].content : e \in listed} \cap {req[r].content : r \in InFlight})
      /\ UNCHANGED <<row, objects, lock, req, clock, now, lapsed, twins>>

\* expire_stale, which waits for rows that are being refreshed, and the list.
BeginCleanup ==
  LET past == {e \in Request : row[e].status = "ready" /\ ~Live(e)}
      listed == Oldest({e \in Request : row[e].status = "expired"} \cup past, PurgeLimit)
  IN  /\ clean.pc = "idle" /\ clean.runs < MaxCleanups
      /\ \A e \in past : ~Refreshing(e)
      /\ clean' = [runs |-> clean.runs + 1, pc |-> "object", marked |-> past,
                   todo |-> listed, gone |-> {}]
      /\ crossed' = crossed \cup
           ({row[e].content : e \in listed} \cap {req[r].content : r \in InFlight})
      /\ UNCHANGED <<row, objects, lock, req, clock, now, lapsed, twins>>

\* purge_entry: the object is deleted, or its deletion fails and is logged.
PurgeObject ==
  \E e \in Oldest(clean.todo, 1) :
    /\ clean.pc = "object"
    /\ objects' \in {objects, objects \ {row[e].content}}
    /\ clean' = [clean EXCEPT !.pc = "row"]
    /\ UNCHANGED <<row, lock, req, clock, now, history>>

\* Then the row, once nobody else is writing it.
PurgeRow ==
  \E e \in Oldest(clean.todo, 1) :
    /\ clean.pc = "row" /\ ~Refreshing(e)
    /\ clean' = [clean EXCEPT !.pc = "object", !.todo = @ \ {e}, !.gone = @ \cup {e}]
    /\ UNCHANGED <<row, objects, lock, req, clock, now, history>>

EndCleanup_SoftDelete ==
  /\ clean.pc = "object" /\ clean.todo = {}
  /\ row' = [e \in Request |->
               IF e \in clean.gone THEN [row[e] EXCEPT !.status = "purged"] ELSE row[e]]
  /\ clean' = [clean EXCEPT !.pc = "idle", !.marked = {}, !.gone = {}]
  /\ UNCHANGED <<objects, lock, req, clock, now, history>>

EndCleanup ==
  /\ clean.pc = "object" /\ clean.todo = {}
  /\ row' = [e \in Request |->
               IF e \in clean.gone THEN NoRow
               ELSE IF e \in clean.marked THEN [row[e] EXCEPT !.status = "expired"]
               ELSE row[e]]
  /\ clean' = [clean EXCEPT !.pc = "idle", !.marked = {}, !.gone = {}]
  /\ UNCHANGED <<objects, lock, req, clock, now, history>>

\* The job's transaction is rolled back; the objects stay deleted.
FailCleanup ==
  /\ clean.pc # "idle"
  /\ clean' = [clean EXCEPT !.pc = "idle", !.marked = {}, !.todo = {}, !.gone = {}]
  /\ UNCHANGED <<row, objects, lock, req, clock, now, history>>

-----------------------------------------------------------------------------
\* Every download has been answered.
Idle ==
  /\ \A r \in Request : req[r].pc \in {"answered", "failed"}
  /\ UNCHANGED vars

Next ==
  \/ \E r \in Request :
       \/ Lookup(r) \/ (\E c \in Contents : Resolve(r, c))
       \/ GetLock(r) \/ Bypass(r) \/ Recheck(r)
       \/ Put(r) \/ Select(r) \/ Flush(r) \/ ReleaseLock(r) \/ RedisLost(r)
       \/ Deliver(r) \/ Stale(r) \/ Fail(r)
  \/ LockExpires \/ TimePasses
  \/ BeginCleanup \/ PurgeObject \/ PurgeRow \/ EndCleanup \/ FailCleanup
  \/ Idle

Spec == Init /\ [][Next]_vars

-----------------------------------------------------------------------------
(* Properties.                                                             *)

Factory(r) ==
  req[r].single /\ req[r].pc \in {"inside", "storing", "selecting", "flushing", "flushed"}

\* Two downloads are under the single-flight lock only after it ran out for
\* one of them; a late release does not free another's lock.
SingleFlightUnlessLapsed ==
  \A r, s \in Request : Factory(r) /\ Factory(s) /\ r # s => {r, s} \cap lapsed # {}

\* An entry that is served has its object in the bucket, unless the content
\* has had a second entry whose purge deleted the shared object, or it was
\* stored while a cleanup was purging it.
LiveEntriesAreBacked ==
  \A e \in Request :
    Live(e) => row[e].content \in objects \cup twins \cup crossed

\* "Single-flight: 100 concurrent requests for the same key -> 1 acquisition"
\* (locks.py:4), while Redis is there and no lock runs out.
OneAcquisition ==
  \A r, s \in InFlight :
    lapsed = {} /\ req[r].single /\ req[s].single
      /\ req[r].write # "none" /\ req[s].write # "none" => r = s
=============================================================================
