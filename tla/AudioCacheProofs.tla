-------------------------- MODULE AudioCacheProofs --------------------------
(***************************************************************************)
(* AudioCache for any number of downloads, any pool, any purge limit and   *)
(* any set of bodies: one download at a time is under the single-flight    *)
(* lock unless the lock ran out, and an entry that is served has its       *)
(* object unless the contents were twins or crossed a cleanup.             *)
(***************************************************************************)
EXTENDS AudioCache, TLAPS

\* A request that has put its body into the bucket and may still commit it.
Stored(q) == \/ q.pc \in {"selecting", "flushing"}
             \/ q.pc \in {"flushed", "found"} /\ q.write # "none"

\* What a request has in hand at each of its positions.  An entry that it hits
\* or refreshes was committed by a request that is answered.
Well(r, q) ==
  /\ q.pc \in {"waiting", "inside", "storing", "bypass"} \/ Stored(q) => q.content \in Contents
  /\ q.pc = "flushed" => q.content \in Contents
  /\ q.pc = "bypass" => ~q.single
  /\ q.write # "none" => q.pc \in {"flushing", "flushed", "found"}
  /\ q.pc = "flushing" => q.write # "none"
  /\ q.pc \in {"flushing", "flushed", "found"} => q.entry \in Request
  /\ q.pc \in {"flushing", "flushed", "found"} =>
       IF q.write = "insert" THEN q.entry = r ELSE req[q.entry].pc = "answered"

RequestInv == \A r \in Request : Well(r, req[r])

\* A committed row has a body, and its request is answered.
RowInv == \A e \in Request :
  row[e].status # "none" => row[e].content \in Contents /\ req[e].pc = "answered"

\* A refresh writes the content that the row already has, as long as there is
\* one; and once it is flushed, the row stays.
Keeps(q) ==
  /\ q.write = "update" /\ row[q.entry].status # "none" => row[q.entry].content = q.content
  /\ q.write = "update" /\ q.pc \in {"flushed", "found"} =>
       row[q.entry].status # "none" /\ q.entry \notin clean.gone

UpdateInv == \A r \in Request : Keeps(req[r])

\* A cleanup marks and lists committed rows.
ListInv == \A e \in clean.todo \cup clean.marked : row[e].status # "none"

TwinsInv == \A e, f \in Request :
  /\ e # f /\ row[e].status # "none" /\ row[f].status # "none"
  /\ row[e].content = row[f].content
  => row[e].content \in twins

Backed(c) == c \in objects \cup twins \cup crossed

\* What a request has stored and a cleanup is about to delete has crossed; so
\* has what is served although it is on the list.
Crosses(q) == \A e \in clean.todo : row[e].content = q.content => q.content \in crossed

StoredInv == \A r \in Request :
  Stored(req[r]) => Backed(req[r].content) /\ Crosses(req[r])

ListedInv == \A e \in clean.todo : Live(e) => row[e].content \in crossed

BackedInv ==
  /\ TypeOK /\ RequestInv /\ RowInv /\ UpdateInv /\ ListInv /\ TwinsInv
  /\ StoredInv /\ ListedInv /\ LiveEntriesAreBacked

\* The empty cache satisfies the invariant.
LEMMA InitBackedInv == Init => BackedInv
<1> SUFFICES ASSUME Init PROVE BackedInv
  OBVIOUS
<1> USE DEF Init, Fresh, NoRow
<1>1. TypeOK
  BY AudioCacheAssumption DEF TypeOK, RequestState
<1>2. RequestInv /\ RowInv /\ UpdateInv /\ StoredInv
  BY DEF RequestInv, RowInv, UpdateInv, StoredInv, Well, Keeps, Stored
<1>3. ListInv /\ TwinsInv /\ ListedInv /\ LiveEntriesAreBacked
  BY DEF ListInv, TwinsInv, ListedInv, LiveEntriesAreBacked, Live
<1> QED
  BY <1>1, <1>2, <1>3 DEF BackedInv

-----------------------------------------------------------------------------
(* Most steps of a download change what that download has in hand, and may *)
(* add an object or a crossed content; the rows and the cleanup stay.      *)

\* Request r moves to next, which Well and Keeps allow; what it has stored is in
\* the bucket or accounted for.
Moves(r, next) ==
  /\ req[r].pc # "answered"
  /\ next \in RequestState /\ Well(r, next) /\ Keeps(next)
  /\ Stored(next) =>
       /\ next.content \in objects' \cup twins \cup crossed'
       /\ \A e \in clean.todo : row[e].content = next.content => next.content \in crossed'
  /\ req' = [req EXCEPT ![r] = next]
  /\ objects' \in SUBSET Contents /\ objects \subseteq objects'
  /\ crossed' \in SUBSET Contents /\ crossed \subseteq crossed'
  /\ lock' \in Request \cup {None}
  /\ clock' \in Nat /\ clock' >= clock
  /\ UNCHANGED <<row, clean, now, lapsed, twins>>

\* Such a move keeps the invariant.
LEMMA MovesInv ==
  ASSUME BackedInv, NEW r \in Request, NEW next, Moves(r, next)
  PROVE  BackedInv'
<1> USE DEF BackedInv, Moves
<1>1. \A q \in Request : q # r => req'[q] = req[q]
  BY DEF TypeOK
<1>2. req'[r] = next
  BY DEF TypeOK
<1>3. \A q \in Request : req[q].pc = "answered" => req'[q].pc = "answered"
  BY <1>1
<1>4. UNCHANGED <<row, clean, now, twins>> /\ objects \subseteq objects'
      /\ crossed \subseteq crossed'
  OBVIOUS
<1>5. TypeOK'
  BY DEF TypeOK
<1>6. RequestInv'
  <2>1. ASSUME NEW q \in Request, q # r PROVE Well(q, req[q])'
    BY <1>1, <1>3, <2>1 DEF RequestInv, Well, Stored
  <2>2. Well(r, req[r])'
    BY <1>2, <1>3 DEF Well, Stored
  <2> QED
    BY <2>1, <2>2 DEF RequestInv
<1>7. RowInv' /\ ListInv' /\ TwinsInv'
  BY <1>3, <1>4 DEF RowInv, ListInv, TwinsInv
<1>8. UpdateInv'
  <2>1. ASSUME NEW q \in Request, q # r PROVE Keeps(req[q])'
    BY <1>1, <1>4, <2>1 DEF UpdateInv, Keeps
  <2>2. Keeps(req[r])'
    BY <1>2, <1>4 DEF Keeps
  <2> QED
    BY <2>1, <2>2 DEF UpdateInv
<1>9. StoredInv'
  <2>1. ASSUME NEW q \in Request, q # r, Stored(req[q])'
        PROVE  Backed(req[q].content)' /\ Crosses(req[q])'
    BY <1>1, <1>4, <2>1 DEF StoredInv, Stored, Backed, Crosses
  <2>2. ASSUME Stored(req[r])'
        PROVE  Backed(req[r].content)' /\ Crosses(req[r])'
    BY <1>2, <1>4, <2>2 DEF Stored, Backed, Crosses
  <2> QED
    BY <2>1, <2>2 DEF StoredInv
<1>10. ListedInv' /\ LiveEntriesAreBacked'
  BY <1>4 DEF ListedInv, LiveEntriesAreBacked, Live
<1> QED
  BY <1>5, <1>6, <1>7, <1>8, <1>9, <1>10

\* A hit is on a committed entry.
LEMMA HitsAreAnswered ==
  ASSUME RowInv, NEW e \in Hits
  PROVE  e \in Request /\ req[e].pc = "answered"
BY DEF Hits, Live, RowInv

\* The steps that leave the bucket alone and store nothing new.
LEMMA EmptyHandMoves ==
  ASSUME BackedInv, NEW r \in Request, NEW next \in RequestState,
         req[r].pc # "answered", Well(r, next), Keeps(next),
         Stored(next) => Stored(req[r]) /\ next.content = req[r].content,
         req' = [req EXCEPT ![r] = next],
         lock' \in Request \cup {None},
         UNCHANGED <<row, objects, clean, clock, now, history>>
  PROVE  BackedInv'
<1>1. Moves(r, next)
  BY DEF Moves, BackedInv, TypeOK, history, StoredInv, Backed, Crosses
<1> QED
  BY <1>1, MovesInv

\* A request that goes on with a hit, before the lock.
LEMMA FindsInv ==
  ASSUME BackedInv, NEW r \in Request, req[r].pc \in {"new", "resolving"},
         NEW e \in Hits, Finds(r, e),
         UNCHANGED <<row, objects, lock, clean, clock, now, history>>
  PROVE  BackedInv'
<1> DEFINE next == [req[r] EXCEPT !.pc = "found", !.entry = e]
<1>1. req[r].write = "none" /\ req[r] \in RequestState
  BY DEF BackedInv, TypeOK, RequestInv, Well
<1>2. e \in Request /\ req[e].pc = "answered"
  BY HitsAreAnswered DEF BackedInv
<1>3. next \in RequestState /\ next.pc = "found" /\ next.write = "none" /\ next.entry = e
  BY <1>1, <1>2 DEF RequestState
<1>4. req' = [req EXCEPT ![r] = next]
  BY DEF Finds, BackedInv, TypeOK
<1> HIDE DEF next
<1>5. Well(r, next) /\ Keeps(next) /\ ~Stored(next)
  BY <1>2, <1>3 DEF Well, Keeps, Stored
<1> QED
  BY <1>3, <1>4, <1>5, EmptyHandMoves DEF BackedInv, TypeOK

\* lookup before the lock.
LEMMA LookupInv ==
  ASSUME BackedInv, NEW r \in Request, Lookup(r)
  PROVE  BackedInv'
<1>1. req[r].pc = "new" /\ req[r].write = "none" /\ req[r] \in RequestState
  BY DEF BackedInv, TypeOK, RequestInv, Well, Lookup
<1>2. CASE Goes(r, "resolving")
  <2> DEFINE next == [req[r] EXCEPT !.pc = "resolving"]
  <2>1. next \in RequestState /\ next.pc = "resolving" /\ next.write = "none"
    BY <1>1 DEF RequestState
  <2>2. req' = [req EXCEPT ![r] = next]
    BY <1>2 DEF Goes, BackedInv, TypeOK
  <2> HIDE DEF next
  <2>3. Well(r, next) /\ Keeps(next) /\ ~Stored(next)
    BY <2>1 DEF Well, Keeps, Stored
  <2> QED
    BY <1>1, <2>1, <2>2, <2>3, EmptyHandMoves DEF Lookup, BackedInv, TypeOK
<1> QED
  BY <1>1, <1>2, FindsInv DEF Lookup

\* The provider's answer and the second lookup.
LEMMA ResolveInv ==
  ASSUME BackedInv, NEW r \in Request, NEW c \in Contents, Resolve(r, c)
  PROVE  BackedInv'
<1>1. req[r].pc = "resolving" /\ req[r].write = "none" /\ req[r] \in RequestState
  BY DEF BackedInv, TypeOK, RequestInv, Well, Resolve
<1>2. CASE req' = [req EXCEPT ![r].pc = "waiting", ![r].content = c]
  <2> DEFINE next == [req[r] EXCEPT !.pc = "waiting", !.content = c]
  <2>1. next \in RequestState /\ next.pc = "waiting" /\ next.write = "none" /\ next.content = c
    BY <1>1 DEF RequestState
  <2>2. req' = [req EXCEPT ![r] = next]
    BY <1>2 DEF BackedInv, TypeOK
  <2> HIDE DEF next
  <2>3. Well(r, next) /\ Keeps(next) /\ ~Stored(next)
    BY <2>1 DEF Well, Keeps, Stored
  <2> QED
    BY <1>1, <2>1, <2>2, <2>3, EmptyHandMoves DEF Resolve, BackedInv, TypeOK
<1> QED
  BY <1>1, <1>2, FindsInv DEF Resolve

\* SET NX succeeds.
LEMMA GetLockInv ==
  ASSUME BackedInv, NEW r \in Request, GetLock(r)
  PROVE  BackedInv'
<1> DEFINE next == [req[r] EXCEPT !.pc = "inside", !.single = TRUE]
<1>1. /\ req[r].pc = "waiting" /\ req[r].write = "none" /\ req[r] \in RequestState
      /\ req[r].content \in Contents
  BY DEF BackedInv, TypeOK, RequestInv, Well, GetLock
<1>2. /\ next \in RequestState /\ next.pc = "inside" /\ next.write = "none"
      /\ next.content = req[r].content
  BY <1>1 DEF RequestState
<1>3. req' = [req EXCEPT ![r] = next]
  BY DEF GetLock, BackedInv, TypeOK
<1> HIDE DEF next
<1>4. Well(r, next) /\ Keeps(next) /\ ~Stored(next)
  BY <1>1, <1>2 DEF Well, Keeps, Stored
<1> QED
  BY <1>1, <1>2, <1>3, <1>4, EmptyHandMoves DEF GetLock

\* The single-flight is given up before anything is stored.
LEMMA BypassInv ==
  ASSUME BackedInv, NEW r \in Request, Bypass(r)
  PROVE  BackedInv'
<1> DEFINE next == [req[r] EXCEPT !.pc = "bypass", !.single = FALSE]
<1>1. /\ req[r].pc \in {"waiting", "inside", "storing"} /\ req[r].write = "none"
      /\ req[r] \in RequestState /\ req[r].content \in Contents
  BY DEF BackedInv, TypeOK, RequestInv, Well, Bypass
<1>2. /\ next \in RequestState /\ next.pc = "bypass" /\ next.write = "none"
      /\ ~next.single /\ next.content = req[r].content
  BY <1>1 DEF RequestState
<1>3. req' = [req EXCEPT ![r] = next] /\ lock' \in Request \cup {None}
  BY DEF Bypass, BackedInv, TypeOK
<1> HIDE DEF next
<1>4. Well(r, next) /\ Keeps(next) /\ ~Stored(next)
  BY <1>1, <1>2 DEF Well, Keeps, Stored
<1> QED
  BY <1>1, <1>2, <1>3, <1>4, EmptyHandMoves DEF Bypass

\* The lookup under the lock.
LEMMA RecheckInv ==
  ASSUME BackedInv, NEW r \in Request, Recheck(r)
  PROVE  BackedInv'
<1>1. /\ req[r].pc = "inside" /\ req[r].write = "none"
      /\ req[r] \in RequestState /\ req[r].content \in Contents
  BY DEF BackedInv, TypeOK, RequestInv, Well, Recheck
<1>2. CASE Goes(r, "storing")
  <2> DEFINE next == [req[r] EXCEPT !.pc = "storing"]
  <2>1. /\ next \in RequestState /\ next.pc = "storing" /\ next.write = "none"
        /\ next.content = req[r].content
    BY <1>1 DEF RequestState
  <2>2. req' = [req EXCEPT ![r] = next]
    BY <1>2 DEF Goes, BackedInv, TypeOK
  <2> HIDE DEF next
  <2>3. Well(r, next) /\ Keeps(next) /\ ~Stored(next)
    BY <1>1, <2>1 DEF Well, Keeps, Stored
  <2> QED
    BY <1>1, <2>1, <2>2, <2>3, EmptyHandMoves DEF Recheck, BackedInv, TypeOK
<1>3. ASSUME NEW e \in Hits, req' = [req EXCEPT ![r].pc = "flushed", ![r].entry = e]
      PROVE  BackedInv'
  <2> DEFINE next == [req[r] EXCEPT !.pc = "flushed", !.entry = e]
  <2>0. e \in Request /\ req[e].pc = "answered"
    BY HitsAreAnswered DEF BackedInv
  <2>1. /\ next \in RequestState /\ next.pc = "flushed" /\ next.write = "none"
        /\ next.entry = e /\ next.content = req[r].content
    BY <1>1, <2>0 DEF RequestState
  <2>2. req' = [req EXCEPT ![r] = next]
    BY <1>3 DEF BackedInv, TypeOK
  <2> HIDE DEF next
  <2>3. Well(r, next) /\ Keeps(next) /\ ~Stored(next)
    BY <1>1, <2>0, <2>1 DEF Well, Keeps, Stored
  <2> QED
    BY <1>1, <2>1, <2>2, <2>3, EmptyHandMoves DEF Recheck, BackedInv, TypeOK
<1> QED
  BY <1>2, <1>3 DEF Recheck

\* The object goes to the bucket; what a cleanup has on its list crosses.
LEMMA PutInv ==
  ASSUME BackedInv, NEW r \in Request, Put(r)
  PROVE  BackedInv'
<1> DEFINE next == [req[r] EXCEPT !.pc = "selecting", !.stamp = clock + 1]
           c == req[r].content
<1>1. /\ req[r].pc \in {"storing", "bypass"} /\ req[r].write = "none"
      /\ req[r] \in RequestState /\ c \in Contents /\ clock + 1 \in Nat
  BY DEF BackedInv, TypeOK, RequestInv, Well, Put
<1>2. /\ next \in RequestState /\ next.pc = "selecting" /\ next.write = "none"
      /\ next.content = c
  BY <1>1 DEF RequestState
<1>3. req' = [req EXCEPT ![r] = next]
  BY DEF Put, BackedInv, TypeOK
<1>4. c \in objects' /\ objects' \in SUBSET Contents /\ objects \subseteq objects'
  BY <1>1 DEF Put, BackedInv, TypeOK
<1>5. crossed' \in SUBSET Contents /\ crossed \subseteq crossed'
  BY <1>1 DEF Put, BackedInv, TypeOK, EntriesOf
<1>6. ASSUME NEW e \in clean.todo, row[e].content = c PROVE c \in crossed'
  <2>1. e \in EntriesOf(c) \cap clean.todo
    BY <1>6 DEF EntriesOf, BackedInv, TypeOK, ListInv
  <2> QED
    BY <1>6, <2>1 DEF Put
<1> HIDE DEF next
<1>7. Well(r, next) /\ Keeps(next)
  BY <1>1, <1>2 DEF Well, Keeps, Stored
<1>8. /\ lock' \in Request \cup {None} /\ clock' \in Nat /\ clock' >= clock
      /\ UNCHANGED <<row, clean, now, lapsed, twins>>
  BY DEF Put, BackedInv, TypeOK
<1>9. Moves(r, next)
  BY <1>1, <1>2, <1>3, <1>4, <1>5, <1>6, <1>7, <1>8 DEF Moves
<1> QED
  BY <1>9, MovesInv

\* The choice between an insert and a refresh.
LEMMA SelectInv ==
  ASSUME BackedInv, NEW r \in Request, Select(r)
  PROVE  BackedInv'
<1>1. /\ req[r].pc = "selecting" /\ Stored(req[r])
      /\ req[r] \in RequestState /\ req[r].content \in Contents
  BY DEF BackedInv, TypeOK, RequestInv, Well, Select, Stored
<1>2. CASE req' = [req EXCEPT ![r].pc = "flushing", ![r].entry = r, ![r].write = "insert"]
  <2> DEFINE next == [req[r] EXCEPT !.pc = "flushing", !.entry = r, !.write = "insert"]
  <2>1. /\ next \in RequestState /\ next.pc = "flushing" /\ next.write = "insert"
        /\ next.entry = r /\ next.content = req[r].content
    BY <1>1 DEF RequestState
  <2>2. req' = [req EXCEPT ![r] = next]
    BY <1>2 DEF BackedInv, TypeOK
  <2> HIDE DEF next
  <2>3. Well(r, next) /\ Keeps(next)
    BY <1>1, <2>1 DEF Well, Keeps
  <2> QED
    BY <1>1, <2>1, <2>2, <2>3, EmptyHandMoves DEF Select, BackedInv, TypeOK
<1>3. ASSUME NEW e \in EntriesOf(req[r].content), NEW seen \in BOOLEAN,
             req' = [req EXCEPT ![r].pc = "flushing", ![r].entry = e, ![r].write = "update",
                                ![r].seen = seen]
      PROVE  BackedInv'
  <2> DEFINE next == [req[r] EXCEPT !.pc = "flushing", !.entry = e, !.write = "update",
                                    !.seen = seen]
  <2>0. e \in Request /\ req[e].pc = "answered" /\ row[e].content = req[r].content
    BY DEF EntriesOf, BackedInv, RowInv
  <2>1. /\ next \in RequestState /\ next.pc = "flushing" /\ next.write = "update"
        /\ next.entry = e /\ next.content = req[r].content
    BY <1>1, <2>0 DEF RequestState
  <2>2. req' = [req EXCEPT ![r] = next]
    BY <1>3 DEF BackedInv, TypeOK
  <2> HIDE DEF next
  <2>3. Well(r, next) /\ Keeps(next)
    BY <1>1, <2>0, <2>1 DEF Well, Keeps
  <2> QED
    BY <1>1, <2>1, <2>2, <2>3, EmptyHandMoves DEF Select, BackedInv, TypeOK
<1>4. ASSUME NEW e \in EntriesOf(req[r].content),
             req' = [req EXCEPT ![r].pc = "flushing", ![r].entry = e, ![r].write = "update",
                                ![r].seen = row[e].status = "ready" \/ e = req[r].entry]
      PROVE  BackedInv'
  <2> DEFINE seen == row[e].status = "ready" \/ e = req[r].entry
  <2>1. seen \in BOOLEAN
    OBVIOUS
  <2>2. req' = [req EXCEPT ![r].pc = "flushing", ![r].entry = e, ![r].write = "update",
                           ![r].seen = seen]
    BY <1>4
  <2> HIDE DEF seen
  <2> QED
    BY <1>3, <2>1, <2>2
<1> QED
  BY <1>2, <1>4 DEF Select

\* The flush of a refresh: nobody is purging the row.
LEMMA FlushInv ==
  ASSUME BackedInv, NEW r \in Request, Flush(r)
  PROVE  BackedInv'
<1> DEFINE pc == IF req[r].single THEN "flushed" ELSE "found"
           next == [req[r] EXCEPT !.pc = pc]
<1>1. /\ req[r].pc = "flushing" /\ Stored(req[r]) /\ req[r].write # "none"
      /\ req[r] \in RequestState /\ req[r].content \in Contents
      /\ Well(r, req[r]) /\ Keeps(req[r])
  BY DEF BackedInv, TypeOK, RequestInv, UpdateInv, Well, Flush, Stored
<1>2. pc \in {"flushed", "found"}
  OBVIOUS
<1>3. req' = [req EXCEPT ![r] = next]
  BY DEF Flush, Goes, BackedInv, TypeOK
<1> HIDE DEF pc
<1>4. /\ next \in RequestState /\ next.pc = pc /\ next.write = req[r].write
      /\ next.entry = req[r].entry /\ next.content = req[r].content
  BY <1>1, <1>2 DEF RequestState
<1> HIDE DEF next
<1>5. next.write = "update" =>
        row[next.entry].status # "none" /\ next.entry \notin clean.gone
  BY <1>4 DEF Flush, Purging
<1>6. Well(r, next)
  BY <1>1, <1>2, <1>4 DEF Well
<1>7. Keeps(next)
  BY <1>1, <1>4, <1>5 DEF Keeps
<1> QED
  BY <1>1, <1>3, <1>4, <1>6, <1>7, EmptyHandMoves DEF Flush, BackedInv, TypeOK

\* The lock is released before the commit.
LEMMA ReleaseLockInv ==
  ASSUME BackedInv, NEW r \in Request, ReleaseLock(r)
  PROVE  BackedInv'
<1> DEFINE next == [req[r] EXCEPT !.pc = "found"]
<1>1. /\ req[r].pc = "flushed" /\ req[r] \in RequestState
      /\ Well(r, req[r]) /\ Keeps(req[r])
  BY DEF BackedInv, TypeOK, RequestInv, UpdateInv, ReleaseLock
<1>2. /\ next \in RequestState /\ next.pc = "found" /\ next.write = req[r].write
      /\ next.entry = req[r].entry /\ next.content = req[r].content
  BY <1>1 DEF RequestState
<1>3. req' = [req EXCEPT ![r] = next] /\ lock' \in Request \cup {None}
  BY DEF ReleaseLock, Goes, BackedInv, TypeOK
<1> HIDE DEF next
<1>4. Well(r, next) /\ Keeps(next)
  BY <1>1, <1>2 DEF Well, Keeps, Stored
<1>5. Stored(next) => Stored(req[r])
  BY <1>1, <1>2 DEF Stored
<1> QED
  BY <1>1, <1>2, <1>3, <1>4, <1>5, EmptyHandMoves DEF ReleaseLock

\* Redis fails before the release: the body is stored again, or for the first
\* time without the lock.
LEMMA RedisLostInv ==
  ASSUME BackedInv, NEW r \in Request, RedisLost(r)
  PROVE  BackedInv'
<1>1. /\ req[r].pc = "flushed" /\ req[r] \in RequestState
      /\ Well(r, req[r]) /\ Keeps(req[r]) /\ req[r].content \in Contents
      /\ clock + 1 \in Nat
  BY DEF BackedInv, TypeOK, RequestInv, UpdateInv, RedisLost, Well
<1>2. CASE /\ req[r].write # "none"
           /\ objects' = objects \cup {req[r].content}
           /\ clock' = clock + 1
           /\ req' = [req EXCEPT ![r].pc = "found", ![r].stamp = clock + 1]
  <2> DEFINE next == [req[r] EXCEPT !.pc = "found", !.stamp = clock + 1]
  <2>1. /\ next \in RequestState /\ next.pc = "found" /\ next.write = req[r].write
        /\ next.entry = req[r].entry /\ next.content = req[r].content
    BY <1>1 DEF RequestState
  <2>2. req' = [req EXCEPT ![r] = next]
    BY <1>2 DEF BackedInv, TypeOK
  <2> HIDE DEF next
  <2>3. Well(r, next) /\ Keeps(next)
    BY <1>1, <2>1 DEF Well, Keeps, Stored
  <2>4. /\ next.content \in objects' \cup twins \cup crossed'
        /\ \A e \in clean.todo : row[e].content = next.content => next.content \in crossed'
    BY <1>1, <1>2, <2>1 DEF RedisLost, history, BackedInv, StoredInv, Stored, Crosses
  <2>5. /\ objects' \in SUBSET Contents /\ objects \subseteq objects'
        /\ crossed' \in SUBSET Contents /\ crossed \subseteq crossed'
        /\ lock' \in Request \cup {None} /\ clock' \in Nat /\ clock' >= clock
        /\ UNCHANGED <<row, clean, now, lapsed, twins>>
    BY <1>1, <1>2 DEF RedisLost, history, BackedInv, TypeOK
  <2>6. Moves(r, next)
    BY <1>1, <2>1, <2>2, <2>3, <2>4, <2>5 DEF Moves
  <2> QED
    BY <2>6, MovesInv
<1>3. CASE /\ req[r].write = "none"
           /\ req' = [req EXCEPT ![r].pc = "bypass", ![r].single = FALSE]
           /\ UNCHANGED <<objects, clock>>
  <2> DEFINE next == [req[r] EXCEPT !.pc = "bypass", !.single = FALSE]
  <2>1. /\ next \in RequestState /\ next.pc = "bypass" /\ next.write = "none"
        /\ ~next.single /\ next.content = req[r].content
    BY <1>1, <1>3 DEF RequestState
  <2>2. req' = [req EXCEPT ![r] = next]
    BY <1>3 DEF BackedInv, TypeOK
  <2> HIDE DEF next
  <2>3. Well(r, next) /\ Keeps(next) /\ ~Stored(next)
    BY <1>1, <2>1 DEF Well, Keeps, Stored
  <2> QED
    BY <1>1, <1>3, <2>1, <2>2, <2>3, EmptyHandMoves DEF RedisLost, BackedInv, TypeOK
<1> QED
  BY <1>2, <1>3 DEF RedisLost

\* A request that has ended has nothing in hand.
LEMMA FreshIsEmpty ==
  ASSUME NEW r, NEW pc \in {"answered", "failed"}
  PROVE  /\ Fresh(pc) \in RequestState /\ Well(r, Fresh(pc)) /\ Keeps(Fresh(pc))
         /\ ~Stored(Fresh(pc)) /\ Fresh(pc).pc = pc
BY DEF Fresh, RequestState, Well, Keeps, Stored

\* The request fails; its objects stay.
LEMMA FailInv ==
  ASSUME BackedInv, NEW r \in Request, Fail(r)
  PROVE  BackedInv'
<1>1. req[r].pc # "answered" /\ lock' \in Request \cup {None}
  BY DEF Fail, InFlight, BackedInv, TypeOK
<1> QED
  BY <1>1, FreshIsEmpty, EmptyHandMoves DEF Fail, Ends

\* An update that finds no row stores once more at most.
LEMMA StaleInv ==
  ASSUME BackedInv, NEW r \in Request, Stale(r)
  PROVE  BackedInv'
<1>1. req[r].pc # "answered" /\ lock' \in Request \cup {None}
  BY DEF Stale, BackedInv, TypeOK
<1>2. req[r].pc = "flushing" => req[r].content \in Contents
  BY DEF BackedInv, RequestInv, Well, Stored
<1>3. objects' \in SUBSET Contents /\ objects \subseteq objects'
  BY <1>2 DEF Stale, BackedInv, TypeOK
<1>4. Moves(r, Fresh("failed"))
  BY <1>1, <1>3, FreshIsEmpty DEF Stale, Ends, history, Moves, BackedInv, TypeOK
<1> QED
  BY <1>4, MovesInv

-----------------------------------------------------------------------------
(* The steps that change rows, objects or the cleanup.                     *)

\* The commit.  The row that it writes is new, or keeps its content.
LEMMA DeliverInv ==
  ASSUME BackedInv, NEW r \in Request, Deliver(r)
  PROVE  BackedInv'
<1> USE DEF BackedInv
<1> DEFINE e == req[r].entry
           c == req[r].content
           writes == req[r].write # "none"
<1>1. /\ req[r].pc = "found" /\ e \in Request /\ Well(r, req[r]) /\ Keeps(req[r])
      /\ req[r] \in RequestState
  BY DEF Deliver, RequestInv, UpdateInv, Well, TypeOK
<1>2. /\ req' = [req EXCEPT ![r] = Fresh("answered")]
      /\ UNCHANGED <<objects, lock, clean, clock, now, lapsed, crossed>>
      /\ ~writes => row' = row /\ row[e].status # "none"
  BY DEF Deliver, Ends
<1>3. writes => Stored(req[r]) /\ c \in Contents
  BY <1>1 DEF Stored, Well
<1>4. writes => row'[e].status \in {"ready", "expired"} /\ row'[e].content = c
  <2> DEFINE kept == req[r].write = "update" /\ req[r].seen
             new == [status |-> IF kept THEN row[e].status ELSE "ready",
                     content |-> c, stamp |-> req[r].stamp]
  <2>1. writes => row' = [row EXCEPT ![e] = new]
    BY DEF Deliver
  <2>2. kept => row[e].status \in {"ready", "expired"}
    BY <1>1 DEF Keeps, TypeOK
  <2>3. new.status \in {"ready", "expired"} /\ new.content = c
    BY <2>2
  <2> HIDE DEF new
  <2> QED
    BY <1>1, <2>1, <2>3 DEF TypeOK
<1>5. \A f \in Request : f # e => row'[f] = row[f]
  BY <1>1 DEF Deliver, TypeOK
\* The row is the request's own new one, or one that has this content already.
<1>6. writes => \/ e = r /\ row[e].status = "none"
                \/ row[e].status # "none" /\ row[e].content = c /\ req[e].pc = "answered"
  BY <1>1 DEF Well, Keeps, RowInv, RequestState
<1>7. \A f \in Request : row[f].status # "none" =>
        row'[f].status # "none" /\ row'[f].content = row[f].content
  BY <1>2, <1>4, <1>5, <1>6
<1>8. twins \subseteq twins'
  BY DEF Deliver
<1>9. ASSUME NEW f \in Request, f # e, row'[f].status # "none", row'[f].content = row'[e].content
      PROVE  row'[e].content \in twins'
  BY <1>9 DEF Deliver
<1>10. /\ \A q \in Request : q # r => req'[q] = req[q]
       /\ req'[r] = Fresh("answered")
       /\ \A q \in Request : req[q].pc = "answered" \/ q = r => req'[q].pc = "answered"
  BY <1>2, FreshIsEmpty DEF TypeOK
<1>11. RowInv'
  <2>1. ASSUME NEW f \in Request, row'[f].status # "none"
        PROVE  row'[f].content \in Contents /\ req'[f].pc = "answered"
    <3>1. CASE row[f].status # "none"
      BY <1>7, <1>10, <3>1 DEF RowInv
    <3>2. CASE row[f].status = "none"
      BY <1>2, <1>3, <1>4, <1>5, <1>6, <1>10, <2>1, <3>2
    <3> QED
      BY <3>1, <3>2
  <2> QED
    BY <2>1 DEF RowInv
<1>12. TypeOK'
  <2>1. row' \in [Request -> [status : {"none", "ready", "expired"},
                              content : {"none"} \cup Contents, stamp : Nat]]
    <3>1. CASE ~writes
      BY <1>2, <3>1 DEF TypeOK
    <3>2. CASE writes
      <4> DEFINE kept == req[r].write = "update" /\ req[r].seen
                 new == [status |-> IF kept THEN row[e].status ELSE "ready",
                         content |-> c, stamp |-> req[r].stamp]
      <4>1. new \in [status : {"none", "ready", "expired"},
                     content : {"none"} \cup Contents, stamp : Nat]
        BY <1>1, <1>3, <3>2 DEF RequestState, TypeOK
      <4>2. row' = [row EXCEPT ![e] = new]
        BY <3>2 DEF Deliver
      <4> HIDE DEF new
      <4> QED
        BY <1>1, <4>1, <4>2 DEF TypeOK
    <3> QED
      BY <3>1, <3>2
  <2>2. twins' \in SUBSET Contents
    BY <1>1, <1>11 DEF Deliver, TypeOK, RowInv
  <2>3. req' \in [Request -> RequestState]
    BY <1>2, FreshIsEmpty DEF TypeOK
  <2> QED
    BY <1>2, <2>1, <2>2, <2>3 DEF TypeOK
<1>13. RequestInv'
  <2>1. ASSUME NEW q \in Request, q # r PROVE Well(q, req[q])'
    BY <1>10, <2>1 DEF RequestInv, Well, Stored
  <2>2. Well(r, req[r])'
    BY <1>10, FreshIsEmpty DEF Fresh, Well, Stored
  <2> QED
    BY <2>1, <2>2 DEF RequestInv
<1>14. UpdateInv'
  <2>1. ASSUME NEW q \in Request, q # r, req[q].write = "update" PROVE Keeps(req[q])'
    <3> DEFINE x == req[q].entry
    <3>1. x \in Request /\ req[x].pc = "answered" /\ Keeps(req[q])
      BY <2>1 DEF RequestInv, UpdateInv, Well
    <3>2. x # e \/ row[x].status # "none" \/ ~writes
      BY <1>1, <1>6, <3>1
    <3>3. row'[x].status # "none" => row[x].status # "none"
      BY <1>2, <1>5, <3>1, <3>2
    <3> QED
      BY <1>2, <1>7, <1>10, <2>1, <3>1, <3>3 DEF Keeps
  <2>2. ASSUME NEW q \in Request, q # r, req[q].write # "update" PROVE Keeps(req[q])'
    BY <1>10, <2>2 DEF Keeps
  <2>3. Keeps(req[r])'
    BY <1>10 DEF Fresh, Keeps
  <2> QED
    BY <2>1, <2>2, <2>3 DEF UpdateInv
<1>15. ListInv'
  BY <1>2, <1>7 DEF ListInv, TypeOK
<1>16. TwinsInv'
  <2>1. ASSUME NEW f \in Request, NEW g \in Request, f # g, row'[f].status # "none",
               row'[g].status # "none", row'[f].content = row'[g].content
        PROVE  row'[f].content \in twins'
    <3>1. CASE f = e \/ g = e
      BY <1>9, <2>1, <3>1
    <3>2. CASE f # e /\ g # e
      BY <1>5, <1>8, <2>1, <3>2 DEF TwinsInv
    <3> QED
      BY <3>1, <3>2
  <2> QED
    BY <2>1 DEF TwinsInv
<1>17. StoredInv'
  <2>1. ASSUME NEW q \in Request, Stored(req'[q])
        PROVE  q # r /\ Stored(req[q]) /\ req'[q] = req[q]
    BY <1>10, <2>1, FreshIsEmpty
  <2>2. ASSUME NEW q \in Request, Stored(req[q]) PROVE Backed(req[q].content)
    BY <2>2 DEF StoredInv
  <2>3. ASSUME NEW q \in Request, Stored(req[q]), NEW f \in clean.todo,
               row'[f].content = req[q].content
        PROVE  req[q].content \in crossed
    BY <1>7, <2>3 DEF StoredInv, Crosses, ListInv, TypeOK
  <2> QED
    BY <1>2, <1>8, <2>1, <2>2, <2>3 DEF StoredInv, Stored, Backed, Crosses
<1>18. ListedInv'
  <2>1. ASSUME NEW f \in clean.todo, row'[f].status = "ready", row'[f].stamp > now
        PROVE  row'[f].content \in crossed
    <3>1. f \in Request /\ row[f].status # "none"
      BY DEF ListInv, TypeOK
    <3>2. CASE f = e /\ writes
      BY <1>3, <1>7, <1>4, <3>1, <3>2 DEF StoredInv, Crosses
    <3>3. CASE f # e \/ ~writes
      BY <1>2, <1>5, <2>1, <3>1, <3>3 DEF ListedInv, Live
    <3> QED
      BY <3>2, <3>3
  <2> QED
    BY <1>2, <2>1 DEF ListedInv, Live
<1>19. LiveEntriesAreBacked'
  <2>1. ASSUME NEW f \in Request, row'[f].status = "ready", row'[f].stamp > now
        PROVE  row'[f].content \in objects \cup twins \cup crossed
    <3>1. CASE f = e /\ writes
      BY <1>3, <1>4, <3>1 DEF StoredInv, Backed
    <3>2. CASE f # e \/ ~writes
      BY <1>2, <1>5, <2>1, <3>2 DEF LiveEntriesAreBacked, Live
    <3> QED
      BY <3>1, <3>2
  <2> QED
    BY <1>2, <1>8, <2>1 DEF LiveEntriesAreBacked, Live
<1> QED
  BY <1>11, <1>12, <1>13, <1>14, <1>15, <1>16, <1>17, <1>18, <1>19

\* Time only takes entries out of service.
LEMMA TimePassesInv ==
  ASSUME BackedInv, TimePasses
  PROVE  BackedInv'
<1> USE DEF BackedInv
<1>1. UNCHANGED <<row, objects, req, clean, clock, twins, crossed>>
  BY DEF TimePasses, history
<1>2. TypeOK'
  BY <1>1 DEF TimePasses, TypeOK, history
<1>3. RequestInv' /\ RowInv' /\ UpdateInv' /\ ListInv' /\ TwinsInv' /\ StoredInv'
  BY <1>1 DEF RequestInv, RowInv, UpdateInv, ListInv, TwinsInv, StoredInv, Well,
              Keeps, Stored, Backed, Crosses
<1>4. ASSUME NEW e \in Request, Live(e)' PROVE Live(e)
  BY <1>1, <1>4 DEF Live, TimePasses, TypeOK
<1>5. ListedInv' /\ LiveEntriesAreBacked'
  BY <1>1, <1>4 DEF ListedInv, LiveEntriesAreBacked, TypeOK
<1> QED
  BY <1>2, <1>3, <1>5

\* The lock says nothing about what is stored.
LEMMA LockExpiresInv ==
  ASSUME BackedInv, LockExpires
  PROVE  BackedInv'
<1> USE DEF BackedInv
<1>1. UNCHANGED <<row, objects, req, clean, clock, now, twins, crossed>>
  BY DEF LockExpires
<1>2. TypeOK'
  BY <1>1 DEF LockExpires, TypeOK
<1> QED
  BY <1>1, <1>2 DEF RequestInv, RowInv, UpdateInv, ListInv, TwinsInv, StoredInv, Well,
              Keeps, Stored, Backed, Crosses, ListedInv, LiveEntriesAreBacked, Live

\* What a cleanup lists is not served, and what it has in common with the
\* downloads that are running crosses.
LEMMA BeginCleanupInv ==
  ASSUME BackedInv, BeginCleanup
  PROVE  BackedInv'
<1> USE DEF BackedInv
<1> DEFINE past == {e \in Request : row[e].status = "ready" /\ ~Live(e)}
           idle == {e \in Request : row[e].status = "expired"} \cup past
           listed == Oldest(idle, PurgeLimit)
<1>1. listed \subseteq idle /\ past \subseteq Request
  BY DEF Oldest
<1>2. /\ \A e \in listed : e \in Request /\ row[e].status # "none" /\ ~Live(e)
      /\ \A e \in past : row[e].status # "none"
  BY <1>1 DEF Live
<1>3. /\ clean' = [runs |-> clean.runs + 1, pc |-> "object", marked |-> past,
                   todo |-> listed, gone |-> {}]
      /\ clean.runs < MaxCleanups
      /\ crossed' = crossed \cup
           ({row[e].content : e \in listed} \cap {req[r].content : r \in InFlight})
      /\ UNCHANGED <<row, objects, lock, req, clock, now, lapsed, twins>>
  BY DEF BeginCleanup
<1> HIDE DEF listed, idle, past
<1>4. clean'.todo = listed /\ clean'.gone = {} /\ clean'.marked = past
  BY <1>3
<1>5. crossed \subseteq crossed' /\ crossed' \in SUBSET Contents
  BY <1>2, <1>3 DEF TypeOK, RowInv
<1>6. TypeOK'
  <2>1. listed \in SUBSET Request /\ past \in SUBSET Request
    BY <1>1, <1>2
  <2>2. clean.runs + 1 \in 0..MaxCleanups
    BY <1>3, AudioCacheAssumption DEF TypeOK
  <2>3. clean' \in [runs : 0..MaxCleanups, pc : {"idle", "object", "row"},
                    marked : SUBSET Request, todo : SUBSET Request, gone : SUBSET Request]
    BY <1>3, <2>1, <2>2
  <2> QED
    BY <1>3, <1>5, <2>3 DEF TypeOK
<1>7. RequestInv' /\ RowInv' /\ TwinsInv'
  BY <1>3 DEF RequestInv, RowInv, TwinsInv, Well, Stored
<1>8. UpdateInv'
  BY <1>3, <1>4 DEF UpdateInv, Keeps
<1>9. ListInv' /\ ListedInv'
  BY <1>2, <1>3, <1>4 DEF ListInv, ListedInv, Live
<1>10. StoredInv'
  <2>1. ASSUME NEW q \in Request, Stored(req[q]), NEW e \in listed,
               row[e].content = req[q].content
        PROVE  req[q].content \in crossed'
    <3>1. q \in InFlight
      BY <2>1 DEF Stored, InFlight
    <3> QED
      BY <1>3, <2>1, <3>1
  <2> QED
    BY <1>3, <1>4, <1>5, <2>1 DEF StoredInv, Stored, Backed, Crosses
<1>11. LiveEntriesAreBacked'
  BY <1>3, <1>5 DEF LiveEntriesAreBacked, Live
<1> QED
  BY <1>6, <1>7, <1>8, <1>9, <1>10, <1>11

\* An object that a cleanup deletes was stored or is served by nobody else,
\* but for twins and what crossed.
LEMMA PurgeObjectInv ==
  ASSUME BackedInv, PurgeObject
  PROVE  BackedInv'
<1> USE DEF BackedInv
<1>1. PICK e \in Oldest(clean.todo, 1) :
        /\ objects' \in {objects, objects \ {row[e].content}}
        /\ clean' = [clean EXCEPT !.pc = "row"]
        /\ UNCHANGED <<row, lock, req, clock, now, history>>
  BY DEF PurgeObject
<1>2. e \in clean.todo /\ e \in Request /\ row[e].status # "none"
  BY DEF Oldest, ListInv, TypeOK
<1>3. /\ objects' \subseteq objects
      /\ \A c \in objects : c # row[e].content => c \in objects'
  BY <1>1
<1>4. UNCHANGED <<row, req, now, twins, crossed, lock, clock, lapsed>>
  BY <1>1 DEF history
<1>5. /\ clean' \in [runs : 0..MaxCleanups, pc : {"idle", "object", "row"},
                     marked : SUBSET Request, todo : SUBSET Request, gone : SUBSET Request]
      /\ clean'.todo = clean.todo /\ clean'.gone = clean.gone
      /\ clean'.marked = clean.marked
  BY <1>1 DEF TypeOK
<1>6. TypeOK'
  BY <1>3, <1>4, <1>5 DEF TypeOK
<1>7. RequestInv' /\ RowInv' /\ TwinsInv' /\ UpdateInv' /\ ListInv' /\ ListedInv'
  BY <1>4, <1>5 DEF RequestInv, RowInv, TwinsInv, Well, Stored, UpdateInv, Keeps,
                    ListInv, ListedInv, Live
<1>8. StoredInv'
  <2>1. ASSUME NEW q \in Request, Stored(req[q])
        PROVE  req[q].content \in objects' \cup twins \cup crossed
    BY <1>2, <1>3, <2>1 DEF StoredInv, Backed, Crosses
  <2> QED
    BY <1>4, <1>5, <2>1 DEF StoredInv, Stored, Backed, Crosses
<1>9. LiveEntriesAreBacked'
  <2>1. ASSUME NEW f \in Request, Live(f)
        PROVE  row[f].content \in objects' \cup twins \cup crossed
    <3>1. row[f].status # "none"
      BY <2>1 DEF Live
    <3>2. CASE f = e
      BY <1>2, <2>1, <3>2 DEF ListedInv
    <3>3. CASE f # e
      BY <1>2, <1>3, <2>1, <3>1, <3>3 DEF LiveEntriesAreBacked, TwinsInv
    <3> QED
      BY <3>2, <3>3
  <2> QED
    BY <1>4, <2>1 DEF LiveEntriesAreBacked, Live
<1> QED
  BY <1>6, <1>7, <1>8, <1>9

\* A row is deleted only when no flushed refresh writes it.
LEMMA PurgeRowInv ==
  ASSUME BackedInv, PurgeRow
  PROVE  BackedInv'
<1> USE DEF BackedInv
<1>1. PICK e \in Oldest(clean.todo, 1) :
        /\ ~Refreshing(e)
        /\ clean' = [clean EXCEPT !.pc = "object", !.todo = @ \ {e}, !.gone = @ \cup {e}]
        /\ UNCHANGED <<row, objects, lock, req, clock, now, history>>
  BY DEF PurgeRow
<1>2. e \in clean.todo /\ e \in Request
  BY DEF Oldest, TypeOK
<1>3. UNCHANGED <<row, objects, req, now, twins, crossed, lock, clock, lapsed>>
  BY <1>1 DEF history
<1>4. /\ clean'.todo \subseteq clean.todo /\ clean'.gone = clean.gone \cup {e}
      /\ clean'.marked = clean.marked
  BY <1>1 DEF TypeOK
<1>5. clean' \in [runs : 0..MaxCleanups, pc : {"idle", "object", "row"},
                  marked : SUBSET Request, todo : SUBSET Request, gone : SUBSET Request]
  BY <1>1, <1>2 DEF TypeOK
<1>6. TypeOK'
  BY <1>3, <1>5 DEF TypeOK
<1>7. RequestInv' /\ RowInv' /\ TwinsInv' /\ LiveEntriesAreBacked'
  BY <1>3 DEF RequestInv, RowInv, TwinsInv, Well, Stored, LiveEntriesAreBacked, Live
<1>8. ListInv' /\ ListedInv' /\ StoredInv'
  BY <1>3, <1>4 DEF ListInv, ListedInv, Live, StoredInv, Stored, Backed, Crosses
<1>9. UpdateInv'
  <2>1. ASSUME NEW q \in Request, req[q].write = "update", req[q].pc \in {"flushed", "found"}
        PROVE  req[q].entry \notin clean'.gone
    BY <1>1, <1>4, <2>1 DEF UpdateInv, Keeps, Refreshing
  <2> QED
    BY <1>3, <2>1 DEF UpdateInv, Keeps
<1> QED
  BY <1>6, <1>7, <1>8, <1>9

\* The cleanup commits: rows go or expire, none appears.
LEMMA EndCleanupInv ==
  ASSUME BackedInv, EndCleanup
  PROVE  BackedInv'
<1> USE DEF BackedInv
<1>1. /\ clean'.todo = {} /\ clean'.gone = {} /\ clean'.marked = {}
      /\ clean' \in [runs : 0..MaxCleanups, pc : {"idle", "object", "row"},
                     marked : SUBSET Request, todo : SUBSET Request, gone : SUBSET Request]
  BY DEF EndCleanup, TypeOK
<1>2. UNCHANGED <<objects, req, now, twins, crossed, lock, clock, lapsed>>
  BY DEF EndCleanup, history
<1>3. ASSUME NEW e \in Request
      PROVE  /\ row'[e].status # "none" =>
                  /\ row[e].status # "none"
                  /\ row'[e].content = row[e].content /\ row'[e].stamp = row[e].stamp
             /\ row'[e].status = "ready" => row[e].status = "ready"
             /\ row[e].status # "none" /\ e \notin clean.gone => row'[e].status # "none"
             /\ row'[e] \in [status : {"none", "ready", "expired"},
                             content : {"none"} \cup Contents, stamp : Nat]
  <2>1. row[e] \in [status : {"none", "ready", "expired"},
                    content : {"none"} \cup Contents, stamp : Nat]
    BY DEF TypeOK
  <2>2. CASE e \in clean.gone
    BY <2>2 DEF EndCleanup, NoRow
  <2>3. CASE e \notin clean.gone /\ e \in clean.marked
    <3>1. row'[e] = [row[e] EXCEPT !.status = "expired"]
      BY <2>3 DEF EndCleanup
    <3>2. row'[e].status = "expired"
      BY <2>1, <3>1
    <3>3. row[e].status # "none"
      BY <2>3 DEF ListInv
    <3> QED
      BY <2>1, <2>3, <3>1, <3>2, <3>3
  <2>4. CASE e \notin clean.gone /\ e \notin clean.marked
    BY <2>1, <2>4 DEF EndCleanup
  <2> QED
    BY <2>2, <2>3, <2>4
<1>4. TypeOK'
  <2>1. row' \in [Request -> [status : {"none", "ready", "expired"},
                              content : {"none"} \cup Contents, stamp : Nat]]
    BY <1>3 DEF EndCleanup
  <2> QED
    BY <1>1, <1>2, <2>1 DEF TypeOK
<1>5. RequestInv' /\ RowInv' /\ TwinsInv'
  BY <1>2, <1>3 DEF RequestInv, RowInv, TwinsInv, Well, Stored
<1>6. ListInv' /\ ListedInv' /\ StoredInv'
  BY <1>1, <1>2 DEF ListInv, ListedInv, StoredInv, Stored, Backed, Crosses
<1>7. UpdateInv'
  <2>1. ASSUME NEW q \in Request PROVE Keeps(req[q])'
    <3>1. req[q].write = "update" => req[q].entry \in Request
      BY DEF RequestInv, Well
    <3> QED
      BY <1>1, <1>2, <1>3, <3>1 DEF UpdateInv, Keeps
  <2> QED
    BY <2>1 DEF UpdateInv
<1>8. LiveEntriesAreBacked'
  BY <1>2, <1>3 DEF LiveEntriesAreBacked, Live
<1> QED
  BY <1>4, <1>5, <1>6, <1>7, <1>8

\* A cleanup that is rolled back leaves every row.
LEMMA FailCleanupInv ==
  ASSUME BackedInv, FailCleanup
  PROVE  BackedInv'
<1> USE DEF BackedInv
<1>1. /\ clean'.todo = {} /\ clean'.gone = {} /\ clean'.marked = {}
      /\ clean' \in [runs : 0..MaxCleanups, pc : {"idle", "object", "row"},
                     marked : SUBSET Request, todo : SUBSET Request, gone : SUBSET Request]
  BY DEF FailCleanup, TypeOK
<1>2. UNCHANGED <<row, objects, req, now, twins, crossed, lock, clock, lapsed>>
  BY DEF FailCleanup, history
<1>3. TypeOK'
  BY <1>1, <1>2 DEF TypeOK
<1> QED
  BY <1>1, <1>2, <1>3
  DEF RequestInv, RowInv, UpdateInv, ListInv, TwinsInv, StoredInv, Well,
      Keeps, Stored, Backed, Crosses, ListedInv, LiveEntriesAreBacked, Live

\* Every step keeps the invariant.
LEMMA NextBackedInv == BackedInv /\ [Next]_vars => BackedInv'
<1> SUFFICES ASSUME BackedInv, [Next]_vars PROVE BackedInv'
  OBVIOUS
<1>1. ASSUME NEW r \in Request,
             \/ Lookup(r) \/ (\E c \in Contents : Resolve(r, c))
             \/ GetLock(r) \/ Bypass(r) \/ Recheck(r)
             \/ Put(r) \/ Select(r) \/ Flush(r) \/ ReleaseLock(r) \/ RedisLost(r)
             \/ Deliver(r) \/ Stale(r) \/ Fail(r)
      PROVE  BackedInv'
  BY <1>1, LookupInv, ResolveInv, GetLockInv, BypassInv, RecheckInv, PutInv, SelectInv,
     FlushInv, ReleaseLockInv, RedisLostInv, DeliverInv, StaleInv, FailInv
<1>2. CASE LockExpires \/ TimePasses
  BY <1>2, LockExpiresInv, TimePassesInv
<1>3. CASE BeginCleanup \/ PurgeObject \/ PurgeRow \/ EndCleanup \/ FailCleanup
  BY <1>3, BeginCleanupInv, PurgeObjectInv, PurgeRowInv, EndCleanupInv, FailCleanupInv
<1>4. CASE UNCHANGED vars
  BY <1>4 DEF vars, BackedInv, TypeOK, RequestInv, RowInv, UpdateInv, ListInv, TwinsInv,
              StoredInv, Well, Keeps, Stored, Backed, Crosses, ListedInv,
              LiveEntriesAreBacked, Live
<1> QED
  BY <1>1, <1>2, <1>3, <1>4 DEF Next, Idle

\* The invariant holds in every reachable state.
LEMMA BackedInvariant == Spec => []BackedInv
<1>1. Init => BackedInv
  BY InitBackedInv
<1>2. BackedInv /\ [Next]_vars => BackedInv'
  BY NextBackedInv
<1> QED
  BY <1>1, <1>2, PTL DEF Spec

\* The rows, the bucket, the lock, the downloads and the cleanup are well typed,
\* whatever fails (CacheService, single_flight).
THEOREM TypeCorrect == Spec => []TypeOK
<1>1. BackedInv => TypeOK
  BY DEF BackedInv
<1> QED
  BY <1>1, BackedInvariant, PTL

\* Whatever downloads store, refresh, hit or abandon while cleanups mark, purge
\* and roll back, an entry that is served has its object, unless its content was
\* that of two entries or was stored while a cleanup was deleting it
\* (store_bytes, purge_entry).
THEOREM LiveBacked == Spec => []LiveEntriesAreBacked
<1>1. BackedInv => LiveEntriesAreBacked
  BY DEF BackedInv
<1> QED
  BY <1>1, BackedInvariant, PTL

-----------------------------------------------------------------------------
(* The single-flight lock.                                                 *)

\* Whoever is in the factory holds the lock, or the lock ran out for it.
FlightInv == \A r \in Request : Factory(r) => lock = r \/ r \in lapsed

\* A step of request r that takes it nowhere new, or out of the factory with its
\* lock, keeps that.
LEMMA FlightStep ==
  ASSUME FlightInv, NEW r \in Request,
         \A q \in Request \ {r} : req'[q] = req[q],
         Factory(r)' => Factory(r) /\ lock' = lock,
         lock' \in {lock, IF lock = r THEN None ELSE lock}, lapsed' = lapsed
  PROVE  FlightInv'
BY DEF FlightInv, Factory

\* None is not a request.
LEMMA NoneIsNone == None \notin Request
BY AudioCacheAssumption DEF Request, None

\* Every step keeps the lock with whoever is in the factory.
LEMMA NextFlightInv == BackedInv /\ FlightInv /\ [Next]_vars => FlightInv'
<1> SUFFICES ASSUME BackedInv, FlightInv, [Next]_vars PROVE FlightInv'
  OBVIOUS
<1> USE DEF BackedInv
<1>0. req \in [Request -> RequestState]
  BY DEF TypeOK
<1>1. ASSUME NEW r \in Request, Lookup(r) PROVE FlightInv'
  <2>1. /\ \A q \in Request \ {r} : req'[q] = req[q]
        /\ req'[r].pc \in {"resolving", "found"}
    BY <1>0, <1>1 DEF Lookup, Goes, Finds, RequestState
  <2> QED
    BY <1>1, <2>1, FlightStep DEF Lookup, history, Factory
<1>2. ASSUME NEW r \in Request, NEW c \in Contents, Resolve(r, c) PROVE FlightInv'
  <2>1. /\ \A q \in Request \ {r} : req'[q] = req[q]
        /\ req'[r].pc \in {"waiting", "found"}
    BY <1>0, <1>2 DEF Resolve, Goes, Finds, RequestState
  <2> QED
    BY <1>2, <2>1, FlightStep DEF Resolve, history, Factory
<1>3. ASSUME NEW r \in Request, GetLock(r) PROVE FlightInv'
  <2>1. \A q \in Request \ {r} : req'[q] = req[q]
    BY <1>0, <1>3 DEF GetLock
  <2>2. lock = None /\ lock' = r /\ lapsed' = lapsed
    BY <1>3 DEF GetLock, history
  <2> QED
    BY <2>1, <2>2, NoneIsNone DEF FlightInv, Factory
<1>4. ASSUME NEW r \in Request, Bypass(r) PROVE FlightInv'
  <2>1. /\ \A q \in Request \ {r} : req'[q] = req[q]
        /\ req'[r].pc = "bypass"
    BY <1>0, <1>4 DEF Bypass, RequestState
  <2> QED
    BY <1>4, <2>1, FlightStep DEF Bypass, history, Factory
<1>5. ASSUME NEW r \in Request, Recheck(r) PROVE FlightInv'
  <2>1. /\ \A q \in Request \ {r} : req'[q] = req[q]
        /\ req[r].pc = "inside" /\ req'[r].single = req[r].single
    BY <1>0, <1>5 DEF Recheck, Goes, RequestState
  <2> QED
    BY <1>5, <2>1, FlightStep DEF Recheck, history, Factory
<1>6. ASSUME NEW r \in Request, Put(r) PROVE FlightInv'
  <2>1. /\ \A q \in Request \ {r} : req'[q] = req[q]
        /\ req[r].pc \in {"storing", "bypass"} /\ req'[r].single = req[r].single
    BY <1>0, <1>6 DEF Put, RequestState
  <2>2. req[r].pc = "bypass" => ~req[r].single
    BY DEF RequestInv, Well
  <2> QED
    BY <1>6, <2>1, <2>2, FlightStep DEF Put, history, Factory
<1>7. ASSUME NEW r \in Request, Select(r) PROVE FlightInv'
  <2>1. /\ \A q \in Request \ {r} : req'[q] = req[q]
        /\ req[r].pc = "selecting" /\ req[r] \in RequestState
    BY <1>0, <1>7 DEF Select
  <2>2. ASSUME req' = [req EXCEPT ![r].pc = "flushing", ![r].entry = r, ![r].write = "insert"]
        PROVE  req'[r].single = req[r].single
    <3>1. req'[r] = [req[r] EXCEPT !.pc = "flushing", !.entry = r, !.write = "insert"]
      BY <1>0, <2>2
    <3> QED
      BY <2>1, <3>1 DEF RequestState
  <2>3. ASSUME NEW e \in Request,
               req' = [req EXCEPT ![r].pc = "flushing", ![r].entry = e, ![r].write = "update",
                                  ![r].seen = row[e].status = "ready" \/ e = req[r].entry]
        PROVE  req'[r].single = req[r].single
    <3> DEFINE seen == row[e].status = "ready" \/ e = req[r].entry
    <3> HIDE DEF seen
    <3>1. req'[r] = [req[r] EXCEPT !.pc = "flushing", !.entry = e, !.write = "update",
                                   !.seen = seen]
      BY <1>0, <2>3 DEF seen
    <3> QED
      BY <2>1, <3>1 DEF RequestState
  <2>4. req'[r].single = req[r].single
    BY <1>7, <2>2, <2>3 DEF Select, EntriesOf
  <2> QED
    BY <1>7, <2>1, <2>4, FlightStep DEF Select, history, Factory
<1>8. ASSUME NEW r \in Request, Flush(r) PROVE FlightInv'
  <2>1. /\ \A q \in Request \ {r} : req'[q] = req[q]
        /\ req[r].pc = "flushing" /\ req'[r].single = req[r].single
    BY <1>0, <1>8 DEF Flush, Goes, RequestState
  <2> QED
    BY <1>8, <2>1, FlightStep DEF Flush, history, Factory
<1>9. ASSUME NEW r \in Request, ReleaseLock(r) PROVE FlightInv'
  <2>1. /\ \A q \in Request \ {r} : req'[q] = req[q]
        /\ req'[r].pc = "found"
    BY <1>0, <1>9 DEF ReleaseLock, Goes, RequestState
  <2> QED
    BY <1>9, <2>1, FlightStep DEF ReleaseLock, history, Factory
<1>10. ASSUME NEW r \in Request, RedisLost(r) PROVE FlightInv'
  <2>1. /\ \A q \in Request \ {r} : req'[q] = req[q]
        /\ req'[r].pc \in {"found", "bypass"}
    BY <1>0, <1>10 DEF RedisLost, RequestState
  <2> QED
    BY <1>10, <2>1, FlightStep DEF RedisLost, history, Factory
<1>11. ASSUME NEW r \in Request, Deliver(r) \/ Stale(r) \/ Fail(r) PROVE FlightInv'
  <2>1. req' = [req EXCEPT ![r] = Fresh("answered")] \/ req' = [req EXCEPT ![r] = Fresh("failed")]
    BY <1>11 DEF Deliver, Stale, Fail, Ends
  <2>2. /\ \A q \in Request \ {r} : req'[q] = req[q]
        /\ req'[r].pc \in {"answered", "failed"}
    BY <1>0, <2>1 DEF Fresh
  <2>3. lock' \in {lock, IF lock = r THEN None ELSE lock} /\ lapsed' = lapsed
    BY <1>11 DEF Deliver, Stale, Fail, history
  <2> QED
    BY <2>2, <2>3, FlightStep DEF Factory
<1>12. CASE LockExpires
  BY <1>12 DEF LockExpires, FlightInv, Factory
<1>13. ASSUME UNCHANGED <<req, lock, lapsed>> PROVE FlightInv'
  BY <1>13 DEF FlightInv, Factory
<1>14. CASE TimePasses \/ BeginCleanup \/ PurgeObject \/ PurgeRow \/ EndCleanup
            \/ FailCleanup \/ UNCHANGED vars
  BY <1>13, <1>14 DEF TimePasses, BeginCleanup, PurgeObject, PurgeRow, EndCleanup,
                      FailCleanup, vars, history
<1> QED
  BY <1>1, <1>2, <1>3, <1>4, <1>5, <1>6, <1>7, <1>8, <1>9, <1>10, <1>11, <1>12, <1>14
  DEF Next, Idle

\* Two downloads are in the factory together only after the lock ran out for one
\* of them: no timeout, failed release, retry without Redis or late release lets
\* a second one in (single_flight, get_or_acquire).
THEOREM SingleFlight == Spec => []SingleFlightUnlessLapsed
<1>1. Init => FlightInv
  BY DEF Init, Fresh, FlightInv, Factory
<1>2. BackedInv /\ FlightInv /\ [Next]_vars => FlightInv'
  BY NextFlightInv
<1>3. FlightInv => SingleFlightUnlessLapsed
  BY DEF FlightInv, SingleFlightUnlessLapsed
<1> QED
  BY <1>1, <1>2, <1>3, BackedInvariant, PTL DEF Spec
=============================================================================
