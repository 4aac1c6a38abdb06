---------------------------- MODULE ServicesProofs ----------------------------
(***************************************************************************)
(* Proofs about the parts of the API that MCServices runs side by side,    *)
(* apart from payments: a user's library, the ranges of a stream, and the  *)
(* migrations; and, with what PaymentsProofs proves, that all of them keep *)
(* their types together.                                                   *)
(***************************************************************************)
EXTENDS MCServices, PaymentsProofs, TLAPS

-----------------------------------------------------------------------------
(* The library: what was added stays on its shelf, once, until it is       *)
(* removed or the shelf deleted.  That every position is 0, which is not   *)
(* what list_tracks orders by it for, is what keeps it a natural number.   *)

\* An addition that has read is about to insert its own row, in position 0.
AddInv ==
  \A r \in LibReq : Reading(r, "add") =>
    asked[r].row = r /\ asked[r].position = 0 /\ asked[r].track \in LibraryTracks

\* A row was inserted, in position 0, by an addition to its shelf that has been
\* answered.
RowInv ==
  \A q \in rows :
    /\ asked[q.id].op = "add" /\ asked[q.id].pc = "answered"
    /\ asked[q.id].shelf = q.shelf
    /\ q.position = 0

\* What an addition was answered for is there or was taken away.
KeptInv ==
  \A r \in LibReq : asked[r].op = "add" /\ asked[r].pc = "answered" =>
    /\ asked[r].row \in LibReq /\ asked[asked[r].row].pc = "answered"
    /\ \/ \E q \in rows : q.id = asked[r].row
       \/ \E d \in LibReq : TookAway(d, asked[r].row)

\* A row is of a playlist that exists, or a favorite.
BackedInv == \A q \in rows : q.shelf \in playlists \cup {Favorites}

\* No shelf holds a track twice.
UniqueInv == \A p, q \in rows : p.shelf = q.shelf /\ p.track = q.track => p = q

LibraryInv == LibraryTypeOK /\ AddInv /\ RowInv /\ KeptInv /\ BackedInv /\ UniqueInv

AskedState ==
  [pc : {"new", "read", "answered", "refused"},
   op : {"none", "create", "rename", "delete", "add", "remove"},
   shelf : Shelf, row : LibReq \cup {0},
   track : LibraryTracks \cup {0}, position : Nat]

-----------------------------------------------------------------------------

LEMMA LibReqNat == LibReq \subseteq Nat /\ 0 \notin LibReq
  BY LibraryAssumption DEF LibReq

\* (max_pos or -1) + 1 is 0 as long as every position is.
LEMMA PositionZero ==
  ASSUME RowInv, NEW s
  PROVE  NextPosition(s) = 0
  <1> DEFINE S == {r.position : r \in On(s)} \cup {-1}
  <1>1. \A x \in S : x \in Int /\ (x = 0 \/ x = -1) BY DEF RowInv, On
  <1>2. \E x \in S : \A y \in S : x >= y
    <2>1. CASE 0 \in S BY <1>1, <2>1
    <2>2. CASE 0 \notin S
      <3>1. -1 \in S OBVIOUS
      <3> QED BY <1>1, <2>2, <3>1
    <2> QED BY <2>1, <2>2
  <1> HIDE DEF S
  <1>3. Max(S) \in S BY <1>2 DEF Max
  <1>4. Max(S) = 0 \/ Max(S) = -1 BY <1>1, <1>3
  <1> QED BY <1>4 DEF NextPosition, S

\* The row that is found is a row.
LEMMA FoundIs ==
  ASSUME LibraryTypeOK, NEW s, NEW t
  PROVE  /\ Found(s, t) \in LibReq \cup {0}
         /\ Found(s, t) # 0 => \E q \in rows : q.id = Found(s, t) /\ q.shelf = s /\ q.track = t
         /\ Found(s, t) = 0 => \A q \in rows : ~(q.shelf = s /\ q.track = t)
  <1>1. CASE \E r \in On(s) : r.track = t
    <2> DEFINE f == CHOOSE r \in On(s) : r.track = t
    <2>1. f \in On(s) /\ f.track = t BY <1>1
    <2> HIDE DEF f
    <2>2. Found(s, t) = f.id BY <1>1 DEF Found, f
    <2>3. f \in rows /\ f.shelf = s BY <2>1 DEF On
    <2>4. f.id \in LibReq BY <2>3 DEF LibraryTypeOK, Row
    <2> QED BY <2>1, <2>2, <2>3, <2>4, LibReqNat
  <1>2. CASE ~ \E r \in On(s) : r.track = t
    BY <1>2 DEF Found, On
  <1> QED BY <1>1, <1>2

\* A question, field by field.
LEMMA QuestionIs ==
  ASSUME NEW pc, NEW op, NEW s
  PROVE  Question(pc, op, s)
           = [pc |-> pc, op |-> op, shelf |-> s, row |-> 0, track |-> 0, position |-> 0]
  <1> DEFINE n == NoQuestion
  <1>1. n = [pc |-> "new", op |-> "none", shelf |-> 0, row |-> 0, track |-> 0, position |-> 0]
    BY DEF NoQuestion, Favorites
  <1>2. Question(pc, op, s) = [n EXCEPT !.pc = pc, !.op = op, !.shelf = s] BY DEF Question
  <1> HIDE DEF n
  <1> QED BY <1>1, <1>2

LEMMA LibraryInitInv == LibraryInit => LibraryInv
  <1> SUFFICES ASSUME LibraryInit PROVE LibraryInv OBVIOUS
  <1>1. NoQuestion \in AskedState BY DEF NoQuestion, AskedState, Shelf, Favorites
  <1>2. LibraryTypeOK BY <1>1 DEF LibraryInit, LibraryTypeOK, AskedState
  <1> QED BY <1>2 DEF LibraryInit, LibraryInv, AddInv, RowInv, KeptInv, BackedInv, UniqueInv,
                      NoQuestion, Reading

-----------------------------------------------------------------------------
(* The shapes of the steps: a request asks, and then it is answered or     *)
(* refused.                                                                *)

\* A request that only asks leaves everything true.
LEMMA AsksKeeps ==
  ASSUME LibraryInv, NEW r \in LibReq, NEW q \in AskedState, Asks(r, q),
         q.pc = "read" /\ q.op = "add" =>
           q.row = r /\ q.position = 0 /\ q.track \in LibraryTracks,
         q.pc = "answered" /\ q.op = "add" => \E p \in rows : p.id = q.row,
         q.pc = "answered" => q.op \in {"add", "rename"}
  PROVE  LibraryInv'
  <1> USE DEF LibraryInv
  <1>1. /\ asked[r].pc = "new" /\ asked'[r] = q
        /\ asked' \in [LibReq -> AskedState]
        /\ \A d \in LibReq : d # r => asked'[d] = asked[d]
        /\ rows' = rows /\ playlists' = playlists
    BY DEF Asks, LibraryTypeOK, AskedState
  <1>2. LibraryTypeOK' BY <1>1 DEF LibraryTypeOK, AskedState
  <1>3. AddInv' BY <1>1 DEF AddInv, Reading
  <1>4. \A p \in rows : p.id \in LibReq /\ p.id # r
    BY <1>1 DEF RowInv, LibraryTypeOK, Row
  <1>5. RowInv' BY <1>1, <1>4 DEF RowInv
  <1>6. KeptInv'
    <2> SUFFICES ASSUME NEW c \in LibReq, asked'[c].op = "add", asked'[c].pc = "answered"
                 PROVE  /\ asked'[c].row \in LibReq /\ asked'[asked'[c].row].pc = "answered"
                        /\ \/ \E p \in rows : p.id = asked'[c].row
                           \/ \E d \in LibReq : TookAway(d, asked[c].row)'
      BY <1>1 DEF KeptInv, TookAway
    <2>1. CASE c = r BY <1>1, <1>4, <2>1 DEF RowInv
    <2>2. CASE c # r
      <3>1. /\ asked[c].row \in LibReq /\ asked[asked[c].row].pc = "answered"
            /\ \/ \E p \in rows : p.id = asked[c].row
               \/ \E d \in LibReq : TookAway(d, asked[c].row)
        BY <1>1, <2>2 DEF KeptInv
      <3>2. ASSUME NEW d \in LibReq, TookAway(d, asked[c].row)
            PROVE  TookAway(d, asked[c].row)'
        BY <1>1, <2>2, <3>1, <3>2 DEF TookAway
      <3> QED BY <1>1, <2>2, <3>1, <3>2
    <2> QED BY <2>1, <2>2
  <1>7. BackedInv' /\ UniqueInv' BY <1>1 DEF BackedInv, UniqueInv
  <1> QED BY <1>2, <1>3, <1>5, <1>6, <1>7

\* What every request that has read and ends does to the requests.
LEMMA EndShape ==
  ASSUME LibraryInv, NEW r \in LibReq, NEW end \in {"answered", "refused"},
         asked[r].pc = "read", asked' = [asked EXCEPT ![r].pc = end]
  PROVE  /\ asked' \in [LibReq -> AskedState]
         /\ asked'[r] = [asked[r] EXCEPT !.pc = end]
         /\ asked'[r].pc = end /\ asked'[r].op = asked[r].op /\ asked'[r].row = asked[r].row
         /\ asked'[r].shelf = asked[r].shelf
         /\ \A d \in LibReq : d # r => asked'[d] = asked[d]
         /\ AddInv' /\ (rows' \subseteq rows => RowInv')
         /\ \A d, p \in LibReq : asked[p].pc = "answered" /\ TookAway(d, p) => TookAway(d, p)'
  <1> USE DEF LibraryInv
  <1>1. /\ asked' \in [LibReq -> AskedState]
        /\ asked'[r] = [asked[r] EXCEPT !.pc = end]
        /\ \A d \in LibReq : d # r => asked'[d] = asked[d]
        /\ asked'[r].pc = end /\ asked'[r].op = asked[r].op /\ asked'[r].row = asked[r].row
        /\ asked'[r].shelf = asked[r].shelf
    BY DEF LibraryTypeOK, AskedState
  <1>2. AddInv' BY <1>1 DEF AddInv, Reading
  <1>3. rows' \subseteq rows => RowInv' BY <1>1 DEF RowInv, LibraryTypeOK, Row
  <1>4. \A d, p \in LibReq : asked[p].pc = "answered" /\ TookAway(d, p) => TookAway(d, p)'
    BY <1>1 DEF TookAway
  <1> QED BY <1>1, <1>2, <1>3, <1>4

\* What was kept is kept, unless the step takes its row away and says so.
LEMMA KeptStays ==
  ASSUME LibraryInv, NEW r \in LibReq, NEW end \in {"answered", "refused"},
         asked[r].pc = "read", asked' = [asked EXCEPT ![r].pc = end],
         \A q \in rows : q \in rows' \/ TookAway(r, q.id)',
         end = "answered" /\ asked[r].op = "add" => \E q \in rows' : q.id = r
  PROVE  KeptInv'
  <1> USE DEF LibraryInv
  <1>1. /\ asked'[r].pc = end /\ asked'[r].op = asked[r].op /\ asked'[r].row = asked[r].row
        /\ \A d \in LibReq : d # r => asked'[d] = asked[d]
        /\ \A d, p \in LibReq : asked[p].pc = "answered" /\ TookAway(d, p) => TookAway(d, p)'
    BY EndShape
  <1> SUFFICES ASSUME NEW c \in LibReq, asked'[c].op = "add", asked'[c].pc = "answered"
               PROVE  /\ asked'[c].row \in LibReq /\ asked'[asked'[c].row].pc = "answered"
                      /\ \/ \E p \in rows' : p.id = asked'[c].row
                         \/ \E d \in LibReq : TookAway(d, asked[c].row)'
    BY DEF KeptInv, TookAway
  <1>2. CASE c = r
    <2>1. asked[r].row = r BY <1>1, <1>2 DEF AddInv, Reading
    <2> QED BY <1>1, <1>2, <2>1
  <1>3. CASE c # r
    <2>1. /\ asked'[c] = asked[c]
          /\ asked[c].row \in LibReq /\ asked[asked[c].row].pc = "answered"
          /\ \/ \E p \in rows : p.id = asked[c].row
             \/ \E d \in LibReq : TookAway(d, asked[c].row)
      BY <1>1, <1>3 DEF KeptInv
    <2>2. asked'[asked[c].row].pc = "answered" BY <1>1, <2>1
    <2>3. CASE \E p \in rows : p.id = asked[c].row BY <2>1, <2>2, <2>3
    <2>4. CASE \E d \in LibReq : TookAway(d, asked[c].row) BY <1>1, <2>1, <2>2, <2>4
    <2> QED BY <2>1, <2>3, <2>4
  <1> QED BY <1>2, <1>3

-----------------------------------------------------------------------------
(* Preservation, action by action.                                         *)

\* Playlists: the requests that only read.
LEMMA PlaylistAsksKeep ==
  ASSUME LibraryInv, NEW r \in LibReq, CreatePlaylist(r) \/ RenamePlaylist(r) \/ DeletePlaylist(r)
  PROVE  LibraryInv'
  <1>1. ASSUME NEW pc \in {"read", "answered", "refused"}, NEW op \in {"create", "rename", "delete"},
               NEW s \in Shelf
        PROVE  /\ Question(pc, op, s) \in AskedState
               /\ Question(pc, op, s).pc = pc /\ Question(pc, op, s).op = op
    <2> DEFINE a == Question(pc, op, s)
    <2>1. a = [pc |-> pc, op |-> op, shelf |-> s, row |-> 0, track |-> 0, position |-> 0]
      BY QuestionIs
    <2> HIDE DEF a
    <2>2. a \in AskedState /\ a.pc = pc /\ a.op = op BY <2>1 DEF AskedState
    <2> QED BY <2>2 DEF a
  <1>2. playlists \subseteq Shelf /\ r \in Shelf BY DEF LibraryInv, LibraryTypeOK, Shelf
  <1>3. CASE CreatePlaylist(r) BY <1>1, <1>2, <1>3, AsksKeeps DEF CreatePlaylist
  <1>4. CASE RenamePlaylist(r)
    <2>1. PICK p \in playlists, pc \in {"answered", "refused"} : Asks(r, Question(pc, "rename", p))
      BY <1>4 DEF RenamePlaylist
    <2> QED BY <1>1, <1>2, <2>1, AsksKeeps
  <1>5. CASE DeletePlaylist(r) BY <1>1, <1>2, <1>5, AsksKeeps DEF DeletePlaylist
  <1> QED BY <1>3, <1>4, <1>5

\* An addition has read that the track is not there, or which row has it.
LEMMA AddKeeps ==
  ASSUME LibraryInv, NEW r \in LibReq, NEW s \in playlists \cup {Favorites},
         NEW t \in LibraryTracks, Add(r, s, t)
  PROVE  LibraryInv'
  <1> DEFINE q == [Question("read", "add", s) EXCEPT !.track = t, !.row = r]
  <1>1. s \in Shelf BY DEF LibraryInv, LibraryTypeOK, Shelf
  <1>2. q = [pc |-> "read", op |-> "add", shelf |-> s, row |-> r, track |-> t, position |-> 0]
    <2> DEFINE n == Question("read", "add", s)
    <2>1. n = [pc |-> "read", op |-> "add", shelf |-> s, row |-> 0, track |-> 0, position |-> 0]
      BY QuestionIs
    <2>2. q = [n EXCEPT !.track = t, !.row = r] OBVIOUS
    <2> HIDE DEF n, q
    <2> QED BY <2>1, <2>2
  <1> HIDE DEF q
  <1>3. CASE Found(s, t) = 0
    <2> DEFINE p == IF s = Favorites THEN 0 ELSE NextPosition(s)
    <2>1. p = 0 BY PositionZero DEF LibraryInv
    <2>2. Asks(r, [q EXCEPT !.position = p]) BY <1>3 DEF Add, q
    <2> HIDE DEF p
    <2>3. [q EXCEPT !.position = p]
            = [pc |-> "read", op |-> "add", shelf |-> s, row |-> r, track |-> t, position |-> 0]
      BY <1>2, <2>1
    <2> QED BY <1>1, <2>2, <2>3, AsksKeeps DEF AskedState
  <1>4. CASE Found(s, t) # 0
    <2> DEFINE pc == IF s = Favorites THEN "answered" ELSE "refused"
               f == Found(s, t)
    <2>1. Asks(r, [q EXCEPT !.pc = pc, !.row = f]) BY <1>4 DEF Add, q
    <2>2. f \in LibReq \cup {0} /\ \E p \in rows : p.id = f BY <1>4, FoundIs DEF LibraryInv
    <2>3. pc \in {"answered", "refused"} OBVIOUS
    <2> HIDE DEF pc, f
    <2>4. PICK x : x = [q EXCEPT !.pc = pc, !.row = f] OBVIOUS
    <2>7. x = [pc |-> pc, op |-> "add", shelf |-> s, row |-> f, track |-> t, position |-> 0]
      BY <1>2, <2>4
    <2> DEFINE a == [pc |-> pc, op |-> "add", shelf |-> s, row |-> f, track |-> t, position |-> 0]
    <2>5. a \in AskedState /\ a.pc = pc /\ a.op = "add" /\ a.row = f
      BY <1>1, <2>2, <2>3 DEF AskedState
    <2>6. Asks(r, a) BY <2>1, <2>4, <2>7
    <2> HIDE DEF a
    <2> QED BY <2>2, <2>3, <2>5, <2>6, AsksKeeps
  <1> QED BY <1>3, <1>4

\* A removal has read which row it removes.
LEMMA RemoveKeeps ==
  ASSUME LibraryInv, NEW r \in LibReq, NEW s \in playlists \cup {Favorites},
         NEW t \in LibraryTracks, Remove(r, s, t)
  PROVE  LibraryInv'
  <1> DEFINE f == Found(s, t)
             a == [pc |-> "read", op |-> "remove", shelf |-> s, row |-> f, track |-> t,
                   position |-> 0]
  <1>1. s \in Shelf BY DEF LibraryInv, LibraryTypeOK, Shelf
  <1>2. f \in LibReq \cup {0} BY FoundIs DEF LibraryInv
  <1>3. Asks(r, [Question("read", "remove", s) EXCEPT !.track = t, !.row = f]) BY DEF Remove
  <1> HIDE DEF f
  <1>4. [Question("read", "remove", s) EXCEPT !.track = t, !.row = f] = a
    <2> DEFINE n == Question("read", "remove", s)
    <2>1. n = [pc |-> "read", op |-> "remove", shelf |-> s, row |-> 0, track |-> 0,
               position |-> 0]
      BY QuestionIs
    <2> HIDE DEF n
    <2>2. PICK x : x = [n EXCEPT !.track = t, !.row = f] OBVIOUS
    <2>3. x = a BY <2>1, <2>2
    <2> QED BY <2>2, <2>3 DEF n
  <1>5. a \in AskedState /\ a.pc = "read" /\ a.op = "remove" BY <1>1, <1>2 DEF AskedState
  <1> HIDE DEF a
  <1> QED BY <1>3, <1>4, <1>5, AsksKeeps

\* The playlist is there.
LEMMA CommitCreateKeeps ==
  ASSUME LibraryInv, NEW r \in LibReq, CommitCreatePlaylist(r)
  PROVE  LibraryInv'
  <1> USE DEF LibraryInv
  <1>1. /\ asked[r].pc = "read" /\ asked[r].op = "create"
        /\ playlists' = playlists \cup {r} /\ rows' = rows
        /\ asked' = [asked EXCEPT ![r].pc = "answered"]
    BY DEF CommitCreatePlaylist, Reading, Answers
  <1>2. asked' \in [LibReq -> AskedState] /\ AddInv' /\ RowInv' BY <1>1, EndShape
  <1>3. LibraryTypeOK' BY <1>1, <1>2 DEF LibraryTypeOK, AskedState
  <1>4. KeptInv' BY <1>1, KeptStays
  <1> QED BY <1>1, <1>2, <1>3, <1>4 DEF BackedInv, UniqueInv

\* The rows go with the playlist.
LEMMA CommitDeleteKeeps ==
  ASSUME LibraryInv, NEW r \in LibReq, CommitDeletePlaylist(r)
  PROVE  LibraryInv'
  <1> USE DEF LibraryInv
  <1>1. /\ asked[r].pc = "read" /\ asked[r].op = "delete"
        /\ playlists' = playlists \ {asked[r].shelf}
        /\ rows' = {q \in rows : q.shelf # asked[r].shelf}
        /\ asked' = [asked EXCEPT ![r].pc = "answered"]
    BY DEF CommitDeletePlaylist, Reading, Answers, On
  <1>2. /\ asked' \in [LibReq -> AskedState] /\ AddInv' /\ RowInv'
        /\ asked'[r].pc = "answered" /\ asked'[r].op = "delete"
        /\ asked'[r].shelf = asked[r].shelf
        /\ \A d \in LibReq : d # r => asked'[d] = asked[d]
    BY <1>1, EndShape
  <1>3. LibraryTypeOK' BY <1>1, <1>2 DEF LibraryTypeOK, AskedState
  <1>4. ASSUME NEW q \in rows, q \notin rows' PROVE TookAway(r, q.id)'
    <2>1. q.id \in LibReq BY DEF LibraryTypeOK, Row
    <2>2. q.shelf = asked[r].shelf /\ asked[q.id].shelf = q.shelf /\ q.id # r
      BY <1>1, <1>4 DEF RowInv
    <2> QED BY <1>2, <2>1, <2>2 DEF TookAway
  <1>5. \A q \in rows : q \in rows' \/ TookAway(r, q.id)' BY <1>4
  <1>6. KeptInv'
    <2> HIDE DEF LibraryInv
    <2> QED BY <1>1, <1>5, KeptStays
  <1>7. BackedInv' /\ UniqueInv' BY <1>1 DEF BackedInv, UniqueInv
  <1> QED BY <1>2, <1>3, <1>6, <1>7

\* The constraints hold for the row that is inserted.
LEMMA CommitAddKeeps ==
  ASSUME LibraryInv, NEW r \in LibReq, CommitAdd(r)
  PROVE  LibraryInv'
  <1> USE DEF LibraryInv
  <1> DEFINE new == [id |-> r, shelf |-> asked[r].shelf, track |-> asked[r].track,
                     position |-> asked[r].position]
  <1>1. /\ asked[r].pc = "read" /\ asked[r].op = "add"
        /\ asked[r].shelf \in playlists \cup {Favorites}
        /\ Found(asked[r].shelf, asked[r].track) = 0
        /\ playlists' = playlists /\ rows' = rows \cup {new}
        /\ asked' = [asked EXCEPT ![r].pc = "answered"]
    BY DEF CommitAdd, Reading, Answers
  <1>2. /\ asked' \in [LibReq -> AskedState] /\ AddInv'
        /\ asked'[r].pc = "answered" /\ asked'[r].op = "add"
        /\ asked'[r].shelf = asked[r].shelf
        /\ \A d \in LibReq : d # r => asked'[d] = asked[d]
    BY <1>1, EndShape
  <1>3. asked[r].position = 0 /\ asked[r].shelf \in Shelf
    BY <1>1 DEF AddInv, Reading, LibraryTypeOK
  <1>4. \A q \in rows : ~(q.shelf = new.shelf /\ q.track = new.track) BY <1>1, FoundIs
  <1>5. LibraryTypeOK'
    <2>1. asked[r].track \in LibraryTracks BY <1>1 DEF AddInv, Reading
    <2>2. new \in Row /\ new.position = 0 BY <1>3, <2>1 DEF Row
    <2> QED BY <1>1, <1>2, <2>2 DEF LibraryTypeOK, AskedState
  <1>6. RowInv'
    <2>1. \A q \in rows : q.id \in LibReq /\ q.id # r
      BY <1>1 DEF RowInv, LibraryTypeOK, Row
    <2>2. new.id = r /\ new.position = 0 /\ new.shelf = asked[r].shelf BY <1>3
    <2>3. \A q \in rows : asked'[q.id] = asked[q.id] BY <1>2, <2>1
    <2>4. \A q \in rows' : q \in rows \/ q = new BY <1>1
    <2> HIDE DEF new
    <2> QED BY <1>2, <2>2, <2>3, <2>4 DEF RowInv
  <1>7. KeptInv'
    <2>1. new \in rows' /\ new.id = r /\ \A q \in rows : q \in rows' BY <1>1
    <2> HIDE DEF LibraryInv, new
    <2> QED BY <1>1, <2>1, KeptStays
  <1>8. BackedInv' /\ UniqueInv' BY <1>1, <1>4 DEF BackedInv, UniqueInv
  <1> QED BY <1>2, <1>5, <1>6, <1>7, <1>8

\* The row is gone, and the removal says which.
LEMMA CommitRemoveKeeps ==
  ASSUME LibraryInv, NEW r \in LibReq, CommitRemove(r)
  PROVE  LibraryInv'
  <1> USE DEF LibraryInv
  <1>1. /\ asked[r].pc = "read" /\ asked[r].op = "remove"
        /\ playlists' = playlists
        /\ rows' = {q \in rows : q.id # asked[r].row}
        /\ asked' = [asked EXCEPT ![r].pc = "answered"]
    BY DEF CommitRemove, Reading, Answers
  <1>2. /\ asked' \in [LibReq -> AskedState] /\ AddInv' /\ RowInv'
        /\ asked'[r].pc = "answered" /\ asked'[r].op = "remove"
        /\ asked'[r].row = asked[r].row
    BY <1>1, EndShape
  <1>3. LibraryTypeOK' BY <1>1, <1>2 DEF LibraryTypeOK, AskedState
  <1>4. ASSUME NEW q \in rows, q \notin rows' PROVE TookAway(r, q.id)'
    BY <1>1, <1>2, <1>4 DEF TookAway
  <1>5. KeptInv' BY <1>1, <1>4, KeptStays
  <1>6. BackedInv' /\ UniqueInv' BY <1>1 DEF BackedInv, UniqueInv
  <1> QED BY <1>2, <1>3, <1>5, <1>6

\* Nothing was written.
LEMMA RefuseKeeps ==
  ASSUME LibraryInv, NEW r \in LibReq, RefuseRequest(r)
  PROVE  LibraryInv'
  <1> USE DEF LibraryInv
  <1>1. /\ asked[r].pc = "read" /\ playlists' = playlists /\ rows' = rows
        /\ asked' = [asked EXCEPT ![r].pc = "refused"]
    BY DEF RefuseRequest
  <1>2. asked' \in [LibReq -> AskedState] /\ AddInv' /\ RowInv' BY <1>1, EndShape
  <1>3. LibraryTypeOK' BY <1>1, <1>2 DEF LibraryTypeOK, AskedState
  <1>4. KeptInv' BY <1>1, KeptStays
  <1> QED BY <1>1, <1>2, <1>3, <1>4 DEF BackedInv, UniqueInv

LEMMA LibraryNextKeeps == LibraryInv /\ [LibraryNext]_libraryVars => LibraryInv'
  <1> SUFFICES ASSUME LibraryInv, [LibraryNext]_libraryVars PROVE LibraryInv' OBVIOUS
  <1>1. CASE UNCHANGED libraryVars
    BY <1>1 DEF LibraryInv, LibraryTypeOK, AddInv, RowInv, KeptInv, BackedInv, UniqueInv,
                TookAway, Reading, libraryVars
  <1>2. CASE LibraryNext
    <2>1. PICK r \in LibReq :
            \/ CreatePlaylist(r) \/ RenamePlaylist(r) \/ DeletePlaylist(r)
            \/ \E s \in playlists \cup {Favorites}, t \in LibraryTracks :
                 Add(r, s, t) \/ Remove(r, s, t)
            \/ CommitCreatePlaylist(r) \/ CommitDeletePlaylist(r) \/ CommitAdd(r)
            \/ CommitRemove(r) \/ RefuseRequest(r)
      BY <1>2 DEF LibraryNext
    <2> QED BY <2>1, PlaylistAsksKeep, AddKeeps, RemoveKeeps, CommitCreateKeeps,
               CommitDeleteKeeps, CommitAddKeeps, CommitRemoveKeeps, RefuseKeeps
  <1> QED BY <1>1, <1>2

\* The library is well typed, and every track of a playlist is in position 0,
\* for any number of requests and tracks (add_track, 93).
THEOREM LibraryTypeCorrect == LibrarySpec => []LibraryTypeOK
  <1>1. LibraryInv => LibraryTypeOK BY DEF LibraryInv
  <1> QED BY LibraryInitInv, LibraryNextKeeps, <1>1, PTL DEF LibrarySpec

\* What was added stays until it is removed or its playlist deleted, once, and
\* on a playlist that exists (add_track, delete, FavoriteService.add).
THEOREM LibraryKeeps == LibrarySpec => []KeptOnceUntilRemoved
  <1>1. LibraryInv => KeptOnceUntilRemoved
    BY DEF LibraryInv, KeptOnceUntilRemoved, KeptInv, BackedInv, UniqueInv
  <1> QED BY LibraryInitInv, LibraryNextKeeps, <1>1, PTL DEF LibrarySpec

-----------------------------------------------------------------------------
(* Ranges: parse_bytes_range and what is sent for it.                      *)

LEMMA LesserIs == ASSUME NEW a \in Int, NEW b \in Int
                  PROVE  /\ Lesser(a, b) \in Int /\ Lesser(a, b) <= a /\ Lesser(a, b) <= b
                         /\ Lesser(a, b) = a \/ Lesser(a, b) = b
  BY DEF Lesser

\* What Clamped leaves of start..end is its part inside the body, and nothing
\* is left exactly when that part is empty.
LEMMA ClampedIs ==
  ASSUME NEW start \in Int, NEW end \in Int, NEW total \in Nat \ {0}, start >= 0
  PROVE  LET r == Clamped(start, end, total)
             inside == {i \in 0..(total - 1) : i >= start /\ i <= end}
         IN  /\ (r = NoRange) = (inside = {})
             /\ r # NoRange => r \in ByteRange /\ Bytes(r) = inside /\ r.total = total
  <1> DEFINE r == Clamped(start, end, total)
             inside == {i \in 0..(total - 1) : i >= start /\ i <= end}
  <1>1. CASE end < start \/ start >= total
    <2>1. r = NoRange BY <1>1 DEF Clamped
    <2>2. inside = {} BY <1>1
    <2> QED BY <2>1, <2>2
  <1>2. CASE ~(end < start \/ start >= total)
    <2>1. r = [start |-> start, end |-> Lesser(end, total - 1), total |-> total]
      BY <1>2 DEF Clamped
    <2>2. /\ Lesser(end, total - 1) \in Int /\ Lesser(end, total - 1) >= start
          /\ \A i \in Int : i <= Lesser(end, total - 1) <=> i <= end /\ i <= total - 1
      BY <1>2 DEF Lesser
    <2>3. r \in ByteRange /\ r.total = total BY <2>1, <2>2 DEF ByteRange
    <2>4. Bytes(r) = inside BY <2>1, <2>2 DEF Bytes
    <2>5. start \in inside BY <1>2
    <2>6. r # NoRange BY <2>3 DEF NoRange
    <2> QED BY <2>3, <2>4, <2>5, <2>6
  <1> QED BY <1>1, <1>2

\* For every header and every size of the body: the range that is parsed is
\* the one the header asks for (parse_bytes_range).
THEOREM RangeExact ==
  ASSUME NEW h \in Header, NEW total \in Nat
  PROVE  ParsedAsAsked(h, total)
  <1> /\ h.kind \in {"missing", "unusable", "suffix", "open", "closed"}
      /\ h.first \in Nat
      /\ h.last \in Int
    BY DEF Header
  <1>1. CASE total = 0 \/ h.kind \in {"missing", "unusable"}
    <2>1. parse_bytes_range(h, total) = NoRange BY <1>1 DEF parse_bytes_range
    <2>2. Asked(h, total) = {} BY <1>1 DEF Asked
    <2> QED BY <2>1, <2>2 DEF ParsedAsAsked
  <1>2. CASE total # 0 /\ h.kind = "suffix"
    <2>1. CASE h.last <= 0
      <3>1. parse_bytes_range(h, total) = NoRange BY <1>2, <2>1 DEF parse_bytes_range
      <3>2. Asked(h, total) = {} BY <1>2, <2>1 DEF Asked
      <3> QED BY <3>1, <3>2 DEF ParsedAsAsked
    <2>2. CASE h.last > 0
      <3> DEFINE start == IF total - h.last < 0 THEN 0 ELSE total - h.last
      <3>1. start \in Nat /\ total - 1 \in Int BY <2>2
      <3>2. parse_bytes_range(h, total) = Clamped(start, total - 1, total)
        BY <1>2, <2>2 DEF parse_bytes_range
      <3>3. Asked(h, total) = {i \in 0..(total - 1) : i >= start /\ i <= total - 1}
        BY <1>2, <2>2 DEF Asked
      <3> HIDE DEF start
      <3> QED BY <1>2, <3>1, <3>2, <3>3, ClampedIs DEF ParsedAsAsked
    <2> QED BY <2>1, <2>2
  <1>3. CASE total # 0 /\ h.kind \in {"open", "closed"}
    <2> DEFINE end == IF h.kind = "open" THEN total - 1 ELSE h.last
    <2>1. end \in Int OBVIOUS
    <2>2. parse_bytes_range(h, total) = Clamped(h.first, end, total)
      BY <1>3 DEF parse_bytes_range
    <2>3. Asked(h, total) = {i \in 0..(total - 1) : i >= h.first /\ i <= end}
      BY <1>3 DEF Asked
    <2> HIDE DEF end
    <2> QED BY <1>3, <2>1, <2>2, <2>3, ClampedIs DEF ParsedAsAsked
  <1> QED BY <1>1, <1>2, <1>3

\* For every header and every size: what is sent is what was asked for, as
\* many bytes as announced, in one piece (music_content_stream).
THEOREM AnswerExact ==
  ASSUME NEW h \in Header, NEW total \in Nat
  PROVE  AnsweredAsAsked(h, total)
  <1> DEFINE br == parse_bytes_range(h, total)
             a == Answer(h, total)
  <1>1. /\ (br = NoRange) = (Asked(h, total) = {})
        /\ br # NoRange => br \in ByteRange /\ Bytes(br) = Asked(h, total) /\ br.total = total
    BY RangeExact DEF ParsedAsAsked
  <1>2. CASE br = NoRange
    <2>1. \/ a = [status |-> 416, body |-> {}, length |-> 0]
          \/ a = [status |-> 200, body |-> 0..(total - 1), length |-> total]
      BY <1>2 DEF Answer
    <2> QED BY <1>1, <1>2, <2>1 DEF AnsweredAsAsked
  <1>3. CASE br # NoRange
    <2>1. a = [status |-> 206, body |-> get_range(br.start, br.end, total),
               length |-> RangeLength(br)]
      BY <1>3 DEF Answer
    <2>2. br.start \in Nat /\ br.end \in Nat /\ Bytes(br) = br.start..br.end
      BY <1>1, <1>3 DEF ByteRange, Bytes
    <2>3. PICK i \in br.start..br.end : i \in 0..(total - 1)
      BY <1>1, <1>3, <2>2 DEF Asked
    <2>4. br.start \in 0..(total - 1) /\ br.end \in 0..(total - 1) /\ br.start <= br.end
      <3>1. br.start \in Bytes(br) /\ br.end \in Bytes(br) BY <2>2, <2>3
      <3>2. Bytes(br) \subseteq 0..(total - 1) BY <1>1, <1>3 DEF Asked
      <3> QED BY <2>2, <2>3, <3>1, <3>2
    <2>5. get_range(br.start, br.end, total) = br.start..br.end
      BY <2>4 DEF get_range, Lesser
    <2>6. a.status = 206 /\ a.body = br.start..br.end /\ a.length = br.end - br.start + 1
      BY <2>1, <2>5 DEF RangeLength
    <2>7. a.length > 0 /\ a.body = br.start..(br.start + a.length - 1)
      BY <2>4, <2>6
    <2> QED BY <1>1, <1>3, <2>2, <2>4, <2>6, <2>7 DEF AnsweredAsAsked
  <1> QED BY <1>2, <1>3

-----------------------------------------------------------------------------
(* Migrations.  The two invariants that the property needs tie where a run *)
(* is to the version the database has; the rest is what the files say.     *)

\* The containers come up to the head only.
GoalInv == \A c \in Containers : runner[c].goal = "head"

\* A run that found the head, and a container that has come to it, has the head
\* before it unless somebody has downgraded since.
HeadInv ==
  /\ \A r \in Runner : runner[r].pc = "migrating" /\ runner[r].saw = HeadVersion =>
       database.version = HeadVersion \/ runner[r].lowered
  /\ \A c \in Containers : runner[c].pc \in {"migrated", "serving"} =>
       database.version = HeadVersion \/ runner[c].lowered

\* The repository as it is comes no further than alembic's start, and one that
\* creates enum types twice no further than the revision that does.
BlockedInv ==
  /\ image = "deployed" => \A r \in Runner : runner[r].pc \in {"off", "started"}
  /\ strict => /\ database.version < 4
               /\ \A r \in Runner : runner[r].work.version < 4
               /\ \A r \in Containers : runner[r].pc \notin {"migrated", "serving"}

MigrationsInv == MigrationsTypeOK /\ GoalInv /\ HeadInv /\ BlockedInv

-----------------------------------------------------------------------------
(* The files, one by one.                                                  *)

\* The tables that revision n creates, and the names of its drops.
Created(n) == {Revisions[n].tables[i] : i \in DOMAIN Revisions[n].tables}

DropsOf(R) == {R.drops[i] : i \in DOMAIN R.drops}

\* A list of tables made of two.
LEMMA EightTables ==
  ASSUME NEW a, NEW b, NEW c, NEW d, NEW e, NEW f, NEW g, NEW h
  PROVE  LET T == <<a, b, c, d>> \o <<e, f, g, h>>
         IN  /\ DOMAIN T = 1..8
             /\ T[1] = a /\ T[2] = b /\ T[3] = c /\ T[4] = d
             /\ T[5] = e /\ T[6] = f /\ T[7] = g /\ T[8] = h
  OBVIOUS

LEMMA Files1 ==
  /\ NamesOf(Revision001.tables) = {"users"}
  /\ DropsOf(Revision001) = NamesOf(Revision001.tables)
  /\ LabelledTypes(Revision001) = {"user_status"}
  /\ TypesUsed(Revision001.tables) = LabelledTypes(Revision001)
  /\ Revision001.dropsTypes = LabelledTypes(Revision001)
  /\ \A i, j \in DOMAIN Revision001.tables :
       Revision001.tables[i].name = Revision001.tables[j].name => i = j
  <1> DEFINE T == Revision001.tables
  <1>1. DOMAIN T = 1..1 BY DEF Revision001, Revision
  <1>2. T[1].name = "users" /\ T[1].types = {"user_status"}
    <2>1. T[1].name = "users" BY DEF Revision001, Revision, Table
    <2>2. T[1].types = {"user_status"} BY DEF Revision001, Revision, Table
    <2> QED BY <2>1, <2>2
  <1>3. DropsOf(Revision001) = {"users"} BY DEF Revision001, Revision, DropsOf
  <1>4. LabelledTypes(Revision001) = {"user_status"} BY DEF Revision001, Revision, LabelledTypes
  <1>5. Revision001.dropsTypes = {"user_status"} BY DEF Revision001, Revision
  <1> HIDE DEF T
  <1>6. NamesOf(T) = {"users"}
    BY <1>1, <1>2 DEF NamesOf
  <1>7. \A x : x \in TypesUsed(T) <=> \E i \in DOMAIN T : x \in T[i].types
    BY DEF TypesUsed
  <1>8. TypesUsed(T) = {"user_status"}
    BY <1>7, <1>1, <1>2
  <1>9. \A i, j \in DOMAIN T : T[i].name = T[j].name => i = j
    BY <1>1, <1>2
  <1> QED BY <1>3, <1>4, <1>5, <1>6, <1>8, <1>9 DEF T

LEMMA Files2 ==
  /\ NamesOf(Revision002.tables) = {"roles", "permissions", "role_permissions", "user_roles",
                                    "devices", "sessions"}
  /\ DropsOf(Revision002) = NamesOf(Revision002.tables)
  /\ LabelledTypes(Revision002) = {"device_status", "session_status"}
  /\ TypesUsed(Revision002.tables) = LabelledTypes(Revision002)
  /\ Revision002.dropsTypes = LabelledTypes(Revision002)
  /\ \A i, j \in DOMAIN Revision002.tables :
       Revision002.tables[i].name = Revision002.tables[j].name => i = j
  <1> DEFINE T == Revision002.tables
  <1>1. DOMAIN T = 1..6 BY DEF Revision002, Revision
  <1>2. T[1].name = "roles" /\ T[1].types = {}
    <2>1. T[1].name = "roles" BY DEF Revision002, Revision, Table
    <2>2. T[1].types = {} BY DEF Revision002, Revision, Table
    <2> QED BY <2>1, <2>2
  <1>3. T[2].name = "permissions" /\ T[2].types = {}
    <2>1. T[2].name = "permissions" BY DEF Revision002, Revision, Table
    <2>2. T[2].types = {} BY DEF Revision002, Revision, Table
    <2> QED BY <2>1, <2>2
  <1>4. T[3].name = "role_permissions" /\ T[3].types = {}
    <2>1. T[3].name = "role_permissions" BY DEF Revision002, Revision, Table
    <2>2. T[3].types = {} BY DEF Revision002, Revision, Table
    <2> QED BY <2>1, <2>2
  <1>5. T[4].name = "user_roles" /\ T[4].types = {}
    <2>1. T[4].name = "user_roles" BY DEF Revision002, Revision, Table
    <2>2. T[4].types = {} BY DEF Revision002, Revision, Table
    <2> QED BY <2>1, <2>2
  <1>6. T[5].name = "devices" /\ T[5].types = {"device_status"}
    <2>1. T[5].name = "devices" BY DEF Revision002, Revision, Table
    <2>2. T[5].types = {"device_status"} BY DEF Revision002, Revision, Table
    <2> QED BY <2>1, <2>2
  <1>7. T[6].name = "sessions" /\ T[6].types = {"session_status"}
    <2>1. T[6].name = "sessions" BY DEF Revision002, Revision, Table
    <2>2. T[6].types = {"session_status"} BY DEF Revision002, Revision, Table
    <2> QED BY <2>1, <2>2
  <1>8. DropsOf(Revision002) = {"roles", "permissions", "role_permissions", "user_roles",
                                "devices", "sessions"} BY DEF Revision002, Revision, DropsOf
  <1>9. LabelledTypes(Revision002) = {"device_status", "session_status"}
    BY DEF Revision002, Revision, LabelledTypes
  <1>10. Revision002.dropsTypes = {"device_status", "session_status"} BY DEF Revision002, Revision
  <1> HIDE DEF T
  <1>11. NamesOf(T) = {"roles", "permissions", "role_permissions", "user_roles", "devices",
                       "sessions"}
    BY <1>1, <1>2, <1>3, <1>4, <1>5, <1>6, <1>7 DEF NamesOf
  <1>12. \A x : x \in TypesUsed(T) <=> \E i \in DOMAIN T : x \in T[i].types
    BY DEF TypesUsed
  <1>13. TypesUsed(T) = {"device_status", "session_status"}
    BY <1>12, <1>1, <1>2, <1>3, <1>4, <1>5, <1>6, <1>7
  <1>14. \A i, j \in DOMAIN T : T[i].name = T[j].name => i = j
    BY <1>1, <1>2, <1>3, <1>4, <1>5, <1>6, <1>7
  <1> QED BY <1>8, <1>9, <1>10, <1>11, <1>13, <1>14 DEF T

LEMMA Files3 ==
  /\ NamesOf(Revision003.tables) = {"jobs"}
  /\ DropsOf(Revision003) = NamesOf(Revision003.tables)
  /\ LabelledTypes(Revision003) = {"job_type", "job_status"}
  /\ TypesUsed(Revision003.tables) = LabelledTypes(Revision003)
  /\ Revision003.dropsTypes = LabelledTypes(Revision003)
  /\ \A i, j \in DOMAIN Revision003.tables :
       Revision003.tables[i].name = Revision003.tables[j].name => i = j
  <1> DEFINE T == Revision003.tables
  <1>1. DOMAIN T = 1..1 BY DEF Revision003, Revision
  <1>2. T[1].name = "jobs" /\ T[1].types = {"job_type", "job_status"}
    <2>1. T[1].name = "jobs" BY DEF Revision003, Revision, Table
    <2>2. T[1].types = {"job_type", "job_status"} BY DEF Revision003, Revision, Table
    <2> QED BY <2>1, <2>2
  <1>3. DropsOf(Revision003) = {"jobs"} BY DEF Revision003, Revision, DropsOf
  <1>4. LabelledTypes(Revision003) = {"job_type", "job_status"}
    BY DEF Revision003, Revision, LabelledTypes
  <1>5. Revision003.dropsTypes = {"job_type", "job_status"} BY DEF Revision003, Revision
  <1> HIDE DEF T
  <1>6. NamesOf(T) = {"jobs"}
    BY <1>1, <1>2 DEF NamesOf
  <1>7. \A x : x \in TypesUsed(T) <=> \E i \in DOMAIN T : x \in T[i].types
    BY DEF TypesUsed
  <1>8. TypesUsed(T) = {"job_type", "job_status"}
    BY <1>7, <1>1, <1>2
  <1>9. \A i, j \in DOMAIN T : T[i].name = T[j].name => i = j
    BY <1>1, <1>2
  <1> QED BY <1>3, <1>4, <1>5, <1>6, <1>8, <1>9 DEF T

LEMMA Files4 ==
  /\ NamesOf(Revision004.tables) = {"artists", "releases", "tracks", "track_artists",
                                    "providers", "provider_tracks", "audio_assets",
                                    "cache_entries"}
  /\ DropsOf(Revision004) = NamesOf(Revision004.tables)
  /\ LabelledTypes(Revision004) = {"release_type", "track_status", "audio_quality",
                                   "quality_confidence", "source_type", "cache_entry_status"}
  /\ TypesUsed(Revision004.tables) = LabelledTypes(Revision004)
  /\ Revision004.dropsTypes = LabelledTypes(Revision004)
  /\ \A i, j \in DOMAIN Revision004.tables :
       Revision004.tables[i].name = Revision004.tables[j].name => i = j
  <1> DEFINE T == Revision004.tables
  <1>a. /\ MusicTables = <<MusicTables[1], MusicTables[2], MusicTables[3], MusicTables[4]>>
        /\ AudioTables = <<AudioTables[1], AudioTables[2], AudioTables[3], AudioTables[4]>>
    BY DEF MusicTables, AudioTables
  <1>b. T = MusicTables \o AudioTables BY DEF Revision004, Revision
  <1>c. T = <<MusicTables[1], MusicTables[2], MusicTables[3], MusicTables[4]>>
            \o <<AudioTables[1], AudioTables[2], AudioTables[3], AudioTables[4]>>
    BY <1>a, <1>b, Zenon
  <1> HIDE DEF T
  <1>1. /\ DOMAIN T = 1..8
        /\ T[1] = MusicTables[1] /\ T[2] = MusicTables[2] /\ T[3] = MusicTables[3]
        /\ T[4] = MusicTables[4] /\ T[5] = AudioTables[1] /\ T[6] = AudioTables[2]
        /\ T[7] = AudioTables[3] /\ T[8] = AudioTables[4]
    BY <1>c, EightTables
  <1>2. MusicTables[1].name = "artists" /\ MusicTables[1].types = {}
    <2>1. MusicTables[1].name = "artists" BY DEF MusicTables, Table
    <2>2. MusicTables[1].types = {} BY DEF MusicTables, Table
    <2> QED BY <2>1, <2>2
  <1>3. /\ MusicTables[2].name = "releases"
        /\ MusicTables[2].types = {"release_type", "track_status"}
    <2>1. MusicTables[2].name = "releases" BY DEF MusicTables, Table
    <2>2. MusicTables[2].types = {"release_type", "track_status"} BY DEF MusicTables, Table
    <2> QED BY <2>1, <2>2
  <1>4. MusicTables[3].name = "tracks" /\ MusicTables[3].types = {"track_status"}
    <2>1. MusicTables[3].name = "tracks" BY DEF MusicTables, Table
    <2>2. MusicTables[3].types = {"track_status"} BY DEF MusicTables, Table
    <2> QED BY <2>1, <2>2
  <1>5. MusicTables[4].name = "track_artists" /\ MusicTables[4].types = {}
    <2>1. MusicTables[4].name = "track_artists" BY DEF MusicTables, Table
    <2>2. MusicTables[4].types = {} BY DEF MusicTables, Table
    <2> QED BY <2>1, <2>2
  <1>6. AudioTables[1].name = "providers" /\ AudioTables[1].types = {}
    <2>1. AudioTables[1].name = "providers" BY DEF AudioTables, Table
    <2>2. AudioTables[1].types = {} BY DEF AudioTables, Table
    <2> QED BY <2>1, <2>2
  <1>7. AudioTables[2].name = "provider_tracks" /\ AudioTables[2].types = {}
    <2>1. AudioTables[2].name = "provider_tracks" BY DEF AudioTables, Table
    <2>2. AudioTables[2].types = {} BY DEF AudioTables, Table
    <2> QED BY <2>1, <2>2
  <1>8. /\ AudioTables[3].name = "audio_assets"
        /\ AudioTables[3].types = {"audio_quality", "quality_confidence", "source_type"}
    <2>1. AudioTables[3].name = "audio_assets" BY DEF AudioTables, Table
    <2>2. AudioTables[3].types = {"audio_quality", "quality_confidence", "source_type"}
      BY DEF AudioTables, Table
    <2> QED BY <2>1, <2>2
  <1>9. /\ AudioTables[4].name = "cache_entries"
        /\ AudioTables[4].types = {"audio_quality", "cache_entry_status"}
    <2>1. AudioTables[4].name = "cache_entries" BY DEF AudioTables, Table
    <2>2. AudioTables[4].types = {"audio_quality", "cache_entry_status"} BY DEF AudioTables, Table
    <2> QED BY <2>1, <2>2
  <1>10. DropsOf(Revision004) = {"artists", "releases", "tracks", "track_artists", "providers",
                                 "provider_tracks", "audio_assets", "cache_entries"}
    BY DEF Revision004, Revision, DropsOf
  <1>11. LabelledTypes(Revision004) = {"release_type", "track_status", "audio_quality",
                                       "quality_confidence", "source_type",
                                       "cache_entry_status"}
    BY DEF Revision004, Revision, LabelledTypes
  <1>12. Revision004.dropsTypes = {"release_type", "track_status", "audio_quality",
                                   "quality_confidence", "source_type", "cache_entry_status"}
    BY DEF Revision004, Revision
  <1> HIDE DEF T
  <1>13. NamesOf(T) = {"artists", "releases", "tracks", "track_artists", "providers",
                       "provider_tracks", "audio_assets", "cache_entries"}
    BY <1>1, <1>2, <1>3, <1>4, <1>5, <1>6, <1>7, <1>8, <1>9 DEF NamesOf
  <1>14. \A x : x \in TypesUsed(T) <=> \E i \in DOMAIN T : x \in T[i].types
    BY DEF TypesUsed
  <1>15. TypesUsed(T) = {"release_type", "track_status", "audio_quality", "quality_confidence",
                         "source_type", "cache_entry_status"}
    BY <1>14, <1>1, <1>2, <1>3, <1>4, <1>5, <1>6, <1>7, <1>8, <1>9
  <1>16. \A i, j \in DOMAIN T : T[i].name = T[j].name => i = j
    BY <1>1, <1>2, <1>3, <1>4, <1>5, <1>6, <1>7, <1>8, <1>9
  <1> QED BY <1>10, <1>11, <1>12, <1>13, <1>15, <1>16 DEF T

LEMMA Files5 ==
  /\ NamesOf(Revision005.tables) = {"artist_members", "license_records"}
  /\ DropsOf(Revision005) = NamesOf(Revision005.tables)
  /\ LabelledTypes(Revision005) = {"artist_member_role", "license_status"}
  /\ TypesUsed(Revision005.tables) = LabelledTypes(Revision005)
  /\ Revision005.dropsTypes = LabelledTypes(Revision005)
  /\ \A i, j \in DOMAIN Revision005.tables :
       Revision005.tables[i].name = Revision005.tables[j].name => i = j
  <1> DEFINE T == Revision005.tables
  <1>1. DOMAIN T = 1..2 BY DEF Revision005, Revision
  <1>2. T[1].name = "artist_members" /\ T[1].types = {"artist_member_role"}
    <2>1. T[1].name = "artist_members" BY DEF Revision005, Revision, Table
    <2>2. T[1].types = {"artist_member_role"} BY DEF Revision005, Revision, Table
    <2> QED BY <2>1, <2>2
  <1>3. T[2].name = "license_records" /\ T[2].types = {"license_status"}
    <2>1. T[2].name = "license_records" BY DEF Revision005, Revision, Table
    <2>2. T[2].types = {"license_status"} BY DEF Revision005, Revision, Table
    <2> QED BY <2>1, <2>2
  <1>4. DropsOf(Revision005) = {"artist_members", "license_records"}
    BY DEF Revision005, Revision, DropsOf
  <1>5. LabelledTypes(Revision005) = {"artist_member_role", "license_status"}
    BY DEF Revision005, Revision, LabelledTypes
  <1>6. Revision005.dropsTypes = {"artist_member_role", "license_status"}
    BY DEF Revision005, Revision
  <1> HIDE DEF T
  <1>7. NamesOf(T) = {"artist_members", "license_records"}
    BY <1>1, <1>2, <1>3 DEF NamesOf
  <1>8. \A x : x \in TypesUsed(T) <=> \E i \in DOMAIN T : x \in T[i].types
    BY DEF TypesUsed
  <1>9. TypesUsed(T) = {"artist_member_role", "license_status"}
    BY <1>8, <1>1, <1>2, <1>3
  <1>10. \A i, j \in DOMAIN T : T[i].name = T[j].name => i = j
    BY <1>1, <1>2, <1>3
  <1> QED BY <1>4, <1>5, <1>6, <1>7, <1>9, <1>10 DEF T

LEMMA Files6 ==
  /\ NamesOf(Revision006.tables) = {"playlists", "playlist_tracks", "favorites", "plans",
                                    "plan_prices", "subscriptions", "entitlements"}
  /\ DropsOf(Revision006) = NamesOf(Revision006.tables)
  /\ LabelledTypes(Revision006) = {"playlist_visibility", "favorite_type", "entitlement_scope",
                                   "entitlement_source", "entitlement_status"}
  /\ TypesUsed(Revision006.tables) = LabelledTypes(Revision006)
  /\ Revision006.dropsTypes = LabelledTypes(Revision006)
  /\ \A i, j \in DOMAIN Revision006.tables :
       Revision006.tables[i].name = Revision006.tables[j].name => i = j
  <1> DEFINE T == Revision006.tables
  <1>1. DOMAIN T = 1..7 BY DEF Revision006, Revision
  <1>2. T[1].name = "playlists" /\ T[1].types = {"playlist_visibility"}
    <2>1. T[1].name = "playlists" BY DEF Revision006, Revision, Table
    <2>2. T[1].types = {"playlist_visibility"} BY DEF Revision006, Revision, Table
    <2> QED BY <2>1, <2>2
  <1>3. T[2].name = "playlist_tracks" /\ T[2].types = {}
    <2>1. T[2].name = "playlist_tracks" BY DEF Revision006, Revision, Table
    <2>2. T[2].types = {} BY DEF Revision006, Revision, Table
    <2> QED BY <2>1, <2>2
  <1>4. T[3].name = "favorites" /\ T[3].types = {"favorite_type"}
    <2>1. T[3].name = "favorites" BY DEF Revision006, Revision, Table
    <2>2. T[3].types = {"favorite_type"} BY DEF Revision006, Revision, Table
    <2> QED BY <2>1, <2>2
  <1>5. T[4].name = "plans" /\ T[4].types = {}
    <2>1. T[4].name = "plans" BY DEF Revision006, Revision, Table
    <2>2. T[4].types = {} BY DEF Revision006, Revision, Table
    <2> QED BY <2>1, <2>2
  <1>6. T[5].name = "plan_prices" /\ T[5].types = {}
    <2>1. T[5].name = "plan_prices" BY DEF Revision006, Revision, Table
    <2>2. T[5].types = {} BY DEF Revision006, Revision, Table
    <2> QED BY <2>1, <2>2
  <1>7. T[6].name = "subscriptions" /\ T[6].types = {}
    <2>1. T[6].name = "subscriptions" BY DEF Revision006, Revision, Table
    <2>2. T[6].types = {} BY DEF Revision006, Revision, Table
    <2> QED BY <2>1, <2>2
  <1>8. /\ T[7].name = "entitlements"
        /\ T[7].types = {"entitlement_scope", "entitlement_source", "entitlement_status"}
    <2>1. T[7].name = "entitlements" BY DEF Revision006, Revision, Table
    <2>2. T[7].types = {"entitlement_scope", "entitlement_source", "entitlement_status"}
      BY DEF Revision006, Revision, Table
    <2> QED BY <2>1, <2>2
  <1>9. DropsOf(Revision006) = {"playlists", "playlist_tracks", "favorites", "plans",
                                "plan_prices", "subscriptions", "entitlements"}
    BY DEF Revision006, Revision, DropsOf
  <1>10. LabelledTypes(Revision006) = {"playlist_visibility", "favorite_type",
                                       "entitlement_scope", "entitlement_source",
                                       "entitlement_status"}
    BY DEF Revision006, Revision, LabelledTypes
  <1>11. Revision006.dropsTypes = {"playlist_visibility", "favorite_type", "entitlement_scope",
                                   "entitlement_source", "entitlement_status"}
    BY DEF Revision006, Revision
  <1> HIDE DEF T
  <1>12. NamesOf(T) = {"playlists", "playlist_tracks", "favorites", "plans", "plan_prices",
                       "subscriptions", "entitlements"}
    BY <1>1, <1>2, <1>3, <1>4, <1>5, <1>6, <1>7, <1>8 DEF NamesOf
  <1>13. \A x : x \in TypesUsed(T) <=> \E i \in DOMAIN T : x \in T[i].types
    BY DEF TypesUsed
  <1>14. TypesUsed(T) = {"playlist_visibility", "favorite_type", "entitlement_scope",
                         "entitlement_source", "entitlement_status"}
    BY <1>13, <1>1, <1>2, <1>3, <1>4, <1>5, <1>6, <1>7, <1>8
  <1>15. \A i, j \in DOMAIN T : T[i].name = T[j].name => i = j
    BY <1>1, <1>2, <1>3, <1>4, <1>5, <1>6, <1>7, <1>8
  <1> QED BY <1>9, <1>10, <1>11, <1>12, <1>14, <1>15 DEF T

LEMMA Files7 ==
  /\ NamesOf(Revision007.tables) = {"payment_orders", "analytics_events", "analytics_daily",
                                    "ranking_snapshots"}
  /\ DropsOf(Revision007) = NamesOf(Revision007.tables)
  /\ LabelledTypes(Revision007) = {"payment_method", "payment_status"}
  /\ TypesUsed(Revision007.tables) = LabelledTypes(Revision007)
  /\ Revision007.dropsTypes = LabelledTypes(Revision007)
  /\ \A i, j \in DOMAIN Revision007.tables :
       Revision007.tables[i].name = Revision007.tables[j].name => i = j
  <1> DEFINE T == Revision007.tables
  <1>1. DOMAIN T = 1..4 BY DEF Revision007, Revision
  <1>2. T[1].name = "payment_orders" /\ T[1].types = {"payment_method", "payment_status"}
    <2>1. T[1].name = "payment_orders" BY DEF Revision007, Revision, Table
    <2>2. T[1].types = {"payment_method", "payment_status"} BY DEF Revision007, Revision, Table
    <2> QED BY <2>1, <2>2
  <1>3. T[2].name = "analytics_events" /\ T[2].types = {}
    <2>1. T[2].name = "analytics_events" BY DEF Revision007, Revision, Table
    <2>2. T[2].types = {} BY DEF Revision007, Revision, Table
    <2> QED BY <2>1, <2>2
  <1>4. T[3].name = "analytics_daily" /\ T[3].types = {}
    <2>1. T[3].name = "analytics_daily" BY DEF Revision007, Revision, Table
    <2>2. T[3].types = {} BY DEF Revision007, Revision, Table
    <2> QED BY <2>1, <2>2
  <1>5. T[4].name = "ranking_snapshots" /\ T[4].types = {}
    <2>1. T[4].name = "ranking_snapshots" BY DEF Revision007, Revision, Table
    <2>2. T[4].types = {} BY DEF Revision007, Revision, Table
    <2> QED BY <2>1, <2>2
  <1>6. DropsOf(Revision007) = {"payment_orders", "analytics_events", "analytics_daily",
                                "ranking_snapshots"} BY DEF Revision007, Revision, DropsOf
  <1>7. LabelledTypes(Revision007) = {"payment_method", "payment_status"}
    BY DEF Revision007, Revision, LabelledTypes
  <1>8. Revision007.dropsTypes = {"payment_method", "payment_status"} BY DEF Revision007, Revision
  <1> HIDE DEF T
  <1>9. NamesOf(T) = {"payment_orders", "analytics_events", "analytics_daily",
                      "ranking_snapshots"}
    BY <1>1, <1>2, <1>3, <1>4, <1>5 DEF NamesOf
  <1>10. \A x : x \in TypesUsed(T) <=> \E i \in DOMAIN T : x \in T[i].types
    BY DEF TypesUsed
  <1>11. TypesUsed(T) = {"payment_method", "payment_status"}
    BY <1>10, <1>1, <1>2, <1>3, <1>4, <1>5
  <1>12. \A i, j \in DOMAIN T : T[i].name = T[j].name => i = j
    BY <1>1, <1>2, <1>3, <1>4, <1>5
  <1> QED BY <1>6, <1>7, <1>8, <1>9, <1>11, <1>12 DEF T

LEMMA Files8 ==
  /\ NamesOf(Revision008.tables) = {"moderation_reports", "audit_logs", "feature_flags",
                                    "system_settings"}
  /\ DropsOf(Revision008) = NamesOf(Revision008.tables)
  /\ LabelledTypes(Revision008) = {"moderation_report_type", "moderation_status"}
  /\ TypesUsed(Revision008.tables) = LabelledTypes(Revision008)
  /\ Revision008.dropsTypes = LabelledTypes(Revision008)
  /\ \A i, j \in DOMAIN Revision008.tables :
       Revision008.tables[i].name = Revision008.tables[j].name => i = j
  <1> DEFINE T == Revision008.tables
  <1>1. DOMAIN T = 1..4 BY DEF Revision008, Revision
  <1>2. /\ T[1].name = "moderation_reports"
        /\ T[1].types = {"moderation_report_type", "moderation_status"}
    <2>1. T[1].name = "moderation_reports" BY DEF Revision008, Revision, Table
    <2>2. T[1].types = {"moderation_report_type", "moderation_status"}
      BY DEF Revision008, Revision, Table
    <2> QED BY <2>1, <2>2
  <1>3. T[2].name = "audit_logs" /\ T[2].types = {}
    <2>1. T[2].name = "audit_logs" BY DEF Revision008, Revision, Table
    <2>2. T[2].types = {} BY DEF Revision008, Revision, Table
    <2> QED BY <2>1, <2>2
  <1>4. T[3].name = "feature_flags" /\ T[3].types = {}
    <2>1. T[3].name = "feature_flags" BY DEF Revision008, Revision, Table
    <2>2. T[3].types = {} BY DEF Revision008, Revision, Table
    <2> QED BY <2>1, <2>2
  <1>5. T[4].name = "system_settings" /\ T[4].types = {}
    <2>1. T[4].name = "system_settings" BY DEF Revision008, Revision, Table
    <2>2. T[4].types = {} BY DEF Revision008, Revision, Table
    <2> QED BY <2>1, <2>2
  <1>6. DropsOf(Revision008) = {"moderation_reports", "audit_logs", "feature_flags",
                                "system_settings"} BY DEF Revision008, Revision, DropsOf
  <1>7. LabelledTypes(Revision008) = {"moderation_report_type", "moderation_status"}
    BY DEF Revision008, Revision, LabelledTypes
  <1>8. Revision008.dropsTypes = {"moderation_report_type", "moderation_status"}
    BY DEF Revision008, Revision
  <1> HIDE DEF T
  <1>9. NamesOf(T) = {"moderation_reports", "audit_logs", "feature_flags", "system_settings"}
    BY <1>1, <1>2, <1>3, <1>4, <1>5 DEF NamesOf
  <1>10. \A x : x \in TypesUsed(T) <=> \E i \in DOMAIN T : x \in T[i].types
    BY DEF TypesUsed
  <1>11. TypesUsed(T) = {"moderation_report_type", "moderation_status"}
    BY <1>10, <1>1, <1>2, <1>3, <1>4, <1>5
  <1>12. \A i, j \in DOMAIN T : T[i].name = T[j].name => i = j
    BY <1>1, <1>2, <1>3, <1>4, <1>5
  <1> QED BY <1>6, <1>7, <1>8, <1>9, <1>11, <1>12 DEF T


LEMMA RevisionsAre ==
  /\ Revisions[1] = Revision001 /\ Revisions[2] = Revision002
  /\ Revisions[3] = Revision003 /\ Revisions[4] = Revision004
  /\ Revisions[5] = Revision005 /\ Revisions[6] = Revision006
  /\ Revisions[7] = Revision007 /\ Revisions[8] = Revision008
  /\ DOMAIN Revisions = 1..8
  BY DEF Revisions

\* What a revision drops is what it creates, the tables use the types that it
\* labels, and no two of its tables have one name.
LEMMA FilesAgree ==
  ASSUME NEW n \in 1..8
  PROVE  /\ DropsOf(Revisions[n]) = NamesOf(Revisions[n].tables)
         /\ TypesUsed(Revisions[n].tables) = LabelledTypes(Revisions[n])
         /\ Revisions[n].dropsTypes = LabelledTypes(Revisions[n])
         /\ \A i, j \in DOMAIN Revisions[n].tables :
              Revisions[n].tables[i].name = Revisions[n].tables[j].name => i = j
  <1>1. n = 1 \/ n = 2 \/ n = 3 \/ n = 4 \/ n = 5 \/ n = 6 \/ n = 7 \/ n = 8 OBVIOUS
  <1>2. CASE n = 1 BY <1>2, Files1, RevisionsAre
  <1>3. CASE n = 2 BY <1>3, Files2, RevisionsAre
  <1>4. CASE n = 3 BY <1>4, Files3, RevisionsAre
  <1>5. CASE n = 4 BY <1>5, Files4, RevisionsAre
  <1>6. CASE n = 5 BY <1>6, Files5, RevisionsAre
  <1>7. CASE n = 6 BY <1>7, Files6, RevisionsAre
  <1>8. CASE n = 7 BY <1>8, Files7, RevisionsAre
  <1>9. CASE n = 8 BY <1>9, Files8, RevisionsAre
  <1> QED BY <1>1, <1>2, <1>3, <1>4, <1>5, <1>6, <1>7, <1>8, <1>9

\* No two revisions create tables of one name, or types of one name.
LEMMA FilesApart ==
  ASSUME NEW m \in 1..8, NEW n \in 1..8, m # n
  PROVE  /\ NamesOf(Revisions[m].tables) \cap NamesOf(Revisions[n].tables) = {}
         /\ LabelledTypes(Revisions[m]) \cap LabelledTypes(Revisions[n]) = {}
  <1> DEFINE names(k) == NamesOf(Revisions[k].tables)
             types(k) == LabelledTypes(Revisions[k])
             Apart(j, k) == names(j) \cap names(k) = {} /\ types(j) \cap types(k) = {}
  <1>0. /\ names(1) = {"users"}
        /\ names(2) = {"roles", "permissions", "role_permissions", "user_roles", "devices",
                       "sessions"}
        /\ names(3) = {"jobs"}
        /\ names(4) = {"artists", "releases", "tracks", "track_artists", "providers",
                       "provider_tracks", "audio_assets", "cache_entries"}
        /\ names(5) = {"artist_members", "license_records"}
        /\ names(6) = {"playlists", "playlist_tracks", "favorites", "plans", "plan_prices",
                       "subscriptions", "entitlements"}
        /\ names(7) = {"payment_orders", "analytics_events", "analytics_daily",
                       "ranking_snapshots"}
        /\ names(8) = {"moderation_reports", "audit_logs", "feature_flags", "system_settings"}
    BY RevisionsAre, Files1, Files2, Files3, Files4, Files5, Files6, Files7, Files8
  <1>a. /\ types(1) = {"user_status"}
        /\ types(2) = {"device_status", "session_status"}
        /\ types(3) = {"job_type", "job_status"}
        /\ types(4) = {"release_type", "track_status", "audio_quality", "quality_confidence",
                       "source_type", "cache_entry_status"}
        /\ types(5) = {"artist_member_role", "license_status"}
        /\ types(6) = {"playlist_visibility", "favorite_type", "entitlement_scope",
                       "entitlement_source", "entitlement_status"}
        /\ types(7) = {"payment_method", "payment_status"}
        /\ types(8) = {"moderation_report_type", "moderation_status"}
    BY RevisionsAre, Files1, Files2, Files3, Files4, Files5, Files6, Files7, Files8
  <1>s. \A j, k : Apart(j, k) => Apart(k, j) OBVIOUS
  <1> HIDE DEF names, types
  <1>1. Apart(1, 2) /\ Apart(1, 3) /\ Apart(1, 4) /\ Apart(1, 5) /\ Apart(1, 6) /\ Apart(1, 7)
        /\ Apart(1, 8)
    BY <1>0, <1>a
  <1>2. Apart(2, 3) /\ Apart(2, 4) /\ Apart(2, 5) /\ Apart(2, 6) /\ Apart(2, 7) /\ Apart(2, 8)
    BY <1>0, <1>a
  <1>3. Apart(3, 4) /\ Apart(3, 5) /\ Apart(3, 6) /\ Apart(3, 7) /\ Apart(3, 8)
    BY <1>0, <1>a
  <1>4. Apart(4, 5) /\ Apart(4, 6) /\ Apart(4, 7) /\ Apart(4, 8)
    BY <1>0, <1>a
  <1>5. Apart(5, 6) /\ Apart(5, 7) /\ Apart(5, 8)
    BY <1>0, <1>a
  <1>6. Apart(6, 7) /\ Apart(6, 8) /\ Apart(7, 8)
    BY <1>0, <1>a
  <1> HIDE DEF Apart
  <1>7. \A j, k \in 1..8 : j < k => Apart(j, k)
    BY <1>1, <1>2, <1>3, <1>4, <1>5, <1>6
  <1>8. Apart(m, n)
    <2>1. m < n \/ n < m OBVIOUS
    <2> QED BY <2>1, <1>7, <1>s
  <1> QED BY <1>8 DEF Apart, names, types

-----------------------------------------------------------------------------
(* Upgrades and downgrades.                                                *)

LEMMA SchemaIs ==
  ASSUME NEW v
  PROVE  /\ SchemaAt(v).version = v
         /\ \A x : x \in SchemaAt(v).tables <=> \E n \in 1..v : x \in NamesOf(Revisions[n].tables)
         /\ \A x : x \in SchemaAt(v).types <=> \E n \in 1..v : x \in LabelledTypes(Revisions[n])
         /\ SchemaAt(v) = [version |-> v, tables |-> SchemaAt(v).tables, types |-> SchemaAt(v).types]
  BY DEF SchemaAt

LEMMA EmptyIs == EmptySchema = SchemaAt(0)
  <1>1. 1..0 = {} OBVIOUS
  <1>2. SchemaAt(0).tables = {} /\ SchemaAt(0).types = {} BY <1>1, SchemaIs
  <1> QED BY <1>2, SchemaIs DEF EmptySchema

\* From one version's schema an upgrade leads to the next one's.
LEMMA UpgradeLeads ==
  ASSUME NEW v \in 0..7
  PROVE  Upgraded(SchemaAt(v), Revisions[v + 1]) = SchemaAt(v + 1)
  <1> DEFINE R == Revisions[v + 1]
             next == Upgraded(SchemaAt(v), R)
  <1>0. v + 1 \in 1..8 OBVIOUS
  <1>1. TypesUsed(R.tables) = LabelledTypes(R) BY <1>0, FilesAgree
  <1>2. /\ next.tables = SchemaAt(v).tables \cup NamesOf(R.tables)
        /\ next.types = SchemaAt(v).types \cup LabelledTypes(R)
        /\ next = [version |-> v + 1, tables |-> next.tables, types |-> next.types]
    BY <1>1, SchemaIs DEF Upgraded
  <1>3. \A n : n \in 1..(v + 1) <=> n \in 1..v \/ n = v + 1 OBVIOUS
  <1> HIDE DEF next
  <1>4. next.tables = SchemaAt(v + 1).tables BY <1>2, <1>3, SchemaIs
  <1>5. next.types = SchemaAt(v + 1).types BY <1>2, <1>3, SchemaIs
  <1> QED BY <1>2, <1>4, <1>5, SchemaIs DEF next

\* And a downgrade back to the one before.
LEMMA DowngradeLeads ==
  ASSUME NEW v \in 1..8
  PROVE  Downgraded(SchemaAt(v), Revisions[v]) = SchemaAt(v - 1)
  <1> DEFINE R == Revisions[v]
             next == Downgraded(SchemaAt(v), R)
  <1>1. DropsOf(R) = NamesOf(R.tables) /\ R.dropsTypes = LabelledTypes(R) BY FilesAgree
  <1>2. /\ next.tables = SchemaAt(v).tables \ NamesOf(R.tables)
        /\ next.types = SchemaAt(v).types \ LabelledTypes(R)
        /\ next = [version |-> v - 1, tables |-> next.tables, types |-> next.types]
    BY <1>1, SchemaIs DEF Downgraded, DropsOf
  <1>3. \A n : n \in 1..v <=> n \in 1..(v - 1) \/ n = v OBVIOUS
  <1>4. \A n \in 1..(v - 1) : /\ NamesOf(Revisions[n].tables) \cap NamesOf(R.tables) = {}
                             /\ LabelledTypes(Revisions[n]) \cap LabelledTypes(R) = {}
    <2> TAKE n \in 1..(v - 1)
    <2>1. n \in 1..8 /\ n # v OBVIOUS
    <2> QED BY <2>1, FilesApart
  <1> HIDE DEF next, R
  <1>5. next.tables = SchemaAt(v - 1).tables
    <2>1. \A x : x \in SchemaAt(v).tables <=>
                   x \in SchemaAt(v - 1).tables \/ x \in NamesOf(R.tables)
      BY <1>3, SchemaIs DEF R
    <2>2. \A x : x \in SchemaAt(v - 1).tables => x \notin NamesOf(R.tables)
      BY <1>4, SchemaIs
    <2> QED BY <1>2, <2>1, <2>2
  <1>6. next.types = SchemaAt(v - 1).types
    <2>1. \A x : x \in SchemaAt(v).types <=>
                   x \in SchemaAt(v - 1).types \/ x \in LabelledTypes(R)
      BY <1>3, SchemaIs DEF R
    <2>2. \A x : x \in SchemaAt(v - 1).types => x \notin LabelledTypes(R)
      BY <1>4, SchemaIs
    <2> QED BY <1>2, <2>1, <2>2
  <1> QED BY <1>2, <1>5, <1>6, SchemaIs DEF next, R

\* Revision 004 creates its types twice, and stops where that is an error.
LEMMA StrictStops ==
  ASSUME strict, NEW s
  PROVE  ~CanUpgrade(s, Revisions[4])
  <1>1. Revisions[4].early BY RevisionsAre DEF Revision004, Revision
  <1>2. "track_status" \in LabelledTypes(Revisions[4]) BY RevisionsAre, Files4
  <1>3. TypesUsed(Revisions[4].tables) = LabelledTypes(Revisions[4]) BY FilesAgree
  <1> QED BY <1>1, <1>2, <1>3 DEF CanUpgrade

\* The repository as it is lacks the revision before 011.
LEMMA NotLoadable ==
  ASSUME image = "deployed"
  PROVE  ~Loadable
  <1>1. 11 \in DOMAIN RevisionFiles /\ RevisionFiles[11] = Revision011
    BY DEF RevisionFiles
  <1>2. 10 \notin DOMAIN RevisionFiles BY DEF RevisionFiles
  <1>3. Revision011.down = 10 BY DEF Revision011, Revision
  <1> QED BY <1>1, <1>2, <1>3 DEF Loadable

-----------------------------------------------------------------------------
(* The models.                                                             *)

\* A name is of one table.
LEMMA OneName ==
  ASSUME NEW n \in 1..8, NEW t \in Created(n)
  PROVE  TableNamed(t.name) = t
  <1> DEFINE All == UNION {{R.tables[i] : i \in DOMAIN R.tables} :
                             R \in {Revisions[k] : k \in DOMAIN Revisions}}
  <1>1. \A u : u \in All <=> \E k \in 1..8 : u \in Created(k) BY RevisionsAre DEF Created
  <1>2. ASSUME NEW k \in 1..8, NEW u \in Created(k), u.name = t.name
        PROVE  u = t
    <2>1. PICK i \in DOMAIN Revisions[n].tables : t = Revisions[n].tables[i] BY DEF Created
    <2>2. PICK j \in DOMAIN Revisions[k].tables : u = Revisions[k].tables[j] BY DEF Created
    <2>3. t.name \in NamesOf(Revisions[n].tables) BY <2>1 DEF NamesOf
    <2>4. t.name \in NamesOf(Revisions[k].tables) BY <2>2, <1>2 DEF NamesOf
    <2>5. k = n BY <2>3, <2>4, FilesApart
    <2>6. i = j BY <2>1, <2>2, <2>5, <1>2, FilesAgree
    <2> QED BY <2>1, <2>2, <2>5, <2>6
  <1>3. TableNamed(t.name) = CHOOSE u \in All : u.name = t.name BY DEF TableNamed
  <1> HIDE DEF All
  <1>4. t \in All BY <1>1
  <1>5. \A u \in All : u.name = t.name => u = t BY <1>1, <1>2
  <1> QED BY <1>3, <1>4, <1>5


-----------------------------------------------------------------------------
(* The head's schema is that of the models: file by file, the tables and   *)
(* types that a revision creates are those of its models.                  *)

LEMMA Models1 ==
  /\ Created(1) = UserModels.tables
  /\ Revisions[1].types = UserModels.types
  <1>1. UserModels.tables = {Revision001.tables[1]}
    BY DEF UserModels, Declares, Revision001, Revision
  <1>2. DOMAIN Revision001.tables = 1..1 BY DEF Revision001, Revision
  <1>3. Created(1) = {Revision001.tables[i] : i \in 1..1} BY <1>2, RevisionsAre DEF Created
  <1>4. Created(1) = UserModels.tables
    BY <1>1, <1>3
  <1>5. Revision001.types = UserModels.types
    BY DEF Revision001, Revision, Declares, UserModels
  <1> QED BY <1>4, <1>5, RevisionsAre

LEMMA Models2 ==
  /\ Created(2) = RbacModels.tables \cup DeviceModels.tables
  /\ Revisions[2].types = RbacModels.types \cup DeviceModels.types
  <1>1. RbacModels.tables = {Revision002.tables[1], Revision002.tables[2], Revision002.tables[3],
          Revision002.tables[4]}
    BY DEF RbacModels, Declares, Revision002, Revision
  <1>2. DeviceModels.tables = {Revision002.tables[5], Revision002.tables[6]}
    BY DEF DeviceModels, Declares, Revision002, Revision
  <1>3. DOMAIN Revision002.tables = 1..6 BY DEF Revision002, Revision
  <1>4. Created(2) = {Revision002.tables[i] : i \in 1..6} BY <1>3, RevisionsAre DEF Created
  <1>5. Created(2) = RbacModels.tables \cup DeviceModels.tables
    BY <1>1, <1>2, <1>4
  <1>6. Revision002.types = RbacModels.types \cup DeviceModels.types
    BY DEF Revision002, Revision, Declares, RbacModels, DeviceModels
  <1> QED BY <1>5, <1>6, RevisionsAre

LEMMA Models3 ==
  /\ Created(3) = JobModels.tables
  /\ Revisions[3].types = JobModels.types
  <1>1. JobModels.tables = {Revision003.tables[1]}
    BY DEF JobModels, Declares, Revision003, Revision
  <1>2. DOMAIN Revision003.tables = 1..1 BY DEF Revision003, Revision
  <1>3. Created(3) = {Revision003.tables[i] : i \in 1..1} BY <1>2, RevisionsAre DEF Created
  <1>4. Created(3) = JobModels.tables
    BY <1>1, <1>3
  <1>5. Revision003.types = JobModels.types
    BY DEF Revision003, Revision, Declares, JobModels
  <1> QED BY <1>4, <1>5, RevisionsAre

LEMMA Models4 ==
  /\ Created(4) = CatalogModels.tables \cup ProviderModels.tables \cup AudioModels.tables
  /\ Revisions[4].types = MusicTypes.types \cup CatalogModels.types \cup ProviderModels.types
                           \cup AudioModels.types
  <1>1. CatalogModels.tables = {MusicTables[1], MusicTables[2], MusicTables[3], MusicTables[4]}
    BY DEF CatalogModels, Declares, MusicTables
  <1>2. ProviderModels.tables = {AudioTables[1], AudioTables[2]}
    BY DEF ProviderModels, Declares, AudioTables
  <1>3. AudioModels.tables = {AudioTables[3], AudioTables[4]}
    BY DEF AudioModels, Declares, AudioTables
  <1>4. /\ MusicTables = <<MusicTables[1], MusicTables[2], MusicTables[3], MusicTables[4]>>
        /\ AudioTables = <<AudioTables[1], AudioTables[2], AudioTables[3], AudioTables[4]>>
    BY DEF MusicTables, AudioTables
  <1>5. Revision004.tables = MusicTables \o AudioTables BY DEF Revision004, Revision
  <1>6. Created(4) = {MusicTables[i] : i \in 1..4} \cup {AudioTables[i] : i \in 1..4}
    <2> DEFINE T == Revision004.tables
    <2>1. T = <<MusicTables[1], MusicTables[2], MusicTables[3], MusicTables[4]>>
              \o <<AudioTables[1], AudioTables[2], AudioTables[3], AudioTables[4]>>
      BY <1>4, <1>5
    <2> HIDE DEF T
    <2>2. /\ DOMAIN T = 1..8
          /\ T[1] = MusicTables[1] /\ T[2] = MusicTables[2]
          /\ T[3] = MusicTables[3] /\ T[4] = MusicTables[4]
          /\ T[5] = AudioTables[1] /\ T[6] = AudioTables[2]
          /\ T[7] = AudioTables[3] /\ T[8] = AudioTables[4]
      BY <2>1, EightTables
    <2>3. Created(4) = {T[i] : i \in DOMAIN T} BY RevisionsAre DEF Created, T
    <2> QED BY <2>2, <2>3
  <1>7. Created(4) = CatalogModels.tables \cup ProviderModels.tables \cup AudioModels.tables
    BY <1>1, <1>2, <1>3, <1>6
  <1>8. Revision004.types = MusicTypes.types \cup CatalogModels.types \cup ProviderModels.types \cup
          AudioModels.types
    BY DEF Revision004, Revision, Declares, MusicTypes, CatalogModels, ProviderModels, AudioModels
  <1> QED BY <1>7, <1>8, RevisionsAre

LEMMA Models5 ==
  /\ Created(5) = MemberModels.tables \cup RightsModels.tables
  /\ Revisions[5].types = MemberModels.types \cup RightsModels.types
  <1>1. MemberModels.tables = {Revision005.tables[1]}
    BY DEF MemberModels, Declares, Revision005, Revision
  <1>2. RightsModels.tables = {Revision005.tables[2]}
    BY DEF RightsModels, Declares, Revision005, Revision
  <1>3. DOMAIN Revision005.tables = 1..2 BY DEF Revision005, Revision
  <1>4. Created(5) = {Revision005.tables[i] : i \in 1..2} BY <1>3, RevisionsAre DEF Created
  <1>5. Created(5) = MemberModels.tables \cup RightsModels.tables
    BY <1>1, <1>2, <1>4
  <1>6. Revision005.types = MemberModels.types \cup RightsModels.types
    BY DEF Revision005, Revision, Declares, MemberModels, RightsModels
  <1> QED BY <1>5, <1>6, RevisionsAre

LEMMA Models6 ==
  /\ Created(6) = LibraryModels.tables \cup EntitlementModels.tables
  /\ Revisions[6].types = LibraryModels.types \cup EntitlementModels.types
  <1>1. LibraryModels.tables = {Revision006.tables[1], Revision006.tables[2], Revision006.tables[3]}
    BY DEF LibraryModels, Declares, Revision006, Revision
  <1>2. EntitlementModels.tables = {Revision006.tables[4], Revision006.tables[5], Revision006.tables[6],
          Revision006.tables[7]}
    BY DEF EntitlementModels, Declares, Revision006, Revision
  <1>3. DOMAIN Revision006.tables = 1..7 BY DEF Revision006, Revision
  <1>4. Created(6) = {Revision006.tables[i] : i \in 1..7} BY <1>3, RevisionsAre DEF Created
  <1>5. Created(6) = LibraryModels.tables \cup EntitlementModels.tables
    BY <1>1, <1>2, <1>4
  <1>6. Revision006.types = LibraryModels.types \cup EntitlementModels.types
    BY DEF Revision006, Revision, Declares, LibraryModels, EntitlementModels
  <1> QED BY <1>5, <1>6, RevisionsAre

LEMMA Models7 ==
  /\ Created(7) = PaymentModels.tables \cup AnalyticsModels.tables
  /\ Revisions[7].types = PaymentModels.types \cup AnalyticsModels.types
  <1>1. PaymentModels.tables = {Revision007.tables[1]}
    BY DEF PaymentModels, Declares, Revision007, Revision
  <1>2. AnalyticsModels.tables = {Revision007.tables[2], Revision007.tables[3], Revision007.tables[4]}
    BY DEF AnalyticsModels, Declares, Revision007, Revision
  <1>3. DOMAIN Revision007.tables = 1..4 BY DEF Revision007, Revision
  <1>4. Created(7) = {Revision007.tables[i] : i \in 1..4} BY <1>3, RevisionsAre DEF Created
  <1>5. Created(7) = PaymentModels.tables \cup AnalyticsModels.tables
    BY <1>1, <1>2, <1>4
  <1>6. Revision007.types = PaymentModels.types \cup AnalyticsModels.types
    BY DEF Revision007, Revision, Declares, PaymentModels, AnalyticsModels
  <1> QED BY <1>5, <1>6, RevisionsAre

LEMMA Models8 ==
  /\ Created(8) = AdminModels.tables
  /\ Revisions[8].types = AdminModels.types
  <1>1. AdminModels.tables = {Revision008.tables[1], Revision008.tables[2], Revision008.tables[3],
          Revision008.tables[4]}
    BY DEF AdminModels, Declares, Revision008, Revision
  <1>2. DOMAIN Revision008.tables = 1..4 BY DEF Revision008, Revision
  <1>3. Created(8) = {Revision008.tables[i] : i \in 1..4} BY <1>2, RevisionsAre DEF Created
  <1>4. Created(8) = AdminModels.tables
    BY <1>1, <1>3
  <1>5. Revision008.types = AdminModels.types
    BY DEF Revision008, Revision, Declares, AdminModels
  <1> QED BY <1>4, <1>5, RevisionsAre

LEMMA AllModelsAre ==
  /\ ModelTables = UNION {Created(n) : n \in 1..8}
  /\ ModelTypes = UNION {Revisions[n].types : n \in 1..8}
  <1>1. MusicTypes.tables = {} BY DEF MusicTypes, Declares
  <1>2. \A x : x \in ModelTables <=> \E m \in AllModels : x \in m.tables BY DEF ModelTables
  <1>3. \A x : x \in ModelTypes <=> \E m \in AllModels : x \in m.types BY DEF ModelTypes
  <1>4. ModelTables = Created(1) \cup Created(2) \cup Created(3) \cup Created(4)
                        \cup Created(5) \cup Created(6) \cup Created(7) \cup Created(8)
    BY <1>1, <1>2, Models1, Models2, Models3, Models4, Models5, Models6, Models7, Models8
    DEF AllModels
  <1>5. ModelTypes = Revisions[1].types \cup Revisions[2].types \cup Revisions[3].types
                       \cup Revisions[4].types \cup Revisions[5].types \cup Revisions[6].types
                       \cup Revisions[7].types \cup Revisions[8].types
    BY <1>3, Models1, Models2, Models3, Models4, Models5, Models6, Models7, Models8
    DEF AllModels
  <1>6. \A n : n \in 1..8 <=> n = 1 \/ n = 2 \/ n = 3 \/ n = 4 \/ n = 5 \/ n = 6 \/ n = 7 \/ n = 8
    OBVIOUS
  <1>7. \A x : x \in UNION {Created(n) : n \in 1..8} <=> \E n \in 1..8 : x \in Created(n)
    OBVIOUS
  <1>8. \A x : x \in UNION {Revisions[n].types : n \in 1..8} <=>
                 \E n \in 1..8 : x \in Revisions[n].types
    OBVIOUS
  <1>9. ModelTables = UNION {Created(n) : n \in 1..8} BY <1>4, <1>6, <1>7
  <1>10. ModelTypes = UNION {Revisions[n].types : n \in 1..8} BY <1>5, <1>6, <1>8
  <1> QED BY <1>9, <1>10

\* The migrations lead to the tables and types of the models.
LEMMA HeadHolds == HoldsTheModels(SchemaAt(HeadVersion))
  <1> DEFINE s == SchemaAt(8)
             types == UNION {R.types : R \in {Revisions[n] : n \in 1..8}}
  <1>1. s.version = 8 /\ HeadVersion = 8 BY SchemaIs DEF HeadVersion
  <1>2. {TableNamed(name) : name \in s.tables} = ModelTables
    <2>1. ASSUME NEW name \in s.tables
          PROVE  TableNamed(name) \in ModelTables
      <3>1. PICK n \in 1..8 : name \in NamesOf(Revisions[n].tables) BY SchemaIs
      <3>2. PICK i \in DOMAIN Revisions[n].tables : name = Revisions[n].tables[i].name
        BY <3>1 DEF NamesOf
      <3>3. Revisions[n].tables[i] \in Created(n) BY DEF Created
      <3>4. TableNamed(name) = Revisions[n].tables[i] BY <3>2, <3>3, OneName
      <3> QED BY <3>3, <3>4, AllModelsAre
    <2>2. ASSUME NEW t \in ModelTables
          PROVE  t.name \in s.tables /\ TableNamed(t.name) = t
      <3>1. PICK n \in 1..8 : t \in Created(n) BY AllModelsAre
      <3>2. t.name \in NamesOf(Revisions[n].tables) BY <3>1 DEF Created, NamesOf
      <3> QED BY <3>1, <3>2, OneName, SchemaIs
    <2> HIDE DEF s
    <2> QED BY <2>1, <2>2
  <1>3. types = ModelTypes
    <2>1. types = UNION {Revisions[n].types : n \in 1..8} OBVIOUS
    <2> QED BY <2>1, AllModelsAre
  <1>4. s.types = {t[1] : t \in ModelTypes}
    <2>1. \A x : x \in s.types <=> \E n \in 1..8 : x \in LabelledTypes(Revisions[n])
      BY SchemaIs
    <2>2. \A n \in 1..8 : \A x : x \in LabelledTypes(Revisions[n]) <=>
                                   \E t \in Revisions[n].types : x = t[1]
      BY DEF LabelledTypes
    <2>3. \A t : t \in ModelTypes <=> \E n \in 1..8 : t \in Revisions[n].types
      BY AllModelsAre
    <2> HIDE DEF s
    <2> QED BY <2>1, <2>2, <2>3
  <1> HIDE DEF s
  <1> QED BY <1>1, <1>2, <1>3, <1>4 DEF HoldsTheModels, s

-----------------------------------------------------------------------------
(* The steps.                                                              *)

LEMMA StateIs ==
  ASSUME NEW q \in RunnerState
  PROVE  /\ q.pc \in {"off", "started", "loaded", "migrating", "migrated", "serving"}
         /\ q.goal \in {"head", "down"} /\ q.saw \in 0..8 /\ q.lowered \in BOOLEAN
         /\ q.work.version \in 0..8 /\ q.work = SchemaAt(q.work.version)
  <1>1. /\ q.pc \in {"off", "started", "loaded", "migrating", "migrated", "serving"}
        /\ q.goal \in {"head", "down"} /\ q.saw \in 0..8 /\ q.lowered \in BOOLEAN
        /\ q.work \in {SchemaAt(v) : v \in 0..8}
    BY DEF RunnerState, Versions
  <1>2. PICK v \in 0..8 : q.work = SchemaAt(v) BY <1>1
  <1> QED BY <1>1, <1>2, SchemaIs

LEMMA DatabaseIs ==
  ASSUME MigrationsTypeOK
  PROVE  /\ database.version \in 0..8 /\ database = SchemaAt(database.version)
         /\ \A r \in Runner : runner[r] \in RunnerState
         /\ DOMAIN runner = Runner
         /\ image \in {"deployed", "repaired"} /\ strict \in BOOLEAN
  BY DEF MigrationsTypeOK, Versions

LEMMA OffIs == /\ Off \in RunnerState /\ Off.pc = "off" /\ Off.goal = "head"
               /\ Off.work.version = 0
  <1>1. EmptySchema \in {SchemaAt(v) : v \in 0..8} BY EmptyIs
  <1>2. EmptySchema.version = 0 BY DEF EmptySchema
  <1>3. 0 \in 0..8 OBVIOUS
  <1> HIDE DEF EmptySchema
  <1> QED BY <1>1, <1>2, <1>3 DEF Off, RunnerState, Versions

\* One run's step to s that leaves the database alone keeps the invariant if s
\* has what the invariant asks of a run.
LEMMA MovesKeep ==
  ASSUME MigrationsInv, NEW r \in Runner, NEW s \in RunnerState,
         Moves(r, s), database' = database,
         r \in Containers => s.goal = "head",
         s.pc = "migrating" /\ s.saw = HeadVersion =>
           database.version = HeadVersion \/ s.lowered,
         r \in Containers /\ s.pc \in {"migrated", "serving"} =>
           database.version = HeadVersion \/ s.lowered,
         image = "deployed" => s.pc \in {"off", "started"},
         strict => s.work.version < 4 /\ (r \in Containers => s.pc \notin {"migrated", "serving"})
  PROVE  MigrationsInv'
  <1> USE DEF MigrationsInv
  <1>1. /\ runner' \in [Runner -> RunnerState] /\ image' = image /\ strict' = strict
        /\ runner'[r] = s /\ \A q \in Runner : q # r => runner'[q] = runner[q]
    BY DEF Moves, MigrationsTypeOK
  <1>2. MigrationsTypeOK' BY <1>1 DEF MigrationsTypeOK
  <1>3. Containers \subseteq Runner BY DEF Runner
  <1>4. GoalInv' BY <1>1, <1>3 DEF GoalInv
  <1>5. HeadInv' BY <1>1, <1>3 DEF HeadInv
  <1>6. BlockedInv' BY <1>1, <1>3 DEF BlockedInv
  <1> QED BY <1>2, <1>4, <1>5, <1>6

LEMMA BootKeeps ==
  ASSUME MigrationsInv, NEW r \in Runner, NEW goal \in {"head", "down"}, Boot(r, goal)
  PROVE  MigrationsInv'
  <1> DEFINE s == [Off EXCEPT !.pc = "started", !.goal = goal]
  <1>1. Moves(r, s) /\ database' = database /\ (goal = "down" => r \in Shells) BY DEF Boot
  <1>2. s \in RunnerState /\ s.pc = "started" /\ s.goal = goal /\ s.work.version = 0
    <2>1. Off \in RunnerState /\ Off.work.version = 0 BY OffIs
    <2> QED BY <2>1 DEF RunnerState
  <1>3. r \in Containers => s.goal = "head" BY <1>1, <1>2, MigrationsAssumption
  <1> HIDE DEF s
  <1> QED BY <1>1, <1>2, <1>3, MovesKeep

LEMMA LoadKeeps ==
  ASSUME MigrationsInv, NEW r \in Runner, LoadRevisions(r)
  PROVE  MigrationsInv'
  <1> DEFINE s == [runner[r] EXCEPT !.pc = "loaded"]
  <1>1. Moves(r, s) /\ database' = database /\ image # "deployed"
    BY NotLoadable DEF LoadRevisions
  <1>2. runner[r] \in RunnerState BY DatabaseIs DEF MigrationsInv
  <1>3. s \in RunnerState /\ s.pc = "loaded" /\ s.goal = runner[r].goal /\ s.work = runner[r].work
    BY <1>2 DEF RunnerState
  <1>4. /\ r \in Containers => s.goal = "head"
        /\ strict => s.work.version < 4
    BY <1>3 DEF MigrationsInv, GoalInv, BlockedInv
  <1> HIDE DEF s
  <1> QED BY <1>1, <1>3, <1>4, MovesKeep

LEMMA ReadKeeps ==
  ASSUME MigrationsInv, NEW r \in Runner, ReadVersion(r)
  PROVE  MigrationsInv'
  <1> DEFINE s == [runner[r] EXCEPT !.pc = "migrating", !.saw = database.version,
                                    !.work = database, !.lowered = FALSE]
  <1>1. Moves(r, s) /\ database' = database /\ runner[r].pc = "loaded" BY DEF ReadVersion
  <1>2. runner[r] \in RunnerState /\ database.version \in 0..8
        /\ database \in {SchemaAt(v) : v \in 0..8}
    BY DatabaseIs DEF MigrationsInv
  <1>3. /\ s.pc = "migrating" /\ s.goal = runner[r].goal
        /\ s.work = database /\ s.saw = database.version
    BY <1>2 DEF RunnerState
  <1>4. s \in RunnerState BY <1>2 DEF RunnerState, Versions
  <1>5. /\ r \in Containers => s.goal = "head"
        /\ strict => s.work.version < 4
        /\ image # "deployed"
    BY <1>1, <1>3 DEF MigrationsInv, GoalInv, BlockedInv
  <1> HIDE DEF s
  <1> QED BY <1>1, <1>3, <1>4, <1>5, MovesKeep

\* A run that has replaced its schema goes on as it was otherwise.
LEMMA WorkKeeps ==
  ASSUME MigrationsInv, NEW r \in Runner, runner[r].pc = "migrating", NEW v \in 0..8,
         Moves(r, [runner[r] EXCEPT !.work = SchemaAt(v)]), database' = database,
         strict => v < 4
  PROVE  MigrationsInv'
  <1> DEFINE s == [runner[r] EXCEPT !.work = SchemaAt(v)]
  <1>1. runner[r] \in RunnerState BY DatabaseIs DEF MigrationsInv
  <1>2. /\ s.pc = "migrating" /\ s.goal = runner[r].goal /\ s.work = SchemaAt(v)
        /\ s.saw = runner[r].saw /\ s.lowered = runner[r].lowered
    BY <1>1 DEF RunnerState
  <1>3. s \in RunnerState
    <2>1. SchemaAt(v) \in {SchemaAt(w) : w \in 0..8} OBVIOUS
    <2> QED BY <1>1, <2>1 DEF RunnerState, Versions
  <1>4. s.work.version = v BY <1>2, SchemaIs
  <1>5. /\ r \in Containers => s.goal = "head"
        /\ s.saw = HeadVersion => database.version = HeadVersion \/ s.lowered
        /\ image # "deployed"
    BY <1>2 DEF MigrationsInv, GoalInv, HeadInv, BlockedInv
  <1> HIDE DEF s
  <1> QED BY <1>2, <1>3, <1>4, <1>5, MovesKeep DEF s

LEMMA UpgradeKeeps ==
  ASSUME MigrationsInv, NEW r \in Runner, UpgradeOne(r)
  PROVE  MigrationsInv'
  <1> DEFINE w == runner[r].work
             v == w.version
  <1>1. w = SchemaAt(v) /\ v \in 0..7
    BY DatabaseIs, StateIs DEF MigrationsInv, UpgradeOne, HeadVersion
  <1>2. /\ runner[r].pc = "migrating" /\ database' = database
        /\ CanUpgrade(w, Revisions[v + 1])
        /\ Moves(r, [runner[r] EXCEPT !.work = Upgraded(w, Revisions[v + 1])])
    BY DEF UpgradeOne
  <1>3. Upgraded(w, Revisions[v + 1]) = SchemaAt(v + 1) BY <1>1, UpgradeLeads
  <1>4. strict => v + 1 < 4
    <2>1. strict => v < 4 BY DEF MigrationsInv, BlockedInv
    <2>2. strict => v + 1 # 4 BY <1>2, StrictStops
    <2> QED BY <1>1, <2>1, <2>2
  <1>5. v + 1 \in 0..8 BY <1>1
  <1> HIDE DEF w, v
  <1>6. Moves(r, [runner[r] EXCEPT !.work = SchemaAt(v + 1)]) BY <1>2, <1>3
  <1> QED BY <1>2, <1>4, <1>5, <1>6, WorkKeeps

LEMMA DowngradeKeeps ==
  ASSUME MigrationsInv, NEW r \in Runner, DowngradeOne(r)
  PROVE  MigrationsInv'
  <1> DEFINE w == runner[r].work
             v == w.version
  <1>1. w = SchemaAt(v) /\ v \in 1..8
    BY DatabaseIs, StateIs DEF MigrationsInv, DowngradeOne
  <1>2. /\ runner[r].pc = "migrating" /\ database' = database
        /\ Moves(r, [runner[r] EXCEPT !.work = Downgraded(w, Revisions[v])])
    BY DEF DowngradeOne
  <1>3. Downgraded(w, Revisions[v]) = SchemaAt(v - 1) BY <1>1, DowngradeLeads
  <1>4. strict => v < 4 BY DEF MigrationsInv, BlockedInv
  <1>5. v - 1 \in 0..8 /\ v - 1 < v BY <1>1
  <1>6. strict => v - 1 < 4 BY <1>1, <1>4
  <1> HIDE DEF w, v
  <1>7. Moves(r, [runner[r] EXCEPT !.work = SchemaAt(v - 1)]) BY <1>2, <1>3
  <1> QED BY <1>2, <1>5, <1>6, <1>7, WorkKeeps

\* A run up to the head leaves it at the head, one down tells everybody.
LEMMA CommitMigrationKeeps ==
  ASSUME MigrationsInv, NEW r \in Runner, CommitMigration(r)
  PROVE  MigrationsInv'
  <1> DEFINE w == runner[r].work
             down == runner[r].goal = "down"
  <1>1. /\ runner[r] \in RunnerState /\ w.version \in 0..8 /\ w = SchemaAt(w.version)
        /\ database.version \in 0..8 /\ database = SchemaAt(database.version)
        /\ \A q \in Runner : runner[q] \in RunnerState
        /\ image \in {"deployed", "repaired"} /\ strict \in BOOLEAN
    BY DatabaseIs, StateIs DEF MigrationsInv
  <1>2. /\ runner[r].pc = "migrating"
        /\ down \/ w.version = HeadVersion
        /\ (database' = database /\ w.version = runner[r].saw) \/ database' = w
        /\ image' = image /\ strict' = strict
    BY DEF CommitMigration, Done
  <1>3. /\ runner' = [q \in Runner |->
              IF q # r THEN [runner[q] EXCEPT !.lowered = @ \/ down]
              ELSE IF r \in Shells THEN Off ELSE [runner[r] EXCEPT !.pc = "migrated"]]
    BY DEF CommitMigration
  <1>4. r \in Containers => w.version = HeadVersion /\ r \notin Shells
    BY <1>2, MigrationsAssumption DEF MigrationsInv, GoalInv
  <1>5. ASSUME NEW q \in Runner, q # r
        PROVE  /\ runner'[q] \in RunnerState /\ runner'[q].pc = runner[q].pc
               /\ runner'[q].goal = runner[q].goal /\ runner'[q].saw = runner[q].saw
               /\ runner'[q].work = runner[q].work
               /\ runner'[q].lowered = (runner[q].lowered \/ down)
    <2>1. runner'[q] = [runner[q] EXCEPT !.lowered = runner[q].lowered \/ down]
      BY <1>3, <1>5, <1>1 DEF RunnerState
    <2>2. (runner[q].lowered \/ down) \in BOOLEAN OBVIOUS
    <2> HIDE DEF down
    <2> QED BY <2>1, <2>2, <1>1 DEF RunnerState
  <1>6. r \in Shells => runner'[r] = Off BY <1>3
  <1>7. r \notin Shells => /\ runner'[r] \in RunnerState /\ runner'[r].pc = "migrated"
                           /\ runner'[r].goal = runner[r].goal /\ runner'[r].work = w
                           /\ runner'[r].lowered = runner[r].lowered
    <2>1. r \notin Shells => runner'[r] = [runner[r] EXCEPT !.pc = "migrated"] BY <1>3
    <2> QED BY <2>1, <1>1 DEF RunnerState
  <1>8. database'.version \in 0..8 /\ database' = SchemaAt(database'.version) BY <1>1, <1>2
  <1>9. image # "deployed" BY <1>2 DEF MigrationsInv, BlockedInv
  <1>10. ASSUME NEW q \in Runner, q # r,
                database.version = HeadVersion \/ runner[q].lowered
         PROVE  database'.version = HeadVersion \/ runner'[q].lowered
    <2>1. runner'[q].lowered = (runner[q].lowered \/ down) BY <1>10, <1>5
    <2> HIDE DEF down, w
    <2> QED BY <2>1, <1>10, <1>2
  <1>11. r \in Containers => database'.version = HeadVersion \/ runner'[r].lowered
    <2>1. CASE database' = w BY <2>1, <1>4
    <2>2. CASE database' = database /\ w.version = runner[r].saw
      <3>1. r \in Containers => database.version = HeadVersion \/ runner[r].lowered
        BY <1>2, <1>4, <2>2 DEF MigrationsInv, HeadInv
      <3> QED BY <2>2, <3>1, <1>4, <1>7
    <2> QED BY <1>2, <2>1, <2>2
  <1>12. Containers \subseteq Runner /\ (r \in Shells \/ r \in Containers) BY DEF Runner
  <1>13. MigrationsTypeOK'
    <2>1. \A q \in Runner : runner'[q] \in RunnerState
      BY <1>5, <1>6, <1>7, OffIs
    <2>2. runner' \in [Runner -> RunnerState]
      <3>1. runner' = [q \in Runner |-> runner'[q]] BY <1>3
      <3> QED BY <2>1, <3>1
    <2> QED BY <2>2, <1>1, <1>2, <1>8 DEF MigrationsTypeOK, Versions
  <1>14. GoalInv'
    BY <1>5, <1>7, <1>4, <1>12 DEF MigrationsInv, GoalInv
  <1>15. HeadInv'
    <2>1. ASSUME NEW q \in Runner, runner'[q].pc = "migrating", runner'[q].saw = HeadVersion
          PROVE  database'.version = HeadVersion \/ runner'[q].lowered
      <3>1. q # r BY <2>1, <1>6, <1>7, OffIs
      <3>2. database.version = HeadVersion \/ runner[q].lowered
        BY <2>1, <3>1, <1>5 DEF MigrationsInv, HeadInv
      <3> QED BY <3>1, <3>2, <1>10
    <2>2. ASSUME NEW c \in Containers, runner'[c].pc \in {"migrated", "serving"}
          PROVE  database'.version = HeadVersion \/ runner'[c].lowered
      <3>1. CASE c = r BY <3>1, <1>11
      <3>2. CASE c # r
        <4>1. database.version = HeadVersion \/ runner[c].lowered
          BY <2>2, <3>2, <1>5, <1>12 DEF MigrationsInv, HeadInv
        <4> QED BY <3>2, <4>1, <1>10, <1>12
      <3> QED BY <3>1, <3>2
    <2> QED BY <2>1, <2>2 DEF HeadInv
  <1>16. BlockedInv'
    <2>1. image' # "deployed" BY <1>2, <1>9
    <2>2. ASSUME strict'
          PROVE  /\ database'.version < 4
                 /\ \A q \in Runner : runner'[q].work.version < 4
                 /\ \A c \in Containers : runner'[c].pc \notin {"migrated", "serving"}
      <3>1. /\ database.version < 4 /\ \A q \in Runner : runner[q].work.version < 4
            /\ \A c \in Containers : runner[c].pc \notin {"migrated", "serving"}
        BY <2>2, <1>2 DEF MigrationsInv, BlockedInv
      <3>2. r \notin Containers
        <4>1. HeadVersion = 8 BY DEF HeadVersion
        <4> QED BY <3>1, <4>1, <1>4
      <3>3. database'.version < 4 BY <3>1, <1>2
      <3>4. \A q \in Runner : runner'[q].work.version < 4
        BY <3>1, <3>2, <1>5, <1>6, <1>12, OffIs
      <3>5. \A c \in Containers : runner'[c].pc \notin {"migrated", "serving"}
        BY <3>1, <3>2, <1>5, <1>12
      <3> QED BY <3>3, <3>4, <3>5
    <2> QED BY <2>1, <2>2 DEF BlockedInv
  <1> QED BY <1>13, <1>14, <1>15, <1>16 DEF MigrationsInv

LEMMA ServeKeeps ==
  ASSUME MigrationsInv, NEW r \in Runner, Serve(r)
  PROVE  MigrationsInv'
  <1> DEFINE s == [runner[r] EXCEPT !.pc = "serving"]
  <1>1. Moves(r, s) /\ database' = database /\ r \in Containers /\ runner[r].pc = "migrated"
    BY DEF Serve
  <1>2. runner[r] \in RunnerState BY DatabaseIs DEF MigrationsInv
  <1>3. /\ s.pc = "serving" /\ s.goal = runner[r].goal /\ s.work = runner[r].work
        /\ s.lowered = runner[r].lowered
    BY <1>2 DEF RunnerState
  <1>4. s \in RunnerState BY <1>2 DEF RunnerState
  <1>5. /\ s.goal = "head"
        /\ database.version = HeadVersion \/ s.lowered
        /\ ~strict /\ image # "deployed"
    BY <1>1, <1>3 DEF MigrationsInv, GoalInv, HeadInv, BlockedInv
  <1> HIDE DEF s
  <1> QED BY <1>1, <1>3, <1>4, <1>5, MovesKeep

LEMMA StopKeeps ==
  ASSUME MigrationsInv, NEW r \in Runner, Stop(r)
  PROVE  MigrationsInv'
  <1>1. Moves(r, Off) /\ database' = database BY DEF Stop
  <1> QED BY <1>1, OffIs, MovesKeep

LEMMA MigrationsInitInv == MigrationsInit => MigrationsInv
  <1> SUFFICES ASSUME MigrationsInit PROVE MigrationsInv OBVIOUS
  <1>1. /\ database = EmptySchema /\ \A r \in Runner : runner[r] = Off
        /\ runner = [r \in Runner |-> Off]
        /\ image \in {"deployed", "repaired"} /\ strict \in BOOLEAN
    BY DEF MigrationsInit
  <1>2. database.version = 0 /\ database = SchemaAt(0) BY <1>1, EmptyIs, SchemaIs
  <1>3. MigrationsTypeOK BY <1>1, <1>2, OffIs DEF MigrationsTypeOK, Versions
  <1>4. Containers \subseteq Runner BY DEF Runner
  <1>5. GoalInv BY <1>1, <1>4, OffIs DEF GoalInv
  <1>6. HeadInv BY <1>1, <1>4, OffIs DEF HeadInv
  <1>7. BlockedInv BY <1>1, <1>2, <1>4, OffIs DEF BlockedInv
  <1> QED BY <1>3, <1>5, <1>6, <1>7 DEF MigrationsInv

LEMMA MigrationsNextKeeps ==
  MigrationsInv /\ [MigrationsNext]_migrationsVars => MigrationsInv'
  <1> SUFFICES ASSUME MigrationsInv, [MigrationsNext]_migrationsVars PROVE MigrationsInv'
    OBVIOUS
  <1>1. CASE UNCHANGED migrationsVars
    <2>1. database' = database /\ runner' = runner /\ image' = image /\ strict' = strict
      BY <1>1 DEF migrationsVars
    <2> QED BY <2>1 DEF MigrationsInv, MigrationsTypeOK, GoalInv, HeadInv, BlockedInv
  <1>2. ASSUME NEW r \in Runner, NEW goal \in {"head", "down"}, Boot(r, goal)
        PROVE  MigrationsInv'
    BY <1>2, BootKeeps
  <1>3. ASSUME NEW r \in Runner, LoadRevisions(r) PROVE MigrationsInv' BY <1>3, LoadKeeps
  <1>4. ASSUME NEW r \in Runner, ReadVersion(r) PROVE MigrationsInv' BY <1>4, ReadKeeps
  <1>5. ASSUME NEW r \in Runner, UpgradeOne(r) PROVE MigrationsInv' BY <1>5, UpgradeKeeps
  <1>6. ASSUME NEW r \in Runner, DowngradeOne(r) PROVE MigrationsInv' BY <1>6, DowngradeKeeps
  <1>7. ASSUME NEW r \in Runner, CommitMigration(r) PROVE MigrationsInv'
    BY <1>7, CommitMigrationKeeps
  <1>8. ASSUME NEW r \in Runner, Serve(r) PROVE MigrationsInv' BY <1>8, ServeKeeps
  <1>9. ASSUME NEW r \in Runner, Stop(r) PROVE MigrationsInv' BY <1>9, StopKeeps
  <1> QED BY <1>1, <1>2, <1>3, <1>4, <1>5, <1>6, <1>7, <1>8, <1>9 DEF MigrationsNext

\* The database and every transaction hold the schema of some version, whole,
\* with any number of containers and shells (alembic, versions/001 to 008).
THEOREM MigrationsTypeCorrect == MigrationsSpec => []MigrationsTypeOK
  <1>1. MigrationsInv => MigrationsTypeOK BY DEF MigrationsInv
  <1> QED BY <1>1, MigrationsInitInv, MigrationsNextKeeps, PTL DEF MigrationsSpec

\* A container that serves has the schema of its models, or a downgrade has
\* come after its own upgrade; none serves from the repository as it is, nor
\* where enum types are created twice (entrypoint.sh, versions/004 and 011).
THEOREM ServesSchema == MigrationsSpec => []ServesItsSchema
  <1>1. MigrationsInv => ServesItsSchema
    <2> SUFFICES ASSUME MigrationsInv, NEW c \in Containers, runner[c].pc = "serving"
                 PROVE  /\ HoldsTheModels(database) \/ runner[c].lowered
                        /\ image = "repaired" /\ ~strict
      BY DEF ServesItsSchema
    <2>1. database = SchemaAt(database.version) /\ image \in {"deployed", "repaired"}
      BY DatabaseIs DEF MigrationsInv
    <2>2. c \in Runner BY DEF Runner
    <2>3. database.version = HeadVersion \/ runner[c].lowered BY DEF MigrationsInv, HeadInv
    <2>4. image # "deployed" /\ ~strict BY <2>2 DEF MigrationsInv, BlockedInv
    <2> QED BY <2>1, <2>3, <2>4, HeadHolds
  <1> QED BY <1>1, MigrationsInitInv, MigrationsNextKeeps, PTL DEF MigrationsSpec

-----------------------------------------------------------------------------
(* The three together.                                                     *)

ServicesInv == PayInv /\ LibraryInv /\ MigrationsInv

LEMMA ServicesNextKeep == ServicesInv /\ [MCNext]_MCVars => ServicesInv'
  <1> SUFFICES ASSUME ServicesInv, [MCNext]_MCVars PROVE ServicesInv' OBVIOUS
  <1>1. CASE MCNext
    <2>1. [Next]_vars /\ [LibraryNext]_libraryVars /\ [MigrationsNext]_migrationsVars
      BY <1>1 DEF MCNext
    <2> QED BY <2>1, NextKeeps, LibraryNextKeeps, MigrationsNextKeeps DEF ServicesInv
  <1>2. CASE UNCHANGED MCVars
    <2>1. vars' = vars /\ libraryVars' = libraryVars /\ migrationsVars' = migrationsVars
      BY <1>2 DEF MCVars
    <2> QED BY <2>1, NextKeeps, LibraryNextKeeps, MigrationsNextKeeps DEF ServicesInv
  <1> QED BY <1>1, <1>2

\* Payments, libraries and migrations keep their types in the state that they
\* share, for every number of requests, users, containers and shells.
THEOREM ServicesTypeCorrect == MCSpec => []TypesOK
  <1>1. MCInit => ServicesInv
    BY InitInv, LibraryInitInv, MigrationsInitInv DEF MCInit, ServicesInv
  <1>2. ServicesInv => TypesOK
    BY DEF ServicesInv, PayInv, LibraryInv, MigrationsInv, TypesOK
  <1> QED BY <1>1, <1>2, ServicesNextKeep, PTL DEF MCSpec
=============================================================================
