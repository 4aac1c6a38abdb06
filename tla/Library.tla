------------------------------- MODULE Library -------------------------------
(***************************************************************************)
(* The playlists and the favorites of one user: PlaylistService and        *)
(* FavoriteService behind api/v1/library.                                  *)
(*                                                                         *)
(* Each request reads what it decides on without a lock and writes when    *)
(* its transaction commits; only the unique constraints and the foreign    *)
(* key of a playlist's tracks stand between two of them.  The favorites    *)
(* are one more shelf, which always exists.  What the service answers to   *)
(* another user (private, not the owner) changes nothing.                  *)
(***************************************************************************)
EXTENDS Integers, FiniteSets, FiniteSetsExt

CONSTANTS
  LibraryRequests,  \* bound: requests in a behaviour
  LibraryTracks     \* tracks, or other targets of a favorite

ASSUME LibraryAssumption == LibraryRequests \in Nat

LibReq == 1..LibraryRequests

\* The favorites; playlist p is the one that request p creates.
Favorites == 0
Shelf == LibReq \cup {Favorites}

VARIABLES
  playlists,  \* the playlists that exist
  rows,       \* playlist_tracks and favorites; row r is inserted by request r
  asked       \* what each request does

libraryVars == <<playlists, rows, asked>>

Row == [id : LibReq, shelf : Shelf, track : LibraryTracks, position : Nat]

LibraryTypeOK ==
  /\ playlists \subseteq LibReq
  /\ rows \subseteq Row
  /\ asked \in [LibReq -> [pc : {"new", "read", "answered", "refused"},
                           op : {"none", "create", "rename", "delete", "add", "remove"},
                           shelf : Shelf, row : LibReq \cup {0},
                           track : LibraryTracks \cup {0}, position : Nat]]

NoQuestion ==
  [pc |-> "new", op |-> "none", shelf |-> Favorites, row |-> 0, track |-> 0, position |-> 0]

LibraryInit ==
  /\ playlists = {}
  /\ rows = {}
  /\ asked = [r \in LibReq |-> NoQuestion]

On(s) == {r \in rows : r.shelf = s}

\* The row with this track, if there is one: its id, or 0.
Found(s, t) == IF \E r \in On(s) : r.track = t
               THEN (CHOOSE r \in On(s) : r.track = t).id ELSE 0

\* Request r has read what it needs, and is next to be q.
Asks(r, q) ==
  /\ asked[r].pc = "new" /\ \A d \in LibReq : d < r => asked[d].pc # "new"
  /\ asked' = [asked EXCEPT ![r] = q]
  /\ UNCHANGED <<playlists, rows>>

Question(pc, op, s) == [NoQuestion EXCEPT !.pc = pc, !.op = op, !.shelf = s]

\* The transaction of request r commits.
Answers(r) == asked' = [asked EXCEPT ![r].pc = "answered"]

Reading(r, op) == asked[r].pc = "read" /\ asked[r].op = op

-----------------------------------------------------------------------------
(* Playlists.                                                              *)

CreatePlaylist(r) == Asks(r, Question("read", "create", r))

CommitCreatePlaylist(r) ==
  /\ Reading(r, "create")
  /\ playlists' = playlists \cup {r}
  /\ Answers(r) /\ UNCHANGED rows

\* The UPDATE expires updated_at, which the response reads outside the
\* session's greenlet: it raises, and the transaction is rolled back.  Only
\* the name that it has already is answered.
RenamePlaylist(r) ==
  \E p \in playlists, pc \in {"answered", "refused"} : Asks(r, Question(pc, "rename", p))

DeletePlaylist(r) == \E p \in playlists : Asks(r, Question("read", "delete", p))

\* Mutant: the rows of the playlist are not deleted with it.
CommitDeletePlaylist_NoCascade(r) ==
  /\ Reading(r, "delete")
  /\ playlists' = playlists \ {asked[r].shelf}
  /\ Answers(r) /\ UNCHANGED rows

\* A playlist that is gone by now is not an error.
CommitDeletePlaylist(r) ==
  /\ Reading(r, "delete")
  /\ playlists' = playlists \ {asked[r].shelf}
  /\ rows' = rows \ On(asked[r].shelf)
  /\ Answers(r)

-----------------------------------------------------------------------------
(* add_track and FavoriteService.add.                                      *)

\* (max_pos or -1) + 1, where 0 is as good as None.
NextPosition(s) ==
  LET highest == Max({r.position : r \in On(s)} \cup {-1})
  IN  (IF highest = 0 THEN -1 ELSE highest) + 1

\* A track that is on the playlist is a conflict; a favorite that is there is
\* the answer.
Add(r, s, t) ==
  LET q == [Question("read", "add", s) EXCEPT !.track = t, !.row = r]
      found == Found(s, t)
  IN  IF found = 0
      THEN Asks(r, [q EXCEPT !.position = IF s = Favorites THEN 0 ELSE NextPosition(s)])
      ELSE Asks(r, [q EXCEPT !.pc = IF s = Favorites THEN "answered" ELSE "refused",
                             !.row = found])

\* The insert meets uq_playlist_track or uq_favorite, and the foreign key.
CommitAdd(r) ==
  LET q == asked[r]
  IN  /\ Reading(r, "add")
      /\ q.shelf \in playlists \cup {Favorites} /\ Found(q.shelf, q.track) = 0
      /\ rows' = rows \cup {[id |-> r, shelf |-> q.shelf, track |-> q.track,
                             position |-> q.position]}
      /\ Answers(r) /\ UNCHANGED playlists

\* remove_track and FavoriteService.remove: what is not there is not found,
\* and what is gone by the commit is not an error.
Remove(r, s, t) ==
  /\ Found(s, t) # 0
  /\ Asks(r, [Question("read", "remove", s) EXCEPT !.track = t, !.row = Found(s, t)])

CommitRemove(r) ==
  /\ Reading(r, "remove")
  /\ rows' = {q \in rows : q.id # asked[r].row}
  /\ Answers(r) /\ UNCHANGED playlists

\* A constraint, or anything else that raises: the transaction is rolled back.
RefuseRequest(r) ==
  /\ asked[r].pc = "read"
  /\ asked' = [asked EXCEPT ![r].pc = "refused"]
  /\ UNCHANGED <<playlists, rows>>

LibraryNext ==
  \E r \in LibReq :
    \/ CreatePlaylist(r) \/ RenamePlaylist(r) \/ DeletePlaylist(r)
    \/ \E s \in playlists \cup {Favorites}, t \in LibraryTracks : Add(r, s, t) \/ Remove(r, s, t)
    \/ CommitCreatePlaylist(r) \/ CommitDeletePlaylist(r) \/ CommitAdd(r) \/ CommitRemove(r)
    \/ RefuseRequest(r)

LibrarySpec == LibraryInit /\ [][LibraryNext]_libraryVars

-----------------------------------------------------------------------------
(* Properties.                                                             *)

\* The request took row q off its shelf.
TookAway(d, q) ==
  /\ asked[d].pc = "answered"
  /\ \/ asked[d].op = "remove" /\ asked[d].row = q
     \/ asked[d].op = "delete" /\ asked[d].shelf = asked[q].shelf

\* What an addition was answered for is on its shelf until it is removed or
\* the playlist deleted, no shelf holds a track twice, and no row is left of a
\* playlist that does not exist, however the requests interleave (add_track,
\* delete, FavoriteService.add).
KeptOnceUntilRemoved ==
  /\ \A r \in LibReq : asked[r].op = "add" /\ asked[r].pc = "answered" =>
       \/ \E q \in rows : q.id = asked[r].row
       \/ \E d \in LibReq : TookAway(d, asked[r].row)
  /\ \A q \in rows : q.shelf \in playlists \cup {Favorites}
  /\ \A p, q \in rows : p.shelf = q.shelf /\ p.track = q.track => p = q

\* add_track gives a track a position of its own: one that no track has which
\* was committed on the playlist before (list_tracks orders by it).  Additions
\* that overlap are not asked for different ones.  The code violates it:
\* (max_pos or -1) + 1 is 0 for the second track as for the first.
AddsAtAFreePosition ==
  [][\A r \in LibReq :
       asked[r].pc = "new" /\ Reading(r, "add")' /\ asked'[r].shelf # Favorites =>
         \A q \in On(asked'[r].shelf) : q.position # asked'[r].position]_libraryVars
=============================================================================
