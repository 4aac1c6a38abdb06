----------------------------- MODULE MCServices -----------------------------
(***************************************************************************)
(* Three parts of the API that share the database and none of its rows, in *)
(* one run: a behaviour is one of payments, of one user's library, or of   *)
(* the migrations.  Five requests are enough for an order to be created,   *)
(* approved, rejected, submitted and approved again, and for a playlist to *)
(* get two tracks, or the same one twice at once, while it is deleted.     *)
(* MCServicesOrder asks for the positions of the playlist's tracks.        *)
(* What is proved of every Range header is evaluated first on small ones.  *)
(***************************************************************************)
EXTENDS Payments, Library, Migrations, HttpRange

\* Bodies of up to four bytes, and headers that name bytes up to two past them.
ASSUME RangesAgree ==
  \A total \in 0..4 :
    \A h \in [kind : {"missing", "unusable", "suffix", "open", "closed"},
              first : 0..6, last : -2..6] :
      ParsedAsAsked(h, total) /\ AnsweredAsAsked(h, total)

VARIABLE part

MCVars == <<part, vars, libraryVars, migrationsVars>>

MCInit ==
  /\ part \in {"payments", "library", "migrations"}
  /\ Init /\ LibraryInit /\ MigrationsInit
  /\ part # "migrations" => image = "repaired" /\ ~strict

MCNext ==
  /\ part' = part
  /\ \/ part = "payments" /\ Next /\ UNCHANGED <<libraryVars, migrationsVars>>
     \/ part = "library" /\ LibraryNext /\ UNCHANGED <<vars, migrationsVars>>
     \/ part = "migrations" /\ MigrationsNext /\ UNCHANGED <<vars, libraryVars>>

MCSpec == MCInit /\ [][MCNext]_MCVars

TypesOK == TypeOK /\ LibraryTypeOK /\ MigrationsTypeOK
=============================================================================
