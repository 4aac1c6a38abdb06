----------------------------- MODULE Migrations -----------------------------
(***************************************************************************)
(* The schema of the database, and who moves it: the containers of the     *)
(* API, whose entrypoint upgrades the database to the head and then serves *)
(* (docker-compose restarts one that stops), and the shells that run       *)
(* `make migrate` or `make migrate-down` beside them.                      *)
(*                                                                         *)
(* A run of alembic is one transaction.  Of two that overlap the second    *)
(* waits for the locks of the first and then no longer finds the version   *)
(* it started from.                                                        *)
(***************************************************************************)
EXTENDS Models

CONSTANTS Containers, Shells

ASSUME MigrationsAssumption == Containers \cap Shells = {}

Runner == Containers \cup Shells

VARIABLES
  database,  \* the committed schema: alembic_version, tables and enum types
  runner,    \* what each container and shell does
  image,     \* which source tree the containers and shells have
  strict     \* create_table creates an enum type without asking if it exists

migrationsVars == <<database, runner, image, strict>>

EmptySchema == [version |-> 0, tables |-> {}, types |-> {}]

NamesOf(tables) == {tables[i].name : i \in DOMAIN tables}

LabelledTypes(R) == {t[1] : t \in R.types}

\* What the revisions up to v create.
SchemaAt(v) ==
  [version |-> v,
   tables |-> UNION {NamesOf(Revisions[n].tables) : n \in 1..v},
   types |-> UNION {LabelledTypes(Revisions[n]) : n \in 1..v}]

\* saw: the version it started from; work: the schema as its transaction has
\* left it; lowered: a downgrade has committed since it read the version.
RunnerState ==
  [pc : {"off", "started", "loaded", "migrating", "migrated", "serving"},
   goal : {"head", "down"}, saw : Versions, lowered : BOOLEAN,
   work : {SchemaAt(v) : v \in Versions}]

MigrationsTypeOK ==
  /\ database.version \in Versions /\ database = SchemaAt(database.version)
  /\ runner \in [Runner -> RunnerState]
  /\ image \in {"deployed", "repaired"}
  /\ strict \in BOOLEAN

Off == [pc |-> "off", goal |-> "head", saw |-> 0, lowered |-> FALSE, work |-> EmptySchema]

MigrationsInit ==
  /\ database = EmptySchema
  /\ runner = [r \in Runner |-> Off]
  /\ image \in {"deployed", "repaired"}
  /\ strict \in BOOLEAN

Moves(r, s) == runner' = [runner EXCEPT ![r] = s] /\ UNCHANGED <<image, strict>>

-----------------------------------------------------------------------------
(* The files of the image.                                                 *)

\* The revision files, by number: those of the repository, or without the one
\* whose predecessors are missing.
RevisionFiles ==
  [n \in (1..8) \cup (IF image = "deployed" THEN {11} ELSE {}) |->
     IF n = 11 THEN Revision011 ELSE Revisions[n]]

\* alembic reads every revision file before it does anything.
Loadable == \A n \in DOMAIN RevisionFiles : RevisionFiles[n].down \in DOMAIN RevisionFiles \cup {0}

\* main.py has a line at column 0 inside create_app.
AppParses == image = "repaired"

HeadVersion == 8

-----------------------------------------------------------------------------
(* The revisions.                                                          *)

TypesUsed(tables) == UNION {tables[i].types : i \in DOMAIN tables}

RefersTo(t) == {ref[2] : ref \in t.refs}

CanUpgrade(s, R) ==
  LET before(i) == s.tables \cup {R.tables[j].name : j \in 1..(i - 1)}
      created == s.types \cup (IF R.early THEN LabelledTypes(R) ELSE {})
  IN  /\ \A i \in DOMAIN R.tables :
           R.tables[i].name \notin before(i) /\ RefersTo(R.tables[i]) \subseteq before(i)
      /\ strict => TypesUsed(R.tables) \cap created = {}

Upgraded(s, R) ==
  [version |-> s.version + 1,
   tables |-> s.tables \cup NamesOf(R.tables),
   types |-> s.types \cup TypesUsed(R.tables) \cup (IF R.early THEN LabelledTypes(R) ELSE {})]

\* The table that was created with this name.
TableNamed(name) ==
  CHOOSE t \in UNION {{R.tables[i] : i \in DOMAIN R.tables} :
                        R \in {Revisions[n] : n \in DOMAIN Revisions}} : t.name = name

\* No table is dropped while another one refers to it, no type while a table
\* uses it.
CanDowngrade(s, R) ==
  LET left(i) == s.tables \ {R.drops[j] : j \in 1..i}
  IN  /\ \A i \in DOMAIN R.drops :
           /\ R.drops[i] \in left(i - 1)
           /\ \A t \in left(i) : R.drops[i] \notin RefersTo(TableNamed(t))
      /\ \A t \in left(Len(R.drops)) : TableNamed(t).types \cap R.dropsTypes = {}

\* Mutant: the downgrade drops the tables and forgets their enum types.
Downgraded_TypesKept(s, R) ==
  [version |-> s.version - 1,
   tables |-> s.tables \ {R.drops[i] : i \in DOMAIN R.drops},
   types |-> s.types]

Downgraded(s, R) ==
  [version |-> s.version - 1,
   tables |-> s.tables \ {R.drops[i] : i \in DOMAIN R.drops},
   types |-> s.types \ R.dropsTypes]

-----------------------------------------------------------------------------
(* One run.                                                                *)

Boot(r, goal) ==
  /\ runner[r].pc = "off"
  /\ goal = "down" => r \in Shells
  /\ Moves(r, [Off EXCEPT !.pc = "started", !.goal = goal])
  /\ UNCHANGED database

LoadRevisions(r) ==
  /\ runner[r].pc = "started" /\ Loadable
  /\ Moves(r, [runner[r] EXCEPT !.pc = "loaded"])
  /\ UNCHANGED database

\* The head is reached without a step when the database is there already.
ReadVersion(r) ==
  /\ runner[r].pc = "loaded"
  /\ Moves(r, [runner[r] EXCEPT !.pc = "migrating", !.saw = database.version,
                                !.work = database, !.lowered = FALSE])
  /\ UNCHANGED database

UpgradeOne(r) ==
  LET s == runner[r].work
  IN  /\ runner[r].pc = "migrating" /\ runner[r].goal = "head" /\ s.version < HeadVersion
      /\ CanUpgrade(s, Revisions[s.version + 1])
      /\ Moves(r, [runner[r] EXCEPT !.work = Upgraded(s, Revisions[s.version + 1])])
      /\ UNCHANGED database

\* downgrade -1 of an empty database is an error.
DowngradeOne(r) ==
  LET s == runner[r].work
  IN  /\ runner[r].pc = "migrating" /\ runner[r].goal = "down"
      /\ s.version = runner[r].saw /\ s.version > 0
      /\ CanDowngrade(s, Revisions[s.version])
      /\ Moves(r, [runner[r] EXCEPT !.work = Downgraded(s, Revisions[s.version])])
      /\ UNCHANGED database

Done(r) ==
  /\ runner[r].pc = "migrating"
  /\ \/ runner[r].goal = "head" /\ runner[r].work.version = HeadVersion
     \/ runner[r].goal = "down" /\ runner[r].work.version < runner[r].saw

\* The shell is finished; a container goes on to start the API.
CommitMigration(r) ==
  LET down == runner[r].goal = "down"
  IN  /\ Done(r) /\ (runner[r].work.version # runner[r].saw => database.version = runner[r].saw)
      /\ database' = IF runner[r].work.version = runner[r].saw THEN database ELSE runner[r].work
      /\ runner' = [q \in Runner |->
           IF q # r THEN [runner[q] EXCEPT !.lowered = @ \/ down]
           ELSE IF r \in Shells THEN Off ELSE [runner[r] EXCEPT !.pc = "migrated"]]
      /\ UNCHANGED <<image, strict>>

\* Mutant: the entrypoint without set -e.
Serve_AfterAnything(r) ==
  /\ r \in Containers /\ runner[r].pc \in {"started", "migrating", "migrated"} /\ AppParses
  /\ Moves(r, [runner[r] EXCEPT !.pc = "serving"])
  /\ UNCHANGED database

Serve(r) ==
  /\ r \in Containers /\ runner[r].pc = "migrated" /\ AppParses
  /\ Moves(r, [runner[r] EXCEPT !.pc = "serving"])
  /\ UNCHANGED database

\* An error at any of the steps, a crash, or the operator: the transaction is
\* rolled back and the process ends.
Stop(r) ==
  /\ runner[r].pc # "off"
  /\ Moves(r, Off)
  /\ UNCHANGED database

MigrationsNext ==
  \E r \in Runner :
    \/ \E goal \in {"head", "down"} : Boot(r, goal)
    \/ LoadRevisions(r) \/ ReadVersion(r) \/ UpgradeOne(r) \/ DowngradeOne(r)
    \/ CommitMigration(r) \/ Serve(r) \/ Stop(r)

MigrationsSpec == MigrationsInit /\ [][MigrationsNext]_migrationsVars

-----------------------------------------------------------------------------
(* Properties.                                                             *)

\* The tables and types that the ORM models use are those of the database.
HoldsTheModels(s) ==
  /\ {TableNamed(t) : t \in s.tables} = ModelTables
  /\ UNION {R.types : R \in {Revisions[n] : n \in 1..s.version}} = ModelTypes
  /\ s.types = {t[1] : t \in ModelTypes}

\* An API that serves has the schema of its models, unless somebody has
\* downgraded the database since it read the version; nothing serves from the
\* repository as it is (entrypoint.sh, 011, main.py).
ServesItsSchema ==
  \A c \in Containers : runner[c].pc = "serving" =>
    /\ HoldsTheModels(database) \/ runner[c].lowered
    /\ image = "repaired" /\ ~strict
=============================================================================
