----------------------------- MODULE MCJobQueue -----------------------------
(***************************************************************************)
(* JobQueue on a small instance: three enqueue calls, two of which may     *)
(* share a key, two workers and one canceller.                             *)
(***************************************************************************)
EXTENDS JobQueue
=============================================================================
