---------------------------- MODULE MCPublishing ----------------------------
(***************************************************************************)
(* Publishing on small instances.  MCPublishing.cfg: two uploads, two      *)
(* workers and two requests, with failing handlers and a dying worker.     *)
(* MCPublishingRace.cfg: one upload, one request and one worker.           *)
(***************************************************************************)
EXTENDS Publishing
=============================================================================
