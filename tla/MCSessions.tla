----------------------------- MODULE MCSessions -----------------------------
(***************************************************************************)
(* Sessions on small instances.  MCSessions.cfg: one account, two devices, *)
(* four requests of which two run at a time, limits of one, safety only.   *)
(* MCSessionsLive.cfg: two accounts, three requests, with the fairness of  *)
(* FairSpec and no symmetry.  MCSessionsDevice.cfg: one account, one       *)
(* device, three requests, the limit of sessions not in the way.           *)
(***************************************************************************)
EXTENDS Sessions, TLC

\* Client device identifiers are interchangeable.
KeySymmetry == Permutations(Keys)
=============================================================================
