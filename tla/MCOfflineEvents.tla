--------------------------- MODULE MCOfflineEvents ---------------------------
(***************************************************************************)
(* Two events, the flush at the start beside one of the NetInfo listener,  *)
(* a queue of three, batches of two and one failure or restart: overlaps,  *)
(* trimming, oversized batches, lost answers and two requests with the     *)
(* same event all occur.                                                   *)
(***************************************************************************)
EXTENDS OfflineEvents
=============================================================================
