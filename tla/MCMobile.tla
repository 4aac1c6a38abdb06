------------------------------ MODULE MCMobile ------------------------------
(***************************************************************************)
(* Three parts of the mobile application that share no state, in one run:  *)
(* a behaviour is one of the downloads, of the player, or of the           *)
(* authentication store.  Downloads: two tracks, two taps, two loops at a  *)
(* time and one failure or restart, enough for loops on the same job and   *)
(* on different ones and for updates that overlap.  Player: initEngine and *)
(* two calls more, with a second track to replace the first.               *)
(* Authentication: two accounts and five calls, enough for a login, two    *)
(* logouts, and another login between them.                                *)
(***************************************************************************)
EXTENDS Downloads, Player, AuthStore

VARIABLE part

MCVars == <<part, vars, playerVars, authVars>>

MCInit ==
  /\ part \in {"downloads", "player", "auth"}
  /\ Init /\ PlayerInit /\ AuthInit
  /\ part # "player" => ~native.linked
  /\ part # "auth" => stored = NoAccount

MCNext ==
  /\ part' = part
  /\ \/ part = "downloads" /\ Next /\ UNCHANGED <<playerVars, authVars>>
     \/ part = "player" /\ PlayerNext /\ UNCHANGED <<vars, authVars>>
     \/ part = "auth" /\ AuthNext /\ UNCHANGED <<vars, playerVars>>

MCSpec == MCInit /\ [][MCNext]_MCVars /\ \A p \in Loops : WF_vars(LoopStep(p))

MobileTypeOK == TypeOK /\ PlayerTypeOK /\ AuthTypeOK
=============================================================================
