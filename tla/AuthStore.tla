------------------------------ MODULE AuthStore ------------------------------
(***************************************************************************)
(* The mobile authentication store (authStore) and the tokens its client   *)
(* keeps in AsyncStorage.                                                  *)
(*                                                                         *)
(* hydrate asks the server who the stored token belongs to; login and      *)
(* register save tokens and then show the user; logout waits for the       *)
(* server, removes the tokens and shows nobody.  Each is a chain of awaits *)
(* and the chains of two taps interleave.  AsyncStorage answers in the     *)
(* order it is asked, so its effect and what the store sets when it        *)
(* answers are one step.                                                   *)
(***************************************************************************)
EXTENDS Naturals

CONSTANTS
  Accounts, NoAccount,  \* who may sign in, and nobody
  MaxSigns              \* bound: calls of hydrate, login, register and logout

ASSUME AuthStoreAssumption == NoAccount \notin Accounts /\ MaxSigns \in Nat

Sign == 1..MaxSigns

\* The modes besides listening; each comes with roles of its name.
Extra == {"artist", "admin"}

VARIABLES
  auth,    \* the store; by: the call whose answer it shows
  stored,  \* whose tokens are in AsyncStorage
  sign,    \* what each call since the start awaits; of: by when it was made
  undone   \* the logouts since the start that ended a login they were not made for

authVars == <<auth, stored, sign, undone>>

deriveModes(roles) == {"listener"} \cup roles

AuthState ==
  [user : Accounts \cup {NoAccount}, roles : SUBSET Extra, activeMode : {"listener"} \cup Extra,
   isHydrated : BOOLEAN, isLoading : BOOLEAN, error : BOOLEAN, by : {0} \cup Sign]

SignState ==
  [pc : {"new", "me", "register", "login", "save", "logout", "clear", "done"},
   op : {"none", "hydrate", "login", "logout"},
   account : Accounts \cup {NoAccount}, of : {0} \cup Sign]

AuthTypeOK ==
  /\ auth \in AuthState
  /\ auth.activeMode \in deriveModes(auth.roles)
  /\ stored \in Accounts \cup {NoAccount}
  /\ sign \in [Sign -> SignState]
  /\ undone \subseteq Sign

SignedOut == [user |-> NoAccount, roles |-> {}, activeMode |-> "listener", isHydrated |-> FALSE,
              isLoading |-> FALSE, error |-> FALSE, by |-> 0]

NewSign == [pc |-> "new", op |-> "none", account |-> NoAccount, of |-> 0]

AuthInit ==
  /\ auth = SignedOut
  /\ stored \in Accounts \cup {NoAccount}
  /\ sign = [c \in Sign |-> NewSign]
  /\ undone = {}

\* The next call is made.
Calls(c, op, pc, a) ==
  /\ sign[c].pc = "new" /\ \A d \in Sign : d < c => sign[d].pc # "new"
  /\ sign' = [sign EXCEPT ![c] = [pc |-> pc, op |-> op, account |-> a, of |-> auth.by]]
  /\ UNCHANGED <<stored, undone>>

\* Call c was at pc and goes on at next.
Continues(c, pc, next) ==
  /\ sign[c].pc = pc
  /\ sign' = [sign EXCEPT ![c].pc = next]

\* Call c shows the user of account a, with the roles the server answers.
Shows(c, a, mode) ==
  \E roles \in SUBSET Extra :
    auth' = [auth EXCEPT !.user = a, !.roles = roles, !.isHydrated = TRUE, !.isLoading = FALSE,
                         !.by = c,
                         !.activeMode = IF mode \in deriveModes(roles) THEN mode ELSE "listener"]

-----------------------------------------------------------------------------
(* hydrate, once per start: nothing else is offered before it has ended.   *)

Hydrate(c) ==
  /\ \A d \in Sign : sign[d].op # "hydrate"
  /\ Calls(c, "hydrate", "me", stored)
  /\ UNCHANGED auth

Me(c) ==
  /\ sign[c].account # NoAccount
  /\ Continues(c, "me", "done") /\ Shows(c, sign[c].account, auth.activeMode)
  /\ UNCHANGED <<stored, undone>>

\* No token, one that has run out, no network: all are answered by clearing.
MeFails(c) == Continues(c, "me", "clear") /\ UNCHANGED <<auth, stored, undone>>

-----------------------------------------------------------------------------
(* login and register, from the login screen whose button waits for them.  *)

CanSignIn == auth.isHydrated /\ auth.user = NoAccount /\ ~auth.isLoading

Login(c, a) ==
  /\ CanSignIn
  /\ \E pc \in {"login", "register"} : Calls(c, "login", pc, a)
  /\ auth' = [auth EXCEPT !.isLoading = TRUE, !.error = FALSE]

\* register goes on with login.
Registered(c) ==
  /\ Continues(c, "register", "login")
  /\ auth' = [auth EXCEPT !.isLoading = TRUE, !.error = FALSE]
  /\ UNCHANGED <<stored, undone>>

LoggedIn(c) == Continues(c, "login", "save") /\ UNCHANGED <<auth, stored, undone>>

\* setTokens, and the user.
SaveTokens(c) ==
  /\ Continues(c, "save", "done")
  /\ stored' = sign[c].account
  /\ Shows(c, sign[c].account, "listener")
  /\ UNCHANGED undone

\* Either request fails, or the tokens cannot be written.
LoginFails(c) ==
  /\ \E pc \in {"register", "login", "save"} : Continues(c, pc, "done")
  /\ auth' = [auth EXCEPT !.isLoading = FALSE, !.error = TRUE]
  /\ UNCHANGED <<stored, undone>>

-----------------------------------------------------------------------------
(* logout, a button of the listener's home that does not wait for it.      *)

Logout(c) ==
  /\ auth.user # NoAccount /\ auth.activeMode = "listener"
  /\ Calls(c, "logout", "logout", NoAccount)
  /\ UNCHANGED auth

\* Whatever the server says; it has no such endpoint and keeps the session.
LogoutAnswered(c) == Continues(c, "logout", "clear") /\ UNCHANGED <<auth, stored, undone>>

\* Mutant: the tokens stay on the device.
ClearTokens_Kept(c) ==
  /\ Continues(c, "clear", "done")
  /\ auth' = [SignedOut EXCEPT !.isHydrated = TRUE, !.isLoading = auth.isLoading,
                               !.error = auth.error /\ sign[c].op = "hydrate"]
  /\ UNCHANGED <<stored, undone>>

\* clearTokens, and nobody.  isLoading is not among what is set.
ClearTokens(c) ==
  /\ Continues(c, "clear", "done")
  /\ stored' = NoAccount
  /\ auth' = [SignedOut EXCEPT !.isHydrated = TRUE, !.isLoading = auth.isLoading,
                               !.error = auth.error /\ sign[c].op = "hydrate"]
  /\ undone' = undone \cup (IF auth.user # NoAccount /\ sign[c].of # auth.by THEN {c} ELSE {})

\* clearTokens rejects: hydrate and logout set nothing.
ClearFails(c) == Continues(c, "clear", "done") /\ UNCHANGED <<auth, stored, undone>>

-----------------------------------------------------------------------------
\* Mutant: any mode may be chosen.
SetMode_Ungated(m) ==
  /\ auth.user # NoAccount
  /\ auth' = [auth EXCEPT !.activeMode = m]
  /\ UNCHANGED <<stored, sign, undone>>

\* setMode: one of the modes that the roles give.
SetMode(m) ==
  /\ auth.user # NoAccount /\ m \in deriveModes(auth.roles) \ {auth.activeMode}
  /\ auth' = [auth EXCEPT !.activeMode = m]
  /\ UNCHANGED <<stored, sign, undone>>

\* The application is killed and started again: a storage call that was under
\* way may have been carried out.
AuthRestart ==
  /\ \E c \in Sign : sign[c].pc = "new"
  /\ \E c \in Sign : sign[c].op # "none"
  /\ stored' \in {stored} \cup {sign[c].account : c \in {d \in Sign : sign[d].pc = "save"}}
                          \cup {NoAccount : c \in {d \in Sign : sign[d].pc = "clear"}}
  /\ auth' = SignedOut
  /\ sign' = [c \in Sign |-> IF sign[c].pc = "new" THEN NewSign ELSE [NewSign EXCEPT !.pc = "done"]]
  /\ undone' = {}

AuthNext ==
  \/ \E c \in Sign :
       \/ Hydrate(c) \/ Me(c) \/ MeFails(c)
       \/ \E a \in Accounts : Login(c, a)
       \/ Registered(c) \/ LoggedIn(c) \/ SaveTokens(c) \/ LoginFails(c)
       \/ Logout(c) \/ LogoutAnswered(c) \/ ClearTokens(c) \/ ClearFails(c)
  \/ \E m \in {"listener"} \cup Extra : SetMode(m)
  \/ AuthRestart

AuthSpec == AuthInit /\ [][AuthNext]_authVars

-----------------------------------------------------------------------------
(* Properties.                                                             *)

\* Two logouts that were made for the same login.
LogoutTwice ==
  \E c, d \in Sign : c # d /\ sign[c].op = "logout" /\ sign[d].op = "logout"
                     /\ sign[c].of = sign[d].of

\* While the application shows its screens, the user it shows is the one whose
\* tokens its requests carry; and a login is undone by a logout that was not
\* made for it only if logout was tapped twice (authStore.logout, 98-106).
UserMatchesToken ==
  /\ auth.isHydrated => auth.user = stored
  /\ undone # {} => LogoutTwice
=============================================================================
