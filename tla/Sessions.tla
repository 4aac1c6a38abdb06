------------------------------ MODULE Sessions ------------------------------
(***************************************************************************)
(* Devices, sessions and refresh tokens: SessionService and AuthService,   *)
(* driven by the /auth endpoints and by the administrator's suspension.    *)
(*                                                                         *)
(* Every HTTP request is one PostgreSQL transaction (get_db).  A request   *)
(* reads committed rows statement by statement (READ COMMITTED), keeps     *)
(* what it read in memory, and writes when the ORM flushes: the flush only *)
(* takes row locks that matter to others, because nobody sees the written  *)
(* values before the commit.  A request is therefore a small program whose *)
(* steps are its statements, its lock acquisitions and its commit.         *)
(*                                                                         *)
(* Identity.  Requests are numbered in the order in which their            *)
(* transactions start, which is also the order of created_at (now() is the *)
(* transaction's start time).  A request inserts at most one session and   *)
(* one device, so row r of either table is the row request r inserted, and *)
(* its immutable columns (user, device id, device) are those of request r. *)
(***************************************************************************)
EXTENDS Naturals, FiniteSets

CONSTANTS
  Users,        \* accounts
  Keys,         \* client-generated device identifiers
  NoKey,        \* a login that sends no device_id
  MaxRequests,  \* bound: requests in a behaviour
  MaxDevices,   \* settings.max_devices_per_user
  MaxSessions,  \* settings.max_concurrent_sessions
  PoolSize,     \* connections of the pool: requests in flight
  Nobody        \* the holder of a free row

ASSUME SessionsAssumption ==
  /\ MaxRequests \in Nat
  /\ MaxDevices \in Nat \ {0}
  /\ MaxSessions \in Nat \ {0}
  /\ PoolSize \in Nat \ {0}
  /\ NoKey \notin Keys
  /\ Nobody \notin Users
  /\ Nobody \notin 1..MaxRequests

Req == 1..MaxRequests
NoRow == 0
RowId == Req \cup {NoRow}
RowLocks == ({"user"} \X Users) \cup ({"session", "device"} \X Req)

UserRow(u) == <<"user", u>>
SessionRow(s) == <<"session", s>>
DeviceRow(d) == <<"device", d>>

VARIABLES
  account,   \* users.status, per user
  sessions,  \* sessions.status, per row
  devices,   \* devices.status, per row
  expired,   \* sessions whose expires_at has passed
  lock,      \* the request that holds each row lock
  req,       \* what each request asked for, and who had committed before it
  tx         \* each request's transaction: position, buffered writes, waits

vars == <<account, sessions, devices, expired, lock, req, tx>>

SessionStatus == {"none", "active", "revoked", "expired"}
DeviceStatus == {"none", "active", "revoked"}
Ops == {"login", "refresh", "revoke_session", "revoke_device",
        "logout_all", "suspend", "unsuspend"}
Ended == {"committed", "aborted"}
Running == {"device", "device_limit", "account", "expire", "count", "oldest",
            "revoke_rows", "write"}

Request == [op : Ops \cup {"none"}, user : Users \cup {Nobody},
            key : Keys \cup {NoKey}, target : RowId, before : SUBSET Req]

Transaction == [pc : {"idle"} \cup Running \cup Ended,
                device : RowId,           \* the device the new session is bound to
                victims : SUBSET Req,     \* sessions this transaction revokes
                wants : SUBSET RowLocks]  \* row locks its current flush still needs

Committed == {r \in Req : tx[r].pc = "committed"}
InFlight == {r \in Req : tx[r].pc \in Running}

\* Row locks are held by open transactions only.
HeldInFlight == \A x \in RowLocks : lock[x] # Nobody => lock[x] \in InFlight

TypeOK ==
  /\ account \in [Users -> {"active", "suspended"}]
  /\ sessions \in [Req -> SessionStatus]
  /\ devices \in [Req -> DeviceStatus]
  /\ expired \in SUBSET Req
  /\ lock \in [RowLocks -> Req \cup {Nobody}]
  /\ req \in [Req -> Request]
  /\ tx \in [Req -> Transaction]
  /\ HeldInFlight

Init ==
  /\ account = [u \in Users |-> "active"]
  /\ sessions = [s \in Req |-> "none"]
  /\ devices = [d \in Req |-> "none"]
  /\ expired = {}
  /\ lock = [x \in RowLocks |-> Nobody]
  /\ req = [r \in Req |-> [op |-> "none", user |-> Nobody, key |-> NoKey,
                           target |-> NoRow, before |-> {}]]
  /\ tx = [r \in Req |-> [pc |-> "idle", device |-> NoRow,
                          victims |-> {}, wants |-> {}]]

ActiveSessions(u) == {s \in Req : sessions[s] = "active" /\ req[s].user = u}
ActiveDevices(u) == {d \in Req : devices[d] = "active" /\ req[d].user = u}
DevicesFor(u, k) ==
  {d \in Req : devices[d] # "none" /\ req[d].user = u /\ req[d].key = k}
SessionsOn(d) == {s \in Req : sessions[s] = "active" /\ tx[s].device = d}

Inserts(r) == req[r].op \in {"login", "refresh"}

-----------------------------------------------------------------------------
(* The transaction machinery: PostgreSQL's row locks under the ORM.        *)

Release_LocksKept(r) == lock

Release(r) == [x \in RowLocks |-> IF lock[x] = r THEN Nobody ELSE lock[x]]

Missing(r, rows) == {x \in rows : lock[x] # r}

\* A flush obtains the row locks it needs one after the other.
Acquire(r) ==
  \E x \in tx[r].wants :
    /\ lock[x] = Nobody
    /\ lock' = [lock EXCEPT ![x] = r]
    /\ tx' = [tx EXCEPT ![r].wants = @ \ {x}]
    /\ UNCHANGED <<account, sessions, devices, expired, req>>

\* The statement at this position may run: the previous flush has its locks.
At(r, pc) == tx[r].pc = pc /\ tx[r].wants = {}

Tx(pc, device, victims, wants) ==
  [pc |-> pc, device |-> device, victims |-> victims, wants |-> wants]

\* Mutant: get_db without its rollback, the transaction stays open.
Rollback_LeftOpen(r) ==
  /\ tx' = [tx EXCEPT ![r] = Tx("aborted", NoRow, {}, {})]
  /\ UNCHANGED <<account, sessions, devices, expired, lock, req>>

Rollback(r) ==
  /\ lock' = Release(r)
  /\ tx' = [tx EXCEPT ![r] = Tx("aborted", NoRow, {}, {})]
  /\ UNCHANGED <<account, sessions, devices, expired, req>>

\* A request starts as soon as the pool has a connection for it.
Begin(r, o, u, k, t, first) ==
  /\ tx[r].pc = "idle"
  /\ \A q \in Req : q < r => tx[q].pc # "idle"
  /\ Cardinality(InFlight) < PoolSize
  /\ req' = [req EXCEPT ![r] = [op |-> o, user |-> u, key |-> k,
                                target |-> t, before |-> Committed]]
  /\ tx' = [tx EXCEPT ![r] = first]
  /\ UNCHANGED <<account, sessions, devices, expired, lock>>

-----------------------------------------------------------------------------
(* Login.  AuthService.login, then register_or_update_device and           *)
(* create_session.                                                         *)

Login(r, u, k) ==
  /\ account[u] = "active"
  /\ Begin(r, "login", u, k, NoRow,
           Tx(IF k = NoKey THEN "count" ELSE "device", NoRow, {}, {}))

LookupDevice_RevokedIgnored(r) ==
  /\ At(r, "device")
  /\ LET u == req[r].user
         rows == DevicesFor(u, req[r].key)
     IN  IF rows = {}
         THEN tx' = [tx EXCEPT ![r].pc = "device_limit"]
         ELSE \E d \in rows :
                tx' = [tx EXCEPT ![r] =
                         Tx("count", d, {}, {UserRow(u), DeviceRow(d)})]
  /\ UNCHANGED <<account, sessions, devices, expired, lock, req>>

\* select(Device) by (user, device_id).  The pair is not unique: with several
\* rows the first one the database returns is taken.  The flush of
\* last_seen_at also writes the pending last_login_at: it locks both rows.
LookupDevice(r) ==
  /\ At(r, "device")
  /\ LET u == req[r].user
         rows == DevicesFor(u, req[r].key)
     IN  \/ /\ rows = {}
            /\ tx' = [tx EXCEPT ![r].pc = "device_limit"]
            /\ UNCHANGED <<account, sessions, devices, expired, lock, req>>
         \/ \E d \in rows :
              /\ devices[d] = "active"
              /\ tx' = [tx EXCEPT ![r] =
                          Tx("count", d, {}, {UserRow(u), DeviceRow(d)})]
              /\ UNCHANGED <<account, sessions, devices, expired, lock, req>>
         \/ \E d \in rows : devices[d] = "revoked" /\ Rollback(r)

CheckDeviceLimit_OffByOne(r) ==
  /\ At(r, "device_limit")
  /\ Cardinality(ActiveDevices(req[r].user)) <= MaxDevices
  /\ tx' = [tx EXCEPT ![r] =
                    Tx("count", r, {}, {UserRow(req[r].user)})]
  /\ UNCHANGED <<account, sessions, devices, expired, lock, req>>

\* select(count(Device)), then the insert of a new row or Forbidden.
CheckDeviceLimit(r) ==
  /\ At(r, "device_limit")
  /\ \/ /\ Cardinality(ActiveDevices(req[r].user)) < MaxDevices
        /\ tx' = [tx EXCEPT ![r] =
                    Tx("count", r, {}, {UserRow(req[r].user)})]
        /\ UNCHANGED <<account, sessions, devices, expired, lock, req>>
     \/ /\ Cardinality(ActiveDevices(req[r].user)) >= MaxDevices
        /\ Rollback(r)

-----------------------------------------------------------------------------
(* Refresh.  AuthService.refresh: validate_refresh_session, the account    *)
(* check, the rotation and create_session.                                 *)

Refresh_StatusIgnored(r, s) ==
  /\ sessions[s] # "none"
  /\ s \notin expired
  /\ Begin(r, "refresh", req[s].user, NoKey, s,
           Tx("account", tx[s].device, {}, {SessionRow(s)}))

\* The token of session s is in its client's hands once s is committed.  The
\* status is checked on the row as read here; the flush of last_activity_at
\* locks the row and may wait for whoever is changing it, but the status in
\* memory is not read again.
Refresh(r, s) ==
  /\ sessions[s] = "active"
  /\ Begin(r, "refresh", req[s].user, NoKey, s,
           Tx(IF s \in expired THEN "expire" ELSE "account",
                 tx[s].device, {}, {SessionRow(s)}))

\* The session is flushed as EXPIRED, and the AuthError that follows makes
\* get_db roll it back: the row stays active, and goes on being counted.
ExpireSession(r) == At(r, "expire") /\ Rollback(r)

CheckAccount_Skipped(r) ==
  /\ At(r, "account")
  /\ tx' = [tx EXCEPT ![r] = Tx("count", @.device, {req[r].target}, {})]
  /\ UNCHANGED <<account, sessions, devices, expired, lock, req>>

\* get(User) is a statement of its own, after the session's flush.  The old
\* session is then marked REVOKED in memory: nothing is flushed yet.
CheckAccount(r) ==
  /\ At(r, "account")
  /\ \/ /\ account[req[r].user] = "active"
        /\ tx' = [tx EXCEPT ![r] = Tx("count", @.device, {req[r].target}, {})]
        /\ UNCHANGED <<account, sessions, devices, expired, lock, req>>
     \/ /\ account[req[r].user] = "suspended"
        /\ Rollback(r)

-----------------------------------------------------------------------------
(* create_session, shared by login and refresh.                            *)

\* Rows the last flush writes: the evicted or rotated sessions, and for a
\* login the user's last_login_at.
FlushRows(r, victims) ==
  Missing(r, {SessionRow(s) : s \in victims}
             \cup (IF req[r].op = "login" THEN {UserRow(req[r].user)} ELSE {}))

\* The count sees committed rows: autoflush is off, so a rotated session
\* still counts as active here.
CountSessions_OffByOne(r) ==
  /\ At(r, "count")
  /\ tx' = IF Cardinality(ActiveSessions(req[r].user)) > MaxSessions
           THEN [tx EXCEPT ![r].pc = "oldest"]
           ELSE [tx EXCEPT ![r] =
                    Tx("write", @.device, @.victims, FlushRows(r, @.victims))]
  /\ UNCHANGED <<account, sessions, devices, expired, lock, req>>

CountSessions(r) ==
  /\ At(r, "count")
  /\ \/ /\ Cardinality(ActiveSessions(req[r].user)) >= MaxSessions
        /\ tx' = [tx EXCEPT ![r].pc = "oldest"]
     \/ /\ Cardinality(ActiveSessions(req[r].user)) < MaxSessions
        /\ tx' = [tx EXCEPT ![r] =
                    Tx("write", @.device, @.victims, FlushRows(r, @.victims))]
  /\ UNCHANGED <<account, sessions, devices, expired, lock, req>>

Oldest_Newest(u) == {s \in ActiveSessions(u) : \A t \in ActiveSessions(u) : t <= s}

\* The oldest active session, if there still is one, is revoked: one only.
Oldest(u) == {s \in ActiveSessions(u) : \A t \in ActiveSessions(u) : s <= t}

RevokeOldest(r) ==
  /\ At(r, "oldest")
  /\ LET victims == tx[r].victims \cup Oldest(req[r].user)
     IN  tx' = [tx EXCEPT ![r] =
                    Tx("write", @.device, victims, FlushRows(r, victims))]
  /\ UNCHANGED <<account, sessions, devices, expired, lock, req>>

-----------------------------------------------------------------------------
(* The owner's and the administrator's requests.                           *)

RevokeSession(r, u, s) ==
  /\ account[u] = "active"
  /\ sessions[s] # "none" /\ req[s].user = u
  /\ Begin(r, "revoke_session", u, NoKey, s,
           Tx("write", NoRow, {s}, {SessionRow(s)}))

\* The bulk UPDATE locks the sessions active in its snapshot; the device
\* itself is written by the flush that follows.
RevokeDevice(r, u, d) ==
  /\ account[u] = "active"
  /\ devices[d] # "none" /\ req[d].user = u
  /\ Begin(r, "revoke_device", u, NoKey, d,
           Tx("revoke_rows", NoRow, SessionsOn(d),
                 {SessionRow(s) : s \in SessionsOn(d)}))

FlushDevice(r) ==
  /\ At(r, "revoke_rows")
  /\ tx' = [tx EXCEPT ![r] =
              Tx("write", @.device, @.victims, {DeviceRow(req[r].target)})]
  /\ UNCHANGED <<account, sessions, devices, expired, lock, req>>

RevokeAllSessions_ExceptNewest(r, u) ==
  LET rows == {s \in ActiveSessions(u) : \E t \in ActiveSessions(u) : s < t}
  IN  /\ account[u] = "active"
      /\ Begin(r, "logout_all", u, NoKey, NoRow,
               Tx("write", NoRow, rows, {SessionRow(s) : s \in rows}))

RevokeAllSessions(r, u) ==
  /\ account[u] = "active"
  /\ Begin(r, "logout_all", u, NoKey, NoRow,
           Tx("write", NoRow, ActiveSessions(u),
                 {SessionRow(s) : s \in ActiveSessions(u)}))

\* A status assigned the value it was read with is no change to flush.
ChangesAccount(u, status) == IF account[u] = status THEN {} ELSE {UserRow(u)}

SuspendUser(r, u) ==
  Begin(r, "suspend", u, NoKey, NoRow,
        Tx("write", NoRow, {}, ChangesAccount(u, "suspended")))

UnsuspendUser(r, u) ==
  Begin(r, "unsuspend", u, NoKey, NoRow,
        Tx("write", NoRow, {}, ChangesAccount(u, "active")))

-----------------------------------------------------------------------------
(* The end of a request.                                                   *)

\* get_db commits once the handler has returned: every buffered write
\* becomes visible at once and the locks are released.
Commit(r) ==
  /\ At(r, "write")
  /\ sessions' = [s \in Req |-> IF s \in tx[r].victims THEN "revoked"
                                ELSE IF s = r /\ Inserts(r) THEN "active"
                                ELSE sessions[s]]
  /\ devices' = [d \in Req |->
                   IF req[r].op = "revoke_device" /\ d = req[r].target
                   THEN "revoked"
                   ELSE IF d = r /\ tx[r].device = r THEN "active"
                   ELSE devices[d]]
  /\ account' = [u \in Users |->
                   IF lock[UserRow(u)] # r THEN account[u]
                   ELSE IF req[r].op = "suspend" THEN "suspended"
                   ELSE IF req[r].op = "unsuspend" THEN "active"
                   ELSE account[u]]
  /\ lock' = Release(r)
  /\ tx' = [tx EXCEPT ![r].pc = "committed"]
  /\ UNCHANGED <<expired, req>>

\* PostgreSQL's deadlock detector: S waits only on itself.
Blocked(r) == tx[r].wants # {} /\ \A x \in tx[r].wants : lock[x] # Nobody

Deadlocked(S) ==
  \A r \in S : Blocked(r) /\ \E x \in tx[r].wants : lock[x] \in S

DeadlockVictim(r) ==
  /\ \E S \in SUBSET InFlight : r \in S /\ Deadlocked(S)
  /\ Rollback(r)

\* The client disconnects, the process dies or the database refuses: the
\* transaction is rolled back wherever it stands.
Crash(r) == r \in InFlight /\ Rollback(r)

\* expires_at passes: it is the same time after every creation, so what was
\* committed before s was begun expires first.
Expire(s) ==
  /\ sessions[s] = "active" /\ s \notin expired
  /\ \A t \in req[s].before : sessions[t] = "active" => t \in expired
  /\ expired' = expired \cup {s}
  /\ UNCHANGED <<account, sessions, devices, lock, req, tx>>

Start(r) ==
  \/ \E u \in Users, k \in Keys \cup {NoKey} : Login(r, u, k)
  \/ \E s \in Req : Refresh(r, s)
  \/ \E u \in Users, s \in Req : RevokeSession(r, u, s)
  \/ \E u \in Users, d \in Req : RevokeDevice(r, u, d)
  \/ \E u \in Users : RevokeAllSessions(r, u)
  \/ \E u \in Users : SuspendUser(r, u)
  \/ \E u \in Users : UnsuspendUser(r, u)

Step(r) ==
  \/ Acquire(r)
  \/ LookupDevice(r)
  \/ CheckDeviceLimit(r)
  \/ ExpireSession(r)
  \/ CheckAccount(r)
  \/ CountSessions(r)
  \/ RevokeOldest(r)
  \/ FlushDevice(r)
  \/ Commit(r)
  \/ DeadlockVictim(r)

\* Every request of the bound has been answered.
AllAnswered == (\A r \in Req : tx[r].pc \in Ended) /\ UNCHANGED vars

Next ==
  \/ \E r \in Req : Start(r) \/ Step(r) \/ Crash(r)
  \/ \E s \in Req : Expire(s)
  \/ AllAnswered

Spec == Init /\ [][Next]_vars

\* A request that can take its next step takes it: handlers do not pause, the
\* lock manager grants a free lock, and deadlocks are detected.
FairSpec == Spec /\ \A r \in Req : WF_vars(Step(r))

-----------------------------------------------------------------------------
(* Properties.  `before` relates a request to those committed when it      *)
(* began, so "r began after q's commit" is q \in req[r].before.            *)

\* After a logout-all has committed, no session that was committed before the
\* logout began is active: concurrent logins may survive it, earlier ones never.
LogoutAllIsComplete ==
  \A q \in Committed : req[q].op = "logout_all" =>
    \A s \in req[q].before :
      Inserts(s) /\ req[s].user = req[q].user => sessions[s] # "active"

\* A committed revocation of a device row ends every session on it that was
\* committed before, and no login that began afterwards is bound to that row.
RevokedDeviceStaysOut ==
  \A q \in Committed : req[q].op = "revoke_device" =>
    /\ \A s \in req[q].before :
         Inserts(s) /\ tx[s].device = req[q].target => sessions[s] # "active"
    /\ \A r \in Committed :
         req[r].op = "login" /\ q \in req[r].before
           => tx[r].device # req[q].target

\* A refresh never succeeds with a token that a request committed before it
\* began had revoked, whichever request that was: a logout, the eviction of
\* the oldest session, a device's revocation or an earlier rotation.
ReplayedTokenRejected ==
  \A r \in Committed : req[r].op = "refresh" =>
    \A q \in req[r].before : req[r].target \notin tx[q].victims

\* A session created although a suspension was committed before its request
\* began needs an unsuspension that came after that suspension began.
SuspensionBars ==
  \A r \in Committed : Inserts(r) =>
    \A q \in req[r].before :
      req[q].op = "suspend" /\ req[q].user = req[r].user =>
        \E p \in Committed : /\ req[p].op = "unsuspend"
                             /\ req[p].user = req[r].user
                             /\ p \notin req[q].before

Overlap(a, b) == a \notin req[b].before /\ b \notin req[a].before

\* The limit of concurrent sessions is exceeded only when two creations
\* overlapped and one of them counted without the user's row lock: a refresh
\* or a login without device_id.  Logins with a device_id never race it.
LimitExceededOnlyByUnlockedCount ==
  \A u \in Users : Cardinality(ActiveSessions(u)) > MaxSessions =>
    \E a, b \in Committed :
      /\ a # b /\ Inserts(a) /\ Inserts(b)
      /\ req[a].user = u /\ req[b].user = u
      /\ req[a].key = NoKey
      /\ Overlap(a, b)

\* An expired session counts against the limit until somebody evicts it, even
\* after a refresh was refused because of it.  It costs no usable session its
\* place: what create_session evicts is usable only if no expired session of
\* the account is left, up to creations that overlapped.
EvictsExpiredFirst ==
  [][\A r, s, t \in Req :
       /\ At(r, "oldest") /\ s \in tx'[r].victims \ tx[r].victims
       /\ s \notin expired
       /\ t \in ActiveSessions(req[r].user) \cap expired
       => Overlap(s, t)]_vars

\* Too many devices, or two rows for one device, come only from first logins
\* that overlapped: the check and the insert are separate statements.
DeviceTableRacesOnlyByOverlap ==
  \A u \in Users :
    (\/ Cardinality(ActiveDevices(u)) > MaxDevices
     \/ \E k \in Keys : Cardinality(DevicesFor(u, k)) > 1)
    => \E a, b \in Committed :
         /\ a # b /\ Overlap(a, b)
         /\ req[a].user = u /\ req[b].user = u
         /\ tx[a].device = a /\ tx[b].device = b

\* Every request is answered: lock waits end and deadlocks are broken.
RequestsAreAnswered ==
  \A r \in Req : tx[r].pc \in Running ~> tx[r].pc \in Ended

\* "Revoke all sessions on this device" (session.py:194): once the
\* revocation has committed, no session is active on the device.
RevokedDeviceHasNoSession ==
  \A d \in Req : devices[d] = "revoked" => SessionsOn(d) = {}
=============================================================================
