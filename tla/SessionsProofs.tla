--------------------------- MODULE SessionsProofs ---------------------------
(***************************************************************************)
(* What holds of Sessions for every number of accounts, devices, requests, *)
(* every limit and every pool size.  The inductive invariant SessionsInv   *)
(* says what a request's buffered writes promise while it is running.      *)
(***************************************************************************)
EXTENDS Sessions, TLAPS, FiniteSetTheorems, WellFoundedInduction

-----------------------------------------------------------------------------
(* Types.                                                                  *)

\* The lock of every user, session and device is among the row locks.
LEMMA RowsAreLocks ==
  /\ \A u \in Users : UserRow(u) \in RowLocks
  /\ \A s \in Req : SessionRow(s) \in RowLocks /\ DeviceRow(s) \in RowLocks
BY DEF UserRow, SessionRow, DeviceRow, RowLocks

\* The holder of a free row is neither a request nor a user.
LEMMA NobodyIsNoRequest == Nobody \notin Req /\ Nobody \notin Users
BY SessionsAssumption DEF Req

\* No request has the number that stands for no row.
LEMMA NoRowIsNoRequest == NoRow \notin Req
BY SessionsAssumption DEF Req, NoRow


USE DEF Ended

-----------------------------------------------------------------------------
(* Shape: the relations every reachable state has between a request, its   *)
(* position and the rows, and the few forms a step can take.               *)

\* A request that has started has a user.
HasUser == \A r \in Req : req[r].op # "none" => req[r].user \in Users

IdleInv == \A r \in Req : tx[r].pc = "idle" <=> req[r].op = "none"

\* A row exists only once the request that inserts it has committed.
RowsInv == \A s \in Req :
  sessions[s] # "none" \/ devices[s] # "none" => tx[s].pc = "committed"

\* The positions of each kind of request.
Fits(o, pc) ==
  /\ pc \in {"device", "device_limit"} => o = "login"
  /\ pc \in {"account", "expire"} => o = "refresh"
  /\ pc \in {"count", "oldest"} => o \in {"login", "refresh"}
  /\ pc = "revoke_rows" => o = "revoke_device"

PcInv == \A r \in Req : Fits(req[r].op, tx[r].pc)

\* Whoever committed before a request began is committed.
HistoryInv == \A r \in Req : req[r].before \subseteq Committed

\* The rows a transaction names were inserted by committed requests.
NamesInv == \A r \in Req :
  /\ tx[r].victims \subseteq Committed
  /\ req[r].op = "refresh" => req[r].target \in Committed
  /\ req[r].op = "revoke_device" =>
       req[r].target \in Req /\ devices[req[r].target] # "none"

\* Only a running request waits for rows.
PendingInv == \A r \in Req : tx[r].pc \notin Running => tx[r].wants = {}

Shaped == TypeOK /\ HasUser /\ IdleInv /\ RowsInv /\ PcInv /\ HistoryInv
  /\ NamesInv /\ PendingInv

USE DEF Shaped

\* A request begins: at one of its kind's first positions, after Committed.
Begins(r, o, u, k, t, first) ==
  /\ o \in Ops /\ u \in Users /\ k \in Keys \cup {NoKey} /\ t \in RowId
  /\ first \in Transaction /\ first.pc \in Running /\ Fits(o, first.pc)
  /\ \A s \in first.victims : sessions[s] # "none"
  /\ o = "refresh" => t \in Req /\ sessions[t] = "active"
  /\ o = "revoke_device" =>
       t \in Req /\ devices[t] # "none" /\ first.victims = SessionsOn(t)
  /\ o = "logout_all" => first.victims = ActiveSessions(u)
  /\ o = "login" => first.device = NoRow
  /\ Begin(r, o, u, k, t, first)

\* A running request moves to another position.  Only a login binds itself to
\* a device, an active one or its own; only creations choose victims.
Moves(r, next) ==
  /\ tx[r].pc \in Running
  /\ next \in Transaction /\ next.pc \in Running /\ Fits(req[r].op, next.pc)
  /\ \/ next.device = tx[r].device
     \/ /\ req[r].op = "login"
        /\ next.device = r \/ devices[next.device] = "active"
  /\ next.victims = tx[r].victims \/ Inserts(r)
  /\ next.victims \subseteq Committed
  /\ tx' = [tx EXCEPT ![r] = next]
  /\ lock' \in [RowLocks -> Req \cup {Nobody}]
  /\ \A x \in RowLocks : lock'[x] \in {lock[x], r}
  /\ UNCHANGED <<account, sessions, devices, expired, req>>

RollsBack(r) == tx[r].pc \in Running /\ Rollback(r)

Commits(r) == tx[r].pc = "write" /\ Commit(r)

Idles == /\ expired' \in SUBSET Req
         /\ UNCHANGED <<account, sessions, devices, lock, req, tx>>

\* The tables start empty, which is well shaped.
LEMMA InitShaped == Init => Shaped
<1> SUFFICES ASSUME Init PROVE Shaped
  OBVIOUS
<1>1. TypeOK
  BY DEF Init, TypeOK, HeldInFlight, Request, Transaction, SessionStatus, DeviceStatus,
         RowId, Running
<1>2. HasUser /\ IdleInv /\ RowsInv /\ PcInv /\ HistoryInv /\ NamesInv /\ PendingInv
  BY DEF Init, HasUser, IdleInv, RowsInv, PcInv, Fits, HistoryInv, NamesInv,
         Committed, PendingInv
<1> QED
  BY <1>1, <1>2

\* A request that begins (get_db opens its transaction) keeps the shape.
LEMMA BeginsShaped ==
  ASSUME Shaped, NEW r \in Req, NEW o, NEW u, NEW k, NEW t, NEW first,
         Begins(r, o, u, k, t, first)
  PROVE  Shaped'
<1> USE DEF Begins, Begin
<1>1. [op |-> o, user |-> u, key |-> k, target |-> t, before |-> Committed]
        \in Request
  BY DEF Request, Committed
<1>2. TypeOK'
  <2>1. HeldInFlight'
    BY DEF TypeOK, HeldInFlight, InFlight
  <2> QED
    BY <1>1, <2>1 DEF TypeOK
<1>3. HasUser' /\ IdleInv' /\ RowsInv' /\ PcInv' /\ PendingInv'
  BY DEF TypeOK, HasUser, IdleInv, RowsInv, PcInv, PendingInv, Ops, Running
<1>4. Committed' = Committed
  BY DEF TypeOK, Committed, Running
<1>5. HistoryInv'
  BY <1>4 DEF TypeOK, HistoryInv
<1>6. NamesInv'
  <2>1. first.victims \subseteq Committed
    BY DEF Transaction, RowsInv, Committed
  <2>2. o = "refresh" => t \in Committed
    BY DEF RowsInv, Committed
  <2> QED
    BY <1>4, <2>1, <2>2 DEF TypeOK, NamesInv
<1> QED
  BY <1>2, <1>3, <1>5, <1>6

\* A request that runs its next statement keeps the shape.
LEMMA MovesShaped ==
  ASSUME Shaped, NEW r \in Req, NEW next, Moves(r, next)
  PROVE  Shaped'
<1> USE DEF Moves
<1>1. TypeOK'
  <2>1. HeldInFlight'
    BY DEF TypeOK, HeldInFlight, InFlight
  <2> QED
    BY <2>1 DEF TypeOK
<1>2. HasUser' /\ IdleInv' /\ RowsInv' /\ PcInv' /\ PendingInv'
  BY DEF TypeOK, HasUser, IdleInv, RowsInv, PcInv, PendingInv, Running
<1>3. Committed' = Committed
  BY DEF TypeOK, Committed, Running
<1>4. HistoryInv'
  BY <1>3 DEF HistoryInv
<1>5. NamesInv'
  BY <1>3 DEF TypeOK, NamesInv
<1> QED
  BY <1>1, <1>2, <1>4, <1>5

\* Releasing a request's row locks leaves a table of locks, none of them its own.
LEMMA ReleaseTyped ==
  ASSUME TypeOK, NEW r \in Req
  PROVE  /\ Release(r) \in [RowLocks -> Req \cup {Nobody}]
         /\ \A x \in RowLocks : Release(r)[x] # r /\ Release(r)[x] \in {lock[x], Nobody}
BY NobodyIsNoRequest DEF Release, TypeOK

\* A request that ends with the release of its locks leaves the others theirs.
LEMMA EndsHeld ==
  ASSUME TypeOK, NEW r \in Req, lock' = Release(r), NEW q, tx' = [tx EXCEPT ![r] = q]
  PROVE  HeldInFlight'
<1>1. \A s \in Req : s # r => tx'[s] = tx[s]
  BY DEF TypeOK
<1>2. ASSUME NEW x \in RowLocks, lock'[x] # Nobody PROVE lock'[x] \in InFlight'
  <2>1. lock'[x] = lock[x] /\ lock[x] # r /\ lock[x] # Nobody
    BY <1>2, ReleaseTyped
  <2>2. lock[x] \in InFlight
    BY <2>1 DEF TypeOK, HeldInFlight
  <2> QED
    BY <1>1, <2>1, <2>2 DEF InFlight
<1> QED
  BY <1>2 DEF HeldInFlight

\* A rollback (get_db's except) keeps the shape.
LEMMA RollsBackShaped ==
  ASSUME Shaped, NEW r \in Req, RollsBack(r)
  PROVE  Shaped'
<1> USE DEF RollsBack, Rollback, Release, Tx
<1>1. TypeOK'
  <2>1. tx' \in [Req -> Transaction]
    BY DEF TypeOK, Tx, Transaction, RowId
  <2>2. lock' \in [RowLocks -> Req \cup {Nobody}]
    BY ReleaseTyped
  <2>3. HeldInFlight'
    BY EndsHeld
  <2> QED
    BY <2>1, <2>2, <2>3 DEF TypeOK
<1>2. HasUser' /\ IdleInv' /\ RowsInv' /\ PcInv' /\ PendingInv'
  BY DEF TypeOK, Transaction, HasUser, IdleInv, RowsInv, PcInv, PendingInv, Running, Fits
<1>3. Committed' = Committed
  BY DEF TypeOK, Transaction, Committed, Running
<1>4. HistoryInv'
  BY <1>3 DEF HistoryInv
<1>5. NamesInv'
  BY <1>3 DEF TypeOK, Transaction, NamesInv
<1> QED
  BY <1>1, <1>2, <1>4, <1>5

\* A commit, which writes what was buffered, keeps the shape.
LEMMA CommitsShaped ==
  ASSUME Shaped, NEW r \in Req, Commits(r)
  PROVE  Shaped'
<1> USE DEF Commits, Commit, Release, At
<1>1. TypeOK'
  <2>1. sessions' \in [Req -> SessionStatus] /\ devices' \in [Req -> DeviceStatus]
    BY DEF TypeOK, SessionStatus, DeviceStatus
  <2>2. account' \in [Users -> {"active", "suspended"}]
    BY DEF TypeOK
  <2>3. tx' \in [Req -> Transaction]
    BY DEF TypeOK, Transaction
  <2>4. HeldInFlight'
    <3> HIDE DEF Release
    <3> QED
      BY EndsHeld
  <2> QED
    BY <2>1, <2>2, <2>3, <2>4, ReleaseTyped DEF TypeOK
<1>2. \A s \in Req : s # r => tx'[s] = tx[s]
  BY DEF TypeOK
<1>3. tx'[r].pc = "committed"
  BY DEF TypeOK, Transaction
<1>4. HasUser' /\ IdleInv' /\ PcInv' /\ PendingInv'
  <2>1. tx'[r].wants = {}
    BY DEF TypeOK, Transaction
  <2> QED
    BY <1>2, <1>3, <2>1 DEF TypeOK, HasUser, IdleInv, PcInv, PendingInv, Fits
<1>5. \A s \in tx[r].victims : s \in Req /\ tx[s].pc = "committed"
  BY DEF NamesInv, Committed
<1>6. RowsInv'
  BY <1>2, <1>3, <1>5 DEF RowsInv, NamesInv, TypeOK
<1>7. Committed' = Committed \cup {r}
  BY <1>2, <1>3 DEF Committed
<1>8. HistoryInv'
  BY <1>7 DEF HistoryInv
<1>9. NamesInv'
  <2>1. \A s \in Req : tx'[s].victims = tx[s].victims
    BY <1>2 DEF TypeOK, Transaction
  <2>2. \A d \in Req : devices[d] # "none" => devices'[d] # "none"
    OBVIOUS
  <2> QED
    BY <1>7, <2>1, <2>2 DEF NamesInv
<1> QED
  BY <1>1, <1>4, <1>6, <1>8, <1>9

\* A session that runs out of time keeps the shape.
LEMMA IdlesShaped == ASSUME Shaped, Idles PROVE Shaped'
<1> USE DEF Idles
<1>1. TypeOK'
  BY DEF TypeOK, HeldInFlight, InFlight
<1>2. HasUser' /\ IdleInv' /\ RowsInv' /\ PcInv' /\ PendingInv'
  BY DEF HasUser, IdleInv, RowsInv, PcInv, PendingInv
<1>3. Committed' = Committed
  BY DEF Committed
<1> QED
  BY <1>1, <1>2, <1>3 DEF HistoryInv, NamesInv

-----------------------------------------------------------------------------
(* Every action of the specification has one of these forms.               *)

Shape ==
  \/ \E r \in Req : \E o, u, k, t, first : Begins(r, o, u, k, t, first)
  \/ \E r \in Req : \E next : Moves(r, next)
  \/ \E r \in Req : RollsBack(r)
  \/ \E r \in Req : Commits(r)
  \/ Idles

\* Every endpoint begins its request in one of the shapes of Begins.
LEMMA StartShape ==
  ASSUME Shaped, NEW r \in Req, Start(r)
  PROVE  \E o, u, k, t, first : Begins(r, o, u, k, t, first)
<1> USE DEF Begins, Tx, Transaction, Running, Ops, RowId, Fits
<1>1. ASSUME NEW u \in Users, NEW k \in Keys \cup {NoKey}, Login(r, u, k)
      PROVE  Begins(r, "login", u, k, NoRow,
                    Tx(IF k = NoKey THEN "count" ELSE "device", NoRow, {}, {}))
  BY <1>1 DEF Login
<1>2. ASSUME NEW s \in Req, Refresh(r, s)
      PROVE  Begins(r, "refresh", req[s].user, NoKey, s,
                    Tx(IF s \in expired THEN "expire" ELSE "account",
                       tx[s].device, {}, {SessionRow(s)}))
  <2>1. req[s].user \in Users
    BY <1>2 DEF Refresh, RowsInv, IdleInv, HasUser
  <2>2. tx[s].device \in RowId
    BY DEF TypeOK
  <2> QED
    BY <1>2, <2>1, <2>2, RowsAreLocks DEF Refresh
<1>3. ASSUME NEW u \in Users, NEW s \in Req, RevokeSession(r, u, s)
      PROVE  Begins(r, "revoke_session", u, NoKey, s,
                    Tx("write", NoRow, {s}, {SessionRow(s)}))
  BY <1>3, RowsAreLocks DEF RevokeSession
<1>4. ASSUME NEW u \in Users, NEW d \in Req, RevokeDevice(r, u, d)
      PROVE  Begins(r, "revoke_device", u, NoKey, d,
                    Tx("revoke_rows", NoRow, SessionsOn(d),
                       {SessionRow(s) : s \in SessionsOn(d)}))
  <2>1. \A s \in SessionsOn(d) : s \in Req /\ sessions[s] # "none"
    BY DEF SessionsOn
  <2>2. {SessionRow(s) : s \in SessionsOn(d)} \subseteq RowLocks
    BY <2>1, RowsAreLocks
  <2> QED
    BY <1>4, <2>1, <2>2 DEF RevokeDevice
<1>5. ASSUME NEW u \in Users, RevokeAllSessions(r, u)
      PROVE  Begins(r, "logout_all", u, NoKey, NoRow,
                    Tx("write", NoRow, ActiveSessions(u),
                       {SessionRow(s) : s \in ActiveSessions(u)}))
  <2>1. \A s \in ActiveSessions(u) : s \in Req /\ sessions[s] # "none"
    BY DEF ActiveSessions
  <2>2. {SessionRow(s) : s \in ActiveSessions(u)} \subseteq RowLocks
    BY <2>1, RowsAreLocks
  <2> QED
    BY <1>5, <2>1, <2>2 DEF RevokeAllSessions
<1>6. ASSUME NEW u \in Users, SuspendUser(r, u)
      PROVE  Begins(r, "suspend", u, NoKey, NoRow,
                    Tx("write", NoRow, {}, ChangesAccount(u, "suspended")))
  BY <1>6, RowsAreLocks DEF SuspendUser, ChangesAccount
<1>7. ASSUME NEW u \in Users, UnsuspendUser(r, u)
      PROVE  Begins(r, "unsuspend", u, NoKey, NoRow,
                    Tx("write", NoRow, {}, ChangesAccount(u, "active")))
  BY <1>7, RowsAreLocks DEF UnsuspendUser, ChangesAccount
<1> HIDE DEF Begins
<1> QED
  BY <1>1, <1>2, <1>3, <1>4, <1>5, <1>6, <1>7 DEF Start

\* Every statement of a request is a move, a rollback or a commit.
LEMMA StepShape ==
  ASSUME Shaped, NEW r \in Req, Step(r)
  PROVE  (\E next : Moves(r, next)) \/ RollsBack(r) \/ Commits(r)
<1> DEFINE Rows(victims) == FlushRows(r, victims)
<1>0. /\ tx[r] \in Transaction
      /\ tx[r].device \in RowId /\ tx[r].victims \subseteq Committed
      /\ tx[r].victims \subseteq Req
  BY DEF TypeOK, Transaction, NamesInv
<1>1. ASSUME tx[r].pc \in Running, NEW v \in SUBSET Req PROVE Rows(v) \subseteq RowLocks
  <2>1. req[r].user \in Users
    BY <1>1 DEF IdleInv, HasUser, Running
  <2> QED
    BY <1>1, <2>1, RowsAreLocks DEF FlushRows, Missing
<1>2. CASE Acquire(r)
  <2>1. PICK x \in tx[r].wants : Acquire(r)!(x)
    BY <1>2 DEF Acquire
  <2>2. tx[r].pc \in Running
    BY <2>1 DEF PendingInv
  <2> DEFINE next == [tx[r] EXCEPT !.wants = @ \ {x}]
  <2>3. next \in Transaction
    BY <1>0 DEF Transaction
  <2>4. next.pc = tx[r].pc /\ next.device = tx[r].device /\ next.victims = tx[r].victims
    BY <1>0 DEF Transaction
  <2>5. Fits(req[r].op, next.pc)
    BY <2>4 DEF PcInv
  <2>6. /\ lock' \in [RowLocks -> Req \cup {Nobody}]
        /\ \A y \in RowLocks : lock'[y] \in {lock[y], r}
    BY <2>1 DEF TypeOK
  <2>7. tx' = [tx EXCEPT ![r] = next]
    BY <2>1 DEF TypeOK
  <2> HIDE DEF next
  <2>8. Moves(r, next)
    BY <1>0, <2>1, <2>2, <2>3, <2>4, <2>5, <2>6, <2>7 DEF Moves
  <2> QED
    BY <2>8
<1>3. CASE LookupDevice(r)
  <2>0. req[r].op = "login" /\ tx[r].pc \in Running /\ UserRow(req[r].user) \in RowLocks
    BY <1>3, RowsAreLocks DEF LookupDevice, At, PcInv, Fits, Running, IdleInv, HasUser
  <2>1. CASE tx' = [tx EXCEPT ![r].pc = "device_limit"] /\ UNCHANGED <<account, sessions, devices, expired, lock, req>>
    <3> DEFINE next == [tx[r] EXCEPT !.pc = "device_limit"]
    <3>1. Moves(r, next)
      BY <1>0, <2>0, <2>1 DEF Moves, TypeOK, Transaction, Running, Fits
    <3> QED
      BY <3>1
  <2>2. ASSUME NEW d \in DevicesFor(req[r].user, req[r].key), devices[d] = "active",
               tx' = [tx EXCEPT ![r] = Tx("count", d, {}, {UserRow(req[r].user), DeviceRow(d)})],
               UNCHANGED <<account, sessions, devices, expired, lock, req>>
        PROVE  \E next : Moves(r, next)
    <3> DEFINE next == Tx("count", d, {}, {UserRow(req[r].user), DeviceRow(d)})
    <3>1. Moves(r, next)
      BY <1>0, <2>0, <2>2, RowsAreLocks
      DEF Moves, TypeOK, Tx, Transaction, Running, Fits, DevicesFor, RowId, Inserts
    <3> QED
      BY <3>1
  <2> QED
    BY <1>3, <2>0, <2>1, <2>2 DEF LookupDevice, RollsBack
<1>4. CASE CheckDeviceLimit(r)
  <2>0. req[r].op = "login" /\ tx[r].pc \in Running /\ UserRow(req[r].user) \in RowLocks
    BY <1>4, RowsAreLocks DEF CheckDeviceLimit, At, PcInv, Fits, Running, IdleInv, HasUser
  <2>1. CASE /\ tx' = [tx EXCEPT ![r] = Tx("count", r, {}, {UserRow(req[r].user)})]
             /\ UNCHANGED <<account, sessions, devices, expired, lock, req>>
    <3> DEFINE next == Tx("count", r, {}, {UserRow(req[r].user)})
    <3>1. Moves(r, next)
      BY <1>0, <2>0, <2>1 DEF Moves, TypeOK, Tx, Transaction, Running, Fits, RowId, Inserts
    <3> QED
      BY <3>1
  <2> QED
    BY <1>4, <2>0, <2>1 DEF CheckDeviceLimit, RollsBack
<1>5. CASE ExpireSession(r)
  BY <1>5 DEF ExpireSession, At, RollsBack, Running
<1>6. CASE CheckAccount(r)
  <2>0. req[r].op = "refresh" /\ tx[r].pc \in Running
    BY <1>6 DEF CheckAccount, At, PcInv, Fits, Running
  <2>1. CASE /\ tx' = [tx EXCEPT ![r] = Tx("count", @.device, {req[r].target}, {})]
             /\ UNCHANGED <<account, sessions, devices, expired, lock, req>>
    <3> DEFINE next == Tx("count", tx[r].device, {req[r].target}, {})
    <3>1. req[r].target \in Committed /\ req[r].target \in Req
      BY <2>0 DEF NamesInv, Committed
    <3>2. Moves(r, next)
      BY <1>0, <2>0, <2>1, <3>1 DEF Moves, TypeOK, Tx, Transaction, Running, Fits, Inserts
    <3> QED
      BY <3>2
  <2> QED
    BY <1>6, <2>0, <2>1 DEF CheckAccount, RollsBack
<1>7. CASE CountSessions(r)
  <2>0. Inserts(r) /\ tx[r].pc \in Running
    BY <1>7 DEF CountSessions, At, PcInv, Fits, Running, Inserts
  <2>1. CASE tx' = [tx EXCEPT ![r].pc = "oldest"]
    <3> DEFINE next == [tx[r] EXCEPT !.pc = "oldest"]
    <3>1. Moves(r, next)
      BY <1>0, <1>7, <2>0, <2>1
      DEF CountSessions, Moves, TypeOK, Transaction, Running, Fits, Inserts
    <3> QED
      BY <3>1
  <2>2. CASE tx' = [tx EXCEPT ![r] = Tx("write", @.device, @.victims, FlushRows(r, @.victims))]
    <3> DEFINE next == Tx("write", tx[r].device, tx[r].victims, Rows(tx[r].victims))
    <3>1. Rows(tx[r].victims) \subseteq RowLocks
      BY <1>0, <1>1, <2>0
    <3> HIDE DEF Rows
    <3>2. tx' = [tx EXCEPT ![r] = next]
      BY <2>2 DEF Rows
    <3>3. Moves(r, next)
      BY <1>0, <1>7, <2>0, <3>1, <3>2
      DEF CountSessions, Moves, TypeOK, Tx, Transaction, Running, Fits
    <3> QED
      BY <3>3
  <2> QED
    BY <1>7, <2>1, <2>2 DEF CountSessions
<1>8. CASE RevokeOldest(r)
  <2> DEFINE victims == tx[r].victims \cup Oldest(req[r].user)
             next == Tx("write", tx[r].device, victims, Rows(victims))
  <2>0. Inserts(r) /\ tx[r].pc \in Running
    BY <1>8 DEF RevokeOldest, At, PcInv, Fits, Running, Inserts
  <2>1. victims \in SUBSET Req /\ victims \subseteq Committed
    BY <1>0 DEF Oldest, ActiveSessions, RowsInv, Committed
  <2>2. Rows(victims) \subseteq RowLocks
    BY <1>1, <2>0, <2>1
  <2>3. tx' = [tx EXCEPT ![r] = next] /\ UNCHANGED <<account, sessions, devices, expired, lock, req>>
    BY <1>8 DEF RevokeOldest
  <2> HIDE DEF Rows, victims
  <2>4. Moves(r, next)
    BY <1>0, <2>0, <2>1, <2>2, <2>3 DEF Moves, TypeOK, Tx, Transaction, Running, Fits
  <2> QED
    BY <2>4
<1>9. CASE FlushDevice(r)
  <2> DEFINE next == Tx("write", tx[r].device, tx[r].victims, {DeviceRow(req[r].target)})
  <2>0. req[r].op = "revoke_device" /\ tx[r].pc \in Running
    BY <1>9 DEF FlushDevice, At, PcInv, Fits, Running
  <2>1. DeviceRow(req[r].target) \in RowLocks
    BY <2>0, RowsAreLocks DEF NamesInv
  <2>2. Moves(r, next)
    BY <1>0, <1>9, <2>0, <2>1
    DEF FlushDevice, Moves, TypeOK, Tx, Transaction, Running, Fits, RowId
  <2> QED
    BY <2>2
<1>10. CASE Commit(r)
  BY <1>10 DEF Commit, Commits, At
<1>11. CASE DeadlockVictim(r)
  BY <1>11 DEF DeadlockVictim, RollsBack, InFlight
<1> QED
  BY <1>2, <1>3, <1>4, <1>5, <1>6, <1>7, <1>8, <1>9, <1>10, <1>11 DEF Step

\* Every step of the system has one of the five shapes.
LEMMA NextShape == ASSUME Shaped, [Next]_vars PROVE Shape
<1>1. ASSUME NEW r \in Req, Crash(r) PROVE RollsBack(r)
  BY <1>1 DEF Crash, RollsBack, InFlight
<1>2. ASSUME NEW s \in Req, Expire(s) PROVE Idles
  BY <1>2 DEF Expire, Idles, TypeOK
<1>3. CASE UNCHANGED vars
  BY <1>3 DEF vars, Idles, TypeOK, Shape
<1>4. CASE AllAnswered
  BY <1>3, <1>4 DEF AllAnswered
<1> QED
  BY <1>1, <1>2, <1>3, <1>4, StartShape, StepShape DEF Next, Shape

\* Every step of the system keeps the shape.
LEMMA NextShaped == Shaped /\ [Next]_vars => Shaped'
BY NextShape, BeginsShaped, MovesShaped, RollsBackShaped, CommitsShaped,
   IdlesShaped DEF Shape

\* Every state is well typed and well shaped, whatever the constants.
THEOREM TypeCorrect == Spec => []TypeOK
<1>1. Shaped => TypeOK
  OBVIOUS
<1> QED
  BY <1>1, InitShaped, NextShaped, PTL DEF Spec

\* Every reachable state is well shaped: rows belong to committed requests, and
\* each request stands at a statement of its own kind.
THEOREM ShapedCorrect == Spec => []Shaped
BY InitShaped, NextShaped, PTL DEF Spec

-----------------------------------------------------------------------------
(* Revocation.  What a committed request revoked stays revoked; what was   *)
(* committed before a request began is either in that request's buffered   *)
(* writes or already out of reach.                                         *)

RevokedInv == \A q \in Committed :
  /\ \A s \in tx[q].victims : sessions[s] = "revoked"
  /\ req[q].op = "revoke_device" => devices[req[q].target] = "revoked"

TokenInv == \A r \in Req : req[r].op = "refresh" =>
  \A q \in req[r].before : req[r].target \notin tx[q].victims

LogoutInv == \A q \in Req : req[q].op = "logout_all" /\ tx[q].pc # "aborted" =>
  \A s \in req[q].before :
    Inserts(s) /\ req[s].user = req[q].user
      => s \in tx[q].victims \/ sessions[s] # "active"

DeviceInv == \A q \in Req : req[q].op = "revoke_device" /\ tx[q].pc # "aborted" =>
  \A s \in req[q].before :
    Inserts(s) /\ tx[s].device = req[q].target
      => s \in tx[q].victims \/ sessions[s] # "active"

LoginInv == \A r \in Req : req[r].op = "login" =>
  \A q \in req[r].before :
    req[q].op = "revoke_device" => tx[r].device # req[q].target

SafetyInv == RevokedInv /\ TokenInv /\ LogoutInv /\ DeviceInv /\ LoginInv

\* Nothing that was committed changes, and no session or device comes back.
LEMMA Final ==
  ASSUME Shaped, Shape
  PROVE  /\ \A q \in Committed : tx'[q] = tx[q]
         /\ \A q \in Req : tx[q].pc # "idle" => req'[q] = req[q]
         /\ Committed \subseteq Committed'
         /\ \A s \in Req : tx[s].pc = "committed" /\ sessions[s] # "active"
                             => sessions'[s] # "active"
         /\ \A s \in Req : sessions[s] = "revoked" => sessions'[s] = "revoked"
         /\ \A d \in Req : devices[d] = "revoked" => devices'[d] = "revoked"
<1>1. ASSUME NEW r \in Req, NEW o, NEW u, NEW k, NEW t, NEW first,
             Begins(r, o, u, k, t, first)
      PROVE  /\ \A q \in Req : q # r => tx'[q] = tx[q] /\ req'[q] = req[q]
             /\ tx[r].pc = "idle" /\ UNCHANGED <<sessions, devices>>
  BY <1>1 DEF Begins, Begin, TypeOK
<1>2. ASSUME NEW r \in Req, NEW next, Moves(r, next)
      PROVE  /\ \A q \in Req : q # r => tx'[q] = tx[q]
             /\ tx[r].pc \in Running /\ UNCHANGED <<sessions, devices, req>>
  BY <1>2 DEF Moves, TypeOK
<1>3. ASSUME NEW r \in Req, RollsBack(r)
      PROVE  /\ \A q \in Req : q # r => tx'[q] = tx[q]
             /\ tx[r].pc \in Running /\ UNCHANGED <<sessions, devices, req>>
  BY <1>3 DEF RollsBack, Rollback, TypeOK
<1>4. ASSUME NEW r \in Req, Commits(r)
      PROVE  /\ \A q \in Req : q # r => tx'[q] = tx[q]
             /\ tx[r].pc = "write" /\ UNCHANGED req
             /\ \A s \in Req : s # r /\ sessions[s] # "active"
                                 => sessions'[s] # "active"
             /\ \A s \in Req : sessions[s] = "revoked" => sessions'[s] = "revoked"
             /\ \A d \in Req : devices[d] = "revoked" => devices'[d] = "revoked"
  BY <1>4 DEF Commits, Commit, TypeOK, RowsInv
<1>5. ASSUME Idles PROVE UNCHANGED <<sessions, devices, req, tx>>
  BY <1>5 DEF Idles
<1>6. "write" \notin Ended /\ "idle" \notin Ended /\ Running \cap Ended = {}
      /\ "idle" \notin Running
  BY DEF Running
<1> QED
  BY <1>1, <1>2, <1>3, <1>4, <1>5, <1>6 DEF Shape, Committed

\* Before the first request nothing has been revoked.
LEMMA InitSafety == Init => SafetyInv
BY DEF Init, SafetyInv, RevokedInv, TokenInv, LogoutInv, DeviceInv, LoginInv,
       Committed

\* A request that begins has read what was committed before it: it keeps the
\* revocation invariant.
LEMMA BeginsSafety ==
  ASSUME Shaped, Shape, SafetyInv, NEW r \in Req,
         NEW o, NEW u, NEW k, NEW t, NEW first, Begins(r, o, u, k, t, first)
  PROVE  SafetyInv'
<1>1. /\ \A q \in Req : q # r => tx'[q] = tx[q] /\ req'[q] = req[q]
      /\ tx'[r] = first
      /\ req'[r] = [op |-> o, user |-> u, key |-> k, target |-> t,
                    before |-> Committed]
      /\ r \notin Committed /\ Committed' = Committed
      /\ UNCHANGED <<sessions, devices>>
  BY DEF Begins, Begin, TypeOK, Committed, Running
<1>2. \A q \in Req : r \notin req[q].before
  BY <1>1 DEF HistoryInv
<1>3. RevokedInv'
  BY <1>1 DEF SafetyInv, RevokedInv, Committed
<1>4. TokenInv'
  <2>1. o = "refresh" => \A q \in Committed : t \notin tx[q].victims
    BY DEF Begins, SafetyInv, RevokedInv
  <2> QED
    BY <1>1, <1>2, <2>1 DEF SafetyInv, TokenInv, HistoryInv, Committed
<1>5. LogoutInv'
  <2>1. o = "logout_all" => \A s \in Committed :
          req[s].user = u => s \in first.victims \/ sessions[s] # "active"
    BY DEF Begins, ActiveSessions, Committed
  <2> QED
    BY <1>1, <1>2, <2>1 DEF SafetyInv, LogoutInv, HistoryInv, Committed, Inserts
<1>6. DeviceInv'
  <2>1. o = "revoke_device" => \A s \in Committed :
          tx[s].device = t => s \in first.victims \/ sessions[s] # "active"
    BY DEF Begins, SessionsOn, Committed
  <2> QED
    BY <1>1, <1>2, <2>1 DEF SafetyInv, DeviceInv, HistoryInv, Committed, Inserts
<1>7. LoginInv'
  <2>1. o = "login" => \A q \in Committed :
          req[q].op = "revoke_device" => first.device # req[q].target
    BY NoRowIsNoRequest DEF Begins, NamesInv, Committed
  <2> QED
    BY <1>1, <1>2, <2>1 DEF SafetyInv, LoginInv, HistoryInv, Committed
<1> QED
  BY <1>3, <1>4, <1>5, <1>6, <1>7 DEF SafetyInv

\* A statement of a running request keeps the revocation invariant.
LEMMA MovesSafety ==
  ASSUME Shaped, Shape, SafetyInv, NEW r \in Req, NEW next, Moves(r, next)
  PROVE  SafetyInv'
<1>1. /\ \A q \in Req : q # r => tx'[q] = tx[q]
      /\ tx'[r] = next /\ next.pc \in Running /\ tx[r].pc \in Running
      /\ r \notin Committed /\ Committed' = Committed
      /\ UNCHANGED <<sessions, devices, req>>
  BY DEF Moves, TypeOK, Committed, Running
<1>2. \A q \in Req : r \notin req[q].before
  BY <1>1 DEF HistoryInv
<1>3. RevokedInv' /\ TokenInv'
  BY <1>1, <1>2 DEF SafetyInv, RevokedInv, TokenInv, HistoryInv, Committed
<1>4. LogoutInv'
  <2>1. req[r].op = "logout_all" => next.victims = tx[r].victims
    BY DEF Moves, Inserts
  <2> QED
    BY <1>1, <2>1 DEF SafetyInv, LogoutInv, Inserts, Running
<1>5. DeviceInv'
  <2>1. req[r].op = "revoke_device" => next.victims = tx[r].victims
    BY DEF Moves, Inserts
  <2>2. \A q \in Req : \A s \in req[q].before : s \in Req /\ tx'[s] = tx[s]
    BY <1>1, <1>2 DEF HistoryInv, Committed
  <2>3. \A q \in Req : q # r => tx'[q].victims = tx[q].victims /\ tx'[q].pc = tx[q].pc
    BY <1>1
  <2>4. tx[r].pc # "aborted"
    BY <1>1 DEF Running
  <2> QED
    BY <1>1, <2>1, <2>2, <2>3, <2>4 DEF SafetyInv, DeviceInv, Inserts
<1>6. LoginInv'
  <2>1. ASSUME req[r].op = "login", NEW q \in req[r].before,
               req[q].op = "revoke_device"
        PROVE  next.device # req[q].target
    <3>1. q \in Committed
      BY DEF HistoryInv
    <3>2. devices[req[q].target] = "revoked" /\ req[q].target \in Committed
      BY <2>1, <3>1 DEF SafetyInv, RevokedInv, NamesInv, RowsInv, Committed
    <3>3. tx[r].device # req[q].target
      BY <2>1 DEF SafetyInv, LoginInv
    <3> QED
      BY <1>1, <3>2, <3>3 DEF Moves
  <2> QED
    BY <1>1, <1>2, <2>1 DEF SafetyInv, LoginInv
<1> QED
  BY <1>3, <1>4, <1>5, <1>6 DEF SafetyInv

\* A rollback takes back nothing that was committed.
LEMMA RollsBackSafety ==
  ASSUME Shaped, Shape, SafetyInv, NEW r \in Req, RollsBack(r)
  PROVE  SafetyInv'
<1>1. /\ \A q \in Req : q # r => tx'[q] = tx[q]
      /\ tx'[r] = Tx("aborted", NoRow, {}, {}) /\ tx[r].pc \in Running
      /\ r \notin Committed /\ Committed' = Committed
      /\ UNCHANGED <<sessions, devices, req>>
  BY DEF RollsBack, Rollback, TypeOK, Committed, Running, Tx
<1>2. \A q \in Req : r \notin req[q].before
  BY <1>1 DEF HistoryInv
<1>3. RevokedInv' /\ TokenInv'
  BY <1>1, <1>2 DEF SafetyInv, RevokedInv, TokenInv, HistoryInv, Committed
<1>4. LogoutInv' /\ DeviceInv'
  <2>1. \A q \in Req : \A s \in req[q].before : s \in Req /\ tx'[s] = tx[s]
    BY <1>1, <1>2 DEF HistoryInv, Committed
  <2>2. tx'[r].pc = "aborted"
    BY <1>1 DEF Tx
  <2>3. LogoutInv'
    BY <1>1, <2>2 DEF SafetyInv, LogoutInv, Inserts
  <2>4. DeviceInv'
    BY <1>1, <2>1, <2>2 DEF SafetyInv, DeviceInv, Inserts
  <2> QED
    BY <2>3, <2>4
<1>5. LoginInv'
  BY <1>1, NoRowIsNoRequest
  DEF SafetyInv, LoginInv, Tx, NamesInv, HistoryInv, Committed
<1> QED
  BY <1>3, <1>4, <1>5 DEF SafetyInv

\* A commit revokes what it buffered and brings nothing revoked back.
LEMMA CommitsSafety ==
  ASSUME Shaped, Shape, SafetyInv, NEW r \in Req, Commits(r)
  PROVE  SafetyInv'
<1>1. /\ \A q \in Req : q # r => tx'[q] = tx[q]
      /\ tx'[r].pc = "committed" /\ tx'[r].victims = tx[r].victims
      /\ tx'[r].device = tx[r].device /\ tx[r].pc = "write"
      /\ r \notin Committed /\ Committed' = Committed \cup {r}
      /\ UNCHANGED req
  BY DEF Commits, Commit, TypeOK, Transaction, Committed
<1>2. \A q \in Req : r \notin req[q].before
  BY <1>1 DEF HistoryInv
<1>3. \A s \in tx[r].victims : sessions'[s] = "revoked"
  BY DEF Commits, Commit, NamesInv, Committed
<1>4. req[r].op = "revoke_device" => devices'[req[r].target] = "revoked"
  BY DEF Commits, Commit, NamesInv
<1>5. RevokedInv'
  <2>1. \A q \in Committed : \A s \in tx[q].victims : s \in Req
    BY DEF TypeOK, Transaction, Committed
  <2>2. \A q \in Committed : req[q].op = "revoke_device" => req[q].target \in Req
    BY DEF NamesInv, Committed
  <2> QED
    BY <1>1, <1>3, <1>4, <2>1, <2>2, Final DEF SafetyInv, RevokedInv, Committed
<1>6. TokenInv'
  BY <1>1, <1>2 DEF SafetyInv, TokenInv, HistoryInv, Committed
<1>7. \A s \in Req : tx[s].pc = "committed" /\ sessions[s] # "active"
                       => sessions'[s] # "active"
  BY Final
<1>8. LogoutInv' /\ DeviceInv'
  BY <1>1, <1>2, <1>7
  DEF SafetyInv, LogoutInv, DeviceInv, Inserts, HistoryInv, Committed
<1>9. LoginInv'
  BY <1>1, <1>2 DEF SafetyInv, LoginInv
<1> QED
  BY <1>5, <1>6, <1>8, <1>9 DEF SafetyInv

\* Every step of the system keeps the revocation invariant.
LEMMA NextSafety == Shaped /\ SafetyInv /\ [Next]_vars => SafetyInv'
<1> SUFFICES ASSUME Shaped, SafetyInv, [Next]_vars PROVE SafetyInv'
  OBVIOUS
<1>1. Shape
  BY NextShape
<1>2. ASSUME Idles PROVE SafetyInv'
  BY <1>2 DEF Idles, SafetyInv, RevokedInv, TokenInv, LogoutInv, DeviceInv,
              LoginInv, Committed, Inserts
<1> QED
  BY <1>1, <1>2, BeginsSafety, MovesSafety, RollsBackSafety, CommitsSafety DEF Shape

\* The revocation invariant holds in every reachable state.
THEOREM SafetyCorrect == Spec => []SafetyInv
BY InitSafety, NextSafety, ShapedCorrect, PTL DEF Spec

\* No refresh succeeds with a token revoked before the refresh began.
THEOREM TokenSafety == Spec => []ReplayedTokenRejected
<1>1. SafetyInv => ReplayedTokenRejected
  BY DEF SafetyInv, TokenInv, ReplayedTokenRejected, Committed
<1> QED
  BY <1>1, SafetyCorrect, PTL

\* A logout-all ends every session committed before it.
THEOREM LogoutAllSafety == Spec => []LogoutAllIsComplete
<1>1. SafetyInv /\ Shaped => LogoutAllIsComplete
  BY DEF SafetyInv, RevokedInv, LogoutInv, LogoutAllIsComplete, Committed
<1> QED
  BY <1>1, SafetyCorrect, ShapedCorrect, PTL

\* A device's revocation ends what was committed on it before, and bars it.
THEOREM DeviceSafety == Spec => []RevokedDeviceStaysOut
<1>1. SafetyInv /\ Shaped => RevokedDeviceStaysOut
  BY DEF SafetyInv, RevokedInv, DeviceInv, LoginInv, RevokedDeviceStaysOut,
         Committed
<1> QED
  BY <1>1, SafetyCorrect, ShapedCorrect, PTL
-----------------------------------------------------------------------------
(* What the statements of a request do in detail.                          *)

Becomes(next, pc, device, victims, wants) ==
  /\ next.pc = pc /\ next.device = device
  /\ next.victims = victims /\ next.wants = wants

\* The request obtains one of the row locks it waits for.
Obtains(r, next) ==
  \E x \in tx[r].wants :
    /\ lock[x] = Nobody /\ lock' = [lock EXCEPT ![x] = r]
    /\ Becomes(next, tx[r].pc, tx[r].device, tx[r].victims, tx[r].wants \ {x})

\* The request runs its next statement.
Runs(r, next) ==
  /\ tx[r].wants = {} /\ lock' = lock
  /\ \/ /\ tx[r].pc = "device" /\ req[r].op = "login"
        /\ DevicesFor(req[r].user, req[r].key) = {}
        /\ Becomes(next, "device_limit", tx[r].device, tx[r].victims, {})
     \/ /\ tx[r].pc = "device" /\ req[r].op = "login"
        /\ \E d \in Req : /\ devices[d] = "active"
                          /\ Becomes(next, "count", d, {}, {UserRow(req[r].user), DeviceRow(d)})
     \/ /\ tx[r].pc = "device_limit" /\ req[r].op = "login"
        /\ Cardinality(ActiveDevices(req[r].user)) < MaxDevices
        /\ Becomes(next, "count", r, {}, {UserRow(req[r].user)})
     \/ /\ tx[r].pc = "account" /\ req[r].op = "refresh"
        /\ account[req[r].user] = "active"
        /\ Becomes(next, "count", tx[r].device, {req[r].target}, {})
     \/ /\ tx[r].pc = "count" /\ Inserts(r)
        /\ Becomes(next, "oldest", tx[r].device, tx[r].victims, {})
     \/ /\ tx[r].pc = "count" /\ Inserts(r)
        /\ Cardinality(ActiveSessions(req[r].user)) < MaxSessions
        /\ Becomes(next, "write", tx[r].device, tx[r].victims, FlushRows(r, tx[r].victims))
     \/ /\ tx[r].pc = "oldest" /\ Inserts(r)
        /\ \E v \in SUBSET Req :
             /\ v = tx[r].victims \cup Oldest(req[r].user)
             /\ Becomes(next, "write", tx[r].device, v, FlushRows(r, v))
     \/ /\ tx[r].pc = "revoke_rows" /\ req[r].op = "revoke_device" /\ req[r].target \in Req
        /\ Becomes(next, "write", tx[r].device, tx[r].victims, {DeviceRow(req[r].target)})

\* Every statement is one of these, a rollback or the commit.
LEMMA StepRuns ==
  ASSUME Shaped, NEW r \in Req, Step(r)
  PROVE  \/ \E next : Moves(r, next) /\ (Obtains(r, next) \/ Runs(r, next))
         \/ RollsBack(r) \/ Commits(r)
<1> SUFFICES ASSUME NEW next, Moves(r, next)
             PROVE  \/ Obtains(r, next) \/ Runs(r, next)
                    \/ RollsBack(r) \/ Commits(r)
  BY StepShape
<1>0. /\ tx[r] \in Transaction /\ tx[r].victims \subseteq Req
      /\ tx'[r] = next /\ tx[r].pc \in Running
      /\ tx' = [tx EXCEPT ![r] = next]
  BY DEF Moves, TypeOK, Transaction
<1>a. \A e : tx' = [tx EXCEPT ![r] = e] => next = e
  BY <1>0 DEF TypeOK
<1>b. \A pc, device, victims, wants :
        Becomes(Tx(pc, device, victims, wants), pc, device, victims, wants)
  BY DEF Becomes, Tx
<1>c. \A pc : Becomes([tx[r] EXCEPT !.pc = pc], pc, tx[r].device, tx[r].victims, tx[r].wants)
  BY <1>0 DEF Becomes, Transaction
<1>1. CASE Acquire(r)
  <2>1. PICK x \in tx[r].wants : Acquire(r)!(x)
    BY <1>1 DEF Acquire
  <2>2. next = [tx[r] EXCEPT !.wants = @ \ {x}]
    BY <1>0, <2>1 DEF TypeOK
  <2>3. Becomes(next, tx[r].pc, tx[r].device, tx[r].victims, tx[r].wants \ {x})
    BY <1>0, <2>2 DEF Transaction, Becomes
  <2> QED
    BY <2>1, <2>3 DEF Obtains
<1>2. CASE LookupDevice(r)
  <2>1. tx[r].pc = "device" /\ tx[r].wants = {} /\ req[r].op = "login"
    BY <1>2 DEF LookupDevice, At, PcInv, Fits
  <2>2. CASE /\ DevicesFor(req[r].user, req[r].key) = {} /\ lock' = lock
             /\ tx' = [tx EXCEPT ![r].pc = "device_limit"]
    <3>1. next = [tx[r] EXCEPT !.pc = "device_limit"]
      BY <1>a, <2>2
    <3>2. Becomes(next, "device_limit", tx[r].device, tx[r].victims, {})
      BY <1>c, <2>1, <3>1
    <3> QED
      BY <2>1, <2>2, <3>2 DEF Runs
  <2>3. ASSUME NEW d \in Req, devices[d] = "active", lock' = lock,
               tx' = [tx EXCEPT ![r] = Tx("count", d, {}, {UserRow(req[r].user), DeviceRow(d)})]
        PROVE  Runs(r, next)
    <3>1. next = Tx("count", d, {}, {UserRow(req[r].user), DeviceRow(d)})
      BY <1>a, <2>3
    <3>2. Becomes(next, "count", d, {}, {UserRow(req[r].user), DeviceRow(d)})
      BY <1>b, <3>1
    <3> QED
      BY <2>1, <2>3, <3>2 DEF Runs
  <2> QED
    BY <1>0, <1>2, <2>2, <2>3 DEF LookupDevice, DevicesFor, RollsBack
<1>3. CASE CheckDeviceLimit(r)
  <2>1. tx[r].pc = "device_limit" /\ tx[r].wants = {} /\ req[r].op = "login"
    BY <1>3 DEF CheckDeviceLimit, At, PcInv, Fits
  <2>2. CASE /\ Cardinality(ActiveDevices(req[r].user)) < MaxDevices /\ lock' = lock
             /\ tx' = [tx EXCEPT ![r] = Tx("count", r, {}, {UserRow(req[r].user)})]
    <3>1. next = Tx("count", r, {}, {UserRow(req[r].user)})
      BY <1>a, <2>2
    <3>2. Becomes(next, "count", r, {}, {UserRow(req[r].user)})
      BY <1>b, <3>1
    <3> QED
      BY <2>1, <2>2, <3>2 DEF Runs
  <2> QED
    BY <1>0, <1>3, <2>2 DEF CheckDeviceLimit, RollsBack
<1>4. CASE ExpireSession(r)
  BY <1>0, <1>4 DEF ExpireSession, RollsBack
<1>5. CASE CheckAccount(r)
  <2>1. tx[r].pc = "account" /\ tx[r].wants = {} /\ req[r].op = "refresh"
    BY <1>5 DEF CheckAccount, At, PcInv, Fits
  <2>2. CASE /\ account[req[r].user] = "active" /\ lock' = lock
             /\ tx' = [tx EXCEPT ![r] = Tx("count", tx[r].device, {req[r].target}, {})]
    <3>1. next = Tx("count", tx[r].device, {req[r].target}, {})
      BY <1>a, <2>2
    <3>2. Becomes(next, "count", tx[r].device, {req[r].target}, {})
      BY <1>b, <3>1
    <3> QED
      BY <2>1, <2>2, <3>2 DEF Runs
  <2> QED
    BY <1>0, <1>5, <2>2 DEF CheckAccount, RollsBack
<1>6. CASE CountSessions(r)
  <2>1. tx[r].pc = "count" /\ tx[r].wants = {} /\ Inserts(r) /\ lock' = lock
    BY <1>6 DEF CountSessions, At, PcInv, Fits, Inserts
  <2>2. CASE tx' = [tx EXCEPT ![r].pc = "oldest"]
    <3>1. next = [tx[r] EXCEPT !.pc = "oldest"]
      BY <1>a, <2>2
    <3>2. Becomes(next, "oldest", tx[r].device, tx[r].victims, {})
      BY <1>c, <2>1, <3>1
    <3> QED
      BY <2>1, <3>2 DEF Runs
  <2>3. CASE /\ Cardinality(ActiveSessions(req[r].user)) < MaxSessions
             /\ tx' = [tx EXCEPT ![r] = Tx("write", tx[r].device, tx[r].victims,
                                           FlushRows(r, tx[r].victims))]
    <3>1. next = Tx("write", tx[r].device, tx[r].victims, FlushRows(r, tx[r].victims))
      BY <1>a, <2>3
    <3>2. Becomes(next, "write", tx[r].device, tx[r].victims, FlushRows(r, tx[r].victims))
      BY <1>b, <3>1
    <3> QED
      BY <2>1, <2>3, <3>2 DEF Runs
  <2> QED
    BY <1>6, <2>2, <2>3 DEF CountSessions
<1>7. CASE RevokeOldest(r)
  <2> DEFINE v == tx[r].victims \cup Oldest(req[r].user)
  <2>1. tx[r].pc = "oldest" /\ tx[r].wants = {} /\ Inserts(r) /\ lock' = lock
    BY <1>7 DEF RevokeOldest, At, PcInv, Fits, Inserts
  <2>2. v \in SUBSET Req
    BY <1>0 DEF Oldest, ActiveSessions
  <2>3. tx' = [tx EXCEPT ![r] = Tx("write", tx[r].device, v, FlushRows(r, v))]
    BY <1>7 DEF RevokeOldest
  <2>4. next = Tx("write", tx[r].device, v, FlushRows(r, v))
    BY <1>a, <2>3
  <2>5. Becomes(next, "write", tx[r].device, v, FlushRows(r, v))
    BY <1>b, <2>4
  <2> QED
    BY <2>1, <2>2, <2>5 DEF Runs
<1>8. CASE FlushDevice(r)
  <2>1. /\ tx[r].pc = "revoke_rows" /\ tx[r].wants = {} /\ lock' = lock
        /\ req[r].op = "revoke_device" /\ req[r].target \in Req
    BY <1>8 DEF FlushDevice, At, PcInv, Fits, NamesInv
  <2>2. tx' = [tx EXCEPT ![r] = Tx("write", tx[r].device, tx[r].victims,
                                   {DeviceRow(req[r].target)})]
    BY <1>8 DEF FlushDevice
  <2>3. next = Tx("write", tx[r].device, tx[r].victims, {DeviceRow(req[r].target)})
    BY <1>a, <2>2
  <2>4. Becomes(next, "write", tx[r].device, tx[r].victims, {DeviceRow(req[r].target)})
    BY <1>b, <2>3
  <2> QED
    BY <2>1, <2>4 DEF Runs
<1>9. CASE Commit(r)
  BY <1>9 DEF Commit, Commits, At
<1>10. CASE DeadlockVictim(r)
  BY <1>0, <1>10 DEF DeadlockVictim, RollsBack
<1> QED
  BY <1>1, <1>2, <1>3, <1>4, <1>5, <1>6, <1>7, <1>8, <1>9, <1>10 DEF Step

-----------------------------------------------------------------------------
(* Suspension.  The status is written under the lock of the account's row, *)
(* and every creation has read it after it began.                          *)

\* An unsuspension of the account has committed that q had not seen.
Freed(q) ==
  \E p \in Committed : /\ req[p].op = "unsuspend"
                       /\ req[p].user = req[q].user
                       /\ p \notin req[q].before

\* A request asks for the row of its own account only, and holds it while it runs.
AccountLockInv == \A r \in Req : \A u \in Users :
  /\ UserRow(u) \in tx[r].wants => req[r].user = u
  /\ lock[UserRow(u)] = r => req[r].user = u /\ tx[r].pc \in Running

\* A suspension that neither waits for the row nor holds it finds, or has left,
\* the account suspended, up to a later unsuspension.
SuspendedInv == \A q \in Req : req[q].op = "suspend" /\ tx[q].pc # "aborted" =>
  \/ UserRow(req[q].user) \in tx[q].wants
  \/ lock[UserRow(req[q].user)] = q
  \/ account[req[q].user] = "suspended"
  \/ Freed(q)

\* Where a refresh has found the account active; a login begins there.
Checked == {"count", "oldest", "write", "committed"}

CheckedInv == \A r \in Req :
  req[r].op = "login" \/ (req[r].op = "refresh" /\ tx[r].pc \in Checked) =>
    \A q \in req[r].before :
      req[q].op = "suspend" /\ req[q].user = req[r].user => Freed(q)

AccountInv == AccountLockInv /\ SuspendedInv /\ CheckedInv

\* What a request does to the account's row and status when it begins.
BeginsAccount(r, o, u, k, t, first) ==
  /\ Begins(r, o, u, k, t, first)
  /\ \A w \in Users : UserRow(w) \in first.wants => w = u
  /\ o = "login" => account[u] = "active"
  /\ o = "refresh" => first.pc \notin Checked
  /\ o = "suspend" => account[u] = "suspended" \/ UserRow(u) \in first.wants

\* What it does to them when it moves: the row is taken as it was asked for, or
\* left alone.
TakesRow(r, next, u) ==
  /\ UserRow(u) \in tx[r].wants /\ UserRow(u) \notin next.wants
  /\ lock[UserRow(u)] = Nobody /\ lock'[UserRow(u)] = r

LeavesRow(r, next, u) ==
  /\ lock'[UserRow(u)] = lock[UserRow(u)]
  /\ UserRow(u) \in next.wants => UserRow(u) \in tx[r].wants \/ req[r].user = u
  /\ req[r].op = "suspend" /\ UserRow(u) \in tx[r].wants => UserRow(u) \in next.wants

MovesAccount(r, next) ==
  /\ Moves(r, next)
  /\ \A u \in Users : TakesRow(r, next, u) \/ LeavesRow(r, next, u)
  /\ req[r].op = "refresh" /\ next.pc \in Checked =>
       tx[r].pc \in Checked \/ account[req[r].user] = "active"

\* The rows of accounts, sessions and devices are different.
LEMMA RowsDiffer ==
  /\ \A u, w \in Users : UserRow(u) = UserRow(w) => u = w
  /\ \A u \in Users : \A s \in Req : UserRow(u) # SessionRow(s) /\ UserRow(u) # DeviceRow(s)
BY DEF UserRow, SessionRow, DeviceRow

\* Before the first request no row is locked.
LEMMA InitAccount == Init => AccountInv
<1> SUFFICES ASSUME Init PROVE AccountInv
  OBVIOUS
<1>1. \A r \in Req : tx[r].wants = {} /\ req[r].op = "none" /\ r # Nobody
  BY NobodyIsNoRequest DEF Init
<1>2. \A u \in Users : lock[UserRow(u)] = Nobody
  BY RowsAreLocks DEF Init
<1> QED
  BY <1>1, <1>2 DEF AccountInv, AccountLockInv, SuspendedInv, CheckedInv

\* A request that begins finds the account as it is committed.
LEMMA StartAccount ==
  ASSUME Shaped, NEW r \in Req, Start(r)
  PROVE  \E o, u, k, t, first : BeginsAccount(r, o, u, k, t, first)
<1> USE DEF BeginsAccount, Begins, Tx, Transaction, Running, Ops, RowId, Fits, Checked
<1>1. ASSUME NEW u \in Users, NEW k \in Keys \cup {NoKey}, Login(r, u, k)
      PROVE  BeginsAccount(r, "login", u, k, NoRow,
                    Tx(IF k = NoKey THEN "count" ELSE "device", NoRow, {}, {}))
  BY <1>1 DEF Login
<1>2. ASSUME NEW s \in Req, Refresh(r, s)
      PROVE  BeginsAccount(r, "refresh", req[s].user, NoKey, s,
                    Tx(IF s \in expired THEN "expire" ELSE "account",
                       tx[s].device, {}, {SessionRow(s)}))
  <2>1. req[s].user \in Users
    BY <1>2 DEF Refresh, RowsInv, IdleInv, HasUser
  <2>2. tx[s].device \in RowId
    BY DEF TypeOK
  <2> QED
    BY <1>2, <2>1, <2>2, RowsAreLocks, RowsDiffer DEF Refresh
<1>3. ASSUME NEW u \in Users, NEW s \in Req, RevokeSession(r, u, s)
      PROVE  BeginsAccount(r, "revoke_session", u, NoKey, s,
                    Tx("write", NoRow, {s}, {SessionRow(s)}))
  BY <1>3, RowsAreLocks, RowsDiffer DEF RevokeSession
<1>4. ASSUME NEW u \in Users, NEW d \in Req, RevokeDevice(r, u, d)
      PROVE  BeginsAccount(r, "revoke_device", u, NoKey, d,
                    Tx("revoke_rows", NoRow, SessionsOn(d),
                       {SessionRow(s) : s \in SessionsOn(d)}))
  <2>1. \A s \in SessionsOn(d) : s \in Req /\ sessions[s] # "none"
    BY DEF SessionsOn
  <2>2. {SessionRow(s) : s \in SessionsOn(d)} \subseteq RowLocks
    BY <2>1, RowsAreLocks
  <2>3. \A w \in Users : UserRow(w) \notin {SessionRow(s) : s \in SessionsOn(d)}
    BY <2>1, RowsDiffer
  <2> QED
    BY <1>4, <2>1, <2>2, <2>3 DEF RevokeDevice
<1>5. ASSUME NEW u \in Users, RevokeAllSessions(r, u)
      PROVE  BeginsAccount(r, "logout_all", u, NoKey, NoRow,
                    Tx("write", NoRow, ActiveSessions(u),
                       {SessionRow(s) : s \in ActiveSessions(u)}))
  <2>1. \A s \in ActiveSessions(u) : s \in Req /\ sessions[s] # "none"
    BY DEF ActiveSessions
  <2>2. {SessionRow(s) : s \in ActiveSessions(u)} \subseteq RowLocks
    BY <2>1, RowsAreLocks
  <2>3. \A w \in Users : UserRow(w) \notin {SessionRow(s) : s \in ActiveSessions(u)}
    BY <2>1, RowsDiffer
  <2> QED
    BY <1>5, <2>1, <2>2, <2>3 DEF RevokeAllSessions
<1>6. ASSUME NEW u \in Users, SuspendUser(r, u)
      PROVE  BeginsAccount(r, "suspend", u, NoKey, NoRow,
                    Tx("write", NoRow, {}, ChangesAccount(u, "suspended")))
  BY <1>6, RowsAreLocks, RowsDiffer DEF SuspendUser, ChangesAccount
<1>7. ASSUME NEW u \in Users, UnsuspendUser(r, u)
      PROVE  BeginsAccount(r, "unsuspend", u, NoKey, NoRow,
                    Tx("write", NoRow, {}, ChangesAccount(u, "active")))
  BY <1>7, RowsAreLocks, RowsDiffer DEF UnsuspendUser, ChangesAccount
<1> HIDE DEF BeginsAccount
<1> QED
  BY <1>1, <1>2, <1>3, <1>4, <1>5, <1>6, <1>7 DEF Start

\* The rows of create_session's last flush: of accounts, its own only.
LEMMA FlushedRows ==
  ASSUME NEW r \in Req, NEW victims \in SUBSET Req, NEW u \in Users, req[r].user \in Users,
         UserRow(u) \in FlushRows(r, victims)
  PROVE  req[r].user = u
BY RowsDiffer DEF FlushRows, Missing

\* Every statement takes the account's row as it asked for it or leaves it, and a
\* refresh passes get(User) with an active account only.
LEMMA StepAccount ==
  ASSUME Shaped, NEW r \in Req, Step(r)
  PROVE  (\E next : MovesAccount(r, next)) \/ RollsBack(r) \/ Commits(r)
<1> SUFFICES ASSUME NEW next, Moves(r, next), Obtains(r, next) \/ Runs(r, next)
             PROVE  MovesAccount(r, next)
  BY StepRuns
<1>0. /\ tx[r].victims \subseteq Req /\ req[r].user \in Users
  BY DEF Moves, TypeOK, Transaction, IdleInv, HasUser, Running
<1>1. CASE Obtains(r, next)
  <2>1. PICK x \in tx[r].wants : Obtains(r, next)!(x)
    BY <1>1 DEF Obtains
  <2>2. next.wants = tx[r].wants \ {x} /\ next.pc = tx[r].pc
    BY <2>1 DEF Becomes
  <2>3. ASSUME NEW u \in Users PROVE TakesRow(r, next, u) \/ LeavesRow(r, next, u)
    <3>1. CASE x = UserRow(u)
      BY <2>1, <2>2, <3>1, RowsAreLocks DEF TakesRow, TypeOK
    <3>2. CASE x # UserRow(u)
      BY <2>1, <2>2, <3>2, RowsAreLocks DEF LeavesRow, TypeOK
    <3> QED
      BY <3>1, <3>2
  <2> QED
    BY <2>2, <2>3 DEF MovesAccount
<1>2. CASE Runs(r, next)
  <2>1. tx[r].wants = {} /\ lock' = lock
    BY <1>2 DEF Runs
  <2>2. ASSUME NEW u \in Users, UserRow(u) \in next.wants PROVE req[r].user = u
    <3>1. \/ next.wants = {}
          \/ \E d \in Req : next.wants \subseteq {UserRow(req[r].user), DeviceRow(d)}
          \/ \E v \in SUBSET Req : next.wants = FlushRows(r, v)
      BY <1>0, <1>2 DEF Runs, Becomes
    <3> QED
      BY <1>0, <2>2, <3>1, RowsDiffer, FlushedRows
  <2>3. req[r].op = "refresh" /\ next.pc \in Checked =>
          tx[r].pc \in Checked \/ account[req[r].user] = "active"
    BY <1>2 DEF Runs, Becomes, Checked
  <2> QED
    BY <2>1, <2>2, <2>3 DEF MovesAccount, LeavesRow
<1> QED
  BY <1>1, <1>2

\* An unsuspension that committed stays committed.
LEMMA FreedStays ==
  ASSUME Shaped, Shape
  PROVE  \A q \in Req : tx[q].pc # "idle" /\ Freed(q) => Freed(q)'
<1> SUFFICES ASSUME NEW q \in Req, tx[q].pc # "idle", Freed(q) PROVE Freed(q)'
  OBVIOUS
<1>1. PICK p \in Committed : /\ req[p].op = "unsuspend" /\ req[p].user = req[q].user
                             /\ p \notin req[q].before
  BY DEF Freed
<1>2. p \in Req /\ tx[p].pc # "idle"
  BY DEF Committed
<1>3. p \in Committed' /\ req'[p] = req[p] /\ req'[q] = req[q]
  BY <1>2, Final
<1> QED
  BY <1>1, <1>3 DEF Freed

\* A request begins: what it has read is committed, and it holds no row.
LEMMA BeginsKeepsAccount ==
  ASSUME Shaped, Shape, AccountInv, NEW r \in Req, NEW o, NEW u, NEW k, NEW t, NEW first,
         BeginsAccount(r, o, u, k, t, first)
  PROVE  AccountInv'
<1> USE DEF AccountInv
<1>1. /\ \A q \in Req : q # r => tx'[q] = tx[q] /\ req'[q] = req[q]
      /\ tx'[r] = first
      /\ req'[r] = [op |-> o, user |-> u, key |-> k, target |-> t, before |-> Committed]
      /\ tx[r].pc = "idle" /\ r \notin Committed /\ u \in Users
      /\ UNCHANGED <<account, lock>>
  BY DEF BeginsAccount, Begins, Begin, TypeOK, Committed
<1>2. \A q \in Req : r \notin req[q].before
  BY <1>1 DEF HistoryInv
<1>3. \A w \in Users : lock[UserRow(w)] # r
  BY <1>1 DEF AccountLockInv, Running
<1>4. AccountLockInv'
  BY <1>1, <1>3 DEF AccountLockInv, BeginsAccount
<1>5. SuspendedInv'
  <2>1. ASSUME NEW q \in Req, req'[q].op = "suspend", tx'[q].pc # "aborted", q # r
        PROVE  \/ UserRow(req'[q].user) \in tx'[q].wants \/ lock'[UserRow(req'[q].user)] = q
               \/ account'[req'[q].user] = "suspended" \/ Freed(q)'
    <3>1. tx[q].pc # "idle"
      BY <1>1, <2>1 DEF IdleInv
    <3> QED
      BY <1>1, <2>1, <3>1, FreedStays DEF SuspendedInv
  <2>2. o = "suspend" => \/ UserRow(req'[r].user) \in tx'[r].wants
                         \/ account'[req'[r].user] = "suspended"
    BY <1>1 DEF BeginsAccount
  <2> QED
    BY <1>1, <2>1, <2>2 DEF SuspendedInv
<1>6. CheckedInv'
  <2>1. ASSUME NEW q \in Committed, req[q].op = "suspend", req[q].user = u, o = "login"
        PROVE  Freed(q)
    <3>1. q \in Req /\ tx[q].pc = "committed" /\ tx[q].wants = {}
      BY DEF Committed, PendingInv, Running
    <3>2. lock[UserRow(u)] # q
      BY <1>1, <3>1 DEF AccountLockInv, Running
    <3>3. account[u] # "suspended"
      BY <2>1 DEF BeginsAccount
    <3> QED
      BY <2>1, <3>1, <3>2, <3>3 DEF SuspendedInv
  <2>2. ASSUME NEW q \in Req, NEW v \in req[q].before, q # r
        PROVE  v \in Req /\ tx[v].pc # "idle" /\ req'[v] = req[v]
    BY <1>1, <1>2, <2>2 DEF HistoryInv, Committed
  <2>3. ASSUME NEW q \in Req, q # r, NEW v \in req'[q].before,
               req'[q].op = "login" \/ (req'[q].op = "refresh" /\ tx'[q].pc \in Checked),
               req'[v].op = "suspend", req'[v].user = req'[q].user
        PROVE  Freed(v)'
    BY <1>1, <2>2, <2>3, FreedStays DEF CheckedInv
  <2>4. ASSUME NEW v \in req'[r].before,
               req'[r].op = "login" \/ (req'[r].op = "refresh" /\ tx'[r].pc \in Checked),
               req'[v].op = "suspend", req'[v].user = req'[r].user
        PROVE  Freed(v)'
    <3>1. v \in Committed /\ v \in Req /\ tx[v].pc # "idle" /\ req'[v] = req[v]
      BY <1>1 DEF Committed
    <3>2. o = "login"
      BY <1>1, <2>4 DEF BeginsAccount
    <3> QED
      BY <1>1, <2>1, <2>4, <3>1, <3>2, FreedStays
  <2> QED
    BY <2>3, <2>4 DEF CheckedInv
<1> QED
  BY <1>4, <1>5, <1>6

\* A request moves: it takes its row or leaves it, and a refresh that passes has
\* found the account active.
LEMMA MovesKeepsAccount ==
  ASSUME Shaped, Shape, AccountInv, NEW r \in Req, NEW next, MovesAccount(r, next)
  PROVE  AccountInv'
<1> USE DEF AccountInv
<1>1. /\ \A q \in Req : q # r => tx'[q] = tx[q]
      /\ tx'[r] = next /\ next.pc \in Running /\ tx[r].pc \in Running
      /\ UNCHANGED <<account, req>> /\ r # Nobody
  BY NobodyIsNoRequest DEF MovesAccount, Moves, TypeOK
<1>2. AccountLockInv'
  <2>1. ASSUME NEW q \in Req, NEW u \in Users
        PROVE  /\ UserRow(u) \in tx'[q].wants => req'[q].user = u
               /\ lock'[UserRow(u)] = q => req'[q].user = u /\ tx'[q].pc \in Running
    <3>1. TakesRow(r, next, u) \/ LeavesRow(r, next, u)
      BY DEF MovesAccount
    <3> QED
      BY <1>1, <3>1 DEF AccountLockInv, TakesRow, LeavesRow
  <2> QED
    BY <2>1 DEF AccountLockInv
<1>3. SuspendedInv'
  <2>1. ASSUME NEW q \in Req, req[q].op = "suspend", tx'[q].pc # "aborted"
        PROVE  \/ UserRow(req[q].user) \in tx'[q].wants \/ lock'[UserRow(req[q].user)] = q
               \/ account'[req[q].user] = "suspended" \/ Freed(q)'
    <3>1. tx[q].pc # "idle" /\ tx[q].pc # "aborted" /\ req[q].user \in Users
      BY <1>1, <2>1 DEF IdleInv, HasUser, Running
    <3>2. TakesRow(r, next, req[q].user) \/ LeavesRow(r, next, req[q].user)
      BY <3>1 DEF MovesAccount
    <3>3. q \in Req /\ q # Nobody
      BY NobodyIsNoRequest
    <3>4. Freed(q) => Freed(q)'
      BY <3>1, FreedStays
    <3> QED
      BY <1>1, <2>1, <3>1, <3>2, <3>3, <3>4 DEF SuspendedInv, TakesRow, LeavesRow
  <2> QED
    BY <1>1, <2>1 DEF SuspendedInv
<1>4. CheckedInv'
  <2>1. ASSUME NEW q \in Req, NEW v \in req[q].before,
               req[q].op = "login" \/ (req[q].op = "refresh" /\ tx'[q].pc \in Checked),
               req[v].op = "suspend", req[v].user = req[q].user
        PROVE  Freed(v)'
    <3>1. v \in Req /\ tx[v].pc = "committed" /\ tx[v].wants = {}
      BY DEF HistoryInv, Committed, PendingInv, Running
    <3>2. Freed(v) => Freed(v)'
      BY <3>1, FreedStays
    <3>3. CASE req[q].op = "login" \/ tx[q].pc \in Checked
      BY <2>1, <3>2, <3>3 DEF CheckedInv
    <3>4. CASE req[q].op = "refresh" /\ tx[q].pc \notin Checked
      <4>1. q = r /\ account[req[q].user] = "active"
        BY <1>1, <2>1, <3>4 DEF MovesAccount
      <4>2. req[q].user \in Users
        BY <1>1, <4>1 DEF IdleInv, HasUser, Running
      <4>3. lock[UserRow(req[v].user)] # v
        BY <2>1, <3>1, <4>2 DEF AccountLockInv, Running
      <4> QED
        BY <2>1, <3>1, <3>2, <4>1, <4>3 DEF SuspendedInv
    <3> QED
      BY <2>1, <3>3, <3>4
  <2> QED
    BY <1>1, <2>1 DEF CheckedInv
<1> QED
  BY <1>2, <1>3, <1>4

\* A rollback gives the row back.
LEMMA RollsBackKeepsAccount ==
  ASSUME Shaped, Shape, AccountInv, NEW r \in Req, RollsBack(r)
  PROVE  AccountInv'
<1> USE DEF AccountInv
<1>1. /\ \A q \in Req : q # r => tx'[q] = tx[q]
      /\ tx'[r].pc = "aborted" /\ tx'[r].wants = {} /\ tx[r].pc \in Running
      /\ UNCHANGED <<account, req>>
  BY DEF RollsBack, Rollback, TypeOK, Tx
<1>2. \A u \in Users : lock'[UserRow(u)] = IF lock[UserRow(u)] = r THEN Nobody ELSE lock[UserRow(u)]
  BY RowsAreLocks DEF RollsBack, Rollback, Release
<1>3. \A q \in Req : q # Nobody
  BY NobodyIsNoRequest
<1>4. AccountLockInv'
  BY <1>1, <1>2, <1>3 DEF AccountLockInv
<1>5. SuspendedInv'
  <2>1. ASSUME NEW q \in Req, req[q].op = "suspend", tx'[q].pc # "aborted"
        PROVE  \/ UserRow(req[q].user) \in tx'[q].wants \/ lock'[UserRow(req[q].user)] = q
               \/ account'[req[q].user] = "suspended" \/ Freed(q)'
    <3>1. q # r /\ tx[q].pc # "idle" /\ req[q].user \in Users /\ tx'[q] = tx[q]
      BY <1>1, <2>1 DEF IdleInv, HasUser
    <3>2. Freed(q) => Freed(q)'
      BY <3>1, FreedStays
    <3> QED
      BY <1>1, <1>2, <2>1, <3>1, <3>2 DEF SuspendedInv
  <2> QED
    BY <1>1, <2>1 DEF SuspendedInv
<1>6. CheckedInv'
  <2>1. \A q \in Req : \A v \in req[q].before : v \in Req /\ tx[v].pc # "idle"
    BY DEF HistoryInv, Committed
  <2>2. \A q \in Req : tx'[q].pc \in Checked => tx[q].pc \in Checked
    BY <1>1 DEF Checked
  <2> QED
    BY <1>1, <2>1, <2>2, FreedStays DEF CheckedInv
<1> QED
  BY <1>4, <1>5, <1>6

\* A commit writes the status of the account whose row it holds, and frees the
\* account for who had not seen it if it is an unsuspension.
LEMMA CommitsKeepsAccount ==
  ASSUME Shaped, Shape, AccountInv, NEW r \in Req, Commits(r)
  PROVE  AccountInv'
<1> USE DEF AccountInv
<1>1. /\ \A q \in Req : q # r => tx'[q] = tx[q]
      /\ tx'[r].pc = "committed" /\ tx'[r].wants = {} /\ tx[r].pc = "write" /\ tx[r].wants = {}
      /\ UNCHANGED req
  BY DEF Commits, Commit, At, TypeOK, Transaction
<1>2. \A u \in Users : lock'[UserRow(u)] = IF lock[UserRow(u)] = r THEN Nobody ELSE lock[UserRow(u)]
  BY RowsAreLocks DEF Commits, Commit, Release
<1>3. \A u \in Users : account'[u] = IF lock[UserRow(u)] # r THEN account[u]
                                     ELSE IF req[r].op = "suspend" THEN "suspended"
                                     ELSE IF req[r].op = "unsuspend" THEN "active"
                                     ELSE account[u]
  BY DEF Commits, Commit
<1>4. \A q \in Req : q # Nobody /\ r \notin req[q].before
  BY <1>1, NobodyIsNoRequest DEF HistoryInv, Committed
<1>5. AccountLockInv'
  BY <1>1, <1>2, <1>4 DEF AccountLockInv
<1>6. SuspendedInv'
  <2>1. ASSUME NEW q \in Req, req[q].op = "suspend", tx'[q].pc # "aborted"
        PROVE  \/ UserRow(req[q].user) \in tx'[q].wants \/ lock'[UserRow(req[q].user)] = q
               \/ account'[req[q].user] = "suspended" \/ Freed(q)'
    <3>1. tx[q].pc # "idle" /\ tx[q].pc # "aborted" /\ req[q].user \in Users
      BY <1>1, <2>1 DEF IdleInv, HasUser
    <3>2. Freed(q) => Freed(q)'
      BY <3>1, FreedStays
    <3>3. CASE lock[UserRow(req[q].user)] = r /\ req[r].op = "unsuspend"
      <4>1. req[r].user = req[q].user
        BY <3>1, <3>3 DEF AccountLockInv
      <4>2. r \in Committed'
        BY <1>1 DEF Committed
      <4>3. Freed(q)'
        BY <1>1, <1>4, <3>3, <4>1, <4>2 DEF Freed
      <4> QED
        BY <4>3
    <3>4. CASE lock[UserRow(req[q].user)] = r /\ req[r].op # "unsuspend" /\ q # r
      BY <1>1, <1>2, <1>3, <2>1, <3>1, <3>2, <3>4 DEF SuspendedInv
    <3>5. CASE lock[UserRow(req[q].user)] = r /\ q = r
      BY <1>3, <2>1, <3>1, <3>5
    <3>6. CASE lock[UserRow(req[q].user)] # r
      BY <1>1, <1>2, <1>3, <2>1, <3>1, <3>2, <3>6 DEF SuspendedInv
    <3> QED
      BY <3>3, <3>4, <3>5, <3>6
  <2> QED
    BY <1>1, <2>1 DEF SuspendedInv
<1>7. CheckedInv'
  <2>1. \A q \in Req : \A v \in req[q].before : v \in Req /\ tx[v].pc # "idle"
    BY DEF HistoryInv, Committed
  <2>2. \A q \in Req : tx'[q].pc \in Checked => tx[q].pc \in Checked
    BY <1>1 DEF Checked
  <2> QED
    BY <1>1, <2>1, <2>2, FreedStays DEF CheckedInv
<1> QED
  BY <1>5, <1>6, <1>7

\* Every step of the system keeps the account's invariant.
LEMMA NextAccount == Shaped /\ AccountInv /\ [Next]_vars => AccountInv'
<1> SUFFICES ASSUME Shaped, AccountInv, [Next]_vars PROVE AccountInv'
  OBVIOUS
<1>1. Shape
  BY NextShape
<1>2. CASE Idles
  BY <1>2 DEF Idles, AccountInv, AccountLockInv, SuspendedInv, CheckedInv, Freed, Committed
<1>3. ASSUME NEW r \in Req, Start(r) PROVE AccountInv'
  BY <1>1, <1>3, StartAccount, BeginsKeepsAccount
<1>4. ASSUME NEW r \in Req, Step(r) PROVE AccountInv'
  BY <1>1, <1>4, StepAccount, MovesKeepsAccount, RollsBackKeepsAccount, CommitsKeepsAccount
<1>5. ASSUME NEW r \in Req, Crash(r) PROVE AccountInv'
  <2>1. RollsBack(r)
    BY <1>5 DEF Crash, RollsBack, InFlight
  <2> QED
    BY <1>1, <2>1, RollsBackKeepsAccount
<1>6. ASSUME NEW s \in Req, Expire(s) PROVE Idles
  BY <1>6 DEF Expire, Idles, TypeOK
<1>7. ASSUME UNCHANGED vars PROVE Idles
  BY <1>7 DEF vars, Idles, TypeOK
<1> QED
  BY <1>2, <1>3, <1>4, <1>5, <1>6, <1>7 DEF Next, AllAnswered

\* A login or refresh begun after a suspension committed yields a session only
\* if an unsuspension came after that suspension began: what auth.login and
\* auth.refresh read of users.status is never older than their own beginning.
THEOREM SuspensionSafety == Spec => []SuspensionBars
<1>1. AccountInv => SuspensionBars
  <2> SUFFICES ASSUME AccountInv, NEW r \in Committed, Inserts(r), NEW q \in req[r].before,
                      req[q].op = "suspend", req[q].user = req[r].user
               PROVE  \E p \in Committed : /\ req[p].op = "unsuspend"
                                           /\ req[p].user = req[r].user
                                           /\ p \notin req[q].before
    BY DEF SuspensionBars
  <2>1. r \in Req /\ tx[r].pc \in Checked
    BY DEF Committed, Checked
  <2>2. Freed(q)
    BY <2>1 DEF AccountInv, CheckedInv, Inserts
  <2> QED
    BY <2>2 DEF Freed
<1> QED
  BY <1>1, InitAccount, NextAccount, ShapedCorrect, PTL DEF Spec
-----------------------------------------------------------------------------
(* Devices.  A first login looks for its device, counts the user's devices *)
(* and inserts its own: whoever committed before it began has been seen.   *)

\* A device's row is there from the commit of the login that registers it.
OwnInv == \A d \in Req :
  devices[d] # "none" <=> tx[d].pc = "committed" /\ tx[d].device = d

\* A request is bound to no device, to its own, or to one that is committed.
BoundInv == \A r \in Req :
  /\ tx[r].device \in {NoRow, r} \cup Committed
  /\ tx[r].device = r => req[r].op = "login"

\* A login that registers its device has looked for it among those committed
\* before it began.
Registers(b) == tx[b].pc = "device_limit" \/ tx[b].device = b

LookedInv == \A b \in Req : Registers(b) =>
  \A a \in req[b].before :
    tx[a].device = a => ~(req[a].user = req[b].user /\ req[a].key = req[b].key)

\* And it has counted them.
SeenDevices(b) == ActiveDevices(req[b].user) \cap req[b].before

RoomInv == \A b \in Req : tx[b].device = b /\ tx[b].pc # "committed" =>
  Cardinality(SeenDevices(b)) < MaxDevices

\* Two first logins of the user that overlapped.
DeviceRace(u) ==
  \E a, b \in Committed :
    /\ a # b /\ Overlap(a, b)
    /\ req[a].user = u /\ req[b].user = u
    /\ tx[a].device = a /\ tx[b].device = b

TableInv == \A u \in Users :
  Cardinality(ActiveDevices(u)) > MaxDevices => DeviceRace(u)

DeviceTableInv == OwnInv /\ BoundInv /\ LookedInv /\ RoomInv /\ TableInv

\* Sets of requests are finite.
LEMMA ReqFinite ==
  ASSUME NEW S \in SUBSET Req
  PROVE  /\ IsFiniteSet(S) /\ Cardinality(S) \in Nat
         /\ \A T \in SUBSET S : Cardinality(T) <= Cardinality(S) /\ Cardinality(T) \in Nat
<1>1. IsFiniteSet(Req)
  BY SessionsAssumption, FS_Interval DEF Req
<1>2. IsFiniteSet(S) /\ \A T \in SUBSET S : IsFiniteSet(T)
  BY <1>1, FS_Subset
<1> QED
  BY <1>2, FS_Subset, FS_CardinalityType

\* What a request that begins is bound to.
LEMMA StartDevice ==
  ASSUME Shaped, BoundInv, NEW r \in Req, Start(r)
  PROVE  \E o, u, k, t, first :
           /\ Begins(r, o, u, k, t, first)
           /\ first.device \in {NoRow} \cup Committed /\ first.pc # "device_limit"
<1>1. PICK o, u, k, t, first : Begins(r, o, u, k, t, first)
  BY StartShape
<1>2. tx'[r] = first
  BY <1>1 DEF Begins, Begin, TypeOK
<1>3. \A o2, u2, k2, t2, f : Begin(r, o2, u2, k2, t2, f) => first = f
  BY <1>2 DEF Begin, TypeOK
<1>4. \A pc, device, victims, wants :
        /\ Tx(pc, device, victims, wants).pc = pc
        /\ Tx(pc, device, victims, wants).device = device
  BY DEF Tx
<1>5. ASSUME NEW s \in Req, Refresh(r, s)
      PROVE  first.device \in {NoRow} \cup Committed /\ first.pc # "device_limit"
  <2>1. first.device = tx[s].device /\ first.pc \in {"expire", "account"}
    BY <1>3, <1>4, <1>5 DEF Refresh
  <2>2. s \in Committed
    BY <1>5 DEF Refresh, RowsInv, Committed
  <2> QED
    BY <2>1, <2>2 DEF BoundInv
<1>6. ASSUME NEW v \in Users, NEW l \in Keys \cup {NoKey}, Login(r, v, l)
      PROVE  first.device = NoRow /\ first.pc # "device_limit"
  BY <1>3, <1>4, <1>6 DEF Login
<1>7. ASSUME \/ \E v \in Users, s \in Req : RevokeSession(r, v, s)
             \/ \E v \in Users : RevokeAllSessions(r, v)
             \/ \E v \in Users : SuspendUser(r, v)
             \/ \E v \in Users : UnsuspendUser(r, v)
             \/ \E v \in Users, d \in Req : RevokeDevice(r, v, d)
      PROVE  first.device = NoRow /\ first.pc # "device_limit"
  <2>1. ASSUME NEW v \in Users, NEW s \in Req, RevokeSession(r, v, s)
        PROVE  first.device = NoRow /\ first.pc # "device_limit"
    BY <1>3, <1>4, <2>1 DEF RevokeSession
  <2>2. ASSUME NEW v \in Users, RevokeAllSessions(r, v)
        PROVE  first.device = NoRow /\ first.pc # "device_limit"
    BY <1>3, <1>4, <2>2 DEF RevokeAllSessions
  <2>3. ASSUME NEW v \in Users, SuspendUser(r, v) \/ UnsuspendUser(r, v)
        PROVE  first.device = NoRow /\ first.pc # "device_limit"
    BY <1>3, <1>4, <2>3 DEF SuspendUser, UnsuspendUser
  <2>4. ASSUME NEW v \in Users, NEW d \in Req, RevokeDevice(r, v, d)
        PROVE  first.device = NoRow /\ first.pc # "device_limit"
    BY <1>3, <1>4, <2>4 DEF RevokeDevice
  <2> QED
    BY <1>7, <2>1, <2>2, <2>3, <2>4
<1>8. first.device \in {NoRow} \cup Committed /\ first.pc # "device_limit"
  BY <1>5, <1>6, <1>7 DEF Start
<1> QED
  BY <1>1, <1>8

\* A committed device that is not active does not come back.
LEMMA DeviceFinal ==
  ASSUME Shaped, Shape
  PROVE  \A d \in Req : tx[d].pc = "committed" /\ devices[d] # "active"
                          => devices'[d] # "active"
<1>1. ASSUME NEW r \in Req, Commits(r), NEW d \in Req,
             tx[d].pc = "committed", devices[d] # "active"
      PROVE  devices'[d] # "active"
  BY <1>1 DEF Commits, Commit
<1>2. (\E r \in Req : Commits(r)) \/ devices' = devices
  BY DEF Shape, Begins, Begin, Moves, RollsBack, Rollback, Idles
<1> QED
  BY <1>1, <1>2

\* A race that has happened stays one.
LEMMA DeviceRaceStays ==
  ASSUME Shaped, Shape, NEW u, DeviceRace(u)
  PROVE  DeviceRace(u)'
<1>1. PICK a, b \in Committed :
        /\ a # b /\ Overlap(a, b) /\ req[a].user = u /\ req[b].user = u
        /\ tx[a].device = a /\ tx[b].device = b
  BY DEF DeviceRace
<1>2. \A c \in {a, b} : c \in Committed' /\ req'[c] = req[c] /\ tx'[c] = tx[c]
  BY Final DEF Committed
<1> QED
  BY <1>1, <1>2 DEF DeviceRace, Overlap

\* The devices a request has seen can only become fewer.
LEMMA SeenShrinks ==
  ASSUME Shaped, Shape, NEW b \in Req, tx[b].pc # "idle"
  PROVE  /\ SeenDevices(b)' \subseteq SeenDevices(b)
         /\ Cardinality(SeenDevices(b)') <= Cardinality(SeenDevices(b))
         /\ Cardinality(SeenDevices(b)) \in Nat /\ Cardinality(SeenDevices(b)') \in Nat
<1>1. req'[b] = req[b] /\ \A a \in req[b].before : a \in Req /\ tx[a].pc = "committed"
  BY Final DEF HistoryInv, Committed
<1>2. \A a \in req[b].before : req'[a] = req[a]
                               /\ (devices'[a] = "active" => devices[a] = "active")
  BY <1>1, Final, DeviceFinal
<1>3. SeenDevices(b)' \subseteq SeenDevices(b)
  BY <1>1, <1>2 DEF SeenDevices, ActiveDevices
<1>4. SeenDevices(b) \in SUBSET Req
  BY DEF SeenDevices, ActiveDevices
<1> HIDE DEF SeenDevices
<1> QED
  BY <1>3, <1>4, ReqFinite

\* As long as no login registers, only an active device's row may go away.
LEMMA TableStays ==
  ASSUME Shaped, Shape, TableInv,
         \A u \in Users : ActiveDevices(u)' \subseteq ActiveDevices(u)
  PROVE  TableInv'
<1> SUFFICES ASSUME NEW u \in Users, Cardinality(ActiveDevices(u)') > MaxDevices
             PROVE  DeviceRace(u)'
  BY DEF TableInv
<1>1. ActiveDevices(u) \in SUBSET Req
  BY DEF ActiveDevices
<1>2. /\ Cardinality(ActiveDevices(u)') <= Cardinality(ActiveDevices(u))
      /\ Cardinality(ActiveDevices(u)) \in Nat /\ Cardinality(ActiveDevices(u)') \in Nat
  BY <1>1, ReqFinite
<1>3. Cardinality(ActiveDevices(u)) > MaxDevices
  BY <1>2, SessionsAssumption
<1> QED
  BY <1>3, DeviceRaceStays DEF TableInv

\* The tables start empty.
LEMMA InitDevices == Init => DeviceTableInv
<1> SUFFICES ASSUME Init PROVE DeviceTableInv
  OBVIOUS
<1>1. \A u \in Users : ActiveDevices(u) = {}
  BY DEF Init, ActiveDevices
<1>2. Cardinality({}) = 0
  BY FS_EmptySet
<1>3. TableInv
  BY <1>1, <1>2, SessionsAssumption DEF TableInv
<1>4. \A r \in Req : /\ tx[r].pc = "idle" /\ tx[r].device = NoRow /\ r # NoRow
                     /\ devices[r] = "none"
  BY NoRowIsNoRequest DEF Init
<1> QED
  BY <1>3, <1>4 DEF DeviceTableInv, OwnInv, BoundInv, LookedInv, Registers, RoomInv

\* A request that begins registers nothing.
LEMMA BeginsDevices ==
  ASSUME Shaped, Shape, DeviceTableInv, NEW r \in Req,
         NEW o, NEW u, NEW k, NEW t, NEW first, Begins(r, o, u, k, t, first),
         first.device \in {NoRow} \cup Committed, first.pc # "device_limit"
  PROVE  DeviceTableInv'
<1> USE DEF DeviceTableInv
<1>1. /\ \A q \in Req : q # r => tx'[q] = tx[q] /\ req'[q] = req[q]
      /\ tx'[r] = first /\ first.pc \in Running
      /\ tx[r].pc = "idle" /\ r \notin Committed /\ Committed' = Committed
      /\ UNCHANGED devices
  BY DEF Begins, Begin, TypeOK, Committed, Running
<1>2. first.device # r /\ devices[r] = "none"
  BY <1>1, NoRowIsNoRequest DEF RowsInv, Committed
<1>3. \A q \in Req : \A a \in req[q].before : a \in Req /\ a # r
  BY <1>1 DEF HistoryInv, Committed
<1>4. OwnInv'
  BY <1>1, <1>2 DEF OwnInv, Running
<1>5. BoundInv'
  BY <1>1, <1>2 DEF BoundInv
<1>6. LookedInv'
  BY <1>1, <1>2, <1>3 DEF LookedInv, Registers
<1>7. RoomInv'
  <2>1. ASSUME NEW b \in Req, tx'[b].device = b, tx'[b].pc # "committed"
        PROVE  Cardinality(SeenDevices(b)') < MaxDevices
    <3>1. b # r /\ tx[b].device = b /\ tx[b].pc # "committed"
      BY <1>1, <1>2, <2>1
    <3>2. req[b].op = "login" /\ tx[b].pc # "idle"
      BY <3>1 DEF BoundInv, IdleInv
    <3>3. Cardinality(SeenDevices(b)) < MaxDevices
      BY <3>1 DEF RoomInv
    <3> QED
      BY <3>2, <3>3, SeenShrinks, SessionsAssumption
  <2> QED
    BY <2>1 DEF RoomInv
<1>8. TableInv'
  <2>1. \A v \in Users : ActiveDevices(v)' \subseteq ActiveDevices(v)
    BY <1>1, <1>2 DEF ActiveDevices
  <2> QED
    BY <2>1, TableStays
<1> QED
  BY <1>4, <1>5, <1>6, <1>7, <1>8

\* A login that is about to register its device has not found it, and has
\* found room for it.
LEMMA MovesDevices ==
  ASSUME Shaped, Shape, DeviceTableInv, NEW r \in Req, NEW next, Moves(r, next),
         Obtains(r, next) \/ Runs(r, next)
  PROVE  DeviceTableInv'
<1> USE DEF DeviceTableInv
<1>1. /\ \A q \in Req : q # r => tx'[q] = tx[q]
      /\ tx'[r] = next /\ next.pc \in Running /\ tx[r].pc \in Running
      /\ r \notin Committed /\ Committed' = Committed /\ next.device \in RowId
      /\ UNCHANGED <<devices, req>>
  BY DEF Moves, TypeOK, Committed, Running, Transaction
<1>2. \A q \in Req : \A a \in req[q].before : a \in Committed /\ a \in Req /\ a # r
  BY <1>1 DEF HistoryInv, Committed
<1>3. devices[r] = "none" /\ ~(next.pc = "committed")
  BY <1>1 DEF RowsInv, Committed, Running
<1>4. next.device = r => \/ tx[r].device = r
                         \/ /\ tx[r].pc = "device_limit"
                            /\ Cardinality(ActiveDevices(req[r].user)) < MaxDevices
  BY <1>3 DEF Obtains, Runs, Becomes
<1>5. next.pc = "device_limit" => \/ tx[r].pc = "device_limit"
                                  \/ DevicesFor(req[r].user, req[r].key) = {}
  BY DEF Obtains, Runs, Becomes
<1>6. OwnInv'
  BY <1>1, <1>3 DEF OwnInv
<1>7. BoundInv'
  <2>1. next.device = r => req[r].op = "login"
    BY <1>4 DEF BoundInv, PcInv, Fits
  <2>2. next.device \in {NoRow, r} \cup Committed
    BY <1>1 DEF Moves, BoundInv, RowId, RowsInv, Committed
  <2> QED
    BY <1>1, <2>1, <2>2 DEF BoundInv
<1>8. LookedInv'
  <2>1. ASSUME NEW b \in Req, Registers(b)', NEW a \in req[b].before, tx'[a].device = a
        PROVE  ~(req[a].user = req[b].user /\ req[a].key = req[b].key)
    <3>1. a \in Req /\ tx[a].device = a /\ tx[a].pc = "committed"
      BY <1>1, <1>2, <2>1 DEF Committed
    <3>2. CASE Registers(b)
      BY <2>1, <3>1, <3>2 DEF LookedInv
    <3>3. CASE ~Registers(b)
      <4>1. b = r /\ DevicesFor(req[b].user, req[b].key) = {}
        BY <1>1, <1>4, <1>5, <2>1, <3>3 DEF Registers
      <4>2. devices[a] # "none"
        BY <3>1 DEF OwnInv
      <4> QED
        BY <3>1, <4>1, <4>2 DEF DevicesFor
    <3> QED
      BY <3>2, <3>3
  <2> QED
    BY <1>1, <2>1 DEF LookedInv
<1>9. RoomInv'
  <2>1. ASSUME NEW b \in Req, tx'[b].device = b, tx'[b].pc # "committed"
        PROVE  Cardinality(SeenDevices(b)') < MaxDevices
    <3>1. SeenDevices(b)' = SeenDevices(b)
      BY <1>1 DEF SeenDevices, ActiveDevices
    <3>2. CASE tx[b].device = b
      BY <1>1, <2>1, <3>1, <3>2 DEF RoomInv, Running
    <3>3. CASE tx[b].device # b
      <4>1. b = r /\ Cardinality(ActiveDevices(req[b].user)) < MaxDevices
        BY <1>1, <1>4, <2>1, <3>3
      <4>2. ActiveDevices(req[b].user) \in SUBSET Req
        BY DEF ActiveDevices
      <4>3. SeenDevices(b) \subseteq ActiveDevices(req[b].user)
        BY DEF SeenDevices
      <4>4. /\ Cardinality(SeenDevices(b)) <= Cardinality(ActiveDevices(req[b].user))
            /\ Cardinality(SeenDevices(b)) \in Nat
            /\ Cardinality(ActiveDevices(req[b].user)) \in Nat
        BY <4>2, <4>3, ReqFinite
      <4> QED
        BY <3>1, <4>1, <4>4, SessionsAssumption
    <3> QED
      BY <3>2, <3>3
  <2> QED
    BY <2>1 DEF RoomInv
<1>10. TableInv'
  <2>1. \A v \in Users : ActiveDevices(v)' \subseteq ActiveDevices(v)
    BY <1>1 DEF ActiveDevices
  <2> QED
    BY <2>1, TableStays
<1> QED
  BY <1>6, <1>7, <1>8, <1>9, <1>10

\* A rollback registers nothing.
LEMMA RollsBackDevices ==
  ASSUME Shaped, Shape, DeviceTableInv, NEW r \in Req, RollsBack(r)
  PROVE  DeviceTableInv'
<1> USE DEF DeviceTableInv
<1>1. /\ \A q \in Req : q # r => tx'[q] = tx[q]
      /\ tx'[r].pc = "aborted" /\ tx'[r].device = NoRow /\ tx[r].pc \in Running
      /\ r \notin Committed /\ Committed' = Committed /\ r # NoRow
      /\ UNCHANGED <<devices, req>>
  BY NoRowIsNoRequest DEF RollsBack, Rollback, TypeOK, Committed, Running, Tx
<1>2. \A q \in Req : \A a \in req[q].before : a \in Req /\ a # r
  BY <1>1 DEF HistoryInv, Committed
<1>3. devices[r] = "none"
  BY <1>1 DEF RowsInv, Committed
<1>4. OwnInv' /\ BoundInv'
  BY <1>1, <1>3 DEF OwnInv, BoundInv
<1>5. LookedInv'
  BY <1>1, <1>2 DEF LookedInv, Registers
<1>6. RoomInv'
  <2>1. \A b \in Req : SeenDevices(b)' = SeenDevices(b)
    BY <1>1 DEF SeenDevices, ActiveDevices
  <2> QED
    BY <1>1, <2>1 DEF RoomInv
<1>7. TableInv'
  <2>1. \A v \in Users : ActiveDevices(v)' \subseteq ActiveDevices(v)
    BY <1>1 DEF ActiveDevices
  <2> QED
    BY <2>1, TableStays
<1> QED
  BY <1>4, <1>5, <1>6, <1>7

\* A commit that registers a device has room for it among those it has seen;
\* one that it has not seen overlapped it.
LEMMA CommitsDevices ==
  ASSUME Shaped, Shape, DeviceTableInv, NEW r \in Req, Commits(r)
  PROVE  DeviceTableInv'
<1> USE DEF DeviceTableInv
<1>1. /\ \A q \in Req : q # r => tx'[q] = tx[q]
      /\ tx'[r].pc = "committed" /\ tx'[r].device = tx[r].device /\ tx[r].pc = "write"
      /\ r \notin Committed /\ Committed' = Committed \cup {r}
      /\ UNCHANGED req
  BY DEF Commits, Commit, TypeOK, Transaction, Committed
<1>2. \A q \in Req : \A a \in req[q].before : a \in Req /\ a # r
  BY <1>1 DEF HistoryInv, Committed
<1>3. /\ devices[r] = "none"
      /\ req[r].op = "revoke_device" => /\ req[r].target # r /\ req[r].target \in Req
                                        /\ devices[req[r].target] # "none"
  BY <1>1 DEF RowsInv, NamesInv, Committed
<1>4. \A d \in Req : devices'[d] = IF req[r].op = "revoke_device" /\ d = req[r].target
                                   THEN "revoked"
                                   ELSE IF d = r /\ tx[r].device = r THEN "active"
                                   ELSE devices[d]
  BY DEF Commits, Commit
<1>5. OwnInv'
  <2>1. \A d \in Req : d # r => (devices'[d] # "none" <=> devices[d] # "none")
    BY <1>3, <1>4
  <2>2. devices'[r] # "none" <=> tx[r].device = r
    BY <1>3, <1>4
  <2> QED
    BY <1>1, <2>1, <2>2 DEF OwnInv
<1>6. BoundInv'
  BY <1>1 DEF BoundInv
<1>7. LookedInv'
  BY <1>1, <1>2 DEF LookedInv, Registers
<1>8. RoomInv'
  <2>1. ASSUME NEW b \in Req, tx'[b].device = b, tx'[b].pc # "committed"
        PROVE  Cardinality(SeenDevices(b)') < MaxDevices
    <3>1. tx[b].device = b /\ tx[b].pc # "committed" /\ tx[b].pc # "idle"
      BY <1>1, <2>1 DEF BoundInv, IdleInv
    <3>2. Cardinality(SeenDevices(b)) < MaxDevices
      BY <3>1 DEF RoomInv
    <3> QED
      BY <3>1, <3>2, SeenShrinks, SessionsAssumption
  <2> QED
    BY <2>1 DEF RoomInv
<1>9. TableInv'
  <2>1. CASE tx[r].device # r
    <3>1. \A v \in Users : ActiveDevices(v)' \subseteq ActiveDevices(v)
      BY <1>1, <1>4, <2>1 DEF ActiveDevices
    <3> QED
      BY <3>1, TableStays
  <2>2. CASE tx[r].device = r
    <3> SUFFICES ASSUME NEW u \in Users, Cardinality(ActiveDevices(u)') > MaxDevices
                 PROVE  DeviceRace(u)'
      BY DEF TableInv
    <3>1. CASE req[r].user # u
      <4>1. ActiveDevices(u)' \subseteq ActiveDevices(u) /\ ActiveDevices(u) \in SUBSET Req
        BY <1>1, <1>4, <3>1 DEF ActiveDevices
      <4>2. /\ Cardinality(ActiveDevices(u)') <= Cardinality(ActiveDevices(u))
            /\ Cardinality(ActiveDevices(u)) \in Nat /\ Cardinality(ActiveDevices(u)') \in Nat
        BY <4>1, ReqFinite
      <4>3. Cardinality(ActiveDevices(u)) > MaxDevices
        BY <4>2, SessionsAssumption
      <4> QED
        BY <4>3, DeviceRaceStays DEF TableInv
    <3>2. CASE req[r].user = u /\ ActiveDevices(u) \subseteq req[r].before
      <4>1. /\ ActiveDevices(u)' \subseteq SeenDevices(r) \cup {r}
            /\ SeenDevices(r) \in SUBSET Req /\ SeenDevices(r) \cup {r} \in SUBSET Req
        BY <1>1, <1>4, <3>2 DEF SeenDevices, ActiveDevices
      <4>2. Cardinality(SeenDevices(r)) < MaxDevices
        BY <1>1, <2>2 DEF RoomInv
      <4> HIDE DEF SeenDevices
      <4>3. /\ Cardinality(SeenDevices(r) \cup {r}) <= Cardinality(SeenDevices(r)) + 1
            /\ Cardinality(SeenDevices(r)) \in Nat
        BY <4>1, ReqFinite, FS_AddElement
      <4>4. /\ Cardinality(ActiveDevices(u)') <= Cardinality(SeenDevices(r) \cup {r})
            /\ Cardinality(ActiveDevices(u)') \in Nat
            /\ Cardinality(SeenDevices(r) \cup {r}) \in Nat
        BY <4>1, ReqFinite
      <4> QED
        BY <4>2, <4>3, <4>4, SessionsAssumption
    <3>3. ASSUME req[r].user = u, NEW a \in ActiveDevices(u), a \notin req[r].before
          PROVE  DeviceRace(u)'
      <4>1. a \in Req /\ tx[a].pc = "committed" /\ tx[a].device = a /\ req[a].user = u
        BY <3>3 DEF ActiveDevices, OwnInv
      <4>2. a # r /\ a \in Committed' /\ r \in Committed' /\ tx'[a] = tx[a] /\ r \notin req[a].before
        BY <1>1, <1>2, <4>1 DEF Committed
      <4> QED
        BY <1>1, <2>2, <3>3, <4>1, <4>2 DEF DeviceRace, Overlap
    <3> QED
      BY <3>1, <3>2, <3>3
  <2> QED
    BY <2>1, <2>2
<1> QED
  BY <1>5, <1>6, <1>7, <1>8, <1>9

\* Every step of the system keeps the table's invariant.
LEMMA NextDevices == Shaped /\ DeviceTableInv /\ [Next]_vars => DeviceTableInv'
<1> SUFFICES ASSUME Shaped, DeviceTableInv, [Next]_vars PROVE DeviceTableInv'
  OBVIOUS
<1>1. Shape
  BY NextShape
<1>2. CASE Idles
  <2>1. \A v : ActiveDevices(v)' = ActiveDevices(v) /\ DeviceRace(v)' = DeviceRace(v)
    BY <1>2 DEF Idles, ActiveDevices, DeviceRace, Committed, Overlap
  <2> QED
    BY <1>2, <2>1 DEF Idles, DeviceTableInv, OwnInv, BoundInv, LookedInv, Registers, RoomInv,
                      SeenDevices, TableInv, Committed
<1>3. ASSUME NEW r \in Req, Start(r) PROVE DeviceTableInv'
  <2>1. BoundInv
    BY DEF DeviceTableInv
  <2> QED
    BY <1>1, <1>3, <2>1, StartDevice, BeginsDevices
<1>4. ASSUME NEW r \in Req, Step(r) PROVE DeviceTableInv'
  BY <1>1, <1>4, StepRuns, MovesDevices, RollsBackDevices, CommitsDevices
<1>5. ASSUME NEW r \in Req, Crash(r) PROVE DeviceTableInv'
  <2>1. RollsBack(r)
    BY <1>5 DEF Crash, RollsBack, InFlight
  <2> QED
    BY <1>1, <2>1, RollsBackDevices
<1>6. ASSUME NEW s \in Req, Expire(s) PROVE Idles
  BY <1>6 DEF Expire, Idles, TypeOK
<1>7. ASSUME UNCHANGED vars PROVE Idles
  BY <1>7 DEF vars, Idles, TypeOK
<1> QED
  BY <1>2, <1>3, <1>4, <1>5, <1>6, <1>7 DEF Next, AllAnswered

\* Too many devices, or two rows for one device, come only from first logins
\* that overlapped: register_or_update_device looks, counts and inserts in
\* three statements, and nothing in the table forbids what it looked for.
THEOREM DeviceTableSafety == Spec => []DeviceTableRacesOnlyByOverlap
<1>1. Shaped /\ DeviceTableInv => DeviceTableRacesOnlyByOverlap
  <2> SUFFICES ASSUME Shaped, DeviceTableInv, NEW u \in Users,
                      \/ Cardinality(ActiveDevices(u)) > MaxDevices
                      \/ \E k \in Keys : Cardinality(DevicesFor(u, k)) > 1
               PROVE  DeviceRace(u)
    BY DEF DeviceTableRacesOnlyByOverlap, DeviceRace
  <2>1. CASE Cardinality(ActiveDevices(u)) > MaxDevices
    BY <2>1 DEF DeviceTableInv, TableInv
  <2>2. ASSUME NEW k \in Keys, Cardinality(DevicesFor(u, k)) > 1
        PROVE  DeviceRace(u)
    <3> DEFINE rows == DevicesFor(u, k)
    <3>1. IsFiniteSet(rows)
      BY ReqFinite DEF DevicesFor
    <3>2. PICK a, b \in rows : a # b
      <4> SUFFICES ASSUME \A a, b \in rows : a = b PROVE FALSE
        OBVIOUS
      <4>1. rows = {} \/ \E x : rows = {x}
        OBVIOUS
      <4> HIDE DEF rows
      <4>2. Cardinality(rows) \in {0, 1}
        BY <4>1, FS_EmptySet, FS_Singleton
      <4> QED
        BY <2>2, <4>2 DEF rows
    <3>3. \A d \in {a, b} : /\ d \in Req /\ tx[d].pc = "committed" /\ tx[d].device = d
                            /\ req[d].user = u /\ req[d].key = k
      BY DEF DevicesFor, DeviceTableInv, OwnInv
    <3>4. Overlap(a, b)
      BY <3>3 DEF Overlap, DeviceTableInv, LookedInv, Registers
    <3> QED
      BY <3>2, <3>3, <3>4 DEF DeviceRace, Committed
  <2> QED
    BY <2>1, <2>2
<1> QED
  BY <1>1, InitDevices, NextDevices, ShapedCorrect, PTL DEF Spec
-----------------------------------------------------------------------------
(* The limit of sessions.  A creation makes room by what it counted; what  *)
(* committed since then has either waited for the user's row or overlapped *)
(* a count made without it.                                                *)

\* Only a login carries a device_id.
KeyedInv == \A r \in Req : req[r].op = "refresh" => req[r].key = NoKey

\* A login with a device_id counts under the lock of its user's row.
Keyed(r) == req[r].op = "login" /\ req[r].key # NoKey

LockedInv == \A r \in Req : Keyed(r) =>
  /\ tx[r].pc = "count" => \/ UserRow(req[r].user) \in tx[r].wants
                           \/ lock[UserRow(req[r].user)] = r
  /\ tx[r].pc \in {"oldest", "write"} => lock[UserRow(req[r].user)] = r

\* Two creations of the user overlapped, one of them without that lock.
SessionRace(u) ==
  \E a, b \in Committed :
    /\ a # b /\ Inserts(a) /\ Inserts(b)
    /\ req[a].user = u /\ req[b].user = u
    /\ req[a].key = NoKey
    /\ Overlap(a, b)

\* A creation has committed since r began, and one of the two has no lock.
Raced(r) ==
  \E c \in Committed :
    /\ Inserts(c) /\ req[c].user = req[r].user
    /\ c \notin req[r].before
    /\ req[c].key = NoKey \/ req[r].key = NoKey

\* What a creation has counted still makes room for it, unless it was raced.
RoomForOne(r) ==
  /\ tx[r].pc = "oldest" => Cardinality(ActiveSessions(req[r].user)) <= MaxSessions
  /\ tx[r].pc = "write" =>
       Cardinality(ActiveSessions(req[r].user) \ tx[r].victims) < MaxSessions

CountInv == \A r \in Req : Inserts(r) =>
  RoomForOne(r) \/ Raced(r) \/ SessionRace(req[r].user)

AtMostInv == \A u \in Users :
  Cardinality(ActiveSessions(u)) > MaxSessions => SessionRace(u)

LimitInv == KeyedInv /\ LockedInv /\ CountInv /\ AtMostInv

\* A nonempty set of requests has an oldest one.
LEMMA Least ==
  ASSUME NEW S \in SUBSET Req, S # {}
  PROVE  \E x \in S : \A y \in S : x <= y
<1>1. IsWellFoundedOn(OpToRel(<,Nat), Nat)
  BY NatLessThanWellFounded
<1>2. S \subseteq Nat
  BY SessionsAssumption DEF Req
<1>3. PICK x \in S : \A y \in S : ~(<<y, x>> \in OpToRel(<,Nat))
  BY <1>1, <1>2, WFMin
<1>4. \A y \in S : ~(y < x)
  BY <1>2, <1>3 DEF OpToRel
<1> QED
  BY <1>2, <1>4

\* Without its oldest session an account that kept the limit has room for one.
LEMMA OldestMakesRoom ==
  ASSUME NEW u, NEW V, Cardinality(ActiveSessions(u)) <= MaxSessions
  PROVE  Cardinality(ActiveSessions(u) \ (V \cup Oldest(u))) < MaxSessions
<1> DEFINE S == ActiveSessions(u)
           T == S \ (V \cup Oldest(u))
<1>1. S \in SUBSET Req /\ IsFiniteSet(S) /\ Cardinality(S) \in Nat /\ MaxSessions \in Nat \ {0}
  BY ReqFinite, SessionsAssumption DEF ActiveSessions
<1>2. CASE S = {}
  BY <1>2, FS_EmptySet, SessionsAssumption
<1>3. CASE S # {}
  <2>1. PICK x \in S : \A y \in S : x <= y
    BY <1>1, <1>3, Least
  <2>2. x \in Oldest(u)
    BY <2>1 DEF Oldest
  <2>3. T \subseteq S \ {x} /\ S \ {x} \in SUBSET Req
    BY <1>1, <2>2
  <2> HIDE DEF S, T
  <2>4. Cardinality(S \ {x}) = Cardinality(S) - 1
    BY <1>1, <2>1, FS_RemoveElement
  <2>5. Cardinality(T) <= Cardinality(S \ {x}) /\ Cardinality(T) \in Nat
    BY <2>3, ReqFinite
  <2>6. Cardinality(S) <= MaxSessions
    BY DEF S
  <2>7. Cardinality(T) < MaxSessions
    BY <1>1, <2>4, <2>5, <2>6
  <2> QED
    BY <2>7 DEF T, S
<1> QED
  BY <1>2, <1>3

\* Races that have happened stay.
LEMMA RacesStay ==
  ASSUME Shaped, Shape
  PROVE  /\ \A u : SessionRace(u) => SessionRace(u)'
         /\ \A r \in Req : tx[r].pc # "idle" /\ Raced(r) => Raced(r)'
<1>1. \A c \in Committed : c \in Req /\ c \in Committed' /\ req'[c] = req[c]
  BY Final DEF Committed
<1>2. \A r \in Req : tx[r].pc # "idle" => req'[r] = req[r]
  BY Final
<1> QED
  BY <1>1, <1>2 DEF SessionRace, Raced, Inserts, Overlap

\* A step that creates no session for the user leaves him no more of them.
LEMMA FewerSessions ==
  ASSUME NEW u, ActiveSessions(u)' \subseteq ActiveSessions(u)
  PROVE  /\ Cardinality(ActiveSessions(u)') <= Cardinality(ActiveSessions(u))
         /\ \A V : Cardinality(ActiveSessions(u)' \ V) <= Cardinality(ActiveSessions(u) \ V)
         /\ Cardinality(ActiveSessions(u)) \in Nat /\ Cardinality(ActiveSessions(u)') \in Nat
         /\ \A V : /\ Cardinality(ActiveSessions(u) \ V) \in Nat
                   /\ Cardinality(ActiveSessions(u)' \ V) \in Nat
<1> DEFINE S == ActiveSessions(u)
           T == ActiveSessions(u)'
<1>1. S \in SUBSET Req /\ T \subseteq S
  BY DEF ActiveSessions
<1>2. \A V : (S \ V) \in SUBSET Req /\ (T \ V) \subseteq (S \ V)
  BY <1>1
<1> HIDE DEF S, T
<1>3. /\ Cardinality(T) <= Cardinality(S)
      /\ Cardinality(S) \in Nat /\ Cardinality(T) \in Nat
  BY <1>1, ReqFinite
<1>4. \A V : /\ Cardinality(T \ V) <= Cardinality(S \ V)
             /\ Cardinality(S \ V) \in Nat /\ Cardinality(T \ V) \in Nat
  BY <1>2, ReqFinite
<1> QED
  BY <1>3, <1>4 DEF S, T

\* A request that keeps its place keeps its room.
LEMMA RoomStays ==
  ASSUME Shaped, Shape, CountInv, NEW q \in Req, tx'[q] = tx[q],
         tx[q].pc # "idle", Inserts(q), NEW u, req[q].user = u,
         ActiveSessions(u)' \subseteq ActiveSessions(u)
  PROVE  RoomForOne(q)' \/ Raced(q)' \/ SessionRace(u)'
<1>1. req'[q] = req[q]
  BY Final
<1>2. CASE RoomForOne(q)
  <2>1. /\ Cardinality(ActiveSessions(u)') <= Cardinality(ActiveSessions(u))
        /\ Cardinality(ActiveSessions(u)' \ tx[q].victims)
             <= Cardinality(ActiveSessions(u) \ tx[q].victims)
        /\ Cardinality(ActiveSessions(u)) \in Nat
        /\ Cardinality(ActiveSessions(u)') \in Nat
        /\ Cardinality(ActiveSessions(u) \ tx[q].victims) \in Nat
        /\ Cardinality(ActiveSessions(u)' \ tx[q].victims) \in Nat
    BY FewerSessions
  <2>2. /\ tx'[q].pc = "oldest" => Cardinality(ActiveSessions(u)') <= MaxSessions
        /\ tx'[q].pc = "write" => Cardinality(ActiveSessions(u)' \ tx'[q].victims) < MaxSessions
    BY <1>2, <2>1, SessionsAssumption DEF RoomForOne
  <2>3. RoomForOne(q)'
    BY <1>1, <2>2 DEF RoomForOne, ActiveSessions
  <2> QED
    BY <2>3
<1>3. CASE Raced(q)
  BY <1>3, RacesStay
<1>4. CASE SessionRace(u)
  BY <1>4, RacesStay
<1> QED
  BY <1>2, <1>3, <1>4 DEF CountInv

\* The limit is kept as long as no session is created.
LEMMA LimitStays ==
  ASSUME Shaped, Shape, AtMostInv, NEW u \in Users,
         ActiveSessions(u)' \subseteq ActiveSessions(u),
         Cardinality(ActiveSessions(u)') > MaxSessions
  PROVE  SessionRace(u)'
<1>1. /\ Cardinality(ActiveSessions(u)') <= Cardinality(ActiveSessions(u))
      /\ Cardinality(ActiveSessions(u)) \in Nat /\ Cardinality(ActiveSessions(u)') \in Nat
  BY FewerSessions
<1>2. Cardinality(ActiveSessions(u)) > MaxSessions
  BY <1>1, SessionsAssumption
<1> QED
  BY <1>2, RacesStay DEF AtMostInv

\* The tables start empty.
LEMMA InitLimit == Init => LimitInv
<1> SUFFICES ASSUME Init PROVE LimitInv
  OBVIOUS
<1>1. \A r \in Req : req[r].op = "none"
  BY DEF Init
<1>2. \A u : ActiveSessions(u) = {}
  BY DEF Init, ActiveSessions
<1>3. AtMostInv
  BY <1>2, FS_EmptySet, SessionsAssumption DEF AtMostInv
<1> QED
  BY <1>1, <1>3 DEF LimitInv, KeyedInv, LockedInv, Keyed, CountInv, Inserts

\* Where a request that begins stands.
BeginsLimit(o, k, first) ==
  /\ o = "refresh" => k = NoKey
  /\ o \in {"login", "refresh"} => first.pc \notin {"oldest", "write"}
  /\ o = "login" /\ k # NoKey => first.pc = "device"

LEMMA StartLimit ==
  ASSUME Shaped, NEW r \in Req, Start(r)
  PROVE  \E o, u, k, t, first : Begins(r, o, u, k, t, first) /\ BeginsLimit(o, k, first)
<1>1. PICK o, u, k, t, first : Begins(r, o, u, k, t, first)
  BY StartShape
<1>2. req'[r].op = o /\ req'[r].key = k /\ tx'[r] = first
  BY <1>1 DEF Begins, Begin, TypeOK
<1>3. \A o2, u2, k2, t2, f : Begin(r, o2, u2, k2, t2, f) => o = o2 /\ k = k2 /\ first = f
  BY <1>2 DEF Begin, TypeOK
<1>4. \A pc, device, victims, wants : Tx(pc, device, victims, wants).pc = pc
  BY DEF Tx
<1>5. ASSUME NEW v \in Users, NEW l \in Keys \cup {NoKey}, Login(r, v, l)
      PROVE  BeginsLimit(o, k, first)
  BY <1>3, <1>4, <1>5 DEF Login, BeginsLimit
<1>6. ASSUME NEW s \in Req, Refresh(r, s) PROVE BeginsLimit(o, k, first)
  BY <1>3, <1>4, <1>6 DEF Refresh, BeginsLimit
<1>7. ASSUME NEW v \in Users, NEW s \in Req, RevokeSession(r, v, s)
      PROVE  o \notin {"login", "refresh"}
  BY <1>3, <1>7 DEF RevokeSession
<1>8. ASSUME NEW v \in Users, NEW d \in Req, RevokeDevice(r, v, d)
      PROVE  o \notin {"login", "refresh"}
  BY <1>3, <1>8 DEF RevokeDevice
<1>9. ASSUME NEW v \in Users, RevokeAllSessions(r, v) \/ SuspendUser(r, v) \/ UnsuspendUser(r, v)
      PROVE  o \notin {"login", "refresh"}
  BY <1>3, <1>9 DEF RevokeAllSessions, SuspendUser, UnsuspendUser
<1>10. BeginsLimit(o, k, first) \/ o \notin {"login", "refresh"}
  BY <1>5, <1>6, <1>7, <1>8, <1>9 DEF Start
<1> QED
  BY <1>1, <1>10 DEF BeginsLimit

\* A request that begins has counted nothing.
LEMMA BeginsKeepsLimit ==
  ASSUME Shaped, Shape, LimitInv, NEW r \in Req,
         NEW o, NEW u, NEW k, NEW t, NEW first, Begins(r, o, u, k, t, first),
         BeginsLimit(o, k, first)
  PROVE  LimitInv'
<1> USE DEF LimitInv
<1>1. /\ \A q \in Req : q # r => tx'[q] = tx[q] /\ req'[q] = req[q]
      /\ tx'[r] = first /\ req'[r].op = o /\ req'[r].key = k
      /\ tx[r].pc = "idle" /\ UNCHANGED <<sessions, lock>>
  BY DEF Begins, Begin, TypeOK
<1>2. KeyedInv' /\ LockedInv'
  BY <1>1 DEF BeginsLimit, KeyedInv, LockedInv, Keyed
<1>3. \A v : ActiveSessions(v)' \subseteq ActiveSessions(v)
  BY <1>1 DEF ActiveSessions, RowsInv
<1>4. CountInv'
  <2>1. ASSUME NEW q \in Req, q # r, Inserts(q)'
        PROVE  (RoomForOne(q) \/ Raced(q) \/ SessionRace(req[q].user))'
    <3>1. tx'[q] = tx[q] /\ req'[q] = req[q] /\ Inserts(q)
      BY <1>1, <2>1 DEF Inserts
    <3>2. tx[q].pc # "idle"
      BY <3>1 DEF IdleInv, Inserts
    <3>3. PICK v : req[q].user = v
      OBVIOUS
    <3>4. RoomForOne(q)' \/ Raced(q)' \/ SessionRace(v)'
      BY <1>3, <3>1, <3>2, <3>3, RoomStays
    <3> QED
      BY <3>1, <3>3, <3>4 DEF SessionRace
  <2>2. ASSUME Inserts(r)' PROVE RoomForOne(r)'
    BY <1>1, <2>2 DEF BeginsLimit, RoomForOne, Inserts
  <2> QED
    BY <2>1, <2>2 DEF CountInv
<1>5. AtMostInv'
  BY <1>3, LimitStays DEF AtMostInv
<1> QED
  BY <1>2, <1>4, <1>5

\* A running request that keeps its position, while r moves or ends, keeps its room.
LEMMA OthersKeepRoom ==
  ASSUME Shaped, Shape, CountInv, NEW r \in Req, UNCHANGED req,
         \A q \in Req : q # r => tx'[q] = tx[q],
         \A u : ActiveSessions(u)' \subseteq ActiveSessions(u)
  PROVE  \A q \in Req : q # r /\ Inserts(q)' =>
           (RoomForOne(q) \/ Raced(q) \/ SessionRace(req[q].user))'
<1> SUFFICES ASSUME NEW q \in Req, q # r, Inserts(q)'
             PROVE  (RoomForOne(q) \/ Raced(q) \/ SessionRace(req[q].user))'
  OBVIOUS
<1>1. tx'[q] = tx[q] /\ req'[q] = req[q] /\ Inserts(q) /\ tx[q].pc # "idle"
  BY DEF Inserts, IdleInv
<1>2. PICK v : req[q].user = v
  OBVIOUS
<1>3. RoomForOne(q)' \/ Raced(q)' \/ SessionRace(v)'
  BY <1>1, <1>2, RoomStays
<1> QED
  BY <1>1, <1>2, <1>3 DEF SessionRace

\* The count makes room, and so does the eviction of the oldest session; both
\* are reached by a login with a device_id only once it has its user's row.
LEMMA MovesLimit ==
  ASSUME Shaped, Shape, LimitInv, NEW r \in Req, NEW next, Moves(r, next),
         Obtains(r, next) \/ Runs(r, next)
  PROVE  LimitInv'
<1> USE DEF LimitInv
<1>1. /\ \A q \in Req : q # r => tx'[q] = tx[q]
      /\ tx'[r] = next /\ tx[r].pc \in Running /\ UNCHANGED <<req, sessions>>
  BY DEF Moves, TypeOK
<1>2. \A u : ActiveSessions(u)' = ActiveSessions(u)
  BY <1>1 DEF ActiveSessions
<1>3. KeyedInv'
  BY <1>1 DEF KeyedInv
<1>4. \A q \in Req, x \in RowLocks : lock[x] = q => lock'[x] = q
  <2>1. \A x \in tx[r].wants : x \in RowLocks
    BY DEF TypeOK, Transaction
  <2> QED
    BY <2>1, NobodyIsNoRequest DEF Obtains, Runs, TypeOK
<1>5. LockedInv'
  <2>1. ASSUME NEW q \in Req, q # r, Keyed(q)'
        PROVE  /\ tx'[q].pc = "count" => \/ UserRow(req'[q].user) \in tx'[q].wants
                                         \/ lock'[UserRow(req'[q].user)] = q
               /\ tx'[q].pc \in {"oldest", "write"} => lock'[UserRow(req'[q].user)] = q
    <3>1. Keyed(q) /\ req[q].user \in Users
      BY <1>1, <2>1 DEF Keyed, HasUser
    <3> QED
      BY <1>1, <1>4, <2>1, <3>1, RowsAreLocks DEF LockedInv
  <2>2. ASSUME Keyed(r)'
        PROVE  /\ next.pc = "count" => \/ UserRow(req'[r].user) \in next.wants
                                       \/ lock'[UserRow(req'[r].user)] = r
               /\ next.pc \in {"oldest", "write"} => lock'[UserRow(req'[r].user)] = r
    <3>1. Keyed(r) /\ req[r].user \in Users /\ UserRow(req[r].user) \in RowLocks
      BY <1>1, <2>2, RowsAreLocks DEF Keyed, HasUser
    <3>2. CASE Obtains(r, next)
      <4>1. PICK x \in tx[r].wants :
              /\ lock' = [lock EXCEPT ![x] = r]
              /\ next.pc = tx[r].pc /\ next.wants = tx[r].wants \ {x}
        BY <3>2 DEF Obtains, Becomes
      <4> QED
        BY <1>1, <1>4, <3>1, <4>1 DEF LockedInv, TypeOK
    <3>3. CASE Runs(r, next)
      <4>1. tx[r].wants = {} /\ lock' = lock
        BY <3>3 DEF Runs
      <4>2. next.pc = "count" => UserRow(req[r].user) \in next.wants
        BY <3>1, <3>3 DEF Runs, Becomes, Keyed
      <4>3. next.pc \in {"oldest", "write"} => tx[r].pc \in {"count", "oldest"}
        BY <3>1, <3>3 DEF Runs, Becomes, Keyed
      <4> QED
        BY <1>1, <3>1, <4>1, <4>2, <4>3 DEF LockedInv
    <3> QED
      BY <3>2, <3>3
  <2> QED
    BY <1>1, <2>1, <2>2 DEF LockedInv
<1>6. CountInv'
  <2>1. ASSUME Inserts(r)'
        PROVE  (RoomForOne(r) \/ Raced(r) \/ SessionRace(req[r].user))'
    <3>1. Inserts(r) /\ req[r].user \in Users /\ tx[r].pc # "idle"
      BY <1>1, <2>1 DEF Inserts, HasUser, Running
    <3>2. PICK u \in Users : req[r].user = u
      BY <3>1
    <3>3. SessionRace(u)' => SessionRace(req[r].user)'
      BY <1>1, <3>2 DEF SessionRace
    <3>4. CASE /\ next.pc = tx[r].pc /\ next.victims = tx[r].victims
      <4>1. RoomForOne(r) => RoomForOne(r)'
        BY <1>1, <3>4 DEF RoomForOne, ActiveSessions
      <4> QED
        BY <3>1, <3>2, <3>3, <4>1, RacesStay DEF CountInv
    <3>5. CASE next.pc \notin {"oldest", "write"}
      BY <1>1, <3>5 DEF RoomForOne
    <3>6. CASE next.pc = "oldest" /\ tx[r].pc = "count"
      <4>1. CASE Cardinality(ActiveSessions(u)) > MaxSessions
        BY <3>3, <4>1, RacesStay DEF AtMostInv
      <4>2. CASE ~(Cardinality(ActiveSessions(u)) > MaxSessions)
        <5>1. Cardinality(ActiveSessions(u)) \in Nat
          BY ReqFinite DEF ActiveSessions
        <5>2. Cardinality(ActiveSessions(u)) <= MaxSessions
          BY <4>2, <5>1, SessionsAssumption
        <5>3. RoomForOne(r)'
          BY <1>1, <3>2, <3>6, <5>2 DEF RoomForOne, ActiveSessions
        <5> QED
          BY <5>3
      <4> QED
        BY <4>1, <4>2
    <3>7. CASE /\ next.pc = "write" /\ next.victims = tx[r].victims
               /\ Cardinality(ActiveSessions(u)) < MaxSessions
      <4>1. /\ ActiveSessions(u) \in SUBSET Req
            /\ (ActiveSessions(u) \ tx[r].victims) \subseteq ActiveSessions(u)
        BY DEF ActiveSessions
      <4>2. Cardinality(ActiveSessions(u) \ tx[r].victims) < MaxSessions
        <5> HIDE DEF ActiveSessions
        <5>1. /\ Cardinality(ActiveSessions(u) \ tx[r].victims) <= Cardinality(ActiveSessions(u))
              /\ Cardinality(ActiveSessions(u)) \in Nat
              /\ Cardinality(ActiveSessions(u) \ tx[r].victims) \in Nat
          BY <4>1, ReqFinite
        <5> QED
          BY <3>7, <5>1, SessionsAssumption
      <4>3. RoomForOne(r)'
        BY <1>1, <3>2, <3>7, <4>2 DEF RoomForOne, ActiveSessions
      <4> QED
        BY <4>3
    <3>8. CASE /\ next.pc = "write" /\ tx[r].pc = "oldest"
               /\ next.victims = tx[r].victims \cup Oldest(u)
      <4>1. CASE RoomForOne(r)
        <5>1. Cardinality(ActiveSessions(u) \ next.victims) < MaxSessions
          BY <3>2, <3>8, <4>1, OldestMakesRoom DEF RoomForOne
        <5>2. RoomForOne(r)'
          BY <1>1, <3>2, <3>8, <5>1 DEF RoomForOne, ActiveSessions
        <5> QED
          BY <5>2
      <4> QED
        BY <3>1, <3>2, <3>3, <4>1, RacesStay DEF CountInv
    <3>9. CASE Obtains(r, next)
      BY <3>4, <3>9 DEF Obtains, Becomes
    <3>10. CASE Runs(r, next)
      BY <3>1, <3>2, <3>5, <3>6, <3>7, <3>8, <3>10 DEF Runs, Becomes, Inserts
    <3> QED
      BY <3>9, <3>10
  <2>2. \A u : ActiveSessions(u)' \subseteq ActiveSessions(u)
    BY <1>2
  <2>3. UNCHANGED req
    BY <1>1
  <2> QED
    BY <1>1, <2>1, <2>2, <2>3, OthersKeepRoom DEF CountInv
<1>7. AtMostInv'
  BY <1>2, LimitStays DEF AtMostInv
<1> QED
  BY <1>3, <1>5, <1>6, <1>7

\* Whoever ends keeps the locks of the others.
LEMMA ReleaseKeeps ==
  ASSUME NEW r \in Req, NEW q \in Req, q # r, NEW x \in RowLocks,
         lock' = Release(r), lock[x] = q
  PROVE  lock'[x] = q
BY DEF Release

LEMMA EndsKeepLocks ==
  ASSUME Shaped, LockedInv, NEW r \in Req, UNCHANGED req, lock' = Release(r),
         \A q \in Req : q # r => tx'[q] = tx[q], tx'[r].pc \in Ended
  PROVE  LockedInv'
<1>1. ASSUME NEW q \in Req, q # r, Keyed(q)'
      PROVE  /\ tx'[q].pc = "count" => \/ UserRow(req'[q].user) \in tx'[q].wants
                                       \/ lock'[UserRow(req'[q].user)] = q
             /\ tx'[q].pc \in {"oldest", "write"} => lock'[UserRow(req'[q].user)] = q
  <2>1. Keyed(q) /\ req[q].user \in Users /\ UserRow(req[q].user) \in RowLocks
    BY <1>1, RowsAreLocks DEF Keyed, HasUser
  <2> QED
    BY <1>1, <2>1, ReleaseKeeps DEF LockedInv
<1> QED
  BY <1>1 DEF LockedInv

\* A rollback creates no session.
LEMMA RollsBackLimit ==
  ASSUME Shaped, Shape, LimitInv, NEW r \in Req, RollsBack(r)
  PROVE  LimitInv'
<1> USE DEF LimitInv
<1>1. /\ \A q \in Req : q # r => tx'[q] = tx[q]
      /\ tx'[r].pc = "aborted" /\ UNCHANGED <<req, sessions>> /\ lock' = Release(r)
  BY DEF RollsBack, Rollback, TypeOK, Tx
<1>2. \A u : ActiveSessions(u)' \subseteq ActiveSessions(u)
  BY <1>1 DEF ActiveSessions
<1>3. KeyedInv' /\ LockedInv'
  BY <1>1, EndsKeepLocks DEF KeyedInv
<1>4. CountInv'
  <2>1. RoomForOne(r)' /\ UNCHANGED req
    BY <1>1 DEF RoomForOne
  <2> QED
    BY <1>1, <1>2, <2>1, OthersKeepRoom DEF CountInv
<1>5. AtMostInv'
  BY <1>2, LimitStays DEF AtMostInv
<1> QED
  BY <1>3, <1>4, <1>5

\* A creation that commits uses the room it had.  Another one of the user that
\* is still running has been raced: had both a device_id, one would wait.
LEMMA CommitsLimit ==
  ASSUME Shaped, Shape, LimitInv, NEW r \in Req, Commits(r)
  PROVE  LimitInv'
<1> USE DEF LimitInv
<1>1. /\ \A q \in Req : q # r => tx'[q] = tx[q]
      /\ tx'[r].pc = "committed" /\ tx[r].pc = "write" /\ UNCHANGED req /\ lock' = Release(r)
      /\ r \notin Committed /\ Committed' = Committed \cup {r}
  BY DEF Commits, Commit, TypeOK, Transaction, Committed
<1>2. \A q \in Req : r \notin req[q].before
  BY <1>1 DEF HistoryInv
<1>3. \A s \in Req : sessions'[s] = "active" =>
        \/ sessions[s] = "active" /\ s \notin tx[r].victims
        \/ s = r /\ Inserts(r)
  BY DEF Commits, Commit
<1>4. KeyedInv' /\ LockedInv'
  BY <1>1, EndsKeepLocks DEF KeyedInv
<1>5. CASE ~Inserts(r)
  <2>1. \A u : ActiveSessions(u)' \subseteq ActiveSessions(u)
    BY <1>1, <1>3, <1>5 DEF ActiveSessions
  <2>2. RoomForOne(r)' /\ UNCHANGED req
    BY <1>1 DEF RoomForOne
  <2>3. CountInv'
    BY <1>1, <2>1, <2>2, OthersKeepRoom DEF CountInv
  <2>4. AtMostInv'
    BY <2>1, LimitStays DEF AtMostInv
  <2> QED
    BY <1>4, <2>3, <2>4
<1>6. CASE Inserts(r)
  <2>1. \A u : u # req[r].user => ActiveSessions(u)' \subseteq ActiveSessions(u)
    BY <1>1, <1>3 DEF ActiveSessions
  <2>2. CountInv'
    <3>1. ASSUME NEW q \in Req, Inserts(q)'
          PROVE  (RoomForOne(q) \/ Raced(q) \/ SessionRace(req[q].user))'
      <4>1. Inserts(q) /\ req[q].user \in Users /\ tx[q].pc # "idle"
        BY <1>1, <3>1 DEF Inserts, HasUser, IdleInv
      <4>2. CASE q = r \/ tx[q].pc \notin {"oldest", "write"}
        BY <1>1, <4>2 DEF RoomForOne
      <4>3. CASE q # r /\ req[q].user # req[r].user
        <5>1. PICK v : req[q].user = v
          OBVIOUS
        <5>2. tx'[q] = tx[q] /\ ActiveSessions(v)' \subseteq ActiveSessions(v)
          BY <1>1, <2>1, <4>3, <5>1
        <5>3. RoomForOne(q)' \/ Raced(q)' \/ SessionRace(v)'
          BY <4>1, <5>1, <5>2, RoomStays
        <5> QED
          BY <1>1, <5>1, <5>3 DEF SessionRace
      <4>4. CASE q # r /\ req[q].user = req[r].user /\ (req[q].key = NoKey \/ req[r].key = NoKey)
        <5>1. r \in Committed' /\ req' = req
          BY <1>1
        <5>2. Raced(q)'
          BY <1>2, <1>6, <4>4, <5>1 DEF Raced, Inserts
        <5> QED
          BY <5>2
      <4>5. CASE /\ q # r /\ req[q].user = req[r].user /\ tx[q].pc \in {"oldest", "write"}
                 /\ req[q].key # NoKey /\ req[r].key # NoKey
        <5>1. Keyed(q) /\ Keyed(r)
          BY <1>6, <4>1, <4>5 DEF Keyed, KeyedInv, Inserts
        <5> QED
          BY <1>1, <4>5, <5>1 DEF LockedInv
      <4> QED
        BY <4>2, <4>3, <4>4, <4>5
    <3> QED
      BY <3>1 DEF CountInv
  <2>3. AtMostInv'
    <3> SUFFICES ASSUME NEW u \in Users, Cardinality(ActiveSessions(u)') > MaxSessions
                 PROVE  SessionRace(u)'
      BY DEF AtMostInv
    <3>1. CASE u # req[r].user
      BY <2>1, <3>1, LimitStays
    <3>2. CASE u = req[r].user /\ RoomForOne(r)
      <4> DEFINE S == ActiveSessions(u) \ tx[r].victims
      <4>1. /\ ActiveSessions(u)' \subseteq S \cup {r} /\ S \in SUBSET Req
            /\ S \cup {r} \in SUBSET Req
        BY <1>1, <1>3 DEF ActiveSessions
      <4>2. Cardinality(S) < MaxSessions
        BY <1>1, <3>2 DEF RoomForOne
      <4> HIDE DEF S
      <4>3. /\ Cardinality(S \cup {r}) <= Cardinality(S) + 1 /\ Cardinality(S) \in Nat
            /\ Cardinality(S \cup {r}) \in Nat
        BY <4>1, ReqFinite, FS_AddElement
      <4>4. /\ Cardinality(ActiveSessions(u)') <= Cardinality(S \cup {r})
            /\ Cardinality(ActiveSessions(u)') \in Nat
        BY <4>1, ReqFinite
      <4> QED
        BY <4>2, <4>3, <4>4, SessionsAssumption
    <3>3. CASE u = req[r].user /\ Raced(r)
      <4>1. PICK c \in Committed :
              /\ Inserts(c) /\ req[c].user = u
              /\ c \notin req[r].before
              /\ req[c].key = NoKey \/ req[r].key = NoKey
        BY <3>3 DEF Raced
      <4>2. /\ c \in Committed' /\ r \in Committed' /\ c # r /\ req' = req
            /\ r \notin req[c].before
        BY <1>1, <1>2, <4>1 DEF Committed
      <4> QED
        BY <1>6, <3>3, <4>1, <4>2 DEF SessionRace, Overlap, Inserts
    <3>4. CASE u = req[r].user /\ SessionRace(u)
      BY <3>4, RacesStay
    <3> QED
      BY <1>6, <3>1, <3>2, <3>3, <3>4 DEF CountInv
  <2> QED
    BY <1>4, <2>2, <2>3
<1> QED
  BY <1>5, <1>6

\* Every step of the system keeps the limit's invariant.
LEMMA NextLimit == Shaped /\ LimitInv /\ [Next]_vars => LimitInv'
<1> SUFFICES ASSUME Shaped, LimitInv, [Next]_vars PROVE LimitInv'
  OBVIOUS
<1>1. Shape
  BY NextShape
<1>2. CASE Idles
  <2>1. \A v : ActiveSessions(v)' = ActiveSessions(v) /\ SessionRace(v)' = SessionRace(v)
    BY <1>2 DEF Idles, ActiveSessions, SessionRace, Inserts, Committed, Overlap
  <2> QED
    BY <1>2, <2>1 DEF Idles, LimitInv, KeyedInv, LockedInv, Keyed, CountInv, Inserts,
                      RoomForOne, Raced, Committed, AtMostInv
<1>3. ASSUME NEW r \in Req, Start(r) PROVE LimitInv'
  BY <1>1, <1>3, StartLimit, BeginsKeepsLimit
<1>4. ASSUME NEW r \in Req, Step(r) PROVE LimitInv'
  BY <1>1, <1>4, StepRuns, MovesLimit, RollsBackLimit, CommitsLimit
<1>5. ASSUME NEW r \in Req, Crash(r) PROVE LimitInv'
  <2>1. RollsBack(r)
    BY <1>5 DEF Crash, RollsBack, InFlight
  <2> QED
    BY <1>1, <2>1, RollsBackLimit
<1>6. ASSUME NEW s \in Req, Expire(s) PROVE Idles
  BY <1>6 DEF Expire, Idles, TypeOK
<1>7. ASSUME UNCHANGED vars PROVE Idles
  BY <1>7 DEF vars, Idles, TypeOK
<1> QED
  BY <1>2, <1>3, <1>4, <1>5, <1>6, <1>7 DEF Next, AllAnswered

\* create_session exceeds the limit only when two creations overlapped and one
\* of them counted without the user's row lock: logins with a device_id hold
\* it from the flush of last_login_at to their commit.
THEOREM LimitSafety == Spec => []LimitExceededOnlyByUnlockedCount
<1>1. LimitInv => LimitExceededOnlyByUnlockedCount
  BY DEF LimitInv, AtMostInv, SessionRace, LimitExceededOnlyByUnlockedCount
<1> QED
  BY <1>1, InitLimit, NextLimit, ShapedCorrect, PTL DEF Spec

-----------------------------------------------------------------------------
(* Expiry.  The order in which sessions expire is that in which they were  *)
(* begun, up to overlaps; so is created_at, by which create_session evicts.*)

\* Requests begin in the order of their numbers, and see only earlier ones.
OrderInv == \A r, q \in Req :
  /\ tx[r].pc = "idle" /\ r < q => tx[q].pc = "idle"
  /\ q \in req[r].before => q < r

\* What was committed before an expired session was begun has expired too.
ExpiryInv ==
  /\ expired \subseteq Committed
  /\ \A t \in expired : \A p \in req[t].before : sessions[p] = "active" => p \in expired

\* Nothing has begun, and nothing has expired.
LEMMA InitExpiry == Init => OrderInv /\ ExpiryInv
BY DEF Init, OrderInv, ExpiryInv

\* A step that lets no session expire keeps ExpiryInv: what is committed stays
\* as it is, and no session becomes active again.
LEMMA ExpiryStays ==
  ASSUME Shaped, Shape, ExpiryInv, UNCHANGED expired
  PROVE  ExpiryInv'
<1>1. expired \subseteq Committed' /\ \A t \in expired : t \in Req /\ req'[t] = req[t]
  BY Final DEF ExpiryInv, Committed
<1>2. ASSUME NEW t \in expired, NEW p \in req[t].before, sessions'[p] = "active"
      PROVE  p \in expired
  <2>1. p \in Committed
    BY <1>1, <1>2 DEF HistoryInv
  <2>2. sessions[p] = "active"
    BY <1>2, <2>1, Final DEF Committed
  <2> QED
    BY <1>2, <2>2 DEF ExpiryInv
<1> QED
  BY <1>1, <1>2 DEF ExpiryInv

\* A request that begins has only earlier ones before it.
LEMMA BeginsOrder ==
  ASSUME Shaped, OrderInv, NEW r \in Req, NEW o, NEW u, NEW k, NEW t, NEW first,
         Begins(r, o, u, k, t, first)
  PROVE  OrderInv'
<1>1. /\ tx[r].pc = "idle" /\ \A q \in Req : q < r => tx[q].pc # "idle"
      /\ tx' = [tx EXCEPT ![r] = first] /\ first.pc # "idle"
      /\ \A q \in Req : q # r => tx'[q] = tx[q] /\ req'[q] = req[q]
      /\ tx'[r].pc # "idle" /\ req'[r].before = Committed
  BY DEF Begins, Begin, TypeOK, Running
<1>2. ASSUME NEW q \in Committed PROVE q < r
  <2>1. q \in Req /\ q # r /\ tx[q].pc # "idle"
    BY <1>1 DEF Committed
  <2>2. ~ (r < q)
    BY <1>1, <2>1 DEF OrderInv
  <2> QED
    BY <2>1, <2>2, SessionsAssumption DEF Req
<1>3. ASSUME NEW a \in Req, NEW q \in Req, tx'[a].pc = "idle", a < q
      PROVE  tx'[q].pc = "idle"
  <2>1. a # r /\ tx[a].pc = "idle" /\ q # r
    BY <1>1, <1>3
  <2> QED
    BY <1>1, <1>3, <2>1 DEF OrderInv
<1>4. ASSUME NEW a \in Req, NEW q \in Req, q \in req'[a].before PROVE q < a
  BY <1>1, <1>2, <1>4 DEF OrderInv
<1> QED
  BY <1>3, <1>4 DEF OrderInv

\* A step of a request that has begun keeps the order.
LEMMA OrderStays ==
  ASSUME OrderInv, UNCHANGED req,
         \A q \in Req : tx'[q].pc = "idle" <=> tx[q].pc = "idle"
  PROVE  OrderInv'
BY DEF OrderInv

\* Every step of the system keeps the order of requests and of expiry.
LEMMA NextExpiry == Shaped /\ OrderInv /\ ExpiryInv /\ [Next]_vars => OrderInv' /\ ExpiryInv'
<1> SUFFICES ASSUME Shaped, OrderInv, ExpiryInv, [Next]_vars
             PROVE  OrderInv' /\ ExpiryInv'
  OBVIOUS
<1>0. Shape
  BY NextShape
<1>1. ASSUME NEW r \in Req, Start(r) PROVE OrderInv' /\ ExpiryInv'
  <2>1. PICK o, u, k, t, first : Begins(r, o, u, k, t, first)
    BY <1>1, StartShape
  <2>2. UNCHANGED expired
    BY <2>1 DEF Begins, Begin
  <2> QED
    BY <1>0, <2>1, <2>2, BeginsOrder, ExpiryStays
<1>2. ASSUME NEW r \in Req, (\E next : Moves(r, next)) \/ RollsBack(r) \/ Commits(r)
      PROVE  OrderInv' /\ ExpiryInv'
  <2>1. /\ UNCHANGED <<req, expired>>
        /\ \A q \in Req : tx'[q].pc = "idle" <=> tx[q].pc = "idle"
    <3>1. ASSUME NEW next, Moves(r, next)
          PROVE  /\ UNCHANGED <<req, expired>>
                 /\ \A q \in Req : tx'[q].pc = "idle" <=> tx[q].pc = "idle"
      BY <3>1 DEF Moves, TypeOK, Running
    <3>2. CASE RollsBack(r)
      BY <3>2 DEF RollsBack, Rollback, TypeOK, Running, Tx
    <3>3. CASE Commits(r)
      BY <3>3 DEF Commits, Commit, TypeOK, Transaction
    <3> QED
      BY <1>2, <3>1, <3>2, <3>3
  <2> QED
    BY <1>0, <2>1, OrderStays, ExpiryStays
<1>3. ASSUME NEW r \in Req, Crash(r) PROVE RollsBack(r)
  BY <1>3 DEF Crash, RollsBack, InFlight
<1>4. ASSUME NEW s \in Req, Expire(s) PROVE OrderInv' /\ ExpiryInv'
  <2>1. UNCHANGED <<req, tx, sessions>> /\ expired' = expired \cup {s} /\ s \in Committed
    BY <1>4 DEF Expire, RowsInv, Committed
  <2>2. Committed' = Committed
    BY <2>1 DEF Committed
  <2> QED
    BY <1>4, <2>1, <2>2, OrderStays DEF Expire, ExpiryInv
<1>5. CASE UNCHANGED vars
  BY <1>0, <1>5, OrderStays, ExpiryStays DEF vars
<1> QED
  BY <1>1, <1>2, <1>3, <1>4, <1>5, StepShape DEF Next, AllAnswered

\* The eviction of create_session takes the oldest session of the account: if
\* that one is usable, an expired one overlapped it.
LEMMA EvictionIsOldest ==
  ASSUME Shaped, OrderInv, ExpiryInv, [Next]_vars,
         NEW r \in Req, NEW s \in Req, NEW t \in Req,
         At(r, "oldest"), s \in tx'[r].victims \ tx[r].victims, s \notin expired,
         t \in ActiveSessions(req[r].user) \cap expired
  PROVE  Overlap(s, t)
<1>1. ASSUME s \in Oldest(req[r].user) PROVE Overlap(s, t)
  <2>1. s < t /\ sessions[s] = "active"
    BY <1>1, SessionsAssumption DEF Oldest, ActiveSessions, Req
  <2>2. s \notin req[t].before
    BY <2>1 DEF ExpiryInv
  <2>3. t \notin req[s].before
    BY <2>1, SessionsAssumption DEF OrderInv, Req
  <2> QED
    BY <2>2, <2>3 DEF Overlap
<1>2. tx'[r].victims # tx[r].victims
  OBVIOUS
<1>3. tx[r].pc = "oldest" /\ tx[r].wants = {} /\ tx[r] \in Transaction
  BY DEF At, TypeOK
<1>4. ASSUME NEW q \in Req, q # r, tx'[r] = tx[r] PROVE FALSE
  BY <1>2, <1>4
<1>5. ASSUME NEW q \in Req, Start(q) PROVE FALSE
  <2>1. tx[q].pc = "idle" /\ \E first : tx' = [tx EXCEPT ![q] = first]
    BY <1>5, StartShape DEF Begins, Begin
  <2> QED
    BY <1>2, <1>3, <2>1 DEF TypeOK
<1>6. ASSUME NEW q \in Req, RollsBack(q) PROVE FALSE
  BY <1>6, <1>2 DEF RollsBack, Rollback, Tx, TypeOK
<1>7. ASSUME NEW q \in Req, Commits(q) PROVE FALSE
  BY <1>7, <1>2 DEF Commits, Commit, TypeOK, Transaction
<1>8. ASSUME NEW q \in Req, Step(q), q # r PROVE FALSE
  <2>1. ASSUME NEW next, Moves(q, next) PROVE FALSE
    BY <1>2, <1>8, <2>1 DEF Moves, TypeOK
  <2> QED
    BY <1>6, <1>7, <1>8, <2>1, StepShape
<1>9. ASSUME Step(r) PROVE s \in Oldest(req[r].user)
  <2>1. CASE RevokeOldest(r)
    BY <2>1 DEF RevokeOldest, Tx, TypeOK, Transaction
  <2>2. CASE Acquire(r)
    BY <1>3, <2>2 DEF Acquire
  <2>3. CASE DeadlockVictim(r)
    BY <1>3, <1>6, <2>3 DEF DeadlockVictim, RollsBack, Running
  <2> QED
    BY <1>3, <1>9, <2>1, <2>2, <2>3
    DEF Step, At, LookupDevice, CheckDeviceLimit, ExpireSession, CheckAccount, CountSessions,
        FlushDevice, Commit
<1>10. ASSUME NEW q \in Req, Crash(q) PROVE FALSE
  BY <1>6, <1>10 DEF Crash, RollsBack, InFlight
<1>11. ASSUME UNCHANGED tx PROVE FALSE
  BY <1>2, <1>11
<1>12. (\E q \in Req : Expire(q)) \/ AllAnswered \/ UNCHANGED vars => UNCHANGED tx
  BY DEF Expire, AllAnswered, vars
<1> QED
  BY <1>1, <1>5, <1>8, <1>9, <1>10, <1>11, <1>12 DEF Next

\* create_session evicts a usable session only if no expired one of the account
\* is left, up to overlapping creations: that EXPIRED is never recorded costs
\* no usable session its place.
THEOREM ExpiredFirst == Spec => EvictsExpiredFirst
<1>1. Shaped /\ OrderInv /\ ExpiryInv /\ [Next]_vars =>
        [\A r, s, t \in Req :
           /\ At(r, "oldest") /\ s \in tx'[r].victims \ tx[r].victims
           /\ s \notin expired
           /\ t \in ActiveSessions(req[r].user) \cap expired
           => Overlap(s, t)]_vars
  BY EvictionIsOldest
<1> QED
  BY <1>1, InitExpiry, NextExpiry, ShapedCorrect, PTL DEF Spec, EvictsExpiredFirst
=============================================================================
