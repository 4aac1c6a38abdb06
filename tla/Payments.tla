------------------------------ MODULE Payments ------------------------------
(***************************************************************************)
(* Payment orders and the entitlements they pay for: create, submit for    *)
(* review, approve with its grant, reject, and the listing that expires    *)
(* entitlements.                                                           *)
(*                                                                         *)
(* Each request reads the order without locking it, decides on what it     *)
(* read, and writes in an UPDATE that commits with its transaction; two    *)
(* administrators and the payer work on the same order.  `log` is the      *)
(* order of the commits and `at` how much of it a request had seen.        *)
(***************************************************************************)
EXTENDS Naturals, Sequences, FiniteSets

CONSTANTS
  MaxRequests,   \* bound: requests in a behaviour
  PoolSize,      \* requests that run at the same time
  Keys, NoKey,   \* idempotency keys, and none
  Users          \* the payers

ASSUME PaymentsAssumption ==
  /\ MaxRequests \in Nat
  /\ PoolSize \in Nat
  /\ NoKey \notin Keys
  /\ 0 \notin Users

Request == 1..MaxRequests

VARIABLES
  order,  \* payment_orders.status; row r is the one that request r inserts
  ent,    \* entitlements.status; row r is the one that request r grants
  req,    \* what each request does
  log     \* the requests that have committed, in that order

vars == <<order, ent, req, log>>

\* REFUNDED and EXPIRED exist, but no code assigns them.
PaymentStatus == {"none", "pending", "under_review", "approved", "rejected"}

\* saw: the status it read; paid: its order has a plan that grants premium.
RequestState ==
  [pc : {"new", "checked", "answered", "failed"},
   op : {"none", "create", "submit", "approve", "reject"},
   user : Users \cup {0}, key : Keys \cup {NoKey}, paid : BOOLEAN,
   order : Request \cup {0}, saw : PaymentStatus, at : Nat]

TypeOK ==
  /\ order \in [Request -> PaymentStatus]
  /\ ent \in [Request -> {"none", "active", "expired"}]
  /\ req \in [Request -> RequestState]
  /\ log \in Seq(Request)

NewRequest ==
  [pc |-> "new", op |-> "none", user |-> 0, key |-> NoKey, paid |-> FALSE,
   order |-> 0, saw |-> "none", at |-> 0]

Init ==
  /\ order = [r \in Request |-> "none"]
  /\ ent = [r \in Request |-> "none"]
  /\ req = [r \in Request |-> NewRequest]
  /\ log = <<>>

InFlight == {r \in Request : req[r].pc = "checked"}

\* Request r is the next to start; s is its state after what it read.
Starts(r, s) ==
  /\ req[r].pc = "new"
  /\ \A q \in Request : q < r => req[q].pc # "new"
  /\ Cardinality(InFlight) < PoolSize
  /\ req' = [req EXCEPT ![r] = [s EXCEPT !.at = Len(log)]]
  /\ UNCHANGED <<order, ent, log>>

-----------------------------------------------------------------------------
(* create_order.                                                           *)

OrdersWith(k) ==
  {o \in Request : k # NoKey /\ order[o] # "none" /\ req[o].key = k}

\* The key is looked up: its order is the answer, whoever asks; otherwise a
\* row is about to be inserted.
BeginCreate(r, u, k, paid) ==
  LET s == [NewRequest EXCEPT !.op = "create", !.user = u, !.key = k, !.paid = paid]
  IN  \/ OrdersWith(k) = {} /\ Starts(r, [s EXCEPT !.pc = "checked", !.order = r])
      \/ \E o \in OrdersWith(k) :
           Starts(r, [s EXCEPT !.pc = "answered", !.order = o])

CommitCreate_NoConstraint(r) ==
  /\ req[r].pc = "checked" /\ req[r].op = "create"
  /\ req' = [req EXCEPT ![r].pc = "answered"]
  /\ order' = [order EXCEPT ![r] = "pending"]
  /\ log' = Append(log, r)
  /\ UNCHANGED ent

\* The insert, unless another request has committed a row with the key since.
CommitCreate(r) ==
  /\ req[r].pc = "checked" /\ req[r].op = "create"
  /\ OrdersWith(req[r].key) = {}
  /\ req' = [req EXCEPT ![r].pc = "answered"]
  /\ order' = [order EXCEPT ![r] = "pending"]
  /\ log' = Append(log, r)
  /\ UNCHANGED ent

\* A unique violation, or any other failure before the commit.
Fail(r) ==
  /\ req[r].pc = "checked"
  /\ req' = [req EXCEPT ![r] = [NewRequest EXCEPT !.pc = "failed"]]
  /\ UNCHANGED <<order, ent, log>>

-----------------------------------------------------------------------------
(* submit_for_review, approve and reject.                                  *)

Begins(r, op, o) ==
  Starts(r, [NewRequest EXCEPT !.pc = "checked", !.op = op, !.user = req[o].user,
                               !.order = o, !.saw = order[o]])

BeginSubmit_AnyStatus(r, o) == order[o] # "none" /\ Begins(r, "submit", o)

\* Only by the order's owner.
BeginSubmit(r, o) ==
  /\ order[o] \in {"pending", "rejected"}
  /\ Begins(r, "submit", o)

BeginApprove_AnyStatus(r, o) == order[o] # "none" /\ Begins(r, "approve", o)

BeginApprove(r, o) ==
  /\ order[o] \in {"under_review", "pending"}
  /\ Begins(r, "approve", o)

\* No status is refused.
BeginReject(r, o) == order[o] # "none" /\ Begins(r, "reject", o)

\* The transaction of r ends with order o in status s.
Writes(r, o, s) ==
  /\ req' = [req EXCEPT ![r].pc = "answered"]
  /\ order' = [order EXCEPT ![o] = s]
  /\ log' = Append(log, r)

CommitSubmit(r) ==
  /\ req[r].pc = "checked" /\ req[r].op = "submit"
  /\ Writes(r, req[r].order, "under_review")
  /\ UNCHANGED ent

\* The status and, for a premium plan, the entitlement.
CommitApprove(r) ==
  LET o == req[r].order
  IN  /\ req[r].pc = "checked" /\ req[r].op = "approve"
      /\ Writes(r, o, "approved")
      /\ ent' = [ent EXCEPT ![r] = IF req[o].paid THEN "active" ELSE @]

\* A status that was read REJECTED is not among the columns written.  An
\* entitlement granted before stays.
CommitReject(r) ==
  LET o == req[r].order
  IN  /\ req[r].pc = "checked" /\ req[r].op = "reject"
      /\ Writes(r, o, IF req[r].saw = "rejected" THEN order[o] ELSE "rejected")
      /\ UNCHANGED ent

-----------------------------------------------------------------------------
(* list_active marks the entitlements of its user that have run out.       *)

Active(u) == {e \in Request : ent[e] = "active" /\ req[e].user = u}

\* due are those whose expires_at has passed by now.
ListActive(u, due) ==
  /\ due # {}
  /\ ent' = [e \in Request |-> IF e \in due THEN "expired" ELSE ent[e]]
  /\ UNCHANGED <<order, req, log>>

-----------------------------------------------------------------------------
\* Every request has been answered.
Idle ==
  /\ \A r \in Request : req[r].pc \in {"answered", "failed"}
  /\ UNCHANGED vars

Next ==
  \/ \E r \in Request :
       \/ \E u \in Users, k \in Keys \cup {NoKey}, paid \in BOOLEAN :
            BeginCreate(r, u, k, paid)
       \/ CommitCreate(r) \/ Fail(r)
       \/ \E o \in Request : BeginSubmit(r, o) \/ BeginApprove(r, o) \/ BeginReject(r, o)
       \/ CommitSubmit(r) \/ CommitApprove(r) \/ CommitReject(r)
  \/ \E u \in Users : \E due \in SUBSET Active(u) : ListActive(u, due)
  \/ Idle

Spec == Init /\ [][Next]_vars

-----------------------------------------------------------------------------
(* Properties.                                                             *)

\* The i-th commit is request op of order o.
Did(i, op, o) == req[log[i]].op = op /\ req[log[i]].order = o

\* The request that committed j-th had seen the i-th commit.
SawCommit(j, i) == i <= req[log[j]].at

\* An order is approved, and paid access granted, a second time only by an
\* approval that was under way when the first one committed, or after the
\* payer submitted the order again in between (approve, 135-138).
SecondApprovalNeedsRaceOrResubmission ==
  \A i, j \in DOMAIN log :
    \A o \in Request :
      i < j /\ Did(i, "approve", o) /\ Did(j, "approve", o) /\ SawCommit(j, i)
        => \E k \in i..j : Did(k, "submit", o) /\ SawCommit(j, k)

\* What was approved stays approved, with the entitlement of a premium plan
\* behind it, unless it is rejected afterwards or a submit that read the order
\* before the approval overwrites it.
ApprovalHoldsUnlessUndone ==
  \A i \in DOMAIN log : \A o \in Request :
    Did(i, "approve", o) =>
      /\ req[o].paid => ent[log[i]] # "none"
      /\ \/ order[o] = "approved"
         \/ \E j \in DOMAIN log :
              /\ i < j
              /\ Did(j, "reject", o) \/ (Did(j, "submit", o) /\ ~SawCommit(j, i))

\* A create that was answered, a retried one too, stands for a committed order
\* with the key it sent, and no key has two orders.
CreateIsIdempotent ==
  /\ \A r \in Request : req[r].op = "create" /\ req[r].pc = "answered" =>
       LET o == req[r].order IN order[o] # "none" /\ req[o].key = req[r].key
  /\ \A k \in Keys : \A o, p \in OrdersWith(k) : o = p
=============================================================================
