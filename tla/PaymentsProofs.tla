--------------------------- MODULE PaymentsProofs ---------------------------
(***************************************************************************)
(* Proofs about Payments: its types, that a create is idempotent, and what *)
(* an approval and a second approval may rest on, for any number of        *)
(* requests, payers and keys.                                              *)
(***************************************************************************)
EXTENDS Payments, TLAPS, SequenceTheorems

\* The i-th commit left order o approved, and the j-th may undo that.
Undoes(j, i, o) ==
  /\ i < j
  /\ Did(j, "reject", o) \/ (Did(j, "submit", o) /\ ~SawCommit(j, i))

\* Request r holds an order that exists, its own when it creates one; an order
\* exists because its create was answered; and an answered create has an order
\* with its key.
RequestOK(r) ==
  /\ req[r].pc = "checked" =>
       /\ req[r].at <= Len(log)
       /\ IF req[r].op = "create" THEN req[r].order = r
          ELSE req[r].order \in Request /\ order[req[r].order] # "none"
  /\ order[r] # "none" => req[r].op = "create" /\ req[r].pc = "answered" /\ req[r].order = r
  /\ req[r].op = "create" /\ req[r].pc = "answered" =>
       /\ req[r].order \in Request /\ order[req[r].order] # "none"
       /\ req[req[r].order].key = req[r].key

\* What request r has seen approved is no longer so when it submits, and was
\* submitted again when it approves.
SeenOK(r) ==
  req[r].pc = "checked" =>
    \A i \in 1..req[r].at : Did(i, "approve", req[r].order) =>
      /\ req[r].op = "submit" => \E j \in DOMAIN log : Undoes(j, i, req[r].order)
      /\ req[r].op = "approve" => \E k \in i..req[r].at : Did(k, "submit", req[r].order)

RequestInv == \A r \in Request : RequestOK(r)
SeenInv == \A r \in Request : SeenOK(r)

\* Who committed was answered, had an order, and had begun before.
LogInv ==
  \A i \in DOMAIN log :
    /\ log[i] \in Request /\ req[log[i]].pc = "answered"
    /\ req[log[i]].order \in Request /\ order[req[log[i]].order] # "none"
    /\ req[log[i]].at < i

KeyInv == \A k \in Keys : \A o, p \in OrdersWith(k) : o = p

\* What an approval left, and what it takes to leave it for a review.
ApprovedInv ==
  \A i \in DOMAIN log : \A o \in Request : Did(i, "approve", o) =>
    /\ req[o].paid => ent[log[i]] # "none"
    /\ order[o] = "approved" \/ \E j \in DOMAIN log : Undoes(j, i, o)
    /\ \/ order[o] \in {"approved", "rejected"}
       \/ \E k \in DOMAIN log : i < k /\ Did(k, "submit", o)

PayInv ==
  /\ TypeOK /\ RequestInv /\ SeenInv /\ LogInv /\ KeyInv /\ ApprovedInv
  /\ SecondApprovalNeedsRaceOrResubmission

-----------------------------------------------------------------------------

LEMMA RequestNat == Request \subseteq Nat /\ 0 \notin Request
  BY PaymentsAssumption DEF Request

LEMMA InitInv == Init => PayInv
  <1> SUFFICES ASSUME Init PROVE PayInv OBVIOUS
  <1>1. NewRequest \in RequestState BY DEF NewRequest, RequestState, PaymentStatus
  <1>2. log = <<>> /\ DOMAIN log = {} BY DEF Init
  <1>3. TypeOK BY <1>1 DEF Init, TypeOK, PaymentStatus
  <1>4. \A r \in Request : req[r].pc = "new" /\ order[r] = "none" BY DEF Init, NewRequest
  <1> QED BY <1>2, <1>3, <1>4
    DEF PayInv, RequestInv, RequestOK, SeenInv, SeenOK, LogInv, KeyInv, ApprovedInv, OrdersWith,
        SecondApprovalNeedsRaceOrResubmission

-----------------------------------------------------------------------------
(* Two shapes of a step: one that leaves the log alone, and a commit.      *)

\* No order changes; the requests that change are fine again.
LEMMA QuietKeeps ==
  ASSUME PayInv, order' = order, log' = log,
         req' \in [Request -> RequestState],
         ent' \in [Request -> {"none", "active", "expired"}],
         \A e \in Request : ent[e] # "none" => ent'[e] # "none",
         \A r \in Request : req[r].pc = "answered" => req'[r] = req[r],
         \A r \in Request : req'[r] = req[r] \/ (RequestOK(r)' /\ SeenOK(r)')
  PROVE  PayInv'
  <1> USE DEF PayInv
  <1>1. TypeOK' BY DEF TypeOK
  <1>2. \A i \in DOMAIN log : log[i] \in Request /\ req'[log[i]] = req[log[i]] BY DEF LogInv
  <1>3. LogInv' BY <1>2 DEF LogInv
  <1>4. \A i, j \in DOMAIN log : \A o :
          /\ \A op : Did(i, op, o)' <=> Did(i, op, o)
          /\ SawCommit(i, j)' <=> SawCommit(i, j)
          /\ Undoes(i, j, o)' <=> Undoes(i, j, o)
    BY <1>2 DEF Did, SawCommit, Undoes
  <1>5. \A o \in Request : order[o] # "none" => req'[o] = req[o]
    BY DEF RequestInv, RequestOK
  <1>6. KeyInv' BY <1>5 DEF KeyInv, OrdersWith
  <1>7. \A i \in DOMAIN log : \A o \in Request : Did(i, "approve", o) => req'[o] = req[o]
    BY <1>5 DEF LogInv, Did
  <1>8. ApprovedInv' BY <1>2, <1>4, <1>7 DEF ApprovedInv
  <1>9. DOMAIN log = 1..Len(log) /\ Len(log) \in Nat BY DEF TypeOK
  <1>10. SecondApprovalNeedsRaceOrResubmission'
    <2> SUFFICES ASSUME NEW i \in DOMAIN log, NEW j \in DOMAIN log, NEW o \in Request,
                        i < j, Did(i, "approve", o), Did(j, "approve", o), SawCommit(j, i)
                 PROVE  \E k \in i..j : Did(k, "submit", o)' /\ SawCommit(j, k)'
      BY <1>4 DEF SecondApprovalNeedsRaceOrResubmission
    <2>1. PICK k \in i..j : Did(k, "submit", o) /\ SawCommit(j, k)
      BY DEF SecondApprovalNeedsRaceOrResubmission
    <2>2. k \in DOMAIN log BY <1>9
    <2> QED BY <1>4, <2>1, <2>2
  <1>11. ASSUME NEW r \in Request, req'[r] = req[r] PROVE RequestOK(r)' /\ SeenOK(r)'
    <2>1. RequestOK(r) /\ SeenOK(r) BY DEF RequestInv, SeenInv
    <2>2. RequestOK(r)' BY <1>5, <1>11, <2>1 DEF RequestOK
    <2>3. SeenOK(r)'
      <3> PICK o : o = req[r].order OBVIOUS
      <3> SUFFICES ASSUME req[r].pc = "checked", NEW i \in 1..req[r].at,
                          Did(i, "approve", o)'
                   PROVE  /\ req[r].op = "submit" => \E j \in DOMAIN log : Undoes(j, i, o)'
                          /\ req[r].op = "approve" =>
                               \E k \in i..req[r].at : Did(k, "submit", o)'
        BY <1>11 DEF SeenOK
      <3>1. req[r].at \in Nat /\ req[r].at <= Len(log) BY <2>1 DEF RequestOK, TypeOK, RequestState
      <3>2. i \in DOMAIN log /\ \A k \in i..req[r].at : k \in DOMAIN log BY <1>9, <3>1
      <3>3. Did(i, "approve", o) BY <1>4, <3>2
      <3>4. ASSUME req[r].op = "submit" PROVE \E j \in DOMAIN log : Undoes(j, i, o)'
        BY <1>4, <2>1, <3>2, <3>3, <3>4 DEF SeenOK
      <3>5. ASSUME req[r].op = "approve"
            PROVE  \E k \in i..req[r].at : Did(k, "submit", o)'
        BY <1>4, <2>1, <3>2, <3>3, <3>5 DEF SeenOK
      <3> QED BY <3>4, <3>5
    <2> QED BY <2>2, <2>3
  <1>12. RequestInv' /\ SeenInv' BY <1>11 DEF RequestInv, SeenInv
  <1> QED BY <1>1, <1>3, <1>6, <1>8, <1>10, <1>12

\* Request r commits, and leaves its order in status s.
Commits(r, s) ==
  /\ req[r].pc = "checked" /\ req[r].order \in Request
  /\ req' = [req EXCEPT ![r].pc = "answered"]
  /\ order' = [order EXCEPT ![req[r].order] = s]
  /\ log' = Append(log, r)
  /\ ent' \in [Request -> {"none", "active", "expired"}]
  /\ \A e \in Request : ent[e] # "none" => ent'[e] # "none"

\* What a commit does to the log and to what is said of it.
LEMMA CommitShape ==
  ASSUME PayInv, NEW r \in Request, NEW s \in PaymentStatus \ {"none"}, Commits(r, s)
  PROVE  /\ TypeOK' /\ LogInv'
         /\ Len(log) \in Nat /\ DOMAIN log = 1..Len(log) /\ DOMAIN log' = 1..(Len(log) + 1)
         /\ log'[Len(log) + 1] = r /\ \A i \in DOMAIN log : log'[i] = log[i]
         /\ req'[r] = [req[r] EXCEPT !.pc = "answered"]
         /\ \A q \in Request : q # r => req'[q] = req[q]
         /\ order'[req[r].order] = s
         /\ \A o \in Request : o # req[r].order => order'[o] = order[o]
  <1> USE DEF PayInv
  <1>1. Len(log) \in Nat /\ DOMAIN log = 1..Len(log) /\ log \in Seq(Request) BY DEF TypeOK
  <1>2. /\ DOMAIN log' = 1..(Len(log) + 1) /\ log' \in Seq(Request)
        /\ log'[Len(log) + 1] = r /\ \A i \in DOMAIN log : log'[i] = log[i]
    BY <1>1 DEF Commits
  <1>3. /\ req' \in [Request -> RequestState]
        /\ req'[r] = [req[r] EXCEPT !.pc = "answered"]
        /\ \A q \in Request : q # r => req'[q] = req[q]
    BY DEF Commits, TypeOK, RequestState
  <1>4. /\ order' \in [Request -> PaymentStatus] /\ order'[req[r].order] = s
        /\ \A o \in Request : o # req[r].order => order'[o] = order[o]
    BY DEF Commits, TypeOK
  <1>5. TypeOK' BY <1>2, <1>3, <1>4 DEF TypeOK, Commits
  <1>6. LogInv'
    <2> SUFFICES ASSUME NEW i \in DOMAIN log'
                 PROVE  /\ log'[i] \in Request /\ req'[log'[i]].pc = "answered"
                        /\ req'[log'[i]].order \in Request
                        /\ order'[req'[log'[i]].order] # "none"
                        /\ req'[log'[i]].at < i
      BY DEF LogInv
    <2>1. CASE i \in DOMAIN log
      <3>1. log'[i] = log[i] /\ req'[log[i]] = req[log[i]]
        BY <1>2, <1>3, <2>1 DEF LogInv, Commits
      <3> QED BY <1>4, <2>1, <3>1 DEF LogInv
    <2>2. CASE i = Len(log) + 1
      <3>1. log'[i] = r /\ req'[r].pc = "answered" /\ req'[r].order = req[r].order
        BY <1>2, <1>3, <2>2 DEF TypeOK, RequestState
      <3>2. req'[r].at = req[r].at /\ req[r].at \in Nat /\ req[r].at <= Len(log)
        BY <1>3 DEF TypeOK, RequestState, RequestInv, RequestOK, Commits
      <3> QED BY <1>1, <1>4, <2>2, <3>1, <3>2 DEF Commits
    <2> QED BY <1>1, <1>2, <2>1, <2>2
  <1> QED BY <1>1, <1>2, <1>3, <1>4, <1>5, <1>6

\* What is said of the commits so far stays, and of the new one it is known.
LEMMA CommitHistory ==
  ASSUME PayInv, NEW r \in Request, NEW s \in PaymentStatus \ {"none"}, Commits(r, s),
         NEW n, n = Len(log) + 1
  PROVE  /\ \A i \in DOMAIN log : i \in DOMAIN log'
         /\ \A i \in DOMAIN log : \A o, op : Did(i, op, o)' <=> Did(i, op, o)
         /\ \A i \in DOMAIN log : \A k : SawCommit(i, k)' <=> SawCommit(i, k)
         /\ \A i, j \in DOMAIN log : \A o : Undoes(j, i, o)' <=> Undoes(j, i, o)
         /\ \A o, op : Did(n, op, o)' <=> req[r].op = op /\ req[r].order = o
         /\ \A k : SawCommit(n, k)' <=> k <= req[r].at
  <1> USE DEF PayInv
  <1>1. /\ Len(log) \in Nat /\ DOMAIN log = 1..Len(log) /\ DOMAIN log' = 1..(Len(log) + 1)
        /\ log'[Len(log) + 1] = r /\ \A i \in DOMAIN log : log'[i] = log[i]
        /\ req'[r] = [req[r] EXCEPT !.pc = "answered"]
        /\ \A q \in Request : q # r => req'[q] = req[q]
    BY CommitShape
  <1>2. \A i \in DOMAIN log : log[i] \in Request /\ log[i] # r BY DEF LogInv, Commits
  <1>3. req'[r].op = req[r].op /\ req'[r].order = req[r].order /\ req'[r].at = req[r].at
    BY <1>1 DEF TypeOK, RequestState
  <1>4. \A i \in DOMAIN log : req'[log'[i]] = req[log[i]] BY <1>1, <1>2
  <1>5. \A i \in DOMAIN log : \A o, op : Did(i, op, o)' <=> Did(i, op, o) BY <1>4 DEF Did
  <1>6. \A i \in DOMAIN log : \A k : SawCommit(i, k)' <=> SawCommit(i, k) BY <1>4 DEF SawCommit
  <1>7. \A i, j \in DOMAIN log : \A o : Undoes(j, i, o)' <=> Undoes(j, i, o)
    BY <1>5, <1>6 DEF Undoes
  <1>8. \A o, op : Did(n, op, o)' <=> req[r].op = op /\ req[r].order = o
    BY <1>1, <1>3 DEF Did
  <1>9. \A k : SawCommit(n, k)' <=> k <= req[r].at BY <1>1, <1>3 DEF SawCommit
  <1> QED BY <1>1, <1>5, <1>6, <1>7, <1>8, <1>9

\* A commit keeps everything if its status fits its kind, a create inserts a
\* free key, and an approval of a paid order grants.
LEMMA CommitKeeps ==
  ASSUME PayInv, NEW r \in Request, NEW s \in PaymentStatus \ {"none"}, Commits(r, s),
         req[r].op = "create" => OrdersWith(req[r].key) = {} /\ s = "pending",
         req[r].op = "submit" => s = "under_review",
         req[r].op = "approve" => s = "approved" /\ (req[req[r].order].paid => ent'[r] # "none"),
         req[r].op = "reject" => s \in {"rejected", order[req[r].order]},
         req[r].op \in {"create", "submit", "approve", "reject"}
  PROVE  PayInv'
  <1> PICK o : o = req[r].order OBVIOUS
  <1> PICK n : n = Len(log) + 1 OBVIOUS
  <1>1. /\ TypeOK' /\ LogInv'
        /\ Len(log) \in Nat /\ DOMAIN log = 1..Len(log) /\ DOMAIN log' = 1..n
        /\ log'[n] = r /\ \A i \in DOMAIN log : log'[i] = log[i]
        /\ req'[r] = [req[r] EXCEPT !.pc = "answered"]
        /\ \A q \in Request : q # r => req'[q] = req[q]
        /\ order'[o] = s /\ \A p \in Request : p # o => order'[p] = order[p]
    BY CommitShape
  <1>2. /\ \A i \in DOMAIN log : i \in DOMAIN log'
        /\ \A i \in DOMAIN log : \A p, op : Did(i, op, p)' <=> Did(i, op, p)
        /\ \A i \in DOMAIN log : \A k : SawCommit(i, k)' <=> SawCommit(i, k)
        /\ \A i, j \in DOMAIN log : \A p : Undoes(j, i, p)' <=> Undoes(j, i, p)
        /\ \A p, op : Did(n, op, p)' <=> req[r].op = op /\ o = p
        /\ \A k : SawCommit(n, k)' <=> k <= req[r].at
    BY CommitHistory
  <1>3. req[r].pc = "checked" /\ o \in Request BY DEF Commits
  <1>4. /\ TypeOK /\ RequestInv /\ SeenInv /\ LogInv /\ KeyInv /\ ApprovedInv
        /\ SecondApprovalNeedsRaceOrResubmission
    BY DEF PayInv
  <1>5. /\ req'[r].pc = "answered" /\ req'[r].op = req[r].op /\ req'[r].order = o
        /\ req'[r].key = req[r].key /\ req'[r].at = req[r].at /\ req'[r].paid = req[r].paid
    BY <1>1, <1>4 DEF TypeOK, RequestState
  <1>6. req[r].at \in Nat /\ req[r].at <= Len(log)
    BY <1>3, <1>4 DEF TypeOK, RequestState, RequestInv, RequestOK
  <1>7. RequestInv'
    <2> SUFFICES ASSUME NEW q \in Request PROVE RequestOK(q)' BY DEF RequestInv
    <2>1. RequestOK(q) /\ RequestOK(r) BY <1>4 DEF RequestInv
    <2>2. \A p \in Request : order[p] # "none" => order'[p] # "none" BY <1>1
    <2>3. \A p \in Request : req'[p].key = req[p].key BY <1>1, <1>5
    <2>4. Len(log') = n BY <1>1 DEF Commits, TypeOK
    <2>5. CASE q = r
      <3>1. CASE req[r].op = "create"
        <4>1. o = r BY <1>3, <2>1, <3>1 DEF RequestOK
        <4>2. /\ req'[r].order = r /\ req'[r].op = "create" /\ req'[r].pc = "answered"
              /\ order'[r] # "none"
          BY <1>1, <1>5, <3>1, <4>1
        <4> QED BY <2>5, <4>2 DEF RequestOK
      <3>2. CASE req[r].op # "create"
        <4>1. order[r] = "none" /\ o # r BY <1>3, <2>1, <3>2 DEF RequestOK
        <4> QED BY <1>1, <1>5, <2>5, <3>2, <4>1 DEF RequestOK
      <3> QED BY <3>1, <3>2
    <2>6. CASE q # r
      <3>1. req'[q] = req[q] BY <1>1, <2>6
      <3>2. req[q].pc = "checked" => req[q].at \in Nat /\ req[q].at <= Len(log)
        BY <1>4, <2>1 DEF RequestOK, TypeOK, RequestState
      <3>3. req[q].pc = "checked" => req[q].at <= Len(log') BY <1>1, <2>4, <3>2
      <3>4. order'[q] # "none" => order[q] # "none"
        <4>1. CASE q = o
          <5>1. req[r].op # "create" BY <1>3, <2>1, <2>6, <4>1 DEF RequestOK
          <5> QED BY <1>3, <2>1, <4>1, <5>1 DEF RequestOK
        <4> QED BY <1>1, <4>1
      <3> QED BY <2>1, <2>2, <2>3, <3>1, <3>3, <3>4 DEF RequestOK
    <2> QED BY <2>5, <2>6
  <1>8. SeenInv'
    <2> SUFFICES ASSUME NEW q \in Request, req'[q].pc = "checked", NEW i \in 1..req'[q].at,
                        NEW p, p = req'[q].order, Did(i, "approve", p)'
                 PROVE  /\ req'[q].op = "submit" => \E j \in DOMAIN log' : Undoes(j, i, p)'
                        /\ req'[q].op = "approve" =>
                             \E k \in i..req'[q].at : Did(k, "submit", p)'
      BY DEF SeenInv, SeenOK
    <2>1. req'[q] = req[q] BY <1>1, <1>5
    <2>2. req[q].at \in Nat /\ req[q].at <= Len(log)
      BY <1>4, <2>1 DEF RequestInv, RequestOK, TypeOK, RequestState
    <2>3. i \in DOMAIN log /\ \A k \in i..req[q].at : k \in DOMAIN log BY <1>1, <2>1, <2>2
    <2>4. Did(i, "approve", p) BY <1>2, <2>1, <2>3
    <2>5. SeenOK(q) BY <1>4 DEF SeenInv
    <2>6. ASSUME req[q].op = "submit"
          PROVE  \E j \in DOMAIN log' : Undoes(j, i, p)'
      BY <1>2, <2>1, <2>3, <2>4, <2>5, <2>6 DEF SeenOK
    <2>7. ASSUME req[q].op = "approve"
          PROVE  \E k \in i..req[q].at : Did(k, "submit", p)'
      BY <1>2, <2>1, <2>3, <2>4, <2>5, <2>7 DEF SeenOK
    <2> QED BY <2>1, <2>6, <2>7
  <1>9. KeyInv'
    <2> SUFFICES ASSUME NEW k \in Keys, NEW a \in OrdersWith(k)', NEW b \in OrdersWith(k)',
                        a # b
                 PROVE  FALSE
      BY DEF KeyInv
    <2>1. \A p \in Request : req'[p].key = req[p].key BY <1>1, <1>5
    <2>2. /\ a \in Request /\ b \in Request /\ k # NoKey
          /\ req[a].key = k /\ req[b].key = k /\ order'[a] # "none" /\ order'[b] # "none"
      BY <2>1 DEF OrdersWith
    <2>3. CASE req[r].op = "create"
      <3>1. o = r /\ \A p \in Request : order[p] # "none" => req[p].key # req[r].key \/ req[r].key = NoKey
        BY <1>3, <1>4, <2>3 DEF RequestInv, RequestOK, OrdersWith
      <3> QED BY <1>1, <1>4, <2>2, <3>1 DEF KeyInv, OrdersWith
    <2>4. CASE req[r].op # "create"
      <3>1. order[o] # "none" BY <1>3, <1>4, <2>4 DEF RequestInv, RequestOK
      <3> QED BY <1>1, <1>4, <2>2, <3>1 DEF KeyInv, OrdersWith
    <2> QED BY <2>3, <2>4
  <1>10. \A i \in DOMAIN log : i \in Nat /\ i < n BY <1>1
  <1>11. n \in DOMAIN log' /\ \A i \in DOMAIN log' : i \in DOMAIN log \/ i = n BY <1>1
  <1>12. ApprovedInv'
    <2> SUFFICES ASSUME NEW i \in DOMAIN log', NEW p \in Request, Did(i, "approve", p)'
                 PROVE  /\ req'[p].paid => ent'[log'[i]] # "none"
                        /\ order'[p] = "approved" \/ \E j \in DOMAIN log' : Undoes(j, i, p)'
                        /\ \/ order'[p] \in {"approved", "rejected"}
                           \/ \E k \in DOMAIN log' : i < k /\ Did(k, "submit", p)'
      BY DEF ApprovedInv
    <2>1. req'[p].paid = req[p].paid BY <1>1, <1>5
    <2>2. CASE i = n
      <3>1. p = o /\ req[r].op = "approve" BY <1>2, <2>2
      <3> QED BY <1>1, <2>1, <2>2, <3>1
    <2>3. CASE i \in DOMAIN log
      <3>1. Did(i, "approve", p) BY <1>2, <2>3
      <3>2. /\ req[p].paid => ent[log[i]] # "none"
            /\ order[p] = "approved" \/ \E j \in DOMAIN log : Undoes(j, i, p)
            /\ \/ order[p] \in {"approved", "rejected"}
               \/ \E k \in DOMAIN log : i < k /\ Did(k, "submit", p)
        BY <1>4, <2>3, <3>1 DEF ApprovedInv
      <3>3. log[i] \in Request /\ log'[i] = log[i] BY <1>1, <1>4, <2>3 DEF LogInv
      <3>4. order[p] # "none" BY <1>4, <2>3, <3>1 DEF LogInv, Did
      <3>5. req'[p].paid => ent'[log'[i]] # "none" BY <2>1, <3>2, <3>3 DEF Commits
      <3>6. order[p] # "approved" => \E j \in DOMAIN log' : Undoes(j, i, p)'
        BY <1>2, <2>3, <3>2
      <3>7. order[p] \notin {"approved", "rejected"} =>
              \E k \in DOMAIN log' : i < k /\ Did(k, "submit", p)'
        BY <1>2, <3>2
      <3>8. CASE p # o BY <1>1, <3>5, <3>6, <3>7, <3>8
      <3>9. CASE p = o /\ req[r].op = "create"
        <4>1. p = r BY <1>3, <1>4, <3>9 DEF RequestInv, RequestOK
        <4> QED BY <1>3, <1>4, <3>4, <4>1 DEF RequestInv, RequestOK
      <3>10. CASE p = o /\ req[r].op = "approve" BY <1>1, <3>5, <3>10
      <3>11. CASE p = o /\ req[r].op = "reject"
        <4>1. Undoes(n, i, p)' BY <1>2, <1>10, <2>3, <3>11 DEF Undoes
        <4>2. s = "rejected" \/ s = order[p] BY <3>11
        <4> QED BY <1>1, <1>11, <3>5, <3>7, <3>11, <4>1, <4>2
      <3>12. CASE p = o /\ req[r].op = "submit"
        <4>1. i < n /\ Did(n, "submit", p)' BY <1>2, <1>10, <2>3, <3>12
        <4>2. CASE i <= req[r].at
          <5>1. i \in 1..req[r].at BY <1>1, <1>6, <2>3, <4>2
          <5>2. \E j \in DOMAIN log : Undoes(j, i, p)
            BY <1>3, <1>4, <3>1, <3>12, <5>1 DEF SeenInv, SeenOK
          <5> QED BY <1>2, <1>11, <2>3, <3>5, <4>1, <5>2
        <4>3. CASE ~(i <= req[r].at)
          <5>1. Undoes(n, i, p)' BY <1>2, <4>1, <4>3 DEF Undoes
          <5> QED BY <1>11, <3>5, <4>1, <5>1
        <4> QED BY <4>2, <4>3
      <3> QED BY <3>8, <3>9, <3>10, <3>11, <3>12
    <2> QED BY <1>11, <2>2, <2>3
  <1>13. SecondApprovalNeedsRaceOrResubmission'
    <2> SUFFICES ASSUME NEW i \in DOMAIN log', NEW j \in DOMAIN log', NEW p \in Request,
                        i < j, Did(i, "approve", p)', Did(j, "approve", p)', SawCommit(j, i)'
                 PROVE  \E k \in i..j : Did(k, "submit", p)' /\ SawCommit(j, k)'
      BY DEF SecondApprovalNeedsRaceOrResubmission
    <2>1. i \in DOMAIN log BY <1>1, <1>10, <1>11
    <2>2. Did(i, "approve", p) BY <1>2, <2>1
    <2>3. CASE j \in DOMAIN log
      <3>1. Did(j, "approve", p) /\ SawCommit(j, i) BY <1>2, <2>3
      <3>2. PICK k \in i..j : Did(k, "submit", p) /\ SawCommit(j, k)
        BY <1>4, <2>1, <2>2, <2>3, <3>1 DEF SecondApprovalNeedsRaceOrResubmission
      <3>3. k \in DOMAIN log BY <1>1, <2>1, <2>3
      <3> QED BY <1>2, <2>3, <3>2, <3>3
    <2>4. CASE j = n
      <3>1. p = o /\ req[r].op = "approve" /\ i <= req[r].at BY <1>2, <2>4
      <3>2. i \in 1..req[r].at BY <1>1, <1>6, <2>1, <3>1
      <3>3. PICK k \in i..req[r].at : Did(k, "submit", p)
        BY <1>3, <1>4, <2>2, <3>1, <3>2 DEF SeenInv, SeenOK
      <3>4. k \in DOMAIN log /\ k <= req[r].at /\ k \in i..j
        BY <1>1, <1>6, <2>1, <2>4, <3>3
      <3> QED BY <1>2, <2>4, <3>3, <3>4
    <2> QED BY <1>11, <2>3, <2>4
  <1> QED BY <1>1, <1>7, <1>8, <1>9, <1>12, <1>13 DEF PayInv

-----------------------------------------------------------------------------
(* Preservation, action by action.                                         *)

\* A request that starts leaves everything true if it is fine itself.
LEMMA StartKeeps ==
  ASSUME PayInv, NEW r \in Request, NEW q \in RequestState, Starts(r, q),
         q.pc \in {"checked", "answered"},
         q.pc = "checked" => IF q.op = "create" THEN q.order = r
                             ELSE q.order \in Request /\ order[q.order] # "none",
         q.pc = "answered" => /\ q.op = "create" /\ q.order \in OrdersWith(q.key),
         q.pc = "checked" /\ q.op = "submit" => order[q.order] \in {"pending", "rejected"},
         q.pc = "checked" /\ q.op = "approve" => order[q.order] \in {"under_review", "pending"}
  PROVE  PayInv'
  <1> DEFINE e == [q EXCEPT !.at = Len(log)]
  <1>1. Len(log) \in Nat /\ DOMAIN log = 1..Len(log) BY DEF PayInv, TypeOK
  <1>2. /\ e \in RequestState /\ e.pc = q.pc /\ e.op = q.op /\ e.order = q.order /\ e.key = q.key
        /\ e.at = Len(log)
    BY <1>1 DEF RequestState
  <1>3. /\ req[r].pc = "new" /\ req' = [req EXCEPT ![r] = e]
        /\ order' = order /\ ent' = ent /\ log' = log
    BY DEF Starts
  <1> HIDE DEF e
  <1>4. /\ req' \in [Request -> RequestState] /\ req'[r] = e
        /\ \A p \in Request : p # r => req'[p] = req[p]
    BY <1>2, <1>3 DEF PayInv, TypeOK
  <1>5. order[r] = "none" BY <1>3 DEF PayInv, RequestInv, RequestOK
  <1>6. RequestOK(r)'
    <2>1. q.pc = "answered" => /\ q.order \in Request /\ order[q.order] # "none" /\ q.order # r
                               /\ req'[q.order].key = q.key
      BY <1>4, <1>5 DEF OrdersWith
    <2> QED BY <1>1, <1>2, <1>3, <1>4, <1>5, <2>1 DEF RequestOK
  <1>7. SeenOK(r)'
    <2> SUFFICES ASSUME q.pc = "checked", NEW i \in DOMAIN log, Did(i, "approve", q.order)'
                 PROVE  /\ q.op = "submit" => \E j \in DOMAIN log : Undoes(j, i, q.order)'
                        /\ q.op = "approve" => \E k \in i..Len(log) : Did(k, "submit", q.order)'
      BY <1>1, <1>2, <1>3, <1>4 DEF SeenOK
    <2>1. \A j \in DOMAIN log : log[j] \in Request /\ req'[log[j]] = req[log[j]]
      BY <1>3, <1>4 DEF PayInv, LogInv
    <2>2. \A j, k \in DOMAIN log : \A o :
            /\ \A op : Did(j, op, o)' <=> Did(j, op, o)
            /\ Undoes(j, k, o)' <=> Undoes(j, k, o)
      BY <1>3, <2>1 DEF Did, SawCommit, Undoes
    <2>3. Did(i, "approve", q.order) /\ q.order \in Request
      BY <2>2 DEF PayInv, LogInv, Did
    <2>4. /\ order[q.order] = "approved" \/ \E j \in DOMAIN log : Undoes(j, i, q.order)
          /\ \/ order[q.order] \in {"approved", "rejected"}
             \/ \E k \in DOMAIN log : i < k /\ Did(k, "submit", q.order)
      BY <2>3 DEF PayInv, ApprovedInv
    <2>5. ASSUME q.op = "submit" PROVE \E j \in DOMAIN log : Undoes(j, i, q.order)'
      BY <2>2, <2>4, <2>5
    <2>6. ASSUME q.op = "approve" PROVE \E k \in i..Len(log) : Did(k, "submit", q.order)'
      <3>1. PICK k \in DOMAIN log : i < k /\ Did(k, "submit", q.order) BY <2>4, <2>6
      <3>2. k \in i..Len(log) BY <1>1, <3>1
      <3> QED BY <2>2, <3>1, <3>2
    <2> QED BY <2>5, <2>6
  <1>8. ent' \in [Request -> {"none", "active", "expired"}] BY <1>3 DEF PayInv, TypeOK
  <1> QED BY <1>3, <1>4, <1>6, <1>7, <1>8, QuietKeeps

\* The key is free, or its order is the answer.
LEMMA BeginCreateKeeps ==
  ASSUME PayInv, NEW r \in Request, NEW u \in Users, NEW k \in Keys \cup {NoKey},
         NEW paid \in BOOLEAN, BeginCreate(r, u, k, paid)
  PROVE  PayInv'
  <1> DEFINE w(pc, o) == [pc |-> pc, op |-> "create", user |-> u, key |-> k, paid |-> paid,
                          order |-> o, saw |-> "none", at |-> 0]
  <1>1. \A o \in Request, pc \in {"checked", "answered"} :
          /\ w(pc, o) \in RequestState /\ w(pc, o).pc = pc /\ w(pc, o).op = "create"
          /\ w(pc, o).order = o /\ w(pc, o).key = k
    BY DEF RequestState, PaymentStatus
  <1>2. \/ Starts(r, w("checked", r))
        \/ \E o \in OrdersWith(k) : Starts(r, w("answered", o))
    <2> DEFINE b == [NewRequest EXCEPT !.op = "create", !.user = u, !.key = k, !.paid = paid]
    <2>1. b = [pc |-> "new", op |-> "create", user |-> u, key |-> k, paid |-> paid,
               order |-> 0, saw |-> "none", at |-> 0]
      <3> DEFINE m == NewRequest
      <3>1. m = [pc |-> "new", op |-> "none", user |-> 0, key |-> NoKey, paid |-> FALSE,
                 order |-> 0, saw |-> "none", at |-> 0]
        BY DEF NewRequest
      <3>2. PICK x : x = [m EXCEPT !.op = "create", !.user = u, !.key = k, !.paid = paid] OBVIOUS
      <3> HIDE DEF m
      <3>3. x = [pc |-> "new", op |-> "create", user |-> u, key |-> k, paid |-> paid,
                 order |-> 0, saw |-> "none", at |-> 0]
        BY <3>1, <3>2
      <3> QED BY <3>2, <3>3 DEF m
    <2>2. \/ Starts(r, [b EXCEPT !.pc = "checked", !.order = r])
          \/ \E o \in OrdersWith(k) : Starts(r, [b EXCEPT !.pc = "answered", !.order = o])
      BY DEF BeginCreate
    <2> HIDE DEF b, w
    <2>3. \A pc, o : [b EXCEPT !.pc = pc, !.order = o] = w(pc, o)
      <3> SUFFICES ASSUME NEW pc, NEW o PROVE [b EXCEPT !.pc = pc, !.order = o] = w(pc, o)
        OBVIOUS
      <3>1. PICK x : x = [b EXCEPT !.pc = pc, !.order = o] OBVIOUS
      <3>2. x = w(pc, o) BY <2>1, <3>1 DEF w
      <3> QED BY <3>1, <3>2
    <2> QED BY <2>2, <2>3
  <1> HIDE DEF w
  <1>3. CASE Starts(r, w("checked", r))
    <2> DEFINE q == w("checked", r)
    <2>1. /\ q \in RequestState /\ q.pc = "checked" /\ q.op = "create" /\ q.order = r BY <1>1
    <2>2. Starts(r, q) BY <1>3
    <2> HIDE DEF q
    <2> QED BY <2>1, <2>2, StartKeeps
  <1>4. ASSUME NEW o \in OrdersWith(k), Starts(r, w("answered", o)) PROVE PayInv'
    <2> DEFINE q == w("answered", o)
    <2>1. o \in Request BY DEF OrdersWith
    <2>2. /\ q \in RequestState /\ q.pc = "answered" /\ q.op = "create" /\ q.order = o
          /\ q.key = k
      BY <1>1, <2>1
    <2>3. Starts(r, q) BY <1>4
    <2> HIDE DEF q
    <2> QED BY <2>2, <2>3, StartKeeps
  <1> QED BY <1>2, <1>3, <1>4

\* A submit, an approval or a rejection has read the status of its order.
LEMMA BeginKeeps ==
  ASSUME PayInv, NEW r \in Request, NEW o \in Request,
         BeginSubmit(r, o) \/ BeginApprove(r, o) \/ BeginReject(r, o)
  PROVE  PayInv'
  <1>1. PICK op \in {"submit", "approve", "reject"} :
          /\ Begins(r, op, o) /\ order[o] # "none"
          /\ op = "submit" => order[o] \in {"pending", "rejected"}
          /\ op = "approve" => order[o] \in {"under_review", "pending"}
    BY DEF BeginSubmit, BeginApprove, BeginReject
  <1> DEFINE w == [pc |-> "checked", op |-> op, user |-> req[o].user, key |-> NoKey,
                   paid |-> FALSE, order |-> o, saw |-> order[o], at |-> 0]
  <1>2. Starts(r, w)
    <2> DEFINE m == NewRequest
               u == req[o].user
               a == order[o]
    <2>1. m = [pc |-> "new", op |-> "none", user |-> 0, key |-> NoKey, paid |-> FALSE,
               order |-> 0, saw |-> "none", at |-> 0]
      BY DEF NewRequest
    <2>2. Starts(r, [m EXCEPT !.pc = "checked", !.op = op, !.user = u, !.order = o, !.saw = a])
      BY <1>1 DEF Begins
    <2>3. PICK x : x = [m EXCEPT !.pc = "checked", !.op = op, !.user = u, !.order = o, !.saw = a]
      OBVIOUS
    <2> HIDE DEF m, u, a
    <2>4. x = [pc |-> "checked", op |-> op, user |-> u, key |-> NoKey, paid |-> FALSE,
               order |-> o, saw |-> a, at |-> 0]
      BY <2>1, <2>3
    <2> QED BY <2>2, <2>3, <2>4 DEF u, a
  <1>3. /\ w \in RequestState /\ w.pc = "checked" /\ w.op = op /\ w.order = o
    BY DEF RequestState, PayInv, TypeOK
  <1> HIDE DEF w
  <1> QED BY <1>1, <1>2, <1>3, StartKeeps

\* The transaction is rolled back.
LEMMA FailKeeps ==
  ASSUME PayInv, NEW r \in Request, Fail(r)
  PROVE  PayInv'
  <1> DEFINE f == [NewRequest EXCEPT !.pc = "failed"]
  <1>1. f \in RequestState /\ f.pc = "failed" /\ f.op = "none"
    BY DEF NewRequest, RequestState, PaymentStatus
  <1>2. /\ req[r].pc = "checked" /\ req' = [req EXCEPT ![r] = f]
        /\ order' = order /\ ent' = ent /\ log' = log
    BY DEF Fail
  <1> HIDE DEF f
  <1>3. /\ req' \in [Request -> RequestState] /\ req'[r] = f
        /\ \A p \in Request : p # r => req'[p] = req[p]
        /\ ent' \in [Request -> {"none", "active", "expired"}]
    BY <1>1, <1>2 DEF PayInv, TypeOK
  <1>4. order[r] = "none" BY <1>2 DEF PayInv, RequestInv, RequestOK
  <1>5. RequestOK(r)' /\ SeenOK(r)' BY <1>1, <1>2, <1>3, <1>4 DEF RequestOK, SeenOK
  <1> QED BY <1>2, <1>3, <1>5, QuietKeeps

\* Each of the four commits.
LEMMA CommitsKeep ==
  ASSUME PayInv, NEW r \in Request,
         CommitCreate(r) \/ CommitSubmit(r) \/ CommitApprove(r) \/ CommitReject(r)
  PROVE  PayInv'
  <1> DEFINE o == req[r].order
  <1>1. TypeOK /\ RequestOK(r) BY DEF PayInv, RequestInv
  <1>2. req[r].pc = "checked"
    BY DEF CommitCreate, CommitSubmit, CommitApprove, CommitReject
  <1>3. o \in Request BY <1>1, <1>2 DEF RequestOK
  <1>4. ent \in [Request -> {"none", "active", "expired"}] BY <1>1 DEF TypeOK
  <1>5. CASE CommitCreate(r)
    <2>1. req[r].op = "create" /\ o = r BY <1>1, <1>2, <1>5 DEF CommitCreate, RequestOK
    <2>2. Commits(r, "pending") BY <1>2, <1>3, <1>4, <1>5, <2>1 DEF CommitCreate, Commits
    <2>3. OrdersWith(req[r].key) = {} BY <1>5 DEF CommitCreate
    <2> QED BY <2>1, <2>2, <2>3, CommitKeeps DEF PaymentStatus
  <1>6. CASE CommitSubmit(r)
    <2>1. Commits(r, "under_review") /\ req[r].op = "submit"
      BY <1>2, <1>3, <1>4, <1>6 DEF CommitSubmit, Writes, Commits
    <2> QED BY <2>1, CommitKeeps DEF PaymentStatus
  <1>7. CASE CommitApprove(r)
    <2>1. /\ req[r].op = "approve" /\ Writes(r, o, "approved")
          /\ ent' = [ent EXCEPT ![r] = IF req[o].paid THEN "active" ELSE @]
      BY <1>7 DEF CommitApprove
    <2>2. /\ ent' \in [Request -> {"none", "active", "expired"}]
          /\ \A e \in Request : ent[e] # "none" => ent'[e] # "none"
          /\ req[o].paid => ent'[r] # "none"
      BY <1>4, <2>1
    <2>3. Commits(r, "approved") BY <1>2, <1>3, <2>1, <2>2 DEF Writes, Commits
    <2> QED BY <2>1, <2>2, <2>3, CommitKeeps DEF PaymentStatus
  <1>8. CASE CommitReject(r)
    <2> DEFINE s == IF req[r].saw = "rejected" THEN order[o] ELSE "rejected"
    <2>1. req[r].op = "reject" /\ Commits(r, s)
      BY <1>2, <1>3, <1>4, <1>8 DEF CommitReject, Writes, Commits
    <2>2. s \in PaymentStatus \ {"none"} /\ s \in {"rejected", order[o]}
      BY <1>1, <1>2, <2>1 DEF RequestOK, TypeOK, PaymentStatus
    <2> HIDE DEF s
    <2> QED BY <2>1, <2>2, CommitKeeps
  <1> QED BY <1>5, <1>6, <1>7, <1>8

\* An entitlement that has run out was granted.
LEMMA ListActiveKeeps ==
  ASSUME PayInv, NEW u \in Users, NEW due \in SUBSET Active(u), ListActive(u, due)
  PROVE  PayInv'
  <1>1. /\ ent' = [e \in Request |-> IF e \in due THEN "expired" ELSE ent[e]]
        /\ order' = order /\ req' = req /\ log' = log
    BY DEF ListActive
  <1>2. /\ ent' \in [Request -> {"none", "active", "expired"}]
        /\ \A e \in Request : ent[e] # "none" => ent'[e] # "none"
        /\ req' \in [Request -> RequestState]
    BY <1>1 DEF PayInv, TypeOK
  <1> QED BY <1>1, <1>2, QuietKeeps

LEMMA NextKeeps == PayInv /\ [Next]_vars => PayInv'
  <1> SUFFICES ASSUME PayInv, [Next]_vars PROVE PayInv' OBVIOUS
  <1>1. CASE UNCHANGED vars
    BY <1>1, QuietKeeps DEF vars, PayInv, TypeOK
  <1>2. ASSUME NEW r \in Request,
               \/ \E u \in Users, k \in Keys \cup {NoKey}, paid \in BOOLEAN :
                    BeginCreate(r, u, k, paid)
               \/ CommitCreate(r) \/ Fail(r)
               \/ \E o \in Request : BeginSubmit(r, o) \/ BeginApprove(r, o) \/ BeginReject(r, o)
               \/ CommitSubmit(r) \/ CommitApprove(r) \/ CommitReject(r)
        PROVE  PayInv'
    BY <1>2, BeginCreateKeeps, BeginKeeps, FailKeeps, CommitsKeep
  <1>3. CASE \E u \in Users : \E due \in SUBSET Active(u) : ListActive(u, due)
    BY <1>3, ListActiveKeeps
  <1>4. CASE Idle BY <1>1, <1>4 DEF Idle
  <1> QED BY <1>1, <1>2, <1>3, <1>4 DEF Next

\* Orders, entitlements, requests and the log are well typed: no status but
\* those that the code assigns.
THEOREM TypeCorrect == Spec => []TypeOK
  <1>1. PayInv => TypeOK BY DEF PayInv
  <1> QED BY InitInv, NextKeeps, <1>1, PTL DEF Spec

\* A create that was answered stands for an order with its key, and no key has
\* two (create_order).
THEOREM CreateOnce == Spec => []CreateIsIdempotent
  <1>1. PayInv => CreateIsIdempotent
    BY DEF PayInv, CreateIsIdempotent, RequestInv, RequestOK, KeyInv
  <1> QED BY InitInv, NextKeeps, <1>1, PTL DEF Spec

\* What was approved stays so, with its entitlement, unless it is rejected or
\* a submit that had read the order before overwrites it (approve, reject).
THEOREM ApprovalHolds == Spec => []ApprovalHoldsUnlessUndone
  <1>1. PayInv => ApprovalHoldsUnlessUndone
    BY DEF PayInv, ApprovalHoldsUnlessUndone, ApprovedInv, Undoes
  <1> QED BY InitInv, NextKeeps, <1>1, PTL DEF Spec

\* A second approval was under way with the first, or the payer submitted the
\* order again in between (approve, 135-138).
THEOREM SecondApproval == Spec => []SecondApprovalNeedsRaceOrResubmission
  <1>1. PayInv => SecondApprovalNeedsRaceOrResubmission BY DEF PayInv
  <1> QED BY InitInv, NextKeeps, <1>1, PTL DEF Spec
=============================================================================
