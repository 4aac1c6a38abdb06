----------------------------- MODULE TaskQueue ------------------------------
(***************************************************************************)
(* What the users of the job table rely on, whatever the transactions      *)
(* underneath do: a task with a key is queued at most once, a queued task  *)
(* takes effect at most once, and a task withdrawn before it took effect   *)
(* never does.  Nothing is promised about order.                           *)
(***************************************************************************)
CONSTANTS Task, Key, NoKey

VARIABLES
  phase,  \* where each task stands
  key     \* the idempotency key it was submitted with

Init ==
  /\ phase = [t \in Task |-> "absent"]
  /\ key = [t \in Task |-> NoKey]

Submit(t, k) ==
  /\ phase[t] = "absent"
  /\ k # NoKey => \A u \in Task : phase[u] # "absent" => key[u] # k
  /\ phase' = [phase EXCEPT ![t] = "queued"]
  /\ key' = [key EXCEPT ![t] = k]

TakeEffect(t) ==
  /\ phase[t] = "queued"
  /\ phase' = [phase EXCEPT ![t] = "effective"]
  /\ UNCHANGED key

Withdraw(t) ==
  /\ phase[t] = "queued"
  /\ phase' = [phase EXCEPT ![t] = "withdrawn"]
  /\ UNCHANGED key

Next == \E t \in Task :
  \/ \E k \in Key \cup {NoKey} : Submit(t, k)
  \/ TakeEffect(t)
  \/ Withdraw(t)

Spec == Init /\ [][Next]_<<phase, key>>
=============================================================================
