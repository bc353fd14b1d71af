---------------------------- MODULE PushCoalescing ----------------------------
(***************************************************************************)
(* What the push trigger promises about each pull request, without tasks,  *)
(* counters or conditions: the pushes are coalesced.  A pull request is    *)
(* processed by one run at a time, a push that is noticed while a run goes *)
(* on leaves at most one more run owed, and an owed run begins with the    *)
(* head of the moment it begins, so it accounts for every push noticed     *)
(* before.                                                                 *)
(***************************************************************************)
EXTENDS Integers

CONSTANT PRs

VARIABLES
  head,    \* head[p]: the number of pushes to p so far
  phase,   \* phase[p]: "idle", "active", or "queued" for a run about to begin
  from,    \* from[p]: the head the latest run began with
  owed     \* owed[p]: whether another run follows the present one

vars == <<head, phase, from, owed>>

Init ==
  /\ head = [p \in PRs |-> 0]
  /\ phase = [p \in PRs |-> "idle"]
  /\ from = [p \in PRs |-> 0]
  /\ owed = [p \in PRs |-> FALSE]

Push(p) ==
  /\ head' = [head EXCEPT ![p] = @ + 1]
  /\ UNCHANGED <<phase, from, owed>>

\* A push is noticed while nothing runs, or a queued run gets its turn.
Begin(p) ==
  /\ phase[p] \in {"idle", "queued"}
  /\ phase' = [phase EXCEPT ![p] = "active"]
  /\ from' = [from EXCEPT ![p] = head[p]]
  /\ UNCHANGED <<head, owed>>

\* A push is noticed during a run.
Owe(p) ==
  /\ phase[p] # "idle"
  /\ ~owed[p]
  /\ owed' = [owed EXCEPT ![p] = TRUE]
  /\ UNCHANGED <<head, phase, from>>

End(p) ==
  /\ phase[p] = "active"
  /\ phase' = [phase EXCEPT ![p] = IF owed[p] THEN "queued" ELSE "idle"]
  /\ owed' = [owed EXCEPT ![p] = FALSE]
  /\ UNCHANGED <<head, from>>

\* The process dies, and with it every run and every debt.
Crash ==
  /\ phase' = [p \in PRs |-> "idle"]
  /\ owed' = [p \in PRs |-> FALSE]
  /\ UNCHANGED <<head, from>>

Next == (\E p \in PRs : Push(p) \/ Begin(p) \/ Owe(p) \/ End(p)) \/ Crash

Spec == Init /\ [][Next]_vars
=============================================================================
