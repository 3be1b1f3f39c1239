------------------------------ MODULE Rotation ------------------------------
(***************************************************************************)
(* Fairness of the account rotation of _pick_idle (src/api/worker_pool.py):*)
(* WorkerPool with a history of who was passed over.                       *)
(*                                                                         *)
(* The accounts are up when the module starts.  Requests come with their   *)
(* own models and exclusions, and the control plane turns routing off and  *)
(* on and reorders accounts.                                               *)
(***************************************************************************)
EXTENDS WorkerPool

VARIABLE passed  \* passed[k][b]: accounts picked for rotation k since b was
                 \* last picked or could not have been

rvars == <<vars, passed>>

RInit == Online /\ passed = [k \in Keys |-> [b \in Accounts |-> {}]]

\* A request takes a tab of account a while the accounts S were eligible.
Record(k, a, S) ==
    passed' = [passed EXCEPT ![k] =
                 [b \in Accounts |-> IF b \in S \ {a} THEN @[b] \cup {a}
                                                     ELSE {}]]

Pick(r) ==
    /\ Take(r)
    /\ IF want[r].pinned = None
         THEN Record(Key(want[r]), AccountOf[lease'[r]], Eligible(want[r]))
         ELSE UNCHANGED passed

Other(r) ==
    /\ Arrive(r) \/ (RequestStep(r) /\ ~Take(r))
    /\ UNCHANGED passed

\* The rotation is the order of the slots; a new order starts a new history.
Reorder(a) == SetOrder(a) /\ passed' = [k \in Keys |-> [b \in Accounts |-> {}]]

Route(a) == (Suspend(a) \/ Resume(a)) /\ UNCHANGED passed

\* A request that has been answered is followed by another one.
Again(r) ==
    /\ pc[r] = "done"
    /\ pc' = [pc EXCEPT ![r] = "new"]
    /\ outcome' = [outcome EXCEPT ![r] = "none"]
    /\ UNCHANGED <<poolVars, waiters, want, lease, limited, probe, drain,
                   passed>>

RNext ==
    \/ \E r \in Requests : Pick(r) \/ Other(r) \/ Again(r)
    \/ \E a \in Accounts : Route(a) \/ Reorder(a)

RSpec == RInit /\ [][RNext]_rvars

-----------------------------------------------------------------------------
\* "Requests for a provider/model rotate through every schedulable account,
\* independent of how many tabs each account owns" (worker_pool.py:11-14):
\* an account that could have served every request of a rotation is not
\* passed over twice in favour of the same other account.
NobodyPassedTwice ==
    [][\A r \in Requests :
         Take(r) /\ want[r].pinned = None =>
           LET a == AccountOf[lease'[r]]
           IN  \A b \in Eligible(want[r]) \ {a} :
                 a \notin passed[Key(want[r])][b]]_rvars
=============================================================================
