---------------------------- MODULE DrainLedger ----------------------------
(***************************************************************************)
(* What wait_drained (src/api/worker_pool.py) may miss: WorkerPool with a  *)
(* history of the releases that were charged to a slot which had never     *)
(* counted them.  A status probe takes a tab without a count and gives it  *)
(* back with one; a request that outlived the forced close of its session  *)
(* gives its tab back to whatever slot the account has then.               *)
(***************************************************************************)
EXTENDS WorkerPool

VARIABLE uncounted  \* uncounted[a]: such releases since nobody used the slot

lvars == <<vars, uncounted>>

LedgerInit == Init /\ uncounted = [a \in Accounts |-> 0]

\* The requests on tabs the account has now, not on tabs of a closed session.
Users(a) == {r \in Requests : lease[r] # None /\ lease[r] \in slot[a].workers}

\* A release reaches account a's slot: counted there before, or not.
Charge(a, counted) ==
    uncounted' = [uncounted EXCEPT
                    ![a] = IF Users(a)' = {} THEN 0
                           ELSE IF counted \/ slot[a].checkedOut = 0 THEN @
                           ELSE @ + 1]

RequestReturns(r) ==
    \E a \in Accounts :
      /\ pc[r] = "releasing" /\ a = AccountOf[lease[r]]
      /\ Release(r)
      /\ Charge(a, lease[r] \in slot[a].workers)

ProbeReturns(p) ==
    \E a \in Accounts :
      /\ probe[p] # None /\ a = AccountOf[probe[p]]
      /\ ProbeRelease(p)
      /\ Charge(a, FALSE)

\* With its slot an account loses what was charged to it.
Removed(a) ==
    /\ RemoveSlot(a)
    /\ uncounted' = [uncounted EXCEPT ![a] = 0]

\* Steps that give no tab back and remove no slot.
Uncharged ==
    \/ \E r \in Requests : /\ pc[r] # "releasing"
                           /\ Arrive(r) \/ RequestStep(r) \/ TimeOut(r) \/ SeeLimit(r)
    \/ \E p \in Probes : ProbeTake(p)
    \/ \E a \in Accounts : \/ DrainBegin(a) \/ DrainScan(a)
                           \/ DrainTimeOut(a) \/ DrainEnd(a)
                           \/ Register(a) \/ SetOrder(a) \/ Suspend(a)
                           \/ Resume(a) \/ AddWorkers(a) \/ Retire(a)

LedgerNext ==
    \/ \E r \in Requests : RequestReturns(r)
    \/ \E p \in Probes : ProbeReturns(p)
    \/ \E a \in Accounts : Removed(a)
    \/ Uncharged /\ UNCHANGED uncounted

LedgerSpec == LedgerInit /\ [][LedgerNext]_lvars

-----------------------------------------------------------------------------
\* "Wait until no tab of the account is mid-request.  True if fully drained."
\* (worker_pool.py:271), with what the code lets slip: when wait_drained answers
\* True, the requests still on the account's tabs are no more than the releases
\* that its slot was charged for without having counted them, a probe's or one
\* from a session closed by force.  Where there was none of these, the account
\* is quiet.
DrainMissesOnlyUncounted ==
    [][\A a \in Accounts :
         drain[a] # "drained" /\ drain'[a] = "drained"
           => Cardinality(Users(a)) <= uncounted[a]]_lvars
=============================================================================
