--------------------------- MODULE FailoverProofs ---------------------------
(***************************************************************************)
(* Proofs about Failover, for any number of accounts, requests and retries *)
(* and finitely many tabs: a request never returns to an account that has  *)
(* failed it, and a failure is never reported as a busy browser.           *)
(***************************************************************************)
EXTENDS Failover, WorkerPoolProofs

\* Until its attempt has ended one way or another.
Asking == {"scan", "waiting", "woken"}
Undecided == Asking \cup {"new", "entering", "running", "limiting"}

FailoverTypeOK ==
    /\ excluded \in [Requests -> SUBSET Accounts]
    /\ failures \in [Requests -> SUBSET Accounts]
    /\ lastFailed \in [Requests -> Accounts \cup {None}]
    /\ lastError \in [Requests -> BOOLEAN]
    /\ reply \in [Requests -> Replies]

\* The failure that an attempt has ended with, if it has.
Pending(r) == IF outcome[r] = "retryable" THEN {lastFailed[r]} ELSE {}

\* What one request remembers: its attempt asks for no account it excludes,
\* every failure is excluded or the one it has just met, and until then
\* nothing has failed.
Remembers(r) ==
    /\ pc[r] \in Undecided => outcome[r] = "none"
    /\ pc[r] \in Asking => want[r].excluded = excluded[r]
    /\ failures[r] \subseteq excluded[r] \cup Pending(r)
    /\ outcome[r] # "retryable" /\ ~lastError[r] => failures[r] = {}
    /\ reply[r] # "none" => pc[r] = "done"
    /\ reply[r] = "busy" => failures[r] = {}

FailInv == FailoverTypeOK /\ \A r \in Requests : Remembers(r)

FInv == IInv /\ FailInv

-----------------------------------------------------------------------------
(* What a step of an attempt does *)

\* An outcome is reached from an undecided stage and stays.
LEMMA StepOfOwn ==
    ASSUME TypeOK, NEW r \in Requests,
           RequestStep(r) \/ TimeOut(r) \/ SeeLimit(r)
    PROVE  /\ pc[r] \notin {"new", "done"}
           /\ pc'[r] \in Undecided =>
                pc[r] \in Undecided /\ outcome'[r] = outcome[r]
           /\ pc'[r] \in Asking => pc[r] \in Asking /\ want'[r] = want[r]
           /\ outcome'[r] # outcome[r] => pc[r] \in Undecided
<1> USE DEF Undecided, Asking
<1>1. CASE Take(r)
    BY <1>1 DEF Take, AtLock, TypeOK
<1>2. CASE \E o : AtLock(r) /\ Refuse(r, o)
    BY <1>2 DEF Refuse, AtLock, TypeOK
<1>3. CASE Wait(r)
    BY <1>3 DEF Wait, MayWait, NothingFree, AtLock, TypeOK
<1>4. CASE Enter(r) \/ SeeLimit(r) \/ LimitOffline(r)
    BY <1>4 DEF Enter, SeeLimit, LimitOffline, TypeOK
<1>5. CASE EnterFails(r) \/ Finish(r)
    BY <1>5 DEF EnterFails, Finish, Leave, TypeOK
<1>6. CASE Report(r) \/ Handled(r)
    BY <1>6 DEF Report, Handled, TypeOK
<1>7. CASE Release(r)
    BY <1>7 DEF Release, WakeRequests, WokenStage, TypeOK
<1>8. CASE TimeOut(r)
    BY <1>8 DEF TimeOut, Refuse, TypeOK
<1>9. CASE RefusePinned(r) \/ RefuseNoAccount(r) \/ RefuseToQueue(r)
    BY <1>2, <1>9 DEF RefusePinned, RefuseNoAccount, RefuseToQueue, MayWait,
       NothingFree
<1> QED
    BY <1>1, <1>3, <1>4, <1>5, <1>6, <1>7, <1>8, <1>9 DEF RequestStep

\* Other requests are woken at most.
LEMMA StepOfOther ==
    ASSUME TypeOK, NEW r \in Requests, NEW s \in Requests, r # s,
           RequestStep(r) \/ TimeOut(r) \/ SeeLimit(r)
    PROVE  /\ pc'[s] = pc[s] \/ (pc[s] = "waiting" /\ pc'[s] = "woken")
           /\ outcome'[s] = outcome[s]
           /\ want'[s] = want[s]
           /\ lease'[s] = lease[s]
<1>1. CASE Take(r) \/ Wait(r)
    BY <1>1 DEF Take, Wait, TypeOK
<1>2. CASE \E o : Refuse(r, o)
    BY <1>2 DEF Refuse, TypeOK
<1>3. CASE Enter(r) \/ SeeLimit(r) \/ LimitOffline(r)
    BY <1>3 DEF Enter, SeeLimit, LimitOffline, TypeOK
<1>4. CASE EnterFails(r) \/ Finish(r)
    BY <1>4 DEF EnterFails, Finish, Leave, TypeOK
<1>5. CASE Report(r) \/ Handled(r)
    BY <1>5 DEF Report, Handled, TypeOK
<1>6. CASE Release(r)
    BY <1>6 DEF Release, WakeRequests, WokenStage, TypeOK
<1> QED
    BY <1>1, <1>2, <1>3, <1>4, <1>5, <1>6
    DEF RequestStep, TimeOut, RefusePinned, RefuseNoAccount, RefuseToQueue

\* A request that was woken or left alone remembers what it did.
LEMMA Untouched ==
    ASSUME NEW s \in Requests, Remembers(s),
           pc'[s] = pc[s] \/ (pc[s] = "waiting" /\ pc'[s] = "woken"),
           outcome'[s] = outcome[s], want'[s] = want[s],
           excluded'[s] = excluded[s], lastFailed'[s] = lastFailed[s],
           lastError'[s] = lastError[s], failures'[s] = failures[s],
           reply'[s] = reply[s]
    PROVE  Remembers(s)'
BY DEF Remembers, Pending, Asking, Undecided

-----------------------------------------------------------------------------
(* The steps of a call *)

\* An endpoint starts: what it excludes is what acquire() is asked for.
LEMMA AttemptKeeps ==
    ASSUME FInv, NEW r \in Requests, Attempt(r)
    PROVE  FailInv'
<1>1. FailoverTypeOK'
    BY DEF FInv, FailInv, FailoverTypeOK, Attempt
<1>2. ASSUME NEW s \in Requests, s # r
      PROVE  Remembers(s)'
  <2>1. pc'[s] = pc[s] /\ outcome'[s] = outcome[s] /\ want'[s] = want[s]
      BY <1>2 DEF FInv, IInv, TypeOK, Attempt, Arrive
  <2>2. lastFailed'[s] = lastFailed[s]
      BY <1>2 DEF FInv, FailInv, FailoverTypeOK, Attempt
  <2>3. /\ excluded' = excluded /\ lastError' = lastError
        /\ failures' = failures /\ reply' = reply
      BY DEF Attempt
  <2> QED
      BY <2>1, <2>2, <2>3, Untouched DEF FInv, FailInv
<1>3. Remembers(r)'
  <2>1. pc[r] = "new" /\ pc'[r] = "scan" /\ outcome' = outcome
      BY DEF FInv, IInv, TypeOK, Attempt, Arrive
  <2>2. want'[r].excluded = excluded[r]
      BY DEF Attempt, Asks
  <2>3. /\ excluded' = excluded /\ lastError' = lastError
        /\ failures' = failures /\ reply' = reply
      BY DEF Attempt
  <2>4. Remembers(r)
      BY DEF FInv, FailInv
  <2> QED
      BY <2>1, <2>2, <2>3, <2>4 DEF Remembers, Pending, Asking, Undecided
<1> QED
    BY <1>1, <1>2, <1>3 DEF FailInv

\* A tab whose request fails is a tab of some account.
LEMMA FailsHere ==
    ASSUME TypeOK, LeaseWhileServed, NEW r \in Requests, Fails(r),
           RequestStep(r) \/ TimeOut(r) \/ SeeLimit(r)
    PROVE  AccountOf[lease[r]] \in Accounts
<1>1. EnterFails(r) \/ Finish(r)
    BY DEF Fails, RequestStep, Take, RefusePinned, RefuseNoAccount,
       RefuseToQueue, Refuse, Wait, Enter, LimitOffline, Report, Handled,
       Release, TimeOut, SeeLimit, TypeOK
<1>2. lease[r] \in Tabs
    BY <1>1 DEF EnterFails, Finish, LeaseWhileServed, Served, TypeOK
<1> QED
    BY <1>2, PoolAssumption

\* A step of an attempt: a failure is remembered with its account.
LEMMA ProceedKeeps ==
    ASSUME FInv, NEW r \in Requests, Proceed(r)
    PROVE  FailInv'
<1> DEFINE A == AccountOf[lease[r]]
<1>1. RequestStep(r) \/ TimeOut(r) \/ SeeLimit(r)
    BY DEF Proceed
<1>2. TypeOK /\ LeaseWhileServed /\ FailoverTypeOK /\ Remembers(r)
    BY DEF FInv, IInv, FailInv
<1>3. excluded' = excluded /\ lastError' = lastError /\ reply' = reply
    BY DEF Proceed
<1>4. /\ Fails(r) => /\ lastFailed' = [lastFailed EXCEPT ![r] = A]
                     /\ failures' = [failures EXCEPT ![r] = @ \cup {A}]
      /\ ~Fails(r) => lastFailed' = lastFailed /\ failures' = failures
    BY DEF Proceed
<1>5. Fails(r) => A \in Accounts
    BY <1>1, <1>2, FailsHere
<1> HIDE DEF A
<1>6. FailoverTypeOK'
    BY <1>2, <1>3, <1>4, <1>5 DEF FailoverTypeOK
<1>7. ASSUME NEW s \in Requests, s # r
      PROVE  Remembers(s)'
  <2>1. lastFailed'[s] = lastFailed[s] /\ failures'[s] = failures[s]
      BY <1>2, <1>4, <1>7 DEF FailoverTypeOK
  <2> QED
      BY <1>1, <1>2, <1>3, <1>7, <2>1, StepOfOther, Untouched DEF FInv, FailInv
<1>8. Remembers(r)'
  <2>1. /\ pc[r] \notin {"new", "done"}
        /\ pc'[r] \in Undecided =>
             pc[r] \in Undecided /\ outcome'[r] = outcome[r]
        /\ pc'[r] \in Asking => pc[r] \in Asking /\ want'[r] = want[r]
        /\ outcome'[r] # outcome[r] => pc[r] \in Undecided
      BY <1>1, <1>2, StepOfOwn
  <2>2. CASE Fails(r)
    <3>1. lastFailed'[r] = A /\ failures'[r] = failures[r] \cup {A}
        BY <1>2, <1>4, <2>2 DEF FailoverTypeOK
    <3>2. outcome[r] # "retryable" /\ outcome'[r] = "retryable"
        BY <2>2 DEF Fails
    <3> QED
        BY <1>2, <1>3, <2>1, <3>1, <3>2 DEF Remembers, Pending
  <2>3. CASE ~Fails(r)
    <3>1. lastFailed' = lastFailed /\ failures' = failures
        BY <1>4, <2>3
    <3>2. outcome'[r] = "retryable" <=> outcome[r] = "retryable"
        BY <1>2, <2>1, <2>3 DEF Fails, Remembers
    <3> QED
        BY <1>2, <1>3, <2>1, <3>1, <3>2 DEF Remembers, Pending
  <2> QED
      BY <2>2, <2>3
<1> QED
    BY <1>6, <1>7, <1>8 DEF FailInv

\* A reply: "busy" only if nothing has failed.
LEMMA ReplyKeeps ==
    ASSUME FInv, NEW r \in Requests, Answer(r) \/ GiveUp(r) \/ Raise(r)
    PROVE  FailInv'
<1>1. PICK v \in Replies : /\ AttemptOver(r) /\ Reply(r, v)
                           /\ v = "busy" => failures[r] = {}
  <2>1. Remembers(r)
      BY DEF FInv, FailInv
  <2>2. CASE Answer(r)
      BY <2>2 DEF Answer, Replies
  <2>3. CASE GiveUp(r)
      BY <2>1, <2>3 DEF GiveUp, BusyReply, Remembers, Replies
  <2>4. CASE Raise(r)
      BY <2>4 DEF Raise, Replies
  <2> QED
      BY <2>2, <2>3, <2>4
<1>2. FailoverTypeOK'
    BY <1>1 DEF FInv, FailInv, FailoverTypeOK, Reply
<1>3. ASSUME NEW s \in Requests
      PROVE  Remembers(s)'
  <2>1. reply'[s] = IF s = r THEN v ELSE reply[s]
      BY <1>1 DEF FInv, FailInv, FailoverTypeOK, Reply
  <2>2. /\ pc' = pc /\ outcome' = outcome /\ want' = want
        /\ excluded' = excluded /\ lastFailed' = lastFailed
        /\ lastError' = lastError /\ failures' = failures
      BY <1>1 DEF Reply, vars
  <2>3. Remembers(s)
      BY DEF FInv, FailInv
  <2> QED
      BY <1>1, <2>1, <2>2, <2>3 DEF Remembers, Pending, AttemptOver
<1> QED
    BY <1>2, <1>3 DEF FailInv

\* A retry: the failure it has met is excluded from now on.
LEMMA RetryKeeps ==
    ASSUME FInv, NEW r \in Requests, Retry(r)
    PROVE  FailInv'
<1>1. /\ excluded' = [excluded EXCEPT ![r] = @ \cup {lastFailed[r]}]
      /\ lastError' = [lastError EXCEPT ![r] = TRUE]
      /\ pc' = [pc EXCEPT ![r] = "new"]
      /\ outcome' = [outcome EXCEPT ![r] = "none"]
      /\ want' = want /\ lastFailed' = lastFailed /\ failures' = failures
      /\ reply' = reply /\ reply[r] = "none"
      /\ lastFailed[r] # None
    BY DEF Retry, AttemptOver, Fresh
<1>2. FailoverTypeOK /\ TypeOK
    BY DEF FInv, IInv, FailInv
<1>3. FailoverTypeOK'
    BY <1>1, <1>2 DEF FailoverTypeOK
<1>4. ASSUME NEW s \in Requests, s # r
      PROVE  Remembers(s)'
  <2>1. /\ pc'[s] = pc[s] /\ outcome'[s] = outcome[s]
        /\ excluded'[s] = excluded[s] /\ lastError'[s] = lastError[s]
      BY <1>1, <1>2, <1>4 DEF TypeOK, FailoverTypeOK
  <2> QED
      BY <1>1, <2>1, Untouched DEF FInv, FailInv
<1>5. Remembers(r)'
  <2>1. /\ pc'[r] = "new" /\ outcome'[r] = "none" /\ lastError'[r] = TRUE
        /\ excluded'[r] = excluded[r] \cup {lastFailed[r]}
      BY <1>1, <1>2 DEF TypeOK, FailoverTypeOK
  <2>2. Remembers(r)
      BY DEF FInv, FailInv
  <2> QED
      BY <1>1, <2>1, <2>2 DEF Remembers, Pending, Asking, Undecided
<1> QED
    BY <1>3, <1>4, <1>5 DEF FailInv

\* Routing goes off and on around the requests.
LEMMA RouteKeeps ==
    ASSUME FInv, NEW a \in Accounts, Route(a)
    PROVE  FailInv'
<1>1. UNCHANGED failoverVars /\ UNCHANGED <<want, outcome>>
    BY DEF Route, Suspend, Resume, ResumeOp, requestVars
<1>2. \A s \in Requests :
        pc'[s] = pc[s] \/ (pc[s] = "waiting" /\ pc'[s] = "woken")
    BY DEF FInv, IInv, TypeOK, Route, Suspend, Resume, ResumeOp, NotifyAll,
       WakeRequests, WokenStage, requestVars
<1>3. FailoverTypeOK'
    BY <1>1 DEF FInv, FailInv, FailoverTypeOK, failoverVars
<1>4. \A s \in Requests : Remembers(s)'
    BY <1>1, <1>2, Untouched DEF FInv, FailInv, failoverVars
<1> QED
    BY <1>3, <1>4 DEF FailInv

-----------------------------------------------------------------------------
(* The invariant *)

\* Retrying is the one step of a call that is none of the pool's.
LEMMA RetryPool ==
    ASSUME IInv, NEW r \in Requests, Retry(r)
    PROVE  IInv'
<1>1. pc[r] = "done" /\ pc' = [pc EXCEPT ![r] = "new"]
    BY DEF Retry, AttemptOver
<1>2. UNCHANGED <<slots, slot, retired, cursor, waiters, want, lease, limited,
                  probe, drain>>
    BY DEF Retry, poolVars
<1>3. outcome' = [outcome EXCEPT ![r] = "none"]
    BY DEF Retry
<1>4. TypeOK'
    BY <1>1, <1>2, <1>3 DEF IInv, TypeOK, Stages, Outcomes
<1>5. LeaseInv'
    BY <1>2, LeaseQuiet DEF IInv
<1>6. LeaseWhileServed'
    BY <1>1, <1>2 DEF IInv, LeaseWhileServed, Served, TypeOK
<1> QED
    BY <1>4, <1>5, <1>6 DEF IInv

\* Every step keeps the invariant.
LEMMA FInvNext == FInv /\ [FNext]_fvars => FInv'
<1> SUFFICES ASSUME FInv, [FNext]_fvars PROVE FInv'
    OBVIOUS
<1>1. CASE UNCHANGED fvars
  <2>1. UNCHANGED vars /\ UNCHANGED failoverVars
      BY <1>1 DEF fvars
  <2>2. IInv'
      BY <2>1, LeaseNext DEF FInv
  <2>3. FailInv'
      BY <2>1, Untouched DEF FInv, FailInv, FailoverTypeOK, vars, failoverVars
  <2> QED
      BY <2>2, <2>3 DEF FInv
<1>2. ASSUME NEW r \in Requests, Attempt(r) PROVE FInv'
  <2>1. IInv'
      BY <1>2, LeaseNext DEF FInv, Attempt, Next
  <2> QED
      BY <1>2, <2>1, AttemptKeeps DEF FInv
<1>3. ASSUME NEW r \in Requests, Proceed(r) PROVE FInv'
  <2>1. IInv'
      BY <1>3, LeaseNext DEF FInv, Proceed, Next
  <2> QED
      BY <1>3, <2>1, ProceedKeeps DEF FInv
<1>4. ASSUME NEW r \in Requests, Answer(r) \/ GiveUp(r) \/ Raise(r)
      PROVE  FInv'
  <2>1. UNCHANGED vars
      BY <1>4 DEF Answer, GiveUp, Raise, Reply
  <2>2. IInv'
      BY <2>1, LeaseNext DEF FInv
  <2> QED
      BY <1>4, <2>2, ReplyKeeps DEF FInv
<1>5. ASSUME NEW r \in Requests, Retry(r) PROVE FInv'
    BY <1>5, RetryKeeps, RetryPool DEF FInv
<1>6. ASSUME NEW a \in Accounts, Route(a) PROVE FInv'
  <2>1. IInv'
      BY <1>6, LeaseNext DEF FInv, Route, Next, ControlStep
  <2> QED
      BY <1>6, <2>1, RouteKeeps DEF FInv
<1> QED
    BY <1>1, <1>2, <1>3, <1>4, <1>5, <1>6 DEF FNext, Decide

\* No call has begun.
LEMMA FInvInit == IsFiniteSet(Tabs) /\ FInit => FInv
<1> SUFFICES ASSUME IsFiniteSet(Tabs), FInit PROVE FInv
    OBVIOUS
<1>1. IInv
    BY OnlineInv DEF FInit
<1>2. FailInv
    BY DEF FInit, Online, Quiet, FailInv, FailoverTypeOK, Remembers, Pending,
       Asking, Undecided, Replies
<1> QED
    BY <1>1, <1>2 DEF FInv

\* The inductive invariant of failover.
THEOREM FailoverSafety ==
    ASSUME IsFiniteSet(Tabs)
    PROVE  FSpec => []FInv
BY FInvInit, FInvNext, PTL DEF FSpec

\* The client of a call that failed somewhere is not told that the browser is
\* busy: retry_across_accounts raises the failure it remembers.
THEOREM FailureReported ==
    ASSUME IsFiniteSet(Tabs)
    PROVE  FSpec => []FailureNotMasked
<1>1. FInv => FailureNotMasked
    BY DEF FInv, FailInv, Remembers, FailureNotMasked
<1> QED
    BY <1>1, FailoverSafety, PTL

-----------------------------------------------------------------------------
(* The action property *)

\* A tab is gained by taking it, from an account the attempt does not exclude.
LEMMA GainedElsewhere ==
    ASSUME FInv, NEW r \in Requests, Take(r), lease'[r] # None
    PROVE  AccountOf[lease'[r]] \notin failures[r]
<1>1. PICK a \in Accounts, t \in Tabs :
        /\ Chosen(want[r], a)
        /\ Pop(want[r], a, t, 1)
        /\ lease' = [lease EXCEPT ![r] = t]
    BY DEF Take
<1>2. lease'[r] = t
    BY <1>1 DEF FInv, IInv, TypeOK
<1>3. a \notin want[r].excluded
    BY <1>1 DEF Chosen, Eligible, Routable
<1>4. AccountOf[t] = a
    BY <1>1 DEF Pop, TopIdle, FInv, IInv, LeaseInv, IdleInService
<1>5. failures[r] \subseteq want[r].excluded
  <2>1. pc[r] \in Asking
      BY DEF Take, AtLock, Asking
  <2> QED
      BY <2>1 DEF FInv, FailInv, Remembers, Pending, Undecided
<1> QED
    BY <1>2, <1>3, <1>4, <1>5

\* No other step gives a request a tab.
LEMMA GainedByTaking ==
    ASSUME FInv, [FNext]_fvars, NEW r \in Requests,
           lease[r] = None, lease'[r] # None
    PROVE  Take(r)
<1>1. TypeOK
    BY DEF FInv, IInv
<1>2. PICK s \in Requests : Proceed(s)
  <2>1. lease' # lease
      OBVIOUS
  <2> QED
      BY <2>1 DEF FNext, fvars, vars, Attempt, Arrive, Decide, Answer, GiveUp,
         Raise, Reply, Retry, Route, Suspend, Resume, ResumeOp, requestVars
<1>3. s = r
    BY <1>1, <1>2, StepOfOther DEF Proceed
<1> QED
    BY <1>1, <1>2, <1>3
    DEF Proceed, RequestStep, RefusePinned, RefuseNoAccount, RefuseToQueue,
        Refuse, Wait, Enter, EnterFails, Finish, Leave, LimitOffline, Report,
        Handled, Release, TimeOut, SeeLimit, TypeOK

\* "Replay an endpoint once per eligible account" (failover.py:36): however
\* many accounts fail, are reactivated or come and go, no attempt of a call
\* gets a tab of an account that has failed it.
THEOREM NeverBack ==
    ASSUME IsFiniteSet(Tabs)
    PROVE  FSpec => NeverTwiceOnOneAccount
<1>1. FInv /\ [FNext]_fvars =>
        [\A r \in Requests :
           lease[r] = None /\ lease'[r] # None =>
             AccountOf[lease'[r]] \notin failures[r]]_fvars
    BY GainedByTaking, GainedElsewhere
<1> QED
    BY <1>1, FailoverSafety, PTL DEF FSpec, NeverTwiceOnOneAccount
=============================================================================
