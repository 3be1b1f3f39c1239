------------------------------ MODULE Failover ------------------------------
(***************************************************************************)
(* retry_across_accounts (src/api/failover.py) around the acquire()        *)
(* protocol of WorkerPool: an endpoint whose attempt fails with a          *)
(* retryable error runs again, on an account that has not failed it yet.   *)
(*                                                                         *)
(* The accounts are up with their tabs when the module starts; the control *)
(* plane only turns their routing off and on again (failures, cooldowns,   *)
(* reactivation by the monitor).  Tabs coming and going is in WorkerPool.  *)
(* A continuation of a conversation is pinned to an account, and runs once.*)
(***************************************************************************)
EXTENDS WorkerPool

VARIABLES
    base,        \* what each HTTP request asks for, in every attempt
    excluded,    \* accounts that its next attempt may not use
    lastFailed,  \* _last_failed_account, reset by every attempt
    lastError,   \* last_error: set once an attempt has failed
    failures,    \* history: the accounts that failed this request
    reply        \* what the client got: see Replies

failoverVars == <<base, excluded, lastFailed, lastError, failures, reply>>
fvars == <<vars, failoverVars>>

\* "error" is the error of a failed attempt, "busy" is BrowserBusy,
\* "unavailable" is AccountUnavailable.
Replies == {"none", "answered", "error", "busy", "unavailable"}

FInit ==
    /\ Online
    /\ base = [r \in Requests |-> NoWant]
    /\ excluded = [r \in Requests |-> {}]
    /\ lastFailed = [r \in Requests |-> None]
    /\ lastError = [r \in Requests |-> FALSE]
    /\ failures = [r \in Requests |-> {}]
    /\ reply = [r \in Requests |-> "none"]

-----------------------------------------------------------------------------
\* The exclusions of an attempt reach acquire() through a context variable.
\* Mutant of Asks: they do not.
AsksWithoutExclusions(r, w) ==
    /\ w.excluded = {}
    /\ base[r] = NoWant \/ w = base[r]

Asks(r, w) ==
    /\ w.excluded = excluded[r]
    /\ base[r] = NoWant \/ [w EXCEPT !.excluded = {}] = base[r]

\* The endpoint runs, the first time or again, with no failed account yet.
Attempt(r) ==
    /\ Arrive(r)
    /\ Asks(r, want'[r])
    /\ base' = [base EXCEPT ![r] = [want'[r] EXCEPT !.excluded = {}]]
    /\ lastFailed' = [lastFailed EXCEPT ![r] = None]
    /\ UNCHANGED <<excluded, lastError, failures, reply>>

\* A step of the attempt.  _Acquired records the account of a retryable
\* error, in __aenter__ and in __aexit__.
Fails(r) == outcome[r] # "retryable" /\ outcome'[r] = "retryable"

Proceed(r) ==
    /\ RequestStep(r) \/ TimeOut(r) \/ SeeLimit(r)
    /\ IF Fails(r)
         THEN /\ lastFailed' = [lastFailed EXCEPT ![r] = AccountOf[lease[r]]]
              /\ failures' = [failures EXCEPT ![r] = @ \cup {AccountOf[lease[r]]}]
         ELSE UNCHANGED <<lastFailed, failures>>
    /\ UNCHANGED <<base, excluded, lastError, reply>>

AttemptOver(r) == pc[r] = "done" /\ reply[r] = "none"

Reply(r, v) ==
    /\ reply' = [reply EXCEPT ![r] = v]
    /\ UNCHANGED <<vars, base, excluded, lastFailed, lastError, failures>>

\* The endpoint returned, or raised an error not worth a retry.
Answer(r) ==
    /\ AttemptOver(r)
    /\ outcome[r] = "answered"
    /\ Reply(r, "answered")

\* Mutant of BusyReply: the error of the failed attempt is masked.
BusyReplyMasks(r) == outcome[r]

\* BrowserBusy after a failure: the client gets the failure.
BusyReply(r) == IF lastError[r] THEN "error" ELSE outcome[r]

GiveUp(r) ==
    /\ AttemptOver(r)
    /\ outcome[r] \in {"busy", "unavailable"}
    /\ Reply(r, BusyReply(r))

\* can_retry, and a failure of an account that has not failed r before.
Fresh(r) == /\ base[r].pinned = None
            /\ lastFailed[r] # None /\ lastFailed[r] \notin excluded[r]

\* A retryable error, and no other account may answer.
Raise(r) ==
    /\ AttemptOver(r)
    /\ outcome[r] = "retryable"
    /\ ~Fresh(r)
    /\ Reply(r, "error")

\* Exclude the account and run the endpoint again.
Retry(r) ==
    /\ AttemptOver(r)
    /\ outcome[r] = "retryable"
    /\ Fresh(r)
    /\ excluded' = [excluded EXCEPT ![r] = @ \cup {lastFailed[r]}]
    /\ lastError' = [lastError EXCEPT ![r] = TRUE]
    /\ pc' = [pc EXCEPT ![r] = "new"]
    /\ outcome' = [outcome EXCEPT ![r] = "none"]
    /\ UNCHANGED <<poolVars, waiters, want, lease, limited, probe, drain,
                   base, lastFailed, failures, reply>>

\* Cooldowns and failures of other origin, and reactivation.
Route(a) ==
    /\ Suspend(a) \/ Resume(a)
    /\ UNCHANGED failoverVars

Decide(r) == Answer(r) \/ GiveUp(r) \/ Raise(r) \/ Retry(r)

FNext ==
    \/ \E r \in Requests : Attempt(r) \/ Proceed(r) \/ Decide(r)
    \/ \E a \in Accounts : Route(a)

FSpec == FInit /\ [][FNext]_fvars

\* As in WorkerPool; a replayed endpoint starts by itself.
FFairness ==
    \A r \in Requests :
      /\ WF_fvars(Proceed(r) /\ RequestStep(r))
      /\ WF_fvars(Decide(r))
      /\ WF_fvars(Attempt(r) /\ lastError[r])

FFairSpec == FSpec /\ FFairness

-----------------------------------------------------------------------------
(* Properties *)

\* "Replay an endpoint once per eligible account" (failover.py:36): a
\* request never gets a tab of an account that has failed it, even one the
\* monitor has brought back meanwhile.
NeverTwiceOnOneAccount ==
    [][\A r \in Requests :
         lease[r] = None /\ lease'[r] # None =>
           AccountOf[lease'[r]] \notin failures[r]]_fvars

\* The client of a request that failed somewhere learns of that failure, or
\* is answered; it is never told just that the browser is busy.
FailureNotMasked == \A r \in Requests : reply[r] = "busy" => failures[r] = {}

\* Every call gets a reply, without timeouts, however often the accounts'
\* routing goes off and on.
EveryCallReplied ==
    \A r \in Requests : pc[r] = "scan" ~> reply[r] # "none"
=============================================================================
