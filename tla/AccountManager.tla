--------------------------- MODULE AccountManager ---------------------------
(***************************************************************************)
(* AccountManager and AccountMonitor (src/accounts) composed with the pool *)
(* of WorkerPool: admin calls, the monitor's ticks and the failure handler *)
(* of requests change account state under login_lock, and routing through  *)
(* the pool's control-plane operations.                                    *)
(*                                                                         *)
(* One step is what a coroutine does between two awaits that really wait:  *)
(* a lock, a drain, the browser.  The pool's condition lock is first come, *)
(* first served, so "set the state, then await the pool call" is one step: *)
(* no other pair of the kind can be queued in the other order.             *)
(***************************************************************************)
EXTENDS WorkerPool

CONSTANTS
    Operators,   \* concurrent admin HTTP calls
    Monitor,     \* the task of the account monitor
    AdminCalls,  \* what operators call: see Calls
    MayPatch,    \* the cfg fields operators change: "provider", "enabled"
    Volatile     \* what the world changes: "session", "limits"

Calls == {"start", "stop", "openLogin", "logout", "confirm"}

ASSUME ManagerAssumption ==
    /\ Monitor \notin Operators
    /\ AdminCalls \subseteq Calls
    /\ MayPatch \subseteq {"provider", "enabled"}
    /\ Volatile \subseteq {"session", "limits"}
    /\ MayForceClose  \* stop_account closes the context after any drain
    /\ (Operators \cup {Monitor}) \cap (Requests \cup Probes \cup {None}) = {}

VARIABLES
    acc,          \* acc[a]: the Account
    cfg,          \* cfg[a]: its AccountConfig, changed in place by PATCH
    signedIn,     \* the browser profile has a valid session
    over,         \* usage: in a cooldown, or over the soft cap
    lock,         \* _lock: the task that holds it
    loginLock,    \* login_lock of each account
    task          \* where each task stands

recordVars == <<acc, cfg, signedIn, over>>
lockVars == <<lock, loginLock>>
managerVars == <<recordVars, lockVars, task>>
mvars == <<vars, managerVars>>

Tasks == Operators \cup {Monitor}

States == {"disabled", "starting", "logged_out", "active", "nearing",
           "cooldown", "failed"}

\* _SCHEDULABLE
ServingStates == {"active", "nearing"}

\* Where a task waits: for _lock, for login_lock, for the browser or a drain.
Steps == {"idle", "lock", "login", "launch", "check", "registered", "applied",
          "opening", "draining", "clearing", "removed", "registering",
          "confirming"}

MonitorCalls == {"start", "stop", "cooldown", "reactivate", "recheck"}

Idle == [call |-> "none", acct |-> None, at |-> "idle"]

NewTasks ==
    /\ over = [a \in Accounts |-> FALSE]
    /\ lock = None
    /\ loginLock = [a \in Accounts |-> None]
    /\ task = [o \in Tasks |-> Idle]

\* load_accounts: registered with the default provider, not started.
MInit ==
    /\ slots = Accounts
    /\ slot = [a \in Accounts |-> NewSlot(DefaultOrder, DefaultProvider)]
    /\ Quiet
    /\ acc = [a \in Accounts |->
                [state |-> "disabled", started |-> FALSE, pending |-> FALSE,
                 promoted |-> FALSE, tabs |-> {}]]
    /\ cfg \in [Accounts -> [provider : {DefaultProvider},
                            order : {DefaultOrder}, enabled : BOOLEAN]]
    /\ signedIn \in [Accounts -> BOOLEAN]
    /\ NewTasks

\* After startup: every account enabled, started and found signed in, its
\* first tab in the pool.
FirstTab(a) == CHOOSE t \in Tabs : AccountOf[t] = a

MRunning ==
    /\ slots = Accounts
    /\ slot = [a \in Accounts |->
                 [NewSlot(DefaultOrder, DefaultProvider) EXCEPT
                    !.workers = {FirstTab(a)}, !.idle = <<FirstTab(a)>>]]
    /\ Quiet
    /\ acc = [a \in Accounts |->
                [state |-> "active", started |-> TRUE, pending |-> TRUE,
                 promoted |-> FALSE, tabs |-> {FirstTab(a)}]]
    /\ cfg = [a \in Accounts |-> [provider |-> DefaultProvider,
                                order |-> DefaultOrder, enabled |-> TRUE]]
    /\ signedIn = [a \in Accounts |-> TRUE]
    /\ NewTasks

-----------------------------------------------------------------------------
(* Tasks, locks and calls *)

Acct(o) == task[o].acct

Doing(o, calls, step) == task[o].call \in calls /\ task[o].at = step

Go(o, step) == task' = [task EXCEPT ![o].at = step]

Begin(o, c, a, step) ==
    /\ task[o] = Idle
    /\ task' = [task EXCEPT ![o] = [call |-> c, acct |-> a, at |-> step]]
    /\ UNCHANGED <<vars, recordVars, lockVars>>

\* Mutant of Unlock: only login_lock is released.
UnlockLogin(o) ==
    /\ lock' = lock
    /\ loginLock' = [a \in Accounts |->
                       IF loginLock[a] = o THEN None ELSE loginLock[a]]

\* Leaving the "async with" blocks.
Unlock(o) ==
    /\ lock' = IF lock = o THEN None ELSE lock
    /\ loginLock' = [a \in Accounts |->
                       IF loginLock[a] = o THEN None ELSE loginLock[a]]

Return(o) == task' = [task EXCEPT ![o] = Idle] /\ Unlock(o)

\* open_login starts an account that is not running and then goes on.
Call(o, c, a) ==
    /\ o \in Operators /\ c \in AdminCalls
    /\ Begin(o, c, a, CASE c \in {"start", "stop"} -> "lock"
                        [] c = "openLogin" /\ ~acc[a].started -> "lock"
                        [] OTHER -> "login")

TakeLock(o) ==
    /\ task[o].at = "lock"
    /\ lock = None
    /\ lock' = o
    /\ Go(o, "login")
    /\ UNCHANGED <<vars, recordVars, loginLock>>

\* stop_account returns before it takes login_lock.
StopIdle(o) ==
    /\ Doing(o, {"stop"}, "login")
    /\ ~acc[Acct(o)].started
    /\ Return(o)
    /\ UNCHANGED <<vars, recordVars>>

\* The task takes the login_lock of its account and goes on to step.
Enters(o, step) ==
    /\ task[o].at = "login"
    /\ loginLock[Acct(o)] = None
    /\ loginLock' = [loginLock EXCEPT ![Acct(o)] = o]
    /\ Go(o, step)
    /\ UNCHANGED lock

\* The task takes the lock, finds nothing to do and returns.
EntersInVain(o) ==
    /\ task[o].at = "login"
    /\ loginLock[Acct(o)] = None
    /\ Return(o)

\* start_account is running, for itself or for open_login.
Starting(o) == \/ task[o].call = "start"
               \/ task[o].call = "openLogin" /\ lock = o

-----------------------------------------------------------------------------
(* _apply_login_result *)

Verdict(a, ok) == IF ~ok THEN {"logged_out"}
                  ELSE IF over[a] THEN {"cooldown"} ELSE ServingStates

\* Mutant of RouteBy: routing is never taken back.
RouteByResuming(a, s) ==
    IF s \in ServingStates THEN ResumeOp(a) ELSE UNCHANGED vars

RouteBy(a, s) == IF s \in ServingStates THEN ResumeOp(a) ELSE Suspend(a)

ApplyLogin(a, ok, pending) ==
    \E s \in Verdict(a, ok) :
      /\ acc' = [acc EXCEPT ![a].state = s, ![a].pending = pending]
      /\ RouteBy(a, s)

\* What is_logged_in may answer: a page that has not hydrated shows the
\* signed-out shell.
Seen(a) == {FALSE, signedIn[a]}

-----------------------------------------------------------------------------
(* start_account *)

\* Mutant of MayStart: start_account forgets that it is idempotent.
MayStartTwice(a) == TRUE

MayStart(a) == ~acc[a].started

StartAccount(o) ==
    /\ Starting(o)
    /\ Enters(o, "launch")
    /\ MayStart(Acct(o))
    /\ acc' = [acc EXCEPT ![Acct(o)].state = "starting"]
    /\ UNCHANGED <<vars, cfg, signedIn, over>>

AlreadyStarted(o) ==
    /\ Starting(o)
    /\ ~MayStart(Acct(o))
    /\ IF task[o].call = "start"
         THEN EntersInVain(o)
         ELSE /\ task[o].at = "login" /\ loginLock[Acct(o)] = None
              /\ lock' = None
              /\ UNCHANGED <<loginLock, task>>
    /\ UNCHANGED <<vars, recordVars>>

\* The context is up, with the tabs of the account.
Launch(o) ==
    LET a == Acct(o) IN
    /\ task[o].at = "launch"
    /\ \E T \in SUBSET {t \in Tabs : AccountOf[t] = a /\ Unused(t)} :
         /\ T # {} /\ IsFiniteSet(T)
         /\ acc' = [acc EXCEPT ![a].tabs = T]
    /\ Go(o, "check")
    /\ UNCHANGED <<vars, cfg, signedIn, over, lockVars>>

\* Mutant of StartFails: the launch is tried again, without a limit.
StartFailsAndRetries(o) ==
    /\ task[o].at \in {"launch", "check"}
    /\ acc' = [acc EXCEPT ![Acct(o)].tabs = {}]
    /\ Go(o, "launch")
    /\ UNCHANGED <<vars, cfg, signedIn, over, lockVars>>

\* Any exception on the way.
StartFails(o) ==
    LET a == Acct(o) IN
    /\ task[o].at \in {"launch", "check"}
    /\ acc' = [acc EXCEPT ![a].state = "failed", ![a].tabs = {}]
    /\ Return(o)
    /\ UNCHANGED <<vars, cfg, signedIn, over>>

\* The account is started and registered for the provider it has by now.
Started(o) ==
    LET a == Acct(o) IN
    /\ task[o].at = "check"
    /\ acc' = [acc EXCEPT ![a].started = TRUE, ![a].pending = TRUE]
    /\ RegisterOp(a, cfg[a].order, cfg[a].provider)
    /\ Go(o, "registered")
    /\ UNCHANGED <<cfg, signedIn, over, lockVars>>

\* Routing is decided before the tabs join the pool.
StartApplies(o) ==
    /\ task[o].at = "registered"
    /\ \E ok \in Seen(Acct(o)) : ApplyLogin(Acct(o), ok, TRUE)
    /\ Go(o, "applied")
    /\ UNCHANGED <<cfg, signedIn, over, lockVars>>

TabsJoin(o) ==
    LET a == Acct(o) IN
    /\ task[o].at = "applied"
    /\ AddWorkersOp(a, acc[a].tabs)
    /\ IF task[o].call = "start"
         THEN Return(o)
         ELSE Go(o, "login") /\ Unlock(o)
    /\ UNCHANGED recordVars

-----------------------------------------------------------------------------
(* stop_account *)

Stop(o) ==
    LET a == Acct(o) IN
    /\ Doing(o, {"stop"}, "login")
    /\ acc[a].started
    /\ Enters(o, "draining")
    /\ acc' = [acc EXCEPT ![a].pending = FALSE]
    /\ RetireOp(a)
    /\ UNCHANGED <<cfg, signedIn, over>>

BeginDrain(o) ==
    /\ task[o].at = "draining"
    /\ DrainBeginOp(Acct(o))
    /\ Go(o, "clearing")
    /\ UNCHANGED <<recordVars, lockVars>>

\* The drain has answered and the context is closed, whatever the answer.
Close(o) ==
    /\ Doing(o, {"stop"}, "clearing")
    /\ drain[Acct(o)] \in {"drained", "gaveUp"}
    /\ RemoveOp(Acct(o)) /\ SetDrain(Acct(o), "off")
    /\ Go(o, "removed")
    /\ UNCHANGED <<recordVars, lockVars>>

KeepEmptySlot(o) ==
    LET a == Acct(o) IN
    /\ task[o].at = "removed"
    /\ RegisterOp(a, cfg[a].order, cfg[a].provider)
    /\ Go(o, "registering")
    /\ UNCHANGED <<recordVars, lockVars>>

Stopped(o) ==
    LET a == Acct(o) IN
    /\ task[o].at = "registering"
    /\ Suspend(a)
    /\ acc' = [acc EXCEPT ![a].started = FALSE, ![a].tabs = {},
                          ![a].state = "disabled"]
    /\ Return(o)
    /\ UNCHANGED <<cfg, signedIn, over>>

-----------------------------------------------------------------------------
(* open_login, logout, confirm_login *)

Opening(o) == task[o].call = "openLogin" /\ lock # o

\* The account did not start, or was stopped before its lock was free.
NotRunning(o) ==
    LET a == Acct(o) IN
    /\ Opening(o) \/ task[o].call \in {"confirm", "logout"}
    /\ ~acc[a].started
    /\ EntersInVain(o)
    /\ acc' = IF task[o].call = "logout"
                THEN [acc EXCEPT ![a].pending = FALSE,
                                 ![a].state = "logged_out"]
                ELSE acc
    /\ UNCHANGED <<vars, cfg, signedIn, over>>

\* Mutant of OpenLogin: routing is left on.
OpenLoginServing(o) ==
    LET a == Acct(o) IN
    /\ Opening(o) /\ acc[a].started
    /\ Enters(o, "opening")
    /\ acc' = [acc EXCEPT ![a].pending = TRUE]
    /\ UNCHANGED <<vars, cfg, signedIn, over>>

OpenLogin(o) ==
    LET a == Acct(o) IN
    /\ Opening(o) /\ acc[a].started
    /\ Enters(o, "opening")
    /\ acc' = [acc EXCEPT ![a].pending = TRUE]
    /\ Suspend(a)
    /\ UNCHANGED <<cfg, signedIn, over>>

\* The login page is up; the stored session may turn out to be valid.
LoginOpened(o) ==
    LET a == Acct(o) IN
    /\ task[o].at = "opening"
    /\ \/ TRUE \in Seen(a) /\ ApplyLogin(a, TRUE, acc[a].pending)
       \/ /\ acc' = [acc EXCEPT ![a].state = "logged_out"]
          /\ UNCHANGED vars
    /\ Return(o)
    /\ UNCHANGED <<cfg, signedIn, over>>

Logout(o) ==
    LET a == Acct(o) IN
    /\ task[o].call = "logout" /\ acc[a].started
    /\ Enters(o, "draining")
    /\ acc' = [acc EXCEPT ![a].pending = FALSE]
    /\ Suspend(a)
    /\ UNCHANGED <<cfg, signedIn, over>>

\* The drain has answered, and the session is cleared whatever the answer;
\* clearing it may fail, with a warning.
LoggedOut(o) ==
    LET a == Acct(o) IN
    /\ Doing(o, {"logout"}, "clearing")
    /\ DrainEnd(a)
    /\ signedIn' = [signedIn EXCEPT ![a] = FALSE] \/ UNCHANGED signedIn
    /\ acc' = [acc EXCEPT ![a].state = "logged_out"]
    /\ Return(o)
    /\ UNCHANGED <<cfg, over>>

Confirm(o) ==
    LET a == Acct(o) IN
    /\ task[o].call = "confirm" /\ acc[a].started
    /\ Enters(o, "confirming")
    /\ acc' = [acc EXCEPT ![a].pending = TRUE]
    /\ UNCHANGED <<vars, cfg, signedIn, over>>

\* confirm_login, recheck_login and reactivate look at the page, and apply
\* what they see; a recheck only if it is good news and still wanted.
Looked(o) ==
    LET a == Acct(o)
        wanted(ok) == task[o].call = "recheck" => ok /\ cfg[a].enabled
    IN
    /\ task[o].at = "confirming"
    /\ \E ok \in Seen(a) :
         IF wanted(ok) THEN ApplyLogin(a, ok, acc[a].pending)
                       ELSE UNCHANGED <<vars, acc>>
    /\ Return(o)
    /\ UNCHANGED <<cfg, signedIn, over>>

-----------------------------------------------------------------------------
(* Requests: mark_failed is the failure handler of the pool *)

MarkFailed(r) ==
    LET a == AccountOf[lease[r]] IN
    /\ pc[r] = "handling"
    /\ loginLock[a] = None
    /\ loginLock' = [loginLock EXCEPT ![a] = r]
    /\ acc' = [acc EXCEPT ![a].pending = FALSE, ![a].state = "failed"]
    /\ Suspend(a)
    /\ UNCHANGED <<cfg, signedIn, over, lock, task>>

HandlerReturns(r) ==
    LET a == AccountOf[lease[r]] IN
    /\ pc[r] = "handling"
    /\ loginLock[a] = r
    /\ Handled(r)
    /\ loginLock' = [loginLock EXCEPT ![a] = None]
    /\ UNCHANGED <<recordVars, lock, task>>

\* Every other step of a request; a limit banner is noted as it is seen.
Use(r) ==
    /\ RequestStep(r) /\ pc[r] # "handling"
    /\ UNCHANGED managerVars

Limit(r) ==
    /\ SeeLimit(r)
    /\ over' = [over EXCEPT ![AccountOf[lease[r]]] = TRUE]
    /\ UNCHANGED <<acc, cfg, signedIn, lockVars, task>>

\* The soft cap is reached by the requests counted so far.
ReachCap(r) ==
    /\ "limits" \in Volatile
    /\ pc[r] = "running"
    /\ over' = [over EXCEPT ![AccountOf[lease[r]]] = TRUE]
    /\ UNCHANGED <<vars, acc, cfg, signedIn, lockVars, task>>

-----------------------------------------------------------------------------
(* AccountMonitor: what a tick decides to call from the state it reads, and *)
(* what the call then does under the lock                                   *)

\* Mutant of Capped: an account that is nearing its cap is not watched.
CappedActive(a) == acc[a].started /\ acc[a].state = "active" /\ over[a]

Capped(a) == acc[a].started /\ acc[a].state \in ServingStates /\ over[a]

Tick(a) ==
    \/ /\ acc[a].started /\ acc[a].state = "cooldown" /\ ~over[a]
       /\ Begin(Monitor, "reactivate", a, "login")
    \/ /\ Capped(a)
       /\ Begin(Monitor, "cooldown", a, "login")
    \/ /\ acc[a].started /\ acc[a].state = "logged_out" /\ acc[a].pending
       /\ Begin(Monitor, "recheck", a, "login")

\* set_nearing takes no lock.
Near(a) ==
    /\ task[Monitor] = Idle
    /\ acc[a].started /\ ~over[a]
    /\ \/ acc[a].state = "active" /\ acc' = [acc EXCEPT ![a].state = "nearing"]
       \/ acc[a].state = "nearing" /\ acc' = [acc EXCEPT ![a].state = "active"]
    /\ UNCHANGED <<vars, cfg, signedIn, over, lockVars, task>>

Saturated == /\ waiters > 0
             /\ \A a \in slots : slot[a].schedulable => slot[a].idle = <<>>

\* _promote_next and _demote_one, after the load has lasted.
Promote(a) ==
    /\ task[Monitor] = Idle /\ Saturated
    /\ ~acc[a].started /\ cfg[a].enabled
    /\ acc' = [acc EXCEPT ![a].promoted = TRUE]
    /\ task' = [task EXCEPT ![Monitor] =
                  [call |-> "start", acct |-> a, at |-> "lock"]]
    /\ UNCHANGED <<vars, cfg, signedIn, over, lockVars>>

Demote(a) ==
    /\ task[Monitor] = Idle /\ ~Saturated
    /\ acc[a].started /\ acc[a].promoted
    /\ acc' = [acc EXCEPT ![a].promoted = FALSE]
    /\ task' = [task EXCEPT ![Monitor] =
                  [call |-> "stop", acct |-> a, at |-> "lock"]]
    /\ UNCHANGED <<vars, cfg, signedIn, over, lockVars>>

\* set_cooldown asks nothing once it has the lock.
Cooldown(o) ==
    LET a == Acct(o) IN
    /\ task[o].call = "cooldown"
    /\ EntersInVain(o)
    /\ acc' = [acc EXCEPT ![a].state = "cooldown"]
    /\ Suspend(a)
    /\ UNCHANGED <<cfg, signedIn, over>>

\* Mutant of StillWanted: recheck_login's condition for both.
StillWantedLoggedOut(o) ==
    acc[Acct(o)].started /\ acc[Acct(o)].state = "logged_out"

\* reactivate and recheck_login decide again under the lock.
StillWanted(o) ==
    LET x == acc[Acct(o)] IN
    /\ x.started /\ cfg[Acct(o)].enabled
    /\ \/ task[o].call = "reactivate" /\ x.state = "cooldown"
       \/ task[o].call = "recheck" /\ x.pending /\ x.state = "logged_out"

Recheck(o) ==
    /\ task[o].call \in {"reactivate", "recheck"}
    /\ IF StillWanted(o)
         THEN /\ Enters(o, "confirming")
              /\ acc' = [acc EXCEPT ![Acct(o)].pending = TRUE]
         ELSE EntersInVain(o) /\ UNCHANGED acc
    /\ UNCHANGED <<vars, cfg, signedIn, over>>

\* recheck_login does not wait for the lock.
RecheckSkips(o) ==
    /\ Doing(o, {"recheck"}, "login")
    /\ loginLock[Acct(o)] # None
    /\ Return(o)
    /\ UNCHANGED <<vars, recordVars>>

-----------------------------------------------------------------------------
(* The operator's PATCH, and the world *)

\* update_account: routing learns a new order, and nothing else.
Patch(a) ==
    /\ \E p \in Providers, o \in Orders, e \in BOOLEAN :
         /\ cfg' = [cfg EXCEPT
                      ![a] = [provider |-> p, order |-> o, enabled |-> e]]
         /\ p # cfg[a].provider => "provider" \in MayPatch
         /\ e # cfg[a].enabled => "enabled" \in MayPatch
         /\ slot' = IF a \in slots THEN [slot EXCEPT ![a].order = o] ELSE slot
    /\ cfg' # cfg
    /\ UNCHANGED <<slots, retired, cursor, waiters, requestVars, probe, drain,
                   acc, signedIn, over, lockVars, task>>

\* Sessions begin and end in the browser; cooldowns and windows pass.
World(a) ==
    /\ \/ /\ "session" \in Volatile /\ acc[a].started
          /\ signedIn' = [signedIn EXCEPT ![a] = ~@]
          /\ UNCHANGED over
       \/ /\ "limits" \in Volatile /\ over[a]
          /\ over' = [over EXCEPT ![a] = FALSE]
          /\ UNCHANGED signedIn
    /\ UNCHANGED <<vars, acc, cfg, lockVars, task>>

-----------------------------------------------------------------------------
\* A drain of the pool that a task waits for.
Drains(a) == (DrainScan(a) \/ DrainTimeOut(a)) /\ UNCHANGED managerVars

EnterLogin(o) == StartAccount(o) \/ AlreadyStarted(o) \/ StopIdle(o) \/ Stop(o)
            \/ NotRunning(o) \/ OpenLogin(o) \/ Logout(o) \/ Confirm(o)
            \/ Cooldown(o) \/ Recheck(o) \/ RecheckSkips(o)

Continue(o) ==
    \/ Launch(o) \/ StartFails(o) \/ Started(o) \/ StartApplies(o)
    \/ TabsJoin(o) \/ BeginDrain(o) \/ Close(o) \/ KeepEmptySlot(o)
    \/ Stopped(o) \/ LoginOpened(o) \/ LoggedOut(o) \/ Looked(o)

TaskStep(o) == TakeLock(o) \/ EnterLogin(o) \/ Continue(o)

MonitorStep(a) == Tick(a) \/ Near(a) \/ Promote(a) \/ Demote(a)

RequestAction(r) ==
    \/ (Arrive(r) \/ TimeOut(r)) /\ UNCHANGED managerVars
    \/ Use(r) \/ Limit(r) \/ ReachCap(r) \/ MarkFailed(r) \/ HandlerReturns(r)

MNext ==
    \/ \E r \in Requests : RequestAction(r)
    \/ \E a \in Accounts : MonitorStep(a) \/ Patch(a) \/ World(a) \/ Drains(a)
    \/ \E o \in Tasks : TaskStep(o)
    \/ \E o \in Operators, c \in AdminCalls, a \in Accounts : Call(o, c, a)

\* From load_accounts, and from the end of startup.
MSpec == MInit /\ [][MNext]_mvars
MRunSpec == MRunning /\ [][MNext]_mvars

\* asyncio resumes every task that can go on; its locks are first come,
\* first served; drains time out, and the monitor keeps ticking.
MFairness ==
    /\ \A r \in Requests :
         /\ WF_mvars(Use(r) \/ HandlerReturns(r))
         /\ SF_mvars(MarkFailed(r))
    /\ \A o \in Tasks :
         /\ SF_mvars(TakeLock(o))
         /\ SF_mvars(EnterLogin(o))
         /\ WF_mvars(Continue(o))
    /\ \A a \in Accounts : /\ WF_mvars(DrainScan(a) /\ UNCHANGED managerVars)
                             /\ SF_mvars(Tick(a))

TimeoutFairness ==
    \A a \in Accounts : WF_mvars(DrainTimeOut(a) /\ UNCHANGED managerVars)

MFairSpec == MSpec /\ MFairness
MFairTimedSpec == MFairSpec /\ TimeoutFairness

-----------------------------------------------------------------------------
(* Properties *)

\* Where a task holds the login_lock of its account.
UnderLock == Steps \ {"idle", "lock", "login"}

\* The two locks do what they are for: a task in the middle of an operation
\* holds login_lock of its account and nobody keeps a lock after returning,
\* only such a task drains, and whenever login_lock is free the Account and
\* its slot agree on the tabs that are up.
LifecycleExclusive ==
    /\ \A o \in Tasks, a \in Accounts :
         loginLock[a] = o <=> Acct(o) = a /\ task[o].at \in UnderLock
    /\ lock \in Tasks =>
         task[lock].call \in {"start", "stop", "openLogin"}
    /\ \A a \in Accounts :
         drain[a] # "off" =>
           \E o \in Tasks : loginLock[a] = o /\ task[o].at = "clearing"
    /\ \A a \in Accounts :
         loginLock[a] = None =>
           /\ slot[a].workers = acc[a].tabs
           /\ acc[a].started <=> acc[a].tabs # {}

Routed(a) == slot[a].schedulable /\ slot[a].workers # {}

\* Between the lifecycle operations of an account, its tabs are routed to
\* only if its state says that it serves requests and it has been started:
\* every path of the manager that leaves a serving state, and every late
\* failure of a request, takes the account off the routing scan.
RoutedMeansServing ==
    \A a \in Accounts :
      Routed(a) /\ loginLock[a] = None =>
        acc[a].started /\ acc[a].state \in ServingStates

\* The manager calls the pool by the contract that the results about
\* WorkerPool assume: lifecycle operations never overlap on an account.
KeepsPoolContract == [][Next]_vars

\* Where an operation has the account off the scan until it is over.
OffScanSteps == {"opening", "draining", "clearing", "removed", "registering"}

\* From the moment an operation has taken an account off the routing scan to
\* sign it in, log it out or stop it, no request gets a tab of the account
\* until the operation is over, whatever requests, the monitor and PATCH do
\* meanwhile (open_login: "Never serve requests on a tab the operator is
\* typing into", manager.py:255).
NoNewLease ==
    [][\A r \in Requests, o \in Tasks :
         lease[r] = None /\ lease'[r] # None /\ task[o].at \in OffScanSteps
           => AccountOf[lease'[r]] # Acct(o)]_mvars

\* Every admin call returns, whatever it meets at the locks, in the browser
\* and in the drain: _lock, login_lock and the pool never wait in a circle
\* that no timeout breaks.
AdminCallsReturn == \A o \in Operators : task[o] # Idle ~> task[o] = Idle

\* Once nothing limits an enabled account any more, the monitor's reactivate
\* gets it out of its cooldown, whatever other calls come between.
CooldownEnds ==
    \A a \in Accounts :
      ([]cfg[a].enabled /\ <>[]~over[a]) =>
        (acc[a].started /\ acc[a].state = "cooldown"
           ~> ~acc[a].started \/ acc[a].state # "cooldown")

\* _tick's "enforces the soft cap": an account over its cap or in a cooldown
\* does not stay in the routing scan, nearing or not.
CapEnforced ==
    \A a \in Accounts : over[a] /\ Routed(a) ~> ~over[a] \/ ~Routed(a)
=============================================================================
