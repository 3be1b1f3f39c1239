---------------------------- MODULE ManagerProofs ----------------------------
(***************************************************************************)
(* Proofs about AccountManager, for any number of accounts, tabs, requests *)
(* and admin calls: the lifecycle operations exclude each other, the       *)
(* manager calls the pool by the contract that the theorems about          *)
(* WorkerPool assume, so that these theorems hold of the composition, and  *)
(* requests are only ever routed to accounts that serve.                   *)
(***************************************************************************)
EXTENDS AccountManager, WorkerPoolProofs

TaskType == [call : Calls \cup MonitorCalls \cup {"none"},
             acct : Accounts \cup {None}, at : Steps]

AccountType == [state : States, started : BOOLEAN, pending : BOOLEAN,
                promoted : BOOLEAN, tabs : SUBSET Tabs]

RecordTypes ==
    /\ acc \in [Accounts -> AccountType]
    /\ cfg \in [Accounts -> [provider : Providers, order : Orders,
                             enabled : BOOLEAN]]
    /\ signedIn \in [Accounts -> BOOLEAN]
    /\ over \in [Accounts -> BOOLEAN]

LockTypes ==
    /\ lock \in Tasks \cup {None}
    /\ loginLock \in [Accounts -> Tasks \cup Requests \cup {None}]
    /\ task \in [Tasks -> TaskType]

\* Operations that take _lock, and those that drain.
Exclusive == {"start", "stop", "openLogin"}
Draining == {"stop", "logout"}

\* The locks: login_lock is held by the tasks under it, _lock by a task that
\* is past taking it.
TaskShape(o) ==
    /\ task[o].at = "idle" => task[o] = Idle
    /\ task[o].at # "idle" => Acct(o) \in Accounts
    /\ task[o].at = "lock" => task[o].call \in Exclusive
    /\ lock = o => /\ task[o].call \in Exclusive
                   /\ task[o].at \notin {"idle", "lock"}
    /\ task[o].at \in {"draining", "clearing"} => task[o].call \in Draining

LocksHeld ==
    /\ \A o \in Tasks : TaskShape(o)
    /\ \A o \in Tasks, a \in Accounts :
         loginLock[a] = o <=> Acct(o) = a /\ task[o].at \in UnderLock

LockInv == LockTypes /\ LocksHeld

\* The account is down, or up with its tabs in the pool.
Down(a) == ~acc[a].started /\ acc[a].tabs = {} /\ slot[a].workers = {}

Running(a) == /\ acc[a].started /\ acc[a].tabs # {}
              /\ slot[a].workers = acc[a].tabs

Up(a) == Running(a) /\ slot[a].workers \cap retired = {}

\* The tabs of a context just opened.
Opened(a) ==
    /\ slot[a].workers = {}
    /\ acc[a].tabs # {} /\ IsFiniteSet(acc[a].tabs)
    /\ \A t \in acc[a].tabs : AccountOf[t] = a /\ Unused(t)

OffScan(a) == a \in slots /\ ~slot[a].schedulable

\* What holds of account a while an operation on it stands at a step.
Amid(a, call, step) ==
    CASE step = "launch" -> Down(a)
      [] step = "check" -> ~acc[a].started /\ Opened(a)
      [] step = "registered" -> acc[a].started /\ Opened(a) /\ a \in slots
      [] step = "applied" ->
           /\ acc[a].started /\ Opened(a) /\ a \in slots
           /\ slot[a].schedulable => acc[a].state \in ServingStates
      [] step = "opening" -> Up(a) /\ OffScan(a)
      [] step \in {"draining", "clearing"} ->
           /\ Running(a) /\ OffScan(a)
           /\ IF call = "stop" THEN slot[a].workers \subseteq retired
                               ELSE slot[a].workers \cap retired = {}
      [] step = "removed" -> acc[a].started /\ slot[a].workers = {}
      [] step = "registering" -> 
           acc[a].started /\ slot[a].workers = {} /\ a \in slots
      [] step = "confirming" -> Up(a)
      [] OTHER -> TRUE

AccountInv(a) ==
    /\ \A o \in Tasks :
         loginLock[a] = o => Amid(a, task[o].call, task[o].at)
    /\ loginLock[a] \notin Tasks => Up(a) \/ Down(a)
    /\ drain[a] # "off" =>
         \E o \in Tasks : loginLock[a] = o /\ task[o].at = "clearing"
    /\ Routed(a) => acc[a].state \in ServingStates

MInv == RecordTypes /\ LockInv /\ \A a \in Accounts : AccountInv(a)

-----------------------------------------------------------------------------
(* Types and locks *)

\* Tasks are not requests, and nobody is None.
LEMMA TaskNames ==
    /\ Monitor \in Tasks /\ Operators \subseteq Tasks
    /\ None \notin Tasks /\ None \notin Requests /\ None \notin Accounts
    /\ Tasks \cap Requests = {}
BY PoolAssumption, ManagerAssumption DEF Tasks

\* What a step of a task may do to the locks and to the tasks.
LEMMA LocksAtRest ==
    ASSUME LockInv, UNCHANGED <<lockVars, task>>
    PROVE  LockInv'
BY DEF LockInv, LockTypes, LocksHeld, TaskShape, lockVars, Acct

\* A call that returns gives both locks back.
LEMMA LocksReturned ==
    ASSUME LockInv, NEW o \in Tasks, Return(o)
    PROVE  LockInv'
<1> USE DEF LockInv
<1>1. Idle \in TaskType
    BY DEF Idle, TaskType, Steps
<1>2. /\ lock' \in Tasks \cup {None}
      /\ loginLock' \in [Accounts -> Tasks \cup Requests \cup {None}]
      /\ task' \in [Tasks -> TaskType]
    BY <1>1 DEF Return, Unlock, LockTypes
<1>3. \A p \in Tasks : task'[p] = IF p = o THEN Idle ELSE task[p]
    BY DEF Return, LockTypes
<1>4. lock' # o /\ (lock' = lock \/ lock' = None)
    BY TaskNames DEF Return, Unlock
<1>5. \A a \in Accounts :
        loginLock'[a] = IF loginLock[a] = o THEN None ELSE loginLock[a]
    BY DEF Return, Unlock, LockTypes
<1>6. \A p \in Tasks : TaskShape(p)'
    BY <1>3, <1>4, TaskNames DEF TaskShape, LocksHeld, Idle, Acct
<1>7. \A p \in Tasks, a \in Accounts :
        loginLock'[a] = p <=> task'[p].acct = a /\ task'[p].at \in UnderLock
    BY <1>3, <1>5, TaskNames DEF LocksHeld, Idle, UnderLock, Acct
<1> QED
    BY <1>2, <1>6, <1>7 DEF LockTypes, LocksHeld, Acct

\* A task that goes from "login" to a step under login_lock holds it.
LEMMA LocksTaken ==
    ASSUME LockInv, NEW o \in Tasks, NEW step \in UnderLock,
           Enters(o, step),
           step \in {"draining", "clearing"} => task[o].call \in Draining
    PROVE  LockInv'
<1> USE DEF LockInv
<1>1. step \in Steps \ {"idle", "lock", "login"} /\ Acct(o) \in Accounts
    BY DEF UnderLock, Enters, LocksHeld, TaskShape
<1>2. task' = [task EXCEPT ![o].at = step] /\ lock' = lock
    BY DEF Enters, Go
<1>3. /\ task' \in [Tasks -> TaskType]
      /\ loginLock' \in [Accounts -> Tasks \cup Requests \cup {None}]
    BY <1>1, <1>2 DEF Enters, LockTypes, TaskType
<1>4. /\ \A p \in Tasks : p # o => task'[p] = task[p]
      /\ task'[o].call = task[o].call /\ task'[o].acct = task[o].acct
      /\ task'[o].at = step
    BY <1>2 DEF LockTypes, TaskType
<1>5. \A p \in Tasks : TaskShape(p)'
    BY <1>1, <1>2, <1>4 DEF TaskShape, LocksHeld, Acct, Enters
<1>6. \A a \in Accounts :
        loginLock'[a] = IF a = Acct(o) THEN o ELSE loginLock[a]
    BY <1>1 DEF Enters, LockTypes
<1>7. loginLock[Acct(o)] = None /\ task[o].at \notin UnderLock
    BY DEF Enters, UnderLock
<1>8. \A p \in Tasks, a \in Accounts :
        loginLock'[a] = p <=> task'[p].acct = a /\ task'[p].at \in UnderLock
    BY <1>1, <1>4, <1>6, <1>7, TaskNames DEF LocksHeld, Acct
<1> QED
    BY <1>2, <1>3, <1>5, <1>8 DEF LocksHeld, Acct, LockTypes

\* A task under login_lock goes on to another step under it.
LEMMA LocksKept ==
    ASSUME LockInv, NEW o \in Tasks, NEW step \in UnderLock,
           Go(o, step), task[o].at \in UnderLock, UNCHANGED lockVars,
           step \in {"draining", "clearing"} => task[o].call \in Draining
    PROVE  LockInv'
<1> USE DEF LockInv
<1>1. step \in Steps \ {"idle", "lock", "login"} /\ Acct(o) \in Accounts
    BY DEF UnderLock, LocksHeld, TaskShape
<1>2. task' \in [Tasks -> TaskType]
    BY <1>1 DEF Go, LockTypes, TaskType
<1>3. /\ \A p \in Tasks : p # o => task'[p] = task[p]
      /\ task'[o].call = task[o].call /\ task'[o].acct = task[o].acct
      /\ task'[o].at = step
    BY DEF Go, LockTypes, TaskType
<1>4. \A p \in Tasks : TaskShape(p)'
    BY <1>1, <1>3 DEF TaskShape, LocksHeld, Acct, lockVars
<1>5. \A p \in Tasks, a \in Accounts :
        loginLock'[a] = p <=> task'[p].acct = a /\ task'[p].at \in UnderLock
    BY <1>3 DEF LocksHeld, Acct, lockVars
<1> QED
    BY <1>2, <1>4, <1>5 DEF LocksHeld, Acct, lockVars, LockTypes

\* A call begins, at neither lock.
LEMMA LocksAtBegin ==
    ASSUME LockInv, NEW o \in Tasks, task[o] = Idle,
           NEW c \in Calls \cup MonitorCalls, NEW a \in Accounts,
           NEW step \in {"lock", "login"},
           step = "lock" => c \in Exclusive,
           task' = [task EXCEPT ![o] = [call |-> c, acct |-> a, at |-> step]],
           UNCHANGED lockVars
    PROVE  LockInv'
<1> USE DEF LockInv
<1>1. task' \in [Tasks -> TaskType]
    BY DEF LockTypes, TaskType, Steps
<1>2. \A p \in Tasks : task'[p] = IF p = o
                                   THEN [call |-> c, acct |-> a, at |-> step]
                                           ELSE task[p]
    BY DEF LockTypes
<1>3. lock # o
    BY DEF LocksHeld, TaskShape, Idle
<1>4. \A p \in Tasks : TaskShape(p)'
    BY <1>2, <1>3 DEF TaskShape, LocksHeld, Acct, lockVars
<1>5. task[o].at \notin UnderLock /\ step \notin UnderLock
    BY DEF Idle, UnderLock
<1>6. \A p \in Tasks, b \in Accounts :
        loginLock'[b] = p <=> task'[p].acct = b /\ task'[p].at \in UnderLock
    BY <1>2, <1>5 DEF LocksHeld, Acct, lockVars
<1> QED
    BY <1>1, <1>4, <1>6 DEF LocksHeld, Acct, lockVars, LockTypes

\* A task that has waited for _lock gets it, and goes on to login_lock.
LEMMA LocksAtTakeLock ==
    ASSUME LockInv, NEW o \in Tasks, TakeLock(o)
    PROVE  LockInv'
<1> USE DEF LockInv
<1>1. task' \in [Tasks -> TaskType]
    BY DEF TakeLock, Go, LockTypes, TaskType, Steps
<1>2. /\ \A p \in Tasks : p # o => task'[p] = task[p]
      /\ task'[o].call = task[o].call /\ task'[o].acct = task[o].acct
      /\ task[o].at = "lock" /\ task'[o].at = "login"
    BY DEF TakeLock, Go, LockTypes, TaskType
<1>3. \A p \in Tasks : TaskShape(p)'
    BY <1>2, TaskNames DEF TaskShape, LocksHeld, Acct, TakeLock
<1>4. \A p \in Tasks, a \in Accounts :
        loginLock'[a] = p <=> task'[p].acct = a /\ task'[p].at \in UnderLock
    BY <1>2 DEF LocksHeld, Acct, TakeLock, UnderLock
<1> QED
    BY <1>1, <1>3, <1>4 DEF LocksHeld, Acct, LockTypes, TakeLock

\* open_login has started the account: it gives both locks back, and waits
\* for login_lock on its own behalf.
LEMMA LocksAtHandOver ==
    ASSUME LockInv, NEW o \in Tasks, task[o].at \in UnderLock \cup {"login"},
           Go(o, "login"), Unlock(o)
    PROVE  LockInv'
<1> USE DEF LockInv
<1>1. /\ task' \in [Tasks -> TaskType]
      /\ lock' \in Tasks \cup {None}
      /\ loginLock' \in [Accounts -> Tasks \cup Requests \cup {None}]
    BY DEF Unlock, Go, LockTypes, TaskType, Steps
<1>2. /\ \A p \in Tasks : p # o => task'[p] = task[p]
      /\ task'[o].call = task[o].call /\ task'[o].acct = task[o].acct
      /\ task'[o].at = "login"
    BY DEF Go, LockTypes, TaskType
<1>3. lock' # o /\ (lock' = lock \/ lock' = None)
    BY TaskNames DEF Unlock
<1>4. \A p \in Tasks : TaskShape(p)'
    BY <1>2, <1>3, TaskNames DEF TaskShape, LocksHeld, Acct, UnderLock
<1>5. \A a \in Accounts :
        loginLock'[a] = IF loginLock[a] = o THEN None ELSE loginLock[a]
    BY DEF Unlock, LockTypes
<1>6. \A p \in Tasks, a \in Accounts :
        loginLock'[a] = p <=> task'[p].acct = a /\ task'[p].at \in UnderLock
    BY <1>2, <1>5, TaskNames DEF LocksHeld, Acct, UnderLock
<1> QED
    BY <1>1, <1>4, <1>6 DEF LocksHeld, Acct, LockTypes

\* start_account, called by open_login, finds the account up: only _lock goes.
LEMMA LocksAtNoStart ==
    ASSUME LockInv, NEW o \in Tasks, lock = o, lock' = None,
           UNCHANGED <<loginLock, task>>
    PROVE  LockInv'
BY TaskNames DEF LockInv, LockTypes, LocksHeld, TaskShape, Acct

\* Every step of a task keeps the locks in order.
LEMMA LocksTask ==
    ASSUME LockInv, NEW o \in Tasks, TaskStep(o)
    PROVE  LockInv'
<1> USE DEF UnderLock, Steps
<1>1. CASE TakeLock(o)
    BY <1>1, LocksAtTakeLock
<1>2. CASE StartAccount(o)
    BY <1>2, LocksTaken DEF StartAccount
<1>3. CASE AlreadyStarted(o)
  <2>1. CASE task[o].call = "start"
      BY <1>3, <2>1, LocksReturned DEF AlreadyStarted, EntersInVain
  <2>2. CASE task[o].call # "start"
      BY <1>3, <2>2, LocksAtNoStart DEF AlreadyStarted, Starting
  <2> QED
      BY <2>1, <2>2
<1>4. CASE StopIdle(o) \/ NotRunning(o) \/ Cooldown(o) \/ RecheckSkips(o)
    BY <1>4, LocksReturned
    DEF StopIdle, NotRunning, Cooldown, RecheckSkips, EntersInVain
<1>5. CASE Stop(o) \/ Logout(o)
    BY <1>5, LocksTaken DEF Stop, Logout, Doing, Draining
<1>6. CASE OpenLogin(o) \/ Confirm(o)
    BY <1>6, LocksTaken DEF OpenLogin, Confirm
<1>7. CASE Recheck(o)
    BY <1>7, LocksTaken, LocksReturned DEF Recheck, EntersInVain
<1>8. CASE Launch(o) \/ Started(o) \/ StartApplies(o)
    BY <1>8, LocksKept DEF Launch, Started, StartApplies, lockVars
<1>9. CASE BeginDrain(o)
  <2>1. task[o].call \in Draining
      BY <1>9 DEF BeginDrain, LockInv, LocksHeld, TaskShape
  <2> QED
      BY <1>9, <2>1, LocksKept DEF BeginDrain, lockVars
<1>10. CASE Close(o) \/ KeepEmptySlot(o)
    BY <1>10, LocksKept DEF Close, KeepEmptySlot, Doing, lockVars
<1>11. CASE TabsJoin(o)
    BY <1>11, LocksReturned, LocksAtHandOver DEF TabsJoin
<1>12. CASE StartFails(o) \/ Stopped(o) \/ LoginOpened(o) \/ LoggedOut(o)
            \/ Looked(o)
    BY <1>12, LocksReturned
    DEF StartFails, Stopped, LoginOpened, LoggedOut, Looked
<1> QED
    BY <1>1, <1>2, <1>3, <1>4, <1>5, <1>6, <1>7, <1>8, <1>9, <1>10, <1>11,
       <1>12 DEF TaskStep, EnterLogin, Continue

\* mark_failed holds the login_lock of the account that failed it.
LEMMA LocksRequest ==
    ASSUME LockInv, TypeOK, LeaseWhileServed, NEW r \in Requests,
           RequestAction(r)
    PROVE  LockInv'
<1>1. CASE MarkFailed(r) \/ HandlerReturns(r)
  <2> DEFINE a == AccountOf[lease[r]]
  <2>1. a \in Accounts
      BY <1>1, PoolAssumption
      DEF MarkFailed, HandlerReturns, LeaseWhileServed, Served, TypeOK
  <2>2. PICK x \in {r, None} : /\ loginLock' = [loginLock EXCEPT ![a] = x]
                               /\ loginLock[a] \in {r, None}
                               /\ UNCHANGED <<lock, task>>
      BY <1>1 DEF MarkFailed, HandlerReturns
  <2> HIDE DEF a
  <2>3. \A b \in Accounts, p \in Tasks : loginLock'[b] = p <=> loginLock[b] = p
      BY <2>1, <2>2, TaskNames DEF LockInv, LockTypes
  <2>4. loginLock' \in [Accounts -> Tasks \cup Requests \cup {None}]
      BY <2>1, <2>2 DEF LockInv, LockTypes
  <2> QED
      BY <2>2, <2>3, <2>4
      DEF LockInv, LockTypes, LocksHeld, TaskShape, Acct
<1> QED
    BY <1>1, LocksAtRest
    DEF RequestAction, Use, Limit, ReachCap, managerVars, lockVars

\* So does every step of the composition.
LEMMA LocksNext ==
    ASSUME LockInv, TypeOK, LeaseWhileServed, [MNext]_mvars
    PROVE  LockInv'
<1>1. ASSUME NEW r \in Requests, RequestAction(r) PROVE LockInv'
    BY <1>1, LocksRequest
<1>2. ASSUME NEW a \in Accounts, MonitorStep(a) PROVE LockInv'
  <2>1. CASE Tick(a)
      BY <2>1, LocksAtBegin, TaskNames
      DEF Tick, Begin, lockVars, MonitorCalls, Exclusive
  <2>2. CASE Near(a)
      BY <2>2, LocksAtRest DEF Near
  <2>3. CASE Promote(a) \/ Demote(a)
      BY <2>3, LocksAtBegin, TaskNames
      DEF Promote, Demote, lockVars, MonitorCalls, Exclusive
  <2> QED
      BY <1>2, <2>1, <2>2, <2>3 DEF MonitorStep
<1>3. ASSUME NEW a \in Accounts, Patch(a) \/ World(a) \/ Drains(a)
      PROVE  LockInv'
    BY <1>3, LocksAtRest DEF Patch, World, Drains, managerVars
<1>4. ASSUME NEW o \in Tasks, TaskStep(o) PROVE LockInv'
    BY <1>4, LocksTask
<1>5. ASSUME NEW o \in Operators, NEW c \in AdminCalls, NEW a \in Accounts,
             Call(o, c, a)
      PROVE  LockInv'
  <2> DEFINE step == CASE c \in {"start", "stop"} -> "lock"
                       [] c = "openLogin" /\ ~acc[a].started -> "lock"
                       [] OTHER -> "login"
  <2>1. step \in {"lock", "login"} /\ (step = "lock" => c \in Exclusive)
      BY DEF Exclusive
  <2>2. Begin(o, c, a, step)
      BY <1>5 DEF Call
  <2> HIDE DEF step
  <2> QED
      BY <2>1, <2>2, LocksAtBegin, TaskNames, ManagerAssumption
      DEF Begin, lockVars
<1>6. CASE UNCHANGED mvars
    BY <1>6, LocksAtRest DEF mvars, managerVars
<1> QED
    BY <1>1, <1>2, <1>3, <1>4, <1>5, <1>6 DEF MNext

-----------------------------------------------------------------------------
(* Types of the account records *)

\* A login result leaves the account in a state of its own.
LEMMA AppliedType ==
    ASSUME RecordTypes, NEW a \in Accounts, NEW ok, NEW b \in BOOLEAN,
           ApplyLogin(a, ok, b)
    PROVE  acc' \in [Accounts -> AccountType]
<1>1. PICK s \in Verdict(a, ok) :
        acc' = [acc EXCEPT ![a].state = s, ![a].pending = b]
    BY DEF ApplyLogin
<1>2. s \in States
    BY DEF Verdict, ServingStates, States
<1> QED
    BY <1>1, <1>2 DEF RecordTypes, AccountType

\* The tasks keep the records well typed.
LEMMA RecordsTask ==
    ASSUME RecordTypes, LockInv, NEW o \in Tasks, TaskStep(o)
    PROVE  RecordTypes'
<1> USE DEF RecordTypes
<1> DEFINE a == Acct(o)
<1>1. task[o].at # "idle" => a \in Accounts
    BY DEF LockInv, LocksHeld, TaskShape
<1> SUFFICES /\ acc' \in [Accounts -> AccountType]
             /\ cfg' = cfg /\ over' = over
             /\ signedIn' \in [Accounts -> BOOLEAN]
    OBVIOUS
<1>2. CASE \/ TakeLock(o) \/ AlreadyStarted(o) \/ StopIdle(o)
           \/ RecheckSkips(o) \/ TabsJoin(o) \/ BeginDrain(o) \/ Close(o)
           \/ KeepEmptySlot(o)
    BY <1>2 DEF TakeLock, AlreadyStarted, StopIdle, RecheckSkips, TabsJoin,
       BeginDrain, Close, KeepEmptySlot, recordVars
<1>3. CASE StartAccount(o)
    BY <1>3 DEF StartAccount, AccountType, States
<1>4. ASSUME Stop(o) \/ OpenLogin(o) \/ Logout(o) \/ Confirm(o)
      PROVE  acc' \in [Accounts -> AccountType]
  <2>1. \E b \in BOOLEAN : acc' = [acc EXCEPT ![a].pending = b]
      BY <1>4 DEF Stop, OpenLogin, Logout, Confirm
  <2> QED
      BY <2>1 DEF AccountType
<1>5. CASE NotRunning(o)
  <2>1. \/ acc' = acc
        \/ acc' = [acc EXCEPT ![a].pending = FALSE, ![a].state = "logged_out"]
      BY <1>5 DEF NotRunning
  <2> QED
      BY <1>5, <2>1 DEF NotRunning, AccountType, States
<1>6. CASE Cooldown(o)
  <2>1. acc' = [acc EXCEPT ![a].state = "cooldown"]
      BY <1>6 DEF Cooldown
  <2>2. acc' \in [Accounts -> AccountType]
      BY <2>1 DEF AccountType, States
  <2> QED
      BY <1>6, <2>2 DEF Cooldown
<1>7. CASE Recheck(o)
  <2>1. acc' = acc \/ acc' = [acc EXCEPT ![a].pending = TRUE]
      BY <1>7 DEF Recheck
  <2> QED
      BY <1>7, <2>1 DEF Recheck, AccountType
<1>8. CASE Launch(o)
  <2>1. \E T \in SUBSET Tabs : acc' = [acc EXCEPT ![a].tabs = T]
      BY <1>8 DEF Launch
  <2> QED
      BY <1>8, <2>1 DEF Launch, AccountType
<1>14. CASE StartFails(o)
  <2>1. acc' = [acc EXCEPT ![a].state = "failed", ![a].tabs = {}]
      BY <1>14 DEF StartFails
  <2>2. acc' \in [Accounts -> AccountType]
      BY <2>1 DEF AccountType, States
  <2> QED
      BY <1>14, <2>2 DEF StartFails
<1>15. CASE Started(o)
  <2>1. acc' = [acc EXCEPT ![a].started = TRUE, ![a].pending = TRUE]
      BY <1>15 DEF Started
  <2>2. acc' \in [Accounts -> AccountType]
      BY <2>1 DEF AccountType
  <2> QED
      BY <1>15, <2>2 DEF Started
<1>9. CASE Stopped(o)
  <2>1. acc' = [acc EXCEPT ![a].started = FALSE, ![a].tabs = {},
                           ![a].state = "disabled"]
      BY <1>9 DEF Stopped
  <2>2. "disabled" \in States
      BY DEF States
  <2>3. acc' \in [Accounts -> AccountType]
    <3>1. \A b \in Accounts : acc'[b] =
            IF b = a THEN [acc[b] EXCEPT !.started = FALSE, !.tabs = {},
                                         !.state = "disabled"]
                     ELSE acc[b]
        BY <2>1
    <3>2. \A b \in Accounts : acc'[b] \in AccountType
        BY <2>2, <3>1 DEF AccountType
    <3> QED
        BY <2>1, <3>2
  <2> QED
      BY <1>9, <2>3 DEF Stopped
<1>10. CASE LoggedOut(o)
    BY <1>10, <1>1 DEF LoggedOut, Doing, AccountType, States
<1>11. CASE StartApplies(o)
    BY <1>1, <1>11, AppliedType DEF StartApplies
<1>12. CASE LoginOpened(o)
  <2>1. acc[a].pending \in BOOLEAN
      BY <1>1, <1>12 DEF LoginOpened, AccountType
  <2>2. \/ ApplyLogin(a, TRUE, acc[a].pending)
        \/ acc' = [acc EXCEPT ![a].state = "logged_out"]
      BY <1>12 DEF LoginOpened
  <2>3. ASSUME acc' = [acc EXCEPT ![a].state = "logged_out"]
        PROVE  acc' \in [Accounts -> AccountType]
      BY <2>3 DEF AccountType, States
  <2> QED
      BY <1>1, <1>12, <2>1, <2>2, <2>3, AppliedType DEF LoginOpened
<1>13. CASE Looked(o)
  <2>1. acc[a].pending \in BOOLEAN
      BY <1>1, <1>13 DEF Looked, AccountType
  <2>2. \E ok \in Seen(a) : \/ ApplyLogin(a, ok, acc[a].pending)
                            \/ UNCHANGED acc
      BY <1>13 DEF Looked
  <2> QED
      BY <1>1, <1>13, <2>1, <2>2, AppliedType DEF Looked
<1> QED
    BY <1>2, <1>3, <1>4, <1>5, <1>6, <1>7, <1>8, <1>9, <1>10, <1>11, <1>12,
       <1>13, <1>14, <1>15 DEF Stop, OpenLogin, Logout, Confirm, TaskStep, EnterLogin,
           Continue

\* So does every step of the composition.
LEMMA RecordsNext ==
    ASSUME RecordTypes, LockInv, TypeOK, LeaseWhileServed, [MNext]_mvars
    PROVE  RecordTypes'
<1> USE DEF RecordTypes, AccountType
<1>1. ASSUME NEW r \in Requests, RequestAction(r) PROVE RecordTypes'
  <2>1. pc[r] \in Served => AccountOf[lease[r]] \in Accounts
      BY PoolAssumption DEF TypeOK, LeaseWhileServed
  <2>2. CASE Limit(r) \/ ReachCap(r)
      BY <2>1, <2>2 DEF Limit, ReachCap, SeeLimit, Served
  <2>3. CASE MarkFailed(r)
      BY <2>1, <2>3 DEF MarkFailed, Served, States
  <2> QED
      BY <1>1, <2>2, <2>3
      DEF RequestAction, Use, HandlerReturns, managerVars, recordVars
<1>2. ASSUME NEW a \in Accounts, MonitorStep(a) PROVE RecordTypes'
  <2>1. UNCHANGED <<cfg, signedIn, over>>
      BY <1>2 DEF MonitorStep, Tick, Begin, Near, Promote, Demote, recordVars
  <2>2. acc' \in [Accounts -> AccountType]
    <3>1. \/ acc' = acc
          \/ acc' = [acc EXCEPT ![a].state = "nearing"]
          \/ acc' = [acc EXCEPT ![a].state = "active"]
          \/ acc' = [acc EXCEPT ![a].promoted = TRUE]
          \/ acc' = [acc EXCEPT ![a].promoted = FALSE]
        BY <1>2 DEF MonitorStep, Tick, Begin, Near, Promote, Demote, recordVars
    <3>2. {"nearing", "active"} \subseteq States
        BY DEF States
    <3>3. ASSUME NEW s \in States, acc' = [acc EXCEPT ![a].state = s]
          PROVE  acc' \in [Accounts -> AccountType]
        BY <3>3 DEF AccountType
    <3>4. ASSUME NEW b \in BOOLEAN, acc' = [acc EXCEPT ![a].promoted = b]
          PROVE  acc' \in [Accounts -> AccountType]
        BY <3>4 DEF AccountType
    <3> QED
        BY <3>1, <3>2, <3>3, <3>4
  <2> QED
      BY <2>1, <2>2
<1>3. ASSUME NEW a \in Accounts, Patch(a) \/ World(a) \/ Drains(a)
      PROVE  RecordTypes'
  <2>1. CASE Patch(a)
      BY <2>1 DEF Patch
  <2>2. CASE World(a) \/ Drains(a)
      BY <2>2 DEF World, Drains, managerVars, recordVars
  <2> QED
      BY <1>3, <2>1, <2>2
<1>4. ASSUME NEW o \in Tasks, TaskStep(o) PROVE RecordTypes'
    BY <1>4, RecordsTask
<1>5. ASSUME NEW o \in Operators, NEW c \in AdminCalls, NEW a \in Accounts,
             Call(o, c, a)
      PROVE  RecordTypes'
    BY <1>5 DEF Call, Begin, recordVars
<1>6. CASE UNCHANGED mvars
    BY <1>6 DEF mvars, managerVars, recordVars
<1> QED
    BY <1>1, <1>2, <1>3, <1>4, <1>5, <1>6 DEF MNext

-----------------------------------------------------------------------------
(* What a step of the pool leaves of an account *)

\* No tab of account a comes or goes, none of its new tabs is taken, and
\* nobody lets requests in or begins a drain.
Kept(a) ==
    /\ a \in slots' <=> a \in slots
    /\ slot'[a].workers = slot[a].workers
    /\ slot'[a].schedulable => slot[a].schedulable
    /\ drain'[a] # "off" => drain[a] # "off"
    /\ \A t \in slot[a].workers : t \in retired' <=> t \in retired
    /\ \A t \in Tabs : AccountOf[t] = a /\ Unused(t) => Unused(t)'

\* A step that moves no tab and gives none away.
LEMMA KeptQuiet ==
    ASSUME NEW a \in Accounts, UNCHANGED <<slots, retired>>,
           \A b \in Accounts : slot'[b].workers = slot[b].workers,
           slot'[a].schedulable => slot[a].schedulable,
           drain'[a] # "off" => drain[a] # "off",
           \A t \in Tabs : Holding(t)' => Holding(t) \/ ~Unused(t)
    PROVE  Kept(a)
BY PoolAssumption DEF Kept, Unused

\* A notification begins no drain.
LEMMA WakeKeepsOff ==
    ASSUME TypeOK, NEW a \in Accounts, drain' = WakeDrains
    PROVE  drain'[a] # "off" => drain[a] # "off"
BY DEF TypeOK, WakeDrains, WokenStage

\* A tab taken from an idle stack was in the pool.
LEMMA TakenWasInPool ==
    ASSUME TypeOK, LeaseInv, NEW w, NEW a \in Accounts, NEW t \in Tabs,
           NEW n \in Nat, Pop(w, a, t, n)
    PROVE  /\ a \in slots /\ t \in slot[a].workers /\ AccountOf[t] = a
           /\ ~Unused(t)
           /\ \A b \in Accounts : slot'[b].schedulable = slot[b].schedulable
<1>1. PICK i \in 1 .. Len(slot[a].idle) :
        /\ TopIdle(a, i, t)
        /\ slot' = [slot EXCEPT ![a].idle = Popped(@, i),
                                ![a].checkedOut = @ + n]
    BY DEF Pop
<1>2. slot[a].idle[i] = t
    BY <1>1 DEF TopIdle
<1>3. a \in slots /\ t \in slot[a].workers /\ AccountOf[t] = a
    BY <1>1, <1>2 DEF LeaseInv, IdleInService
<1>4. \A b \in Accounts : slot'[b].schedulable = slot[b].schedulable
    BY <1>1 DEF TypeOK, SlotType
<1> QED
    BY <1>3, <1>4 DEF Unused

\* The requests leave every account as it is, or take it off the scan.
LEMMA KeptByRequest ==
    ASSUME IInv, NEW r \in Requests, NEW a \in Accounts,
           Arrive(r) \/ RequestStep(r) \/ TimeOut(r) \/ SeeLimit(r)
    PROVE  Kept(a)
<1>1. TypeOK /\ LeaseInv
    BY DEF IInv
<1>2. CASE Take(r)
  <2>1. PICK b \in Accounts, t \in Tabs : /\ Pop(want[r], b, t, 1)
                                          /\ lease' = [lease EXCEPT ![r] = t]
      BY <1>2 DEF Take
  <2>2. /\ UNCHANGED <<slots, retired>>
        /\ \A c \in Accounts : slot'[c].workers = slot[c].workers
      BY <1>1, <2>1, PopLease
  <2>3. /\ ~Unused(t)
        /\ \A c \in Accounts : slot'[c].schedulable = slot[c].schedulable
      BY <1>1, <2>1, TakenWasInPool
  <2>4. UNCHANGED <<drain, probe>>
      BY <1>2 DEF Take
  <2>5. \A u \in Tabs : Holding(u)' => Holding(u) \/ ~Unused(u)
      BY <1>1, <2>1, <2>3, <2>4 DEF Holding, TypeOK
  <2> QED
      BY <2>2, <2>3, <2>4, <2>5, KeptQuiet
<1>3. CASE Release(r)
  <2>1. /\ \A b \in Accounts : /\ slot'[b].workers = slot[b].workers
                               /\ slot'[b].schedulable = slot[b].schedulable
        /\ UNCHANGED <<slots, retired>>
      BY <1>1, <1>3 DEF Release, PutBack, TypeOK, SlotType
  <2>2. \A u \in Tabs : Holding(u)' => Holding(u) \/ ~Unused(u)
    <3>1. \A s \in Requests : lease'[s] \in {lease[s], None}
        BY <1>1, <1>3 DEF Release, TypeOK
    <3>2. UNCHANGED probe
        BY <1>3 DEF Release
    <3> QED
        BY <3>1, <3>2, PoolAssumption DEF Holding
  <2> QED
      BY <1>1, <1>3, <2>1, <2>2, KeptQuiet, WakeKeepsOff DEF Release
<1>4. CASE LimitOffline(r) \/ Report(r)
  <2>1. /\ \E c : SetRouting(c, FALSE)
        /\ UNCHANGED <<slots, retired, lease, probe, drain>>
      BY <1>4 DEF LimitOffline, Report
  <2>2. \A b \in Accounts : /\ slot'[b].workers = slot[b].workers
                            /\ slot'[b].schedulable => slot[b].schedulable
      BY <1>1, <2>1 DEF SetRouting, TypeOK, SlotType
  <2> QED
      BY <2>1, <2>2, KeptQuiet DEF Holding
<1>5. ASSUME UNCHANGED <<poolVars, lease, probe, drain>>
      PROVE  Kept(a)
    BY <1>5, KeptQuiet DEF poolVars, Holding
<1>6. CASE \/ Arrive(r) \/ Wait(r) \/ Enter(r) \/ EnterFails(r) \/ Finish(r)
           \/ Handled(r) \/ TimeOut(r) \/ SeeLimit(r) \/ RefusePinned(r)
           \/ RefuseNoAccount(r) \/ RefuseToQueue(r)
    BY <1>5, <1>6
    DEF Arrive, Wait, Enter, EnterFails, Finish, Leave, Handled, TimeOut,
        SeeLimit, RefusePinned, RefuseNoAccount, RefuseToQueue, Refuse
<1> QED
    BY <1>2, <1>3, <1>4, <1>6 DEF RequestStep

\* A control call of one account leaves the others as they are.
LEMMA KeptByControl ==
    ASSUME IInv, NEW b \in Accounts, NEW a \in Accounts, a # b,
           \/ ControlStep(b) \/ DrainBegin(b) \/ DrainScan(b)
           \/ DrainTimeOut(b) \/ DrainEnd(b)
    PROVE  Kept(a)
<1>1. TypeOK /\ LeaseInv
    BY DEF IInv
<1>2. /\ slot'[a] = slot[a]
      /\ a \in slots' <=> a \in slots
      /\ UNCHANGED <<lease, probe>>
    BY <1>1
    DEF ControlStep, Register, SetOrder, Suspend, Resume, AddWorkers, Retire,
        RemoveSlot, RegisterOp, SetRouting, ResumeOp, AddWorkersOp, RetireOp,
        RemoveOp, DrainBegin, DrainBeginOp, DrainScan, DrainTimeOut, DrainEnd,
        poolVars, requestVars, TypeOK
<1>3. drain'[a] # "off" => drain[a] # "off"
    BY <1>1, WakeKeepsOff
    DEF ControlStep, Register, SetOrder, Suspend, Resume, AddWorkers, Retire,
        RemoveSlot, RegisterOp, ResumeOp, AddWorkersOp, RetireOp, RemoveOp,
        DrainBegin, DrainBeginOp, DrainScan, DrainTimeOut, DrainEnd, SetDrain,
        NotifyAll, TypeOK
<1>4. \A t : AccountOf[t] = a => (t \in retired' <=> t \in retired)
  <2>1. CASE AddWorkers(b)
      BY <2>1 DEF AddWorkers, AddWorkersOp
  <2>2. CASE Retire(b)
      BY <1>1, <2>2 DEF Retire, RetireOp, LeaseInv, OwnTabs
  <2>3. UNCHANGED retired \/ AddWorkers(b) \/ Retire(b)
      BY DEF ControlStep, Register, SetOrder, Suspend, Resume, RemoveSlot,
         RegisterOp, ResumeOp, RemoveOp, DrainBegin, DrainBeginOp, DrainScan,
         DrainTimeOut, DrainEnd, poolVars
  <2> QED
      BY <2>1, <2>2, <2>3
<1>5. \A t \in slot[a].workers : AccountOf[t] = a
    BY <1>1 DEF LeaseInv, OwnTabs
<1> QED
    BY <1>2, <1>3, <1>4, <1>5 DEF Kept, Unused, Holding

-----------------------------------------------------------------------------
(* The manager keeps the contract of the pool *)

\* An operation in the middle of its work holds the login_lock of its
\* account, and a drain runs only where it waits for one.
LEMMA LockHolder ==
    ASSUME MInv, NEW o \in Tasks, task[o].at \in UnderLock
    PROVE  /\ Acct(o) \in Accounts /\ loginLock[Acct(o)] = o
           /\ Amid(Acct(o), task[o].call, task[o].at)
           /\ task[o].at # "clearing" => drain[Acct(o)] = "off"
<1>1. Acct(o) \in Accounts /\ loginLock[Acct(o)] = o
    BY DEF MInv, LockInv, LocksHeld, TaskShape, UnderLock
<1> QED
    BY <1>1 DEF MInv, AccountInv

\* An account that no task works on is up or down, and nothing drains it.
LEMMA Unheld ==
    ASSUME MInv, NEW a \in Accounts, loginLock[a] \notin Tasks
    PROVE  (Up(a) \/ Down(a)) /\ drain[a] = "off"
BY DEF MInv, AccountInv

\* Nobody has the login_lock that a task takes.
LEMMA Entering ==
    ASSUME MInv, NEW o \in Tasks, task[o].at = "login",
           loginLock[Acct(o)] = None
    PROVE  /\ Acct(o) \in Accounts
           /\ Up(Acct(o)) \/ Down(Acct(o))
           /\ drain[Acct(o)] = "off"
<1>1. Acct(o) \in Accounts
    BY DEF MInv, LockInv, LocksHeld, TaskShape
<1> QED
    BY <1>1, Unheld, TaskNames

\* A login result is applied by a task that holds login_lock, to an account
\* whose tabs are not retired.
LEMMA ApplyIsControl ==
    ASSUME NEW a \in Accounts, NEW ok, NEW b, ApplyLogin(a, ok, b),
           drain[a] = "off", slot[a].workers \cap retired = {}
    PROVE  ControlStep(a)
BY DEF ApplyLogin, RouteBy, Resume, ControlStep

\* The step of a task is one control call for its account, allowed by the
\* contract of the pool, or leaves the pool alone.
LEMMA TaskIsControl ==
    ASSUME MInv, NEW o \in Tasks, TaskStep(o)
    PROVE  \/ UNCHANGED vars
           \/ /\ Acct(o) \in Accounts
              /\ \/ ControlStep(Acct(o)) \/ DrainBegin(Acct(o))
                 \/ DrainEnd(Acct(o))
<1> DEFINE a == Acct(o)
<1> USE DEF UnderLock, Steps
<1>1. CASE \/ TakeLock(o) \/ StartAccount(o) \/ AlreadyStarted(o)
           \/ StopIdle(o) \/ NotRunning(o) \/ Confirm(o) \/ Recheck(o)
           \/ RecheckSkips(o) \/ Launch(o) \/ StartFails(o)
    BY <1>1
    DEF TakeLock, StartAccount, AlreadyStarted, StopIdle, NotRunning, Confirm,
        Recheck, RecheckSkips, Launch, StartFails
<1>2. CASE OpenLogin(o) \/ Logout(o) \/ Cooldown(o)
  <2>1. a \in Accounts
      BY <1>2, Entering
      DEF OpenLogin, Logout, Cooldown, Enters, EntersInVain
  <2> QED
      BY <1>2, <2>1 DEF OpenLogin, Logout, Cooldown, ControlStep
<1>3. CASE Stop(o)
  <2>1. a \in Accounts /\ drain[a] = "off"
      BY <1>3, Entering DEF Stop, Enters
  <2> QED
      BY <1>3, <2>1 DEF Stop, Retire, ControlStep
<1>4. CASE Started(o) \/ KeepEmptySlot(o)
  <2>1. a \in Accounts /\ slot[a].workers = {}
      BY <1>4, LockHolder DEF Started, KeepEmptySlot, Amid, Opened
  <2>2. cfg[a].order \in Orders /\ cfg[a].provider \in Providers
      BY <2>1 DEF MInv, RecordTypes
  <2> QED
      BY <1>4, <2>1, <2>2 DEF Started, KeepEmptySlot, Register, ControlStep
<1>5. CASE StartApplies(o)
  <2>1. a \in Accounts /\ slot[a].workers = {} /\ drain[a] = "off"
      BY <1>5, LockHolder DEF StartApplies, Amid, Opened
  <2> QED
      BY <1>5, <2>1, ApplyIsControl DEF StartApplies
<1>6. CASE TabsJoin(o)
  <2>1. a \in Accounts /\ Opened(a) /\ drain[a] = "off"
      BY <1>6, LockHolder DEF TabsJoin, Amid
  <2>2. acc[a].tabs \subseteq Tabs
      BY <2>1 DEF MInv, RecordTypes, AccountType
  <2> QED
      BY <1>6, <2>1, <2>2 DEF TabsJoin, Opened, AddWorkers, ControlStep
<1>7. CASE BeginDrain(o)
  <2>1. a \in Accounts /\ OffScan(a) /\ drain[a] = "off"
      BY <1>7, LockHolder DEF BeginDrain, Amid
  <2> QED
      BY <1>7, <2>1 DEF BeginDrain, DrainBegin, OffScan
<1>8. CASE Close(o)
  <2>1. a \in Accounts /\ slot[a].workers \subseteq retired
      BY <1>8, LockHolder DEF Close, Doing, Amid
  <2> QED
      BY <1>8, <2>1, ManagerAssumption DEF Close, RemoveSlot, ControlStep
<1>9. CASE Stopped(o)
  <2>1. a \in Accounts
      BY <1>9, LockHolder DEF Stopped
  <2> QED
      BY <1>9, <2>1 DEF Stopped, ControlStep
<1>10. CASE LoginOpened(o)
  <2>1. a \in Accounts /\ slot[a].workers \cap retired = {} /\ drain[a] = "off"
      BY <1>10, LockHolder DEF LoginOpened, Amid, Up
  <2> QED
      BY <1>10, <2>1, ApplyIsControl DEF LoginOpened
<1>11. CASE LoggedOut(o)
  <2>1. a \in Accounts
      BY <1>11, LockHolder DEF LoggedOut, Doing
  <2> QED
      BY <1>11, <2>1 DEF LoggedOut
<1>12. CASE Looked(o)
  <2>1. a \in Accounts /\ slot[a].workers \cap retired = {} /\ drain[a] = "off"
      BY <1>12, LockHolder DEF Looked, Amid, Up
  <2> QED
      BY <1>12, <2>1, ApplyIsControl DEF Looked
<1> QED
    BY <1>1, <1>2, <1>3, <1>4, <1>5, <1>6, <1>7, <1>8, <1>9, <1>10, <1>11,
       <1>12 DEF TaskStep, EnterLogin, Continue

\* What a PATCH does to the pool.
LEMMA PatchIsSetOrder ==
    ASSUME NEW a \in Accounts, Patch(a)
    PROVE  UNCHANGED vars \/ SetOrder(a)
BY DEF Patch, SetOrder, vars, requestVars

\* The steps of a request are the pool's, or mark_failed's.
LEMMA RequestIsRequest ==
    ASSUME NEW r \in Requests, RequestAction(r)
    PROVE  \/ UNCHANGED vars
           \/ Arrive(r) \/ RequestStep(r) \/ TimeOut(r) \/ SeeLimit(r)
           \/ MarkFailed(r)
BY DEF RequestAction, Use, Limit, ReachCap, HandlerReturns, RequestStep

\* Every step of the composition is a step of the pool within its contract.
LEMMA StepIsPoolStep ==
    ASSUME MInv, TypeOK, LeaseWhileServed, [MNext]_mvars
    PROVE  [Next]_vars
<1>1. ASSUME NEW r \in Requests, RequestAction(r) PROVE [Next]_vars
  <2>1. CASE MarkFailed(r)
    <3>1. AccountOf[lease[r]] \in Accounts
        BY <2>1, PoolAssumption DEF MarkFailed, LeaseWhileServed, Served, TypeOK
    <3> QED
        BY <2>1, <3>1 DEF MarkFailed, Next, ControlStep
  <2> QED
      BY <1>1, <2>1, RequestIsRequest DEF Next
<1>2. ASSUME NEW a \in Accounts, MonitorStep(a) \/ World(a)
      PROVE  [Next]_vars
    BY <1>2 DEF MonitorStep, World, Tick, Begin, Near, Promote, Demote
<1>3. ASSUME NEW a \in Accounts, Patch(a) PROVE [Next]_vars
    BY <1>3, PatchIsSetOrder DEF Next, ControlStep
<1>4. ASSUME NEW a \in Accounts, Drains(a) PROVE [Next]_vars
    BY <1>4 DEF Drains, Next
<1>5. ASSUME NEW o \in Tasks, TaskStep(o) PROVE [Next]_vars
    BY <1>5, TaskIsControl DEF Next
<1>6. ASSUME NEW o \in Operators, NEW c \in AdminCalls, NEW a \in Accounts,
             Call(o, c, a)
      PROVE  [Next]_vars
    BY <1>6 DEF Call, Begin
<1>7. CASE UNCHANGED mvars
    BY <1>7 DEF mvars
<1> QED
    BY <1>1, <1>2, <1>3, <1>4, <1>5, <1>6, <1>7 DEF MNext

-----------------------------------------------------------------------------
(* The account of a step, and the others *)

\* A step of a task touches its own account only.
LEMMA TaskTouchesOwn ==
    ASSUME RecordTypes, LockInv, NEW o \in Tasks, TaskStep(o)
    PROVE  /\ Acct(o) \in Accounts
           /\ \A p \in Tasks : p # o => task'[p] = task[p]
           /\ \A b \in Accounts : b # Acct(o) =>
                acc'[b] = acc[b] /\ loginLock'[b] = loginLock[b]
<1> DEFINE a == Acct(o)
<1>1. task[o].at # "idle"
    BY DEF TaskStep, EnterLogin, Continue, TakeLock, StartAccount,
       AlreadyStarted, StopIdle, Stop, NotRunning, OpenLogin, Logout, Confirm,
       Cooldown, Recheck, RecheckSkips, Enters, EntersInVain, Doing, Launch,
       StartFails, Started, StartApplies, TabsJoin, BeginDrain, Close,
       KeepEmptySlot, Stopped, LoginOpened, LoggedOut, Looked
<1>2. a \in Accounts
    BY <1>1 DEF LockInv, LocksHeld, TaskShape
<1>3. \A p \in Tasks : p # o => task'[p] = task[p]
    BY DEF LockInv, LockTypes, TaskStep, EnterLogin, Continue, TakeLock,
       StartAccount, AlreadyStarted, StopIdle, Stop, NotRunning, OpenLogin,
       Logout, Confirm, Cooldown, Recheck, RecheckSkips, Enters, EntersInVain,
       Launch, StartFails, Started, StartApplies, TabsJoin, BeginDrain, Close,
       KeepEmptySlot, Stopped, LoginOpened, LoggedOut, Looked, Go, Return
<1>4. \A b \in Accounts : b # a => loginLock'[b] = loginLock[b]
  <2>1. \/ UNCHANGED loginLock \/ Unlock(o)
        \/ loginLock' = [loginLock EXCEPT ![a] = o]
      BY DEF TaskStep, EnterLogin, Continue, TakeLock, StartAccount,
         AlreadyStarted, StopIdle, Stop, NotRunning, OpenLogin, Logout,
         Confirm, Cooldown, Recheck, RecheckSkips, Enters, EntersInVain,
         Launch, StartFails, Started, StartApplies, TabsJoin, BeginDrain,
         Close, KeepEmptySlot, Stopped, LoginOpened, LoggedOut, Looked, Return,
         lockVars
  <2>2. \A b \in Accounts : loginLock[b] = o => b = a
      BY DEF LockInv, LocksHeld
  <2> QED
      BY <2>1, <2>2 DEF Unlock, LockInv, LockTypes
<1>5. \A b \in Accounts : b # a => acc'[b] = acc[b]
  <2>1. \A ok, c : ApplyLogin(a, ok, c) =>
          \A b \in Accounts : b # a => acc'[b] = acc[b]
      BY DEF ApplyLogin, RecordTypes
  <2>2. CASE StartApplies(o) \/ LoginOpened(o) \/ Looked(o)
      BY <2>1, <2>2 DEF StartApplies, LoginOpened, Looked, RecordTypes
  <2>3. CASE NotRunning(o) \/ Recheck(o)
      BY <2>3 DEF NotRunning, Recheck, RecordTypes
  <2>4. CASE \/ TakeLock(o) \/ AlreadyStarted(o) \/ StopIdle(o)
             \/ RecheckSkips(o) \/ TabsJoin(o) \/ BeginDrain(o) \/ Close(o)
             \/ KeepEmptySlot(o)
      BY <2>4 DEF TakeLock, AlreadyStarted, StopIdle, RecheckSkips, TabsJoin,
         BeginDrain, Close, KeepEmptySlot, recordVars
  <2>5. CASE StartAccount(o) \/ Stop(o) \/ OpenLogin(o) \/ Logout(o)
      BY <2>5 DEF StartAccount, Stop, OpenLogin, Logout, RecordTypes
  <2>6. CASE Confirm(o) \/ Cooldown(o) \/ Launch(o) \/ StartFails(o)
      BY <2>6 DEF Confirm, Cooldown, Launch, StartFails, RecordTypes
  <2>7. CASE Started(o) \/ Stopped(o) \/ LoggedOut(o)
      BY <2>7 DEF Started, Stopped, LoggedOut, RecordTypes
  <2> QED
      BY <2>2, <2>3, <2>4, <2>5, <2>6, <2>7 DEF TaskStep, EnterLogin, Continue
<1> QED
    BY <1>2, <1>3, <1>4, <1>5

\* What is true amid an operation stays true while others work.
LEMMA AmidKept ==
    ASSUME RecordTypes, NEW a \in Accounts, Kept(a), NEW c, NEW s,
           acc'[a].started = acc[a].started, acc'[a].tabs = acc[a].tabs,
           acc'[a].state = acc[a].state \/ acc'[a].state \in ServingStates,
           Amid(a, c, s)
    PROVE  Amid(a, c, s)'
<1>1. acc[a].tabs \subseteq Tabs
    BY DEF RecordTypes, AccountType
<1>2. /\ Down(a) => Down(a)'
      /\ Running(a) => Running(a)'
      /\ OffScan(a) => OffScan(a)'
      /\ Opened(a) => Opened(a)'
    BY <1>1 DEF Kept, Down, Running, OffScan, Opened
<1>3. Up(a) => Up(a)'
    BY <1>2 DEF Kept, Up
<1> QED
    BY <1>2, <1>3 DEF Amid, Kept

\* An account keeps its invariant when nothing happens to it, or its state
\* goes from one that serves to another.
LEMMA AccountKept ==
    ASSUME MInv, NEW a \in Accounts, Kept(a),
           acc'[a].started = acc[a].started, acc'[a].tabs = acc[a].tabs,
           acc'[a].state = acc[a].state \/ acc'[a].state \in ServingStates,
           loginLock[a] \notin Tasks => loginLock'[a] \notin Tasks,
           \A o \in Tasks : loginLock[a] = o =>
             loginLock'[a] = o /\ task'[o] = task[o]
    PROVE  AccountInv(a)'
<1>1. RecordTypes /\ AccountInv(a)
    BY DEF MInv
<1>2. ASSUME NEW o \in Tasks, loginLock'[a] = o
      PROVE  Amid(a, task[o].call, task[o].at)'
  <2>1. loginLock[a] = o /\ task'[o] = task[o]
      BY <1>2
  <2> DEFINE c == task[o].call
             s == task[o].at
  <2>2. Amid(a, c, s)
      BY <1>1, <2>1 DEF AccountInv
  <2> HIDE DEF c, s
  <2>3. \A d, e : Amid(a, d, e) => Amid(a, d, e)'
      BY <1>1, AmidKept
  <2> QED
      BY <2>1, <2>2, <2>3 DEF c, s
<1>3. ASSUME loginLock'[a] \notin Tasks
      PROVE  Up(a)' \/ Down(a)'
    BY <1>1, <1>3 DEF AccountInv, Up, Down, Running, Kept
<1>4. Routed(a)' => acc'[a].state \in ServingStates
    BY <1>1 DEF AccountInv, Routed, Kept
<1>5. drain'[a] # "off" =>
        \E o \in Tasks : loginLock'[a] = o /\ task'[o].at = "clearing"
    BY <1>1 DEF AccountInv, Kept
<1> QED
    BY <1>2, <1>3, <1>4, <1>5 DEF AccountInv

\* An account in the hands of a task.
LEMMA AccountAmid ==
    ASSUME LockInv', NEW o \in Tasks, NEW a \in Accounts,
           task'[o].acct = a, task'[o].at \in UnderLock,
           Amid(a, task[o].call, task[o].at)',
           drain'[a] # "off" => task'[o].at = "clearing",
           Routed(a)' => acc'[a].state \in ServingStates
    PROVE  AccountInv(a)'
<1>1. loginLock'[a] = o
    BY DEF LockInv, LocksHeld, Acct
<1> QED
    BY <1>1 DEF AccountInv

\* An account that is free again.
LEMMA AccountFree ==
    ASSUME NEW a \in Accounts, loginLock'[a] \notin Tasks,
           Up(a)' \/ Down(a)', drain'[a] = "off",
           Routed(a)' => acc'[a].state \in ServingStates
    PROVE  AccountInv(a)'
BY DEF AccountInv

-----------------------------------------------------------------------------
(* Routing calls, on the account they are made for *)

\* No tab comes, goes or is taken.
Still(a) ==
    /\ a \in slots' <=> a \in slots
    /\ slot'[a].workers = slot[a].workers
    /\ retired' = retired
    /\ drain[a] = "off" => drain'[a] = "off"
    /\ \A t \in Tabs : Unused(t) => Unused(t)'

\* An account that has tabs has a slot.
LEMMA TabsNeedSlot ==
    ASSUME OwnTabs, NEW a \in Accounts, slot[a].workers # {}
    PROVE  a \in slots
BY DEF OwnTabs

\* What is up stays up, and tabs just opened stay unused.
LEMMA StillUp ==
    ASSUME RecordTypes, NEW a \in Accounts, Still(a),
           acc'[a].started = acc[a].started, acc'[a].tabs = acc[a].tabs
    PROVE  /\ Up(a) => Up(a)'
           /\ Down(a) => Down(a)'
           /\ Running(a) => Running(a)'
           /\ Opened(a) => Opened(a)'
<1>1. acc[a].tabs \subseteq Tabs
    BY DEF RecordTypes, AccountType
<1> QED
    BY <1>1 DEF Still, Up, Down, Running, Opened

\* set_schedulable(False) leaves nothing routed.
LEMMA SuspendOwn ==
    ASSUME TypeOK, OwnTabs, NEW a \in Accounts, Suspend(a)
    PROVE  /\ Still(a)
           /\ ~Routed(a)'
           /\ a \in slots => OffScan(a)'
           /\ \A b \in Accounts : Kept(b)
<1>1. UNCHANGED <<slots, retired, lease, probe, drain>>
    BY DEF Suspend, requestVars
<1>2. \A b \in Accounts : /\ slot'[b].workers = slot[b].workers
                          /\ slot'[b].schedulable => slot[b].schedulable
    BY DEF Suspend, SetRouting, TypeOK, SlotType
<1>3. a \in slots => slot'[a].schedulable = FALSE
    BY DEF Suspend, SetRouting, TypeOK, SlotType
<1>4. \A b \in Accounts : Kept(b)
    BY <1>1, <1>2, KeptQuiet DEF Holding
<1>5. \A t \in Tabs : Unused(t) => Unused(t)'
    BY <1>1, <1>2, PoolAssumption DEF Unused, Holding
<1> QED
    BY <1>1, <1>2, <1>3, <1>4, <1>5 DEF Still, Routed, OffScan, OwnTabs

\* set_schedulable(True) moves no tab.
LEMMA ResumeOwn ==
    ASSUME TypeOK, NEW a \in Accounts, ResumeOp(a)
    PROVE  Still(a) /\ a \in slots
<1>1. UNCHANGED <<slots, retired, lease, probe>> /\ a \in slots
    BY DEF ResumeOp
<1>2. \A b \in Accounts : slot'[b].workers = slot[b].workers
    BY DEF ResumeOp, SetRouting, TypeOK, SlotType
<1>3. drain[a] = "off" => drain'[a] = "off"
    BY WakeKeepsOff DEF ResumeOp, NotifyAll
<1>4. \A t \in Tabs : Unused(t) => Unused(t)'
    BY <1>1, <1>2, PoolAssumption DEF Unused, Holding
<1> QED
    BY <1>1, <1>2, <1>3, <1>4 DEF Still

\* A login result: routed if and only if the state says so.
LEMMA ApplyOwn ==
    ASSUME TypeOK, OwnTabs, RecordTypes, NEW a \in Accounts, NEW ok, NEW b,
           ApplyLogin(a, ok, b)
    PROVE  /\ Still(a)
           /\ acc'[a].started = acc[a].started /\ acc'[a].tabs = acc[a].tabs
           /\ a \in slots /\ slot'[a].schedulable =>
                acc'[a].state \in ServingStates
           /\ Routed(a)' => acc'[a].state \in ServingStates
<1>1. PICK s \in Verdict(a, ok) :
        /\ acc' = [acc EXCEPT ![a].state = s, ![a].pending = b]
        /\ RouteBy(a, s)
    BY DEF ApplyLogin
<1>2. /\ acc'[a].started = acc[a].started /\ acc'[a].tabs = acc[a].tabs
      /\ acc'[a].state = s
    BY <1>1 DEF RecordTypes, AccountType
<1>3. CASE s \in ServingStates
    BY <1>1, <1>2, <1>3, ResumeOwn DEF RouteBy
<1>4. CASE s \notin ServingStates
  <2>1. Suspend(a)
      BY <1>1, <1>4 DEF RouteBy
  <2> QED
      BY <1>2, <2>1, SuspendOwn DEF OffScan
<1> QED
    BY <1>3, <1>4

-----------------------------------------------------------------------------
(* Each step of a task, on its own account *)

\* A call that has to wait, or has nothing to do, leaves its account alone.
LEMMA AccountPassedBy ==
    ASSUME MInv, NEW o \in Tasks,
           NEW a \in Accounts, Acct(o) = a,
           task[o].at \notin UnderLock, UNCHANGED <<vars, recordVars>>,
           \A p \in Tasks : p # o => task'[p] = task[p],
           loginLock'[a] = loginLock[a]
    PROVE  AccountInv(a)'
<1>1. Kept(a)
    BY DEF Kept, vars, Unused, Holding
<1>2. loginLock[a] # o
    BY DEF MInv, LockInv, LocksHeld
<1>3. acc' = acc
    BY DEF recordVars
<1> QED
    BY <1>1, <1>2, <1>3, AccountKept

\* Unlocking what one does not hold.
LEMMA NothingToUnlock ==
    ASSUME LockInv, NEW o \in Tasks, task[o].at \notin UnderLock, Unlock(o)
    PROVE  \A a \in Accounts : loginLock'[a] = loginLock[a]
BY DEF LockInv, LockTypes, LocksHeld, Unlock

\* Before a call has login_lock, and when it gets it in vain.
LEMMA AccountWaits ==
    ASSUME IInv, MInv, NEW o \in Tasks,
           NEW a \in Accounts, Acct(o) = a,
           \A p \in Tasks : p # o => task'[p] = task[p],
           \/ TakeLock(o) \/ AlreadyStarted(o) \/ StopIdle(o)
           \/ RecheckSkips(o) \/ NotRunning(o) \/ Cooldown(o)
           \/ (Recheck(o) /\ ~StillWanted(o))
    PROVE  AccountInv(a)'
<1> USE DEF MInv
<1>1. task[o].at \in {"lock", "login"}
    BY DEF TakeLock, AlreadyStarted, StopIdle, RecheckSkips, NotRunning,
       Cooldown, Recheck, EntersInVain, Doing
<1>2. task[o].at \notin UnderLock
    BY <1>1 DEF UnderLock
<1>3. loginLock'[a] = loginLock[a]
  <2>1. UNCHANGED loginLock \/ Unlock(o)
      BY DEF TakeLock, AlreadyStarted, StopIdle, RecheckSkips, NotRunning,
         Cooldown, Recheck, EntersInVain, Return
  <2> QED
      BY <1>2, <2>1, NothingToUnlock
<1>4. CASE \/ TakeLock(o) \/ AlreadyStarted(o) \/ StopIdle(o)
           \/ RecheckSkips(o) \/ (Recheck(o) /\ ~StillWanted(o))
  <2>1. UNCHANGED <<vars, recordVars>>
      BY <1>4 DEF TakeLock, AlreadyStarted, StopIdle, RecheckSkips, Recheck,
         recordVars
  <2> QED
      BY <1>2, <1>3, <2>1, AccountPassedBy
<1>5. CASE NotRunning(o)
  <2>1. CASE acc' = acc
    <3>1. UNCHANGED <<vars, recordVars>>
        BY <1>5, <2>1 DEF NotRunning, recordVars
    <3> QED
        BY <1>2, <1>3, <3>1, AccountPassedBy
  <2>2. CASE acc' # acc
    <3>1. /\ ~acc[a].started /\ loginLock[a] = None /\ UNCHANGED vars
          /\ task[o].at = "login"
          /\ acc' = [acc EXCEPT ![a].pending = FALSE,
                                ![a].state = "logged_out"]
        BY <1>5, <2>2 DEF NotRunning, EntersInVain
    <3>2. Down(a) /\ drain[a] = "off"
        BY <3>1, Entering DEF Up, Running
    <3>3. acc'[a].started = acc[a].started /\ acc'[a].tabs = acc[a].tabs
        BY <3>1 DEF RecordTypes, AccountType
    <3>4. Down(a)' /\ drain'[a] = "off" /\ ~Routed(a)'
        BY <3>1, <3>2, <3>3 DEF Down, Routed, vars
    <3> QED
        BY <1>3, <3>1, <3>4, TaskNames, AccountFree
  <2> QED
      BY <2>1, <2>2
<1>6. CASE Cooldown(o)
  <2>1. /\ loginLock[a] = None /\ task[o].at = "login"
        /\ acc' = [acc EXCEPT ![a].state = "cooldown"]
        /\ Suspend(a)
      BY <1>6 DEF Cooldown, EntersInVain
  <2>2. (Up(a) \/ Down(a)) /\ drain[a] = "off"
      BY <2>1, Entering
  <2>3. acc'[a].started = acc[a].started /\ acc'[a].tabs = acc[a].tabs
      BY <2>1 DEF RecordTypes, AccountType
  <2>4. Still(a) /\ ~Routed(a)'
      BY <2>1, SuspendOwn DEF IInv, LeaseInv
  <2>5. (Up(a)' \/ Down(a)') /\ drain'[a] = "off"
      BY <2>2, <2>3, <2>4, StillUp DEF Still
  <2> QED
      BY <1>3, <2>1, <2>4, <2>5, TaskNames, AccountFree
<1> QED
    BY <1>4, <1>5, <1>6

\* A task that moves to another step, under login_lock.
LEMMA StepTaken ==
    ASSUME LockInv, NEW o \in Tasks, NEW step,
           Go(o, step) \/ Enters(o, step)
    PROVE  task'[o].acct = task[o].acct /\ task'[o].at = step
           /\ task'[o].call = task[o].call
BY DEF Go, Enters, LockInv, LockTypes, TaskType, Acct

\* A call that takes login_lock.
LEMMA AccountTaken ==
    ASSUME IInv, MInv, LockInv', NEW o \in Tasks,
           NEW a \in Accounts, Acct(o) = a,
           \/ StartAccount(o) \/ Stop(o) \/ OpenLogin(o) \/ Logout(o)
           \/ Confirm(o) \/ (Recheck(o) /\ StillWanted(o))
    PROVE  AccountInv(a)'
<1> USE DEF MInv, IInv
<1>1. PICK step \in {"launch", "draining", "opening", "confirming"} :
        Enters(o, step)
    BY DEF StartAccount, Stop, OpenLogin, Logout, Confirm, Recheck
<1>2. /\ task'[o].acct = a /\ task'[o].at = step
      /\ task'[o].call = task[o].call /\ step \in UnderLock
    BY <1>1, StepTaken DEF UnderLock, Steps, Acct
<1>3. task[o].at = "login" /\ loginLock[a] = None
    BY <1>1 DEF Enters
<1>4. (Up(a) \/ Down(a)) /\ drain[a] = "off"
    BY <1>3, Entering
<1>5. AccountInv(a) /\ LeaseInv /\ OwnTabs /\ TypeOK
    BY DEF LeaseInv
<1> SUFFICES /\ Amid(a, task[o].call, task[o].at)'
             /\ drain'[a] = "off"
             /\ Routed(a)' => acc'[a].state \in ServingStates
    BY <1>2, AccountAmid
<1>6. CASE StartAccount(o)
  <2>1. /\ ~acc[a].started /\ UNCHANGED vars
        /\ acc' = [acc EXCEPT ![a].state = "starting"]
        /\ Enters(o, "launch")
      BY <1>6 DEF StartAccount, MayStart
  <2>2. Down(a) /\ task'[o].at = "launch"
      BY <1>4, <2>1, StepTaken DEF Up, Running
  <2>3. acc'[a].started = acc[a].started /\ acc'[a].tabs = acc[a].tabs
      BY <2>1 DEF RecordTypes, AccountType
  <2>4. Down(a)' /\ ~Routed(a)' /\ drain'[a] = "off"
      BY <1>4, <2>1, <2>2, <2>3 DEF Down, Routed, vars
  <2> QED
      BY <2>2, <2>4 DEF Amid
<1>7. ASSUME NEW p \in BOOLEAN, acc' = [acc EXCEPT ![a].pending = p]
      PROVE  /\ acc'[a].started = acc[a].started
             /\ acc'[a].tabs = acc[a].tabs /\ acc'[a].state = acc[a].state
    BY <1>7 DEF RecordTypes, AccountType
<1>8. CASE Stop(o)
  <2>1. /\ acc[a].started /\ RetireOp(a)
        /\ acc' = [acc EXCEPT ![a].pending = FALSE]
        /\ task[o].call = "stop"
        /\ Enters(o, "draining")
      BY <1>8 DEF Stop, Doing
  <2>2. Running(a) /\ task'[o].at = "draining"
      BY <1>4, <2>1, StepTaken DEF Up, Down
  <2>3. /\ slot'[a].workers = slot[a].workers /\ ~slot'[a].schedulable
        /\ a \in slots' /\ slot'[a].workers \subseteq retired'
      BY <1>5, <2>1 DEF RetireOp, TypeOK, SlotType
  <2>4. Running(a)' /\ OffScan(a)'
      BY <1>7, <2>1, <2>2, <2>3 DEF Running, OffScan
  <2>5. drain'[a] = "off"
      BY <1>4, <1>5, <2>1, WakeKeepsOff DEF RetireOp, NotifyAll
  <2> QED
      BY <1>2, <2>1, <2>2, <2>3, <2>4, <2>5 DEF Amid, Routed
<1>9. CASE OpenLogin(o) \/ Logout(o)
  <2>1. /\ acc[a].started /\ Suspend(a)
        /\ \/ Enters(o, "opening")
           \/ Enters(o, "draining") /\ task[o].call = "logout"
      BY <1>9 DEF OpenLogin, Logout
  <2>2. PICK p \in BOOLEAN : acc' = [acc EXCEPT ![a].pending = p]
      BY <1>9 DEF OpenLogin, Logout
  <2>3. Up(a) /\ a \in slots
      BY <1>4, <1>5, <2>1, TabsNeedSlot DEF Down, Up, Running
  <2>4. Still(a) /\ ~Routed(a)' /\ OffScan(a)'
      BY <1>5, <2>1, <2>3, SuspendOwn
  <2>5. Up(a)'
      BY <1>7, <2>2, <2>3, <2>4, StillUp
  <2>6. drain'[a] = "off"
      BY <1>4, <2>4 DEF Still
  <2>7. \/ task'[o].at = "opening"
        \/ task'[o].at = "draining" /\ task'[o].call = "logout"
      BY <1>2, <2>1, StepTaken
  <2> QED
      BY <2>4, <2>5, <2>6, <2>7 DEF Amid, Up
<1>10. CASE Confirm(o) \/ (Recheck(o) /\ StillWanted(o))
  <2>1. /\ acc[a].started /\ UNCHANGED vars
        /\ acc' = [acc EXCEPT ![a].pending = TRUE]
        /\ Enters(o, "confirming")
      BY <1>10 DEF Confirm, Recheck, StillWanted
  <2>2. Up(a) /\ task'[o].at = "confirming"
      BY <1>4, <2>1, StepTaken DEF Down
  <2>3. Up(a)' /\ drain'[a] = "off"
      BY <1>4, <1>7, <2>1, <2>2 DEF Up, Running, vars
  <2>4. Routed(a)' => acc'[a].state \in ServingStates
      BY <1>5, <1>7, <2>1 DEF AccountInv, Routed, vars
  <2> QED
      BY <2>2, <2>3, <2>4 DEF Amid
<1> QED
    BY <1>6, <1>8, <1>9, <1>10

\* A start: the tabs are opened, then the account is registered, then its
\* routing is decided.
LEMMA AccountStarts ==
    ASSUME IInv, MInv, LockInv', NEW o \in Tasks,
           NEW a \in Accounts, Acct(o) = a,
           Launch(o) \/ Started(o) \/ StartApplies(o)
    PROVE  AccountInv(a)'
<1> USE DEF MInv, IInv
<1>1. PICK step \in {"check", "registered", "applied"} :
        /\ Go(o, step)
        /\ step = "check" => task[o].at = "launch"
        /\ step = "registered" => task[o].at = "check"
        /\ step = "applied" => task[o].at = "registered"
    BY DEF Launch, Started, StartApplies
<1>2. /\ task'[o].acct = a /\ task'[o].at = step
      /\ task'[o].call = task[o].call /\ step \in UnderLock
    BY <1>1, StepTaken DEF UnderLock, Steps, Acct
<1>3. Amid(a, task[o].call, task[o].at) /\ drain[a] = "off"
    BY <1>1, LockHolder DEF UnderLock, Steps
<1>4. AccountInv(a) /\ LeaseInv /\ OwnTabs /\ TypeOK
    BY DEF LeaseInv
<1> SUFFICES /\ Amid(a, task[o].call, task[o].at)'
             /\ drain'[a] = "off"
             /\ slot'[a].workers = {}
    BY <1>2, AccountAmid DEF Routed
<1>5. CASE Launch(o)
  <2>1. PICK T \in SUBSET {t \in Tabs : AccountOf[t] = a /\ Unused(t)} :
          T # {} /\ IsFiniteSet(T) /\ acc' = [acc EXCEPT ![a].tabs = T]
      BY <1>5 DEF Launch
  <2>2. UNCHANGED vars /\ Go(o, "check") /\ task[o].at = "launch"
      BY <1>5 DEF Launch
  <2>3. task'[o].at = "check"
      BY <2>2, StepTaken
  <2>4. Down(a)
      BY <1>3, <2>2 DEF Amid
  <2>5. acc'[a].tabs = T /\ acc'[a].started = FALSE
      BY <2>1, <2>4 DEF Down, RecordTypes, AccountType
  <2>6. \A t : Unused(t) => Unused(t)'
      BY <2>2 DEF vars, Unused, Holding
  <2>7. Opened(a)' /\ slot'[a].workers = {} /\ drain'[a] = "off"
      BY <1>3, <2>1, <2>2, <2>4, <2>5, <2>6 DEF Opened, Down, vars
  <2> QED
      BY <2>3, <2>5, <2>7 DEF Amid
<1>6. CASE Started(o)
  <2>1. /\ acc' = [acc EXCEPT ![a].started = TRUE, ![a].pending = TRUE]
        /\ RegisterOp(a, cfg[a].order, cfg[a].provider)
        /\ Go(o, "registered") /\ task[o].at = "check"
      BY <1>6 DEF Started
  <2>2. task'[o].at = "registered"
      BY <2>1, StepTaken
  <2>3. Opened(a)
      BY <1>3, <2>1 DEF Amid
  <2>4. acc'[a].tabs = acc[a].tabs /\ acc'[a].started
      BY <2>1 DEF RecordTypes, AccountType
  <2>5. /\ a \in slots' /\ UNCHANGED <<retired, lease, probe, drain>>
        /\ \A b \in Accounts : slot'[b].workers = slot[b].workers
    <3>1. a \in slots' /\ UNCHANGED <<retired, lease, probe, drain>>
        BY <2>1 DEF RegisterOp, requestVars
    <3>2. slot[a].workers = {}
        BY <2>3 DEF Opened
    <3>3. CASE a \in slots
        BY <1>4, <2>1, <3>1, <3>3 DEF RegisterOp, TypeOK, SlotType
    <3>4. CASE a \notin slots
        BY <1>4, <2>1, <3>1, <3>2, <3>4 DEF RegisterOp, NewSlot, TypeOK
    <3> QED
        BY <3>3, <3>4
  <2>6. \A t \in Tabs : Unused(t) => Unused(t)'
      BY <2>5, PoolAssumption DEF Unused, Holding
  <2>7. acc[a].tabs \subseteq Tabs
      BY DEF RecordTypes, AccountType
  <2>8. Opened(a)'
      BY <2>3, <2>4, <2>5, <2>6, <2>7 DEF Opened
  <2> QED
      BY <1>3, <2>2, <2>4, <2>5, <2>8 DEF Amid, Opened
<1>7. CASE StartApplies(o)
  <2>1. /\ \E ok : ApplyLogin(a, ok, TRUE)
        /\ Go(o, "applied") /\ task[o].at = "registered"
      BY <1>7 DEF StartApplies
  <2>2. task'[o].at = "applied"
      BY <2>1, StepTaken
  <2>3. acc[a].started /\ Opened(a) /\ a \in slots
      BY <1>3, <2>1 DEF Amid
  <2>4. /\ Still(a)
        /\ acc'[a].started = acc[a].started /\ acc'[a].tabs = acc[a].tabs
        /\ slot'[a].schedulable => acc'[a].state \in ServingStates
      BY <1>4, <2>1, <2>3, ApplyOwn
  <2>5. Opened(a)'
      BY <2>3, <2>4, StillUp
  <2>6. a \in slots' /\ slot'[a].workers = {} /\ drain'[a] = "off"
      BY <1>3, <2>3, <2>4 DEF Still, Opened
  <2> QED
      BY <2>2, <2>3, <2>4, <2>5, <2>6 DEF Amid
<1> QED
    BY <1>5, <1>6, <1>7

\* The tabs just opened join the pool.
LEMMA AddOwn ==
    ASSUME TypeOK, NEW a \in Accounts, NEW T, T \subseteq Tabs,
           AddWorkersOp(a, T), slot[a].workers = {}, a \in slots
    PROVE  /\ slot'[a].workers = T /\ retired' = retired \ T
           /\ slot'[a].schedulable = slot[a].schedulable
           /\ drain[a] = "off" => drain'[a] = "off"
BY WakeKeepsOff DEF AddWorkersOp, NotifyAll, TypeOK, SlotType

\* An operation gives login_lock back.
LEMMA AccountReturned ==
    ASSUME LockInv, NEW o \in Tasks, NEW a \in Accounts, Unlock(o),
           loginLock[a] = o
    PROVE  loginLock'[a] \notin Tasks
BY TaskNames DEF LockInv, LockTypes, Unlock

\* A start that ends: with its tabs in the pool, or with nothing.
LEMMA AccountStartEnds ==
    ASSUME IInv, MInv, NEW o \in Tasks,
           NEW a \in Accounts, Acct(o) = a,
           TabsJoin(o) \/ StartFails(o)
    PROVE  AccountInv(a)'
<1> USE DEF MInv, IInv
<1>1. task[o].at \in {"launch", "check", "applied"} /\ Unlock(o)
    BY DEF TabsJoin, StartFails, Return
<1>2. /\ Amid(a, task[o].call, task[o].at) /\ drain[a] = "off"
      /\ loginLock[a] = o
    BY <1>1, LockHolder DEF UnderLock, Steps
<1>3. loginLock'[a] \notin Tasks
    BY <1>1, <1>2, AccountReturned
<1>4. AccountInv(a) /\ LeaseInv /\ OwnTabs /\ TypeOK
    BY DEF LeaseInv
<1>5. CASE TabsJoin(o)
  <2>1. /\ AddWorkersOp(a, acc[a].tabs) /\ acc' = acc
        /\ task[o].at = "applied"
      BY <1>5 DEF TabsJoin, recordVars
  <2>2. /\ acc[a].started /\ Opened(a) /\ a \in slots
        /\ slot[a].schedulable => acc[a].state \in ServingStates
      BY <1>2, <2>1 DEF Amid
  <2>3. acc[a].tabs \subseteq Tabs
      BY DEF RecordTypes, AccountType
  <2>4. /\ slot'[a].workers = acc[a].tabs /\ retired' = retired \ acc[a].tabs
        /\ slot'[a].schedulable = slot[a].schedulable
        /\ drain'[a] = "off"
      BY <1>2, <1>4, <2>1, <2>2, <2>3, AddOwn DEF Opened
  <2>5. Up(a)'
      BY <2>1, <2>2, <2>4 DEF Up, Running, Opened
  <2>6. Routed(a)' => acc'[a].state \in ServingStates
      BY <2>1, <2>2, <2>4 DEF Routed
  <2> QED
      BY <1>3, <2>4, <2>5, <2>6, AccountFree
<1>6. CASE StartFails(o)
  <2>1. /\ acc' = [acc EXCEPT ![a].state = "failed", ![a].tabs = {}]
        /\ UNCHANGED vars /\ task[o].at \in {"launch", "check"}
      BY <1>6 DEF StartFails
  <2>2. ~acc[a].started /\ slot[a].workers = {}
      BY <1>2, <2>1 DEF Amid, Down, Opened
  <2>3. acc'[a].started = acc[a].started /\ acc'[a].tabs = {}
      BY <2>1 DEF RecordTypes, AccountType
  <2>4. Down(a)' /\ ~Routed(a)' /\ drain'[a] = "off"
      BY <1>2, <2>1, <2>2, <2>3 DEF Down, Routed, vars
  <2> QED
      BY <1>3, <2>4, AccountFree
<1> QED
    BY <1>5, <1>6

\* A stop: the drain begins, the slot goes and an empty one comes.
LEMMA AccountStops ==
    ASSUME IInv, MInv, LockInv', NEW o \in Tasks,
           NEW a \in Accounts, Acct(o) = a,
           BeginDrain(o) \/ Close(o) \/ KeepEmptySlot(o)
    PROVE  AccountInv(a)'
<1> USE DEF MInv, IInv
<1>1. PICK step \in {"clearing", "removed", "registering"} :
        /\ Go(o, step)
        /\ step = "clearing" => task[o].at = "draining"
        /\ step = "removed" => task[o].at = "clearing"
        /\ step = "registering" => task[o].at = "removed"
    BY DEF BeginDrain, Close, KeepEmptySlot, Doing
<1>2. /\ task'[o].acct = a /\ task'[o].at = step
      /\ task'[o].call = task[o].call /\ step \in UnderLock
    BY <1>1, StepTaken DEF UnderLock, Steps, Acct
<1>3. /\ Amid(a, task[o].call, task[o].at)
      /\ task[o].at # "clearing" => drain[a] = "off"
    BY <1>1, LockHolder DEF UnderLock, Steps
<1>4. AccountInv(a) /\ LeaseInv /\ OwnTabs /\ TypeOK
    BY DEF LeaseInv
<1> SUFFICES /\ Amid(a, task[o].call, task[o].at)'
             /\ drain'[a] # "off" => task'[o].at = "clearing"
             /\ ~Routed(a)'
    BY <1>2, AccountAmid
<1>5. CASE BeginDrain(o)
  <2>1. /\ UNCHANGED <<slots, slot, retired, acc>>
        /\ Go(o, "clearing") /\ task[o].at = "draining"
      BY <1>5 DEF BeginDrain, DrainBeginOp, poolVars, recordVars
  <2>2. task'[o].at = "clearing"
      BY <2>1, StepTaken
  <2>3. /\ Running(a) /\ OffScan(a)
        /\ IF task[o].call = "stop" THEN slot[a].workers \subseteq retired
                                    ELSE slot[a].workers \cap retired = {}
      BY <1>3, <2>1 DEF Amid
  <2>4. Running(a)' /\ OffScan(a)' /\ ~Routed(a)'
      BY <2>1, <2>3 DEF Running, OffScan, Routed
  <2> QED
      BY <1>2, <2>1, <2>2, <2>3, <2>4 DEF Amid
<1>6. CASE Close(o)
  <2>1. /\ RemoveOp(a) /\ SetDrain(a, "off") /\ acc' = acc
        /\ Go(o, "removed") /\ task[o].at = "clearing"
      BY <1>6 DEF Close, Doing, recordVars
  <2>2. task'[o].at = "removed"
      BY <2>1, StepTaken
  <2>3. acc'[a].started /\ slot'[a].workers = {} /\ drain'[a] = "off"
      BY <1>3, <1>4, <2>1
      DEF Amid, Running, RemoveOp, SetDrain, NewSlot, TypeOK, SlotType
  <2> QED
      BY <2>2, <2>3 DEF Amid, Routed
<1>7. CASE KeepEmptySlot(o)
  <2>1. /\ RegisterOp(a, cfg[a].order, cfg[a].provider) /\ acc' = acc
        /\ Go(o, "registering") /\ task[o].at = "removed"
      BY <1>7 DEF KeepEmptySlot, recordVars
  <2>2. task'[o].at = "registering"
      BY <2>1, StepTaken
  <2>3. acc[a].started /\ slot[a].workers = {}
      BY <1>3, <2>1 DEF Amid
  <2>4. slot'[a].workers = {} /\ a \in slots' /\ drain' = drain
      BY <1>4, <2>1, <2>3 DEF RegisterOp, NewSlot, TypeOK, SlotType
  <2> QED
      BY <1>3, <2>1, <2>2, <2>3, <2>4 DEF Amid, Routed
<1> QED
    BY <1>5, <1>6, <1>7

\* A stop, a login, a logout or a look at the page that ends.
LEMMA AccountEnds ==
    ASSUME IInv, MInv, NEW o \in Tasks,
           NEW a \in Accounts, Acct(o) = a,
           Stopped(o) \/ LoginOpened(o) \/ LoggedOut(o) \/ Looked(o)
    PROVE  AccountInv(a)'
<1> USE DEF MInv, IInv
<1>1. /\ task[o].at \in {"registering", "opening", "clearing", "confirming"}
      /\ Unlock(o)
    BY DEF Stopped, LoginOpened, LoggedOut, Looked, Doing, Return
<1>2. /\ Amid(a, task[o].call, task[o].at) /\ loginLock[a] = o
      /\ task[o].at # "clearing" => drain[a] = "off"
    BY <1>1, LockHolder DEF UnderLock, Steps
<1>3. loginLock'[a] \notin Tasks
    BY <1>1, <1>2, AccountReturned
<1>4. AccountInv(a) /\ LeaseInv /\ OwnTabs /\ TypeOK
    BY DEF LeaseInv
<1>5. CASE Stopped(o)
  <2>1. /\ Suspend(a) /\ task[o].at = "registering"
        /\ acc' = [acc EXCEPT ![a].started = FALSE, ![a].tabs = {},
                              ![a].state = "disabled"]
      BY <1>5 DEF Stopped
  <2>2. slot[a].workers = {}
      BY <1>2, <2>1 DEF Amid
  <2>3. acc'[a].started = FALSE /\ acc'[a].tabs = {}
      BY <2>1 DEF RecordTypes, AccountType
  <2>4. Still(a) /\ ~Routed(a)'
      BY <1>4, <2>1, SuspendOwn
  <2>5. Down(a)' /\ drain'[a] = "off"
      BY <1>2, <2>1, <2>2, <2>3, <2>4 DEF Down, Still
  <2> QED
      BY <1>3, <2>4, <2>5, AccountFree
<1>6. ASSUME NEW ok, NEW b, ApplyLogin(a, ok, b), Up(a), drain[a] = "off"
      PROVE  AccountInv(a)'
  <2>1. /\ Still(a)
        /\ acc'[a].started = acc[a].started /\ acc'[a].tabs = acc[a].tabs
        /\ Routed(a)' => acc'[a].state \in ServingStates
      BY <1>4, <1>6, ApplyOwn
  <2>2. Up(a)' /\ drain'[a] = "off"
      BY <1>6, <2>1, StillUp DEF Still
  <2> QED
      BY <1>3, <2>1, <2>2, AccountFree
<1>7. CASE LoginOpened(o)
  <2>1. Up(a) /\ OffScan(a) /\ drain[a] = "off"
      BY <1>2, <1>7 DEF LoginOpened, Amid
  <2>2. CASE acc' = [acc EXCEPT ![a].state = "logged_out"] /\ UNCHANGED vars
    <3>1. acc'[a].started = acc[a].started /\ acc'[a].tabs = acc[a].tabs
        BY <2>2 DEF RecordTypes, AccountType
    <3>2. Up(a)' /\ ~Routed(a)' /\ drain'[a] = "off"
        BY <2>1, <2>2, <3>1 DEF Up, Running, Routed, OffScan, vars
    <3> QED
        BY <1>3, <3>2, AccountFree
  <2>3. CASE ApplyLogin(a, TRUE, acc[a].pending)
      BY <1>6, <2>1, <2>3
  <2> QED
      BY <1>7, <2>2, <2>3 DEF LoginOpened
<1>8. CASE LoggedOut(o)
  <2>1. /\ task[o].call = "logout" /\ task[o].at = "clearing"
        /\ DrainEnd(a) /\ acc' = [acc EXCEPT ![a].state = "logged_out"]
      BY <1>8 DEF LoggedOut, Doing
  <2>2. Up(a) /\ OffScan(a)
      BY <1>2, <2>1 DEF Amid, Up
  <2>3. acc'[a].started = acc[a].started /\ acc'[a].tabs = acc[a].tabs
      BY <2>1 DEF RecordTypes, AccountType
  <2>4. UNCHANGED <<slots, slot, retired>> /\ drain'[a] = "off"
      BY <1>4, <2>1 DEF DrainEnd, SetDrain, poolVars, TypeOK
  <2>5. Up(a)' /\ ~Routed(a)'
      BY <2>2, <2>3, <2>4 DEF Up, Running, Routed, OffScan
  <2> QED
      BY <1>3, <2>4, <2>5, AccountFree
<1>9. CASE Looked(o)
  <2>1. Up(a) /\ drain[a] = "off"
      BY <1>2, <1>9 DEF Looked, Amid
  <2>2. CASE UNCHANGED <<vars, acc>>
    <3>1. Up(a)' /\ drain'[a] = "off"
        BY <2>1, <2>2 DEF Up, Running, vars
    <3>2. Routed(a)' => acc'[a].state \in ServingStates
        BY <1>4, <2>2 DEF AccountInv, Routed, vars
    <3> QED
        BY <1>3, <3>1, <3>2, AccountFree
  <2>3. ASSUME NEW ok, ApplyLogin(a, ok, acc[a].pending)
        PROVE  AccountInv(a)'
      BY <1>6, <2>1, <2>3
  <2> QED
      BY <1>9, <2>2, <2>3 DEF Looked
<1> QED
    BY <1>5, <1>7, <1>8, <1>9

-----------------------------------------------------------------------------
(* The composition *)

\* A task keeps the invariant of every account.
LEMMA AccountsTask ==
    ASSUME IInv, MInv, LockInv', NEW o \in Tasks, TaskStep(o),
           NEW b \in Accounts
    PROVE  AccountInv(b)'
<1>1. /\ Acct(o) \in Accounts
      /\ \A p \in Tasks : p # o => task'[p] = task[p]
      /\ b # Acct(o) => acc'[b] = acc[b] /\ loginLock'[b] = loginLock[b]
    BY TaskTouchesOwn DEF MInv
<1>2. CASE b = Acct(o)
    BY <1>1, <1>2, AccountWaits, AccountTaken, AccountStarts,
       AccountStartEnds, AccountStops, AccountEnds
    DEF TaskStep, EnterLogin, Continue
<1>3. CASE b # Acct(o)
  <2>1. Kept(b)
    <3>1. CASE UNCHANGED vars
        BY <3>1 DEF Kept, vars, Unused, Holding
    <3>2. CASE \/ ControlStep(Acct(o)) \/ DrainBegin(Acct(o))
               \/ DrainEnd(Acct(o))
        BY <1>1, <1>3, <3>2, KeptByControl
    <3> QED
        BY <3>1, <3>2, TaskIsControl
  <2>2. loginLock[b] # o
      BY <1>3 DEF MInv, LockInv, LocksHeld
  <2> QED
      BY <1>1, <1>3, <2>1, <2>2, AccountKept
<1> QED
    BY <1>2, <1>3

\* A step of a request does too: mark_failed takes the account off the scan.
LEMMA AccountsRequest ==
    ASSUME IInv, MInv, NEW r \in Requests, RequestAction(r),
           NEW b \in Accounts
    PROVE  AccountInv(b)'
<1> USE DEF MInv, IInv
<1>1. TypeOK /\ OwnTabs
    BY DEF LeaseInv
<1>2. CASE MarkFailed(r)
  <2> DEFINE a0 == AccountOf[lease[r]]
  <2>1. PICK a \in Accounts :
          /\ a = a0 /\ loginLock[a] = None
          /\ loginLock' = [loginLock EXCEPT ![a] = r]
          /\ acc' = [acc EXCEPT ![a].pending = FALSE, ![a].state = "failed"]
          /\ Suspend(a) /\ task' = task
      BY <1>1, <1>2, PoolAssumption
      DEF MarkFailed, LeaseWhileServed, Served, TypeOK
  <2>2. Kept(b) /\ (b = a => Still(a) /\ ~Routed(a)')
      BY <1>1, <2>1, SuspendOwn
  <2>3. CASE b = a
    <3>1. (Up(a) \/ Down(a)) /\ drain[a] = "off"
        BY <2>1, TaskNames, Unheld
    <3>2. acc'[a].started = acc[a].started /\ acc'[a].tabs = acc[a].tabs
        BY <2>1 DEF RecordTypes, AccountType
    <3>3. (Up(a)' \/ Down(a)') /\ drain'[a] = "off"
        BY <2>2, <2>3, <3>1, <3>2, StillUp DEF Still
    <3>4. loginLock'[a] \notin Tasks
        BY <2>1, TaskNames DEF LockInv, LockTypes
    <3> QED
        BY <2>2, <2>3, <3>3, <3>4, AccountFree
  <2>4. CASE b # a
    <3>1. acc'[b] = acc[b] /\ loginLock'[b] = loginLock[b]
        BY <2>1, <2>4 DEF RecordTypes, LockInv, LockTypes
    <3> QED
        BY <2>1, <2>2, <3>1, AccountKept
  <2> QED
      BY <2>3, <2>4
<1>3. CASE ~MarkFailed(r)
  <2>1. Kept(b)
    <3>1. CASE UNCHANGED vars
        BY <3>1 DEF Kept, vars, Unused, Holding
    <3> QED
        BY <1>3, <3>1, RequestIsRequest, KeptByRequest
  <2>2. acc' = acc /\ task' = task
      BY <1>3
      DEF RequestAction, Use, Limit, ReachCap, HandlerReturns, managerVars,
          recordVars
  <2>3. /\ loginLock[b] \notin Tasks => loginLock'[b] \notin Tasks
        /\ loginLock[b] \in Tasks => loginLock'[b] = loginLock[b]
    <3>1. CASE UNCHANGED loginLock
        BY <3>1
    <3>2. CASE HandlerReturns(r)
        BY <3>2, TaskNames DEF HandlerReturns, LockInv, LockTypes
    <3> QED
        BY <1>3, <3>1, <3>2
        DEF RequestAction, Use, Limit, ReachCap, managerVars, lockVars
  <2> QED
      BY <2>1, <2>2, <2>3, AccountKept
<1> QED
    BY <1>2, <1>3

\* So do the monitor, the operators' calls, PATCH, the world and the drains.
LEMMA AccountsOthers ==
    ASSUME IInv, MInv, NEW b \in Accounts,
           \/ \E a \in Accounts :
                MonitorStep(a) \/ Patch(a) \/ World(a) \/ Drains(a)
           \/ \E o \in Operators, c \in AdminCalls, a \in Accounts :
                Call(o, c, a)
           \/ UNCHANGED mvars
    PROVE  AccountInv(b)'
<1> USE DEF MInv, IInv
<1>1. TypeOK
    OBVIOUS
<1>2. UNCHANGED lockVars
    BY DEF MonitorStep, Tick, Begin, Near, Promote, Demote, Patch, World,
       Drains, Call, mvars, managerVars
<1>3. \A o \in Tasks : loginLock[b] = o => task'[o] = task[o]
  <2>1. \A o \in Tasks : loginLock[b] = o => task[o] # Idle
      BY DEF LockInv, LocksHeld, UnderLock, Idle
  <2>2. \/ task' = task
        \/ \E o \in Tasks : /\ task[o] = Idle
                            /\ \A p \in Tasks : p # o => task'[p] = task[p]
      BY TaskNames DEF MonitorStep, Tick, Begin, Near, Promote, Demote, Patch,
         World, Drains, Call, mvars, managerVars, LockInv, LockTypes
  <2> QED
      BY <2>1, <2>2
<1>4. /\ acc'[b].started = acc[b].started /\ acc'[b].tabs = acc[b].tabs
      /\ acc'[b].state = acc[b].state \/ acc'[b].state \in ServingStates
  <2>1. \/ acc' = acc
        \/ \E a \in Accounts :
             \/ acc' = [acc EXCEPT ![a].state = "nearing"]
             \/ acc' = [acc EXCEPT ![a].state = "active"]
             \/ acc' = [acc EXCEPT ![a].promoted = TRUE]
             \/ acc' = [acc EXCEPT ![a].promoted = FALSE]
      BY DEF MonitorStep, Tick, Begin, Near, Promote, Demote, Patch, World,
         Drains, Call, mvars, managerVars, recordVars
  <2> QED
      BY <2>1 DEF RecordTypes, AccountType, ServingStates
<1>5. Kept(b)
  <2>1. CASE UNCHANGED vars
      BY <2>1 DEF Kept, vars, Unused, Holding
  <2>2. ASSUME NEW a \in Accounts, SetOrder(a) PROVE Kept(b)
    <3>1. /\ UNCHANGED <<slots, retired, lease, probe, drain>>
          /\ \A c \in Accounts : /\ slot'[c].workers = slot[c].workers
                                 /\ slot'[c].schedulable = slot[c].schedulable
        BY <1>1, <2>2 DEF SetOrder, requestVars, TypeOK, SlotType
    <3> QED
        BY <3>1, KeptQuiet DEF Holding
  <2>3. ASSUME NEW a \in Accounts, DrainScan(a) \/ DrainTimeOut(a)
        PROVE  Kept(b)
    <3>1. /\ UNCHANGED <<slots, slot, retired, lease, probe>>
          /\ drain'[b] # "off" => drain[b] # "off"
        BY <1>1, <2>3 DEF DrainScan, DrainTimeOut, SetDrain, poolVars,
           requestVars, TypeOK
    <3> QED
        BY <3>1, KeptQuiet DEF Holding
  <2>4. \/ UNCHANGED vars
        \/ \E a \in Accounts : SetOrder(a) \/ DrainScan(a) \/ DrainTimeOut(a)
      BY PatchIsSetOrder
      DEF MonitorStep, Tick, Begin, Near, Promote, Demote, World, Drains,
          Call, mvars
  <2> QED
      BY <2>1, <2>2, <2>3, <2>4
<1> QED
    BY <1>2, <1>3, <1>4, <1>5, AccountKept DEF lockVars

\* The invariant of the composition: the pool's, the locks', and that of
\* every account.
ManagerInv == IInv /\ MInv

\* It is inductive, and every step keeps the contract of the pool.
LEMMA ManagerNext ==
    ManagerInv /\ [MNext]_mvars => ManagerInv' /\ [Next]_vars
<1> SUFFICES ASSUME ManagerInv, [MNext]_mvars
             PROVE  ManagerInv' /\ [Next]_vars
    OBVIOUS
<1>1. IInv /\ MInv /\ TypeOK /\ LeaseWhileServed
    BY DEF ManagerInv, IInv
<1>2. RecordTypes' /\ LockInv'
    BY <1>1, RecordsNext, LocksNext DEF MInv
<1>3. [Next]_vars
    BY <1>1, StepIsPoolStep
<1>4. IInv'
    BY <1>1, <1>3, LeaseNext
<1>5. \A b \in Accounts : AccountInv(b)'
    BY <1>1, <1>2, AccountsTask, AccountsRequest, AccountsOthers DEF MNext
<1> QED
    BY <1>2, <1>3, <1>4, <1>5 DEF ManagerInv, MInv

\* Both starts: with nothing up, and with one tab of each account up.
TabForEach == \A a \in Accounts : \E t \in Tabs : AccountOf[t] = a

FromEitherStart == MSpec \/ (TabForEach /\ MRunSpec)

\* A pool in which nobody has anything yet.
LEMMA QuietPool ==
    ASSUME Quiet, slots = Accounts, slot \in [Accounts -> SlotType],
           \A a \in Accounts :
             /\ \A t \in slot[a].workers : AccountOf[t] = a
             /\ \A i, j \in 1 .. Len(slot[a].idle) :
                  /\ slot[a].idle[i] \in slot[a].workers
                  /\ i # j => slot[a].idle[i] # slot[a].idle[j]
    PROVE  IInv
<1>1. TypeOK
    BY DEF Quiet, TypeOK, Stages, Outcomes, DrainStages
<1>2. \A t \in Tabs : ~Holding(t)
    BY PoolAssumption DEF Quiet, Holding
<1>3. IdleInService
  <2> SUFFICES ASSUME NEW a \in Accounts, NEW i \in 1 .. Len(slot[a].idle)
               PROVE  /\ slot[a].idle[i] \in slot[a].workers \ retired
                      /\ AccountOf[slot[a].idle[i]] = a
                      /\ ~Holding(slot[a].idle[i])
      BY DEF IdleInService
  <2>1. slot[a].idle[i] \in slot[a].workers /\ slot[a].workers \subseteq Tabs
      BY DEF SlotType
  <2> QED
      BY <1>2, <2>1 DEF Quiet
<1>4. OneHolder /\ LeaseWhileServed /\ OwnTabs
    BY DEF Quiet, OneHolder, LeaseWhileServed, Served, OwnTabs
<1> QED
    BY <1>1, <1>3, <1>4 DEF IInv, LeaseInv

\* No lock is taken when no call has been made.
LEMMA NoTaskYet == NewTasks => LockInv /\ over \in [Accounts -> BOOLEAN]
BY TaskNames
DEF NewTasks, LockInv, LockTypes, LocksHeld, TaskShape, TaskType, Idle, Steps,
    UnderLock, Acct

\* load_accounts establishes the invariant.
LEMMA ManagerInit == MInit => ManagerInv
<1> SUFFICES ASSUME MInit PROVE ManagerInv
    OBVIOUS
<1>1. \A a \in Accounts : slot[a].workers = {} /\ slot[a].idle = <<>>
    BY DEF MInit, NewSlot
<1>2. slot \in [Accounts -> SlotType]
    BY NewSlotType, PoolAssumption DEF MInit
<1>3. IInv
    BY <1>1, <1>2, QuietPool DEF MInit
<1>4. LockInv /\ over \in [Accounts -> BOOLEAN]
    BY NoTaskYet DEF MInit
<1>5. RecordTypes
    BY <1>4, PoolAssumption DEF MInit, RecordTypes, AccountType, States
<1>6. \A a \in Accounts : Down(a) /\ ~Routed(a) /\ drain[a] = "off"
    BY <1>1 DEF MInit, Quiet, Down, Routed
<1>7. \A a \in Accounts : loginLock[a] = None
    BY DEF MInit, NewTasks
<1> QED
    BY <1>3, <1>4, <1>5, <1>6, <1>7, TaskNames
    DEF ManagerInv, MInv, AccountInv

\* A startup that has brought up every account has put one idle tab of each
\* into the pool.
LEMMA RunningSlots ==
    ASSUME TabForEach, MRunning
    PROVE  /\ slot \in [Accounts -> SlotType]
           /\ \A a \in Accounts :
                /\ FirstTab(a) \in Tabs /\ AccountOf[FirstTab(a)] = a
                /\ slot[a].workers = {FirstTab(a)}
                /\ slot[a].idle = <<FirstTab(a)>>
                /\ slot[a].checkedOut = 0
<1>1. ASSUME NEW a \in Accounts
      PROVE  FirstTab(a) \in Tabs /\ AccountOf[FirstTab(a)] = a
    BY DEF TabForEach, FirstTab
<1>2. \A a \in Accounts :
        slot[a] = [order |-> DefaultOrder, provider |-> DefaultProvider,
                   schedulable |-> TRUE, workers |-> {FirstTab(a)},
                   idle |-> <<FirstTab(a)>>, checkedOut |-> 0]
    BY DEF MRunning, NewSlot
<1>3. slot \in [Accounts -> SlotType]
  <2>1. \A a \in Accounts : {FirstTab(a)} \subseteq Tabs
                            /\ <<FirstTab(a)>> \in Seq(Tabs)
      BY <1>1
  <2>2. DefaultOrder \in Nat /\ DefaultProvider \in Providers
      BY PoolAssumption
  <2>3. ASSUME NEW a \in Accounts PROVE slot[a] \in SlotType
    <3>1. PICK T \in SUBSET Tabs, q \in Seq(Tabs) :
            slot[a] = [order |-> DefaultOrder, provider |-> DefaultProvider,
                       schedulable |-> TRUE, workers |-> T, idle |-> q,
                       checkedOut |-> 0]
        BY <1>2, <2>1
    <3> QED
        BY <2>2, <3>1 DEF SlotType
  <2> QED
      BY <2>3 DEF MRunning
<1>4. \A a \in Accounts :
        /\ slot[a].workers = {FirstTab(a)}
        /\ slot[a].idle = <<FirstTab(a)>>
        /\ slot[a].checkedOut = 0
  <2> SUFFICES ASSUME NEW a \in Accounts
               PROVE  /\ slot[a].workers = {FirstTab(a)}
                      /\ slot[a].idle = <<FirstTab(a)>>
                      /\ slot[a].checkedOut = 0
      OBVIOUS
  <2> DEFINE T == {FirstTab(a)}
             q == <<FirstTab(a)>>
  <2>1. slot[a] = [order |-> DefaultOrder, provider |-> DefaultProvider,
                   schedulable |-> TRUE, workers |-> T, idle |-> q,
                   checkedOut |-> 0]
      BY <1>2
  <2> HIDE DEF T, q
  <2>2. slot[a].workers = T /\ slot[a].idle = q /\ slot[a].checkedOut = 0
      BY <2>1
  <2> QED
      BY <2>2 DEF T, q
<1> QED
    BY <1>1, <1>3, <1>4

\* That establishes the invariant too.
LEMMA RunningInit == TabForEach /\ MRunning => ManagerInv
<1> SUFFICES ASSUME TabForEach, MRunning PROVE ManagerInv
    OBVIOUS
<1>1. /\ slot \in [Accounts -> SlotType]
      /\ \A a \in Accounts :
           /\ FirstTab(a) \in Tabs /\ AccountOf[FirstTab(a)] = a
           /\ slot[a].workers = {FirstTab(a)}
           /\ slot[a].idle = <<FirstTab(a)>>
    BY RunningSlots
<1>2. IInv
  <2>1. \A a \in Accounts :
          /\ \A t \in slot[a].workers : AccountOf[t] = a
          /\ \A i, j \in 1 .. Len(slot[a].idle) :
               /\ slot[a].idle[i] \in slot[a].workers
               /\ i # j => slot[a].idle[i] # slot[a].idle[j]
      BY <1>1
  <2> QED
      BY <1>1, <2>1, QuietPool DEF MRunning
<1>3. LockInv /\ over \in [Accounts -> BOOLEAN]
    BY NoTaskYet DEF MRunning
<1>4. RecordTypes
  <2>1. \A a \in Accounts : {FirstTab(a)} \in SUBSET Tabs
      BY <1>1
  <2> QED
      BY <1>3, <2>1, PoolAssumption
      DEF MRunning, RecordTypes, AccountType, States
<1>5. \A a \in Accounts :
        /\ Up(a) /\ drain[a] = "off"
        /\ acc[a].state \in ServingStates /\ loginLock[a] = None
    BY <1>1
    DEF MRunning, Quiet, Up, Running, ServingStates, NewTasks
<1> QED
    BY <1>2, <1>3, <1>4, <1>5, TaskNames DEF ManagerInv, MInv, AccountInv

\* In every reachable state the pool, the locks and the accounts are in order.
THEOREM ManagerSafety == FromEitherStart => []ManagerInv
BY ManagerInit, RunningInit, ManagerNext, PTL
DEF FromEitherStart, MSpec, MRunSpec

\* The manager, the monitor and the failure handler only ever call the pool
\* within the contract that the results about WorkerPool assume.
THEOREM ContractKept == FromEitherStart => KeepsPoolContract
<1>1. FromEitherStart => [][MNext]_mvars
    BY DEF FromEitherStart, MSpec, MRunSpec
<1> QED
    BY <1>1, ManagerSafety, ManagerNext, PTL DEF KeepsPoolContract

\* So the leases of the pool stay exclusive under every admin call, failure
\* and tick of the monitor, and what is idle is live and free.
THEOREM LeasesStaySafe == FromEitherStart => [](OneHolder /\ IdleInService)
<1>1. ManagerInv => OneHolder /\ IdleInService
    BY DEF ManagerInv, IInv, LeaseInv
<1> QED
    BY <1>1, ManagerSafety, PTL

\* Lifecycle operations on an account exclude each other, and between them
\* the account and its slot agree.
THEOREM OperationsExclude == FromEitherStart => []LifecycleExclusive
<1>1. ASSUME ManagerInv PROVE LifecycleExclusive
  <2>1. LockInv /\ \A a \in Accounts : AccountInv(a)
      BY <1>1 DEF ManagerInv, MInv
  <2>2. lock \in Tasks => task[lock].call \in {"start", "stop", "openLogin"}
      BY <2>1 DEF LockInv, LocksHeld, TaskShape, Exclusive
  <2>3. \A a \in Accounts : loginLock[a] = None =>
          /\ slot[a].workers = acc[a].tabs
          /\ acc[a].started <=> acc[a].tabs # {}
      BY <2>1, TaskNames DEF AccountInv, Up, Running, Down
  <2> QED
      BY <2>1, <2>2, <2>3
      DEF LifecycleExclusive, LockInv, LocksHeld, AccountInv
<1> QED
    BY <1>1, ManagerSafety, PTL

\* Whatever is routed to and not under an operation serves requests.
THEOREM RoutedServes == FromEitherStart => []RoutedMeansServing
<1>1. ASSUME ManagerInv PROVE RoutedMeansServing
    BY <1>1, TaskNames
    DEF ManagerInv, MInv, AccountInv, RoutedMeansServing, Routed, Up, Running,
        Down
<1> QED
    BY <1>1, ManagerSafety, PTL

-----------------------------------------------------------------------------
(* No lease during an operation *)

\* Only a checkout gives a request a tab: one of the pool, of an account
\* that is in the scan.
LEMMA LeaseGained ==
    ASSUME IInv, [Next]_vars, NEW r \in Requests, lease[r] = None,
           lease'[r] # None
    PROVE  \E a \in Accounts : /\ AccountOf[lease'[r]] = a
                               /\ slot[a].schedulable
                               /\ slot[a].workers # {}
<1>1. TypeOK /\ LeaseInv
    BY DEF IInv
<1>2. PICK s \in Requests : Take(s) \/ Release(s)
  <2>1. lease' # lease
      OBVIOUS
  <2> QED
      BY <2>1
      DEF Next, RequestStep, Arrive, RefusePinned, RefuseNoAccount,
          RefuseToQueue, Wait, Enter, EnterFails, Finish, Leave, LimitOffline,
          Report, Handled, TimeOut, SeeLimit, Refuse, ProbeTake, ProbeRelease,
          DrainBegin, DrainBeginOp, DrainScan, DrainTimeOut, DrainEnd,
          ControlStep, Register, RegisterOp, SetOrder, Suspend, Resume,
          ResumeOp, AddWorkers, AddWorkersOp, Retire, RetireOp, RemoveSlot,
          RemoveOp, requestVars, vars
<1>3. ~Release(s)
    BY <1>1 DEF Release, TypeOK
<1>4. PICK a \in Accounts, t \in Tabs :
        /\ Chosen(want[s], a)
        /\ Pop(want[s], a, t, 1)
        /\ lease' = [lease EXCEPT ![s] = t]
    BY <1>2, <1>3 DEF Take
<1>5. lease'[r] = t
    BY <1>1, <1>4 DEF TypeOK
<1>6. t \in slot[a].workers /\ AccountOf[t] = a
    BY <1>1, <1>4, TakenWasInPool
<1>7. slot[a].schedulable
    BY <1>4 DEF Chosen, Eligible, Routable
<1> QED
    BY <1>5, <1>6, <1>7

\* While an operation has an account off the scan, no request gets a tab of
\* it: none is served on a tab the operator is typing into.
THEOREM NobodyLetIn == FromEitherStart => NoNewLease
<1>1. ASSUME ManagerInv, [MNext]_mvars
      PROVE  \A r \in Requests, o \in Tasks :
               lease[r] = None /\ lease'[r] # None
               /\ task[o].at \in OffScanSteps
                 => AccountOf[lease'[r]] # Acct(o)
  <2> SUFFICES ASSUME NEW r \in Requests, NEW o \in Tasks,
                      lease[r] = None, lease'[r] # None,
                      task[o].at \in OffScanSteps
               PROVE  AccountOf[lease'[r]] # Acct(o)
      OBVIOUS
  <2>1. IInv /\ [Next]_vars /\ MInv
      BY <1>1, ManagerNext DEF ManagerInv
  <2>2. PICK a \in Accounts : /\ AccountOf[lease'[r]] = a
                              /\ slot[a].schedulable
                              /\ slot[a].workers # {}
      BY <2>1, LeaseGained
  <2>3. Amid(Acct(o), task[o].call, task[o].at)
      BY <2>1, LockHolder DEF OffScanSteps, UnderLock, Steps
  <2>4. \/ OffScan(Acct(o))
        \/ slot[Acct(o)].workers = {}
      BY <2>3 DEF Amid, OffScanSteps
  <2> QED
      BY <2>2, <2>4 DEF OffScan
<1>2. FromEitherStart => [][MNext]_mvars
    BY DEF FromEitherStart, MSpec, MRunSpec
<1> QED
    BY <1>1, <1>2, ManagerSafety, PTL DEF NoNewLease

-----------------------------------------------------------------------------
(* The results about the pool hold under the manager *)

\* With nobody in the pool nobody is counted and nobody sleeps.
LEMMA QuietCounts ==
    ASSUME Quiet, slots = Accounts, \A a \in slots : slot[a].checkedOut = 0
    PROVE  QueueInv /\ LeaseCount /\ NoLostWakeup /\ WaiterHasWaker
<1>1. Queued = {} /\ waiters = 0 /\ \A a \in Accounts : Leases(a) = {}
    BY DEF Quiet, Queued, Leases
<1>2. QueueInv
    BY <1>1, FS_EmptySet, PoolAssumption DEF QueueInv, QueueBound
<1>3. LeaseCount
  <2>1. \A a \in Accounts : IsFiniteSet(Leases(a)) /\ Cardinality(Leases(a)) = 0
      BY <1>1, FS_EmptySet
  <2> QED
      BY <2>1 DEF LeaseCount, NoPhantomLease
<1> QED
    BY <1>2, <1>3 DEF Quiet, NoLostWakeup, WaiterHasWaker

\* load_accounts leaves a pool without tabs, clients or waiters.
LEMMA PoolOfLoad == MInit => PoolInv /\ Leasing!Init
<1> SUFFICES ASSUME MInit PROVE PoolInv /\ Leasing!Init
    OBVIOUS
<1>1. /\ Quiet /\ slots = Accounts
      /\ \A a \in Accounts : /\ slot[a].workers = {}
                              /\ slot[a].checkedOut = 0
    BY DEF MInit, NewSlot
<1>2. IInv
    BY ManagerInit DEF ManagerInv
<1>3. NoTabLost /\ RoutedLive
    BY <1>1, <1>2 DEF NoTabLost, RoutedLive
<1>4. \A t \in Tabs : Phase(t) = "unborn" /\ Holder(t) = None
    BY <1>1, PoolAssumption DEF Quiet, Phase, Holding, Holder
<1> QED
    BY <1>1, <1>2, <1>3, <1>4, QuietCounts DEF PoolInv, WakeInv, Leasing!Init

\* A startup that has brought up every account leaves every tab idle.
LEMMA PoolOfStartup == TabForEach /\ MRunning => PoolInv
<1> SUFFICES ASSUME TabForEach, MRunning PROVE PoolInv
    OBVIOUS
<1>1. Quiet /\ retired = {} /\ slots = Accounts
    BY DEF MRunning, Quiet
<1>2. IInv
    BY RunningInit DEF ManagerInv
<1>3. \A a \in Accounts : /\ slot[a].workers \subseteq IdleTabs(a)
                           /\ slot[a].checkedOut = 0
    BY RunningSlots DEF IdleTabs
<1>4. NoTabLost /\ RoutedLive
    BY <1>1, <1>3 DEF NoTabLost, RoutedLive
<1> QED
    BY <1>1, <1>2, <1>3, <1>4, QuietCounts DEF PoolInv, WakeInv

\* The results about the pool alone hold of it under the manager, the monitor
\* and the failure handler as well: no tab in service is lost, no wakeup is,
\* every sleeper has a waker, the queue is counted and bounded, and the lease
\* counts that the drains read are of leases that exist.
THEOREM PoolUnderManager ==
    FromEitherStart => [](/\ NoTabLost /\ NoLostWakeup /\ WaiterHasWaker
                          /\ QueueBound /\ NoPhantomLease)
<1>1. MInit \/ (TabForEach /\ MRunning) => PoolInv
    BY PoolOfLoad, PoolOfStartup
<1>2. ManagerInv /\ PoolInv /\ [MNext]_mvars => PoolInv'
    BY ManagerNext, PoolNext
<1>3. PoolInv => /\ NoTabLost /\ NoLostWakeup /\ WaiterHasWaker
                 /\ QueueBound /\ NoPhantomLease
    BY DEF PoolInv, WakeInv, QueueInv, LeaseCount
<1> QED
    BY <1>1, <1>2, <1>3, ManagerSafety, PTL
    DEF FromEitherStart, MSpec, MRunSpec

\* From load_accounts on, starting, stopping and logging accounts in and out
\* is seen by a tab as TabLease says: it joins once, is granted to one client
\* at a time, and is never granted again once it has left.
THEOREM ManagerImplementsTabLease == MSpec => ImplementsTabLease
<1>1. MSpec => FromEitherStart
    BY DEF FromEitherStart
<1>2. IInv /\ IInv' /\ [Next]_vars => [Leasing!Next]_Leasing!vars
    BY MapNext, OneHolderKnown, HolderKnownNext DEF IInv, LeaseInv
<1>3. ManagerInv => IInv
    BY DEF ManagerInv
<1> QED
    BY <1>1, <1>2, <1>3, PoolOfLoad, ManagerSafety, ManagerNext, PTL
    DEF MSpec, ImplementsTabLease, Leasing!Spec
=============================================================================
