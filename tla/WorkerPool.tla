----------------------------- MODULE WorkerPool -----------------------------
(***************************************************************************)
(* MultiAccountPool and the lease protocol of _Acquired                    *)
(* (src/api/worker_pool.py).                                               *)
(*                                                                         *)
(* Every "async with self._cond" body of the pool runs without an await    *)
(* other than the condition wait itself, so each is one action here; a     *)
(* condition wait splits its body in two, and a notified waiter ("woken")  *)
(* still has to take the lock again before it goes on.                     *)
(*                                                                         *)
(* The processes are the API requests, the GET /status probes and the      *)
(* control plane.  The control plane calls the pool's composition methods  *)
(* in any order that respects the contract named in "Control plane" below; *)
(* AccountManager keeps that contract.                                     *)
(***************************************************************************)
EXTENDS Integers, Sequences, FiniteSets

CONSTANTS
    Accounts,         \* account ids; ids sort as numbers
    Tabs,             \* Worker objects; a started account gets new ones
    AccountOf,        \* Worker.account_id, fixed for a tab's life
    Providers,        \* services: chatgpt, claude, gemini, ...
    Models,           \* model ids that rotate independently
    Orders,           \* values of an account's "order"
    DefaultOrder,     \* order of a slot made by add_workers
    DefaultProvider,  \* provider of a slot made by add_workers
    Requests,         \* API requests, each of which acquires once
    Probes,           \* GET /status calls
    Wants,            \* the acquire() arguments that requests use
    MaxWaiters,       \* max_waiters: length of the bounded wait queue
    MayForceClose,    \* a slot may be removed after its drain timed out
    None              \* no account, provider, model or tab

ASSUME PoolAssumption ==
    /\ Accounts \subseteq Nat
    /\ AccountOf \in [Tabs -> Accounts]
    /\ Orders \subseteq Nat /\ DefaultOrder \in Orders
    /\ DefaultProvider \in Providers
    /\ Wants \subseteq [pinned : Accounts \cup {None}, provider : Providers,
                        model : Models, excluded : SUBSET Accounts]
    /\ Requests \cap Probes = {}
    /\ MaxWaiters \in Nat
    /\ MayForceClose \in BOOLEAN
    /\ None \notin Accounts /\ None \notin Tabs
    /\ None \notin Providers /\ None \notin Models
    /\ None \notin Requests /\ None \notin Probes

VARIABLES
    slots,       \* accounts that have a slot
    slot,        \* slot[a]: the _AccountSlot of account a
    retired,     \* tabs whose Worker.retired is set
    cursor,      \* _next_account, by <<provider, model>>
    waiters,     \* _waiters
    pc,          \* where each request stands
    want,        \* its acquire() arguments, while they matter
    lease,       \* the tab it holds, or None
    limited,     \* its worker.limit_hit
    outcome,     \* how its acquire() block ends: see Outcomes
    probe,       \* the tab each probe holds, or None
    drain        \* wait_drained, by account

poolVars == <<slots, slot, retired, cursor>>
requestVars == <<pc, want, lease, limited, outcome>>
vars == <<slots, slot, retired, cursor, waiters, pc, want, lease, limited,
          outcome, probe, drain>>

-----------------------------------------------------------------------------
(* Types *)

SlotType == [order : Nat, provider : Providers, schedulable : BOOLEAN,
             workers : SUBSET Tabs, idle : Seq(Tabs), checkedOut : Nat]

\* A fresh _AccountSlot: schedulable, without tabs.
NewSlot(o, p) == [order |-> o, provider |-> p, schedulable |-> TRUE,
                  workers |-> {}, idle |-> <<>>, checkedOut |-> 0]

Keys == (Providers \cup {None}) \X (Models \cup {None})

Stages == {"new", "scan", "waiting", "woken", "entering", "running",
           "limiting", "reporting", "handling", "releasing", "done"}

\* "answered" stands for a reply and for an error not worth a retry,
\* "retryable" for an error that is, "busy" for BrowserBusy and
\* "unavailable" for AccountUnavailable.
Outcomes == {"none", "answered", "retryable", "busy", "unavailable"}

DrainStages == {"off", "waiting", "woken", "drained", "gaveUp"}

NoWant == [pinned |-> None, provider |-> None, model |-> None, excluded |-> {}]

TypeOK ==
    /\ slots \subseteq Accounts
    /\ slot \in [Accounts -> SlotType]
    /\ retired \subseteq Tabs
    /\ cursor \in [Keys -> Accounts \cup {None}]
    /\ waiters \in Int
    /\ pc \in [Requests -> Stages]
    /\ want \in [Requests -> Wants \cup {NoWant}]
    /\ lease \in [Requests -> Tabs \cup {None}]
    /\ limited \in [Requests -> BOOLEAN]
    /\ outcome \in [Requests -> Outcomes]
    /\ probe \in [Probes -> Tabs \cup {None}]
    /\ drain \in [Accounts -> DrainStages]

\* Nothing has happened yet.
Quiet ==
    /\ retired = {}
    /\ cursor = [k \in Keys |-> None]
    /\ waiters = 0
    /\ pc = [r \in Requests |-> "new"]
    /\ want = [r \in Requests |-> NoWant]
    /\ lease = [r \in Requests |-> None]
    /\ limited = [r \in Requests |-> FALSE]
    /\ outcome = [r \in Requests |-> "none"]
    /\ probe = [p \in Probes |-> None]
    /\ drain = [a \in Accounts |-> "off"]

Init ==
    /\ slots = {}
    /\ slot = [a \in Accounts |-> NewSlot(DefaultOrder, DefaultProvider)]
    /\ Quiet

\* Every account is registered, signed in and has all its tabs idle: the
\* state after start_account of each.
OnlineSlot(a, p) ==
    LET T == {t \in Tabs : AccountOf[t] = a}
    IN  [NewSlot(DefaultOrder, p) EXCEPT
           !.workers = T,
           !.idle = CHOOSE q \in [1 .. Cardinality(T) -> T] :
                      \A i, j \in 1 .. Cardinality(T) : i # j => q[i] # q[j]]

Online ==
    /\ slots = Accounts
    /\ slot = [a \in Accounts |-> OnlineSlot(a, DefaultProvider)]
    /\ Quiet

-----------------------------------------------------------------------------
(* The routing scan: _pick_idle, _is_schedulable *)

\* Slots are scanned in the order (order, account_id).
Before(a, b) == \/ slot[a].order < slot[b].order
                \/ slot[a].order = slot[b].order /\ a < b

First(S, a) == a \in S /\ \A b \in S \ {a} : Before(a, b)

\* The slots of the provider asked for; a probe asks for none.
Scope(w) == {a \in slots : w.provider \in {None, slot[a].provider}}

\* Accounts that the scan does not skip.
Routable(w) == {a \in Scope(w) : /\ slot[a].schedulable
                                 /\ a \notin w.excluded
                                 /\ w.pinned \in {None, a}}

\* t is the tab that popping the idle stack of a yields, at position i:
\* retired tabs above it are thrown away.
TopIdle(a, i, t) ==
    LET idle == slot[a].idle
    IN  /\ i \in 1 .. Len(idle)
        /\ t = idle[i]
        /\ t \notin retired
        /\ \A j \in (i + 1) .. Len(idle) : idle[j] \in retired

Free(a) == \E i \in 1 .. Len(slot[a].idle) : slot[a].idle[i] \notin retired

Eligible(w) == {a \in Routable(w) : Free(a)}

Key(w) == <<w.provider, w.model>>

\* Where the rotation for this provider and model starts.
Start(w, s) == IF cursor[Key(w)] \in Scope(w) THEN s = cursor[Key(w)]
                                              ELSE First(Scope(w), s)

\* Counting cyclically from s, account a comes before account b.
VisitedFirst(s, a, b) ==
    LET wraps(x) == Before(x, s)
    IN  \/ ~wraps(a) /\ wraps(b)
        \/ (wraps(a) <=> wraps(b)) /\ Before(a, b)

\* The first eligible account of the rotation.
Chosen(w, a) ==
    /\ a \in Eligible(w)
    /\ \/ w.pinned # None
       \/ \E s \in Scope(w) :
            Start(w, s) /\ \A b \in Eligible(w) \ {a} : VisitedFirst(s, a, b)

\* Mutant of Successor: the rotation stays where it is.
SuccessorIsSelf(w, a, n) == n = a

\* The account scanned after a, cyclically.
Successor(w, a, n) ==
    LET later == {b \in Scope(w) : Before(a, b)}
    IN  First(IF later = {} THEN Scope(w) ELSE later, n)

\* A pinned scan leaves the rotation alone.
Advance(w, a) ==
    IF w.pinned # None
      THEN UNCHANGED cursor
      ELSE \E n \in Scope(w) : /\ Successor(w, a, n)
                               /\ cursor' = [cursor EXCEPT ![Key(w)] = n]

\* Mutant of Popped: the tab taken stays on the stack.
PoppedKeepsTop(idle, i) == SubSeq(idle, 1, i)

\* What is left of an idle stack once the tab at i is popped.
Popped(idle, i) == SubSeq(idle, 1, i - 1)

\* Pop tab t of account a.  (Skipped accounts could only lose retired tabs
\* from their idle stacks, and a retired tab is never idle: IdleInService.)
\* The lease count grows by n.
Pop(w, a, t, n) ==
    \E i \in 1 .. Len(slot[a].idle) :
        /\ TopIdle(a, i, t)
        /\ slot' = [slot EXCEPT ![a].idle = Popped(@, i),
                                ![a].checkedOut = @ + n]
        /\ Advance(w, a)
        /\ UNCHANGED <<slots, retired>>

\* Accounts that could serve w now or after a wait.
Serving(w) == {a \in Scope(w) : /\ slot[a].schedulable
                                /\ slot[a].workers # {}
                                /\ a \notin w.excluded}

\* Mutants of WakeRequests, WakeDrains and NotifyAll: nobody is told.
WakeNoRequest(f) == f
WakeNoDrain == drain
NotifyNobody == UNCHANGED <<pc, drain>>

\* notify_all: every condition waiter has to take the lock again.
WokenStage(s) == IF s = "waiting" THEN "woken" ELSE s
WakeRequests(f) == [r \in Requests |-> WokenStage(f[r])]
WakeDrains == [a \in Accounts |-> WokenStage(drain[a])]
NotifyAll == pc' = WakeRequests(pc) /\ drain' = WakeDrains

-----------------------------------------------------------------------------
(* A request acquires: _acquire *)

\* The request calls acquire() and gets in line for the lock.
Arrive(r) ==
    /\ pc[r] = "new"
    /\ \E w \in Wants : want' = [want EXCEPT ![r] = w]
    /\ pc' = [pc EXCEPT ![r] = "scan"]
    /\ UNCHANGED <<poolVars, waiters, lease, limited, outcome,
                   probe, drain>>

AtLock(r) == pc[r] \in {"scan", "woken"}

\* Mutant of OthersQueued: a waiter is never taken off the count.
OthersAndSelf(r) == waiters

\* The queue without r: a waiter leaves it before it scans again.
OthersQueued(r) == IF pc[r] = "woken" THEN waiters - 1 ELSE waiters

Take(r) ==
    /\ AtLock(r)
    /\ \E a \in Accounts, t \in Tabs :
         /\ Chosen(want[r], a)
         /\ Pop(want[r], a, t, 1)
         /\ lease' = [lease EXCEPT ![r] = t]
    /\ pc' = [pc EXCEPT ![r] = "entering"]
    /\ waiters' = OthersQueued(r)
    /\ UNCHANGED <<want, limited, outcome, probe, drain>>

\* The request leaves without a tab.
Refuse(r, o) ==
    /\ pc' = [pc EXCEPT ![r] = "done"]
    /\ outcome' = [outcome EXCEPT ![r] = o]
    /\ want' = [want EXCEPT ![r] = NoWant]
    /\ UNCHANGED <<poolVars, lease, limited, probe, drain>>

NothingFree(r) == AtLock(r) /\ Eligible(want[r]) = {}

PinnedElsewhere(r) ==
    want[r].pinned # None /\ want[r].pinned \notin Serving(want[r])

\* A pinned request whose account cannot serve: AccountUnavailable.
RefusePinned(r) ==
    /\ NothingFree(r)
    /\ PinnedElsewhere(r)
    /\ waiters' = OthersQueued(r)
    /\ Refuse(r, "unavailable")

\* No live account of the provider: BrowserBusy.
RefuseNoAccount(r) ==
    /\ NothingFree(r)
    /\ ~PinnedElsewhere(r)
    /\ Serving(want[r]) = {}
    /\ waiters' = OthersQueued(r)
    /\ Refuse(r, "busy")

MayWait(r) == /\ NothingFree(r)
              /\ ~PinnedElsewhere(r)
              /\ Serving(want[r]) # {}

\* The queue is full, or a waiter's deadline has passed: BrowserBusy.
RefuseToQueue(r) ==
    /\ MayWait(r)
    /\ OthersQueued(r) >= MaxWaiters \/ pc[r] = "woken"
    /\ waiters' = OthersQueued(r)
    /\ Refuse(r, "busy")

Wait(r) ==
    /\ MayWait(r)
    /\ OthersQueued(r) < MaxWaiters
    /\ waiters' = OthersQueued(r) + 1
    /\ pc' = [pc EXCEPT ![r] = "waiting"]
    /\ UNCHANGED <<poolVars, want, lease, limited, outcome,
                   probe, drain>>

\* The acquire timeout expires, possibly just after a notification.
TimeOut(r) ==
    /\ pc[r] \in {"waiting", "woken"}
    /\ waiters' = waiters - 1
    /\ Refuse(r, "busy")

-----------------------------------------------------------------------------
(* A request uses its tab: _Acquired, _observe, _release *)

Holding(t) == \/ \E r \in Requests : lease[r] = t
              \/ \E p \in Probes : probe[p] = t

\* __aenter__ opens a fresh chat when one is needed.
Enter(r) ==
    /\ pc[r] = "entering"
    /\ pc' = [pc EXCEPT ![r] = "running"]
    /\ limited' = [limited EXCEPT ![r] = FALSE]
    /\ UNCHANGED <<poolVars, waiters, want, lease, outcome,
                   probe, drain>>

\* Record how the body, or the entry, ended.
Leave(r, o, report) ==
    /\ outcome' = [outcome EXCEPT ![r] = o]
    /\ pc' = [pc EXCEPT ![r] = IF report THEN "reporting" ELSE "releasing"]
    /\ UNCHANGED <<poolVars, waiters, want, lease, limited, probe, drain>>

\* Mutant of EnterFails: the error leaves __aenter__ without _release.
EnterFailsAndKeepsTab(r) ==
    /\ pc[r] = "entering"
    /\ outcome' = [outcome EXCEPT ![r] = "answered"]
    /\ pc' = [pc EXCEPT ![r] = "done"]
    /\ UNCHANGED <<poolVars, waiters, want, lease, limited, probe, drain>>

\* new_chat fails on entry; the tab goes back, and the failure is reported
\* whatever the previous request left in limit_hit.
EnterFails(r) ==
    /\ pc[r] = "entering"
    /\ Leave(r, "retryable", TRUE) \/ Leave(r, "answered", FALSE)

\* The body ends.  A retryable error is reported unless the reply was a
\* usage limit, which is a cooldown and not a failure.
Finish(r) ==
    /\ pc[r] = "running"
    /\ \/ Leave(r, "answered", FALSE)
       \/ Leave(r, "retryable", ~limited[r])

\* _observe sees a limit banner in the reply ...
SeeLimit(r) ==
    /\ pc[r] = "running" /\ ~limited[r]
    /\ limited' = [limited EXCEPT ![r] = TRUE]
    /\ pc' = [pc EXCEPT ![r] = "limiting"]
    /\ UNCHANGED <<poolVars, waiters, want, lease, outcome,
                   probe, drain>>

\* set_schedulable: waking the queue only when routing resumes.
SetRouting(a, on) ==
    slot' = IF a \in slots THEN [slot EXCEPT ![a].schedulable = on] ELSE slot

\* ... and takes the account offline.
LimitOffline(r) ==
    /\ pc[r] = "limiting"
    /\ SetRouting(AccountOf[lease[r]], FALSE)
    /\ pc' = [pc EXCEPT ![r] = "running"]
    /\ UNCHANGED <<slots, retired, cursor, waiters, want, lease, limited,
                   outcome, probe, drain>>

\* report_account_failure: stop routing first, then call the handler.
Report(r) ==
    /\ pc[r] = "reporting"
    /\ SetRouting(AccountOf[lease[r]], FALSE)
    /\ pc' = [pc EXCEPT ![r] = "handling"]
    /\ UNCHANGED <<slots, retired, cursor, waiters, want, lease, limited,
                   outcome, probe, drain>>

\* The failure handler returns, or raises and is ignored.
Handled(r) ==
    /\ pc[r] = "handling"
    /\ pc' = [pc EXCEPT ![r] = "releasing"]
    /\ UNCHANGED <<poolVars, waiters, want, lease, limited, outcome,
                   probe, drain>>

\* Mutants of OneLess: without the clamp at zero, and without the decrement.
OneLessUnclamped(n) == n - 1
OneLessForgotten(n) == n

\* checked_out drops by one but not below zero.
OneLess(n) == IF n > 0 THEN n - 1 ELSE 0

\* Retired tabs are dropped, and so are tabs of an earlier slot.
MayIdle(t) == t \notin retired /\ t \in slot[AccountOf[t]].workers

\* _release works on the slot the account has now, which need not be the
\* slot the tab was taken from.
PutBack(t) ==
    LET a == AccountOf[t]
    IN  /\ slot' = IF a \notin slots THEN slot ELSE
                   [slot EXCEPT
                      ![a].checkedOut = OneLess(@),
                      ![a].idle = IF MayIdle(t) THEN Append(@, t) ELSE @]
        /\ UNCHANGED <<slots, retired, cursor>>

Release(r) ==
    /\ pc[r] = "releasing"
    /\ PutBack(lease[r])
    /\ lease' = [lease EXCEPT ![r] = None]
    /\ want' = [want EXCEPT ![r] = NoWant]
    /\ limited' = [limited EXCEPT ![r] = FALSE]
    /\ pc' = WakeRequests([pc EXCEPT ![r] = "done"])
    /\ drain' = WakeDrains
    /\ UNCHANGED <<waiters, outcome, probe>>

-----------------------------------------------------------------------------
(* GET /status: try_acquire_nowait, release_nowait *)

\* The probe takes any free tab, outside the lease count.
ProbeTake(p) ==
    /\ probe[p] = None
    /\ \E a \in Accounts, t \in Tabs :
         /\ Chosen(NoWant, a)
         /\ Pop(NoWant, a, t, 0)
         /\ probe' = [probe EXCEPT ![p] = t]
    /\ UNCHANGED <<waiters, requestVars, drain>>

ProbeRelease(p) ==
    /\ probe[p] # None
    /\ PutBack(probe[p])
    /\ probe' = [probe EXCEPT ![p] = None]
    /\ NotifyAll
    /\ UNCHANGED <<waiters, want, lease, limited, outcome>>

-----------------------------------------------------------------------------
(* Draining: wait_drained *)

\* Mutant of Drained: off by one.
DrainedButOne(a) == a \in slots => slot[a].checkedOut <= 1

Drained(a) == a \in slots => slot[a].checkedOut = 0

SetDrain(a, s) == drain' = [drain EXCEPT ![a] = s]

DrainBeginOp(a) ==
    /\ SetDrain(a, IF Drained(a) THEN "drained" ELSE "waiting")
    /\ UNCHANGED <<poolVars, waiters, requestVars, probe>>

\* The caller has stopped routing to the account (logout, stop).
DrainBegin(a) ==
    /\ drain[a] = "off"
    /\ a \in slots /\ ~slot[a].schedulable
    /\ DrainBeginOp(a)

DrainScan(a) ==
    /\ drain[a] = "woken"
    /\ SetDrain(a, IF Drained(a) THEN "drained" ELSE "waiting")
    /\ UNCHANGED <<poolVars, waiters, requestVars, probe>>

\* The drain timeout expires.
DrainTimeOut(a) ==
    /\ drain[a] \in {"waiting", "woken"}
    /\ SetDrain(a, IF Drained(a) THEN "drained" ELSE "gaveUp")
    /\ UNCHANGED <<poolVars, waiters, requestVars, probe>>

\* The caller goes on, whatever the answer was.
DrainEnd(a) ==
    /\ drain[a] \in {"drained", "gaveUp"}
    /\ SetDrain(a, "off")
    /\ UNCHANGED <<poolVars, waiters, requestVars, probe>>

-----------------------------------------------------------------------------
(* Control plane.  The operations ("Op") as the code has them, callable at *)
(* any time, and the contract under which the results about the pool hold: *)
(* starting, stopping, logging out and resuming an account exclude each    *)
(* other, so none of them overlaps a drain of the account.  AccountManager *)
(* calls the operations, and is checked to keep the contract.              *)

RegisterOp(a, o, p) ==
    /\ slots' = slots \cup {a}
    /\ slot' = IF a \in slots
                 THEN [slot EXCEPT ![a].order = o, ![a].provider = p]
                 ELSE [slot EXCEPT ![a] = NewSlot(o, p)]
    /\ UNCHANGED <<retired, cursor, waiters, requestVars, probe, drain>>

\* set_schedulable(True) wakes the queue.
ResumeOp(a) ==
    /\ a \in slots
    /\ SetRouting(a, TRUE)
    /\ NotifyAll
    /\ UNCHANGED <<slots, retired, cursor, waiters, want, lease, limited,
                   outcome, probe>>

AddWorkersOp(a, T) ==
    LET s == IF a \in slots THEN slot[a]
                            ELSE NewSlot(DefaultOrder, DefaultProvider)
    IN  /\ slots' = slots \cup {a}
        /\ \E q \in [1 .. Cardinality(T) -> T] :
             /\ \A i, j \in 1 .. Cardinality(T) : i # j => q[i] # q[j]
             /\ slot' = [slot EXCEPT
                           ![a] = [s EXCEPT !.workers = @ \cup T,
                                            !.idle = @ \o q]]
        /\ retired' = retired \ T
        /\ NotifyAll
        /\ UNCHANGED <<cursor, waiters, want, lease, limited, outcome, probe>>

RetireOp(a) ==
    /\ a \in slots
    /\ slot' = [slot EXCEPT ![a].schedulable = FALSE, ![a].idle = <<>>]
    /\ retired' = retired \cup slot[a].workers
    /\ NotifyAll
    /\ UNCHANGED <<slots, cursor, waiters, want, lease, limited, outcome, probe>>

RemoveOp(a) ==
    /\ slots' = slots \ {a}
    /\ slot' = [slot EXCEPT ![a] = NewSlot(DefaultOrder, DefaultProvider)]
    /\ UNCHANGED <<retired, cursor, waiters, requestVars, probe>>

\* Tabs that never were in the pool: workers are created for add_workers.
Unused(t) == /\ t \notin retired
             /\ ~Holding(t)
             /\ t \notin slot[AccountOf[t]].workers

\* register_account: at creation, before the tabs join, and after removal.
Register(a) ==
    /\ slot[a].workers = {}
    /\ \E o \in Orders, p \in Providers : RegisterOp(a, o, p)

\* set_order: update_account, at any time.
SetOrder(a) ==
    /\ a \in slots
    /\ \E o \in Orders : slot' = [slot EXCEPT ![a].order = o]
    /\ UNCHANGED <<slots, retired, cursor, waiters, requestVars, probe, drain>>

\* set_schedulable(False): logout, failure, cooldown, open_login.
Suspend(a) ==
    /\ SetRouting(a, FALSE)
    /\ UNCHANGED <<slots, retired, cursor, waiters, requestVars, probe, drain>>

\* set_schedulable(True): a login result, never for retired tabs.
Resume(a) ==
    /\ drain[a] = "off"
    /\ slot[a].workers \cap retired = {}
    /\ ResumeOp(a)

\* add_workers: the last step of a start, with tabs just opened.
AddWorkers(a) ==
    /\ drain[a] = "off"
    /\ slot[a].workers = {}
    /\ \E T \in SUBSET {t \in Tabs : AccountOf[t] = a /\ Unused(t)} :
         T # {} /\ IsFiniteSet(T) /\ AddWorkersOp(a, T)

\* retire_account: the first step of a stop.
Retire(a) ==
    /\ drain[a] = "off"
    /\ RetireOp(a)

\* remove_account_slot: of an account that is not started, or after
\* retirement once the drain has answered.
RemoveSlot(a) ==
    /\ slot[a].workers \subseteq retired
    /\ \/ drain[a] = "off" /\ slot[a].workers = {}
       \/ drain[a] = "drained"
       \/ MayForceClose /\ drain[a] = "gaveUp"
    /\ RemoveOp(a)
    /\ SetDrain(a, "off")

-----------------------------------------------------------------------------
RequestStep(r) ==
    \/ Take(r) \/ RefusePinned(r) \/ RefuseNoAccount(r)
    \/ RefuseToQueue(r) \/ Wait(r)
    \/ Enter(r) \/ EnterFails(r) \/ Finish(r)
    \/ LimitOffline(r) \/ Report(r) \/ Handled(r) \/ Release(r)

ControlStep(a) ==
    \/ Register(a) \/ SetOrder(a) \/ Suspend(a) \/ Resume(a)
    \/ AddWorkers(a) \/ Retire(a) \/ RemoveSlot(a)

Next ==
    \/ \E r \in Requests : \/ Arrive(r) \/ RequestStep(r)
                           \/ TimeOut(r) \/ SeeLimit(r)
    \/ \E p \in Probes : ProbeTake(p) \/ ProbeRelease(p)
    \/ \E a \in Accounts : \/ DrainBegin(a) \/ DrainScan(a)
                           \/ DrainTimeOut(a) \/ DrainEnd(a)
                           \/ ControlStep(a)

Spec == Init /\ [][Next]_vars

\* asyncio runs every ready task, endpoints end, and handlers return; calls
\* may never come, and no timeout has to expire.
Fairness ==
    /\ \A r \in Requests : WF_vars(RequestStep(r))
    /\ \A p \in Probes : WF_vars(ProbeRelease(p))
    /\ \A a \in Accounts : WF_vars(DrainScan(a))

FairSpec == Spec /\ Fairness

-----------------------------------------------------------------------------
(* Properties *)

Queued == {r \in Requests : pc[r] \in {"waiting", "woken"}}

Leases(a) == {r \in Requests : lease[r] # None /\ AccountOf[lease[r]] = a}

IdleTabs(a) == {slot[a].idle[i] : i \in 1 .. Len(slot[a].idle)}

\* No two requests, no two probes, and no request and probe hold one tab
\* ("two requests never share a Worker", the head of worker_pool.py).
OneHolder ==
    /\ \A r, s \in Requests : r # s /\ lease[r] # None => lease[r] # lease[s]
    /\ \A p, q \in Probes : p # q /\ probe[p] # None => probe[p] # probe[q]
    /\ \A r \in Requests, p \in Probes :
         lease[r] # None => lease[r] # probe[p]

\* An idle stack holds live tabs of its own account, each once, none of
\* them held: what _release re-idles and what retire_account clears.
IdleInService ==
    \A a \in Accounts :
      /\ \A i, j \in 1 .. Len(slot[a].idle) :
           i # j => slot[a].idle[i] # slot[a].idle[j]
      /\ \A i \in 1 .. Len(slot[a].idle) :
           LET t == slot[a].idle[i]
           IN  /\ a \in slots /\ t \in slot[a].workers \ retired
               /\ AccountOf[t] = a
               /\ ~Holding(t)

\* Between checkout and release.
Served == {"entering", "running", "limiting", "reporting", "handling",
           "releasing"}

\* A tab in service is idle, probed, or driven by a request that is still
\* between checkout and release: no exit path of _Acquired loses one.
NoTabLost ==
    \A a \in slots : \A t \in slot[a].workers \ retired :
      \/ t \in IdleTabs(a)
      \/ \E r \in Requests : lease[r] = t /\ pc[r] \in Served
      \/ \E p \in Probes : probe[p] = t

\* _waiters counts the queue, and the queue is bounded.
QueueBound == waiters = Cardinality(Queued) /\ waiters <= MaxWaiters

\* No lost wakeup: nothing a sleeping waiter could take is free, so no
\* change that frees a tab or reopens an account forgets notify_all.
NoLostWakeup == \A r \in Requests : pc[r] = "waiting" => Eligible(want[r]) = {}

\* A sleeping waiter sleeps on a tab that somebody holds, of its own account
\* if it is pinned: the release of that tab wakes it.
WaiterHasWaker ==
    \A r \in Requests : pc[r] = "waiting" =>
      \E t \in Tabs : Holding(t) /\ want[r].pinned \in {None, AccountOf[t]}

\* The lease count never exceeds the leases, so a drain never waits for
\* requests that are not there.
NoPhantomLease ==
    \A a \in slots : slot[a].checkedOut <= Cardinality(Leases(a))

\* Every acquire() ends without its timeout, and so does every lease.
EveryRequestEnds ==
    \A r \in Requests : pc[r] = "scan" ~> pc[r] = "done"

\* A drain that has to wait is told of the last release.
DrainEnds ==
    \A a \in Accounts :
      drain[a] = "waiting" ~> drain[a] \notin {"waiting", "woken"}

(* The pool implements TabLease. *)

Phase(t) == CASE t \in retired -> "gone"
              [] t \notin retired /\ t \in slot[AccountOf[t]].workers
                   -> "serving"
              [] OTHER -> "unborn"

Clients == Requests \cup Probes

TabOf(c) == IF c \in Requests THEN lease[c] ELSE probe[c]

Holder(t) == IF Holding(t) THEN CHOOSE c \in Clients : TabOf(c) = t ELSE None

Leasing == INSTANCE TabLease WITH
             phase <- [t \in Tabs |-> Phase(t)],
             holder <- [t \in Tabs |-> Holder(t)]

\* Refinement: every step of the pool is a step of TabLease or leaves every
\* tab's phase and holder alone.
ImplementsTabLease == Leasing!Spec
=============================================================================
