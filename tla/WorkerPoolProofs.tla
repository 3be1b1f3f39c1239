-------------------------- MODULE WorkerPoolProofs --------------------------
(***************************************************************************)
(* Proofs about WorkerPool, for every number of accounts, tabs, requests   *)
(* and probes: type correctness; a tab has one holder at most; no tab in   *)
(* service is ever lost, and the pool implements TabLease; no wakeup is    *)
(* lost, and every sleeping waiter has somebody whose release will wake    *)
(* it; _waiters counts the queue, which stays within its bound;            *)
(* checked_out counts no lease that is not there, and misses no more of    *)
(* them than the releases it was charged for without having counted them   *)
(* (DrainLedger), so a drain says how far it can be trusted.  Requests     *)
(* need not be finitely many: only those that wait or hold a tab are,      *)
(* since every step adds one at most.                                      *)
(***************************************************************************)
EXTENDS DrainLedger, FiniteSetTheorems, TLAPS

-----------------------------------------------------------------------------
(* Facts about the operators of the routing scan *)

\* Popping an idle stack leaves a stack of tabs below the one popped.
LEMMA PoppedType ==
    ASSUME NEW S, NEW idle \in Seq(S), NEW i \in 1 .. Len(idle)
    PROVE  /\ Popped(idle, i) \in Seq(S)
           /\ Len(Popped(idle, i)) = i - 1
           /\ \A j \in 1 .. (i - 1) : Popped(idle, i)[j] = idle[j]
BY DEF Popped

\* The arguments of a scan index the rotation table.
LEMMA KeyType ==
    ASSUME NEW w \in Wants \cup {NoWant}
    PROVE  Key(w) \in Keys
BY PoolAssumption DEF Key, Keys, NoWant

\* Popping a tab keeps the slots and the rotation well typed.
LEMMA PopType ==
    ASSUME TypeOK, NEW w \in Wants \cup {NoWant}, NEW a \in Accounts,
           NEW t \in Tabs, NEW n \in Nat, Pop(w, a, t, n)
    PROVE  /\ slots' \subseteq Accounts
           /\ slot' \in [Accounts -> SlotType]
           /\ retired' \subseteq Tabs
           /\ cursor' \in [Keys -> Accounts \cup {None}]
<1>1. PICK i \in 1 .. Len(slot[a].idle) :
          /\ slot' = [slot EXCEPT ![a].idle = Popped(@, i),
                                  ![a].checkedOut = @ + n]
          /\ Advance(w, a)
          /\ UNCHANGED <<slots, retired>>
    BY DEF Pop
<1>2. slot[a] \in SlotType
    BY DEF TypeOK
<1>3. Popped(slot[a].idle, i) \in Seq(Tabs)
    BY <1>2, PoppedType DEF SlotType
<1>4. slot[a].checkedOut + n \in Nat
    BY <1>2 DEF SlotType
<1>5. slot' \in [Accounts -> SlotType]
    BY <1>1, <1>2, <1>3, <1>4 DEF TypeOK, SlotType
<1>6. cursor' \in [Keys -> Accounts \cup {None}]
    BY <1>1, KeyType DEF TypeOK, Advance, Scope
<1> QED
    BY <1>1, <1>5, <1>6 DEF TypeOK

\* Putting a tab back keeps the slots well typed.
LEMMA PutBackType ==
    ASSUME TypeOK, NEW t, PutBack(t)
    PROVE  slot' \in [Accounts -> SlotType]
<1> DEFINE a == AccountOf[t]
<1> SUFFICES ASSUME a \in slots PROVE slot' \in [Accounts -> SlotType]
    BY DEF PutBack, TypeOK
<1>1. a \in Accounts
    BY DEF TypeOK
<1>2. slot[a] \in SlotType
    BY <1>1 DEF TypeOK
<1>3. OneLess(slot[a].checkedOut) \in Nat
    BY <1>2 DEF OneLess, SlotType
<1>4. MayIdle(t) => Append(slot[a].idle, t) \in Seq(Tabs)
    BY <1>2 DEF MayIdle, SlotType
<1> QED
    BY <1>1, <1>2, <1>3, <1>4 DEF PutBack, TypeOK, SlotType

\* Switching routing on or off keeps the slots well typed.
LEMMA RoutingType ==
    ASSUME TypeOK, NEW a, NEW on \in BOOLEAN, SetRouting(a, on)
    PROVE  slot' \in [Accounts -> SlotType]
BY DEF SetRouting, TypeOK, SlotType

\* A notification leaves every process at a stage of its own.
LEMMA WakeType ==
    /\ \A f \in [Requests -> Stages] : WakeRequests(f) \in [Requests -> Stages]
    /\ TypeOK => WakeDrains \in [Accounts -> DrainStages]
BY DEF WakeRequests, WakeDrains, WokenStage, Stages, DrainStages, TypeOK

\* A new slot has the type of one.
LEMMA NewSlotType ==
    ASSUME NEW o \in Orders, NEW p \in Providers
    PROVE  NewSlot(o, p) \in SlotType
BY PoolAssumption DEF NewSlot, SlotType

-----------------------------------------------------------------------------
(* Type correctness *)

\* The empty pool is well typed.
LEMMA TypeInit == Init => TypeOK
<1> SUFFICES ASSUME Init PROVE TypeOK
    OBVIOUS
<1>1. slot \in [Accounts -> SlotType]
    BY NewSlotType, PoolAssumption DEF Init, Quiet
<1> QED
    BY <1>1 DEF Init, Quiet, TypeOK, Stages, Outcomes, DrainStages

\* The steps of a request keep the types.
LEMMA TypeRequest ==
    ASSUME TypeOK, NEW r \in Requests,
           Arrive(r) \/ RequestStep(r) \/ TimeOut(r) \/ SeeLimit(r)
    PROVE  TypeOK'
<1>1. CASE Arrive(r)
    BY <1>1 DEF Arrive, TypeOK, Stages, poolVars
<1>2. CASE Take(r)
  <2>1. PICK a \in Accounts, t \in Tabs :
            /\ Pop(want[r], a, t, 1)
            /\ lease' = [lease EXCEPT ![r] = t]
      BY <1>2 DEF Take
  <2>2. want[r] \in Wants \cup {NoWant}
      BY DEF TypeOK
  <2>3. /\ slots' \subseteq Accounts
        /\ slot' \in [Accounts -> SlotType]
        /\ retired' \subseteq Tabs
        /\ cursor' \in [Keys -> Accounts \cup {None}]
      BY <2>1, <2>2, PopType
  <2> QED
      BY <1>2, <2>1, <2>3 DEF Take, TypeOK, Stages, OthersQueued
<1>3. CASE \E o \in {"busy", "unavailable"} :
             Refuse(r, o) /\ waiters' \in {OthersQueued(r), waiters - 1}
    BY <1>3 DEF Refuse, TypeOK, Stages, Outcomes, poolVars, OthersQueued
<1>4. CASE Wait(r)
    BY <1>4 DEF Wait, TypeOK, Stages, poolVars, OthersQueued
<1>5. CASE Enter(r) \/ SeeLimit(r) \/ Handled(r)
    BY <1>5 DEF Enter, SeeLimit, Handled, TypeOK, Stages, poolVars
<1>6. CASE EnterFails(r) \/ Finish(r)
    BY <1>6 DEF EnterFails, Finish, Leave, TypeOK, Stages, Outcomes, poolVars
<1>7. CASE LimitOffline(r) \/ Report(r)
  <2>1. slot' \in [Accounts -> SlotType]
      BY <1>7, RoutingType DEF LimitOffline, Report
  <2> QED
      BY <1>7, <2>1 DEF LimitOffline, Report, TypeOK, Stages
<1>8. CASE Release(r)
  <2>1. slot' \in [Accounts -> SlotType]
      BY <1>8, PutBackType DEF Release
  <2> QED
      BY <1>8, <2>1, WakeType DEF Release, PutBack, TypeOK, Stages
<1> QED
    BY <1>1, <1>2, <1>3, <1>4, <1>5, <1>6, <1>7, <1>8
    DEF RequestStep, RefusePinned, RefuseNoAccount, RefuseToQueue, TimeOut

\* So do those of a probe.
LEMMA TypeProbe ==
    ASSUME TypeOK, NEW p \in Probes, ProbeTake(p) \/ ProbeRelease(p)
    PROVE  TypeOK'
<1>1. CASE ProbeTake(p)
  <2>1. PICK a \in Accounts, t \in Tabs :
            Pop(NoWant, a, t, 0) /\ probe' = [probe EXCEPT ![p] = t]
      BY <1>1 DEF ProbeTake
  <2>2. /\ slots' \subseteq Accounts
        /\ slot' \in [Accounts -> SlotType]
        /\ retired' \subseteq Tabs
        /\ cursor' \in [Keys -> Accounts \cup {None}]
      BY <2>1, PopType
  <2> QED
      BY <1>1, <2>1, <2>2 DEF ProbeTake, TypeOK, requestVars
<1>2. CASE ProbeRelease(p)
  <2>1. slot' \in [Accounts -> SlotType]
      BY <1>2, PutBackType DEF ProbeRelease
  <2> QED
      BY <1>2, <2>1, WakeType DEF ProbeRelease, NotifyAll, PutBack, TypeOK
<1> QED
    BY <1>1, <1>2

\* So do those of a drain.
LEMMA TypeDrain ==
    ASSUME TypeOK, NEW a \in Accounts,
           DrainBegin(a) \/ DrainScan(a) \/ DrainTimeOut(a) \/ DrainEnd(a)
    PROVE  TypeOK'
BY DEF DrainBegin, DrainBeginOp, DrainScan, DrainTimeOut, DrainEnd, SetDrain, DrainStages,
       TypeOK, poolVars, requestVars

\* So do the control calls.
LEMMA TypeControl ==
    ASSUME TypeOK, NEW a \in Accounts, ControlStep(a)
    PROVE  TypeOK'
<1>1. CASE Register(a)
  <2>1. PICK o \in Orders, p \in Providers : RegisterOp(a, o, p)
      BY <1>1 DEF Register
  <2>2. NewSlot(o, p) \in SlotType /\ o \in Nat
      BY NewSlotType, PoolAssumption
  <2>3. slot' \in [Accounts -> SlotType]
      BY <2>1, <2>2 DEF RegisterOp, TypeOK, SlotType
  <2> QED
      BY <1>1, <2>1, <2>3 DEF Register, RegisterOp, TypeOK, requestVars
<1>2. CASE SetOrder(a)
  <2>1. PICK o \in Orders : slot' = [slot EXCEPT ![a].order = o]
      BY <1>2 DEF SetOrder
  <2>2. slot[a] \in SlotType /\ o \in Nat
      BY PoolAssumption DEF TypeOK
  <2>3. [slot[a] EXCEPT !.order = o] \in SlotType
      BY <2>2 DEF SlotType
  <2>4. slot' \in [Accounts -> SlotType]
      BY <2>1, <2>3 DEF TypeOK
  <2> QED
      BY <1>2, <2>4 DEF SetOrder, TypeOK, requestVars
<1>3. CASE Suspend(a)
  <2>1. slot' \in [Accounts -> SlotType]
      BY <1>3, RoutingType DEF Suspend
  <2> QED
      BY <1>3, <2>1 DEF Suspend, TypeOK, requestVars
<1>4. CASE Resume(a)
  <2>1. slot' \in [Accounts -> SlotType]
      BY <1>4, RoutingType DEF Resume, ResumeOp
  <2> QED
      BY <1>4, <2>1, WakeType DEF Resume, ResumeOp, NotifyAll, TypeOK
<1>5. CASE AddWorkers(a)
  <2>1. PICK T \in SUBSET Tabs : IsFiniteSet(T) /\ AddWorkersOp(a, T)
      BY <1>5 DEF AddWorkers
  <2> DEFINE s == IF a \in slots THEN slot[a]
                                 ELSE NewSlot(DefaultOrder, DefaultProvider)
  <2>2. PICK q \in [1 .. Cardinality(T) -> T] :
            slot' = [slot EXCEPT ![a] = [s EXCEPT !.workers = @ \cup T,
                                                  !.idle = @ \o q]]
      BY <2>1 DEF AddWorkersOp
  <2>3. Cardinality(T) \in Nat
      BY <2>1, FS_CardinalityType
  <2>4. s \in SlotType
      BY NewSlotType, PoolAssumption DEF TypeOK
  <2>5. q \in Seq(Tabs)
      BY <2>3
  <2>6. s.idle \o q \in Seq(Tabs)
      BY <2>4, <2>5 DEF SlotType
  <2>7. [s EXCEPT !.workers = @ \cup T, !.idle = @ \o q] \in SlotType
      BY <2>4, <2>6 DEF SlotType
  <2>8. slot' \in [Accounts -> SlotType]
      BY <2>2, <2>7 DEF TypeOK
  <2> QED
      BY <1>5, <2>1, <2>8, WakeType
      DEF AddWorkers, AddWorkersOp, NotifyAll, TypeOK
<1>6. CASE Retire(a)
  <2>1. slot[a] \in SlotType
      BY DEF TypeOK
  <2>2. <<>> \in Seq(Tabs)
      OBVIOUS
  <2>3. [slot[a] EXCEPT !.schedulable = FALSE, !.idle = <<>>] \in SlotType
      BY <2>1, <2>2 DEF SlotType
  <2>4. slot' \in [Accounts -> SlotType]
      BY <1>6, <2>3 DEF Retire, RetireOp, TypeOK
  <2>5. retired' \subseteq Tabs
      BY <1>6, <2>1 DEF Retire, RetireOp, TypeOK, SlotType
  <2> QED
      BY <1>6, <2>4, <2>5, WakeType DEF Retire, RetireOp, NotifyAll, TypeOK
<1>7. CASE RemoveSlot(a)
  <2>1. slot' \in [Accounts -> SlotType]
      BY <1>7, NewSlotType, PoolAssumption DEF RemoveSlot, RemoveOp, TypeOK
  <2> QED
      BY <1>7, <2>1
      DEF RemoveSlot, RemoveOp, SetDrain, DrainStages, TypeOK, requestVars
<1> QED
    BY <1>1, <1>2, <1>3, <1>4, <1>5, <1>6, <1>7 DEF ControlStep

\* Every step keeps the types.
LEMMA TypeNext == TypeOK /\ [Next]_vars => TypeOK'
<1> SUFFICES ASSUME TypeOK, [Next]_vars PROVE TypeOK'
    OBVIOUS
<1>1. CASE UNCHANGED vars
    BY <1>1 DEF vars, TypeOK
<1>2. CASE Next
    BY <1>2, TypeRequest, TypeProbe, TypeDrain, TypeControl DEF Next
<1> QED
    BY <1>1, <1>2

\* Type correctness: in particular checked_out never becomes negative,
\* although probes give back tabs they were never counted for.
THEOREM TypeCorrect == Spec => []TypeOK
    BY TypeInit, TypeNext, PTL DEF Spec

-----------------------------------------------------------------------------
(* One holder per tab *)

\* A request has a tab exactly while it stands between checkout and release:
\* every exit path of _Acquired gives the tab back.
LeaseWhileServed == \A r \in Requests : lease[r] # None <=> pc[r] \in Served

\* A slot has tabs of its own account only, and none when it is missing.
OwnTabs == \A a \in Accounts : /\ a \notin slots => slot[a].workers = {}
                               /\ \A t \in slot[a].workers : AccountOf[t] = a

\* OneHolder and IdleInService are inductive together: a tab can go to a
\* second client only from an idle stack, and it can get onto one only when
\* its holder gives it back.
LeaseInv == OneHolder /\ IdleInService /\ OwnTabs
IInv == TypeOK /\ LeaseInv /\ LeaseWhileServed

\* The empty pool leases nothing.
LEMMA LeaseInit == Init => IInv
<1> SUFFICES ASSUME Init PROVE IInv
    OBVIOUS
<1>1. \A a \in Accounts : slot[a].idle = <<>> /\ slot[a].workers = {}
    BY DEF Init, Quiet, NewSlot
<1>2. OneHolder /\ OwnTabs /\ LeaseWhileServed
    BY <1>1 DEF Init, Quiet, OneHolder, OwnTabs, LeaseWhileServed, Served
<1>3. IdleInService
    BY <1>1 DEF IdleInService
<1> QED
    BY <1>2, <1>3, TypeInit DEF IInv, LeaseInv

\* A step that moves no tab keeps LeaseInv.
LEMMA LeaseQuiet ==
    ASSUME LeaseInv,
           UNCHANGED <<slots, retired, lease, probe>>,
           \A a \in Accounts : /\ slot'[a].workers = slot[a].workers
                               /\ slot'[a].idle = slot[a].idle
    PROVE  LeaseInv'
<1>1. OneHolder' /\ OwnTabs'
    BY DEF LeaseInv, OneHolder, OwnTabs
<1>2. \A t : Holding(t) <=> Holding(t)'
    BY DEF Holding
<1>3. IdleInService'
    BY <1>2 DEF LeaseInv, IdleInService
<1> QED
    BY <1>1, <1>3 DEF LeaseInv

\* Turning routing on or off moves no tab.
LEMMA RoutingQuiet ==
    ASSUME TypeOK, LeaseInv, NEW a, NEW on \in BOOLEAN, SetRouting(a, on),
           UNCHANGED <<slots, retired, lease, probe>>
    PROVE  LeaseInv'
<1>1. \A b \in Accounts : /\ slot'[b].workers = slot[b].workers
                          /\ slot'[b].idle = slot[b].idle
    BY DEF SetRouting, TypeOK, SlotType
<1> QED
    BY <1>1, LeaseQuiet

\* What a checkout does: the tab is off its idle stack, was nobody's, and
\* every other idle stack is as before.
LEMMA PopLease ==
    ASSUME TypeOK, LeaseInv, NEW w, NEW a \in Accounts,
           NEW t \in Tabs, NEW n \in Nat, Pop(w, a, t, n)
    PROVE  /\ ~Holding(t)
           /\ UNCHANGED <<slots, retired>>
           /\ \A b \in Accounts : slot'[b].workers = slot[b].workers
           /\ \A b \in Accounts : \A j \in 1 .. Len(slot'[b].idle) :
                /\ j \in 1 .. Len(slot[b].idle)
                /\ slot'[b].idle[j] = slot[b].idle[j]
                /\ slot'[b].idle[j] # t
<1>1. PICK i \in 1 .. Len(slot[a].idle) :
          /\ TopIdle(a, i, t)
          /\ slot' = [slot EXCEPT ![a].idle = Popped(@, i),
                                  ![a].checkedOut = @ + n]
          /\ UNCHANGED <<slots, retired>>
    BY DEF Pop
<1>2. t = slot[a].idle[i]
    BY <1>1 DEF TopIdle
<1>3. ~Holding(t) /\ AccountOf[t] = a
    BY <1>1, <1>2 DEF LeaseInv, IdleInService
<1>4. \A b \in Accounts : slot[b] \in SlotType
    BY DEF TypeOK
<1>5. /\ slot'[a].idle = Popped(slot[a].idle, i)
      /\ \A b \in Accounts : b # a => slot'[b].idle = slot[b].idle
      /\ \A b \in Accounts : slot'[b].workers = slot[b].workers
    BY <1>1, <1>4 DEF TypeOK, SlotType
<1>6. ASSUME NEW b \in Accounts, NEW j \in 1 .. Len(slot'[b].idle)
      PROVE  /\ j \in 1 .. Len(slot[b].idle)
             /\ slot'[b].idle[j] = slot[b].idle[j]
             /\ slot'[b].idle[j] # t
  <2>1. CASE b = a
    <3>1. /\ Len(slot'[a].idle) = i - 1
          /\ \A k \in 1 .. (i - 1) : slot'[a].idle[k] = slot[a].idle[k]
        BY <1>4, <1>5, PoppedType DEF SlotType
    <3>2. j \in 1 .. (i - 1) /\ Len(slot[a].idle) \in Nat
        BY <2>1, <3>1, <1>4, <1>6 DEF SlotType
    <3>3. j \in 1 .. Len(slot[a].idle) /\ j # i
        BY <3>2
    <3> QED
        BY <2>1, <3>1, <3>2, <3>3, <1>2 DEF LeaseInv, IdleInService
  <2>2. CASE b # a
    <3>1. j \in 1 .. Len(slot[b].idle) /\ slot'[b].idle[j] = slot[b].idle[j]
        BY <2>2, <1>5, <1>6
    <3>2. AccountOf[slot[b].idle[j]] = b
        BY <3>1 DEF LeaseInv, IdleInService
    <3> QED
        BY <2>2, <3>1, <3>2, <1>3
  <2> QED
      BY <2>1, <2>2
<1> QED
    BY <1>1, <1>3, <1>5, <1>6

\* What a release does: at most the tab given back, which was its holder's
\* alone, is new on an idle stack, and only if its slot still counts it.
LEMMA PutBackLease ==
    ASSUME TypeOK, LeaseInv, NEW t \in Tabs, Holding(t), PutBack(t)
    PROVE  /\ UNCHANGED <<slots, retired>>
           /\ \A b \in Accounts : slot'[b].workers = slot[b].workers
           /\ \A b \in Accounts :
                \/ slot'[b].idle = slot[b].idle
                \/ /\ slot'[b].idle = Append(slot[b].idle, t)
                   /\ b \in slots /\ b = AccountOf[t]
                   /\ t \in slot[b].workers \ retired
BY DEF PutBack, MayIdle, TypeOK, SlotType

\* Idle stacks that lost the tab t, which its new holder alone holds.
LEMMA IdleShrinks ==
    ASSUME LeaseInv, NEW t,
           UNCHANGED <<slots, retired>>,
           \A b \in Accounts : slot'[b].workers = slot[b].workers,
           \A b \in Accounts : \A j \in 1 .. Len(slot'[b].idle) :
             /\ j \in 1 .. Len(slot[b].idle)
             /\ slot'[b].idle[j] = slot[b].idle[j]
             /\ slot'[b].idle[j] # t,
           \A u : u # t /\ ~Holding(u) =>
             /\ \A s \in Requests : lease'[s] # u
             /\ \A q \in Probes : probe'[q] # u
    PROVE  IdleInService'
<1> SUFFICES ASSUME NEW b \in Accounts
             PROVE  /\ \A i, j \in 1 .. Len(slot'[b].idle) :
                         i # j => slot'[b].idle[i] # slot'[b].idle[j]
                    /\ \A i \in 1 .. Len(slot'[b].idle) :
                         /\ b \in slots
                         /\ slot'[b].idle[i] \in slot[b].workers \ retired
                         /\ AccountOf[slot'[b].idle[i]] = b
                         /\ \A r \in Requests : lease'[r] # slot'[b].idle[i]
                         /\ \A p \in Probes : probe'[p] # slot'[b].idle[i]
    BY DEF IdleInService, Holding
<1>1. \A i, j \in 1 .. Len(slot'[b].idle) :
        i # j => slot'[b].idle[i] # slot'[b].idle[j]
    BY DEF LeaseInv, IdleInService
<1>2. ASSUME NEW i \in 1 .. Len(slot'[b].idle)
      PROVE  /\ b \in slots
             /\ slot[b].idle[i] \in slot[b].workers \ retired
             /\ AccountOf[slot[b].idle[i]] = b
             /\ ~Holding(slot[b].idle[i])
             /\ slot'[b].idle[i] = slot[b].idle[i]
             /\ slot[b].idle[i] # t
    BY DEF LeaseInv, IdleInService
<1> QED
    BY <1>1, <1>2

\* A checkout by a request: the tab was nobody's, so it has one holder now.
LEMMA LeaseTake ==
    ASSUME IInv, NEW r \in Requests, Take(r)
    PROVE  LeaseInv'
<1>1. PICK a \in Accounts, t \in Tabs :
          /\ Pop(want[r], a, t, 1)
          /\ lease' = [lease EXCEPT ![r] = t]
    BY DEF Take
<1>2. /\ ~Holding(t)
      /\ UNCHANGED <<slots, retired>>
      /\ \A b \in Accounts : slot'[b].workers = slot[b].workers
      /\ \A b \in Accounts : \A j \in 1 .. Len(slot'[b].idle) :
           /\ j \in 1 .. Len(slot[b].idle)
           /\ slot'[b].idle[j] = slot[b].idle[j]
           /\ slot'[b].idle[j] # t
    BY <1>1, PopLease DEF IInv
<1>3. UNCHANGED probe /\ t # None
    BY PoolAssumption DEF Take
<1>4. /\ lease'[r] = t
      /\ \A s \in Requests : s # r => lease'[s] = lease[s]
    BY <1>1 DEF IInv, TypeOK
<1>5. OneHolder'
    BY <1>2, <1>3, <1>4 DEF IInv, LeaseInv, OneHolder, Holding
<1>6. OwnTabs'
    BY <1>2 DEF IInv, LeaseInv, OwnTabs
<1>7. \A u : u # t /\ ~Holding(u) =>
        /\ \A s \in Requests : lease'[s] # u
        /\ \A q \in Probes : probe'[q] # u
    BY <1>3, <1>4 DEF Holding
<1>8. IdleInService'
    BY <1>2, <1>7, IdleShrinks DEF IInv
<1> QED
    BY <1>5, <1>6, <1>8 DEF LeaseInv

\* A probe takes an idle tab, which nobody holds.
LEMMA LeaseProbeTake ==
    ASSUME IInv, NEW p \in Probes, ProbeTake(p)
    PROVE  LeaseInv'
<1>1. PICK a \in Accounts, t \in Tabs :
          Pop(NoWant, a, t, 0) /\ probe' = [probe EXCEPT ![p] = t]
    BY DEF ProbeTake
<1>2. /\ ~Holding(t)
      /\ UNCHANGED <<slots, retired>>
      /\ \A b \in Accounts : slot'[b].workers = slot[b].workers
      /\ \A b \in Accounts : \A j \in 1 .. Len(slot'[b].idle) :
           /\ j \in 1 .. Len(slot[b].idle)
           /\ slot'[b].idle[j] = slot[b].idle[j]
           /\ slot'[b].idle[j] # t
    BY <1>1, PopLease DEF IInv
<1>3. UNCHANGED lease /\ t # None
    BY PoolAssumption DEF ProbeTake, requestVars
<1>4. /\ probe'[p] = t
      /\ \A q \in Probes : q # p => probe'[q] = probe[q]
    BY <1>1 DEF IInv, TypeOK
<1>5. OneHolder'
    BY <1>2, <1>3, <1>4 DEF IInv, LeaseInv, OneHolder, Holding
<1>6. OwnTabs'
    BY <1>2 DEF IInv, LeaseInv, OwnTabs
<1>7. \A u : u # t /\ ~Holding(u) =>
        /\ \A s \in Requests : lease'[s] # u
        /\ \A q \in Probes : probe'[q] # u
    BY <1>3, <1>4 DEF Holding
<1>8. IdleInService'
    BY <1>2, <1>7, IdleShrinks DEF IInv
<1> QED
    BY <1>5, <1>6, <1>8 DEF LeaseInv

\* Once its only holder has let go of t, t may be idle again.
LEMMA IdleAgain ==
    ASSUME TypeOK, LeaseInv, NEW t \in Tabs, Holding(t), PutBack(t),
           \A u \in Tabs : Holding(u)' => Holding(u) /\ u # t
    PROVE  IdleInService'
<1>1. /\ UNCHANGED <<slots, retired>>
      /\ \A b \in Accounts : slot'[b].workers = slot[b].workers
      /\ \A b \in Accounts :
           \/ slot'[b].idle = slot[b].idle
           \/ /\ slot'[b].idle = Append(slot[b].idle, t)
              /\ b \in slots /\ b = AccountOf[t]
              /\ t \in slot[b].workers \ retired
    BY PutBackLease
<1> SUFFICES ASSUME NEW b \in Accounts
             PROVE  /\ \A i, j \in 1 .. Len(slot'[b].idle) :
                         i # j => slot'[b].idle[i] # slot'[b].idle[j]
                    /\ \A i \in 1 .. Len(slot'[b].idle) :
                         /\ b \in slots
                         /\ slot'[b].idle[i] \in slot[b].workers \ retired
                         /\ AccountOf[slot'[b].idle[i]] = b
                         /\ \A r \in Requests : lease'[r] # slot'[b].idle[i]
                         /\ \A p \in Probes : probe'[p] # slot'[b].idle[i]
    BY <1>1 DEF IdleInService, Holding
<1>2. slot[b].idle \in Seq(Tabs)
    BY DEF TypeOK, SlotType
<1>6. \A u \in Tabs : ~Holding(u) \/ u = t =>
        /\ \A r \in Requests : lease'[r] # u
        /\ \A p \in Probes : probe'[p] # u
    BY DEF Holding
<1>3. CASE slot'[b].idle = slot[b].idle
    BY <1>2, <1>3, <1>6 DEF LeaseInv, IdleInService
<1>4. CASE /\ slot'[b].idle = Append(slot[b].idle, t)
           /\ b \in slots /\ b = AccountOf[t]
           /\ t \in slot[b].workers \ retired
  <2>1. /\ Len(slot'[b].idle) = Len(slot[b].idle) + 1
        /\ slot'[b].idle[Len(slot[b].idle) + 1] = t
        /\ \A i \in 1 .. Len(slot[b].idle) :
             slot'[b].idle[i] = slot[b].idle[i]
      BY <1>2, <1>4
  <2>2. Len(slot[b].idle) \in Nat
      BY <1>2
  <2>3. \A i \in 1 .. Len(slot'[b].idle) :
          i \in 1 .. Len(slot[b].idle) \/ i = Len(slot[b].idle) + 1
      BY <2>1, <2>2
  <2>4. \A i \in 1 .. Len(slot[b].idle) :
          /\ slot[b].idle[i] \in slot[b].workers \ retired
          /\ AccountOf[slot[b].idle[i]] = b
          /\ ~Holding(slot[b].idle[i])
          /\ slot[b].idle[i] # t
          /\ slot[b].idle[i] \in Tabs
      BY <1>2 DEF LeaseInv, IdleInService
  <2>5. \A i, j \in 1 .. Len(slot[b].idle) :
          i # j => slot[b].idle[i] # slot[b].idle[j]
      BY DEF LeaseInv, IdleInService
  <2>6. \A i, j \in 1 .. Len(slot'[b].idle) :
          i # j => slot'[b].idle[i] # slot'[b].idle[j]
      BY <2>1, <2>3, <2>4, <2>5
  <2>7. ASSUME NEW i \in 1 .. Len(slot'[b].idle)
        PROVE  /\ slot'[b].idle[i] \in slot[b].workers \ retired
               /\ AccountOf[slot'[b].idle[i]] = b
               /\ \A r \in Requests : lease'[r] # slot'[b].idle[i]
               /\ \A p \in Probes : probe'[p] # slot'[b].idle[i]
    <3>1. CASE i \in 1 .. Len(slot[b].idle)
        BY <3>1, <2>1, <2>4, <1>6
    <3>2. CASE i = Len(slot[b].idle) + 1
        BY <3>2, <1>4, <2>1, <1>6
    <3> QED
        BY <2>3, <3>1, <3>2
  <2> QED
      BY <1>4, <2>6, <2>7
<1> QED
    BY <1>1, <1>3, <1>4

\* A request gives its tab back to the stack once.
LEMMA LeaseRelease ==
    ASSUME IInv, NEW r \in Requests, Release(r)
    PROVE  LeaseInv'
<1> DEFINE t == lease[r]
<1>1. t \in Tabs
    BY DEF IInv, TypeOK, LeaseWhileServed, Served, Release
<1>2. /\ PutBack(t)
      /\ UNCHANGED probe
      /\ lease'[r] = None
      /\ \A s \in Requests : s # r => lease'[s] = lease[s]
    BY DEF IInv, TypeOK, Release
<1>3. Holding(t)
    BY DEF Holding
<1>4. ASSUME NEW u \in Tabs
      PROVE  /\ Holding(u)' => Holding(u)
             /\ Holding(u)' => u # t
    BY <1>1, <1>2, PoolAssumption DEF IInv, LeaseInv, OneHolder, Holding
<1> HIDE DEF t
<1>5. IdleInService'
    BY <1>1, <1>2, <1>3, <1>4, IdleAgain DEF IInv
<1>6. OneHolder'
    BY <1>2 DEF IInv, LeaseInv, OneHolder
<1>7. OwnTabs'
    BY <1>1, <1>2, <1>3, PutBackLease DEF IInv, LeaseInv, OwnTabs
<1> QED
    BY <1>5, <1>6, <1>7 DEF LeaseInv

\* So does a probe.
LEMMA LeaseProbeRelease ==
    ASSUME IInv, NEW p \in Probes, ProbeRelease(p)
    PROVE  LeaseInv'
<1> DEFINE t == probe[p]
<1>1. t \in Tabs
    BY DEF IInv, TypeOK, ProbeRelease
<1>2. /\ PutBack(t)
      /\ UNCHANGED lease
      /\ probe'[p] = None
      /\ \A q \in Probes : q # p => probe'[q] = probe[q]
    BY DEF IInv, TypeOK, ProbeRelease
<1>3. Holding(t)
    BY DEF Holding
<1>4. ASSUME NEW u \in Tabs
      PROVE  /\ Holding(u)' => Holding(u)
             /\ Holding(u)' => u # t
    BY <1>1, <1>2, PoolAssumption DEF IInv, LeaseInv, OneHolder, Holding
<1> HIDE DEF t
<1>5. IdleInService'
    BY <1>1, <1>2, <1>3, <1>4, IdleAgain DEF IInv
<1>6. OneHolder'
    BY <1>2 DEF IInv, LeaseInv, OneHolder
<1>7. OwnTabs'
    BY <1>1, <1>2, <1>3, PutBackLease DEF IInv, LeaseInv, OwnTabs
<1> QED
    BY <1>5, <1>6, <1>7 DEF LeaseInv

\* Tabs join an empty slot: all of them new, none of them held.
LEMMA LeaseAdd ==
    ASSUME IInv, NEW a \in Accounts, AddWorkers(a)
    PROVE  LeaseInv'
<1>1. PICK T \in SUBSET {t \in Tabs : AccountOf[t] = a /\ Unused(t)} :
          IsFiniteSet(T) /\ AddWorkersOp(a, T)
    BY DEF AddWorkers
<1> DEFINE s == IF a \in slots THEN slot[a]
                               ELSE NewSlot(DefaultOrder, DefaultProvider)
<1>2. PICK q \in [1 .. Cardinality(T) -> T] :
          /\ \A i, j \in 1 .. Cardinality(T) : i # j => q[i] # q[j]
          /\ slot' = [slot EXCEPT ![a] = [s EXCEPT !.workers = @ \cup T,
                                                   !.idle = @ \o q]]
    BY <1>1 DEF AddWorkersOp
<1>3. /\ slots' = slots \cup {a}
      /\ retired' = retired \ T
      /\ UNCHANGED <<lease, probe>>
    BY <1>1 DEF AddWorkers, AddWorkersOp
<1>4. slot[a].workers = {} /\ slot[a].idle \in Seq(Tabs)
    BY DEF AddWorkers, IInv, TypeOK, SlotType
<1>5. Len(slot[a].idle) = 0
    BY <1>4 DEF IInv, LeaseInv, IdleInService
<1>6. s.workers = {} /\ s.idle = <<>> /\ s \in SlotType
    BY <1>4, <1>5, NewSlotType, PoolAssumption DEF NewSlot, IInv, TypeOK
<1>7. Cardinality(T) \in Nat
    BY <1>1, FS_CardinalityType
<1>8. <<>> \o q = q /\ Len(q) = Cardinality(T)
    BY <1>7
<1>9. /\ slot'[a].workers = T
      /\ slot'[a].idle = q
      /\ \A b \in Accounts : b # a => slot'[b] = slot[b]
    BY <1>2, <1>6, <1>8 DEF IInv, TypeOK, SlotType
<1>10. \A t \in T : AccountOf[t] = a /\ ~Holding(t)
    BY DEF Unused
<1>11. \A t : Holding(t) <=> \/ \E r \in Requests : lease'[r] = t
                             \/ \E p \in Probes : probe'[p] = t
    BY <1>3 DEF Holding
<1>12. OneHolder'
    BY <1>3 DEF IInv, LeaseInv, OneHolder
<1>13. OwnTabs'
    BY <1>3, <1>9, <1>10 DEF IInv, LeaseInv, OwnTabs
<1>14. IdleInService'
  <2>1. ASSUME NEW b \in Accounts, b # a
        PROVE  /\ \A i, j \in 1 .. Len(slot'[b].idle) :
                    i # j => slot'[b].idle[i] # slot'[b].idle[j]
               /\ \A i \in 1 .. Len(slot'[b].idle) :
                    /\ b \in slots'
                    /\ slot'[b].idle[i] \in slot'[b].workers \ retired'
                    /\ AccountOf[slot'[b].idle[i]] = b
                    /\ ~Holding(slot[b].idle[i])
      BY <2>1, <1>3, <1>9 DEF IInv, LeaseInv, IdleInService
  <2>2. /\ \A i, j \in 1 .. Len(slot'[a].idle) :
             i # j => slot'[a].idle[i] # slot'[a].idle[j]
        /\ \A i \in 1 .. Len(slot'[a].idle) :
             /\ a \in slots'
             /\ slot'[a].idle[i] \in slot'[a].workers \ retired'
             /\ AccountOf[slot'[a].idle[i]] = a
             /\ ~Holding(q[i])
      BY <1>2, <1>3, <1>8, <1>9, <1>10
  <2>3. ASSUME NEW b \in Accounts
        PROVE  /\ \A i, j \in 1 .. Len(slot'[b].idle) :
                    i # j => slot'[b].idle[i] # slot'[b].idle[j]
               /\ \A i \in 1 .. Len(slot'[b].idle) :
                    /\ b \in slots'
                    /\ slot'[b].idle[i] \in slot'[b].workers \ retired'
                    /\ AccountOf[slot'[b].idle[i]] = b
                    /\ ~Holding(slot'[b].idle[i])
      BY <2>1, <2>2, <1>9
  <2> QED
      BY <2>3, <1>3 DEF IdleInService, Holding
<1> QED
    BY <1>12, <1>13, <1>14 DEF LeaseInv

\* Retirement empties the idle stack of one account; the tabs it retires
\* are on no other.
LEMMA LeaseRetire ==
    ASSUME IInv, NEW a \in Accounts, Retire(a)
    PROVE  LeaseInv'
<1>1. /\ slot'[a].idle = <<>>
      /\ \A b \in Accounts : /\ slot'[b].workers = slot[b].workers
                             /\ b # a => slot'[b].idle = slot[b].idle
      /\ retired' = retired \cup slot[a].workers
      /\ UNCHANGED <<slots, lease, probe>>
    BY DEF Retire, RetireOp, IInv, TypeOK, SlotType
<1>2. OneHolder' /\ OwnTabs'
    BY <1>1 DEF IInv, LeaseInv, OneHolder, OwnTabs
<1>3. \A b \in Accounts : b # a =>
        slot[b].workers \ retired = slot'[b].workers \ retired'
    BY <1>1 DEF IInv, LeaseInv, OwnTabs
<1>4. IdleInService'
    BY <1>1, <1>3 DEF IInv, LeaseInv, IdleInService, Holding
<1> QED
    BY <1>2, <1>4 DEF LeaseInv

\* A slot is made or removed only without live tabs.
LEMMA LeaseSlots ==
    ASSUME IInv, NEW a \in Accounts, Register(a) \/ RemoveSlot(a)
    PROVE  LeaseInv'
<1>1. \A b \in Accounts : slot[b] \in SlotType
    BY DEF IInv, TypeOK
<1>2. slot[a].workers \subseteq retired => slot[a].idle = <<>>
    BY <1>1 DEF IInv, LeaseInv, IdleInService, SlotType
<1>3. /\ slot'[a].idle = <<>> /\ slot'[a].workers = {}
      /\ \A b \in Accounts : b # a => slot'[b] = slot[b]
      /\ \A b \in Accounts : b # a => (b \in slots <=> b \in slots')
      /\ UNCHANGED <<retired, lease, probe>>
  <2>1. CASE Register(a)
    <3>1. slot[a].workers = {} /\ slot[a].idle = <<>>
        BY <2>1, <1>2 DEF Register
    <3>2. PICK o \in Orders, p \in Providers : RegisterOp(a, o, p)
        BY <2>1 DEF Register
    <3> QED
        BY <2>1, <3>1, <3>2, <1>1
        DEF Register, RegisterOp, NewSlot, IInv, TypeOK, SlotType, requestVars
  <2>2. CASE RemoveSlot(a)
      BY <2>2 DEF RemoveSlot, RemoveOp, NewSlot, IInv, TypeOK, requestVars
  <2> QED
      BY <2>1, <2>2
<1>4. OneHolder' /\ OwnTabs'
    BY <1>3 DEF IInv, LeaseInv, OneHolder, OwnTabs
<1>5. IdleInService'
    BY <1>3 DEF IInv, LeaseInv, IdleInService, Holding
<1> QED
    BY <1>4, <1>5 DEF LeaseInv

\* Every step keeps the inductive invariant.
LEMMA LeaseNext == IInv /\ [Next]_vars => IInv'
<1> SUFFICES ASSUME IInv, [Next]_vars PROVE LeaseInv' /\ LeaseWhileServed'
    BY TypeNext DEF IInv
<1>1. CASE UNCHANGED vars
    BY <1>1, LeaseQuiet
    DEF vars, IInv, LeaseWhileServed
<1>2. ASSUME NEW r \in Requests,
             Arrive(r) \/ RequestStep(r) \/ TimeOut(r) \/ SeeLimit(r)
      PROVE  LeaseInv' /\ LeaseWhileServed'
  <2>1. CASE Take(r)
    <3>1. LeaseWhileServed'
        BY <2>1, PoolAssumption
        DEF Take, IInv, TypeOK, LeaseWhileServed, Served
    <3> QED
        BY <2>1, <3>1, LeaseTake
  <2>2. CASE Release(r)
    <3>1. LeaseWhileServed'
        BY <2>2
        DEF Release, WakeRequests, WokenStage, IInv, TypeOK,
            LeaseWhileServed, Served
    <3> QED
        BY <2>2, <3>1, LeaseRelease
  <2>3. CASE LimitOffline(r) \/ Report(r)
    <3>1. LeaseInv'
        BY <2>3, RoutingQuiet DEF LimitOffline, Report, IInv
    <3>2. LeaseWhileServed'
        BY <2>3 DEF LimitOffline, Report, IInv, TypeOK, LeaseWhileServed, Served
    <3> QED
        BY <3>1, <3>2
  <2>4. CASE \/ Arrive(r) \/ Wait(r) \/ TimeOut(r)
             \/ RefusePinned(r) \/ RefuseNoAccount(r) \/ RefuseToQueue(r)
    <3>1. LeaseInv'
        BY <2>4, LeaseQuiet
        DEF Arrive, Wait, TimeOut, RefusePinned, RefuseNoAccount,
            RefuseToQueue, Refuse, poolVars, IInv
    <3>2. LeaseWhileServed'
        BY <2>4
        DEF Arrive, Wait, TimeOut, RefusePinned, RefuseNoAccount,
            RefuseToQueue, Refuse, MayWait, NothingFree, AtLock,
            IInv, TypeOK, LeaseWhileServed, Served
    <3> QED
        BY <3>1, <3>2
  <2>5. CASE Enter(r) \/ EnterFails(r) \/ Finish(r) \/ SeeLimit(r) \/ Handled(r)
    <3>1. LeaseInv'
        BY <2>5, LeaseQuiet
        DEF Enter, EnterFails, Finish, SeeLimit, Handled, Leave, poolVars, IInv
    <3>2. LeaseWhileServed'
        BY <2>5
        DEF Enter, EnterFails, Finish, SeeLimit, Handled, Leave,
            IInv, TypeOK, LeaseWhileServed, Served
    <3> QED
        BY <3>1, <3>2
  <2> QED
      BY <1>2, <2>1, <2>2, <2>3, <2>4, <2>5 DEF RequestStep
<1>3. ASSUME NEW p \in Probes, ProbeTake(p) \/ ProbeRelease(p)
      PROVE  LeaseInv' /\ LeaseWhileServed'
  <2>1. LeaseInv'
      BY <1>3, LeaseProbeTake, LeaseProbeRelease
  <2>2. LeaseWhileServed'
      BY <1>3
      DEF ProbeTake, ProbeRelease, NotifyAll, WakeRequests, WokenStage,
          requestVars, IInv, TypeOK, LeaseWhileServed, Served
  <2> QED
      BY <2>1, <2>2
<1>4. ASSUME NEW a \in Accounts,
             \/ DrainBegin(a) \/ DrainScan(a) \/ DrainTimeOut(a) \/ DrainEnd(a)
      PROVE  LeaseInv' /\ LeaseWhileServed'
    BY <1>4, LeaseQuiet
    DEF DrainBegin, DrainBeginOp, DrainScan, DrainTimeOut, DrainEnd, poolVars, requestVars,
        IInv, LeaseWhileServed
<1>5. ASSUME NEW a \in Accounts, ControlStep(a)
      PROVE  LeaseInv' /\ LeaseWhileServed'
  <2>1. LeaseWhileServed'
    <3>1. CASE Register(a) \/ SetOrder(a) \/ Suspend(a) \/ RemoveSlot(a)
        BY <3>1
        DEF Register, SetOrder, Suspend, RemoveSlot, RegisterOp, RemoveOp,
            requestVars, IInv, LeaseWhileServed
    <3>2. CASE Resume(a) \/ AddWorkers(a) \/ Retire(a)
      <4>1. lease' = lease /\ pc' = WakeRequests(pc)
          BY <3>2
          DEF Resume, ResumeOp, AddWorkers, AddWorkersOp, Retire, RetireOp,
              NotifyAll
      <4> QED
          BY <4>1
          DEF WakeRequests, WokenStage, IInv, TypeOK, LeaseWhileServed, Served
    <3> QED
        BY <1>5, <3>1, <3>2 DEF ControlStep
  <2>2. CASE SetOrder(a)
    <3>1. \A b \in Accounts : /\ slot'[b].workers = slot[b].workers
                              /\ slot'[b].idle = slot[b].idle
        BY <2>2 DEF SetOrder, IInv, TypeOK, SlotType
    <3> QED
        BY <2>1, <2>2, <3>1, LeaseQuiet DEF SetOrder, requestVars, IInv
  <2>3. CASE Suspend(a) \/ Resume(a)
      BY <2>1, <2>3, RoutingQuiet DEF Suspend, Resume, ResumeOp, requestVars, IInv
  <2> QED
      BY <1>5, <2>1, <2>2, <2>3, LeaseAdd, LeaseRetire, LeaseSlots
      DEF ControlStep
<1> QED
    BY <1>1, <1>2, <1>3, <1>4, <1>5 DEF Next

\* The inductive invariant.
THEOREM LeaseSafety == Spec => []IInv
    BY LeaseInit, LeaseNext, PTL DEF Spec

\* Two requests, two probes, or a request and a probe never hold one tab.
THEOREM ExclusiveTab == Spec => []OneHolder
<1>1. IInv => OneHolder
    BY DEF IInv, LeaseInv
<1> QED
    BY <1>1, LeaseSafety, PTL

\* A tab that is free to be taken is live, listed once, and held by nobody.
THEOREM IdleTabsAreFree == Spec => []IdleInService
<1>1. IInv => IdleInService
    BY DEF IInv, LeaseInv
<1> QED
    BY <1>1, LeaseSafety, PTL

-----------------------------------------------------------------------------
(* The state after start_account of every account *)

\* The tabs of an account, in some order, each once.
LEMMA OnlineIdle ==
    ASSUME IsFiniteSet(Tabs), NEW a \in Accounts, NEW p \in Providers
    PROVE  LET T == {t \in Tabs : AccountOf[t] = a}
               q == OnlineSlot(a, p).idle
           IN  /\ q \in Seq(Tabs)
               /\ \A i, j \in 1 .. Len(q) : i # j => q[i] # q[j]
               /\ \A i \in 1 .. Len(q) : q[i] \in T
<1> DEFINE T == {t \in Tabs : AccountOf[t] = a}
           N == Cardinality(T)
           IsOrder(f) == \A i, j \in 1 .. N : i # j => f[i] # f[j]
           q == CHOOSE f \in [1 .. N -> T] : IsOrder(f)
<1>1. IsFiniteSet(T)
    BY FS_Subset
<1>2. N \in Nat /\ ExistsBijection(1 .. N, T)
    BY <1>1, FS_CardinalityType
<1>3. PICK f \in Bijection(1 .. N, T) : TRUE
    BY <1>2 DEF ExistsBijection
<1>4. f \in [1 .. N -> T] /\ IsOrder(f)
    BY <1>3 DEF Bijection, Injection, IsInjective
<1>5. q \in [1 .. N -> T] /\ IsOrder(q)
  <2> HIDE DEF IsOrder
  <2> QED
      BY <1>4
<1>6. OnlineSlot(a, p).idle = q
    BY DEF OnlineSlot, NewSlot
<1> HIDE DEF q, N
<1>7. q \in [1 .. N -> Tabs]
    BY <1>5
<1>8. q \in Seq(Tabs) /\ Len(q) = N
    BY <1>2, <1>7
<1> QED
    BY <1>5, <1>6, <1>8

\* Every account up, with all its tabs idle, is a state of the pool.
LEMMA OnlineInv == IsFiniteSet(Tabs) /\ Online => IInv
<1> SUFFICES ASSUME IsFiniteSet(Tabs), Online PROVE IInv
    OBVIOUS
<1>1. \A a \in Accounts :
        /\ slot[a].workers = {t \in Tabs : AccountOf[t] = a}
        /\ slot[a].idle = OnlineSlot(a, DefaultProvider).idle
    BY DEF Online, OnlineSlot, NewSlot
<1>2. \A a \in Accounts :
        /\ slot[a].idle \in Seq(Tabs)
        /\ \A i, j \in 1 .. Len(slot[a].idle) :
             i # j => slot[a].idle[i] # slot[a].idle[j]
        /\ \A i \in 1 .. Len(slot[a].idle) :
             slot[a].idle[i] \in Tabs /\ AccountOf[slot[a].idle[i]] = a
    BY <1>1, OnlineIdle, PoolAssumption
<1>3. slot \in [Accounts -> SlotType]
  <2>1. ASSUME NEW a \in Accounts
        PROVE  slot[a] \in SlotType
    <3>1. PICK T, q : slot[a] = [NewSlot(DefaultOrder, DefaultProvider)
                                   EXCEPT !.workers = T, !.idle = q]
        BY DEF Online, OnlineSlot
    <3>2. slot[a] = [order |-> DefaultOrder, provider |-> DefaultProvider,
                     schedulable |-> TRUE, workers |-> T, idle |-> q,
                     checkedOut |-> 0]
        BY <3>1 DEF NewSlot
    <3>3. slot[a].workers = T /\ slot[a].idle = q
        BY <3>2
    <3>4. slot[a].workers \subseteq Tabs
        BY <1>1
    <3>5. slot[a].idle \in Seq(Tabs)
        BY <1>2
    <3>6. DefaultOrder \in Nat /\ DefaultProvider \in Providers
        BY PoolAssumption
    <3>7. T \in SUBSET Tabs /\ q \in Seq(Tabs)
        BY <3>3, <3>4, <3>5
    <3> QED
        BY <3>2, <3>6, <3>7 DEF SlotType
  <2> QED
      BY <2>1 DEF Online
<1>4. TypeOK
    BY <1>3 DEF Online, Quiet, TypeOK, Stages, Outcomes, DrainStages
<1>5. \A t \in Tabs : ~Holding(t)
    BY PoolAssumption DEF Online, Quiet, Holding
<1>6. IdleInService
    BY <1>1, <1>2, <1>5 DEF IdleInService, Online, Quiet
<1>7. OneHolder /\ LeaseWhileServed
    BY DEF Online, Quiet, OneHolder, LeaseWhileServed, Served
<1>8. OwnTabs
    BY <1>1 DEF OwnTabs, Online
<1> QED
    BY <1>4, <1>6, <1>7, <1>8 DEF IInv, LeaseInv

-----------------------------------------------------------------------------
(* No tab is lost *)

\* Tab t of account a can be accounted for.
Placed(a, t) ==
    \/ t \in IdleTabs(a)
    \/ \E r \in Requests : lease[r] = t /\ pc[r] \in Served
    \/ \E p \in Probes : probe[p] = t

\* NoTabLost, tab by tab.
LEMMA PlacedMeans ==
    NoTabLost <=> \A a \in slots : \A t \in slot[a].workers \ retired : Placed(a, t)
BY DEF NoTabLost, Placed

\* What is on an idle stack stays placed if the stack does not shrink.
LEMMA IdleStays ==
    ASSUME NEW a, slot'[a].idle = slot[a].idle
    PROVE  IdleTabs(a)' = IdleTabs(a)
BY DEF IdleTabs

\* A step that takes no tab off a stack and ends no lease of a tab.
LEMMA PlacedQuiet ==
    ASSUME NoTabLost,
           \A a \in slots' : \A t \in slot'[a].workers \ retired' :
             a \in slots /\ t \in slot[a].workers \ retired,
           \A a \in slots' : slot'[a].workers \ retired' # {} =>
             slot'[a].idle = slot[a].idle,
           \A r \in Requests : pc[r] \in Served =>
             pc'[r] \in Served /\ lease'[r] = lease[r],
           UNCHANGED probe
    PROVE  NoTabLost'
<1> SUFFICES ASSUME NEW a \in slots', NEW t \in slot'[a].workers \ retired'
             PROVE  Placed(a, t)'
    BY DEF NoTabLost, Placed
<1>1. Placed(a, t)
    BY PlacedMeans
<1>2. IdleTabs(a)' = IdleTabs(a)
    BY IdleStays
<1> QED
    BY <1>1, <1>2 DEF Placed

\* A tab popped is held by its new holder; retired tabs above it are not in
\* service.
LEMMA PlacedPop ==
    ASSUME TypeOK, NoTabLost, NEW w, NEW a \in Accounts, NEW t \in Tabs,
           NEW n \in Nat, Pop(w, a, t, n)
    PROVE  /\ UNCHANGED <<slots, retired>>
           /\ \A b \in Accounts : slot'[b].workers = slot[b].workers
           /\ \A b \in Accounts : \A u \in slot[b].workers \ retired :
                u \in IdleTabs(b) => u = t \/ u \in IdleTabs(b)'
<1>1. PICK i \in 1 .. Len(slot[a].idle) :
          /\ TopIdle(a, i, t)
          /\ slot' = [slot EXCEPT ![a].idle = Popped(@, i),
                                  ![a].checkedOut = @ + n]
          /\ UNCHANGED <<slots, retired>>
    BY DEF Pop
<1>2. \A b \in Accounts : slot[b] \in SlotType
    BY DEF TypeOK
<1>3. /\ slot'[a].idle = Popped(slot[a].idle, i)
      /\ \A b \in Accounts : b # a => slot'[b].idle = slot[b].idle
      /\ \A b \in Accounts : slot'[b].workers = slot[b].workers
    BY <1>1, <1>2 DEF TypeOK, SlotType
<1>4. /\ Len(slot'[a].idle) = i - 1
      /\ \A j \in 1 .. (i - 1) : slot'[a].idle[j] = slot[a].idle[j]
    BY <1>2, <1>3, PoppedType DEF SlotType
<1>5. ASSUME NEW u \in IdleTabs(a), u \notin retired, u # t
      PROVE  u \in IdleTabs(a)'
  <2>1. PICK j \in 1 .. Len(slot[a].idle) : u = slot[a].idle[j]
      BY DEF IdleTabs
  <2>2. j # i /\ ~(j \in (i + 1) .. Len(slot[a].idle))
      BY <1>1, <1>5, <2>1 DEF TopIdle
  <2>3. Len(slot[a].idle) \in Nat
      BY <1>2 DEF SlotType
  <2>4. j \in 1 .. (i - 1)
      BY <2>2, <2>3
  <2> QED
      BY <1>4, <2>1, <2>4 DEF IdleTabs
<1>6. \A b \in Accounts : b # a => IdleTabs(b)' = IdleTabs(b)
    BY <1>3, IdleStays
<1> QED
    BY <1>1, <1>3, <1>5, <1>6

\* A checkout moves the tab it pops to its request and loses no other.
LEMMA PlacedTake ==
    ASSUME IInv, NoTabLost, NEW r \in Requests, Take(r)
    PROVE  NoTabLost'
<1>1. PICK a \in Accounts, t \in Tabs :
          /\ Pop(want[r], a, t, 1)
          /\ lease' = [lease EXCEPT ![r] = t]
    BY DEF Take
<1>2. /\ UNCHANGED <<slots, retired>>
      /\ \A b \in Accounts : slot'[b].workers = slot[b].workers
      /\ \A b \in Accounts : \A u \in slot[b].workers \ retired :
           u \in IdleTabs(b) => u = t \/ u \in IdleTabs(b)'
    BY <1>1, PlacedPop DEF IInv
<1>3. /\ lease'[r] = t /\ pc'[r] \in Served
      /\ \A s \in Requests : s # r => lease'[s] = lease[s] /\ pc'[s] = pc[s]
      /\ pc[r] \notin Served
      /\ UNCHANGED probe
    BY <1>1 DEF Take, AtLock, Served, IInv, TypeOK
<1> SUFFICES ASSUME NEW b \in slots, NEW u \in slot[b].workers \ retired
             PROVE  Placed(b, u)'
    BY <1>2 DEF NoTabLost, Placed, IInv, TypeOK
<1>4. Placed(b, u) /\ b \in Accounts
    BY PlacedMeans DEF IInv, TypeOK
<1> QED
    BY <1>2, <1>3, <1>4 DEF Placed

\* The probe's checkout does the same.
LEMMA PlacedProbeTake ==
    ASSUME IInv, NoTabLost, NEW p \in Probes, ProbeTake(p)
    PROVE  NoTabLost'
<1>1. PICK a \in Accounts, t \in Tabs :
          Pop(NoWant, a, t, 0) /\ probe' = [probe EXCEPT ![p] = t]
    BY DEF ProbeTake
<1>2. /\ UNCHANGED <<slots, retired>>
      /\ \A b \in Accounts : slot'[b].workers = slot[b].workers
      /\ \A b \in Accounts : \A u \in slot[b].workers \ retired :
           u \in IdleTabs(b) => u = t \/ u \in IdleTabs(b)'
    BY <1>1, PlacedPop DEF IInv
<1>3. /\ probe'[p] = t /\ probe[p] = None
      /\ \A q \in Probes : q # p => probe'[q] = probe[q]
      /\ UNCHANGED <<lease, pc>>
    BY <1>1 DEF ProbeTake, requestVars, IInv, TypeOK
<1> SUFFICES ASSUME NEW b \in slots, NEW u \in slot[b].workers \ retired
             PROVE  Placed(b, u)'
    BY <1>2 DEF NoTabLost, Placed, IInv, TypeOK
<1>4. Placed(b, u) /\ b \in Accounts /\ u \in Tabs
    BY PlacedMeans DEF IInv, TypeOK, SlotType
<1> QED
    BY <1>2, <1>3, <1>4, PoolAssumption DEF Placed

\* A tab given back is idle again if it is still in service.
LEMMA PlacedPutBack ==
    ASSUME TypeOK, LeaseInv, NEW t \in Tabs, PutBack(t)
    PROVE  /\ UNCHANGED <<slots, retired>>
           /\ \A b \in Accounts : slot'[b].workers = slot[b].workers
           /\ \A b \in Accounts : \A u \in IdleTabs(b) : u \in IdleTabs(b)'
           /\ \A b \in slots : t \in slot[b].workers \ retired =>
                t \in IdleTabs(b)'
<1> DEFINE a == AccountOf[t]
<1>1. \A b \in Accounts : slot[b].idle \in Seq(Tabs)
    BY DEF TypeOK, SlotType
<1>2. /\ UNCHANGED <<slots, retired>>
      /\ \A b \in Accounts : slot'[b].workers = slot[b].workers
      /\ \A b \in Accounts :
           slot'[b].idle \in {slot[b].idle, Append(slot[b].idle, t)}
      /\ a \in slots /\ MayIdle(t) => slot'[a].idle = Append(slot[a].idle, t)
    BY DEF PutBack, TypeOK, SlotType
<1>3. ASSUME NEW b \in Accounts, slot'[b].idle = Append(slot[b].idle, t)
      PROVE  /\ \A u \in IdleTabs(b) : u \in IdleTabs(b)'
             /\ t \in IdleTabs(b)'
  <2>1. /\ Len(slot'[b].idle) = Len(slot[b].idle) + 1
        /\ slot'[b].idle[Len(slot[b].idle) + 1] = t
        /\ \A i \in 1 .. Len(slot[b].idle) :
             slot'[b].idle[i] = slot[b].idle[i]
        /\ Len(slot[b].idle) \in Nat
      BY <1>1, <1>3
  <2> QED
      BY <2>1 DEF IdleTabs
<1>4. \A b \in Accounts : \A u \in IdleTabs(b) : u \in IdleTabs(b)'
    BY <1>2, <1>3, IdleStays
<1>5. ASSUME NEW b \in slots, t \in slot[b].workers \ retired
      PROVE  t \in IdleTabs(b)'
  <2>1. b \in Accounts /\ a = b /\ MayIdle(t)
      BY <1>5 DEF LeaseInv, OwnTabs, MayIdle, TypeOK
  <2> QED
      BY <2>1, <1>2, <1>3
<1> QED
    BY <1>2, <1>4, <1>5

\* A release puts the tab back, or its slot is gone.
LEMMA PlacedRelease ==
    ASSUME IInv, NoTabLost, NEW r \in Requests, Release(r)
    PROVE  NoTabLost'
<1>1. lease[r] \in Tabs
    BY DEF IInv, TypeOK, LeaseWhileServed, Served, Release
<1>2. /\ UNCHANGED <<slots, retired>>
      /\ \A b \in Accounts : slot'[b].workers = slot[b].workers
      /\ \A b \in Accounts : \A u \in IdleTabs(b) : u \in IdleTabs(b)'
      /\ \A b \in slots : lease[r] \in slot[b].workers \ retired =>
           lease[r] \in IdleTabs(b)'
    BY <1>1, PlacedPutBack DEF IInv, Release
<1>3. /\ \A s \in Requests : s # r => lease'[s] = lease[s]
      /\ \A s \in Requests : s # r /\ pc[s] \in Served => pc'[s] = pc[s]
      /\ UNCHANGED probe
    BY DEF Release, WakeRequests, WokenStage, Served, IInv, TypeOK
<1> SUFFICES ASSUME NEW b \in slots, NEW u \in slot[b].workers \ retired
             PROVE  Placed(b, u)'
    BY <1>2 DEF NoTabLost, Placed, IInv, TypeOK
<1>4. Placed(b, u) /\ b \in Accounts
    BY PlacedMeans DEF IInv, TypeOK
<1> QED
    BY <1>2, <1>3, <1>4 DEF Placed

\* So does the probe's.
LEMMA PlacedProbeRelease ==
    ASSUME IInv, NoTabLost, NEW p \in Probes, ProbeRelease(p)
    PROVE  NoTabLost'
<1>1. probe[p] \in Tabs
    BY DEF IInv, TypeOK, ProbeRelease
<1>2. /\ UNCHANGED <<slots, retired>>
      /\ \A b \in Accounts : slot'[b].workers = slot[b].workers
      /\ \A b \in Accounts : \A u \in IdleTabs(b) : u \in IdleTabs(b)'
      /\ \A b \in slots : probe[p] \in slot[b].workers \ retired =>
           probe[p] \in IdleTabs(b)'
    BY <1>1, PlacedPutBack DEF IInv, ProbeRelease
<1>3. /\ \A q \in Probes : q # p => probe'[q] = probe[q]
      /\ \A s \in Requests : pc[s] \in Served => pc'[s] = pc[s]
      /\ UNCHANGED lease
    BY DEF ProbeRelease, NotifyAll, WakeRequests, WokenStage, Served,
           IInv, TypeOK
<1> SUFFICES ASSUME NEW b \in slots, NEW u \in slot[b].workers \ retired
             PROVE  Placed(b, u)'
    BY <1>2 DEF NoTabLost, Placed, IInv, TypeOK
<1>4. Placed(b, u) /\ b \in Accounts
    BY PlacedMeans DEF IInv, TypeOK
<1> QED
    BY <1>2, <1>3, <1>4 DEF Placed

\* The numbering that add_workers gives its tabs leaves none of them out.
LEMMA NumberingComplete ==
    ASSUME NEW T, IsFiniteSet(T), NEW q \in [1 .. Cardinality(T) -> T],
           \A i, j \in 1 .. Cardinality(T) : i # j => q[i] # q[j]
    PROVE  \A t \in T : \E i \in 1 .. Cardinality(T) : q[i] = t
<1> DEFINE S == 1 .. Cardinality(T)
<1>1. Cardinality(T) \in Nat
    BY FS_CardinalityType
<1>2. Cardinality(S) = Cardinality(T)
    BY <1>1, FS_Interval
<1>3. q \in Injection(S, T)
    BY DEF Injection, IsInjective
<1>4. q \in Surjection(S, T)
    BY <1>2, <1>3, FS_Injection
<1> QED
    BY <1>4 DEF Surjection

\* New tabs are idle.
LEMMA PlacedAdd ==
    ASSUME IInv, NoTabLost, NEW a \in Accounts, AddWorkers(a)
    PROVE  NoTabLost'
<1>1. PICK T \in SUBSET {t \in Tabs : AccountOf[t] = a /\ Unused(t)} :
          IsFiniteSet(T) /\ AddWorkersOp(a, T)
    BY DEF AddWorkers
<1> DEFINE s == IF a \in slots THEN slot[a]
                               ELSE NewSlot(DefaultOrder, DefaultProvider)
<1>2. PICK q \in [1 .. Cardinality(T) -> T] :
          /\ \A i, j \in 1 .. Cardinality(T) : i # j => q[i] # q[j]
          /\ slot' = [slot EXCEPT ![a] = [s EXCEPT !.workers = @ \cup T,
                                                   !.idle = @ \o q]]
    BY <1>1 DEF AddWorkersOp
<1>3. /\ slots' = slots \cup {a}
      /\ retired' = retired
      /\ UNCHANGED <<lease, probe>>
      /\ \A r \in Requests : pc[r] \in Served => pc'[r] = pc[r]
    BY <1>1 DEF AddWorkers, AddWorkersOp, Unused, NotifyAll, WakeRequests,
                WokenStage, Served
<1>4. slot[a].workers = {} /\ slot[a].idle \in Seq(Tabs)
    BY DEF AddWorkers, IInv, TypeOK, SlotType
<1>5. Len(slot[a].idle) = 0
    BY <1>4 DEF IInv, LeaseInv, IdleInService
<1>6. s.workers = {} /\ s.idle = <<>> /\ s \in SlotType
    BY <1>4, <1>5, NewSlotType, PoolAssumption DEF NewSlot, IInv, TypeOK
<1>7. Cardinality(T) \in Nat
    BY <1>1, FS_CardinalityType
<1>8. <<>> \o q = q /\ Len(q) = Cardinality(T)
    BY <1>7
<1>9. /\ slot'[a].workers = T
      /\ slot'[a].idle = q
      /\ \A b \in Accounts : b # a => slot'[b] = slot[b]
    BY <1>2, <1>6, <1>8 DEF IInv, TypeOK, SlotType
<1>10. \A t \in T : t \in IdleTabs(a)'
  <2>1. \A t \in T : \E i \in 1 .. Cardinality(T) : q[i] = t
      BY <1>1, <1>2, NumberingComplete
  <2>2. IdleTabs(a)' = {q[i] : i \in 1 .. Cardinality(T)}
      BY <1>8, <1>9 DEF IdleTabs
  <2> QED
      BY <2>1, <2>2
<1> SUFFICES ASSUME NEW b \in slots', NEW u \in slot'[b].workers \ retired'
             PROVE  Placed(b, u)'
    BY DEF NoTabLost, Placed
<1>11. CASE b = a
    BY <1>9, <1>10, <1>11 DEF Placed
<1>12. CASE b # a
  <2>1. b \in slots /\ b \in Accounts
      BY <1>3, <1>12 DEF IInv, TypeOK
  <2>2. slot'[b] = slot[b]
      BY <1>9, <1>12, <2>1
  <2>3. Placed(b, u)
      BY <1>3, <2>1, <2>2, PlacedMeans
  <2>4. IdleTabs(b)' = IdleTabs(b)
      BY <2>2, IdleStays
  <2> QED
      BY <1>3, <2>3, <2>4 DEF Placed
<1> QED
    BY <1>11, <1>12

\* Turning routing on or off changes nobody's tabs.
LEMMA RoutingKeepsTabs ==
    ASSUME TypeOK, NEW a, NEW on \in BOOLEAN, SetRouting(a, on)
    PROVE  \A b \in Accounts : /\ slot'[b].workers = slot[b].workers
                               /\ slot'[b].idle = slot[b].idle
BY DEF SetRouting, TypeOK, SlotType

\* No control call loses a tab.
LEMMA PlacedControl ==
    ASSUME IInv, NoTabLost, NEW a \in Accounts, ControlStep(a)
    PROVE  NoTabLost'
<1>1. \A b \in Accounts : slot[b] \in SlotType
    BY DEF IInv, TypeOK
<1>2. /\ \A r \in Requests : pc[r] \in Served =>
           pc'[r] \in Served /\ lease'[r] = lease[r]
      /\ UNCHANGED probe
  <2>1. CASE Register(a) \/ SetOrder(a) \/ Suspend(a) \/ RemoveSlot(a)
      BY <2>1 DEF Register, RegisterOp, SetOrder, Suspend, RemoveSlot, RemoveOp,
                  requestVars
  <2>2. CASE Resume(a) \/ AddWorkers(a) \/ Retire(a)
    <3>1. pc' = WakeRequests(pc) /\ UNCHANGED <<lease, probe>>
        BY <2>2 DEF Resume, ResumeOp, AddWorkers, AddWorkersOp, Retire,
                    RetireOp, NotifyAll
    <3> QED
        BY <3>1 DEF WakeRequests, WokenStage, Served
  <2> QED
      BY <2>1, <2>2 DEF ControlStep
<1>3. slots \subseteq Accounts
    BY DEF IInv, TypeOK
<1>4. CASE SetOrder(a) \/ Suspend(a) \/ Resume(a)
  <2>1. /\ UNCHANGED <<slots, retired>>
        /\ \A b \in Accounts : /\ slot'[b].workers = slot[b].workers
                               /\ slot'[b].idle = slot[b].idle
    <3>1. CASE SetOrder(a)
        BY <3>1 DEF SetOrder, IInv, TypeOK, SlotType
    <3>2. CASE Suspend(a) \/ Resume(a)
        BY <3>2, RoutingKeepsTabs DEF Suspend, Resume, ResumeOp, IInv
    <3> QED
        BY <1>4, <3>1, <3>2
  <2> QED
      BY <1>2, <1>3, <2>1, PlacedQuiet
<1>5. CASE Register(a) \/ RemoveSlot(a)
  <2>1. /\ \A b \in slots' : b # a => b \in slots
        /\ \A b \in Accounts : b # a => slot'[b] = slot[b]
        /\ slot'[a].workers = {}
        /\ slots' \subseteq Accounts
        /\ UNCHANGED retired
    <3>1. CASE Register(a)
      <4>1. PICK o \in Orders, p \in Providers : RegisterOp(a, o, p)
          BY <3>1 DEF Register
      <4>2. slot[a].workers = {}
          BY <3>1 DEF Register
      <4> QED
          BY <4>1, <4>2, <1>1, <1>3
          DEF RegisterOp, NewSlot, IInv, TypeOK, SlotType
    <3>2. CASE RemoveSlot(a)
        BY <3>2, <1>3 DEF RemoveSlot, RemoveOp, NewSlot, IInv, TypeOK
    <3> QED
        BY <1>5, <3>1, <3>2
  <2> QED
      BY <1>2, <1>3, <2>1, PlacedQuiet
<1>6. CASE Retire(a)
  <2>1. /\ UNCHANGED slots
        /\ retired' = retired \cup slot[a].workers
        /\ \A b \in Accounts : slot'[b].workers = slot[b].workers
        /\ \A b \in Accounts : b # a => slot'[b].idle = slot[b].idle
      BY <1>6 DEF Retire, RetireOp, IInv, TypeOK, SlotType
  <2>2. slot'[a].workers \ retired' = {}
      BY <2>1
  <2>3. \A b \in slots' : slot'[b].workers \ retired' # {} =>
          slot'[b].idle = slot[b].idle
      BY <1>3, <2>1, <2>2
  <2>4. \A b \in slots' : \A t \in slot'[b].workers \ retired' :
          b \in slots /\ t \in slot[b].workers \ retired
      BY <1>3, <2>1
  <2> QED
      BY <1>2, <2>3, <2>4, PlacedQuiet
<1> QED
    BY <1>4, <1>5, <1>6, PlacedAdd DEF ControlStep

\* No step of the pool loses a tab.
LEMMA PlacedNext ==
    ASSUME IInv, NoTabLost, [Next]_vars
    PROVE  NoTabLost'
<1>1. slots \subseteq Accounts
    BY DEF IInv, TypeOK
<1>2. ASSUME NEW r \in Requests,
             Arrive(r) \/ RequestStep(r) \/ TimeOut(r) \/ SeeLimit(r)
      PROVE  NoTabLost'
  <2>1. CASE LimitOffline(r) \/ Report(r)
    <3>1. /\ UNCHANGED <<slots, retired, lease, probe>>
          /\ \A b \in Accounts : /\ slot'[b].workers = slot[b].workers
                                 /\ slot'[b].idle = slot[b].idle
        BY <2>1, RoutingKeepsTabs DEF LimitOffline, Report, IInv
    <3>2. \A s \in Requests : pc[s] \in Served => pc'[s] \in Served
        BY <2>1 DEF LimitOffline, Report, Served, IInv, TypeOK
    <3> QED
        BY <1>1, <3>1, <3>2, PlacedQuiet
  <2>2. CASE \/ Arrive(r) \/ Wait(r) \/ TimeOut(r)
             \/ RefusePinned(r) \/ RefuseNoAccount(r) \/ RefuseToQueue(r)
    <3>1. UNCHANGED <<slots, slot, retired, lease, probe>>
        BY <2>2 DEF Arrive, Wait, TimeOut, RefusePinned, RefuseNoAccount,
                    RefuseToQueue, Refuse, poolVars
    <3>2. \A s \in Requests : pc[s] \in Served => pc'[s] \in Served
        BY <2>2 DEF Arrive, Wait, TimeOut, RefusePinned, RefuseNoAccount,
                    RefuseToQueue, Refuse, MayWait, NothingFree, AtLock,
                    Served, IInv, TypeOK
    <3> QED
        BY <1>1, <3>1, <3>2, PlacedQuiet
  <2>3. CASE Enter(r) \/ EnterFails(r) \/ Finish(r) \/ SeeLimit(r) \/ Handled(r)
    <3>1. UNCHANGED <<slots, slot, retired, lease, probe>>
        BY <2>3 DEF Enter, EnterFails, Finish, SeeLimit, Handled, Leave,
                    poolVars
    <3>2. \A s \in Requests : pc[s] \in Served => pc'[s] \in Served
        BY <2>3 DEF Enter, EnterFails, Finish, SeeLimit, Handled, Leave,
                    Served, IInv, TypeOK
    <3> QED
        BY <1>1, <3>1, <3>2, PlacedQuiet
  <2> QED
      BY <1>2, <2>1, <2>2, <2>3, PlacedTake, PlacedRelease DEF RequestStep
<1>3. ASSUME NEW a \in Accounts,
             \/ DrainBegin(a) \/ DrainScan(a) \/ DrainTimeOut(a) \/ DrainEnd(a)
      PROVE  NoTabLost'
    BY <1>1, <1>3, PlacedQuiet
    DEF DrainBegin, DrainBeginOp, DrainScan, DrainTimeOut, DrainEnd, poolVars,
        requestVars
<1>4. CASE UNCHANGED vars
    BY <1>1, <1>4, PlacedQuiet DEF vars
<1> QED
    BY <1>2, <1>3, <1>4, PlacedProbeTake, PlacedProbeRelease, PlacedControl
    DEF Next

\* No exit path of a lease, and no change of an account's tabs, leaves a tab
\* in service that is neither idle nor driven by anybody.
THEOREM NoTabEverLost == Spec => []NoTabLost
<1>1. Init => NoTabLost
    BY DEF Init, Quiet, NewSlot, NoTabLost
<1>2. IInv /\ NoTabLost /\ [Next]_vars => NoTabLost'
    BY PlacedNext
<1> QED
    BY <1>1, <1>2, LeaseSafety, PTL DEF Spec

-----------------------------------------------------------------------------
(* The pool implements TabLease *)

\* Holder names the client that holds a tab.
HolderKnown ==
    /\ \A t \in Tabs, c \in Clients : TabOf(c) = t => Holder(t) = c
    /\ \A t \in Tabs : ~Holding(t) => Holder(t) = None
    /\ \A t \in Tabs : Holding(t) => \E c \in Clients : TabOf(c) = t

\* Where a tab has one client at most, Holder names it.
LEMMA OneHolderKnown == TypeOK /\ OneHolder => HolderKnown
<1> SUFFICES ASSUME TypeOK, OneHolder PROVE HolderKnown
    OBVIOUS
<1>1. \A t \in Tabs, c, d \in Clients : TabOf(c) = t /\ TabOf(d) = t => c = d
    BY PoolAssumption DEF Clients, TabOf, OneHolder
<1>2. \A t \in Tabs : Holding(t) <=> \E c \in Clients : TabOf(c) = t
    BY PoolAssumption DEF Clients, TabOf, Holding
<1>3. ASSUME NEW t \in Tabs, NEW c \in Clients, TabOf(c) = t
      PROVE  Holder(t) = c
  <2>1. Holder(t) = CHOOSE d \in Clients : TabOf(d) = t
      BY <1>2, <1>3 DEF Holder
  <2>2. \E d \in Clients : TabOf(d) = t
      BY <1>3
  <2> QED
      BY <1>1, <1>3, <2>1, <2>2
<1> QED
    BY <1>2, <1>3 DEF HolderKnown, Holder

\* Holder names the client after a step as well.
LEMMA HolderKnownNext == IInv' => HolderKnown'
<1>1. IInv => HolderKnown
    BY OneHolderKnown DEF IInv, LeaseInv
<1> QED
    BY <1>1, PTL

\* A client that neither takes nor gives back u leaves its holder alone.
LEMMA SameHolder ==
    ASSUME HolderKnown, HolderKnown', NEW u \in Tabs,
           \A c \in Clients : TabOf(c) = u <=> TabOf(c)' = u
    PROVE  Holder(u)' = Holder(u)
<1>1. CASE \E c \in Clients : TabOf(c) = u
    BY <1>1 DEF HolderKnown
<1>2. CASE ~\E c \in Clients : TabOf(c) = u
    BY <1>2 DEF HolderKnown
<1> QED
    BY <1>1, <1>2

\* Where a step leaves a tab's phase alone.
LEMMA SamePhase ==
    ASSUME UNCHANGED retired, NEW u \in Tabs,
           slot'[AccountOf[u]].workers = slot[AccountOf[u]].workers
    PROVE  Phase(u)' = Phase(u)
BY DEF Phase

\* A step that moves no tab and changes no holder maps to a stutter.
LEMMA MapQuiet ==
    ASSUME HolderKnown, HolderKnown', UNCHANGED <<retired, lease, probe>>,
           \A b \in Accounts : slot'[b].workers = slot[b].workers
    PROVE  UNCHANGED Leasing!vars
<1>1. \A u \in Tabs : Phase(u)' = Phase(u)
    BY SamePhase, PoolAssumption
<1>2. \A u \in Tabs : Holder(u)' = Holder(u)
    BY SameHolder DEF TabOf
<1> QED
    BY <1>1, <1>2 DEF Leasing!vars

\* A checkout maps to Grant.
LEMMA MapGrant ==
    ASSUME HolderKnown, HolderKnown', UNCHANGED retired,
           \A b \in Accounts : slot'[b].workers = slot[b].workers,
           NEW t \in Tabs, NEW c \in Clients,
           Phase(t) = "serving", ~Holding(t),
           TabOf(c)' = t, TabOf(c) = None,
           \A d \in Clients \ {c} : TabOf(d)' = TabOf(d)
    PROVE  Leasing!Next
<1>1. \A u \in Tabs : Phase(u)' = Phase(u)
    BY SamePhase, PoolAssumption
<1>2. \A u \in Tabs \ {t} : Holder(u)' = Holder(u)
    BY SameHolder, PoolAssumption
<1>3. Holder(t) = None /\ Holder(t)' = c
    BY DEF HolderKnown
<1>4. Leasing!Grant(t, c)
    BY <1>1, <1>2, <1>3 DEF Leasing!Grant
<1> QED
    BY <1>4 DEF Leasing!Next

\* A tab given back maps to Return.
LEMMA MapReturn ==
    ASSUME HolderKnown, HolderKnown', UNCHANGED retired,
           \A b \in Accounts : slot'[b].workers = slot[b].workers,
           NEW t \in Tabs, NEW c \in Clients,
           TabOf(c) = t, TabOf(c)' = None,
           \A d \in Clients \ {c} : TabOf(d)' = TabOf(d)
    PROVE  Leasing!Next
<1>1. \A u \in Tabs : Phase(u)' = Phase(u)
    BY SamePhase, PoolAssumption
<1>2. \A u \in Tabs \ {t} : Holder(u)' = Holder(u)
    BY SameHolder, PoolAssumption
<1>3. Holder(t) = c /\ c # None
    BY PoolAssumption DEF HolderKnown, Clients
<1>4. Holder(t)' = None
  <2>1. \A d \in Clients : TabOf(d)' # t
      BY <1>3, PoolAssumption DEF HolderKnown
  <2> QED
      BY <2>1 DEF HolderKnown
<1>5. Leasing!Return(t)
    BY <1>1, <1>2, <1>3, <1>4 DEF Leasing!Return
<1> QED
    BY <1>5 DEF Leasing!Next

\* Take maps to Grant.
LEMMA MapTake ==
    ASSUME IInv, HolderKnown, HolderKnown', NEW r \in Requests, Take(r)
    PROVE  Leasing!Next
<1>1. PICK a \in Accounts, t \in Tabs :
          /\ Pop(want[r], a, t, 1)
          /\ lease' = [lease EXCEPT ![r] = t]
    BY DEF Take
<1>2. /\ UNCHANGED retired /\ ~Holding(t)
      /\ \A b \in Accounts : slot'[b].workers = slot[b].workers
    BY <1>1, PopLease DEF IInv
<1>3. Phase(t) = "serving"
    BY <1>1 DEF Pop, TopIdle, IInv, LeaseInv, IdleInService, Phase
<1>4. /\ TabOf(r)' = t /\ r \in Clients
      /\ \A d \in Clients \ {r} : TabOf(d)' = TabOf(d)
    BY <1>1 DEF Take, TabOf, Clients, IInv, TypeOK
<1>5. TabOf(r) = None
    BY DEF Take, AtLock, Served, TabOf, IInv, TypeOK, LeaseWhileServed
<1> QED
    BY <1>2, <1>3, <1>4, <1>5, MapGrant

\* ProbeTake maps to Grant.
LEMMA MapProbeTake ==
    ASSUME IInv, HolderKnown, HolderKnown', NEW p \in Probes, ProbeTake(p)
    PROVE  Leasing!Next
<1>1. PICK a \in Accounts, t \in Tabs :
          Pop(NoWant, a, t, 0) /\ probe' = [probe EXCEPT ![p] = t]
    BY DEF ProbeTake
<1>2. /\ UNCHANGED retired /\ ~Holding(t)
      /\ \A b \in Accounts : slot'[b].workers = slot[b].workers
    BY <1>1, PopLease DEF IInv
<1>3. Phase(t) = "serving"
    BY <1>1 DEF Pop, TopIdle, IInv, LeaseInv, IdleInService, Phase
<1>4. /\ TabOf(p)' = t /\ TabOf(p) = None /\ p \in Clients
      /\ \A d \in Clients \ {p} : TabOf(d)' = TabOf(d)
    BY <1>1, PoolAssumption
    DEF ProbeTake, requestVars, TabOf, Clients, IInv, TypeOK
<1> QED
    BY <1>2, <1>3, <1>4, MapGrant

\* Release maps to Return.
LEMMA MapRelease ==
    ASSUME IInv, HolderKnown, HolderKnown', NEW r \in Requests, Release(r)
    PROVE  Leasing!Next
<1>1. lease[r] \in Tabs
    BY DEF IInv, TypeOK, LeaseWhileServed, Served, Release
<1>2. /\ UNCHANGED retired
      /\ \A b \in Accounts : slot'[b].workers = slot[b].workers
    BY <1>1, PlacedPutBack DEF IInv, Release
<1>3. /\ TabOf(r) = lease[r] /\ TabOf(r)' = None /\ r \in Clients
      /\ \A d \in Clients \ {r} : TabOf(d)' = TabOf(d)
    BY DEF Release, TabOf, Clients, IInv, TypeOK
<1> QED
    BY <1>1, <1>2, <1>3, MapReturn

\* ProbeRelease maps to Return.
LEMMA MapProbeRelease ==
    ASSUME IInv, HolderKnown, HolderKnown', NEW p \in Probes, ProbeRelease(p)
    PROVE  Leasing!Next
<1>1. probe[p] \in Tabs
    BY DEF IInv, TypeOK, ProbeRelease
<1>2. /\ UNCHANGED retired
      /\ \A b \in Accounts : slot'[b].workers = slot[b].workers
    BY <1>1, PlacedPutBack DEF IInv, ProbeRelease
<1>3. /\ TabOf(p) = probe[p] /\ TabOf(p)' = None /\ p \in Clients
      /\ \A d \in Clients \ {p} : TabOf(d)' = TabOf(d)
    BY PoolAssumption DEF ProbeRelease, TabOf, Clients, IInv, TypeOK
<1> QED
    BY <1>1, <1>2, <1>3, MapReturn

\* Tabs join their account's slot, which had none.
LEMMA MapAdd ==
    ASSUME IInv, HolderKnown, HolderKnown', NEW a \in Accounts, AddWorkers(a)
    PROVE  Leasing!Next
<1>1. PICK T \in SUBSET {t \in Tabs : AccountOf[t] = a /\ Unused(t)} :
          IsFiniteSet(T) /\ AddWorkersOp(a, T)
    BY DEF AddWorkers
<1> DEFINE s == IF a \in slots THEN slot[a]
                               ELSE NewSlot(DefaultOrder, DefaultProvider)
<1>2. /\ retired' = retired
      /\ UNCHANGED <<lease, probe>>
      /\ \A b \in Accounts : b # a => slot'[b] = slot[b]
    BY <1>1 DEF AddWorkersOp, Unused, IInv, TypeOK
<1>3. s \in SlotType /\ s.workers = {} /\ slot[a].workers = {}
    BY NewSlotType, PoolAssumption
    DEF AddWorkers, NewSlot, IInv, TypeOK
<1>4. slot'[a].workers = T
    BY <1>1, <1>3 DEF AddWorkersOp, IInv, TypeOK, SlotType
<1>5. \A u \in Tabs : Holder(u)' = Holder(u)
    BY <1>2, SameHolder DEF TabOf
<1>6. \A u \in T : Phase(u) = "unborn" /\ Phase(u)' = "serving"
    BY <1>2, <1>4 DEF Unused, Phase
<1>7. \A u \in Tabs \ T : Phase(u)' = Phase(u)
  <2> SUFFICES ASSUME NEW u \in Tabs \ T PROVE Phase(u)' = Phase(u)
      OBVIOUS
  <2>1. CASE AccountOf[u] = a
      BY <2>1, <1>2, <1>3, <1>4 DEF Phase
  <2>2. CASE AccountOf[u] # a
      BY <2>2, <1>2, SamePhase, PoolAssumption
  <2> QED
      BY <2>1, <2>2
<1>8. Leasing!Join(T)
    BY <1>5, <1>6, <1>7 DEF Leasing!Join
<1> QED
    BY <1>8 DEF Leasing!Next

\* The tabs of a slot leave service; some may have left before.
LEMMA MapRetire ==
    ASSUME IInv, HolderKnown, HolderKnown', NEW a \in Accounts, Retire(a)
    PROVE  Leasing!Next
<1> DEFINE T == slot[a].workers
<1>1. /\ retired' = retired \cup T
      /\ UNCHANGED <<lease, probe>>
      /\ \A b \in Accounts : slot'[b].workers = slot[b].workers
    BY DEF Retire, RetireOp, IInv, TypeOK, SlotType
<1>2. T \in SUBSET Tabs /\ \A u \in T : AccountOf[u] = a
    BY DEF IInv, TypeOK, SlotType, LeaseInv, OwnTabs
<1>3. \A u \in Tabs : Holder(u)' = Holder(u)
    BY <1>1, SameHolder DEF TabOf
<1>4. \A u \in T : Phase(u) # "unborn" /\ Phase(u)' = "gone"
    BY <1>1, <1>2 DEF Phase
<1>5. \A u \in Tabs \ T : Phase(u)' = Phase(u)
    BY <1>1, PoolAssumption DEF Phase
<1>6. Leasing!Retire(T)
    BY <1>2, <1>3, <1>4, <1>5 DEF Leasing!Retire
<1> QED
    BY <1>2, <1>6 DEF Leasing!Next

\* A slot made or removed has no tab in service before or after.
LEMMA MapSlots ==
    ASSUME IInv, HolderKnown, HolderKnown', NEW a \in Accounts,
           Register(a) \/ RemoveSlot(a)
    PROVE  UNCHANGED Leasing!vars
<1>1. /\ slot'[a].workers = {} /\ slot[a].workers \subseteq retired
      /\ \A b \in Accounts : b # a => slot'[b] = slot[b]
      /\ UNCHANGED <<retired, lease, probe>>
  <2>1. CASE Register(a)
    <3>1. PICK o \in Orders, p \in Providers : RegisterOp(a, o, p)
        BY <2>1 DEF Register
    <3>2. slot[a].workers = {} /\ slot[a] \in SlotType
        BY <2>1 DEF Register, IInv, TypeOK
    <3> QED
        BY <3>1, <3>2
        DEF RegisterOp, NewSlot, IInv, TypeOK, SlotType, requestVars
  <2>2. CASE RemoveSlot(a)
      BY <2>2 DEF RemoveSlot, RemoveOp, NewSlot, IInv, TypeOK, requestVars
  <2> QED
      BY <2>1, <2>2
<1>2. \A u \in Tabs : Holder(u)' = Holder(u)
    BY <1>1, SameHolder DEF TabOf
<1>3. \A u \in Tabs : Phase(u)' = Phase(u)
  <2> SUFFICES ASSUME NEW u \in Tabs PROVE Phase(u)' = Phase(u)
      OBVIOUS
  <2>1. CASE AccountOf[u] = a
      BY <2>1, <1>1 DEF Phase
  <2>2. CASE AccountOf[u] # a
      BY <2>2, <1>1, SamePhase, PoolAssumption
  <2> QED
      BY <2>1, <2>2
<1> QED
    BY <1>2, <1>3 DEF Leasing!vars

\* Every step of the pool maps to a step of TabLease or a stutter.
LEMMA MapNext ==
    ASSUME IInv, HolderKnown, HolderKnown', [Next]_vars
    PROVE  [Leasing!Next]_Leasing!vars
<1>1. ASSUME NEW r \in Requests,
             Arrive(r) \/ RequestStep(r) \/ TimeOut(r) \/ SeeLimit(r)
      PROVE  [Leasing!Next]_Leasing!vars
  <2>1. CASE LimitOffline(r) \/ Report(r)
      BY <2>1, RoutingKeepsTabs, MapQuiet DEF LimitOffline, Report, IInv
  <2>2. CASE \/ Arrive(r) \/ Wait(r) \/ TimeOut(r)
             \/ RefusePinned(r) \/ RefuseNoAccount(r) \/ RefuseToQueue(r)
      BY <2>2, MapQuiet
      DEF Arrive, Wait, TimeOut, RefusePinned, RefuseNoAccount,
          RefuseToQueue, Refuse, poolVars
  <2>3. CASE Enter(r) \/ EnterFails(r) \/ Finish(r) \/ SeeLimit(r) \/ Handled(r)
      BY <2>3, MapQuiet
      DEF Enter, EnterFails, Finish, SeeLimit, Handled, Leave, poolVars
  <2> QED
      BY <1>1, <2>1, <2>2, <2>3, MapTake, MapRelease DEF RequestStep
<1>2. ASSUME NEW a \in Accounts,
             \/ DrainBegin(a) \/ DrainScan(a) \/ DrainTimeOut(a) \/ DrainEnd(a)
      PROVE  [Leasing!Next]_Leasing!vars
    BY <1>2, MapQuiet
    DEF DrainBegin, DrainBeginOp, DrainScan, DrainTimeOut, DrainEnd, poolVars,
        requestVars
<1>3. ASSUME NEW a \in Accounts, ControlStep(a)
      PROVE  [Leasing!Next]_Leasing!vars
  <2>1. CASE SetOrder(a)
    <3>1. \A b \in Accounts : slot'[b].workers = slot[b].workers
        BY <2>1 DEF SetOrder, IInv, TypeOK, SlotType
    <3> QED
        BY <2>1, <3>1, MapQuiet DEF SetOrder, requestVars
  <2>2. CASE Suspend(a) \/ Resume(a)
      BY <2>2, RoutingKeepsTabs, MapQuiet
      DEF Suspend, Resume, ResumeOp, requestVars, IInv
  <2> QED
      BY <1>3, <2>1, <2>2, MapSlots, MapAdd, MapRetire DEF ControlStep
<1>4. CASE UNCHANGED vars
    BY <1>4, MapQuiet DEF vars
<1> QED
    BY <1>1, <1>2, <1>3, <1>4, MapProbeTake, MapProbeRelease DEF Next

\* The pool starts where TabLease does.
LEMMA MapInit == Init => Leasing!Init
<1> SUFFICES ASSUME Init PROVE Leasing!Init
    OBVIOUS
<1>1. \A t \in Tabs : Phase(t) = "unborn"
    BY PoolAssumption DEF Init, Quiet, NewSlot, Phase
<1>2. \A t \in Tabs : Holder(t) = None
    BY PoolAssumption DEF Init, Quiet, Holding, Holder
<1> QED
    BY <1>1, <1>2 DEF Leasing!Init

\* Whatever requests, probes, drains and the control plane do, the pool
\* grants free tabs in service, takes them back from their holders, and never
\* grants a retired one again.
THEOREM PoolImplementsTabLease == Spec => ImplementsTabLease
<1>1. IInv /\ IInv' /\ [Next]_vars => [Leasing!Next]_Leasing!vars
    BY MapNext, OneHolderKnown, HolderKnownNext DEF IInv, LeaseInv
<1> QED
    BY <1>1, MapInit, LeaseSafety, PTL DEF Spec, ImplementsTabLease, Leasing!Spec

-----------------------------------------------------------------------------
(* The wait queue *)

\* An account that is routed to has no retired tab: retire_account stops
\* routing, and routing resumes only on an account that was not retired.
RoutedLive ==
    \A a \in slots : slot[a].schedulable => slot[a].workers \cap retired = {}

WakeInv == NoLostWakeup /\ WaiterHasWaker /\ RoutedLive

-----------------------------------------------------------------------------
(* Who sleeps, and on what *)

\* After notify_all nobody sleeps.
LEMMA NobodySleeps ==
    ASSUME NEW f \in [Requests -> Stages], pc' = WakeRequests(f)
    PROVE  NoLostWakeup' /\ WaiterHasWaker'
BY DEF WakeRequests, WokenStage, NoLostWakeup, WaiterHasWaker

\* A step that opens no account and frees no tab leaves nothing to take.
LEMMA NothingOpens ==
    ASSUME NEW r \in Requests, want'[r] = want[r], Eligible(want[r]) = {},
           \A a \in slots' : slot'[a].schedulable /\ Free(a)' =>
             /\ a \in slots /\ slot[a].schedulable /\ Free(a)
             /\ slot'[a].provider = slot[a].provider
    PROVE  Eligible(want[r])' = {}
BY DEF Eligible, Routable, Scope

\* Such a step keeps both invariants if the tabs held stay held.
LEMMA WakeQuiet ==
    ASSUME NoLostWakeup, WaiterHasWaker,
           \A r \in Requests : pc'[r] = "waiting" =>
             pc[r] = "waiting" /\ want'[r] = want[r],
           \A a \in slots' : slot'[a].schedulable /\ Free(a)' =>
             /\ a \in slots /\ slot[a].schedulable /\ Free(a)
             /\ slot'[a].provider = slot[a].provider,
           \A t \in Tabs : Holding(t) => Holding(t)'
    PROVE  NoLostWakeup' /\ WaiterHasWaker'
<1>1. NoLostWakeup'
    BY NothingOpens DEF NoLostWakeup
<1>2. WaiterHasWaker'
    BY DEF WaiterHasWaker
<1> QED
    BY <1>1, <1>2

\* Routing stays live where tabs and routing are not touched.
LEMMA LiveQuiet ==
    ASSUME RoutedLive,
           \A a \in slots' : slot'[a].schedulable =>
             /\ a \in slots /\ slot[a].schedulable
             /\ slot'[a].workers = slot[a].workers,
           retired' = retired
    PROVE  RoutedLive'
BY DEF RoutedLive

\* A step that leaves the slots alone and lets nobody sleep loses no wakeup.
LEMMA WakePool ==
    ASSUME WakeInv, UNCHANGED <<slots, slot, retired, lease, probe>>,
           \A r \in Requests : pc'[r] = "waiting" =>
             pc[r] = "waiting" /\ want'[r] = want[r]
    PROVE  WakeInv'
<1>1. /\ \A a \in slots' : slot'[a].schedulable /\ Free(a)' =>
           /\ a \in slots /\ slot[a].schedulable /\ Free(a)
           /\ slot'[a].provider = slot[a].provider
      /\ \A t \in Tabs : Holding(t) => Holding(t)'
    BY DEF Free, Holding
<1>2. NoLostWakeup' /\ WaiterHasWaker'
    BY <1>1, WakeQuiet DEF WakeInv
<1>3. RoutedLive'
    BY LiveQuiet DEF WakeInv
<1> QED
    BY <1>2, <1>3 DEF WakeInv

\* A request that goes to sleep sleeps on a tab that somebody holds.
LEMMA WakerFound ==
    ASSUME IInv, NoTabLost, RoutedLive, NEW r \in Requests, MayWait(r)
    PROVE  \E t \in Tabs : Holding(t) /\ want[r].pinned \in {None, AccountOf[t]}
<1>1. PICK a \in Serving(want[r]) : want[r].pinned \in {None, a}
    BY DEF MayWait, PinnedElsewhere
<1>2. /\ a \in slots /\ a \in Accounts
      /\ slot[a].schedulable /\ slot[a].workers # {}
      /\ a \in Routable(want[r])
    BY <1>1 DEF Serving, Routable, Scope, IInv, TypeOK
<1>3. PICK t \in slot[a].workers : TRUE
    BY <1>2
<1>4. t \in Tabs /\ AccountOf[t] = a /\ t \notin retired
    BY <1>2 DEF RoutedLive, IInv, TypeOK, SlotType, LeaseInv, OwnTabs
<1>5. ~Free(a)
    BY <1>2 DEF MayWait, NothingFree, Eligible
<1>6. t \notin IdleTabs(a)
    BY <1>4, <1>5 DEF IdleTabs, Free
<1>7. Holding(t)
    BY <1>2, <1>4, <1>6 DEF NoTabLost, Holding
<1> QED
    BY <1>1, <1>4, <1>7

\* A request sleeps only when there is nothing to take.
LEMMA WakeWait ==
    ASSUME IInv, NoTabLost, WakeInv, NEW r \in Requests, Wait(r)
    PROVE  WakeInv'
<1>1. UNCHANGED <<slots, slot, retired, want, lease, probe>>
    BY DEF Wait, poolVars
<1>2. \A s \in Requests : pc'[s] = "waiting" => s = r \/ pc[s] = "waiting"
    BY DEF Wait, IInv, TypeOK
<1>3. \A w : Eligible(w)' = Eligible(w)
    BY <1>1 DEF Eligible, Routable, Scope, Free
<1>4. \A t \in Tabs : Holding(t)' <=> Holding(t)
    BY <1>1 DEF Holding
<1>5. NoLostWakeup'
    BY <1>1, <1>2, <1>3 DEF WakeInv, NoLostWakeup, Wait, MayWait, NothingFree
<1>6. WaiterHasWaker'
    BY <1>1, <1>2, <1>4, WakerFound DEF WakeInv, WaiterHasWaker, Wait
<1>7. RoutedLive'
    BY <1>1, LiveQuiet DEF WakeInv
<1> QED
    BY <1>5, <1>6, <1>7 DEF WakeInv

-----------------------------------------------------------------------------
(* The steps that move tabs *)

\* A checkout opens nothing, and the tabs held stay held.
LEMMA PopOpensNothing ==
    ASSUME IInv, NEW w, NEW a \in Accounts, NEW t \in Tabs, NEW n \in Nat,
           Pop(w, a, t, n)
    PROVE  /\ UNCHANGED <<slots, retired>>
           /\ \A b \in Accounts :
                /\ slot'[b].schedulable = slot[b].schedulable
                /\ slot'[b].provider = slot[b].provider
                /\ slot'[b].workers = slot[b].workers
                /\ Free(b)' => Free(b)
<1>1. /\ UNCHANGED <<slots, retired>>
      /\ \A b \in Accounts :
           /\ slot'[b].schedulable = slot[b].schedulable
           /\ slot'[b].provider = slot[b].provider
           /\ slot'[b].workers = slot[b].workers
    BY DEF Pop, IInv, TypeOK, SlotType
<1>2. \A b \in Accounts : \A j \in 1 .. Len(slot'[b].idle) :
        j \in 1 .. Len(slot[b].idle) /\ slot'[b].idle[j] = slot[b].idle[j]
    BY PopLease DEF IInv
<1> QED
    BY <1>1, <1>2 DEF Free

\* A checkout makes no sleeper miss anything.
LEMMA WakeTake ==
    ASSUME IInv, WakeInv, NEW r \in Requests, Take(r)
    PROVE  WakeInv'
<1>1. PICK a \in Accounts, t \in Tabs :
          /\ Pop(want[r], a, t, 1)
          /\ lease' = [lease EXCEPT ![r] = t]
    BY DEF Take
<1>2. /\ UNCHANGED <<slots, retired>>
      /\ \A b \in Accounts :
           /\ slot'[b].schedulable = slot[b].schedulable
           /\ slot'[b].provider = slot[b].provider
           /\ slot'[b].workers = slot[b].workers
           /\ Free(b)' => Free(b)
    BY <1>1, PopOpensNothing
<1>3. slots \subseteq Accounts
    BY DEF IInv, TypeOK
<1>4. \A s \in Requests : pc'[s] = "waiting" =>
        pc[s] = "waiting" /\ want'[s] = want[s]
    BY DEF Take, IInv, TypeOK
<1>5. lease[r] = None
    BY DEF Take, AtLock, Served, IInv, TypeOK, LeaseWhileServed
<1>6. \A u \in Tabs : Holding(u) => Holding(u)'
    BY <1>1, <1>5, PoolAssumption DEF Take, Holding, IInv, TypeOK
<1>7. NoLostWakeup' /\ WaiterHasWaker'
    BY <1>2, <1>3, <1>4, <1>6, WakeQuiet DEF WakeInv
<1>8. RoutedLive'
    BY <1>2, <1>3, LiveQuiet DEF WakeInv
<1> QED
    BY <1>7, <1>8 DEF WakeInv

\* Nor does the probe's.
LEMMA WakeProbeTake ==
    ASSUME IInv, WakeInv, NEW p \in Probes, ProbeTake(p)
    PROVE  WakeInv'
<1>1. PICK a \in Accounts, t \in Tabs :
          Pop(NoWant, a, t, 0) /\ probe' = [probe EXCEPT ![p] = t]
    BY DEF ProbeTake
<1>2. /\ UNCHANGED <<slots, retired>>
      /\ \A b \in Accounts :
           /\ slot'[b].schedulable = slot[b].schedulable
           /\ slot'[b].provider = slot[b].provider
           /\ slot'[b].workers = slot[b].workers
           /\ Free(b)' => Free(b)
    BY <1>1, PopOpensNothing
<1>3. slots \subseteq Accounts
    BY DEF IInv, TypeOK
<1>4. UNCHANGED <<pc, want, lease>>
    BY DEF ProbeTake, requestVars
<1>5. \A u \in Tabs : Holding(u) => Holding(u)'
    BY <1>1, <1>4, PoolAssumption DEF ProbeTake, Holding, IInv, TypeOK
<1>6. NoLostWakeup' /\ WaiterHasWaker'
    BY <1>2, <1>3, <1>4, <1>5, WakeQuiet DEF WakeInv
<1>7. RoutedLive'
    BY <1>2, <1>3, LiveQuiet DEF WakeInv
<1> QED
    BY <1>6, <1>7 DEF WakeInv

\* A release wakes everybody.
LEMMA WakeRelease ==
    ASSUME IInv, WakeInv,
           \/ \E r \in Requests : Release(r)
           \/ \E p \in Probes : ProbeRelease(p)
    PROVE  WakeInv'
<1>1. PICK t : PutBack(t)
    BY DEF Release, ProbeRelease
<1>2. PICK f \in [Requests -> Stages] : pc' = WakeRequests(f)
    BY DEF Release, ProbeRelease, NotifyAll, Stages, IInv, TypeOK
<1>3. NoLostWakeup' /\ WaiterHasWaker'
    BY <1>2, NobodySleeps
<1>4. /\ UNCHANGED <<slots, retired>>
      /\ \A b \in Accounts : /\ slot'[b].schedulable = slot[b].schedulable
                             /\ slot'[b].workers = slot[b].workers
    BY <1>1 DEF PutBack, IInv, TypeOK, SlotType
<1>5. RoutedLive'
    BY <1>4, LiveQuiet DEF WakeInv, IInv, TypeOK
<1> QED
    BY <1>3, <1>5 DEF WakeInv

\* Stopping the routing of an account takes something away at most.
LEMMA WakeStopRouting ==
    ASSUME IInv, WakeInv, NEW a, SetRouting(a, FALSE),
           UNCHANGED <<slots, retired, lease, probe>>,
           \A r \in Requests : pc'[r] = "waiting" =>
             pc[r] = "waiting" /\ want'[r] = want[r]
    PROVE  WakeInv'
<1>1. \A b \in Accounts :
        /\ slot'[b].workers = slot[b].workers /\ slot'[b].idle = slot[b].idle
        /\ slot'[b].provider = slot[b].provider
        /\ slot'[b].schedulable => slot[b].schedulable
    BY DEF SetRouting, IInv, TypeOK, SlotType
<1>2. slots \subseteq Accounts
    BY DEF IInv, TypeOK
<1>3. \A b \in Accounts : Free(b)' => Free(b)
    BY <1>1 DEF Free
<1>4. \A t \in Tabs : Holding(t) => Holding(t)'
    BY DEF Holding
<1>5. NoLostWakeup' /\ WaiterHasWaker'
    BY <1>1, <1>2, <1>3, <1>4, WakeQuiet DEF WakeInv
<1>6. RoutedLive'
    BY <1>1, <1>2, LiveQuiet DEF WakeInv
<1> QED
    BY <1>5, <1>6 DEF WakeInv

-----------------------------------------------------------------------------
(* The control plane *)

\* A new place in the rotation opens nothing.
LEMMA WakeSetOrder ==
    ASSUME IInv, WakeInv, NEW a \in Accounts, SetOrder(a)
    PROVE  WakeInv'
<1>1. /\ UNCHANGED <<slots, retired, pc, want, lease, probe>>
      /\ \A b \in Accounts :
           /\ slot'[b].workers = slot[b].workers /\ slot'[b].idle = slot[b].idle
           /\ slot'[b].provider = slot[b].provider
           /\ slot'[b].schedulable = slot[b].schedulable
    BY DEF SetOrder, requestVars, IInv, TypeOK, SlotType
<1>2. slots \subseteq Accounts
    BY DEF IInv, TypeOK
<1>3. \A b \in Accounts : Free(b)' => Free(b)
    BY <1>1 DEF Free
<1>4. \A t \in Tabs : Holding(t) => Holding(t)'
    BY <1>1 DEF Holding
<1>5. NoLostWakeup' /\ WaiterHasWaker'
    BY <1>1, <1>2, <1>3, <1>4, WakeQuiet DEF WakeInv
<1>6. RoutedLive'
    BY <1>1, <1>2, LiveQuiet DEF WakeInv
<1> QED
    BY <1>5, <1>6 DEF WakeInv

\* The slot made or removed has no idle tab.
LEMMA WakeSlots ==
    ASSUME IInv, WakeInv, NEW a \in Accounts, Register(a) \/ RemoveSlot(a)
    PROVE  WakeInv'
<1>1. \A b \in Accounts : slot[b] \in SlotType
    BY DEF IInv, TypeOK
<1>2. slot[a].workers \subseteq retired => slot[a].idle = <<>>
    BY <1>1 DEF IInv, LeaseInv, IdleInService, SlotType
<1>3. /\ slot'[a].idle = <<>> /\ slot'[a].workers = {}
      /\ \A b \in Accounts : b # a => slot'[b] = slot[b]
      /\ \A b \in slots' : b # a => b \in slots
      /\ slots' \subseteq Accounts
      /\ UNCHANGED <<retired, pc, want, lease, probe>>
  <2>1. CASE Register(a)
    <3>1. slot[a].workers = {} /\ slot[a].idle = <<>>
        BY <2>1, <1>2 DEF Register
    <3>2. PICK o \in Orders, p \in Providers : RegisterOp(a, o, p)
        BY <2>1 DEF Register
    <3> QED
        BY <3>1, <3>2, <1>1
        DEF RegisterOp, NewSlot, IInv, TypeOK, SlotType, requestVars
  <2>2. CASE RemoveSlot(a)
      BY <2>2 DEF RemoveSlot, RemoveOp, NewSlot, IInv, TypeOK, requestVars
  <2> QED
      BY <2>1, <2>2
<1>4. ~Free(a)'
    BY <1>3 DEF Free
<1>5. \A b \in Accounts : b # a => (Free(b)' => Free(b))
    BY <1>3 DEF Free
<1>6. \A b \in slots' : slot'[b].schedulable /\ Free(b)' =>
        /\ b \in slots /\ slot[b].schedulable /\ Free(b)
        /\ slot'[b].provider = slot[b].provider
    BY <1>3, <1>4, <1>5
<1>7. \A t \in Tabs : Holding(t) => Holding(t)'
    BY <1>3 DEF Holding
<1>8. NoLostWakeup' /\ WaiterHasWaker'
    BY <1>3, <1>6, <1>7, WakeQuiet DEF WakeInv
<1>9. RoutedLive'
    BY <1>3 DEF WakeInv, RoutedLive
<1> QED
    BY <1>8, <1>9 DEF WakeInv

\* Resuming, adding and retiring wake everybody.
LEMMA WakeNotify ==
    ASSUME IInv, WakeInv, NEW a \in Accounts,
           Resume(a) \/ AddWorkers(a) \/ Retire(a)
    PROVE  WakeInv'
<1>1. pc' = WakeRequests(pc)
    BY DEF Resume, ResumeOp, AddWorkers, AddWorkersOp, Retire, RetireOp,
           NotifyAll
<1>2. NoLostWakeup' /\ WaiterHasWaker'
    BY <1>1, NobodySleeps DEF IInv, TypeOK
<1>3. \A b \in Accounts : slot[b] \in SlotType
    BY DEF IInv, TypeOK
<1>4. CASE Resume(a)
  <2>1. /\ UNCHANGED <<slots, retired>>
        /\ slot[a].workers \cap retired = {}
        /\ slot'[a].workers = slot[a].workers
        /\ \A b \in Accounts : b # a => slot'[b] = slot[b]
      BY <1>3, <1>4 DEF Resume, ResumeOp, SetRouting, IInv, TypeOK, SlotType
  <2> QED
      BY <1>2, <2>1 DEF WakeInv, RoutedLive, IInv, TypeOK
<1>5. CASE AddWorkers(a)
  <2>1. PICK T \in SUBSET {t \in Tabs : AccountOf[t] = a /\ Unused(t)} :
            AddWorkersOp(a, T)
      BY <1>5 DEF AddWorkers
  <2>2. /\ retired' = retired
        /\ T \cap retired = {}
        /\ slots' = slots \cup {a}
        /\ \A b \in Accounts : b # a => slot'[b] = slot[b]
      BY <2>1 DEF AddWorkersOp, Unused, IInv, TypeOK
  <2>3. slot'[a].workers \subseteq T
    <3> DEFINE s == IF a \in slots THEN slot[a]
                                   ELSE NewSlot(DefaultOrder, DefaultProvider)
    <3>1. s \in SlotType /\ s.workers = {}
        BY <1>3, <1>5, NewSlotType, PoolAssumption DEF AddWorkers, NewSlot
    <3>2. PICK q \in [1 .. Cardinality(T) -> T] :
            slot' = [slot EXCEPT ![a] = [s EXCEPT !.workers = @ \cup T,
                                                  !.idle = @ \o q]]
        BY <2>1 DEF AddWorkersOp
    <3> HIDE DEF s
    <3> QED
        BY <3>1, <3>2 DEF IInv, TypeOK, SlotType
  <2>4. RoutedLive'
    <3> SUFFICES ASSUME NEW b \in slots', slot'[b].schedulable
                 PROVE  slot'[b].workers \cap retired' = {}
        BY DEF RoutedLive
    <3>1. CASE b = a
        BY <3>1, <2>2, <2>3
    <3>2. CASE b # a
        BY <3>2, <2>2 DEF WakeInv, RoutedLive, IInv, TypeOK
    <3> QED
        BY <3>1, <3>2
  <2> QED
      BY <1>2, <2>4 DEF WakeInv
<1>6. CASE Retire(a)
  <2>1. /\ UNCHANGED slots
        /\ retired' = retired \cup slot[a].workers
        /\ slot'[a].schedulable = FALSE
        /\ \A b \in Accounts : b # a => slot'[b] = slot[b]
      BY <1>3, <1>6 DEF Retire, RetireOp, IInv, TypeOK, SlotType
  <2>2. \A b \in Accounts : b # a => slot[b].workers \cap slot[a].workers = {}
      BY DEF IInv, LeaseInv, OwnTabs
  <2> QED
      BY <1>2, <2>1, <2>2 DEF WakeInv, RoutedLive, IInv, TypeOK
<1> QED
    BY <1>4, <1>5, <1>6

-----------------------------------------------------------------------------
\* Every step of the pool keeps the three parts of WakeInv.
LEMMA WakeNext ==
    ASSUME IInv, NoTabLost, WakeInv, [Next]_vars
    PROVE  WakeInv'
<1>1. ASSUME NEW r \in Requests,
             Arrive(r) \/ RequestStep(r) \/ TimeOut(r) \/ SeeLimit(r)
      PROVE  WakeInv'
  <2>1. CASE LimitOffline(r) \/ Report(r)
    <3>1. /\ UNCHANGED <<slots, retired, lease, probe, want>>
          /\ SetRouting(AccountOf[lease[r]], FALSE)
        BY <2>1 DEF LimitOffline, Report
    <3>2. \A s \in Requests : pc'[s] = "waiting" => pc[s] = "waiting"
        BY <2>1 DEF LimitOffline, Report, IInv, TypeOK
    <3> QED
        BY <3>1, <3>2, WakeStopRouting
  <2>2. CASE \/ Arrive(r) \/ TimeOut(r)
             \/ RefusePinned(r) \/ RefuseNoAccount(r) \/ RefuseToQueue(r)
    <3>1. UNCHANGED <<slots, slot, retired, lease, probe>>
        BY <2>2 DEF Arrive, TimeOut, RefusePinned, RefuseNoAccount,
                    RefuseToQueue, Refuse, poolVars
    <3>2. \A s \in Requests : pc'[s] = "waiting" =>
            pc[s] = "waiting" /\ want'[s] = want[s]
        BY <2>2 DEF Arrive, TimeOut, RefusePinned, RefuseNoAccount,
                    RefuseToQueue, Refuse, IInv, TypeOK
    <3> QED
        BY <3>1, <3>2, WakePool
  <2>3. CASE Enter(r) \/ EnterFails(r) \/ Finish(r) \/ SeeLimit(r) \/ Handled(r)
    <3>1. UNCHANGED <<slots, slot, retired, lease, probe, want>>
        BY <2>3 DEF Enter, EnterFails, Finish, SeeLimit, Handled, Leave,
                    poolVars
    <3>2. \A s \in Requests : pc'[s] = "waiting" => pc[s] = "waiting"
        BY <2>3 DEF Enter, EnterFails, Finish, SeeLimit, Handled, Leave,
                    IInv, TypeOK
    <3> QED
        BY <3>1, <3>2, WakePool
  <2> QED
      BY <1>1, <2>1, <2>2, <2>3, WakeTake, WakeWait, WakeRelease
      DEF RequestStep
<1>2. ASSUME NEW a \in Accounts,
             \/ DrainBegin(a) \/ DrainScan(a) \/ DrainTimeOut(a) \/ DrainEnd(a)
      PROVE  WakeInv'
    BY <1>2, WakePool
    DEF DrainBegin, DrainBeginOp, DrainScan, DrainTimeOut, DrainEnd, poolVars,
        requestVars
<1>3. ASSUME NEW a \in Accounts, ControlStep(a)
      PROVE  WakeInv'
  <2>1. CASE Suspend(a)
      BY <2>1, WakeStopRouting DEF Suspend, requestVars
  <2> QED
      BY <1>3, <2>1, WakeSetOrder, WakeSlots, WakeNotify DEF ControlStep
<1>4. CASE UNCHANGED vars
    BY <1>4, WakePool DEF vars
<1> QED
    BY <1>1, <1>2, <1>3, <1>4, WakeProbeTake, WakeRelease DEF Next

\* No wakeup is lost, every sleeper has a waker, and routed accounts have no
\* retired tab.
THEOREM WakeSafety == Spec => []WakeInv
<1>1. Init => WakeInv
    BY DEF Init, Quiet, WakeInv, NoLostWakeup, WaiterHasWaker, RoutedLive
<1>2. IInv /\ NoTabLost /\ WakeInv /\ [Next]_vars => WakeInv'
    BY WakeNext
<1> QED
    BY <1>1, <1>2, LeaseSafety, NoTabEverLost, PTL DEF Spec

\* While a request sleeps there is nothing it could take: every change that
\* frees a tab or opens an account wakes the queue.
THEOREM NoWakeupLost == Spec => []NoLostWakeup
<1>1. WakeInv => NoLostWakeup
    BY DEF WakeInv
<1> QED
    BY <1>1, WakeSafety, PTL

\* Whoever sleeps waits for the release of a tab that is held.
THEOREM SleeperHasWaker == Spec => []WaiterHasWaker
<1>1. WakeInv => WaiterHasWaker
    BY DEF WakeInv
<1> QED
    BY <1>1, WakeSafety, PTL

-----------------------------------------------------------------------------
(* _waiters *)

QueueInv == IsFiniteSet(Queued) /\ QueueBound

\* A step that leaves the queue and its counter alone keeps the bound.
LEMMA QueueSame ==
    ASSUME QueueInv, waiters' = waiters, Queued' = Queued
    PROVE  QueueInv'
BY DEF QueueInv, QueueBound

\* A request that joins while there is room is counted.
LEMMA QueueJoins ==
    ASSUME TypeOK, QueueInv, NEW r \in Requests, r \notin Queued,
           waiters < MaxWaiters, waiters' = waiters + 1,
           Queued' = Queued \cup {r}
    PROVE  QueueInv'
<1>1. IsFiniteSet(Queued) /\ waiters = Cardinality(Queued)
    BY DEF QueueInv, QueueBound
<1>2. /\ IsFiniteSet(Queued \cup {r})
      /\ Cardinality(Queued \cup {r}) = Cardinality(Queued) + 1
    BY <1>1, FS_AddElement
<1> QED
    BY <1>1, <1>2, PoolAssumption DEF QueueInv, QueueBound, TypeOK

\* A request that leaves the queue is counted down once.
LEMMA QueueLeaves ==
    ASSUME TypeOK, QueueInv, NEW r \in Queued,
           waiters' = waiters - 1, Queued' = Queued \ {r}
    PROVE  QueueInv'
<1>1. IsFiniteSet(Queued) /\ waiters = Cardinality(Queued)
    BY DEF QueueInv, QueueBound
<1>2. /\ IsFiniteSet(Queued \ {r})
      /\ Cardinality(Queued \ {r}) = Cardinality(Queued) - 1
    BY <1>1, FS_RemoveElement
<1> QED
    BY <1>1, <1>2, PoolAssumption DEF QueueInv, QueueBound, TypeOK

\* A request that scans leaves the queue, if it was in it.
LEMMA QueueScan ==
    ASSUME TypeOK, QueueInv, NEW r \in Requests, AtLock(r),
           waiters' = OthersQueued(r), NEW s \in Stages,
           s \notin {"waiting", "woken"}, pc' = [pc EXCEPT ![r] = s]
    PROVE  QueueInv'
<1>1. Queued' = Queued \ {r}
    BY DEF Queued, TypeOK
<1>2. CASE pc[r] = "woken"
    BY <1>1, <1>2, QueueLeaves DEF Queued, OthersQueued
<1>3. CASE pc[r] = "scan"
    BY <1>1, <1>3, QueueSame DEF Queued, OthersQueued
<1> QED
    BY <1>2, <1>3 DEF AtLock

\* Going to sleep keeps the count exact and bounded.
LEMMA QueueWait ==
    ASSUME TypeOK, QueueInv, NEW r \in Requests, Wait(r)
    PROVE  QueueInv'
<1>1. Queued' = Queued \cup {r}
    BY DEF Wait, Queued, TypeOK
<1>2. CASE pc[r] = "woken"
    BY <1>1, <1>2, QueueSame DEF Wait, Queued, OthersQueued, TypeOK
<1>3. CASE pc[r] = "scan"
    BY <1>1, <1>3, QueueJoins DEF Wait, Queued, OthersQueued
<1> QED
    BY <1>2, <1>3 DEF Wait, MayWait, NothingFree, AtLock

\* A timeout leaves the queue once, whether it was notified or not.
LEMMA QueueTimeOut ==
    ASSUME TypeOK, QueueInv, NEW r \in Requests, TimeOut(r)
    PROVE  QueueInv'
<1>1. r \in Queued /\ Queued' = Queued \ {r}
    BY DEF TimeOut, Refuse, Queued, TypeOK
<1> QED
    BY <1>1, QueueLeaves DEF TimeOut

\* A notification moves no one in or out of the queue.
LEMMA QueueWoken ==
    ASSUME TypeOK, NEW f \in [Requests -> Stages], pc' = WakeRequests(f),
           {r \in Requests : f[r] \in {"waiting", "woken"}} = Queued
    PROVE  Queued' = Queued
BY DEF WakeRequests, WokenStage, Queued

\* Every step of the pool keeps the queue counted and bounded.
LEMMA QueueNext ==
    ASSUME TypeOK, QueueInv, [Next]_vars
    PROVE  QueueInv'
<1>1. ASSUME NEW r \in Requests,
             Arrive(r) \/ RequestStep(r) \/ TimeOut(r) \/ SeeLimit(r)
      PROVE  QueueInv'
  <2>1. CASE Take(r)
      BY <2>1, QueueScan DEF Take, Stages
  <2>2. CASE RefusePinned(r) \/ RefuseNoAccount(r) \/ RefuseToQueue(r)
      BY <2>2, QueueScan
      DEF RefusePinned, RefuseNoAccount, RefuseToQueue, MayWait, NothingFree,
          Refuse, Stages
  <2>3. CASE Release(r)
    <3>1. [pc EXCEPT ![r] = "done"] \in [Requests -> Stages]
        BY DEF TypeOK, Stages
    <3>2. {s \in Requests : [pc EXCEPT ![r] = "done"][s]
                              \in {"waiting", "woken"}} = Queued
        BY <2>3 DEF Release, Queued, TypeOK
    <3> QED
        BY <2>3, <3>1, <3>2, QueueWoken, QueueSame DEF Release
  <2>4. CASE \/ Arrive(r) \/ SeeLimit(r) \/ LimitOffline(r) \/ Report(r)
             \/ Enter(r) \/ EnterFails(r) \/ Finish(r) \/ Handled(r)
    <3>1. waiters' = waiters
        BY <2>4 DEF Arrive, SeeLimit, LimitOffline, Report, Enter, EnterFails,
                    Finish, Handled, Leave
    <3>2. Queued' = Queued
        BY <2>4 DEF Arrive, SeeLimit, LimitOffline, Report, Enter, EnterFails,
                    Finish, Handled, Leave, Queued, TypeOK
    <3> QED
        BY <3>1, <3>2, QueueSame
  <2> QED
      BY <1>1, <2>1, <2>2, <2>3, <2>4, QueueWait, QueueTimeOut DEF RequestStep
<1>2. ASSUME waiters' = waiters, pc' = pc \/ pc' = WakeRequests(pc)
      PROVE  QueueInv'
  <2>1. pc \in [Requests -> Stages]
      BY DEF TypeOK
  <2>2. Queued' = Queued
      BY <1>2, <2>1, QueueWoken DEF Queued
  <2> QED
      BY <1>2, <2>2, QueueSame
<1>3. CASE UNCHANGED vars
    BY <1>2, <1>3 DEF vars
<1>4. ASSUME NEW p \in Probes, ProbeTake(p) \/ ProbeRelease(p)
      PROVE  QueueInv'
    BY <1>2, <1>4 DEF ProbeTake, ProbeRelease, NotifyAll, requestVars
<1>5. ASSUME NEW a \in Accounts,
             \/ DrainBegin(a) \/ DrainScan(a) \/ DrainTimeOut(a) \/ DrainEnd(a)
      PROVE  QueueInv'
    BY <1>2, <1>5
    DEF DrainBegin, DrainBeginOp, DrainScan, DrainTimeOut, DrainEnd, requestVars
<1>6. ASSUME NEW a \in Accounts, ControlStep(a)
      PROVE  QueueInv'
  <2>1. CASE Register(a) \/ SetOrder(a) \/ Suspend(a) \/ RemoveSlot(a)
      BY <2>1, <1>2 DEF Register, RegisterOp, SetOrder, Suspend, RemoveSlot,
                        RemoveOp, requestVars
  <2>2. CASE Resume(a) \/ AddWorkers(a) \/ Retire(a)
      BY <2>2, <1>2 DEF Resume, ResumeOp, AddWorkers, AddWorkersOp, Retire,
                        RetireOp, NotifyAll
  <2> QED
      BY <1>6, <2>1, <2>2 DEF ControlStep
<1> QED
    BY <1>1, <1>3, <1>4, <1>5, <1>6 DEF Next

\* Every way out of the queue is counted once, and the queue never outgrows
\* max_waiters.
THEOREM QueueBounded == Spec => []QueueBound
<1>1. Init => QueueInv
  <2> SUFFICES ASSUME Init PROVE QueueInv
      OBVIOUS
  <2>1. Queued = {} /\ waiters = 0
      BY DEF Init, Quiet, Queued
  <2> QED
      BY <2>1, FS_EmptySet, PoolAssumption DEF QueueInv, QueueBound
<1>2. TypeOK /\ QueueInv /\ [Next]_vars => QueueInv'
    BY QueueNext
<1>3. QueueInv => QueueBound
    BY DEF QueueInv
<1> QED
    BY <1>1, <1>2, <1>3, TypeCorrect, PTL DEF Spec

-----------------------------------------------------------------------------
(* checked_out *)

LeaseCount ==
    /\ \A a \in Accounts : IsFiniteSet(Leases(a))
    /\ NoPhantomLease

\* Where no lease begins or ends, and no count grows.
LEMMA CountQuiet ==
    ASSUME TypeOK, LeaseCount, lease' = lease,
           slots' \subseteq Accounts,
           \A a \in slots' : \/ slot'[a].checkedOut = 0
                             \/ /\ a \in slots
                                /\ slot'[a].checkedOut = slot[a].checkedOut
    PROVE  LeaseCount'
<1>1. \A a \in Accounts : Leases(a)' = Leases(a)
    BY DEF Leases
<1>2. \A a \in Accounts : Cardinality(Leases(a)) \in Nat
    BY FS_CardinalityType DEF LeaseCount
<1> QED
    BY <1>1, <1>2 DEF LeaseCount, NoPhantomLease

\* A checkout: the account has one more lease, and counts it.
LEMMA CountTake ==
    ASSUME IInv, LeaseCount, NEW r \in Requests, Take(r)
    PROVE  LeaseCount'
<1>1. PICK a \in Accounts, t \in Tabs :
          /\ Pop(want[r], a, t, 1)
          /\ lease' = [lease EXCEPT ![r] = t]
    BY DEF Take
<1>2. AccountOf[t] = a
    BY <1>1 DEF Pop, TopIdle, IInv, LeaseInv, IdleInService
<1>3. lease[r] = None
    BY DEF Take, AtLock, Served, IInv, TypeOK, LeaseWhileServed
<1>4. /\ UNCHANGED slots
      /\ slot'[a].checkedOut = slot[a].checkedOut + 1
      /\ \A b \in Accounts : b # a => slot'[b] = slot[b]
    BY <1>1 DEF Pop, IInv, TypeOK, SlotType
<1>5. r \notin Leases(a) /\ Leases(a)' = Leases(a) \cup {r}
    BY <1>1, <1>2, <1>3, PoolAssumption DEF Leases, IInv, TypeOK
<1>6. \A b \in Accounts : b # a => Leases(b)' = Leases(b)
    BY <1>1, <1>2, <1>3, PoolAssumption DEF Leases, IInv, TypeOK
<1>7. /\ IsFiniteSet(Leases(a)')
      /\ Cardinality(Leases(a)') = Cardinality(Leases(a)) + 1
      /\ Cardinality(Leases(a)) \in Nat
    BY <1>5, FS_AddElement, FS_CardinalityType DEF LeaseCount
<1>8. slot[a].checkedOut \in Nat
    BY DEF IInv, TypeOK, SlotType
<1> QED
    BY <1>4, <1>6, <1>7, <1>8 DEF LeaseCount, NoPhantomLease, IInv, TypeOK

\* A release ends a lease of the account, and the count drops or is zero.
LEMMA CountRelease ==
    ASSUME IInv, LeaseCount, NEW r \in Requests, Release(r)
    PROVE  LeaseCount'
<1>1. lease[r] \in Tabs /\ lease[r] # None
    BY PoolAssumption DEF IInv, TypeOK, LeaseWhileServed, Served, Release
<1>2. PICK a \in Accounts : a = AccountOf[lease[r]]
    BY <1>1, PoolAssumption
<1>3. /\ UNCHANGED slots
      /\ a \in slots => slot'[a].checkedOut = OneLess(slot[a].checkedOut)
      /\ \A b \in Accounts : b # a => slot'[b] = slot[b]
      /\ lease' = [lease EXCEPT ![r] = None]
    BY <1>2 DEF Release, PutBack, IInv, TypeOK, SlotType
<1>4. r \in Leases(a) /\ Leases(a)' = Leases(a) \ {r}
    BY <1>1, <1>2, <1>3 DEF Leases, IInv, TypeOK
<1>5. \A b \in Accounts : b # a => Leases(b)' = Leases(b)
    BY <1>1, <1>2, <1>3 DEF Leases, IInv, TypeOK
<1>6. /\ IsFiniteSet(Leases(a)')
      /\ Cardinality(Leases(a)') = Cardinality(Leases(a)) - 1
      /\ Cardinality(Leases(a)) \in Nat
      /\ Cardinality(Leases(a)') \in Nat
    BY <1>2, <1>4, FS_RemoveElement, FS_CardinalityType DEF LeaseCount
<1>7. slot[a].checkedOut \in Nat
    BY <1>2 DEF IInv, TypeOK, SlotType
<1>8. a \in slots => slot'[a].checkedOut <= Cardinality(Leases(a)')
  <2> SUFFICES ASSUME a \in slots
               PROVE  OneLess(slot[a].checkedOut) <= Cardinality(Leases(a)')
      BY <1>3
  <2>1. slot[a].checkedOut <= Cardinality(Leases(a))
      BY DEF LeaseCount, NoPhantomLease
  <2> QED
      BY <2>1, <1>6, <1>7 DEF OneLess
<1> QED
    BY <1>3, <1>5, <1>6, <1>8 DEF LeaseCount, NoPhantomLease, IInv, TypeOK

\* A probe counts nothing when it takes a tab; its return counts one less.
LEMMA CountProbe ==
    ASSUME IInv, LeaseCount, NEW p \in Probes, ProbeTake(p) \/ ProbeRelease(p)
    PROVE  LeaseCount'
<1>1. lease' = lease
    BY DEF ProbeTake, ProbeRelease, requestVars
<1>2. /\ UNCHANGED slots
      /\ \A a \in slots : slot'[a].checkedOut <= slot[a].checkedOut
      /\ \A a \in slots : slot'[a].checkedOut \in Nat
  <2>1. CASE ProbeTake(p)
    <3>1. PICK a \in Accounts, t \in Tabs : Pop(NoWant, a, t, 0)
        BY <2>1 DEF ProbeTake
    <3>2. \A b \in Accounts : slot'[b].checkedOut = slot[b].checkedOut
        BY <3>1 DEF Pop, IInv, TypeOK, SlotType
    <3> QED
        BY <3>1, <3>2 DEF Pop, IInv, TypeOK, SlotType
  <2>2. CASE ProbeRelease(p)
    <3> DEFINE c == AccountOf[probe[p]]
    <3>1. c \in Accounts
        BY <2>2, PoolAssumption DEF ProbeRelease, IInv, TypeOK
    <3>2. /\ UNCHANGED slots
          /\ c \in slots => slot'[c].checkedOut = OneLess(slot[c].checkedOut)
          /\ \A b \in Accounts : b # c => slot'[b] = slot[b]
        BY <2>2, <3>1 DEF ProbeRelease, PutBack, IInv, TypeOK, SlotType
    <3>3. \A b \in Accounts : slot[b].checkedOut \in Nat
        BY DEF IInv, TypeOK, SlotType
    <3> HIDE DEF c
    <3> QED
        BY <3>2, <3>3 DEF OneLess, IInv, TypeOK
  <2> QED
      BY <2>1, <2>2
<1>3. \A a \in Accounts : Leases(a)' = Leases(a)
    BY <1>1 DEF Leases
<1>4. \A a \in Accounts : Cardinality(Leases(a)) \in Nat
    BY FS_CardinalityType DEF LeaseCount
<1>5. \A a \in slots : a \in Accounts /\ slot[a].checkedOut \in Nat
    BY DEF IInv, TypeOK, SlotType
<1> QED
    BY <1>2, <1>3, <1>4, <1>5 DEF LeaseCount, NoPhantomLease

\* Control calls start a slot at zero, remove one, or count nothing.
LEMMA CountControl ==
    ASSUME IInv, LeaseCount, NEW a \in Accounts, ControlStep(a)
    PROVE  LeaseCount'
<1>1. \A b \in Accounts : slot[b] \in SlotType
    BY DEF IInv, TypeOK
<1>2. slots \subseteq Accounts
    BY DEF IInv, TypeOK
<1>3. CASE Register(a)
  <2>1. PICK o \in Orders, p \in Providers : RegisterOp(a, o, p)
      BY <1>3 DEF Register
  <2>2. /\ slots' = slots \cup {a} /\ lease' = lease
        /\ \A b \in Accounts : b # a => slot'[b] = slot[b]
        /\ a \in slots => slot'[a].checkedOut = slot[a].checkedOut
        /\ a \notin slots => slot'[a].checkedOut = 0
      BY <1>1, <2>1 DEF RegisterOp, NewSlot, requestVars, IInv, TypeOK, SlotType
  <2> QED
      BY <1>2, <2>2, CountQuiet DEF IInv
<1>4. CASE SetOrder(a)
  <2>1. /\ UNCHANGED <<slots, lease>>
        /\ \A b \in Accounts : slot'[b].checkedOut = slot[b].checkedOut
      BY <1>4 DEF SetOrder, requestVars, IInv, TypeOK, SlotType
  <2> QED
      BY <1>2, <2>1, CountQuiet DEF IInv
<1>5. CASE Suspend(a) \/ Resume(a)
  <2>1. PICK on \in BOOLEAN : SetRouting(a, on)
      BY <1>5 DEF Suspend, Resume, ResumeOp
  <2>2. \A b \in Accounts : slot'[b].checkedOut = slot[b].checkedOut
      BY <1>1, <2>1 DEF SetRouting, IInv, TypeOK, SlotType
  <2>3. UNCHANGED <<slots, lease>>
      BY <1>5 DEF Suspend, Resume, ResumeOp, requestVars
  <2> QED
      BY <1>2, <2>2, <2>3, CountQuiet DEF IInv
<1>6. CASE AddWorkers(a)
  <2>1. PICK T \in SUBSET {t \in Tabs : AccountOf[t] = a /\ Unused(t)} :
            AddWorkersOp(a, T)
      BY <1>6 DEF AddWorkers
  <2> DEFINE s == IF a \in slots THEN slot[a]
                                 ELSE NewSlot(DefaultOrder, DefaultProvider)
  <2>2. PICK q \in [1 .. Cardinality(T) -> T] :
            slot' = [slot EXCEPT ![a] = [s EXCEPT !.workers = @ \cup T,
                                                  !.idle = @ \o q]]
      BY <2>1 DEF AddWorkersOp
  <2>3. s \in SlotType /\ (a \notin slots => s.checkedOut = 0)
      BY <1>1, NewSlotType, PoolAssumption DEF NewSlot
  <2>4. slots' = slots \cup {a} /\ lease' = lease
      BY <2>1 DEF AddWorkersOp
  <2>5. /\ slot'[a].checkedOut = s.checkedOut
        /\ \A b \in Accounts : b # a => slot'[b] = slot[b]
    <3> HIDE DEF s
    <3> QED
        BY <2>2, <2>3 DEF IInv, TypeOK, SlotType
  <2> QED
      BY <1>2, <2>3, <2>4, <2>5, CountQuiet DEF IInv
<1>7. CASE Retire(a)
  <2>1. /\ UNCHANGED <<slots, lease>>
        /\ \A b \in Accounts : slot'[b].checkedOut = slot[b].checkedOut
      BY <1>7 DEF Retire, RetireOp, IInv, TypeOK, SlotType
  <2> QED
      BY <1>2, <2>1, CountQuiet DEF IInv
<1>8. CASE RemoveSlot(a)
  <2>1. /\ slots' = slots \ {a} /\ lease' = lease
        /\ \A b \in Accounts : b # a => slot'[b] = slot[b]
      BY <1>8 DEF RemoveSlot, RemoveOp, requestVars, IInv, TypeOK
  <2> QED
      BY <1>2, <2>1, CountQuiet DEF IInv
<1> QED
    BY <1>3, <1>4, <1>5, <1>6, <1>7, <1>8 DEF ControlStep

\* Every step keeps checked_out within the leases of the account.
LEMMA CountNext ==
    ASSUME IInv, LeaseCount, [Next]_vars
    PROVE  LeaseCount'
<1>1. slots \subseteq Accounts
    BY DEF IInv, TypeOK
<1>2. ASSUME NEW r \in Requests,
             Arrive(r) \/ RequestStep(r) \/ TimeOut(r) \/ SeeLimit(r)
      PROVE  LeaseCount'
  <2>1. CASE LimitOffline(r) \/ Report(r)
    <3>1. PICK a : SetRouting(a, FALSE)
        BY <2>1 DEF LimitOffline, Report
    <3>2. \A b \in Accounts : slot'[b].checkedOut = slot[b].checkedOut
        BY <3>1 DEF SetRouting, IInv, TypeOK, SlotType
    <3> QED
        BY <1>1, <2>1, <3>2, CountQuiet DEF LimitOffline, Report, IInv
  <2>2. CASE \/ Arrive(r) \/ Wait(r) \/ TimeOut(r)
             \/ RefusePinned(r) \/ RefuseNoAccount(r) \/ RefuseToQueue(r)
             \/ Enter(r) \/ EnterFails(r) \/ Finish(r) \/ SeeLimit(r)
             \/ Handled(r)
      BY <1>1, <2>2, CountQuiet
      DEF Arrive, Wait, TimeOut, RefusePinned, RefuseNoAccount, RefuseToQueue,
          Refuse, Enter, EnterFails, Finish, SeeLimit, Handled, Leave,
          poolVars, IInv
  <2> QED
      BY <1>2, <2>1, <2>2, CountTake, CountRelease DEF RequestStep
<1>3. ASSUME NEW a \in Accounts,
             \/ DrainBegin(a) \/ DrainScan(a) \/ DrainTimeOut(a) \/ DrainEnd(a)
      PROVE  LeaseCount'
    BY <1>1, <1>3, CountQuiet
    DEF DrainBegin, DrainBeginOp, DrainScan, DrainTimeOut, DrainEnd, poolVars,
        requestVars, IInv
<1>4. CASE UNCHANGED vars
    BY <1>1, <1>4, CountQuiet DEF vars, IInv
<1> QED
    BY <1>2, <1>3, <1>4, CountProbe, CountControl DEF Next

\* The leases of an account are finitely many, and no fewer than its count says.
LEMMA CountSafety == Spec => []LeaseCount
<1>1. Init => LeaseCount
  <2> SUFFICES ASSUME Init PROVE LeaseCount
      OBVIOUS
  <2>1. \A a \in Accounts : Leases(a) = {}
      BY DEF Init, Quiet, Leases
  <2>2. slots = {}
      BY DEF Init
  <2> QED
      BY <2>1, <2>2, FS_EmptySet DEF LeaseCount, NoPhantomLease
<1>2. IInv /\ LeaseCount /\ [Next]_vars => LeaseCount'
    BY CountNext
<1> QED
    BY <1>1, <1>2, LeaseSafety, PTL DEF Spec

\* checked_out never exceeds the requests that hold a tab of the account, so
\* a drain never waits for a request that is not there, although late
\* releases and probes are charged to whatever slot the account has.
THEOREM NoPhantom == Spec => []NoPhantomLease
<1>1. LeaseCount => NoPhantomLease
    BY DEF LeaseCount
<1> QED
    BY <1>1, CountSafety, PTL

-----------------------------------------------------------------------------
(* Drains *)

\* The requests on an account's tabs are finitely many, and no more than its
\* slot counts and was charged for without counting.
LedgerInv ==
    /\ uncounted \in [Accounts -> Nat]
    /\ \A a \in Accounts :
         /\ IsFiniteSet(Users(a))
         /\ Cardinality(Users(a)) <= slot[a].checkedOut + uncounted[a]

\* The history adds nothing to the pool's steps.
LEMMA LedgerStep == [LedgerNext]_lvars => [Next]_vars
BY DEF LedgerNext, lvars, RequestReturns, ProbeReturns, Removed, Uncharged, Next,
       RequestStep, ControlStep

\* The pool of the ledger is the pool.
LEMMA LedgerPool == LedgerSpec => Spec
BY LedgerStep, PTL DEF LedgerSpec, LedgerInit, Spec

\* The account of a missing slot has no users, and every user has a lease.
LEMMA UsersLease ==
    ASSUME IInv, LeaseCount, NEW a \in Accounts
    PROVE  /\ slot[a].workers = {} => Users(a) = {}
           /\ a \notin slots => Users(a) = {}
           /\ IsFiniteSet(Users(a)) /\ Cardinality(Users(a)) \in Nat
<1>1. Users(a) \subseteq Leases(a)
    BY DEF Users, Leases, IInv, LeaseInv, OwnTabs
<1>2. IsFiniteSet(Users(a))
    BY <1>1, FS_Subset DEF LeaseCount
<1> QED
    BY <1>2, FS_CardinalityType DEF Users, IInv, LeaseInv, OwnTabs

\* Where no tab is returned and nobody's tabs change: a slot counts what it did
\* or has no users.
LEMMA LedgerQuiet ==
    ASSUME LedgerInv, UNCHANGED <<lease, uncounted>>,
           \A a \in Accounts :
             /\ slot'[a].checkedOut \in Nat
             /\ \/ Users(a)' = {}
                \/ /\ slot'[a].workers = slot[a].workers
                   /\ slot'[a].checkedOut = slot[a].checkedOut
    PROVE  LedgerInv'
<1> SUFFICES ASSUME NEW a \in Accounts
             PROVE  /\ IsFiniteSet(Users(a)')
                    /\ Cardinality(Users(a)') <= slot'[a].checkedOut + uncounted'[a]
    BY DEF LedgerInv
<1>1. CASE Users(a)' = {}
    BY <1>1, FS_EmptySet DEF LedgerInv
<1>2. CASE /\ slot'[a].workers = slot[a].workers
           /\ slot'[a].checkedOut = slot[a].checkedOut
  <2>1. Users(a)' = Users(a)
      BY <1>2 DEF Users
  <2> QED
      BY <1>2, <2>1 DEF LedgerInv
<1> QED
    BY <1>1, <1>2

\* A checkout: one user more, and counted.
LEMMA LedgerTake ==
    ASSUME IInv, LeaseCount, LedgerInv, UNCHANGED uncounted,
           NEW r \in Requests, Take(r)
    PROVE  LedgerInv'
<1>1. PICK a \in Accounts, t \in Tabs :
          /\ Pop(want[r], a, t, 1)
          /\ lease' = [lease EXCEPT ![r] = t]
    BY DEF Take
<1>2. lease[r] = None
    BY DEF Take, AtLock, Served, IInv, TypeOK, LeaseWhileServed
<1>3. t \in slot[a].workers
    BY <1>1 DEF Pop, TopIdle, IInv, LeaseInv, IdleInService
<1>4. /\ slot'[a].checkedOut = slot[a].checkedOut + 1
      /\ \A b \in Accounts : b # a => slot'[b] = slot[b]
      /\ \A b \in Accounts : slot'[b].workers = slot[b].workers
    BY <1>1 DEF Pop, IInv, TypeOK, SlotType
<1>5. ASSUME NEW b \in Accounts
      PROVE  IF b = a THEN Users(b)' = Users(b) \cup {r} ELSE Users(b)' = Users(b)
  <2>1. \A c \in Accounts : t \in slot[c].workers => c = a
      BY <1>3 DEF IInv, LeaseInv, OwnTabs
  <2>2. t # None /\ lease'[r] = t /\ \A s \in Requests : s # r => lease'[s] = lease[s]
      BY <1>1, PoolAssumption DEF IInv, TypeOK
  <2> QED
      BY <1>2, <1>3, <1>4, <2>1, <2>2 DEF Users
<1>6. ASSUME NEW b \in Accounts
      PROVE  /\ IsFiniteSet(Users(b)')
             /\ Cardinality(Users(b)') <= slot'[b].checkedOut + uncounted'[b]
  <2>1. slot[b].checkedOut \in Nat /\ uncounted[b] \in Nat
      BY DEF IInv, TypeOK, SlotType, LedgerInv
  <2>2. CASE b = a
    <3>1. r \notin Users(a) /\ Cardinality(Users(a)) \in Nat
        BY <1>2, UsersLease DEF Users
    <3>2. /\ IsFiniteSet(Users(a)')
          /\ Cardinality(Users(a)') = Cardinality(Users(a)) + 1
        BY <1>5, <3>1, FS_AddElement DEF LedgerInv
    <3> QED
        BY <1>4, <2>1, <2>2, <3>1, <3>2 DEF LedgerInv
  <2>3. CASE b # a
      BY <1>4, <1>5, <2>3 DEF LedgerInv
  <2> QED
      BY <2>2, <2>3
<1> QED
    BY <1>6 DEF LedgerInv

\* A release: the slot had counted the tab, or is charged for one that it had
\* not, unless it counts nothing any more.
LEMMA LedgerCharge ==
    ASSUME IInv, LeaseCount, LedgerInv, NEW a \in Accounts, NEW counted \in BOOLEAN,
           Charge(a, counted),
           a \in slots => slot'[a].checkedOut = OneLess(slot[a].checkedOut),
           \A b \in Accounts : /\ b # a => slot'[b] = slot[b]
                               /\ slot'[b].workers = slot[b].workers
                               /\ b # a => Users(b)' = Users(b),
           \/ ~counted /\ Users(a)' = Users(a)
           \/ counted /\ \E r \in Users(a) : Users(a)' = Users(a) \ {r},
           slot'[a].checkedOut \in Nat
    PROVE  LedgerInv'
<1>1. /\ slot[a].checkedOut \in Nat /\ uncounted[a] \in Nat
      /\ IsFiniteSet(Users(a)) /\ Cardinality(Users(a)) \in Nat
      /\ a \notin slots => Users(a) = {}
    BY UsersLease DEF IInv, TypeOK, SlotType, LedgerInv
<1>2. IsFiniteSet(Users(a)')
    BY <1>1, FS_Subset, FS_RemoveElement
<1>3. uncounted' \in [Accounts -> Nat]
      /\ \A b \in Accounts : b # a => uncounted'[b] = uncounted[b]
    BY <1>1 DEF Charge, LedgerInv
<1>4. Cardinality(Users(a)') <= slot'[a].checkedOut + uncounted'[a]
  <2>1. CASE Users(a)' = {}
      BY <1>3, <2>1, FS_EmptySet
  <2>2. CASE Users(a)' # {} /\ ~counted
    <3>1. a \in slots /\ Users(a)' = Users(a)
        BY <1>1, <2>2
    <3>2. uncounted'[a] = IF slot[a].checkedOut = 0 THEN uncounted[a]
                                                    ELSE uncounted[a] + 1
        BY <2>2 DEF Charge, LedgerInv
    <3> QED
        BY <1>1, <3>1, <3>2 DEF OneLess, LedgerInv
  <2>3. CASE Users(a)' # {} /\ counted
    <3>1. PICK r \in Users(a) : Users(a)' = Users(a) \ {r}
        BY <2>3
    <3>2. Cardinality(Users(a)') = Cardinality(Users(a)) - 1
        BY <1>1, <3>1, FS_RemoveElement
    <3>3. a \in slots /\ uncounted'[a] = uncounted[a]
        BY <1>1, <2>3, <3>1 DEF Charge, LedgerInv
    <3> QED
        BY <1>1, <3>2, <3>3 DEF OneLess, LedgerInv
  <2> QED
      BY <2>1, <2>2, <2>3
<1> QED
    BY <1>2, <1>3, <1>4 DEF LedgerInv

\* A request's release ends its own use of the account's tabs.
LEMMA LedgerRequestReturns ==
    ASSUME IInv, IInv', LeaseCount, LedgerInv, NEW r \in Requests, RequestReturns(r)
    PROVE  LedgerInv'
<1>1. PICK a \in Accounts : /\ a = AccountOf[lease[r]]
                            /\ Charge(a, lease[r] \in slot[a].workers)
    BY DEF RequestReturns
<1>2. Release(r)
    BY DEF RequestReturns
<1>3. lease[r] # None
    BY <1>2 DEF IInv, LeaseWhileServed, Served, Release
<1>4. /\ a \in slots => slot'[a].checkedOut = OneLess(slot[a].checkedOut)
      /\ \A b \in Accounts : b # a => slot'[b] = slot[b]
      /\ \A b \in Accounts : slot'[b].workers = slot[b].workers
      /\ lease'[r] = None
      /\ \A s \in Requests : s # r => lease'[s] = lease[s]
    BY <1>1, <1>2 DEF Release, PutBack, IInv, TypeOK, SlotType
<1>5. \A b \in Accounts : Users(b)' = Users(b) \ {r}
    BY <1>4 DEF Users
<1>6. /\ r \in Users(a) <=> lease[r] \in slot[a].workers
      /\ \A b \in Accounts : b # a => r \notin Users(b)
    BY <1>1, <1>3 DEF Users, IInv, LeaseInv, OwnTabs
<1>7. slot'[a].checkedOut \in Nat
    BY DEF IInv, TypeOK, SlotType
<1>8. \A b \in Accounts : b # a => Users(b)' = Users(b)
    BY <1>5, <1>6
<1>9. CASE lease[r] \in slot[a].workers
  <2>1. Charge(a, TRUE)
      BY <1>1, <1>9 DEF Charge
  <2>2. \E s \in Users(a) : Users(a)' = Users(a) \ {s}
      BY <1>5, <1>6, <1>9
  <2> QED
      BY <1>4, <1>7, <1>8, <2>1, <2>2, LedgerCharge
<1>10. CASE lease[r] \notin slot[a].workers
  <2>1. Charge(a, FALSE)
      BY <1>1, <1>10 DEF Charge
  <2>2. Users(a)' = Users(a)
      BY <1>5, <1>6, <1>10
  <2> QED
      BY <1>4, <1>7, <1>8, <2>1, <2>2, LedgerCharge
<1> QED
    BY <1>9, <1>10

\* A probe's release ends nobody's use.
LEMMA LedgerProbeReturns ==
    ASSUME IInv, IInv', LeaseCount, LedgerInv, NEW p \in Probes, ProbeReturns(p)
    PROVE  LedgerInv'
<1>1. PICK a \in Accounts : a = AccountOf[probe[p]] /\ Charge(a, FALSE)
    BY DEF ProbeReturns
<1>2. ProbeRelease(p)
    BY DEF ProbeReturns
<1>3. /\ a \in slots => slot'[a].checkedOut = OneLess(slot[a].checkedOut)
      /\ \A b \in Accounts : b # a => slot'[b] = slot[b]
      /\ \A b \in Accounts : slot'[b].workers = slot[b].workers
      /\ lease' = lease
    BY <1>1, <1>2 DEF ProbeRelease, PutBack, IInv, TypeOK, SlotType
<1>4. \A b \in Accounts : Users(b)' = Users(b)
    BY <1>3 DEF Users
<1>5. slot'[a].checkedOut \in Nat
    BY DEF IInv, TypeOK, SlotType
<1> QED
    BY <1>1, <1>3, <1>4, <1>5, LedgerCharge

\* The control plane gives a slot new tabs that nobody has, or none.
LEMMA LedgerControl ==
    ASSUME IInv, IInv', LeaseCount, LedgerInv, UNCHANGED uncounted, NEW a \in Accounts,
           \/ Register(a) \/ SetOrder(a) \/ Suspend(a)
           \/ Resume(a) \/ AddWorkers(a) \/ Retire(a)
    PROVE  LedgerInv'
<1>1. \A b \in Accounts : slot[b] \in SlotType /\ slot'[b].checkedOut \in Nat
    BY DEF IInv, TypeOK, SlotType
<1>2. UNCHANGED lease
    BY DEF Register, RegisterOp, SetOrder, Suspend, Resume, ResumeOp, AddWorkers,
       AddWorkersOp, Retire, RetireOp, requestVars
<1>3. CASE Register(a)
  <2>1. PICK o \in Orders, p \in Providers : RegisterOp(a, o, p)
      BY <1>3 DEF Register
  <2>2. /\ \A b \in Accounts : b # a => slot'[b] = slot[b]
        /\ a \in slots => /\ slot'[a].checkedOut = slot[a].checkedOut
                          /\ slot'[a].workers = slot[a].workers
        /\ a \notin slots => slot'[a].workers = {}
      BY <1>1, <2>1 DEF RegisterOp, NewSlot, IInv, TypeOK, SlotType
  <2>3. a \notin slots => Users(a)' = {}
      BY <2>2 DEF Users
  <2> QED
      BY <1>1, <1>2, <2>2, <2>3, LedgerQuiet
<1>4. CASE SetOrder(a) \/ Suspend(a) \/ Resume(a) \/ Retire(a)
  <2>1. \A b \in Accounts : /\ slot'[b].checkedOut = slot[b].checkedOut
                            /\ slot'[b].workers = slot[b].workers
    <3>1. CASE SetOrder(a)
        BY <1>1, <3>1 DEF SetOrder, IInv, TypeOK, SlotType
    <3>2. CASE Suspend(a)
        BY <1>1, <3>2 DEF Suspend, SetRouting, IInv, TypeOK, SlotType
    <3>3. CASE Resume(a)
        BY <1>1, <3>3 DEF Resume, ResumeOp, SetRouting, IInv, TypeOK, SlotType
    <3>4. CASE Retire(a)
        BY <1>1, <3>4 DEF Retire, RetireOp, IInv, TypeOK, SlotType
    <3> QED
        BY <1>4, <3>1, <3>2, <3>3, <3>4
  <2> QED
      BY <1>1, <1>2, <2>1, LedgerQuiet
<1>5. CASE AddWorkers(a)
  <2>1. PICK T \in SUBSET {t \in Tabs : AccountOf[t] = a /\ Unused(t)} :
            AddWorkersOp(a, T)
      BY <1>5 DEF AddWorkers
  <2>2. /\ \A b \in Accounts : b # a => slot'[b] = slot[b]
        /\ slot'[a].workers = T
    <3> DEFINE s == IF a \in slots THEN slot[a]
                                   ELSE NewSlot(DefaultOrder, DefaultProvider)
    <3>1. s \in SlotType /\ s.workers = {}
        BY <1>1, <1>5, NewSlotType, PoolAssumption DEF NewSlot, AddWorkers
    <3>2. PICK q \in [1 .. Cardinality(T) -> T] :
              slot' = [slot EXCEPT ![a] = [s EXCEPT !.workers = @ \cup T,
                                                    !.idle = @ \o q]]
        BY <2>1 DEF AddWorkersOp
    <3> HIDE DEF s
    <3> QED
        BY <3>1, <3>2 DEF IInv, TypeOK, SlotType
  <2>3. Users(a)' = {}
      BY <1>2, <2>2 DEF Users, Unused, Holding
  <2> QED
      BY <1>1, <1>2, <2>2, <2>3, LedgerQuiet
<1> QED
    BY <1>3, <1>4, <1>5

\* With its slot an account loses its users.
LEMMA LedgerRemoved ==
    ASSUME IInv, LeaseCount, LedgerInv, NEW a \in Accounts, Removed(a)
    PROVE  LedgerInv'
<1>1. /\ slot'[a].workers = {} /\ slot'[a].checkedOut = 0
      /\ \A b \in Accounts : b # a => slot'[b] = slot[b]
      /\ lease' = lease
    BY DEF Removed, RemoveSlot, RemoveOp, NewSlot, requestVars, IInv, TypeOK
<1>2. /\ uncounted' \in [Accounts -> Nat] /\ uncounted'[a] = 0
      /\ \A b \in Accounts : b # a => uncounted'[b] = uncounted[b]
    BY DEF Removed, LedgerInv
<1>3. Users(a)' = {} /\ \A b \in Accounts : b # a => Users(b)' = Users(b)
    BY <1>1 DEF Users
<1>4. IsFiniteSet(Users(a)') /\ Cardinality(Users(a)') = 0
    BY <1>3, FS_EmptySet
<1>5. ASSUME NEW b \in Accounts
      PROVE  /\ IsFiniteSet(Users(b)')
             /\ Cardinality(Users(b)') <= slot'[b].checkedOut + uncounted'[b]
  <2>1. CASE b = a
      BY <1>1, <1>2, <1>4, <2>1
  <2>2. CASE b # a
    <3>1. slot'[b].checkedOut = slot[b].checkedOut
        BY <1>1, <2>2
    <3> QED
        BY <1>2, <1>3, <2>2, <3>1 DEF LedgerInv
  <2> QED
      BY <2>1, <2>2
<1> QED
    BY <1>2, <1>5 DEF LedgerInv

\* A drain that answers True finds a slot that counts nobody, or none.
LEMMA LedgerDrain ==
    ASSUME IInv, LeaseCount, LedgerInv, NEW a \in Accounts,
           DrainBegin(a) \/ DrainScan(a) \/ DrainTimeOut(a) \/ DrainEnd(a)
    PROVE  /\ UNCHANGED <<slot, lease>>
           /\ \A b \in Accounts : drain[b] # "drained" /\ drain'[b] = "drained" =>
                Cardinality(Users(b)) <= uncounted[b]
<1>1. /\ UNCHANGED <<slot, lease>>
      /\ \A b \in Accounts : b # a => drain'[b] = drain[b]
      /\ drain'[a] = "drained" => Drained(a)
    BY DEF DrainBegin, DrainBeginOp, DrainScan, DrainTimeOut, DrainEnd, SetDrain,
       poolVars, requestVars, IInv, TypeOK
<1>2. a \notin slots => Cardinality(Users(a)) <= uncounted[a]
    BY UsersLease, FS_EmptySet DEF LedgerInv
<1>3. slot[a].checkedOut = 0 => Cardinality(Users(a)) <= uncounted[a]
    BY UsersLease DEF LedgerInv
<1> QED
    BY <1>1, <1>2, <1>3 DEF Drained

\* Every step keeps the ledger, and a drain's answer agrees with it.
LEMMA LedgerKept ==
    ASSUME IInv, IInv', LeaseCount, LedgerInv, [LedgerNext]_lvars
    PROVE  /\ LedgerInv'
           /\ \A a \in Accounts : drain[a] # "drained" /\ drain'[a] = "drained" =>
                Cardinality(Users(a)) <= uncounted[a]
<1>1. \A a \in Accounts : slot[a] \in SlotType /\ drain[a] \in DrainStages
    BY DEF IInv, TypeOK
<1>2. \A a \in Accounts : WakeDrains[a] = "drained" => drain[a] = "drained"
    BY DEF WakeDrains, WokenStage
<1>3. ASSUME NEW r \in Requests, RequestReturns(r)
      PROVE  LedgerInv' /\ drain' = WakeDrains
    BY <1>3, LedgerRequestReturns DEF RequestReturns, Release
<1>4. ASSUME NEW p \in Probes, ProbeReturns(p)
      PROVE  LedgerInv' /\ drain' = WakeDrains
    BY <1>4, LedgerProbeReturns DEF ProbeReturns, ProbeRelease, NotifyAll
<1>5. ASSUME NEW a \in Accounts, Removed(a)
      PROVE  LedgerInv' /\ \A b \in Accounts : drain'[b] = "drained" => drain[b] = "drained"
    BY <1>5, LedgerRemoved DEF Removed, RemoveSlot, SetDrain, IInv, TypeOK
<1>6. ASSUME NEW r \in Requests, UNCHANGED uncounted, pc[r] # "releasing",
             Arrive(r) \/ RequestStep(r) \/ TimeOut(r) \/ SeeLimit(r)
      PROVE  LedgerInv' /\ drain' = drain
  <2>1. CASE LimitOffline(r) \/ Report(r)
    <3>1. PICK a : SetRouting(a, FALSE)
        BY <2>1 DEF LimitOffline, Report
    <3>2. \A b \in Accounts : /\ slot'[b].checkedOut = slot[b].checkedOut
                              /\ slot'[b].workers = slot[b].workers
        BY <1>1, <3>1 DEF SetRouting, IInv, TypeOK, SlotType
    <3>3. \A b \in Accounts : slot'[b].checkedOut \in Nat
        BY <1>1, <3>2 DEF SlotType
    <3>4. UNCHANGED <<lease, drain>>
        BY <2>1 DEF LimitOffline, Report
    <3> QED
        BY <1>6, <3>2, <3>3, <3>4, LedgerQuiet
  <2>2. CASE \/ Arrive(r) \/ Wait(r) \/ TimeOut(r)
             \/ RefusePinned(r) \/ RefuseNoAccount(r) \/ RefuseToQueue(r)
             \/ Enter(r) \/ EnterFails(r) \/ Finish(r) \/ SeeLimit(r)
             \/ Handled(r)
    <3>1. UNCHANGED <<slot, lease, drain>>
        BY <2>2
        DEF Arrive, Wait, TimeOut, RefusePinned, RefuseNoAccount, RefuseToQueue,
            Refuse, Enter, EnterFails, Finish, SeeLimit, Handled, Leave, poolVars
    <3>2. \A b \in Accounts : slot[b].checkedOut \in Nat
        BY <1>1 DEF SlotType
    <3> QED
        BY <1>6, <3>1, <3>2, LedgerQuiet
  <2>3. CASE Take(r)
      BY <1>6, <2>3, LedgerTake DEF Take
  <2> QED
      BY <1>6, <2>1, <2>2, <2>3 DEF RequestStep, Release
<1>7. ASSUME NEW p \in Probes, UNCHANGED uncounted, ProbeTake(p)
      PROVE  LedgerInv' /\ drain' = drain
  <2>1. PICK a \in Accounts, t \in Tabs : Pop(NoWant, a, t, 0)
      BY <1>7 DEF ProbeTake
  <2>2. \A b \in Accounts : /\ slot'[b].checkedOut = slot[b].checkedOut
                            /\ slot'[b].workers = slot[b].workers
                            /\ slot'[b].checkedOut \in Nat
      BY <1>1, <2>1 DEF Pop, IInv, TypeOK, SlotType
  <2> QED
      BY <1>7, <2>2, LedgerQuiet DEF ProbeTake, requestVars
<1>8. ASSUME NEW a \in Accounts, UNCHANGED uncounted,
             DrainBegin(a) \/ DrainScan(a) \/ DrainTimeOut(a) \/ DrainEnd(a)
      PROVE  /\ LedgerInv'
             /\ \A b \in Accounts : drain[b] # "drained" /\ drain'[b] = "drained" =>
                  Cardinality(Users(b)) <= uncounted[b]
  <2>1. \A b \in Accounts : slot[b].checkedOut \in Nat
      BY <1>1 DEF SlotType
  <2> QED
      BY <1>8, <2>1, LedgerDrain, LedgerQuiet
<1>9. ASSUME NEW a \in Accounts, UNCHANGED uncounted,
             \/ Register(a) \/ SetOrder(a) \/ Suspend(a)
             \/ Resume(a) \/ AddWorkers(a) \/ Retire(a)
      PROVE  LedgerInv' /\ \A b \in Accounts : drain'[b] = "drained" => drain[b] = "drained"
  <2>1. drain' = drain \/ drain' = WakeDrains
      BY <1>9 DEF Register, RegisterOp, SetOrder, Suspend, Resume, ResumeOp,
         AddWorkers, AddWorkersOp, Retire, RetireOp, NotifyAll
  <2> QED
      BY <1>2, <1>9, <2>1, LedgerControl
<1>10. CASE UNCHANGED lvars
  <2>1. \A b \in Accounts : slot[b].checkedOut \in Nat
      BY <1>1 DEF SlotType
  <2>2. UNCHANGED <<slot, lease, drain, uncounted>>
      BY <1>10 DEF lvars, vars
  <2> QED
      BY <2>1, <2>2, LedgerQuiet
<1>11. CASE LedgerNext
    BY <1>2, <1>3, <1>4, <1>5, <1>6, <1>7, <1>8, <1>9, <1>11
    DEF LedgerNext, Uncharged
<1> QED
    BY <1>10, <1>11

\* Before anything happened nobody uses an account.
LEMMA LedgerBegins == LedgerInit => LedgerInv
<1> SUFFICES ASSUME LedgerInit PROVE LedgerInv
    OBVIOUS
<1>1. \A a \in Accounts : Users(a) = {} /\ slot[a].checkedOut = 0
    BY DEF LedgerInit, Init, Quiet, Users, NewSlot
<1>2. uncounted \in [Accounts -> Nat] /\ \A a \in Accounts : uncounted[a] = 0
    BY DEF LedgerInit
<1>3. \A a \in Accounts : IsFiniteSet(Users(a)) /\ Cardinality(Users(a)) = 0
    BY <1>1, FS_EmptySet
<1> QED
    BY <1>1, <1>2, <1>3 DEF LedgerInv

\* Through timeouts, failures, probes, forced closes, restarts and late releases
\* a slot's count and the releases it was wrongly charged for account for every
\* request on the tabs the account has.
THEOREM LedgerSafety == LedgerSpec => []LedgerInv
<1>1. IInv /\ IInv' /\ LeaseCount /\ LedgerInv /\ [LedgerNext]_lvars => LedgerInv'
    BY LedgerKept
<1> QED
    BY <1>1, LedgerBegins, LedgerPool, LeaseSafety, CountSafety, PTL DEF LedgerSpec

\* "Wait until no tab of the account is mid-request.  True if fully drained."
\* (worker_pool.py:271), with what the code lets slip: wait_drained answers True
\* only when the requests left on the account's tabs are no more than the
\* releases that the slot was charged for without having counted them.
THEOREM DrainsMissOnlyUncounted == LedgerSpec => DrainMissesOnlyUncounted
<1>1. IInv /\ IInv' /\ LeaseCount /\ LedgerInv /\ [LedgerNext]_lvars =>
        [\A a \in Accounts :
           drain[a] # "drained" /\ drain'[a] = "drained" =>
             Cardinality(Users(a)) <= uncounted[a]]_lvars
    BY LedgerKept
<1> QED
    BY <1>1, LedgerSafety, LedgerPool, LeaseSafety, CountSafety, PTL
    DEF LedgerSpec, DrainMissesOnlyUncounted

-----------------------------------------------------------------------------
(* Everything the pool keeps *)

PoolInv == IInv /\ NoTabLost /\ WakeInv /\ QueueInv /\ LeaseCount

\* The results above are steps of one invariant, which any specification
\* whose steps are steps of the pool inherits.
LEMMA PoolNext == PoolInv /\ [Next]_vars => PoolInv'
<1> SUFFICES ASSUME PoolInv, [Next]_vars PROVE PoolInv'
    OBVIOUS
<1>1. IInv /\ TypeOK
    BY DEF PoolInv, IInv
<1>2. IInv'
    BY <1>1, LeaseNext
<1>3. NoTabLost'
    BY <1>1, PlacedNext DEF PoolInv
<1>4. WakeInv'
    BY <1>1, WakeNext DEF PoolInv
<1>5. QueueInv'
    BY <1>1, QueueNext DEF PoolInv
<1>6. LeaseCount'
    BY <1>1, CountNext DEF PoolInv
<1> QED
    BY <1>2, <1>3, <1>4, <1>5, <1>6 DEF PoolInv
=============================================================================
