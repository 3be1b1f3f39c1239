--------------------------- MODULE RotationProofs ---------------------------
(***************************************************************************)
(* The rotation of _pick_idle is fair, for any number of accounts, orders, *)
(* requests, providers and models and finitely many tabs: no account is    *)
(* passed over twice in favour of the same other one.                      *)
(***************************************************************************)
EXTENDS Rotation, WorkerPoolProofs

\* The accounts stay registered, with the provider they started with.
Registered ==
    /\ slots = Accounts
    /\ \A a \in Accounts : slot[a].provider = DefaultProvider

\* Whoever was picked since b was passed over is behind b, counted from
\* where the rotation stands.
Behind ==
    \A k \in Keys : \A b \in Accounts : \A a \in passed[k][b] :
      /\ cursor[k] \in Accounts /\ k[1] \in {None, DefaultProvider}
      /\ a # b /\ VisitedFirst(cursor[k], b, a)

RotationInv ==
    /\ IInv
    /\ Registered
    /\ passed \in [Keys -> [Accounts -> SUBSET Accounts]]
    /\ Behind

-----------------------------------------------------------------------------
(* The cyclic order *)

\* Of two accounts one comes first, from wherever one counts.
LEMMA OneComesFirst ==
    ASSUME TypeOK, NEW s \in Accounts, NEW a \in Accounts, NEW b \in Accounts,
           a # b, VisitedFirst(s, a, b)
    PROVE  ~VisitedFirst(s, b, a)
<1>1. \A x \in Accounts : x \in Nat /\ slot[x].order \in Nat
    BY PoolAssumption DEF TypeOK, SlotType
<1> QED
    BY <1>1 DEF VisitedFirst, Before

\* Once a is picked, it is the last one from where the rotation then stands.
LEMMA PickedIsLast ==
    ASSUME TypeOK, NEW w, Scope(w) = Accounts,
           NEW a \in Accounts, NEW n \in Accounts, Successor(w, a, n),
           NEW b \in Accounts, b # a
    PROVE  VisitedFirst(n, b, a)
<1>1. \A x \in Accounts : x \in Nat /\ slot[x].order \in Nat
    BY PoolAssumption DEF TypeOK, SlotType
<1>2. CASE \A x \in Accounts : ~Before(a, x)
  <2>1. \A x \in Accounts \ {n} : Before(n, x)
      BY <1>2 DEF Successor, First
  <2> QED
      BY <1>1, <1>2, <2>1 DEF VisitedFirst, Before
<1>3. CASE \E x \in Accounts : Before(a, x)
  <2>1. Before(a, n) /\ \A x \in Accounts \ {n} : Before(a, x) => Before(n, x)
      BY <1>3 DEF Successor, First
  <2> QED
      BY <1>1, <2>1 DEF VisitedFirst, Before
<1> QED
    BY <1>2, <1>3

\* Those behind the one picked keep their order.
LEMMA OthersKeepOrder ==
    ASSUME TypeOK, NEW w, Scope(w) = Accounts,
           NEW a \in Accounts, NEW n \in Accounts, Successor(w, a, n),
           NEW s \in Accounts, NEW b \in Accounts, NEW c \in Accounts,
           a # b, a # c, b # c,
           VisitedFirst(s, a, b), VisitedFirst(s, b, c)
    PROVE  VisitedFirst(n, b, c)
<1>1. \A x \in Accounts : x \in Nat /\ slot[x].order \in Nat
    BY PoolAssumption DEF TypeOK, SlotType
<1>2. CASE \A x \in Accounts : ~Before(a, x)
  <2>1. \A x \in Accounts \ {n} : Before(n, x)
      BY <1>2 DEF Successor, First
  <2> QED
      BY <1>1, <1>2, <2>1 DEF VisitedFirst, Before
<1>3. CASE \E x \in Accounts : Before(a, x)
  <2>1. Before(a, n) /\ \A x \in Accounts \ {n} : Before(a, x) => Before(n, x)
      BY <1>3 DEF Successor, First
  <2> QED
      BY <1>1, <2>1 DEF VisitedFirst, Before
<1> QED
    BY <1>2, <1>3

-----------------------------------------------------------------------------
(* The pool's part *)

\* Whom a request that is pinned nowhere gets.
LEMMA WhoIsTaken ==
    ASSUME IInv, Registered, NEW r \in Requests, Take(r), want[r].pinned = None
    PROVE  LET a == AccountOf[lease'[r]]
               k == Key(want[r])
           IN  /\ a \in Eligible(want[r]) /\ k \in Keys
               /\ Scope(want[r]) = Accounts
               /\ k[1] \in {None, DefaultProvider}
               /\ \E s \in Accounts :
                    /\ cursor[k] \in Accounts => s = cursor[k]
                    /\ \A b \in Eligible(want[r]) \ {a} : VisitedFirst(s, a, b)
               /\ \E n \in Accounts : /\ Successor(want[r], a, n)
                                      /\ cursor' = [cursor EXCEPT ![k] = n]
<1>1. PICK a \in Accounts, t \in Tabs :
          /\ Chosen(want[r], a)
          /\ Pop(want[r], a, t, 1)
          /\ lease' = [lease EXCEPT ![r] = t]
    BY DEF Take
<1>2. AccountOf[lease'[r]] = a
    BY <1>1 DEF Pop, TopIdle, IInv, TypeOK, LeaseInv, IdleInService
<1>3. Key(want[r]) \in Keys /\ Key(want[r])[1] = want[r].provider
    BY KeyType DEF IInv, TypeOK, Key
<1>4. a \in Eligible(want[r]) /\ a \in Scope(want[r])
    BY <1>1 DEF Chosen, Eligible, Routable
<1>5. Scope(want[r]) = Accounts /\ want[r].provider \in {None, DefaultProvider}
    BY <1>4 DEF Scope, Registered
<1>6. PICK s \in Accounts : /\ Start(want[r], s)
                            /\ \A b \in Eligible(want[r]) \ {a} : VisitedFirst(s, a, b)
    BY <1>1, <1>5 DEF Chosen
<1>7. cursor[Key(want[r])] \in Accounts => s = cursor[Key(want[r])]
    BY <1>5, <1>6 DEF Start
<1>8. PICK n \in Accounts : /\ Successor(want[r], a, n)
                            /\ cursor' = [cursor EXCEPT ![Key(want[r])] = n]
    BY <1>1, <1>5 DEF Pop, Advance
<1> QED
    BY <1>2, <1>3, <1>4, <1>5, <1>6, <1>7, <1>8

\* No step of a request registers or reorders an account.
LEMMA RequestsKeepOrder ==
    ASSUME TypeOK, NEW r \in Requests, Arrive(r) \/ RequestStep(r)
    PROVE  /\ slots' = slots
           /\ \A a \in Accounts : /\ slot'[a].order = slot[a].order
                                  /\ slot'[a].provider = slot[a].provider
           /\ ~Take(r) => cursor' = cursor
<1>1. CASE Take(r)
  <2>1. PICK a \in Accounts, t \in Tabs : Pop(want[r], a, t, 1)
      BY <1>1 DEF Take
  <2> QED
      BY <1>1, <2>1 DEF Pop, TypeOK, SlotType
<1>2. CASE LimitOffline(r) \/ Report(r)
  <2>1. PICK a : SetRouting(a, FALSE)
      BY <1>2 DEF LimitOffline, Report
  <2>2. UNCHANGED <<slots, cursor>>
      BY <1>2 DEF LimitOffline, Report
  <2> QED
      BY <2>1, <2>2 DEF SetRouting, TypeOK, SlotType
<1>3. CASE Release(r)
  <2>1. PutBack(lease[r])
      BY <1>3 DEF Release
  <2> QED
      BY <2>1 DEF PutBack, TypeOK, SlotType
<1>4. CASE \/ Arrive(r) \/ Wait(r)
           \/ RefusePinned(r) \/ RefuseNoAccount(r) \/ RefuseToQueue(r)
           \/ Enter(r) \/ EnterFails(r) \/ Finish(r) \/ Handled(r)
    BY <1>4
    DEF Arrive, Wait, RefusePinned, RefuseNoAccount, RefuseToQueue,
        Refuse, Enter, EnterFails, Finish, Handled, Leave, poolVars
<1> QED
    BY <1>1, <1>2, <1>3, <1>4 DEF RequestStep

\* The cyclic order depends on the orders of the slots only.
LEMMA SameCycle ==
    ASSUME \A x \in Accounts : slot'[x].order = slot[x].order
    PROVE  \A s, a, b \in Accounts :
             VisitedFirst(s, a, b)' <=> VisitedFirst(s, a, b)
BY DEF VisitedFirst, Before

\* Where neither the history nor the rotation moves.
LEMMA RotationQuiet ==
    ASSUME RotationInv, IInv', slots' = slots, passed' = passed, cursor' = cursor,
           \A a \in Accounts : /\ slot'[a].order = slot[a].order
                               /\ slot'[a].provider = slot[a].provider
    PROVE  RotationInv'
<1>1. Registered'
    BY DEF RotationInv, Registered
<1>2. Behind'
  <2> SUFFICES ASSUME NEW k \in Keys, NEW b \in Accounts, NEW a \in passed[k][b]
               PROVE  /\ cursor[k] \in Accounts /\ k[1] \in {None, DefaultProvider}
                      /\ a # b /\ VisitedFirst(cursor[k], b, a)'
      BY DEF Behind
  <2>1. a \in Accounts
      BY DEF RotationInv
  <2> QED
      BY <2>1, SameCycle DEF RotationInv, Behind
<1> QED
    BY <1>1, <1>2 DEF RotationInv

-----------------------------------------------------------------------------
(* The history *)

\* A pick puts the account picked behind all others.
LEMMA PickKeepsRotation ==
    ASSUME RotationInv, NEW r \in Requests, Pick(r)
    PROVE  RotationInv'
<1>1. IInv'
  <2>1. Next
      BY DEF Pick, Next, RequestStep
  <2> QED
      BY <2>1, LeaseNext DEF RotationInv
<1>2. TypeOK /\ Take(r) /\ slots' = slots
      /\ \A a \in Accounts : /\ slot'[a].order = slot[a].order
                             /\ slot'[a].provider = slot[a].provider
    BY RequestsKeepOrder DEF RotationInv, IInv, Pick, RequestStep
<1>3. CASE want[r].pinned # None
  <2>1. passed' = passed
      BY <1>3 DEF Pick
  <2>2. cursor' = cursor
      BY <1>2, <1>3 DEF Take, Pop, Advance
  <2> QED
      BY <1>1, <1>2, <2>1, <2>2, RotationQuiet
<1>4. CASE want[r].pinned = None
  <2> DEFINE a == AccountOf[lease'[r]]
             w == want[r]
             k == Key(w)
  <2>1. /\ a \in Eligible(w) /\ k \in Keys
        /\ Scope(w) = Accounts
        /\ k[1] \in {None, DefaultProvider}
        /\ \E s \in Accounts :
             /\ cursor[k] \in Accounts => s = cursor[k]
             /\ \A b \in Eligible(w) \ {a} : VisitedFirst(s, a, b)
        /\ \E n \in Accounts : /\ Successor(w, a, n)
                               /\ cursor' = [cursor EXCEPT ![k] = n]
      BY <1>2, <1>4, WhoIsTaken DEF RotationInv
  <2>2. passed' = [passed EXCEPT ![k] =
                     [b \in Accounts |-> IF b \in Eligible(w) \ {a}
                                           THEN passed[k][b] \cup {a} ELSE {}]]
      BY <1>4 DEF Pick, Record
  <2>3. Eligible(w) \subseteq Accounts
      BY <2>1 DEF Eligible, Routable
  <2> HIDE DEF a, w, k
  <2>4. PICK s \in Accounts :
          /\ cursor[k] \in Accounts => s = cursor[k]
          /\ \A b \in Eligible(w) \ {a} : VisitedFirst(s, a, b)
      BY <2>1
  <2>5. PICK n \in Accounts : Successor(w, a, n) /\ cursor' = [cursor EXCEPT ![k] = n]
      BY <2>1
  <2>6. a \in Accounts /\ cursor'[k] = n
      BY <2>1, <2>3, <2>5, <1>2 DEF TypeOK
  <2>7. ASSUME NEW b \in Accounts, NEW c \in passed'[k][b]
        PROVE  c \in Accounts /\ c # b /\ VisitedFirst(n, b, c)
    <3>1. b \in Eligible(w) \ {a} /\ c \in passed[k][b] \cup {a}
        BY <2>1, <2>2, <2>7 DEF RotationInv
    <3>2. CASE c = a
        BY <1>2, <2>1, <2>5, <2>6, <3>1, <3>2, PickedIsLast
    <3>3. CASE c # a
      <4>1. /\ c \in Accounts /\ cursor[k] \in Accounts
            /\ c # b /\ VisitedFirst(cursor[k], b, c)
          BY <2>1, <3>1, <3>3 DEF RotationInv, Behind
      <4>2. VisitedFirst(s, a, b) /\ VisitedFirst(s, b, c)
          BY <2>4, <3>1, <4>1
      <4> QED
          BY <1>2, <2>1, <2>5, <2>6, <3>1, <3>3, <4>1, <4>2, OthersKeepOrder
    <3> QED
        BY <3>2, <3>3
  <2>8. ASSUME NEW j \in Keys, j # k
        PROVE  passed'[j] = passed[j] /\ cursor'[j] = cursor[j]
      BY <2>2, <2>5, <2>8, <1>2 DEF RotationInv, TypeOK
  <2>9. Registered'
      BY <1>2 DEF RotationInv, Registered
  <2>10. passed' \in [Keys -> [Accounts -> SUBSET Accounts]]
      BY <2>1, <2>2, <2>6 DEF RotationInv
  <2>11. Behind'
    <3> SUFFICES ASSUME NEW j \in Keys, NEW b \in Accounts, NEW c \in passed'[j][b]
                 PROVE  /\ cursor'[j] \in Accounts /\ j[1] \in {None, DefaultProvider}
                        /\ c # b /\ VisitedFirst(cursor[j], b, c)'
        BY DEF Behind
    <3>1. /\ cursor'[j] \in Accounts /\ j[1] \in {None, DefaultProvider}
          /\ c \in Accounts /\ c # b /\ VisitedFirst(cursor'[j], b, c)
      <4>1. CASE j = k
          BY <2>1, <2>6, <2>7, <4>1
      <4>2. CASE j # k
          BY <2>8, <4>2 DEF RotationInv, Behind
      <4> QED
          BY <4>1, <4>2
    <3> QED
        BY <1>2, <3>1 DEF VisitedFirst, Before
  <2> QED
      BY <1>1, <2>9, <2>10, <2>11 DEF RotationInv
<1> QED
    BY <1>3, <1>4

\* Every other step leaves the rotation alone or starts a new history.
LEMMA RotationNext ==
    ASSUME RotationInv, [RNext]_rvars
    PROVE  RotationInv'
<1> USE DEF RotationInv
<1>1. TypeOK
    BY DEF IInv
<1>2. ASSUME NEW r \in Requests, Other(r)
      PROVE  RotationInv'
  <2>1. Next
      BY <1>2 DEF Other, Next
  <2>2. IInv'
      BY <2>1, LeaseNext
  <2>3. Arrive(r) => ~Take(r)
      BY DEF Arrive, Take, AtLock
  <2> QED
      BY <1>1, <1>2, <2>2, <2>3, RequestsKeepOrder, RotationQuiet DEF Other
<1>3. ASSUME NEW r \in Requests, Again(r)
      PROVE  RotationInv'
  <2>1. UNCHANGED <<slots, slot, retired, cursor, waiters, want, lease, limited,
                    probe, drain, passed>>
      BY <1>3 DEF Again, poolVars
  <2>2. TypeOK'
      BY <1>1, <1>3, <2>1 DEF Again, TypeOK, Stages, Outcomes
  <2>3. LeaseInv'
      BY <2>1, LeaseQuiet DEF IInv
  <2>4. LeaseWhileServed'
      BY <1>1, <1>3, <2>1 DEF Again, IInv, LeaseWhileServed, Served, TypeOK
  <2> QED
      BY <2>1, <2>2, <2>3, <2>4, RotationQuiet DEF IInv
<1>4. ASSUME NEW a \in Accounts, Route(a)
      PROVE  RotationInv'
  <2>1. Next
      BY <1>4 DEF Route, Next, ControlStep
  <2>2. PICK on \in BOOLEAN : SetRouting(a, on)
      BY <1>4 DEF Route, Suspend, Resume, ResumeOp
  <2>3. UNCHANGED <<slots, cursor, passed>>
      BY <1>4 DEF Route, Suspend, Resume, ResumeOp
  <2>4. \A b \in Accounts : /\ slot'[b].order = slot[b].order
                            /\ slot'[b].provider = slot[b].provider
      BY <1>1, <2>2 DEF SetRouting, TypeOK, SlotType
  <2> QED
      BY <2>1, <2>3, <2>4, LeaseNext, RotationQuiet
<1>5. ASSUME NEW a \in Accounts, Reorder(a)
      PROVE  RotationInv'
  <2>1. Next
      BY <1>5 DEF Reorder, Next, ControlStep
  <2>2. slots' = slots /\ \A b \in Accounts : slot'[b].provider = slot[b].provider
      BY <1>1, <1>5 DEF Reorder, SetOrder, TypeOK, SlotType
  <2>3. passed' = [k \in Keys |-> [b \in Accounts |-> {}]]
      BY <1>5 DEF Reorder
  <2> QED
      BY <2>1, <2>2, <2>3, LeaseNext DEF Registered, Behind
<1>6. CASE UNCHANGED rvars
  <2>1. UNCHANGED vars /\ passed' = passed
      BY <1>6 DEF rvars
  <2>2. IInv'
      BY <2>1, LeaseNext
  <2> QED
      BY <2>1, <2>2, RotationQuiet DEF vars
<1> QED
    BY <1>2, <1>3, <1>4, <1>5, <1>6, PickKeepsRotation DEF RNext

\* In the beginning nobody was passed over.
LEMMA RotationInit ==
    ASSUME IsFiniteSet(Tabs), RInit
    PROVE  RotationInv
<1>1. IInv
    BY OnlineInv DEF RInit
<1>2. Registered
    BY DEF RInit, Online, OnlineSlot, NewSlot, Registered
<1> QED
    BY <1>1, <1>2 DEF RInit, RotationInv, Behind

\* A request that is pinned nowhere does not get an account that was already
\* preferred to one that could serve it as well.
LEMMA NobodyTwice ==
    ASSUME RotationInv, NEW r \in Requests, Take(r), want[r].pinned = None
    PROVE  LET a == AccountOf[lease'[r]]
           IN  \A b \in Eligible(want[r]) \ {a} : a \notin passed[Key(want[r])][b]
<1> DEFINE a == AccountOf[lease'[r]]
           k == Key(want[r])
<1>1. /\ a \in Eligible(want[r]) /\ k \in Keys
      /\ Scope(want[r]) = Accounts
      /\ \E s \in Accounts :
           /\ cursor[k] \in Accounts => s = cursor[k]
           /\ \A b \in Eligible(want[r]) \ {a} : VisitedFirst(s, a, b)
    BY WhoIsTaken DEF RotationInv
<1>2. Eligible(want[r]) \subseteq Accounts
    BY <1>1 DEF Eligible, Routable
<1> HIDE DEF a, k
<1>3. ASSUME NEW b \in Eligible(want[r]) \ {a}, a \in passed[k][b]
      PROVE  FALSE
  <2>1. a \in Accounts /\ b \in Accounts /\ a # b
      BY <1>1, <1>2
  <2>2. cursor[k] \in Accounts /\ VisitedFirst(cursor[k], b, a)
      BY <1>1, <1>3, <2>1 DEF RotationInv, Behind
  <2>3. VisitedFirst(cursor[k], a, b)
      BY <1>1, <1>3, <2>2
  <2> QED
      BY <2>1, <2>2, <2>3, OneComesFirst DEF RotationInv, IInv
<1> QED
    BY <1>3 DEF a, k

\* What the rotation keeps, whichever accounts are suspended, resumed or moved in
\* the order and whatever the requests exclude.
THEOREM RotationSafety ==
    ASSUME IsFiniteSet(Tabs)
    PROVE  RSpec => []RotationInv
<1>1. RotationInv /\ [RNext]_rvars => RotationInv'
    BY RotationNext
<1> QED
    BY <1>1, RotationInit, PTL DEF RSpec

\* "Requests for a provider/model rotate through every schedulable account,
\* independent of how many tabs each account owns" (worker_pool.py:11-14): an
\* account that could serve is not passed over twice for the same other one.
THEOREM RotationIsFair ==
    ASSUME IsFiniteSet(Tabs)
    PROVE  RSpec => NobodyPassedTwice
<1>1. RotationInv =>
        [\A r \in Requests :
           Take(r) /\ want[r].pinned = None =>
             LET a == AccountOf[lease'[r]]
             IN  \A b \in Eligible(want[r]) \ {a} :
                   a \notin passed[Key(want[r])][b]]_rvars
    BY NobodyTwice
<1> QED
    BY <1>1, RotationSafety, PTL DEF NobodyPassedTwice
=============================================================================
