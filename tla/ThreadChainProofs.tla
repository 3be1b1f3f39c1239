-------------------------- MODULE ThreadChainProofs --------------------------
(***************************************************************************)
(* Proofs about ThreadChain: conversations stay in the account that owns   *)
(* them, and the continuations of one conversation are serialized unless   *)
(* the bounded map of locks has forgotten one in use.                      *)
(***************************************************************************)
EXTENDS ThreadChain, TLAPS

-----------------------------------------------------------------------------
(* Facts about the bounded maps *)

\* Evicting the oldest keeps a suffix, of the length allowed.
LEMMA NewestType ==
    ASSUME NEW S, NEW q \in Seq(S), NEW n \in Nat
    PROVE  /\ Newest(q, n) \in Seq(S)
           /\ Len(Newest(q, n)) <= n
           /\ Len(q) <= n => Newest(q, n) = q
<1>1. CASE Len(q) > n
  <2>1. SubSeq(q, Len(q) - n + 1, Len(q)) \in Seq(S)
      BY <1>1
  <2>2. Len(SubSeq(q, Len(q) - n + 1, Len(q))) = n
      BY <1>1
  <2> QED
      BY <1>1, <2>1, <2>2 DEF Newest
<1>2. CASE ~(Len(q) > n)
    BY <1>2 DEF Newest
<1> QED
    BY <1>1, <1>2

\* What is left is the end of what there was, and not nothing.
LEMMA NewestEnds ==
    ASSUME NEW S, NEW q \in Seq(S), Len(q) > 0, NEW n \in Nat \ {0}
    PROVE  \E k \in Nat : /\ Len(Newest(q, n)) = Len(q) - k /\ k < Len(q)
                          /\ \A i \in 1 .. (Len(q) - k) : Newest(q, n)[i] = q[i + k]
<1>1. CASE Len(q) > n
  <2>1. Len(q) - n \in Nat /\ Len(SubSeq(q, Len(q) - n + 1, Len(q))) = n
      BY <1>1
  <2>2. \A i \in 1 .. n : SubSeq(q, Len(q) - n + 1, Len(q))[i] = q[i + (Len(q) - n)]
      BY <1>1
  <2>3. Newest(q, n) = SubSeq(q, Len(q) - n + 1, Len(q))
      BY <1>1 DEF Newest
  <2>4. Len(q) - (Len(q) - n) = n /\ Len(q) - n < Len(q)
      OBVIOUS
  <2> QED
      BY <2>1, <2>2, <2>3, <2>4
<1>2. CASE ~(Len(q) > n)
  <2>1. /\ Newest(q, n) = q /\ Len(q) - 0 = Len(q) /\ 0 < Len(q)
        /\ \A i \in 1 .. Len(q) : q[i + 0] = q[i]
      BY <1>2 DEF Newest
  <2> QED
      BY <2>1
<1> QED
    BY <1>1, <1>2

\* Appending adds one element.
LEMMA ElementsAppend ==
    ASSUME NEW S, NEW q \in Seq(S), NEW x
    PROVE  Elements(Append(q, x)) = Elements(q) \cup {x}
<1>1. /\ Len(Append(q, x)) = Len(q) + 1
      /\ \A i \in 1 .. Len(q) : Append(q, x)[i] = q[i]
      /\ Append(q, x)[Len(q) + 1] = x
      /\ Len(q) \in Nat
    OBVIOUS
<1> QED
    BY <1>1 DEF Elements

\* The elements of a sequence over S are in S.
LEMMA ElementsType ==
    ASSUME NEW S, NEW q \in Seq(S)
    PROVE  Elements(q) \subseteq S
BY DEF Elements

\* Where the map stays as it is, it forgets nothing.
LEMMA EvictQuiet ==
    ASSUME NEW r \in Requests, Evict(r), UNCHANGED lockMap
    PROVE  evicted' = {l \in evicted : \E s \in Requests \ {r} : myLock[s] = l}
BY DEF Evict, Elements

-----------------------------------------------------------------------------
(* Type correctness *)

\* Finding or making a conversation's lock keeps the types and the bound.
LEMMA TypeAskChain ==
    ASSUME ChainTypeOK, NEW r \in Requests, AskChain(r)
    PROVE  ChainTypeOK'
<1>1. PICK T \in Elements(known) :
          chain' = [chain EXCEPT ![r] = T] /\ LockFor(r, T)
    BY DEF AskChain
<1>2. T \in Threads
    BY ElementsType DEF ChainTypeOK
<1>3. /\ myLock' \in [Requests -> LockIds \cup {None}]
      /\ lockMap' \in Seq([thread : Threads, lock : LockIds])
      /\ Len(lockMap') <= MaxLocks
  <2>1. CASE /\ \E e \in Elements(lockMap) : myLock' = [myLock EXCEPT ![r] = e.lock]
             /\ UNCHANGED lockMap
    <3>1. Elements(lockMap) \subseteq [thread : Threads, lock : LockIds]
        BY ElementsType DEF ChainTypeOK
    <3>2. PICK e \in Elements(lockMap) : myLock' = [myLock EXCEPT ![r] = e.lock]
        BY <2>1
    <3>3. e.lock \in LockIds
        BY <3>1
    <3> QED
        BY <2>1, <3>2, <3>3 DEF ChainTypeOK
  <2>2. CASE \E l \in LockIds :
               /\ myLock' = [myLock EXCEPT ![r] = l]
               /\ lockMap' =
                    Newest(Append(lockMap, [thread |-> T, lock |-> l]), MaxLocks)
    <3>1. PICK l \in LockIds :
             /\ myLock' = [myLock EXCEPT ![r] = l]
             /\ lockMap' =
                  Newest(Append(lockMap, [thread |-> T, lock |-> l]), MaxLocks)
        BY <2>2
    <3>2. Append(lockMap, [thread |-> T, lock |-> l])
            \in Seq([thread : Threads, lock : LockIds])
        BY <1>2 DEF ChainTypeOK
    <3>3. lockMap' \in Seq([thread : Threads, lock : LockIds])
        BY <3>1, <3>2, NewestType, ChainAssumption
    <3>4. Len(lockMap') <= MaxLocks
        BY <3>1, <3>2, NewestType, ChainAssumption
    <3>5. myLock' \in [Requests -> LockIds \cup {None}]
        BY <3>1 DEF ChainTypeOK
    <3> QED
        BY <3>3, <3>4, <3>5
  <2> QED
      BY <1>1, <2>1, <2>2 DEF LockFor
<1>4. evicted' \subseteq LockIds
  <2>1. \A e \in Elements(lockMap) : e.lock \in LockIds
      BY ElementsType DEF ChainTypeOK
  <2> QED
      BY <2>1 DEF AskChain, Evict, ChainTypeOK
<1> QED
    BY <1>1, <1>2, <1>3, <1>4
    DEF AskChain, Go, Turns, ChainTypeOK, vars, tabVars

\* Remembering a response keeps the types and the bound.
LEMMA TypeAnswer ==
    ASSUME ChainTypeOK, NEW r \in Requests, Answer(r)
    PROVE  ChainTypeOK'
<1>1. PICK T \in Threads \cup {None} : Show(lease[r], T) /\ Remember(r, T)
    BY DEF Answer
<1>2. known' \in Seq(Threads) /\ Len(known') <= MaxResponses
  <2>1. CASE T # None /\ known' = Newest(Append(known, T), MaxResponses)
    <3>1. Append(known, T) \in Seq(Threads)
        BY <2>1 DEF ChainTypeOK
    <3> QED
        BY <2>1, <3>1, NewestType, ChainAssumption
  <2> QED
      BY <1>1, <2>1 DEF Remember, ChainTypeOK
<1> QED
    BY <1>1, <1>2
    DEF Answer, Show, Go, Turns, ChainTypeOK, vars, lockVars

\* Navigations keep the types.
LEMMA TypeShow ==
    ASSUME ChainTypeOK, NEW r \in Requests,
           \/ EntersNewChat(r) \/ ResumeThread(r) \/ RotateChat(r)
           \/ Recover(r) \/ Fail(r)
    PROVE  ChainTypeOK'
<1>1. PICK T : page' = [page EXCEPT ![lease[r]] = T] \/ page' = page
    BY DEF EntersNewChat, ResumeThread, RotateChat, Recover, Fail, Show
<1>2. page' \in [Tabs -> Threads \cup {None}]
  <2>1. CASE EntersNewChat(r) \/ ResumeThread(r) \/ RotateChat(r) \/ Recover(r)
      BY <2>1
      DEF EntersNewChat, ResumeThread, RotateChat, Recover, Show, ChainTypeOK
  <2>2. CASE Fail(r)
    <3>1. PICK T2 \in Leftover(r) : page' = [page EXCEPT ![lease[r]] = T2]
        BY <2>2 DEF Fail, Show
    <3>2. CASE lease[r] \in Tabs
      <4>1. T2 \in Threads \cup {None}
          BY <3>1, <3>2, <2>2 DEF Leftover, Fail, ChainTypeOK
      <4> QED
          BY <3>1, <4>1 DEF ChainTypeOK
    <3>3. CASE lease[r] \notin Tabs
        BY <3>1, <3>3 DEF ChainTypeOK
    <3> QED
        BY <3>2, <3>3
  <2> QED
      BY <2>1, <2>2
<1> QED
    BY <1>2
    DEF EntersNewChat, ResumeThread, RotateChat, Recover, Fail, Go, Turns,
        ChainTypeOK, vars, lockVars

\* Locks, acquire and release keep the types.
LEMMA TypeOther ==
    ASSUME ChainTypeOK, NEW r \in Requests,
           \/ AskFresh(r) \/ GetLock(r) \/ Acquire(r) \/ Refused(r)
           \/ Enter(r) \/ EnterFails(r) \/ Break(r) \/ Leave(r)
    PROVE  ChainTypeOK'
<1>1. CASE AskFresh(r) \/ Enter(r) \/ EnterFails(r) \/ Break(r)
    BY <1>1 DEF AskFresh, Enter, EnterFails, Break, Go, Turns, ChainTypeOK,
                vars, tabVars, lockVars
<1>2. CASE GetLock(r)
    BY <1>2 DEF GetLock, Go, Turns, ChainTypeOK, vars, tabVars
<1>3. CASE Acquire(r)
    BY <1>3 DEF Acquire, Grant, Go, Turns, ChainTypeOK, tabVars, lockVars
<1>4. CASE Refused(r)
    BY <1>4, EvictQuiet DEF Refused, EndTurn, Go, Turns, ChainTypeOK, vars, tabVars
<1>5. CASE Leave(r)
    BY <1>5, EvictQuiet DEF Leave, Return, EndTurn, Go, Turns, ChainTypeOK
<1> QED
    BY <1>1, <1>2, <1>3, <1>4, <1>5

\* Every step keeps the types.
LEMMA ChainTypeNext ==
    ASSUME ChainTypeOK, [TNext]_tvars
    PROVE  ChainTypeOK'
<1>1. CASE UNCHANGED tvars
    BY <1>1 DEF tvars, vars, tabVars, lockVars, ChainTypeOK
<1>2. CASE TNext
    BY <1>2, TypeAskChain, TypeAnswer, TypeShow, TypeOther DEF TNext, TurnStep
<1> QED
    BY <1>1, <1>2

\* The maps stay within their bounds and everything keeps its type.
THEOREM ChainTypeCorrect == TSpec => []ChainTypeOK
<1>1. TInit => ChainTypeOK
    BY ChainAssumption DEF TInit, ChainTypeOK, Turns
<1>2. ChainTypeOK /\ [TNext]_tvars => ChainTypeOK'
    BY ChainTypeNext
<1> QED
    BY <1>1, <1>2, PTL DEF TSpec

-----------------------------------------------------------------------------
(* Conversations stay at home *)

HasTab == {"entering", "pooled", "replying", "broken", "recovered", "leaving"}

\* A request has a tab exactly from acquire() to __aexit__, and a chain has
\* one of the account that owns its conversation.
Pinned ==
    \A r \in Requests :
      /\ turn[r] \in HasTab <=> lease[r] # None
      /\ chain[r] # None /\ lease[r] # None =>
           AccountOf[lease[r]] = OwnerOf[chain[r]]

HomeInv == Pinned /\ ThreadsAtHome

\* A tab that comes to show a conversation shows one of its own account.
LEMMA HomeShow ==
    ASSUME ChainTypeOK, ThreadsAtHome, NEW t \in Tabs, NEW T, Show(t, T),
           T # None => OwnerOf[T] = AccountOf[t]
    PROVE  ThreadsAtHome'
BY DEF ChainTypeOK, ThreadsAtHome, Show

\* acquire() pins a chain to its owner, and no step unpins it.
LEMMA PinnedStep ==
    ASSUME ChainTypeOK, Pinned, NEW r \in Requests,
           \/ AskChain(r) \/ AskFresh(r) \/ GetLock(r) \/ TurnStep(r)
    PROVE  Pinned'
<1>1. CASE AskChain(r) \/ AskFresh(r) \/ GetLock(r)
    BY <1>1
    DEF AskChain, AskFresh, GetLock, Go, HasTab, Pinned, ChainTypeOK, lockVars
<1>2. CASE Acquire(r)
  <2>1. PICK t \in Tabs : MayServe(r, t) /\ lease' = [lease EXCEPT ![r] = t]
      BY <1>2 DEF Acquire
  <2> QED
      BY <1>2, <2>1, ChainAssumption
      DEF Acquire, MayServe, Go, HasTab, Pinned, ChainTypeOK
<1>3. CASE Refused(r) \/ Leave(r)
    BY <1>3 DEF Refused, Leave, EndTurn, Go, HasTab, Pinned, ChainTypeOK
<1>4. CASE \/ EntersNewChat(r) \/ Enter(r) \/ EnterFails(r) \/ ResumeThread(r)
           \/ RotateChat(r) \/ Break(r) \/ Recover(r) \/ Answer(r) \/ Fail(r)
  <2>1. /\ turn[r] \in HasTab /\ UNCHANGED <<lease, chain>>
        /\ \E s \in HasTab : turn' = [turn EXCEPT ![r] = s]
      BY <1>4
      DEF EntersNewChat, Enter, EnterFails, ResumeThread, RotateChat, Break,
          Recover, Answer, Fail, Go, HasTab
  <2> QED
      BY <2>1 DEF Pinned, ChainTypeOK
<1> QED
    BY <1>1, <1>2, <1>3, <1>4 DEF TurnStep

\* Every step leaves the tabs on conversations of their own account.
LEMMA HomeStep ==
    ASSUME ChainTypeOK, HomeInv, NEW r \in Requests,
           \/ AskChain(r) \/ AskFresh(r) \/ GetLock(r) \/ TurnStep(r)
    PROVE  ThreadsAtHome'
<1>1. CASE UNCHANGED page
    BY <1>1 DEF HomeInv, ThreadsAtHome
<1>2. CASE /\ turn[r] \in HasTab
           /\ \E T : /\ Show(lease[r], T)
                     /\ T \in {None, page[lease[r]], chain[r]}
  <2>1. lease[r] \in Tabs
      BY <1>2 DEF HomeInv, Pinned, ChainTypeOK
  <2> QED
      BY <1>2, <2>1, HomeShow DEF HomeInv, Pinned, ThreadsAtHome
<1>3. CASE Answer(r)
  <2>1. lease[r] \in Tabs
      BY <1>3 DEF Answer, HasTab, HomeInv, Pinned, ChainTypeOK
  <2>2. PICK T \in Threads \cup {None} :
            Materialized(lease[r], T) /\ Show(lease[r], T)
      BY <1>3 DEF Answer
  <2>3. T # None => OwnerOf[T] = AccountOf[lease[r]]
      BY <2>1, <2>2 DEF Materialized, HomeInv, ThreadsAtHome
  <2> QED
      BY <2>1, <2>2, <2>3, HomeShow DEF HomeInv
<1>4. CASE EntersNewChat(r) \/ ResumeThread(r) \/ RotateChat(r) \/ Recover(r)
    BY <1>1, <1>2, <1>4
    DEF EntersNewChat, ResumeThread, RotateChat, Recover, HasTab
<1>5. CASE Fail(r)
  <2>1. PICK T \in Leftover(r) : Show(lease[r], T)
      BY <1>5 DEF Fail
  <2>2. turn[r] \in {"pooled", "replying", "broken", "recovered"}
      BY <1>5 DEF Fail
  <2>3. T \in {None, page[lease[r]], chain[r]}
      BY <2>1, <2>2 DEF Leftover
  <2> QED
      BY <1>2, <2>1, <2>2, <2>3 DEF HasTab
<1> QED
    BY <1>1, <1>3, <1>4, <1>5
    DEF TurnStep, AskChain, AskFresh, GetLock, Acquire, Refused, Enter,
        EnterFails, Break, Leave, tabVars

\* No tab ever shows a conversation of another account, whatever is
\* refused, recovered or left half done.
THEOREM ConversationsAtHome == TSpec => []ThreadsAtHome
<1>1. TInit => HomeInv
    BY DEF TInit, HomeInv, Pinned, ThreadsAtHome, HasTab
<1>2. ChainTypeOK /\ HomeInv /\ [TNext]_tvars => HomeInv'
  <2> SUFFICES ASSUME ChainTypeOK, HomeInv, [TNext]_tvars PROVE HomeInv'
      OBVIOUS
  <2>1. CASE UNCHANGED tvars
      BY <2>1 DEF tvars, tabVars, HomeInv, Pinned, ThreadsAtHome
  <2>2. CASE TNext
      BY <2>2, PinnedStep, HomeStep DEF TNext, HomeInv
  <2> QED
      BY <2>1, <2>2
<1>3. HomeInv => ThreadsAtHome
    BY DEF HomeInv
<1> QED
    BY <1>1, <1>2, <1>3, ChainTypeCorrect, PTL DEF TSpec

-----------------------------------------------------------------------------
(* Continuations of one conversation are serialized *)

\* The map has one lock per conversation, and the lock of every chain that it
\* has not forgotten.
LockMapInv ==
    /\ \A i, j \in 1 .. Len(lockMap) :
         lockMap[i].thread = lockMap[j].thread => i = j
    /\ \A r \in Requests : chain[r] # None =>
         \/ [thread |-> chain[r], lock |-> myLock[r]] \in Elements(lockMap)
         \/ myLock[r] \in evicted

\* A chain past GetLock holds its lock.
LockHeld ==
    \A r \in Requests :
      /\ turn[r] = "off" => chain[r] = None
      /\ chain[r] # None /\ turn[r] # "locking" => lockHolder[myLock[r]] = r

LockInv == LockMapInv /\ LockHeld

\* A chain's lock is a lock.
LEMMA ChainHasLock ==
    ASSUME ChainTypeOK, LockMapInv, NEW r \in Requests, chain[r] # None
    PROVE  myLock[r] \in LockIds
<1>1. CASE [thread |-> chain[r], lock |-> myLock[r]] \in Elements(lockMap)
  <2>1. [thread |-> chain[r], lock |-> myLock[r]]
          \in [thread : Threads, lock : LockIds]
      BY <1>1, ElementsType DEF ChainTypeOK
  <2>2. [thread |-> chain[r], lock |-> myLock[r]].lock \in LockIds
      BY <2>1
  <2> QED
      BY <2>2
<1>2. CASE myLock[r] \in evicted
    BY <1>2 DEF ChainTypeOK
<1> QED
    BY <1>1, <1>2 DEF LockMapInv

\* The locks of the others are in the map still, or it has forgotten them.
LEMMA OthersKept ==
    ASSUME LockMapInv, NEW r \in Requests, Evict(r),
           NEW s \in Requests, s # r, chain[s] # None
    PROVE  \/ [thread |-> chain[s], lock |-> myLock[s]] \in Elements(lockMap')
           \/ myLock[s] \in evicted'
<1> DEFINE e == [thread |-> chain[s], lock |-> myLock[s]]
<1>1. CASE myLock[s] \in evicted
    BY <1>1 DEF Evict
<1>2. CASE e \in Elements(lockMap) \ Elements(lockMap')
  <2>1. myLock[s] \in {d.lock : d \in Elements(lockMap) \ Elements(lockMap')}
    <3>1. e.lock = myLock[s]
        OBVIOUS
    <3> QED
        BY <1>2, <3>1
  <2> QED
      BY <2>1 DEF Evict
<1> QED
    BY <1>1, <1>2 DEF LockMapInv

\* A chain finds its conversation's lock, or adds it, and the map may forget
\* its oldest.
LEMMA LockMapAskChain ==
    ASSUME ChainTypeOK, LockMapInv, NEW r \in Requests, AskChain(r)
    PROVE  LockMapInv'
<1>1. PICK T \in Elements(known) :
          chain' = [chain EXCEPT ![r] = T] /\ LockFor(r, T) /\ Evict(r)
    BY DEF AskChain
<1>2. T \in Threads
    BY ElementsType DEF ChainTypeOK
<1>3. Elements(lockMap) \subseteq [thread : Threads, lock : LockIds]
    BY ElementsType DEF ChainTypeOK
<1>4. PICK l : /\ myLock' = [myLock EXCEPT ![r] = l]
               /\ [thread |-> T, lock |-> l] \in Elements(lockMap')
               /\ \A i, j \in 1 .. Len(lockMap') :
                    lockMap'[i].thread = lockMap'[j].thread => i = j
  <2>1. CASE /\ \E e \in {d \in Elements(lockMap) : d.thread = T} :
                  myLock' = [myLock EXCEPT ![r] = e.lock]
             /\ UNCHANGED lockMap
    <3>1. PICK e \in Elements(lockMap) :
              e.thread = T /\ myLock' = [myLock EXCEPT ![r] = e.lock]
        BY <2>1
    <3>2. e = [thread |-> T, lock |-> e.lock]
        BY <1>3, <3>1
    <3>3. lockMap' = lockMap
        BY <2>1
    <3>4. [thread |-> T, lock |-> e.lock] \in Elements(lockMap')
        BY <3>1, <3>2, <3>3
    <3> QED
        BY <3>1, <3>3, <3>4 DEF LockMapInv
  <2>2. CASE /\ {d \in Elements(lockMap) : d.thread = T} = {}
             /\ \E l \in LockIds :
                  /\ myLock' = [myLock EXCEPT ![r] = l]
                  /\ lockMap' =
                       Newest(Append(lockMap, [thread |-> T, lock |-> l]), MaxLocks)
    <3>1. PICK l \in LockIds :
              /\ myLock' = [myLock EXCEPT ![r] = l]
              /\ lockMap' =
                   Newest(Append(lockMap, [thread |-> T, lock |-> l]), MaxLocks)
        BY <2>2
    <3> DEFINE x == [thread |-> T, lock |-> l]
               q == Append(lockMap, x)
               n == Len(lockMap)
    <3>2. x \in [thread : Threads, lock : LockIds] /\ x.thread = T
        BY <1>2
    <3> HIDE DEF x
    <3>3. /\ q \in Seq([thread : Threads, lock : LockIds]) /\ Len(q) > 0
          /\ n \in Nat /\ Len(q) = n + 1 /\ q[n + 1] = x
          /\ \A i \in 1 .. n : q[i] = lockMap[i] /\ lockMap[i] \in Elements(lockMap)
        BY <3>2 DEF ChainTypeOK, Elements
    <3>4. \A i, j \in 1 .. (n + 1) : q[i].thread = q[j].thread => i = j
      <4> SUFFICES ASSUME NEW i \in 1 .. (n + 1), NEW j \in 1 .. (n + 1),
                          q[i].thread = q[j].thread
                   PROVE  i = j
          OBVIOUS
      <4>1. \A k \in 1 .. n : lockMap[k].thread # T
          BY <2>2, <3>3
      <4>2. CASE i \in 1 .. n /\ j \in 1 .. n
          BY <3>3, <4>2 DEF LockMapInv
      <4>3. CASE (i = n + 1 /\ j \in 1 .. n) \/ (j = n + 1 /\ i \in 1 .. n)
          BY <3>2, <3>3, <4>1, <4>3
      <4>4. CASE i = n + 1 /\ j = n + 1
          BY <4>4
      <4>5. (i \in 1 .. n \/ i = n + 1) /\ (j \in 1 .. n \/ j = n + 1)
          BY <3>3
      <4> QED
          BY <4>2, <4>3, <4>4, <4>5
    <3>5. lockMap' = Newest(q, MaxLocks) /\ MaxLocks \in Nat \ {0}
        BY <3>1, ChainAssumption DEF x
    <3> HIDE DEF q, n
    <3>6. PICK k \in Nat :
              /\ Len(lockMap') = Len(q) - k /\ k < Len(q)
              /\ \A i \in 1 .. (Len(q) - k) : lockMap'[i] = q[i + k]
        BY <3>3, <3>5, NewestEnds
    <3>7. ASSUME NEW i \in 1 .. Len(lockMap'), NEW j \in 1 .. Len(lockMap'),
                 lockMap'[i].thread = lockMap'[j].thread
          PROVE  i = j
      <4>1. /\ i + k \in 1 .. (n + 1) /\ j + k \in 1 .. (n + 1)
            /\ lockMap'[i] = q[i + k] /\ lockMap'[j] = q[j + k]
          BY <3>3, <3>6
      <4>2. i + k = j + k
          BY <3>4, <3>7, <4>1
      <4> QED
          BY <4>2
    <3>8. x \in Elements(lockMap')
      <4>1. /\ n + 1 - k \in 1 .. Len(lockMap')
            /\ lockMap'[n + 1 - k] = x
          BY <3>3, <3>6
      <4> QED
          BY <4>1 DEF Elements
    <3> QED
        BY <3>1, <3>7, <3>8 DEF x
  <2> QED
      BY <1>1, <2>1, <2>2 DEF LockFor
<1>5. ASSUME NEW s \in Requests, chain'[s] # None
      PROVE  \/ [thread |-> chain'[s], lock |-> myLock'[s]] \in Elements(lockMap')
             \/ myLock'[s] \in evicted'
  <2>1. CASE s = r
      BY <1>1, <1>4, <2>1 DEF ChainTypeOK
  <2>2. CASE s # r
    <3>1. chain'[s] = chain[s] /\ myLock'[s] = myLock[s]
        BY <1>1, <1>4, <2>2 DEF ChainTypeOK
    <3> QED
        BY <1>1, <1>5, <2>2, <3>1, OthersKept
  <2> QED
      BY <2>1, <2>2
<1> QED
    BY <1>4, <1>5 DEF LockMapInv, Elements

\* Every step keeps one lock per conversation.
LEMMA LockMapStep ==
    ASSUME ChainTypeOK, LockMapInv, NEW r \in Requests,
           \/ AskChain(r) \/ AskFresh(r) \/ GetLock(r) \/ TurnStep(r)
    PROVE  LockMapInv'
<1>1. CASE AskChain(r)
    BY <1>1, LockMapAskChain
<1>2. CASE UNCHANGED <<lockMap, myLock, chain, evicted>>
    BY <1>2 DEF LockMapInv, Elements
<1>3. CASE EndTurn(r)
  <2>1. /\ UNCHANGED lockMap /\ Evict(r) /\ chain'[r] = None
        /\ \A s \in Requests \ {r} : chain'[s] = chain[s] /\ myLock'[s] = myLock[s]
      BY <1>3 DEF EndTurn, ChainTypeOK
  <2>2. ASSUME NEW s \in Requests, chain'[s] # None
        PROVE  \/ [thread |-> chain'[s], lock |-> myLock'[s]] \in Elements(lockMap')
               \/ myLock'[s] \in evicted'
      BY <2>1, <2>2, OthersKept
  <2> QED
      BY <2>1, <2>2 DEF LockMapInv, Elements
<1>4. CASE \/ AskFresh(r) \/ GetLock(r) \/ Acquire(r)
           \/ EntersNewChat(r) \/ Enter(r) \/ EnterFails(r)
           \/ ResumeThread(r) \/ RotateChat(r) \/ Break(r) \/ Recover(r)
           \/ Answer(r) \/ Fail(r)
    BY <1>2, <1>4
    DEF AskFresh, GetLock, Acquire, EntersNewChat, Enter, EnterFails,
        ResumeThread, RotateChat, Break, Recover, Answer, Fail, lockVars
<1>5. CASE Refused(r) \/ Leave(r)
    BY <1>3, <1>5 DEF Refused, Leave
<1> QED
    BY <1>1, <1>4, <1>5 DEF TurnStep

\* Every step leaves a chain past GetLock with its lock.
LEMMA LockHeldStep ==
    ASSUME ChainTypeOK, LockInv, NEW r \in Requests,
           \/ AskChain(r) \/ AskFresh(r) \/ GetLock(r) \/ TurnStep(r)
    PROVE  LockHeld'
<1>1. CASE AskChain(r)
  <2>1. PICK T : chain' = [chain EXCEPT ![r] = T] /\ LockFor(r, T)
      BY <1>1 DEF AskChain
  <2>2. PICK l : myLock' = [myLock EXCEPT ![r] = l]
      BY <2>1 DEF LockFor
  <2>3. /\ turn' = [turn EXCEPT ![r] = "locking"]
        /\ lockHolder' = lockHolder
      BY <1>1 DEF AskChain, Go
  <2>4. turn'[r] = "locking"
      BY <2>3 DEF ChainTypeOK
  <2>5. ASSUME NEW s \in Requests, s # r
        PROVE  turn'[s] = turn[s] /\ chain'[s] = chain[s] /\ myLock'[s] = myLock[s]
      BY <2>1, <2>2, <2>3, <2>5 DEF ChainTypeOK
  <2>6. ASSUME NEW s \in Requests
        PROVE  /\ turn'[s] = "off" => chain'[s] = None
               /\ chain'[s] # None /\ turn'[s] # "locking" =>
                    lockHolder'[myLock'[s]] = s
    <3>1. CASE s = r
        BY <2>4, <3>1
    <3>2. CASE s # r
        BY <2>3, <2>5, <3>2 DEF LockInv, LockHeld
    <3> QED
        BY <3>1, <3>2
  <2> QED
      BY <2>6 DEF LockHeld
<1>2. CASE GetLock(r)
  <2>1. /\ turn'[r] = "asking" /\ lockHolder[myLock[r]] = None
        /\ chain' = chain /\ myLock' = myLock
        /\ \A s \in Requests : s # r => turn'[s] = turn[s]
        /\ lockHolder' = [lockHolder EXCEPT ![myLock[r]] = r]
      BY <1>2 DEF GetLock, Go, ChainTypeOK
  <2>2. None \notin Requests
      BY ChainAssumption DEF Requests
  <2>3. ASSUME NEW s \in Requests, chain[s] # None, turn'[s] # "locking"
        PROVE  lockHolder'[myLock[s]] = s
    <3>1. myLock[s] \in LockIds
        BY <2>3, ChainHasLock DEF LockInv
    <3>2. CASE s = r
        BY <2>1, <3>1, <3>2 DEF ChainTypeOK
    <3>3. CASE s # r
      <4>1. lockHolder[myLock[s]] = s
          BY <2>1, <2>3, <3>3 DEF LockInv, LockHeld
      <4>2. myLock[s] # myLock[r]
          BY <2>1, <2>2, <4>1
      <4> QED
          BY <2>1, <3>1, <4>1, <4>2 DEF ChainTypeOK
    <3> QED
        BY <3>2, <3>3
  <2>4. ASSUME NEW s \in Requests, turn'[s] = "off"
        PROVE  chain[s] = None
      BY <2>1, <2>4 DEF LockInv, LockHeld
  <2> QED
      BY <2>1, <2>3, <2>4 DEF LockHeld
<1>3. CASE Refused(r) \/ Leave(r)
  <2>1. EndTurn(r)
      BY <1>3 DEF Refused, Leave
  <2> QED
      BY <2>1, ChainHasLock
      DEF EndTurn, Go, LockInv, LockHeld, ChainTypeOK
<1>4. CASE \/ AskFresh(r) \/ Acquire(r)
           \/ EntersNewChat(r) \/ Enter(r) \/ EnterFails(r)
           \/ ResumeThread(r) \/ RotateChat(r) \/ Break(r) \/ Recover(r)
           \/ Answer(r) \/ Fail(r)
  <2>1. /\ UNCHANGED <<lockHolder, myLock, chain>>
        /\ \E s \in Turns \ {"off"} : turn' = [turn EXCEPT ![r] = s]
        /\ turn[r] # "locking" /\ (turn[r] = "off" => AskFresh(r))
      BY <1>4
      DEF AskFresh, Acquire, EntersNewChat, Enter, EnterFails, ResumeThread,
          RotateChat, Break, Recover, Answer, Fail, Go, Turns, lockVars
  <2> QED
      BY <2>1 DEF LockInv, LockHeld, ChainTypeOK
<1> QED
    BY <1>1, <1>2, <1>3, <1>4 DEF TurnStep

\* Two continuations of one conversation wait for one lock, and only its
\* holder gets as far as driving the chat, whatever order the locks, the
\* pool and the failures come in, unless the bounded map has forgotten the lock
\* that one of them has.
THEOREM ChainsAreSerialized == TSpec => []ChainsSerialized
<1>1. TInit => LockInv
    BY DEF TInit, LockInv, LockMapInv, LockHeld
<1>2. ChainTypeOK /\ LockInv /\ [TNext]_tvars => LockInv'
  <2> SUFFICES ASSUME ChainTypeOK, LockInv, [TNext]_tvars PROVE LockInv'
      OBVIOUS
  <2>1. CASE UNCHANGED tvars
      BY <2>1 DEF tvars, lockVars, LockInv, LockMapInv, LockHeld, Elements
  <2>2. CASE TNext
      BY <2>2, LockMapStep, LockHeldStep DEF TNext, LockInv
  <2> QED
      BY <2>1, <2>2
<1>3. ChainTypeOK /\ LockInv => ChainsSerialized
  <2> SUFFICES ASSUME ChainTypeOK, LockInv,
                      NEW r \in Requests, NEW s \in Requests,
                      chain[r] # None, chain[r] = chain[s],
                      Driving(r), Driving(s),
                      myLock[r] \notin evicted, myLock[s] \notin evicted
               PROVE  r = s
      BY DEF ChainsSerialized
  <2>1. PICK i \in 1 .. Len(lockMap) :
            lockMap[i] = [thread |-> chain[r], lock |-> myLock[r]]
      BY DEF LockInv, LockMapInv, Elements
  <2>2. PICK j \in 1 .. Len(lockMap) :
            lockMap[j] = [thread |-> chain[s], lock |-> myLock[s]]
      BY DEF LockInv, LockMapInv, Elements
  <2>3. i = j
      BY <2>1, <2>2 DEF LockInv, LockMapInv
  <2>4. [thread |-> chain[r], lock |-> myLock[r]].lock
          = [thread |-> chain[s], lock |-> myLock[s]].lock
      BY <2>1, <2>2, <2>3
  <2>5. myLock[r] = myLock[s]
      BY <2>4
  <2> QED
      BY <2>5 DEF LockInv, LockHeld, Driving
<1> QED
    BY <1>1, <1>2, <1>3, ChainTypeCorrect, PTL DEF TSpec
=============================================================================
