----------------------------- MODULE ThreadChain -----------------------------
(***************************************************************************)
(* Conversations of POST /v1/responses (src/api/openai_routes.py): which   *)
(* chat each tab shows, previous_response_id, the per-conversation locks,  *)
(* and the recovery of a broken page.                                      *)
(*                                                                         *)
(* The pool is seen through what it promises: a tab of TabLease goes to    *)
(* one request at a time, acquire() on a pinned account gives a tab of     *)
(* that account, and any acquire() may be refused.                         *)
(*                                                                         *)
(* A request is a chain (it continues a remembered conversation, on the    *)
(* account that owns it) or fresh (it continues whatever chat its tab      *)
(* shows, until that chat is full).  POST /v1/chat/completions is a fresh  *)
(* request whose conversation is not remembered.  Failover replays fresh   *)
(* requests only, as new ones.                                             *)
(***************************************************************************)
EXTENDS TabLease, Integers, Sequences

CONSTANTS
    Accounts,
    AccountOf,          \* Worker.account_id
    Threads,            \* conversations that may ever exist: /c/<id>
    OwnerOf,            \* the account in whose profile a conversation lives
    MaxResponses,       \* _MAX_TRACKED_RESPONSES
    MaxLocks,           \* _MAX_THREAD_LOCKS
    LockIds             \* asyncio.Lock objects, numbered

\* The clients of the pool are the requests.
Requests == Clients

ASSUME ChainAssumption ==
    /\ AccountOf \in [Tabs -> Accounts]
    /\ OwnerOf \in [Threads -> Accounts]
    /\ LockIds \subseteq Nat
    /\ None \notin Tabs \cup Threads \cup LockIds \cup Clients
    /\ MaxResponses \in Nat \ {0} /\ MaxLocks \in Nat \ {0}

VARIABLES
    page,        \* the conversation a tab shows, None on a new chat
    needsFresh,  \* Worker.needs_fresh_chat
    known,       \* _response_threads: conversations, oldest response first
    lockMap,     \* _thread_locks: [thread, lock] entries, oldest first
    lockHolder,  \* lockHolder[l]: the request that holds lock l, or None
    lease,       \* the tab of a request, or None
    myLock,      \* the lock a chain waits for or holds
    evicted,     \* history: locks that the map forgot under those that had them
    chain,       \* the conversation a request continues, or None
    turn         \* where the endpoint stands: see Turns

tabVars == <<page, needsFresh>>
lockVars == <<lockMap, lockHolder, myLock, evicted>>
tvars == <<vars, lease, tabVars, known, lockVars, chain, turn>>

\* "locking" waits for the conversation's lock, "asking" for acquire(),
\* "entering" is __aenter__, "pooled" has a tab, "replying" drives the chat
\* it wants, "broken" saw the page fail, "recovered" has typed the prompt
\* again, "leaving" is __aexit__.
Turns == {"off", "locking", "asking", "entering", "pooled", "replying",
          "broken", "recovered", "leaving"}

ChainTypeOK ==
    /\ holder \in [Tabs -> Requests \cup {None}]
    /\ page \in [Tabs -> Threads \cup {None}]
    /\ needsFresh \in [Tabs -> BOOLEAN]
    /\ known \in Seq(Threads) /\ Len(known) <= MaxResponses
    /\ lockMap \in Seq([thread : Threads, lock : LockIds])
    /\ Len(lockMap) <= MaxLocks
    /\ lockHolder \in [LockIds -> Requests \cup {None}]
    /\ lease \in [Requests -> Tabs \cup {None}]
    /\ myLock \in [Requests -> LockIds \cup {None}]
    /\ evicted \subseteq LockIds
    /\ chain \in [Requests -> Threads \cup {None}]
    /\ turn \in [Requests -> Turns]

\* The accounts are up; no request has come.
TInit ==
    /\ phase = [t \in Tabs |-> "serving"]
    /\ holder = [t \in Tabs |-> None]
    /\ page = [t \in Tabs |-> None]
    /\ needsFresh = [t \in Tabs |-> FALSE]
    /\ known = <<>>
    /\ lockMap = <<>>
    /\ lockHolder = [l \in LockIds |-> None]
    /\ lease = [r \in Requests |-> None]
    /\ myLock = [r \in Requests |-> None]
    /\ evicted = {}
    /\ chain = [r \in Requests |-> None]
    /\ turn = [r \in Requests |-> "off"]

Elements(q) == {q[i] : i \in 1 .. Len(q)}

\* Mutant of Newest: one entry too many is kept.
NewestAndOne(q, n) ==
    IF Len(q) > n + 1 THEN SubSeq(q, Len(q) - n, Len(q)) ELSE q

\* What remains of a bounded map once it has evicted its oldest entries.
Newest(q, n) == IF Len(q) > n THEN SubSeq(q, Len(q) - n + 1, Len(q)) ELSE q

Go(r, s) == turn' = [turn EXCEPT ![r] = s]

-----------------------------------------------------------------------------
(* _resolve_chain and _thread_lock *)

\* Mutant of LockFor: the map is consulted, and never filled.
LockForForgets(r, T) ==
    \E l \in LockIds :
      /\ \A s \in Requests : myLock[s] # l
      /\ myLock' = [myLock EXCEPT ![r] = l]
      /\ lockMap' = lockMap

\* The lock of a conversation: the one in the map, or a new object, for
\* which the map may forget its oldest lock, held or not.
LockFor(r, T) ==
    LET mine == {e \in Elements(lockMap) : e.thread = T}
        used == {e.lock : e \in Elements(lockMap)}
                  \cup {myLock[s] : s \in Requests}
    IN  \/ /\ mine # {}
           /\ \E e \in mine : myLock' = [myLock EXCEPT ![r] = e.lock]
           /\ UNCHANGED lockMap
        \/ /\ mine = {}
           /\ \E l \in LockIds \ used :
                /\ \A k \in LockIds \ used : ~(k < l)
                /\ myLock' = [myLock EXCEPT ![r] = l]
                /\ lockMap' =
                     Newest(Append(lockMap, [thread |-> T, lock |-> l]), MaxLocks)

\* What the map forgets, while anybody but r has it.
Evict(r) ==
    LET gone == {e.lock : e \in Elements(lockMap) \ Elements(lockMap')}
    IN  evicted' = {l \in evicted \cup gone :
                      \E s \in Requests \ {r} : myLock[s] = l}

\* A chain under the new-chat policy is refused with 409, and an unknown
\* previous_response_id with 400: neither gets here.
AskChain(r) ==
    /\ turn[r] = "off"
    /\ \E T \in Elements(known) :
         /\ chain' = [chain EXCEPT ![r] = T]
         /\ LockFor(r, T)
         /\ Evict(r)
    /\ Go(r, "locking")
    /\ UNCHANGED <<vars, lease, tabVars, known, lockHolder>>

AskFresh(r) ==
    /\ turn[r] = "off"
    /\ Go(r, "asking")
    /\ UNCHANGED <<vars, lease, tabVars, known, lockVars, chain>>

GetLock(r) ==
    /\ turn[r] = "locking"
    /\ lockHolder[myLock[r]] = None
    /\ lockHolder' = [lockHolder EXCEPT ![myLock[r]] = r]
    /\ Go(r, "asking")
    /\ UNCHANGED <<vars, lease, tabVars, known, lockMap, myLock, evicted, chain>>

\* Mutant of MayServe: the continuation is rerouted to any account.
MayServeAny(r, t) == TRUE

\* A chain is pinned to the account that owns its conversation.
MayServe(r, t) == chain[r] # None => AccountOf[t] = OwnerOf[chain[r]]

Acquire(r) ==
    /\ turn[r] = "asking"
    /\ \E t \in Tabs :
         /\ MayServe(r, t)
         /\ Grant(t, r)
         /\ lease' = [lease EXCEPT ![r] = t]
    /\ Go(r, "entering")
    /\ UNCHANGED <<tabVars, known, lockVars, chain>>

\* The finally of _acquire_for_response, on every way out.
EndTurn(r) ==
    /\ lockHolder' = [l \in LockIds |-> IF lockHolder[l] = r THEN None
                                                             ELSE lockHolder[l]]
    /\ myLock' = [myLock EXCEPT ![r] = None]
    /\ chain' = [chain EXCEPT ![r] = None]
    /\ UNCHANGED lockMap
    /\ Evict(r)
    /\ Go(r, "off")

\* AccountUnavailable, BrowserBusy.
Refused(r) ==
    /\ turn[r] = "asking"
    /\ EndTurn(r)
    /\ UNCHANGED <<vars, lease, tabVars, known>>

\* _release, and the lock right after it.  A temporary chat is left first;
\* when that fails, the tab is in doubt.
Leave(r) ==
    /\ turn[r] = "leaving"
    /\ Return(lease[r])
    /\ lease' = [lease EXCEPT ![r] = None]
    /\ EndTurn(r)
    /\ \/ UNCHANGED needsFresh
       \/ /\ chain[r] = None
          /\ needsFresh' = [needsFresh EXCEPT ![lease[r]] = TRUE]
    /\ UNCHANGED <<page, known>>

-----------------------------------------------------------------------------
(* The tab's chat: __aenter__, _resume_thread, ensure_fresh_chat *)

Show(t, T) == page' = [page EXCEPT ![t] = T]

\* A request under the new-chat policy (NEW_CHAT_EVERY_REQUEST, temporary
\* chats), and any request on a tab left in doubt, opens a new chat first.
EntersNewChat(r) ==
    /\ turn[r] = "entering"
    /\ needsFresh[lease[r]] \/ chain[r] = None
    /\ Show(lease[r], None)
    /\ needsFresh' = [needsFresh EXCEPT ![lease[r]] = FALSE]
    /\ Go(r, "pooled")
    /\ UNCHANGED <<vars, lease, known, lockVars, chain>>

Enter(r) ==
    /\ turn[r] = "entering" /\ ~needsFresh[lease[r]]
    /\ Go(r, "pooled")
    /\ UNCHANGED <<vars, lease, tabVars, known, lockVars, chain>>

EnterFails(r) ==
    /\ turn[r] = "entering"
    /\ needsFresh[lease[r]] \/ chain[r] = None
    /\ needsFresh' = [needsFresh EXCEPT ![lease[r]] = TRUE]
    /\ Go(r, "leaving")
    /\ UNCHANGED <<vars, lease, page, known, lockVars, chain>>

\* _resume_thread navigates unless the tab shows the conversation already.
ResumeThread(r) ==
    /\ turn[r] = "pooled" /\ chain[r] # None
    /\ Show(lease[r], chain[r])
    /\ Go(r, "replying")
    /\ UNCHANGED <<vars, lease, needsFresh, known, lockVars, chain>>

\* ensure_fresh_chat: a full chat (thread_message_count, not kept here) is
\* left, unless new_chat fails twice.
RotateChat(r) ==
    /\ turn[r] = "pooled" /\ chain[r] = None
    /\ Show(lease[r], None) \/ UNCHANGED page
    /\ Go(r, "replying")
    /\ UNCHANGED <<vars, lease, needsFresh, known, lockVars, chain>>

-----------------------------------------------------------------------------
(* send_message, and the recovery of a page *)

\* A page error or a crashed page, once.
Break(r) ==
    /\ turn[r] = "replying"
    /\ Go(r, "broken")
    /\ UNCHANGED <<vars, lease, tabVars, known, lockVars, chain>>

\* Mutant of Recover: a page that fails again is recovered again.
RecoverAgain(r) ==
    /\ turn[r] = "broken"
    /\ Show(lease[r], None)
    /\ Go(r, "replying")
    /\ UNCHANGED <<vars, lease, needsFresh, known, lockVars, chain>>

\* recover() loads the provider's start page, and the prompt is sent again.
Recover(r) ==
    /\ turn[r] = "broken"
    /\ Show(lease[r], None)
    /\ Go(r, "recovered")
    /\ UNCHANGED <<vars, lease, needsFresh, known, lockVars, chain>>

\* A conversation nobody knows of yet.
Unseen(T) == /\ T \notin Elements(known)
             /\ \A t \in Tabs : page[t] # T
             /\ \A r \in Requests : chain[r] # T

\* The URL of a new chat gets its conversation id while the reply comes in,
\* or too late to be seen.
Materialized(t, T) ==
    IF page[t] # None
      THEN T = page[t]
      ELSE T # None => OwnerOf[T] = AccountOf[t] /\ Unseen(T)

\* _remember_response_thread, which POST /v1/chat/completions does not call.
Remember(r, T) ==
    \/ T # None /\ known' = Newest(Append(known, T), MaxResponses)
    \/ (T = None \/ chain[r] = None) /\ UNCHANGED known

Answer(r) ==
    /\ turn[r] \in {"replying", "recovered"}
    /\ \E T \in Threads \cup {None} :
         /\ Materialized(lease[r], T)
         /\ Show(lease[r], T)
         /\ Remember(r, T)
    /\ Go(r, "leaving")
    /\ UNCHANGED <<vars, lease, needsFresh, lockVars, chain>>

\* What a tab may show after a navigation that failed, and after a recovery
\* or a turn that did.
Leftover(r) ==
    CASE turn[r] = "pooled" -> {None, page[lease[r]], chain[r]}
      [] turn[r] = "broken" -> {None, page[lease[r]]}
      [] OTHER -> {page[lease[r]]}

\* A navigation or a recovery that fails, a second error, or a reply without
\* the image asked for.
Fail(r) ==
    /\ \/ turn[r] = "pooled" /\ chain[r] # None
       \/ turn[r] \in {"replying", "broken", "recovered"}
    /\ \E T \in Leftover(r) : Show(lease[r], T)
    /\ Go(r, "leaving")
    /\ UNCHANGED <<vars, lease, needsFresh, known, lockVars, chain>>

-----------------------------------------------------------------------------
TurnStep(r) ==
    \/ Acquire(r) \/ Refused(r)
    \/ EntersNewChat(r) \/ Enter(r) \/ EnterFails(r)
    \/ ResumeThread(r) \/ RotateChat(r) \/ Break(r) \/ Recover(r)
    \/ Answer(r) \/ Fail(r) \/ Leave(r)

TNext ==
    \E r \in Requests : AskChain(r) \/ AskFresh(r) \/ GetLock(r) \/ TurnStep(r)

TSpec == TInit /\ [][TNext]_tvars

\* asyncio runs every task that can go on, and its locks are first come,
\* first served.  acquire() ends: EveryRequestEnds of WorkerPool.
TFairness ==
    \A r \in Requests : WF_tvars(TurnStep(r)) /\ SF_tvars(GetLock(r))

TFairSpec == TSpec /\ TFairness

-----------------------------------------------------------------------------
(* Properties *)

\* From the navigation to the reply, r drives the chat of its tab.
Driving(r) == turn[r] \in {"replying", "broken", "recovered"}

\* "Serialize them" (openai_routes.py:104-105): two continuations of one
\* conversation are under way at the same time only when the bounded map has
\* forgotten the lock that one of them has, whatever order the locks, the pool
\* and the failures come in.
ChainsSerialized ==
    \A r, s \in Requests :
      r # s /\ chain[r] # None /\ chain[r] = chain[s] /\ Driving(r) /\ Driving(s)
        => {myLock[r], myLock[s]} \cap evicted # {}

\* "A chained request resumes its thread on the pinned account"
\* (openai_routes.py:2482), and "never cross accounts" (openai_routes.py:87):
\* no tab shows, and no response is remembered with, a conversation of
\* another account.
ThreadsAtHome ==
    \A t \in Tabs : page[t] # None => OwnerOf[page[t]] = AccountOf[t]

\* A continuation that waits for its conversation's lock gets it and ends:
\* the lock, taken before the tab, is released on every way out, and no turn
\* ahead of it recovers its page for ever.
EveryTurnEnds == \A r \in Requests : turn[r] = "locking" ~> turn[r] = "off"

(* What comments and documentation say, and the code does not. *)

\* "409 rather than answering with no context" (README.md:434): a chain is
\* answered in the conversation it continues.
ChainKeepsContext ==
    [][\A r \in Requests :
         Answer(r) /\ chain[r] # None => page'[lease[r]] = chain[r]]_tvars
=============================================================================
