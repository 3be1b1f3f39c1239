# miri-api: a TLA+ verification development

miri-api is an OpenAI-compatible HTTP server that answers through logged-in
browser sessions.  Every account is one browser profile with one or more tabs;
a request is given a tab, drives it like a person would, and hands it back.
What is hard about it is not any single function but that one asyncio loop
interleaves requests, a status probe, an account monitor and an operator's
admin calls at every `await`, over tabs that fail, time out and are closed.

This directory holds the TLA+ modules that model that, the TLC configurations
that check them, and proofs for TLAPS.  Paths below are relative to `src/src/`
of the repository; `PROJECT.json` maps every definition to its lines.

## 1. The system

| Component | State it keeps | Operations | Talks to |
|---|---|---|---|
| Worker pool `api/worker_pool.py` | per account a slot (order, provider, schedulable, tabs, idle stack, `checked_out`), the rotation cursor, the number of waiters; per tab `retired`, `needs_fresh_chat`, `limit_hit` | `acquire` (scan, queue, lease, release), `try_acquire_nowait`, `wait_drained`, `register_account`, `set_order`, `set_schedulable`, `add_workers`, `retire_account`, `remove_account_slot`, `report_account_failure` | requests take tabs; the manager changes its composition; it calls back the manager's failure handler |
| Failover `api/failover.py` | per request: excluded accounts, last failed account, last error | `retry_across_accounts` | wraps endpoints; its exclusions reach `acquire` through a context variable |
| Account manager `accounts/manager.py` | per account: state, started, `login_pending`, tabs, `login_lock`; one `_lock` | start, stop, restart, open_login, confirm_login, recheck_login, logout, update, mark_failed, set_cooldown, reactivate, create, remove | pool, browser, registry; called by routes, monitor, lifespan and failing requests |
| Account monitor `accounts/monitor.py` | overload timers, `_auto_promoted` | `_tick`: cooldown expiry, soft caps, login rechecks, overflow promotion and demotion | manager, usage counters, pool |
| Registry, usage, proxies `accounts/registry.py`, `usage.py`, `proxies.py` | three JSON files behind in-memory objects | add, update, remove, number, seed; cool down, count, save; replace the proxy list, choose a line | manager, monitor, lifespan |
| Conversations `api/openai_routes.py` | `_response_threads`, `_thread_locks` (bounded maps); the chat that each tab shows | `POST /v1/responses`, `/v1/chat/completions`: resolve a chain, lock it, acquire a tab, resume or rotate its chat, send, recover, remember | pool, provider clients |
| Media endpoints `api/openai_routes.py`, `api/media_files.py`, `core/janitor.py` | temporary references and uploads, results on disk, signed links | generate, edit, video; serve a link; sweep old files | provider clients, failover (replays) |
| Request log `api/request_log.py` | ordered dictionary in memory, SQLite mirror | start, finish, prune, clear, load | every route |
| Chat clients `providers/*` | what the client remembers of the page: modes, model, last text, temporary chat | choose the chat and the modes, type, send, wait until the reply is complete, read it back | an external page, the clipboard lock |
| Media clients `providers/qwen/*`, `providers/seedream/*` | baseline of the results shown, captured task statuses, the media tool | make an image or a video, wait for it, download it | an external page and its network |
| Clipboard lock `core/clipboard_lock.py` | one lock for the system clipboard | grab, release | ChatGPT's and Claude's detectors, on every tab |
| Browser driver `core/browser/*` | one context per account | launch, close, recover, log in | an external browser |

How they interact.  A request runs `retry_across_accounts`, takes its
conversation's lock if it continues one, waits in `acquire` for a tab, and holds
the tab through the endpoint's body; on a retryable error it reports its account
while it still holds the tab, which runs `mark_failed` under the account's
`login_lock`.  Admin calls and the monitor change accounts under `_lock` and
`login_lock` and drain the pool before they close anything.  All pool methods
run under one condition, and every `async with self._cond` body is free of other
awaits.

What is hard, and what makes each part correct:

- *Pool.* Waiters, releases, drains, retirement and a probe meet in any order.
  A tab has one holder; no exit path loses a tab; no wakeup is lost; a drain
  that says "drained" misses only what was never counted; every wait ends.
- *Failover.* A retry never returns to an account that failed this request,
  ends, and does not turn the account's error into "busy".
- *Rotation.* Its cursor is moved only by picks and survives reordering: nobody
  is passed over.
- *Manager and monitor.* Two locks, three kinds of caller, a drain inside a
  lock, late failures of earlier sessions: no circular wait without a way out,
  state and routing agree, cooldowns end, caps are enforced.
- *Conversations.* A lock held while waiting for a tab; a page recovered in the
  middle of a turn; a conversation id read from the tab's URL: continuations are
  serialized as long as the map of locks remembers theirs, stay on their account,
  and end.
- *A chat turn.* The page renders late, streams, submits by itself, hides its
  switches and shows the reply before: the prompt is sent once and into the right
  place, the reply is this prompt's and whole, every wait ends.
- *A media job.* Results and limits of other prompts are on the same page and
  the same network: what is saved was made for this prompt, bad news is of this
  prompt, the job ends.
- *Clipboard.* One clipboard for all tabs, whose calls may be refused or late: a
  copy is one's own unless another ran into it.
- *Stores.* Memory runs ahead of files whose writes may fail, under restarts:
  what a restart finds is what was promised.

`PROJECT.json` lists the hazards at their lines, with the properties that would
catch each.

## 2. The modules

| Module | Models | State and actions |
|---|---|---|
| `TabLease` | the promise of the pool about a tab | `phase`, `holder`; `Join`, `Grant`, `Return`, `Retire` |
| `WorkerPool` | `MultiAccountPool`, `_Acquired` | one action per lock body: `Take`, `Wait`, `RefusePinned`, ..., `Release`; `ProbeTake`, `ProbeRelease`; `DrainBegin`, `DrainScan`, ...; the control plane as `...Op` (what the code does, callable at any time) and as `Register`, `Resume`, ... (the same under the contract the manager keeps) |
| `DrainLedger` | what `wait_drained` may miss | `WorkerPool` with the history `uncounted`: releases charged to a slot that never counted them |
| `WorkerPoolProofs`, `RotationProofs` | | the proofs about the pool: the lease invariant, tabs, wakeups, counters, drains and the refinement; about the order in which it serves accounts |
| `Failover` | `retry_across_accounts` around `WorkerPool` | adds `excluded`, `lastFailed`, `lastError`, `reply`; `Attempt`, `Proceed`, `Retry`, `Raise`, `GiveUp`, `Answer` |
| `Rotation` | the order in which `_pick_idle` serves accounts | `WorkerPool` with the history `passed` |
| `AccountManager` | manager, monitor, failure handler, composed with `WorkerPool` | `acc`, `cfg`, `lock`, `loginLock`, `task`; one action per stretch of a coroutine between two awaits that can really wait |
| `ManagerProofs` | | the proofs about the manager, and about the pool under it |
| `ThreadChain` | conversations, over the tabs of `TabLease` | `page`, `known`, `lockMap`, `lockHolder`, `turn` and the history `evicted`; `AskChain`, `GetLock`, `Acquire`, `ResumeThread`, `Recover`, `Answer`, `Leave`, ... |
| `ThreadChainProofs` | | the proofs about conversations |
| `Clipboard` | the copy step under the lock | `copying`, `lock`, `clip`, `late` and the history `disturbed`; `Grab`, `Clear`, `Click`, `Land`, `ReadBack`, `CopyFails`, ... |
| `Page` | the external site of a chat tab, as the client reads it, and the client's memory | `page` (turns rendered and backlog, composer, switches, temporary), `call`, `client`; `Render`, `StartReply`, `Grow`, `FinishReply`, `AutoSend`, ... |
| `Turn` | `send_message` of ChatGPT, Claude, the text client (DeepSeek), Qwen, Gemini and Grok | each provider is a script of named steps; `turn` says where it is; waits end by what the page shows or by `Deadline` |
| `TurnProofs`, `FailoverProofs` | | the proofs about the clipboard and the turn; about the retries |
| `Media` | image and video jobs of Qwen (with its capture of network statuses) and Seedream | `site`, `wire`, `job`, `chat` |
| `Files` | reference files, uploads, results and links of the media endpoints, the janitor, replays | `disk`, `job`, `boot`; one action per stretch of the handler between awaits |
| `RequestLog` | the log store and the middleware that fills it | `memory`, `table`, `request`, `clock` |
| `AccountFiles` | registry, usage and proxies with their files | `registry`/`registryFile`, `until`/`usageFile`, `lines`/`proxyFile`, `manager` |
| `MediaProofs`, `StoresProofs` | | the proofs about media jobs, and about `Files`, `AccountFiles` and `RequestLog` |
| `MC...` | | small instances for TLC; `MCStores` puts the three stores beside each other |

Modelling decisions worth knowing:

- *Atomicity.* asyncio switches tasks only at awaits.  A condition wait splits
  its body in two: a notified waiter is `woken` and has to take the lock again,
  and others may run first.  The pool's condition lock is first come, first
  served, so in `AccountManager` "set the state, then await the pool call" is
  one step: no two such pairs can be queued in opposite orders.
- *`_release` acts on the slot that the account has now*, found by account id,
  which need not be the slot the tab came from.  The model keeps that, and the
  clamp at zero that goes with it.
- *Contract of the control plane.*  `WorkerPool` by itself would allow
  lifecycle calls that no caller makes (resuming an account in the middle of
  its stop).  Its `Next` states the contract in the guards of `Register`,
  `Resume`, `AddWorkers`, `Retire` and `RemoveSlot`; `AccountManager` calls the
  unguarded operations, and `KeepsPoolContract` checks that what it does always
  is a step of `WorkerPool!Next`.
- *External parts.*  The browser and the provider's page are choices: a launch
  yields tabs or fails, `is_logged_in` answers what the session is or a false
  negative, a turn answers, fails or breaks the page.  `Page` and `Media` have the
  site as actions of their own; what it may do wrong is the constant `Quirks`
  (`Hitches` in `Media`), so that a run says which trouble it admits.
- *What a reply is* in `Turn` is one of a few kinds (an older reply, a status
  line, a part, the whole, an image): exactly what the detectors
  tell apart.  Time is not measured: a poll that has to be stable n times counts
  to `StablePolls`, and a deadline may pass at any moment.
- *The clipboard* is as the code leaves it: any call of it may be refused, which the
  page's script hides, and a copy lands sooner or later than the fixed sleep after
  its click, or never.  A late copy of another tab, or an earlier one of its own,
  that lands in a copy under way, and a clearing that is refused on a text that was
  not read before, are what nothing in the code protects from; the history
  `disturbed` names the tabs to which this happened, and the properties make an
  exception of these and of no others.
- *A paste that submits itself* (`AutoSend`) empties the composer in the same step: a
  browser does both in one event.  A site that submits first and empties later could
  have its paste sent twice, and is not modelled.
- *File contents* are named by the request and image they come from; a reference
  file's name by `Prefix` of its data, since the code hashes the first
  100 characters only.
- *Stores are explored one at a time* (`part` of `MCStores`): they share the
  process, but no step of one reads or writes another.
- *`_auto_promoted`, caps and cooldowns* are Booleans in `AccountManager`: over
  the cap or not, cooled down or not; the times behind them are in `AccountFiles`
  for cooldowns, and left out for the windows of messages.
- *`ThreadChain`* sees the pool through `TabLease` and through "acquire() ends"
  (`EveryRequestEnds`), and message counts through their effect (a fresh
  request finds its chat full or not).
- *Mutants.*  Operators introduced by "Mutant of" are plausible wrong versions
  of the definition that follows; nothing uses them in the specification.  They
  are there to show that each property can fail.

## 3. What the runs show

Properties that hold:

| Run | Instance | Shows |
|---|---|---|
| `pool_lease` | 1 account, 3 tabs, 2 requests, 1 probe, queue of 1, forced closes; with `DrainLedger` | `OneHolder`: a tab has one holder. `NoTabLost`: no way out of a lease loses the tab. `NoPhantomLease`: `checked_out` never exceeds the leases. `NoLostWakeup`: a sleeping waiter has nothing to take. `ImplementsTabLease`: refinement of `TabLease`. `DrainMissesOnlyUncounted`: when a drain says True, the requests still on the account's tabs are no more than the uncounted releases charged to its slot |
| `pool_live` | 2 accounts, 2 requests, fresh, pinned or excluding; no probe | `QueueBound`; `EveryRequestEnds` without the timeout; `DrainEnds` |
| `failover_retry` | 2 accounts, 2 requests, each fresh or a continuation on account 1 | `NeverTwiceOnOneAccount`, `FailureNotMasked`, `EveryCallReplied` |
| `rotation_fair` | 3 accounts, 4 tabs, 2 orders, 2 requests that come again | `NobodyPassedTwice` |
| `manager_state` | running account, 2 tabs, 2 requests, 1 operator, the monitor | `LifecycleExclusive`, `RoutedMeansServing`, `KeepsPoolContract`, `NoNewLease` |
| `manager_live` | 1 account, 1 tab, 1 request, 1 operator, the monitor | `AdminCallsReturn`, `CooldownEnds`, `CapEnforced` |
| `thread_chain` | 2 accounts, 3 tabs, 2 conversations, 2 clients that ask for ever, a map of one lock | `ChainsSerialized`: continuations of one conversation meet only if the map forgot a lock of theirs. `ThreadsAtHome`, `EveryTurnEnds` |
| `turn_reply` | 6 providers, 2 calls on one tab, a second tab on the clipboard, refused calls and late copies, every quirk of the site | `OwnText`: a copy is the tab's own. `RightReply`: the reply is this prompt's and whole (both: if the copy was not disturbed). `SubmittedOnce`: whatever is retried, the prompt is sent once. `RightPlace`: temporary chat and modes are as asked when the prompt goes out. `TurnEnds` |
| `media_jobs` | 3 kinds of job (an image of either provider, a video of Seedream), 2 jobs of 2 parts with chats between, every hitch | `OwnMedia`: a result is this prompt's, or was unfinished, not rendered or not readable when the baseline was taken. `LimitIsOwn`: on Qwen, a limit is of this job or of a page that a failed new chat left there. `JobEnds` |
| `stores` | 2 media requests with 2 images; 3 logged requests; 3 accounts | `UploadsOwn`: an edit works on its own uploads, also when replayed. `LinkServes`: a link serves its result until it is older than the retention, or is cleaned up by a request that was told to use it as a reference. `LogAgrees`, `OutcomeKept`: log and disk agree, outcomes survive. `ProxyOwn`: an account keeps its proxy, and shares its number with none. `CooldownKept`: a cooldown, of either of two lengths, is ended early only by a newer limit, a crash before its save or a file that cannot be read |

Where the code does something else than its documentation or comments say (one
run each; the counterexample is the shortest):

| Run | Statement | What the code does |
|---|---|---|
| `chain_context` | "409 rather than answering with no context" (`README.md:434`) | a page recovered in the middle of a chained turn is back at the start page, and the prompt is sent again there |
| `turn_inherit` | "A default request must not inherit a mode from the last one" (`providers/text_client.py:134`) | the client forgets a mode that it was to switch off even if its switch was not on the page; the plain request runs in it, and so do the later ones |

Properties with an exception in them say so, and the exception is the known
behaviour: `RightReply` leaves out a reply whose turns were counted before the
page had rendered an older one (`blind`), and asks for the whole reply of every
provider but DeepSeek, whose client is given no stop button to look for;
`RightPlace` leaves out switches that the client could not find or read;
`OwnText` and `RightReply` leave out a copy that another ran into (`disturbed`);
`ChainsSerialized` leaves out a conversation whose lock was evicted while somebody
had it; `OwnMedia` leaves out what was there but could not be told from nothing at
the baseline (`missed`: above all a clip of Seedream that is still being made, whose
address changes when it is done), and `LimitIsOwn` speaks of Qwen only;
`LinkServes` leaves out a result whose local path a caller named as a reference;
`LogAgrees` leaves out records that came back after they were pruned (below);
`ProxyOwn` and `CooldownKept` leave out a start that could not read a file, and
`CooldownKept` a newer limit of the same account.

Seen while modelling, without a run of their own:

- *Pool and manager.*  A status probe is not counted when it takes a tab and is
  when it returns it, so a drain beside it can answer True one request too early
  (`worker_pool.py:271`, `442`); `uncounted` says by how many.  A start that fails once
  the browser is up leaves it open (`manager.py:174`, `203`; the browser is not
  modelled).  `logout` ignores the drain's answer, and
  navigates a request's session away after the timeout (`manager.py:281`, `295`).
  A PATCH of the provider while the account starts registers tabs of the old
  provider under the new one (`manager.py:194`; `worker_pool.py:108` says it
  cannot be).  `set_cooldown` overwrites the state that it finds when its turn at
  the lock comes, a logout's included (`manager.py:380`); `_auto_promoted` survives
  an operator's own start, so a quiet tick may demote what he started
  (`monitor.py:127`); `open_login` navigates the first tab without draining it
  (`manager.py:258`); a failing request that waits for `login_lock` and a drain
  that waits for the request under that lock wait for each other until the drain
  times out (`manager.py:390`); a release after a forced close is charged to the
  slot of the account's next start (`worker_pool.py:384-388`).
- *Conversations.*  A fresh request continues whatever chat its tab shows without
  the conversation's lock, beside a chain of the same conversation on another tab
  (`openai_routes.py:104`, `264`).  The bounded map of locks may evict a lock that
  is held (`openai_routes.py:130`), and the next continuation gets another.
- *Turns.*  A retried extraction of `create_response` calls a name that does not
  exist, and its error is swallowed (`openai_routes.py:2561`); some exits raise
  before `_observe`, so a usage limit on the page is not noticed (1279,
  2588-2600); Claude's client never asks for a limit.  Gemini's redo of an image
  waits for a turn that is there already and ignores how the wait ended, so the
  first image may be returned as Nano Banana Pro's (`gemini/client.py:342-351`); a
  ChatGPT image that could not be downloaded is returned with an empty path
  (`image_handler.py:306`, `346`).
- *Media.*  A clip of Seedream that an earlier job gave up on is taken as the next
  job's when it is done: the baseline has the address of its spinner
  (`seedream/detector.py:50-77`, `121-124`).  Error and credit cards of earlier
  prompts stay in the results view and are read as this job's
  (`seedream/selectors.py:94-104`).  Qwen's media tool, if the page renders it late,
  is missed when it is to be switched on and when it is to be switched off
  (`media_mode.py:105`).
- *Files.*  A local path is a reference itself, not a copy of it, and is removed with
  the request's temporary files: naming the `local_path` of an earlier result deletes
  that result (`openai_routes.py:594-596`, `384-390`).  Two requests whose reference images open alike share one file, which
  either may overwrite or remove under the other (`openai_routes.py:555`); a link
  signed without a configured token dies at the next start, although the file
  stays (`media_files.py`); when the converted file cannot be written the link is
  to the png while the reply says jpeg (`openai_routes.py:1264-1267`);
  `create_response` removes its temporary files on success only (2541).
- *Request log.*  A record pruned or cleared while its request runs comes back at
  the end with a new time, so that paging by id skips or repeats it; a clear that
  fails on disk leaves rows that are shown again after a restart.
- *Accounts.*  A second limit with a shorter reset, met by another tab of the account,
  shortens a running cooldown (`usage.py:138-139`).  A registry that cannot be read counts as empty, and seeding the
  default account writes over it (`registry.py:96-113`, `146-166`).  An account
  made under the id of a removed one inherits its cooldown, and its profile too if
  the removal was cut short (`manager.py:427-442`).

## 4. Bounds, and why they are enough

- One account is enough for leases, drains and replacement of tabs: slots of
  different accounts share only the waiters, the cursor and the condition.
  Three tabs let an account be started twice, the second time with another
  number of tabs, while a tab of the first start is still out.  Two requests
  and a probe are the smallest number at which the probe's return uncounts
  somebody else's lease and a waiter queues behind both a request and a probe.
- `MaxWaiters = 1` puts the queue at its limit with two requests on one tab.
- Two accounts are what pinning, exclusion and failover distinguish; rotation
  takes three so that somebody can be passed over, one with two tabs, and two
  orders so that reordering moves the cursor's neighbours.
- `AccountManager` runs a single account with one operator and the monitor: its
  locks are per account but `_lock`, which start and stop alone take.  A second
  operator only adds a task that waits at the same locks; the monitor is the
  second party of every race.  `manager_state` starts from a running account,
  which every admin call can leave and reach again, and takes two requests for
  two tabs, so that a failure of one is reported while the other is at work.
- `ThreadChain` gives each of two accounts a conversation and account 1 two
  tabs, the least at which two tabs can show one conversation.  `MaxLocks = 1`
  has room for one of the two, so every new conversation evicts a lock, held or
  not; `LockIds` exceeds the locks that can exist at once, since identities are used
  again.
- `Turn` makes two calls on one tab: the second meets everything the first left
  behind (a late reply, a mode, a temporary chat, a text not sent).  The other tab
  is all the others as far as the clipboard is concerned: it copies while the tab of
  the run is in its own copy step, since before that nothing of the two depends on
  each other, and of what is still on its way from earlier calls only the tab's own
  copies are kept (`Begin`), since the other tab can make its own again.  Once the tab has its copy, the others
  end theirs before it goes on (`Extracted`): what is left of them commutes with it.  `StablePolls = 1` and
  `MaxTries = 2` still have "not yet stable" and "tried again"; larger values
  repeat the same step.
- `Media` needs two jobs, so that there is an earlier result to mistake for this
  one's, and two parts, so that some may be missing;
  a video of Qwen takes the steps of its image up to the download, whose branch for
  clips Seedream's take, and is left out; `ParkLimit = 1` (32 in the
  code) puts the set of parked statuses at its limit with two.
- `Files`: two requests and two images of the same prefix, two attempts, files
  that live for one tick (`TTL = 1`), one restart.  `RequestLog`: three requests
  in a store of two, retention of one tick, one failed write in each life, one
  restart.  `AccountFiles`: the default account and two others (an id can be given
  twice), two proxies, one file that fails, two restarts, cooldowns
  of two lengths.
- Every queue and history is bounded by the constants; nothing else is cut.
- Symmetry (requests, tabs of a single account, images) is used by runs without
  liveness properties only.

Deadlock is checked in the runs of the pool, failover, rotation, manager and
conversations: the control plane always can take a step, and clients of
`ThreadChain` may always ask again.  `turn_reply`, `turn_inherit`, `media_jobs`
and `stores` make a bounded number of calls, jobs, ticks and restarts, and stop
when these are used up; there deadlock is not checked, and that nothing gets
stuck before is `TurnEnds` and `JobEnds`.

## 5. Fairness

asyncio runs every task that can go on: weak fairness of each process.  Its
locks are first come, first served: strong fairness where a lock is taken
(`TakeLock`, `EnterLogin`, `MarkFailed`, `GetLock`).  Endpoints end, because
provider waits have deadlines.  No fairness is assumed of arrivals, operators,
status probes beginning, failures, or the outside world; timeouts never have to
expire, except drains in `manager_live` (`TimeoutFairness`): `wait_drained` uses
`asyncio.wait_for`, and without it a drain and a failing request may wait for
each other.  The monitor ticks for ever (`SF` of `Tick`).

In `Turn` a client takes its steps and its waits expire (`WF` of `ClientStep` and
`Deadline`: every poll loop of the detectors has its own), the copy step gets the
first come, first served clipboard lock (`SF` of `Copy`), and other tabs go on
with theirs.  Of the site only rendering what it has is assumed, and no answer
ever.  In `Media` likewise: the job's steps and its deadline.

## 6. What is proved

`WorkerPoolProofs`, for any number of accounts, tabs, requests and probes, any
waiting bound and any sequence of control calls within the contract:

- `TypeCorrect`: `Spec => []TypeOK`; in particular `checked_out` stays a natural
  number although probes return tabs that were never counted.
- `LeaseSafety`: `Spec => []IInv`, where
  `IInv == TypeOK /\ LeaseInv /\ LeaseWhileServed` and `LeaseInv` is `OneHolder`,
  `IdleInService` and `OwnTabs` (tabs of a slot belong to its account).
- `ExclusiveTab`: `Spec => []OneHolder`, and `IdleTabsAreFree`:
  `Spec => []IdleInService`.

`OneHolder` is not inductive: taking a tab keeps it only if idle tabs are held by
nobody, which is `IdleInService`; putting a tab back keeps that one only if its
holder was the only one and the request that returns has a tab at all
(`LeaseWhileServed`: a request has a tab exactly between checkout and release);
and `AddWorkers` needs that new tabs are of the account that gets them.  The
lemmas follow the actions: `LeaseTake`, `LeaseProbeTake` (`IdleShrinks`),
`LeaseRelease`, `LeaseProbeRelease` (`IdleAgain`), `LeaseAdd`, `LeaseRetire`,
`LeaseSlots`, and `LeaseQuiet` for steps that touch no tab.

On top of `LeaseSafety`, no tab is lost, and the refinement:

- `NoTabEverLost`: `Spec => []NoTabLost`, which is inductive relative to `IInv`:
  taking a tab also drops retired tabs from its stack, which are not in service
  (`PlacedPop`); a tab given back is idle again if its slot still counts it
  (`PlacedPutBack`); the numbering that `add_workers` gives new tabs leaves none
  out (`NumberingComplete`, from the library's facts on injections).
- `PoolImplementsTabLease`: `Spec => ImplementsTabLease`.  `Holder` is a CHOOSE,
  so the mapping first needs that a tab has one client at most
  (`OneHolderKnown`, from `OneHolder`); then each action maps to one of
  `TabLease` (`MapGrant`, `MapReturn`, `MapAdd`, `MapRetire`) or leaves every
  phase and holder alone (`MapQuiet`, `MapSlots`).

The wait queue, on top of both:

- `NoWakeupLost`: `Spec => []NoLostWakeup`, and `SleeperHasWaker`:
  `Spec => []WaiterHasWaker`, by the inductive
  `WakeInv == NoLostWakeup /\ WaiterHasWaker /\ RoutedLive`.  A request goes to
  sleep when nothing it wants is idle but some account would serve it; that
  somebody holds one of that account's tabs follows from `NoTabLost`, provided the
  account has a tab that was not retired, which is `RoutedLive` (an account routed
  to has no retired tab).  Steps that notify wake everybody (`NobodySleeps`); the
  others free no tab and open no account (`NothingOpens`).

The counters, on top of both:

- `QueueBounded`: `Spec => []QueueBound`.  The set `Queued` is kept finite by the
  steps themselves, so nothing is assumed about the number of requests.
- `NoPhantom`: `Spec => []NoPhantomLease`.  A checkout adds a lease and counts it
  (`CountTake`), a release ends a lease whether or not the clamped count drops
  (`CountRelease`), a probe can only lower the count (`CountProbe`), and a slot
  made again starts at zero while the leases of its old life are still open
  (`CountControl`).  The opposite inequality is false: a probe's return uncounts a
  lease that is still open, which is why a drain beside a probe may end early.
- `LedgerSafety`: `LedgerSpec => []LedgerInv`, and from it
  `DrainsMissOnlyUncounted`: `LedgerSpec => DrainMissesOnlyUncounted`, with probes,
  forced closes and restarts.  `LedgerInv` says that the requests on tabs an account
  has (`Users`) are at most `checked_out + uncounted`, and finite.  A checkout adds
  one to either side (`LedgerTake`); a release that was counted in this slot takes
  one from either side, and one that was not is entered in `uncounted` if it lowered
  the count (`LedgerCharge`); a slot that is removed has no tabs left.  A drain says
  True at `checked_out = 0`.

`RotationProofs`, for any number of accounts, orders, requests, providers and models
and finitely many tabs, from the state in which every account is up:

- `RotationSafety`: `RSpec => []RotationInv`.  `Behind`: whoever was picked since
  `b` was passed over comes after `b`, counted cyclically from the cursor.  A pick
  keeps it because the rotation then stands behind the account picked, which is
  the last one from there (`PickedIsLast`), while those behind it keep their order
  (`OthersKeepOrder`); both are facts about `Before`, a lexicographic order on
  numbers, and `Successor`.
- `RotationIsFair`: `RSpec => NobodyPassedTwice`: two accounts cannot each come
  before the other (`OneComesFirst`).

The assumptions are
`PoolAssumption` only: accounts are numbers, `AccountOf` maps tabs to accounts,
and `None` is none of the other values.

`ManagerProofs`, for any number of accounts, tabs, requests, probes and
operators, with the monitor and the failure handler, from load_accounts
(`MSpec`) and from a running gateway (`MRunSpec`, where every account has a tab);
`FromEitherStart` is either.  `ManagerAssumption` adds that tasks, requests and
probes are different things, and that a slot may go while its drain has timed
out (`MayForceClose`), since `stop_account` closes the browser whatever the
drain answered.

- `ManagerSafety`: `[]ManagerInv`, where `ManagerInv == IInv /\ MInv`.  `MInv`
  is types, locks and accounts.  `LockInv`: `loginLock[a]` is held by a task
  exactly while that task is at a step under it, and `_lock` by a task of an
  operation that takes it.  `AccountInv(a)`: while an operation stands at a step,
  the record, the slot and the tabs of its account are as `Amid` says for that
  step (down before the launch, opened and unregistered before the registration,
  off the scan while it drains, ...); when no operation holds the account it is
  up with its tabs in the pool, or down; and what is routed to is in a serving
  state.  The properties alone are not inductive: whether an operation may
  register, resume or remove depends on what the steps before it left.
- `ContractKept`: `KeepsPoolContract`.  Every call that the manager, the monitor
  or a failing request makes meets the guard that `WorkerPool!Next` puts on it
  (`StepIsPoolStep`).  `IInv` is then kept by the pool's own lemma, and each
  result about the pool holds of the composition: `LeasesStaySafe`,
  `PoolUnderManager` (no tab lost, no wakeup lost, a waker for every sleeper,
  a counted and bounded queue, no phantom lease) and, from load_accounts on,
  `ManagerImplementsTabLease`.
- `OperationsExclude`: `[]LifecycleExclusive`.  `RoutedServes`:
  `[]RoutedMeansServing`.  `NobodyLetIn`: the action property `NoNewLease`; a
  lease is only ever gained by `Take`, of an account that is routed, and an account
  under one of these steps is off the scan (`Amid`).

`ThreadChainProofs`, for any number of accounts, tabs, requests, conversations
and locks, from `ChainAssumption`:

- `ChainTypeCorrect`: `TSpec => []ChainTypeOK`, with the bounds of both maps.
- `ConversationsAtHome`: `TSpec => []ThreadsAtHome`, by
  `HomeInv == Pinned /\ ThreadsAtHome`: a request has a tab exactly from
  `acquire()` to `__aexit__`, and a chain has one of its conversation's owner, so
  whatever a navigation leaves behind is at home there.
- `ChainsAreSerialized`: `TSpec => []ChainsSerialized`, for any bound of the map.
  `LockMapInv` says that the map has one lock per conversation,
  and that the lock of every chain is the map's or in `evicted`; `LockHeld` that a
  chain past `GetLock` holds its lock.  An entry that is added is the newest, which
  stays (`NewestEnds`); a lock of another request that leaves the map goes to
  `evicted` (`OthersKept`); steps that leave the map alone forget nothing
  (`EvictQuiet`).  So two chains of one conversation of which neither lock was
  evicted have the same lock, and one of them holds it.

`FailoverProofs`, for any number of accounts, requests and retries and finitely
many tabs (the pool is up at the start, and the order of its idle tabs is a
bijection):

- `FailoverSafety`: `FSpec => []FInv`, where `FInv == IInv /\ FailInv`, the
  pool's invariant (kept because every step of a call is one of the pool's, or a
  retry that only resets a finished request: `RetryPool`) and what a call
  remembers (`Remembers`): while an attempt asks for a tab it asks with the
  exclusions of its call; every account that failed it is excluded or is the
  failure just met; until there is one, nothing has failed.
- `NeverBack`: `FSpec => NeverTwiceOnOneAccount`.  Only `Take` gives a request a
  tab (`GainedByTaking`), of an account that is routable for what it asks for,
  hence not excluded (`GainedElsewhere`).
- `FailureReported`: `FSpec => []FailureNotMasked`.

`TurnProofs`, for any number of tabs and calls, any set of providers, quirks of the
site, modes and ids, and any number of stable polls and tries (`TurnAssumption`
only names the contents of a turn that the module speaks of, and says that the
reasons of a failure are no contents; `PageAssumption` that some id asks for no
mode):

- `CopiesAreOwn`: `ClipSpec => []OwnText`, with refused calls and late copies, by the
  inductive `ClipInv`: whoever is between taking and releasing the lock holds it
  (`InsideLocked`), and for a tab that was not disturbed the clipboard is, from the
  clearing on, empty, what it was before the copy, or the tab's own (`ClipOwn`).
- *Scripts.*  Where `turn.at` points is a name (`Step`).  `ScriptsInOrder` says
  once, of the six scripts, which step can follow which, and `ScriptsArePeculiar`
  which steps are whose; no other proof looks into a script.  An action that
  leaves the page alone is then one of `Quietly`: it goes to a following step, to
  a jump's target or to the end.
- `TurnSafety`: `TurnSpec => []SafeInv`.  `SendInv`: before
  the composer is filled nothing was sent; up to the press something was sent
  only if the paste submitted itself, and then the composer is empty and a press
  sends nothing.  `PlaceInv`: from the step that
  sets or verifies the temporary chat and the modes up to the send they are what
  the call wants (`Placed`), the modes the client has noted as lost excepted.
  The next caller finds no whole prompt in the composer (`BeginKeeps`).
- `PromptSentOnce`: `[]SubmittedOnce`.  `PromptRightlyPlaced`: `RightPlace`.
- `ReplySafety`: `TurnSpec => []ReplyInv`, which is `SafeInv`, `ClipInv`, `RightInv`
  and two parts more.  `PageInv`: once the turns were
  counted with no older one to come, a turn above the count is the reply to this
  prompt (`Watched`), a finished one when the stop button is gone, and each
  script's steps after the wait are reached only with a reply there.  `CopyInv`:
  what the copy step has in its hands, between any two of its own steps and those
  of other tabs, is of that reply, and of a finished one unless the wait was cut
  short (`Fit`), as long as nothing
  disturbed it.  `RightInv` is `RightReply` and, while the call is under way,
  the same without its exception: what a disturbed copy gives is returned last.
- `ReplyIsRight`: `[]RightReply`.  `ReplyFromOwnPage`: `[]OwnText`, of the whole
  turn this time.

`MediaProofs`, for any of the providers, any number of jobs, results and hitches
(`MediaAssumption`: the constants are numbers and subsets of the kinds the
module names, and no message is `None`):

- `MediaSafety`: `MediaSpec => []MediaInv`.  `PathInv` says what a job may have at
  each of its steps; `OwnInv` that from the baseline on every result on the page,
  shown or coming, is in the baseline, among those that it missed (`job.missed`) or
  the job's own, and that the capture knows the statuses and links of this prompt
  only; `NewsInv` that what Qwen's page says after the opening is a reply to this
  prompt, or was on a page that a new chat should have replaced.
- `SavedIsOwn`: `[]OwnMedia`.  `LimitReportedIsOwn`: `[]LimitIsOwn`.

`StoresProofs`, for the three stores of `MCStores`, each under its own
specification.

Files, for any number of requests, images, attempts and restarts:

- `FilesSafety`: `FilesSpec => []FilesInv`.  What a request cleans up is on its way
  in, or is the one file that its caller named (`PathsInv`).  A result's path holds its request's
  picture or nothing (`DiskInv`); an edit's uploads are under its own names, as
  many as it has read, and what lies there is what its caller sent, whatever
  attempt wrote it (`EditInv`, `UploadInv`); a link leads to its request's result
  (`LinkInv`).  That no two of these names meet is `NamesApart`.
- `EditsKeepTheirUploads`: `[]UploadsOwn`.  `LinksServe`: the action property
  `LinkServes`; a result's name is never that of a file on its way in
  (`ResultsStay`), so a cleanup removes a result only for a request that was given its
  path, and the sweep removes what is older than `TTL`.

Account files, for any number of accounts, failed saves and restarts:

- `AccountsSafety`: `AccSpec => []AccInv`.  Numbers are unique in memory and in
  the file, which agree on every account that serves, even when a save failed;
  usage that is not marked for saving is in its file or was never read.  A new account's number is
  new (`NumberIsNew`): there are more numbers than accounts.
- `ProxiesOwned`: `ProxyOwn`.  `CooldownsKept`: `CooldownKept`, for limits of any
  length, in any order.

Request log, for any number of requests, ticks, failed writes and restarts, and
any size and retention:

- `LogSafety`: `LogSpec => []LogInv`.  `DictOk`: one record per id, in the order
  of the ids but for records that came back.  `Covered`: a row that is young and
  newer than a record in memory is in memory itself.  That is why `LogAgrees` is
  kept by a write that trims the table to its newest `MaxEntries` rows
  (`TrimKeeps`): whatever could push a record's row out is in the dictionary as
  well, which is no larger.  `RequestsOk` ties a running request to the id it
  holds; `FaultlessOk` says that until a write fails the table says the same as
  memory and as the requests, which is what a restart relies on.
- `LogOnDisk`: `[]LogAgrees`.  `OutcomesTold`: `[]OutcomeKept`.

`MediaInv`, `LogInv`, `LedgerInv`, `RotationInv`, `LockInv` of the conversations and
`ReplyInv` with its parts were checked by TLC on the instances of the runs as well
(`LogInv`: 1.5 million states of `RequestLog` alone; `LedgerInv`: 1.4 million;
`ReplyInv`: 1.1 million of `Turn`).

Not in the prover's reach, and left to TLC: liveness under fairness, `ENABLED`,
and induction over recursive data.  No module uses `RECURSIVE`.

## 7. What is only model-checked, and what is not modelled

Every safety property of the runs is a theorem.  Only checked is liveness:
`EveryRequestEnds`, `DrainEnds`, `EveryCallReplied`, `AdminCallsReturn`,
`CooldownEnds`, `CapEnforced`, `EveryTurnEnds`, `TurnEnds` and `JobEnds`.
The theorems hold with probes, forced closes, evicted locks, refused clipboard calls
and late copies; where a property has an exception (section 3), it is part of the
statement, tied to the step that makes it necessary.

Not modelled:

- HTTP parsing, wire formats, HTML, prompts and their rendering, tool-call
  parsing, the limit detector's patterns, proxy URLs: tables and text, of which
  the models take the verdict as an input.
- The scripts that run inside a page, and the browser driver's internals: they act
  on an external process; the models take what they report.
- How the images of ChatGPT, Gemini and Grok are downloaded (whether one could be
  saved is a choice); the streaming of a finished reply; paging and export of the log; the windows of message counts.
- `close_all`, and profile directories.
- The command line and the page recorders, which are outside the service.
- Cancellation of a request: nothing in the service cancels a handler, and a
  client that disconnects does not either.  A shutdown that is forced ends the
  process with it.
- The legacy `/thread/{id}/chat` route, which takes no conversation lock, is left
  out of `ThreadChain`.

## 8. Plan

Done, in order of importance: `WorkerPool` and its proofs, `Failover`, `Rotation`,
`AccountManager`, `ThreadChain`, `Turn` with `Page` and `Clipboard`, `Media`,
`Files`, `RequestLog`, `AccountFiles`, and the proofs of section 6.

Left:

1. `ToolCalls`: the parser's choices over token classes, against a reference.
2. `close_all` and the profile directories; the windows of message counts.
