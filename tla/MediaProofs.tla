----------------------------- MODULE MediaProofs -----------------------------
(***************************************************************************)
(* Proofs about Media, for any provider, number of jobs and results, and   *)
(* whatever goes wrong: what a job saves is its own, but for older results *)
(* that its baseline could not know, and an account of Qwen is only taken  *)
(* off for a limit reported for its job.                                   *)
(***************************************************************************)
EXTENDS Media, TLAPS

MediaTypes ==
    /\ flow \in AllFlows
    /\ site \in SiteType
    /\ wire \in WireType
    /\ job \in JobType

\* The steps from which a job goes on.
Onward == {"open", "tool", "prepare", "baseline", "send", "wait"}

\* A job saves and reports nothing before it waits for its results; each
\* provider has its own steps, and only Seedream keeps results out of view.
PathInv ==
    /\ Qwen => site.history = {} /\ job.at # "prepare"
    /\ ~Qwen => job.at # "tool"
    /\ job.at \notin {"wait", "download"} => job.found = {}
    /\ job.at \in Onward \ {"wait"} => job.saved = {}
    /\ job.at \in Onward =>
         (job.sent <=> At("wait") \/ (~Qwen /\ At("baseline")))
    /\ job.at \notin {"idle", "leave"} => ~job.limit
    /\ job.at # "idle" => job.n # 0

\* The results the job may have: those of its prompt, and the older ones that
\* its baseline could not know.
Own == ItemsOf(job.n) \cup job.missed

\* From the baseline on all other results are in it, on the page and off; what
\* the network told is of this prompt.
OwnInv ==
    /\ wire.known \subseteq {job.n} /\ wire.urls \subseteq ItemsOf(job.n)
    /\ job.found \subseteq Own /\ job.saved \subseteq Own
    /\ At("wait") \/ (Qwen /\ At("send")) =>
         site.shown \subseteq job.base \cup Own /\ site.coming \subseteq Own

\* After the opening, what Qwen's page says is a reply to this prompt, or is on
\* a page that the pool should have replaced.
NewsInv ==
    Qwen /\ job.at \in {"tool", "baseline", "send", "wait"} =>
      site.says = None \/ job.kept \/ (job.sent /\ site.by = job.n)

\* A chat that the pool has opened is the page of the job, unless it was kept.
OpenedInv ==
    Qwen /\ At("open") /\ job.fresh => site.says = None \/ job.kept

MediaInv ==
    MediaTypes /\ PathInv /\ OwnInv /\ NewsInv /\ OpenedInv /\ LimitIsOwn

-----------------------------------------------------------------------------
(* Going on, and failing *)

\* After leads to a later step, and to one of the provider's own.
LEMMA AfterType ==
    ASSUME NEW step \in Onward
    PROVE  /\ After(step) \in Steps \ {"idle", "leave", "open"}
           /\ Qwen => After(step) # "prepare" \/ step = "prepare"
           /\ After(step) = "download" <=> step = "wait"
           /\ After(step) = "wait" => step = IF Qwen THEN "send" ELSE "baseline"
           /\ Qwen /\ After(step) = "send" => step \in {"baseline", "prepare"}
BY DEF Onward, After, Steps

\* Go changes where the job is, and nothing it knows.
LEMMA GoFacts ==
    ASSUME NEW u \in JobType, u.at \in Onward
    PROVE  /\ Go(u) \in JobType
           /\ Go(u).at = After(u.at)
           /\ Go(u).n = u.n /\ Go(u).fresh = u.fresh /\ Go(u).base = u.base
           /\ Go(u).found = u.found /\ Go(u).sent = u.sent
           /\ Go(u).saved = u.saved /\ Go(u).limit = u.limit
           /\ Go(u).missed = u.missed /\ Go(u).kept = u.kept
           /\ Go(u).source = u.source
<1>1. After(u.at) \in Steps
    BY AfterType
<1> QED
    BY <1>1 DEF Go, JobType

\* Raise drops what the job has.
LEMMA RaiseFacts ==
    ASSUME NEW u \in JobType, NEW why \in Messages
    PROVE  /\ Raise(u, why) \in JobType
           /\ Raise(u, why).at \in {"idle", "leave"}
           /\ Raise(u, why).n = u.n /\ Raise(u, why).fresh = u.fresh
           /\ Raise(u, why).found = {} /\ Raise(u, why).saved = {}
           /\ Raise(u, why).limit = u.limit
           /\ Raise(u, why).kept = u.kept
           /\ Raise(u, why).source = u.source
BY DEF Raise, Final, JobType, Steps

\* A capture that has not started.
LEMMA NoWireType == NoWire \in WireType
BY DEF NoWire, WireType

\* A job that has failed, or stopped, keeps no promise but LimitIsOwn.
LEMMA Stopped ==
    ASSUME MediaInv, flow' = flow, site' \in SiteType, job' \in JobType,
           Qwen => site'.history = {},
           wire' = wire \/ wire' = NoWire,
           job'.at \in {"idle", "leave"}, job'.n = job.n,
           job'.at # "idle" => job.n # 0,
           job'.found = {},
           \/ job'.saved = {}
           \/ job'.saved = job.saved /\ job'.missed = job.missed,
           Qwen /\ job'.limit => job'.source = job'.n \/ job'.kept
    PROVE  MediaInv'
<1>1. wire' \in WireType
    BY NoWireType DEF MediaInv, MediaTypes
<1>2. MediaTypes'
    BY <1>1 DEF MediaInv, MediaTypes
<1>3. PathInv'
    BY DEF MediaInv, PathInv, Onward, Qwen
<1>4. wire'.known \subseteq {job'.n} /\ wire'.urls \subseteq ItemsOf(job'.n)
    BY DEF MediaInv, OwnInv, NoWire
<1>5. OwnInv'
    BY <1>4 DEF MediaInv, OwnInv, Own, At
<1>6. NewsInv' /\ OpenedInv' /\ LimitIsOwn'
    BY DEF NewsInv, OpenedInv, LimitIsOwn, At, Qwen
<1> QED
    BY <1>2, <1>3, <1>5, <1>6 DEF MediaInv

\* A job that fails, its page as it may be.
LEMMA Raised ==
    ASSUME MediaInv, flow' = flow, site' \in SiteType,
           Qwen => site'.history = {}, wire' = wire,
           NEW why \in Messages, job' = Raise(job, why), ~At("idle")
    PROVE  MediaInv'
<1>1. job \in JobType /\ LimitIsOwn /\ job.n # 0
    BY DEF MediaInv, MediaTypes, PathInv, At
<1> QED
    BY <1>1, RaiseFacts, Stopped DEF LimitIsOwn, Qwen

-----------------------------------------------------------------------------
(* The site and the network *)

\* The site only shows what it had still to show, and speaks of this prompt, or
\* in a chat that was kept.
LEMMA SiteFacts ==
    ASSUME MediaTypes, Appear \/ Finish \/ Say
    PROVE  /\ site' \in SiteType
           /\ site'.history = site.history
           /\ site'.shown \cup site'.coming \subseteq site.shown \cup site.coming
           /\ site'.coming \subseteq site.coming
           /\ \/ site'.says = site.says /\ site'.by = site.by
              \/ job.sent /\ site'.by = job.n
              \/ job.kept
<1>1. site \in SiteType /\ job.n \in Jobs
    BY DEF MediaTypes, JobType
<1>2. CASE Appear
  <2>1. PICK i \in site.coming :
          site' = [site EXCEPT !.coming = @ \ {i}, !.shown = @ \cup {i}]
      BY <1>2 DEF Appear
  <2> QED
      BY <1>1, <2>1 DEF SiteType
<1>3. CASE Finish
  <2>1. PICK i \in site.shown \cup site.coming :
          site' = [site EXCEPT !.ready = @ \cup {i}]
      BY <1>3 DEF Finish
  <2> QED
      BY <1>1, <2>1 DEF SiteType
<1>4. CASE Say
  <2>1. PICK j \in 1 .. job.n, what \in {"limit", "fail", "text"} :
          /\ IF j = job.n THEN job.sent ELSE job.kept /\ site.by < j
          /\ site' = [site EXCEPT !.says = what, !.by = j]
      BY <1>4 DEF Say
  <2>2. j \in Jobs
      BY <1>1, <2>1, MediaAssumption DEF Jobs
  <2> QED
      BY <1>1, <2>1, <2>2 DEF SiteType
<1> QED
    BY <1>2, <1>3, <1>4

\* Nothing the site does breaks the invariant.
LEMMA SiteNext == MediaInv /\ SiteStep => MediaInv'
<1> SUFFICES ASSUME MediaInv, SiteStep PROVE MediaInv'
    OBVIOUS
<1>1. /\ UNCHANGED <<flow, wire, job>> /\ MediaTypes
      /\ Appear \/ Finish \/ Say
    BY DEF SiteStep, MediaInv
<1>2. /\ site' \in SiteType
      /\ site'.history = site.history
      /\ site'.shown \cup site'.coming \subseteq site.shown \cup site.coming
      /\ site'.coming \subseteq site.coming
      /\ \/ site'.says = site.says /\ site'.by = site.by
         \/ job.sent /\ site'.by = job.n
         \/ job.kept
    BY <1>1, SiteFacts
<1>3. MediaTypes'
    BY <1>1, <1>2 DEF MediaTypes
<1>4. PathInv'
    BY <1>1, <1>2 DEF MediaInv, PathInv, Qwen, At
<1>5. OwnInv'
    BY <1>1, <1>2 DEF MediaInv, OwnInv, Own, At, Qwen
<1>6. NewsInv' /\ OpenedInv'
    BY <1>1, <1>2 DEF MediaInv, NewsInv, OpenedInv, Qwen, At, SiteStep
<1> QED
    BY <1>1, <1>3, <1>4, <1>5, <1>6 DEF MediaInv, LimitIsOwn, Qwen

\* What is heard of a known task is of this prompt.
LEMMA OutcomeFacts ==
    ASSUME NEW w \in WireType, NEW j \in 1 .. MaxJobs, NEW what
    PROVE  /\ Outcome(w, j, what) \in WireType
           /\ Outcome(w, j, what).known = w.known
           /\ Outcome(w, j, what).urls \subseteq w.urls \cup ItemsOf(j)
BY DEF Outcome, WireType, ItemsOf, Items

\* No response of another prompt's task becomes a result of this one.
LEMMA WireNext == MediaInv /\ WireStep => MediaInv'
<1> SUFFICES ASSUME MediaInv, WireStep PROVE MediaInv'
    OBVIOUS
<1>1. /\ UNCHANGED <<flow, site, job>> /\ MediaTypes
      /\ wire.known \subseteq {job.n} /\ wire.urls \subseteq ItemsOf(job.n)
      /\ wire \in WireType /\ job.n \in Jobs /\ job.n # 0
    BY DEF WireStep, MediaInv, OwnInv, PathInv, At, MediaTypes, JobType
<1>2. /\ wire' \in WireType
      /\ wire'.known \subseteq {job.n} /\ wire'.urls \subseteq ItemsOf(job.n)
  <2>1. CASE Status
    <3>1. PICK j \in 1 .. job.n, what \in {"running", "success", "failed"} :
            wire' = StatusOf(wire, j, what)
        BY <2>1 DEF Status
    <3>2. j \in 1 .. MaxJobs /\ j \in Jobs
        BY <1>1, MediaAssumption DEF Jobs
    <3>3. CASE j \in wire.known
        BY <1>1, <3>1, <3>2, <3>3, OutcomeFacts DEF StatusOf
    <3>4. CASE j \notin wire.known
        BY <1>1, <3>1, <3>2, <3>4 DEF StatusOf, WireType
    <3> QED
        BY <3>3, <3>4
  <2>2. CASE Completion
    <3> DEFINE w == [wire EXCEPT !.known = @ \cup {job.n},
                                 !.parked[job.n] = None]
    <3>1. w \in WireType /\ w.known = wire.known \cup {job.n} /\ w.urls = wire.urls
        BY <1>1 DEF WireType
    <3>2. \/ wire' = w
          \/ \E what : wire' = Outcome(w, job.n, what)
          \/ wire' = Outcome(wire, job.n, "success")
        BY <2>2 DEF Completion
    <3>3. job.n \in 1 .. MaxJobs
        BY <1>1, MediaAssumption DEF Jobs
    <3> HIDE DEF w
    <3> QED
        BY <1>1, <3>1, <3>2, <3>3, OutcomeFacts
  <2> QED
      BY <2>1, <2>2 DEF WireStep
<1>3. MediaTypes'
    BY <1>1, <1>2 DEF MediaTypes
<1>4. PathInv' /\ NewsInv' /\ OpenedInv'
    BY <1>1 DEF MediaInv, PathInv, NewsInv, OpenedInv, Qwen, At
<1>5. OwnInv'
    BY <1>1, <1>2 DEF MediaInv, OwnInv, Own, At, Qwen
<1> QED
    BY <1>1, <1>3, <1>4, <1>5 DEF MediaInv, LimitIsOwn, Qwen

-----------------------------------------------------------------------------
(* Up to the prompt *)

\* Another document shows nothing yet.
LEMMA LoadFacts ==
    ASSUME NEW p \in SiteType
    PROVE  /\ Load(p) \in SiteType
           /\ Load(p).shown = {} /\ Load(p).coming = {}
           /\ Load(p).says = None
           /\ Qwen => Load(p).history = {}
BY DEF Load, SiteType

\* A job that goes on before its results.
LEMMA Advanced ==
    ASSUME MediaInv, flow' = flow, site' \in SiteType,
           Qwen => site'.history = {},
           wire' \in {wire, NoWire, [NoWire EXCEPT !.on = TRUE]},
           job' \in JobType, job.at \in Onward \ {"wait"},
           job'.at = After(job.at), job'.n = job.n, job'.found = job.found,
           job'.saved = job.saved, job'.limit = job.limit,
           job'.sent <=> job.sent \/ job.at = "send",
           job'.at = "wait" \/ (Qwen /\ job'.at = "send") =>
             /\ site'.shown \subseteq job'.base \cup ItemsOf(job.n) \cup job'.missed
             /\ site'.coming \subseteq ItemsOf(job.n) \cup job'.missed,
           Qwen => site'.says = None \/ job'.kept
                     \/ (job'.sent /\ site'.by = job'.n)
    PROVE  MediaInv'
<1>1. wire' \in WireType
    BY NoWireType DEF MediaInv, MediaTypes, WireType
<1>2. MediaTypes'
    BY <1>1 DEF MediaInv, MediaTypes
<1>3. PathInv'
  <2>1. /\ job.found = {} /\ job.saved = {} /\ ~job.limit /\ job.n # 0
        /\ job.sent <=> ~Qwen /\ job.at = "baseline"
        /\ Qwen => job.at # "prepare"
        /\ ~Qwen => job.at # "tool"
      BY DEF MediaInv, PathInv, Onward, At
  <2>2. /\ Qwen => job'.at # "prepare"
        /\ ~Qwen => job'.at # "tool"
        /\ job'.at = "wait" \/ (~Qwen /\ job'.at = "baseline") <=>
             job.at = "send" \/ (~Qwen /\ job.at = "baseline")
      BY <2>1 DEF Onward, After
  <2>3. Qwen' <=> Qwen
      BY DEF Qwen
  <2> QED
      BY <2>1, <2>2, <2>3 DEF PathInv, At
<1>4. wire'.known \subseteq {job'.n} /\ wire'.urls \subseteq ItemsOf(job'.n)
    BY DEF MediaInv, OwnInv, NoWire
<1>5. job'.found = {} /\ job'.saved = {}
    BY DEF MediaInv, PathInv, Onward
<1>6. OwnInv'
    BY <1>4, <1>5 DEF OwnInv, Own, At, Qwen
<1>7. NewsInv' /\ OpenedInv' /\ LimitIsOwn'
    BY AfterType
    DEF MediaInv, PathInv, Onward, NewsInv, OpenedInv, LimitIsOwn, Qwen, At
<1> QED
    BY <1>2, <1>3, <1>6, <1>7 DEF MediaInv

\* What the invariant says of a job on its way.
LEMMA OnTheWay ==
    ASSUME MediaInv, job.at \in Onward
    PROVE  /\ job \in JobType /\ site \in SiteType /\ wire \in WireType
           /\ Qwen => site.history = {}
           /\ job.n # 0 /\ ~At("idle")
           /\ ~job.limit
BY DEF MediaInv, MediaTypes, PathInv, Onward, At

\* The chat is a new one, or the one the pool was to open.
LEMMA OpenNext == ASSUME MediaInv, Open PROVE MediaInv'
<1>1. job.at = "open" /\ job.at \in Onward /\ UNCHANGED <<flow, wire>>
    BY DEF Open, At, Onward
<1>2. /\ job \in JobType /\ site \in SiteType /\ ~At("idle")
      /\ Qwen => site.history = {}
    BY <1>1, OnTheWay
<1>3. /\ Go(job) \in JobType
      /\ Go(job).at = After(job.at)
      /\ Go(job).n = job.n /\ Go(job).kept = job.kept
      /\ Go(job).found = job.found /\ Go(job).sent = job.sent
      /\ Go(job).saved = job.saved /\ Go(job).limit = job.limit
    BY <1>1, <1>2, GoFacts
<1>4. ~job.sent
    BY <1>1 DEF MediaInv, PathInv, At
<1>5. Go(job).at \in {"tool", "prepare"}
    BY <1>1, <1>3 DEF After
<1>6. CASE job' = Go(job) /\ site' = site /\ job.fresh
  <2>1. Qwen => site.says = None \/ job.kept
      BY <1>1, <1>6 DEF MediaInv, OpenedInv, At
  <2> QED
      BY <1>1, <1>2, <1>3, <1>4, <1>5, <1>6, <2>1, Advanced
<1>7. CASE job' = Go(job) /\ site' = Load(site)
    BY <1>1, <1>2, <1>3, <1>4, <1>5, <1>7, LoadFacts, Advanced
<1>8. CASE job' = Raise(job, "unsent") /\ site' = site
    BY <1>1, <1>2, <1>8, Raised DEF Messages
<1> QED
    BY <1>6, <1>7, <1>8 DEF Open

\* The tool is no part of what the job knows.
LEMMA EnterToolNext == ASSUME MediaInv, EnterTool PROVE MediaInv'
<1>1. job.at = "tool" /\ job.at \in Onward /\ UNCHANGED <<flow, site, wire>>
    BY DEF EnterTool, At, Onward
<1>2. /\ job \in JobType /\ site \in SiteType /\ ~At("idle")
      /\ Qwen => site.history = {}
    BY <1>1, OnTheWay
<1>3. /\ Go(job) \in JobType
      /\ Go(job).at = After(job.at)
      /\ Go(job).n = job.n /\ Go(job).kept = job.kept
      /\ Go(job).found = job.found /\ Go(job).sent = job.sent
      /\ Go(job).saved = job.saved /\ Go(job).limit = job.limit
    BY <1>1, <1>2, GoFacts
<1>4. ~job.sent /\ (Qwen => site.says = None \/ job.kept)
    BY <1>1 DEF MediaInv, PathInv, NewsInv, At
<1>5. Go(job).at = "baseline"
    BY <1>1, <1>3 DEF After
<1>6. CASE job' = Go(job)
    BY <1>1, <1>2, <1>3, <1>4, <1>5, <1>6, Advanced
<1>7. CASE job' = Raise(job, "unsent")
    BY <1>1, <1>2, <1>7, Raised DEF Messages
<1> QED
    BY <1>6, <1>7 DEF EnterTool

\* Nothing changes.
LEMMA PrepareNext == ASSUME MediaInv, Prepare PROVE MediaInv'
<1>1. /\ job.at = "prepare" /\ job.at \in Onward
      /\ UNCHANGED <<flow, site, wire>> /\ job' = Go(job)
    BY DEF Prepare, At, Onward
<1>2. job \in JobType /\ site \in SiteType /\ (Qwen => site.history = {})
    BY <1>1, OnTheWay
<1>3. /\ Go(job) \in JobType
      /\ Go(job).at = After(job.at)
      /\ Go(job).n = job.n /\ Go(job).kept = job.kept
      /\ Go(job).found = job.found /\ Go(job).sent = job.sent
      /\ Go(job).saved = job.saved /\ Go(job).limit = job.limit
    BY <1>1, <1>2, GoFacts
<1>4. ~job.sent
    BY <1>1 DEF MediaInv, PathInv, At
<1>5. ~Qwen /\ After(job.at) = "send"
    BY <1>1 DEF MediaInv, PathInv, After
<1> QED
    BY <1>1, <1>2, <1>3, <1>4, <1>5, Advanced

\* Everything on the page goes into the baseline, or counts as missed.
LEMMA BaselineNext == ASSUME MediaInv, Baseline PROVE MediaInv'
<1>1. /\ job.at = "baseline" /\ job.at \in Onward
      /\ UNCHANGED <<flow, site>>
      /\ wire' \in {wire, [NoWire EXCEPT !.on = TRUE]}
    BY DEF Baseline, At, Onward
<1>2. /\ job \in JobType /\ site \in SiteType /\ (Qwen => site.history = {})
      /\ site.shown \subseteq Items /\ site.coming \subseteq Items
    BY <1>1, OnTheWay DEF SiteType
<1>3. /\ Go(job) \in JobType
      /\ Go(job).at = After(job.at)
      /\ Go(job).n = job.n /\ Go(job).kept = job.kept
      /\ Go(job).found = job.found /\ Go(job).sent = job.sent
      /\ Go(job).saved = job.saved /\ Go(job).limit = job.limit
      /\ Go(job).base = job.base
    BY <1>1, <1>2, GoFacts
<1>4. \A S \in SUBSET Items : /\ Older(S) \subseteq Items
                              /\ S \subseteq ItemsOf(job.n) \cup Older(S)
    BY DEF Older, ItemsOf, Items
<1> DEFINE late == site.coming \cup (site.shown \ site.ready)
<1>5. PICK base \in SUBSET Items, missed \in SUBSET Items :
        /\ job' = [Go(job) EXCEPT !.base = base, !.missed = missed]
        /\ site.shown \subseteq base \cup ItemsOf(job.n) \cup missed
        /\ site.coming \subseteq ItemsOf(job.n) \cup missed
  <2>0. /\ late \subseteq Items /\ Unknowable = Older(late)
        /\ Unknowable \subseteq Items
        /\ late \subseteq ItemsOf(job.n) \cup Unknowable
      BY <1>2, <1>4 DEF Unknowable
  <2>1. ASSUME NEW known \in SUBSET site.shown, Known(known),
               job' = [Go(job) EXCEPT !.base = known, !.missed = Unknowable]
        PROVE  \E base \in SUBSET Items, missed \in SUBSET Items :
                 /\ job' = [Go(job) EXCEPT !.base = base, !.missed = missed]
                 /\ site.shown \subseteq base \cup ItemsOf(job.n) \cup missed
                 /\ site.coming \subseteq ItemsOf(job.n) \cup missed
    <3>1. site.shown \subseteq known \cup late
        BY <2>1 DEF Known
    <3> QED
        BY <1>2, <2>0, <2>1, <3>1
  <2>2. CASE job' = [Go(job) EXCEPT !.missed = Unknowable \cup Older(site.shown)]
    <3> DEFINE old == Unknowable \cup Older(site.shown)
    <3>1. /\ old \subseteq Items /\ job.base \subseteq Items
          /\ site.coming \cup site.shown \subseteq ItemsOf(job.n) \cup old
        BY <1>2, <1>4, <2>0 DEF JobType
    <3> HIDE DEF old
    <3>2. job' = [Go(job) EXCEPT !.base = job.base, !.missed = old]
        BY <1>3, <2>2 DEF JobType, old
    <3> QED
        BY <3>1, <3>2
  <2> QED
      BY <2>1, <2>2 DEF Baseline
<1>6. /\ job' \in JobType
      /\ job'.at = After(job.at)
      /\ job'.n = job.n /\ job'.kept = job.kept
      /\ job'.found = job.found /\ job'.sent = job.sent
      /\ job'.saved = job.saved /\ job'.limit = job.limit
      /\ job'.base = base /\ job'.missed = missed
    BY <1>3, <1>5 DEF JobType
<1>7. Qwen => \/ site.says = None \/ job.kept
              \/ job.sent /\ site.by = job.n
    BY <1>1 DEF MediaInv, NewsInv
<1> QED
    BY <1>1, <1>2, <1>5, <1>6, <1>7, Advanced

\* What the prompt makes is its own; what the page said before it was on a
\* page that the pool should have replaced.
LEMMA SendNext == ASSUME MediaInv, Send PROVE MediaInv'
<1>1. job.at = "send" /\ job.at \in Onward /\ UNCHANGED <<flow, wire>>
    BY DEF Send, At, Onward
<1>2. /\ job \in JobType /\ site \in SiteType /\ ~At("idle")
      /\ Qwen => site.history = {}
      /\ job.n # 0 /\ ~job.limit
    BY <1>1, OnTheWay
<1>3. ~job.sent /\ (Qwen => site.says = None \/ job.kept)
    BY <1>1 DEF MediaInv, PathInv, NewsInv, At
<1>4. CASE job' = Raise(job, "unsent") /\ UNCHANGED site
    BY <1>1, <1>2, <1>4, Raised DEF Messages
<1>5. ASSUME NEW made \in {{}, ItemsOf(job.n)},
             site' = [site EXCEPT !.coming = @ \cup made \cup site.history,
                                  !.history = {}],
             NEW u, u = [job EXCEPT !.sent = TRUE],
             job' \in {Go(u), Raise(u, "unsent")}
      PROVE  MediaInv'
  <2>1. /\ u \in JobType /\ u.at = job.at /\ u.n = job.n /\ u.sent
        /\ u.kept = job.kept /\ u.found = job.found /\ u.saved = job.saved
        /\ u.limit = job.limit /\ u.base = job.base /\ u.missed = job.missed
      BY <1>2, <1>5 DEF JobType
  <2>2. ItemsOf(job.n) \subseteq Items
      BY <1>2 DEF ItemsOf, Items, Jobs, JobType
  <2>3. /\ site' \in SiteType /\ site'.history = {}
        /\ site'.shown = site.shown /\ site'.says = site.says
        /\ site'.coming = site.coming \cup made \cup site.history
      BY <1>2, <1>5, <2>2 DEF SiteType
  <2>4. CASE job' = Raise(u, "unsent")
      BY <1>1, <1>2, <2>1, <2>3, <2>4, RaiseFacts, Stopped DEF Messages
  <2>5. CASE job' = Go(u)
    <3>1. /\ job' \in JobType
          /\ job'.at = After(job.at)
          /\ job'.n = job.n /\ job'.kept = job.kept
          /\ job'.found = job.found /\ job'.sent
          /\ job'.saved = job.saved /\ job'.limit = job.limit
          /\ job'.base = job.base /\ job'.missed = job.missed
        BY <1>1, <2>1, <2>5, GoFacts
    <3>2. Qwen => /\ site.shown \subseteq job.base \cup Own
                  /\ site.coming \subseteq Own
        BY <1>1 DEF MediaInv, OwnInv, At
    <3>3. job'.at = IF Qwen THEN "wait" ELSE "baseline"
        BY <1>1, <3>1 DEF After
    <3>4. job'.at = "wait" \/ (Qwen /\ job'.at = "send") =>
            /\ site'.shown \subseteq job'.base \cup ItemsOf(job.n) \cup job'.missed
            /\ site'.coming \subseteq ItemsOf(job.n) \cup job'.missed
        BY <1>2, <2>3, <3>1, <3>2, <3>3 DEF Own
    <3> QED
        BY <1>1, <1>2, <1>3, <2>1, <2>3, <3>1, <3>4, Advanced
  <2> QED
      BY <1>5, <2>4, <2>5
<1> QED
    BY <1>4, <1>5 DEF Send

-----------------------------------------------------------------------------
(* The results *)

\* What a poll finds is the job's.
LEMMA FoundIsOwn ==
    ASSUME MediaInv, At("wait")
    PROVE  FoundNow \subseteq Own /\ FoundNow \subseteq Items
BY DEF MediaInv, MediaTypes, SiteType, WireType, OwnInv, At, Own, FoundNow,
       PageResults

\* A job that goes on waiting, or has its results.
LEMMA Waited ==
    ASSUME MediaInv, At("wait"), UNCHANGED <<flow, site>>,
           wire' \in {wire, NoWire},
           job' \in JobType, job'.at \in {"wait", "download"}, job'.n = job.n,
           job'.base = job.base, job'.missed = job.missed,
           job'.saved = job.saved, job'.limit = job.limit,
           job'.sent = job.sent, job'.kept = job.kept,
           job'.found \subseteq Own
    PROVE  MediaInv'
<1>1. job.at = "wait" /\ job.at \in Onward
    BY DEF At, Onward
<1>2. /\ MediaTypes /\ job.n # 0 /\ ~job.limit /\ job.sent
      /\ Qwen => site.history = {}
    BY <1>1 DEF MediaInv, PathInv, At
<1>3. MediaTypes'
    BY <1>2, NoWireType DEF MediaTypes
<1>4. PathInv'
    BY <1>2 DEF PathInv, Onward, Qwen, At
<1>5. wire'.known \subseteq {job'.n} /\ wire'.urls \subseteq ItemsOf(job'.n)
    BY DEF MediaInv, OwnInv, NoWire
<1>6. OwnInv'
    BY <1>1, <1>5 DEF MediaInv, OwnInv, Own, At, Qwen
<1>7. NewsInv' /\ OpenedInv' /\ LimitIsOwn'
    BY <1>1, <1>2 DEF MediaInv, NewsInv, OpenedInv, LimitIsOwn, Qwen, At
<1> QED
    BY <1>3, <1>4, <1>6, <1>7 DEF MediaInv

\* The refusal that ends Qwen's wait is of this prompt, or on a page that the
\* pool should have replaced.
LEMMA RefusedNext ==
    ASSUME MediaInv, At("wait"), UNCHANGED <<flow, site>>,
           wire' \in {wire, NoWire},
           NEW what \in {"limit", "fail"}, NEW j \in Jobs,
           Qwen => j = job.n \/ job.kept,
           job' = Refused(job, what, j)
    PROVE  MediaInv'
<1> DEFINE why == IF what = "limit" THEN "limit" ELSE "failed"
           u == Raise(job, why)
<1>1. job.at = "wait" /\ job.at \in Onward
    BY DEF At, Onward
<1>2. /\ job \in JobType /\ site \in SiteType /\ job.n # 0
      /\ Qwen => site.history = {}
    BY <1>1, OnTheWay
<1>3. /\ u \in JobType /\ u.at \in {"idle", "leave"} /\ u.n = job.n
      /\ u.kept = job.kept /\ u.found = {} /\ u.saved = {}
    BY <1>2, RaiseFacts DEF Messages
<1>4. job' = [u EXCEPT !.limit = what = "limit", !.source = j]
    BY DEF Refused
<1> HIDE DEF u
<1>5. /\ job' \in JobType /\ job'.at = u.at /\ job'.n = u.n
      /\ job'.kept = u.kept /\ job'.found = u.found /\ job'.saved = u.saved
      /\ job'.source = j
    BY <1>3, <1>4 DEF JobType
<1> QED
    BY <1>2, <1>3, <1>5, Stopped

\* Seedream's error surfaces may end a wait with anybody's news.
LEMMA SurfaceNext ==
    ASSUME MediaInv, At("wait"), UNCHANGED <<flow, site>>,
           wire' \in {wire, NoWire}, ~Qwen, ErrorSurface
    PROVE  MediaInv'
<1>1. PICK what \in {"limit", "fail"}, j \in 1 .. job.n :
        job' = Refused(job, what, j)
    BY DEF ErrorSurface
<1>2. j \in Jobs
    BY MediaAssumption DEF MediaInv, MediaTypes, JobType, Jobs
<1> QED
    BY <1>1, <1>2, RefusedNext

\* A poll keeps what is the job's, and fails only on this prompt's account.
LEMMA PollNext == ASSUME MediaInv, Poll PROVE MediaInv'
<1>1. /\ At("wait") /\ UNCHANGED <<flow, site>>
      /\ wire' \in {wire, NoWire}
      /\ job.at = "wait" /\ job.at \in Onward
    BY DEF Poll, StopListening, At, Onward
<1>2. /\ job \in JobType /\ site \in SiteType /\ job.n # 0 /\ ~job.limit
      /\ Qwen => site.history = {}
    BY <1>1, OnTheWay
<1>3. /\ FoundNow \subseteq Own /\ FoundNow \subseteq Items
      /\ job.found \subseteq Own /\ job.found \subseteq Items
    BY <1>1, <1>2, FoundIsOwn DEF MediaInv, OwnInv, JobType
<1>4. /\ Go(job) \in JobType
      /\ Go(job).at = "download" /\ Go(job).n = job.n
      /\ Go(job).kept = job.kept /\ Go(job).base = job.base
      /\ Go(job).found = job.found /\ Go(job).sent = job.sent
      /\ Go(job).saved = job.saved /\ Go(job).limit = job.limit
      /\ Go(job).missed = job.missed
    BY <1>1, <1>2, GoFacts DEF After
<1>5. ASSUME NEW all \in SUBSET Own, all \subseteq Items, NEW again \in BOOLEAN,
             job' = [job EXCEPT !.found = all, !.same = again]
      PROVE  MediaInv'
  <2>1. /\ job' \in JobType /\ job'.at = "wait" /\ job'.n = job.n
        /\ job'.base = job.base /\ job'.missed = job.missed
        /\ job'.saved = job.saved /\ job'.limit = job.limit
        /\ job'.sent = job.sent /\ job'.kept = job.kept
        /\ job'.found = all
      BY <1>1, <1>2, <1>5 DEF JobType
  <2> QED
      BY <1>1, <2>1, Waited
<1>6. ASSUME NEW all \in SUBSET Own, all \subseteq Items,
             job' = [Go(job) EXCEPT !.found = all]
      PROVE  MediaInv'
  <2>1. /\ job' \in JobType /\ job'.at = "download" /\ job'.n = job.n
        /\ job'.base = job.base /\ job'.missed = job.missed
        /\ job'.saved = job.saved /\ job'.limit = job.limit
        /\ job'.sent = job.sent /\ job'.kept = job.kept
        /\ job'.found = all
      BY <1>4, <1>6 DEF JobType
  <2> QED
      BY <1>1, <2>1, Waited
<1>7. CASE PollQwen
  <2>1. CASE job' = Raise(job, "failed")
    <3>1. /\ job' \in JobType /\ job'.at \in {"idle", "leave"}
          /\ job'.n = job.n /\ job'.found = {} /\ job'.saved = {} /\ ~job'.limit
        BY <1>2, <2>1, RaiseFacts DEF Messages
    <3> QED
        BY <1>1, <1>2, <3>1, Stopped
  <2>2. CASE job' = Refused(job, site.says, site.by) /\ BadNews
    <3>1. site.says \in {"limit", "fail"} /\ site.by \in Jobs
        BY <1>2, <2>2 DEF BadNews, SiteType
    <3>2. Qwen => site.by = job.n \/ job.kept
        BY <1>1, <3>1, MediaAssumption DEF MediaInv, NewsInv
    <3> QED
        BY <1>1, <2>2, <3>1, <3>2, RefusedNext
  <2>3. CASE job' = Go(job)
      BY <1>1, <1>3, <1>4, <2>3, Waited
  <2>4. CASE \/ job' = [job EXCEPT !.found = FoundNow,
                                   !.same = FoundNow = job.found]
             \/ job' = [job EXCEPT !.found = {}, !.same = FALSE]
      BY <1>3, <1>5, <2>4
  <2> QED
      BY <1>7, <2>1, <2>2, <2>3, <2>4 DEF PollQwen
<1>8. CASE PollVideo
  <2>1. ASSUME NEW i \in FoundNow, job' = [Go(job) EXCEPT !.found = {i}]
        PROVE  MediaInv'
      BY <1>3, <1>6, <2>1
  <2>2. CASE ErrorSurface
      BY <1>1, <1>8, <2>2, SurfaceNext DEF PollVideo, Qwen
  <2>3. CASE job' = job
      BY <1>1, <1>2, <1>3, <2>3, Waited
  <2> QED
      BY <1>8, <2>1, <2>2, <2>3 DEF PollVideo
<1>9. CASE PollImages
  <2> DEFINE all == job.found \cup FoundNow
  <2>1. all \subseteq Own /\ all \subseteq Items
      BY <1>3
  <2>2. CASE ErrorSurface
      BY <1>1, <1>9, <2>2, SurfaceNext DEF PollImages, Qwen
  <2>3. CASE job' = [Go(job) EXCEPT !.found = all]
      BY <1>6, <2>1, <2>3
  <2>4. CASE job' = [job EXCEPT !.found = all, !.same = all # {}]
      BY <1>5, <2>1, <2>4
  <2> QED
      BY <1>9, <2>2, <2>3, <2>4 DEF PollImages
<1> QED
    BY <1>7, <1>8, <1>9 DEF Poll

\* The deadline passes, and the last poll counts.
LEMMA DeadlineNext == ASSUME MediaInv, TimedOut \/ Deadline PROVE MediaInv'
<1>1. /\ At("wait") /\ UNCHANGED <<flow, site>>
      /\ wire' \in {wire, NoWire}
      /\ job.at = "wait" /\ job.at \in Onward
    BY DEF TimedOut, Deadline, StopListening, At, Onward
<1>2. job \in JobType /\ job.found \subseteq Own
    BY <1>1, OnTheWay DEF MediaInv, OwnInv
<1>3. /\ job' \in JobType /\ job'.at \in {"wait", "download"} /\ job'.n = job.n
      /\ job'.base = job.base /\ job'.missed = job.missed
      /\ job'.saved = job.saved /\ job'.limit = job.limit
      /\ job'.sent = job.sent /\ job'.kept = job.kept
      /\ job'.found = job.found
  <2>1. CASE job' = Go(job)
      BY <1>1, <1>2, <2>1, GoFacts DEF After
  <2>2. CASE job' = [job EXCEPT !.expired = TRUE]
      BY <1>1, <1>2, <2>2 DEF JobType
  <2> QED
      BY <2>1, <2>2 DEF TimedOut, Deadline
<1> QED
    BY <1>1, <1>2, <1>3, Waited

\* What is downloaded was found.
LEMMA DownloadNext == ASSUME MediaInv, Download PROVE MediaInv'
<1>1. /\ job.at = "download" /\ UNCHANGED <<flow, site, wire>>
      /\ MediaTypes /\ PathInv /\ OwnInv
    BY DEF Download, At, MediaInv
<1>2. PICK i \in job.found, ok \in BOOLEAN :
        job' = [job EXCEPT !.found = @ \ {i},
                           !.saved = IF ok THEN @ \cup {i} ELSE @,
                           !.message = IF Qwen /\ ~ok THEN "unsaved" ELSE @]
    BY DEF Download
<1>3. /\ job' \in JobType /\ job'.at = "download" /\ job'.n = job.n
      /\ job'.missed = job.missed /\ job'.limit = job.limit
      /\ job'.found \subseteq job.found /\ job'.saved \subseteq job.saved \cup {i}
    BY <1>1, <1>2 DEF MediaTypes, JobType, Messages
<1>4. MediaTypes'
    BY <1>1, <1>3 DEF MediaTypes
<1>5. PathInv'
    BY <1>1, <1>3 DEF PathInv, Onward, Qwen
<1>6. OwnInv'
    BY <1>1, <1>3 DEF OwnInv, Own, At
<1>7. NewsInv' /\ OpenedInv' /\ LimitIsOwn'
    BY <1>1, <1>3 DEF NewsInv, OpenedInv, LimitIsOwn, PathInv, At
<1> QED
    BY <1>4, <1>5, <1>6, <1>7 DEF MediaInv

\* The call returns, and the tool is left.
LEMMA RespondNext == ASSUME MediaInv, Respond \/ Leave PROVE MediaInv'
<1>1. /\ job \in JobType /\ site \in SiteType /\ wire \in WireType
      /\ Qwen => site.history = {}
      /\ job.at \in {"download", "leave"} /\ job.n # 0
      /\ job.at # "leave" => ~job.limit
      /\ LimitIsOwn
    BY DEF Respond, Leave, At, MediaInv, MediaTypes, PathInv
<1>2. CASE Respond
  <2>1. PICK said \in Messages :
          job' = [job EXCEPT !.at = Final, !.found = {}, !.base = {},
                             !.message = said]
    <3>1. \E said \in Messages :
            [job EXCEPT !.at = Final, !.found = {}, !.base = {},
               !.message = CASE job.saved # {} -> None
                             [] job.saved = {} /\ job.message = None ->
                                  IF Qwen /\ site.says # None THEN "text"
                                                              ELSE "timeout"
                             [] OTHER -> @]
              = [job EXCEPT !.at = Final, !.found = {}, !.base = {},
                            !.message = said]
        BY <1>1 DEF JobType, Messages
    <3> QED
        BY <1>2, <3>1 DEF Respond
  <2>2. /\ job' \in JobType /\ job'.at \in {"idle", "leave"}
        /\ job'.n = job.n /\ job'.found = {} /\ job'.saved = job.saved
        /\ job'.missed = job.missed /\ job'.limit = job.limit
        /\ job'.source = job.source /\ job'.kept = job.kept
      BY <1>1, <2>1 DEF JobType, Steps, Final
  <2> QED
      BY <1>1, <1>2, <2>2, Stopped DEF Respond, LimitIsOwn, Qwen
<1>3. CASE Leave
  <2>1. /\ job' = [job EXCEPT !.at = "idle"] /\ wire' = NoWire
        /\ UNCHANGED <<flow, site>>
      BY <1>3 DEF Leave
  <2>3. /\ job' \in JobType /\ job'.at = "idle"
        /\ job'.n = job.n /\ job'.found = job.found /\ job'.saved = job.saved
        /\ job'.missed = job.missed /\ job'.limit = job.limit
        /\ job'.source = job.source /\ job'.kept = job.kept
      BY <1>1, <2>1 DEF JobType, Steps
  <2>4. job.found = {}
      BY <1>3, <1>1 DEF MediaInv, PathInv, Leave, At
  <2> QED
      BY <1>1, <2>1, <2>3, <2>4, Stopped DEF LimitIsOwn, Qwen
<1> QED
    BY <1>2, <1>3

-----------------------------------------------------------------------------
(* The next job            *)

\* The next job has nothing yet, and nothing is reported for it.
LEMMA BeginNext == ASSUME MediaInv, Begin PROVE MediaInv'
<1>1. /\ job \in JobType /\ site \in SiteType /\ job.at = "idle"
      /\ flow \in AllFlows /\ flow' = flow /\ wire' = NoWire
      /\ job.n < MaxJobs
    BY DEF Begin, At, MediaInv, MediaTypes
<1>2. PICK fresh \in BOOLEAN, stay \in BOOLEAN :
         /\ site' = IF fresh /\ ~stay THEN Load(site) ELSE site
         /\ job' = [NoJob EXCEPT !.n = job.n + 1, !.at = "open", !.fresh = fresh,
                                 !.kept = stay]
    BY DEF Begin
<1>3. job.n + 1 \in Jobs /\ job.n + 1 # 0 /\ 0 \in Jobs
    BY <1>1, MediaAssumption DEF JobType, Jobs
<1>4. /\ job' \in JobType /\ job'.at = "open" /\ job'.n # 0
      /\ job'.found = {} /\ job'.saved = {} /\ ~job'.sent /\ ~job'.limit
      /\ job'.fresh = fresh /\ job'.kept = stay
    BY <1>1, <1>2, <1>3 DEF NoJob, JobType, Steps, Messages
<1>5. site' \in SiteType /\ (Qwen => site'.history = {})
    BY <1>1, <1>2, LoadFacts DEF MediaInv, PathInv
<1>6. MediaTypes'
    BY <1>1, <1>4, <1>5, NoWireType DEF MediaTypes
<1>7. PathInv'
    BY <1>1, <1>4, <1>5 DEF PathInv, Onward, Qwen, At
<1>8. OwnInv'
    BY <1>1, <1>4 DEF OwnInv, NoWire, At
<1>9. NewsInv' /\ OpenedInv' /\ LimitIsOwn'
    BY <1>1, <1>2, <1>4, LoadFacts DEF NewsInv, OpenedInv, LimitIsOwn
<1> QED
    BY <1>6, <1>7, <1>8, <1>9 DEF MediaInv

\* Every step keeps the invariant.
LEMMA MediaStep ==
    ASSUME MediaInv, [MediaNext]_mvars
    PROVE  MediaInv'
<1>1. CASE JobStep
    BY <1>1, OpenNext, EnterToolNext, PrepareNext, BaselineNext, SendNext,
       PollNext, DeadlineNext, DownloadNext, RespondNext DEF JobStep
<1>2. CASE UNCHANGED mvars
    BY <1>2
    DEF mvars, MediaInv, MediaTypes, PathInv, OwnInv, Own, NewsInv, OpenedInv,
        LimitIsOwn, Qwen, At
<1> QED
    BY <1>1, <1>2, SiteNext, WireNext, BeginNext DEF MediaNext

\* A tab that has served no job yet.
LEMMA MediaStart == MediaInit => MediaInv
<1> SUFFICES ASSUME MediaInit PROVE MediaInv
    OBVIOUS
<1>1. /\ flow \in AllFlows /\ wire = NoWire
      /\ job.n = 0 /\ job.at = "idle" /\ job.found = {} /\ job.saved = {}
      /\ ~job.limit /\ site.history = {}
    BY MediaAssumption DEF MediaInit, NoJob
<1>2. site \in SiteType /\ job \in JobType
    BY MediaAssumption DEF MediaInit, NoJob, SiteType, JobType, Jobs, Steps, Messages
<1>3. MediaTypes
    BY <1>1, <1>2, NoWireType DEF MediaTypes
<1>4. PathInv /\ OwnInv /\ NewsInv /\ OpenedInv /\ LimitIsOwn
    BY <1>1 DEF PathInv, Onward, OwnInv, NewsInv, OpenedInv, LimitIsOwn, NoWire, At
<1> QED
    BY <1>3, <1>4 DEF MediaInv

\* In every reachable state of the tab the results on it are accounted for.
THEOREM MediaSafety == MediaSpec => []MediaInv
BY MediaStart, MediaStep, PTL DEF MediaSpec

\* What is saved was made for this prompt, or was an older result that the
\* baseline could not know.
THEOREM SavedIsOwn == MediaSpec => []OwnMedia
<1>1. MediaInv => OwnMedia
    BY DEF MediaInv, OwnInv, Own, OwnMedia
<1> QED
    BY <1>1, MediaSafety, PTL

\* An account of Qwen goes offline only for a limit reported for its own job,
\* or on a page that a failed new chat left there.
THEOREM LimitReportedIsOwn == MediaSpec => []LimitIsOwn
<1>1. MediaInv => LimitIsOwn
    BY DEF MediaInv
<1> QED
    BY <1>1, MediaSafety, PTL
=============================================================================
