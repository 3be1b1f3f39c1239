-------------------------------- MODULE Media --------------------------------
(***************************************************************************)
(* Images and videos made on one tab: _run_media of Qwen with its network  *)
(* capture (media_capture.py) and media tool (media_mode.py), the video    *)
(* and image calls of Seedream, their detectors, and the download of the   *)
(* results (media_fetch.py).  The jobs of the tab come one after the       *)
(* other; the site is external and shows, finishes and says what it likes. *)
(***************************************************************************)
EXTENDS Naturals, FiniteSets

CONSTANTS
    Flows,      \* the provider and kind of the tab's jobs: subset of AllFlows
    Parts,      \* the results one prompt gives
    MaxJobs,    \* bound: jobs on the tab
    ParkLimit,  \* early task statuses that are kept (32)
    Hitches,    \* what may go wrong: subset of AllHitches
    None        \* no text, no status, no message

AllFlows == {"qwen image", "qwen video", "seedream image", "seedream video"}

\* "stay": the pool could not open a new chat, and the tab keeps its old one;
\* "blank": the page may not be readable when the baseline is taken.
AllHitches == {"stay", "blank"}

ASSUME MediaAssumption ==
    /\ Flows \subseteq AllFlows /\ Hitches \subseteq AllHitches
    /\ Parts \subseteq Nat /\ MaxJobs \in Nat /\ ParkLimit \in Nat
    /\ None \notin {"limit", "fail", "text", "running", "success", "failed"}

VARIABLES
    flow,  \* the provider and kind, the same for all jobs
    site,  \* the page: see SiteType
    wire,  \* QwenMediaCapture of the current job: see WireType
    job    \* the current or last job: see JobType

mvars == <<flow, site, wire, job>>

Jobs == 0 .. MaxJobs  \* 0: none yet
Items == (1 .. MaxJobs) \X Parts
ItemsOf(j) == {j} \X Parts

Qwen == flow \in {"qwen image", "qwen video"}
Video == flow \in {"qwen video", "seedream video"}

\* shown: results on the page; ready: the finished ones, on it or not; coming:
\* still to be rendered; history: the account's results that another view
\* shows; says, by: Qwen's latest reply, and the job it answers.
SiteType == [shown : SUBSET Items, ready : SUBSET Items, coming : SUBSET Items,
             history : SUBSET Items, says : {None, "limit", "fail", "text"},
             by : Jobs]

\* known: task_ids; parked: pending_status.
WireType == [known : SUBSET Jobs, parked : [Jobs -> {None, "running", "success", "failed"}],
             urls : SUBSET Items, error : BOOLEAN, on : BOOLEAN]

Steps == {"idle", "open", "tool", "prepare", "baseline", "send", "wait", "download", "leave"}
Messages == {None, "limit", "failed", "unsaved", "text", "timeout", "unsent"}

\* fresh: the pool has opened the chat (fresh_chat_required); found, same: the
\* last poll, and that it found what the one before it found.  missed, kept and
\* source are history: the older results the baseline could not know, that the
\* pool left the old page there, and the job whose text ended the wait.
JobType == [n : Jobs, at : Steps, fresh : BOOLEAN, base : SUBSET Items,
            found : SUBSET Items, same : BOOLEAN, expired : BOOLEAN,
            sent : BOOLEAN, saved : SUBSET Items, limit : BOOLEAN,
            message : Messages, missed : SUBSET Items, kept : BOOLEAN,
            source : Jobs]

NoWire == [known |-> {}, parked |-> [j \in Jobs |-> None], urls |-> {},
           error |-> FALSE, on |-> FALSE]

\* Before the first job.
NoJob == [n |-> 0, at |-> "idle", fresh |-> FALSE, base |-> {}, found |-> {},
          same |-> FALSE, expired |-> FALSE, sent |-> FALSE, saved |-> {},
          limit |-> FALSE, message |-> None, missed |-> {}, kept |-> FALSE,
          source |-> 0]

At(step) == job.at = step
MayHitch(h) == h \in Hitches

\* Qwen's steps, and Seedream's: the one counts what the page shows before the
\* prompt, the other after it, on the view the results are to appear on.
After(step) ==
    CASE step = "open" -> IF Qwen THEN "tool" ELSE "prepare"
      [] step = "tool" -> "baseline"
      [] step = "prepare" -> "send"
      [] step = "baseline" -> IF Qwen THEN "send" ELSE "wait"
      [] step = "send" -> IF Qwen THEN "wait" ELSE "baseline"
      [] step = "wait" -> "download"

Final == IF Qwen THEN "leave" ELSE "idle"
Go(u) == [u EXCEPT !.at = After(u.at), !.same = FALSE, !.expired = FALSE]

\* An exception: Qwen's finally clause still runs.
Raise(u, why) ==
    [u EXCEPT !.at = IF u.at \in {"open", "leave"} THEN "idle" ELSE Final,
              !.message = why, !.saved = {}, !.base = {}, !.found = {},
              !.same = FALSE, !.expired = FALSE, !.missed = {}]

-----------------------------------------------------------------------------
(* The site *)

\* A job's results are rendered in order, and finish in any.
Appear ==
    \E i \in site.coming :
      /\ \A k \in site.coming : k[1] = i[1] => i[2] <= k[2]
      /\ site' = [site EXCEPT !.coming = @ \ {i}, !.shown = @ \cup {i}]

\* A result is made by the service, whether or not a page shows it.
Finish ==
    \E i \in (site.shown \cup site.coming) \ site.ready :
      site' = [site EXCEPT !.ready = @ \cup {i}]

\* Qwen replies to this job's prompt; in a chat that was kept, to an earlier
\* one, too.
Say ==
    /\ Qwen
    /\ \E j \in 1 .. job.n, what \in {"limit", "fail", "text"} :
         /\ j # site.by
         /\ IF j = job.n THEN job.sent ELSE job.kept /\ site.by < j
         /\ site' = [site EXCEPT !.says = what, !.by = j]

\* Nobody looks at the page at other moments.
SiteStep ==
    /\ At("baseline") \/ At("wait")
    /\ Appear \/ Finish \/ Say
    /\ UNCHANGED <<flow, wire, job>>

-----------------------------------------------------------------------------
(* The network: responses while the capture listens *)

\* A task's outcome, once the task is known to be this prompt's.
Outcome(w, j, what) ==
    CASE what = "success" -> [w EXCEPT !.urls = @ \cup ItemsOf(j)]
      [] what = "failed" -> [w EXCEPT !.error = TRUE]
      [] OTHER -> w

\* Mutant of StatusOf: every task on the page counts.
StatusOfAny(w, j, what) == Outcome(w, j, what)

\* _status: "a background task from another conversation cannot become this
\* result" (media_capture.py:4); one that is not known yet waits, and takes a
\* place even while it runs.
StatusOf(w, j, what) ==
    IF j \in w.known THEN Outcome(w, j, what)
    ELSE IF Cardinality({k \in Jobs : w.parked[k] # None}) < ParkLimit
              /\ w.parked[j] # "success"
           THEN [w EXCEPT !.parked[j] = what]
           ELSE w

\* /task/status of this job or of an earlier one.
Status ==
    \E j \in 1 .. job.n, what \in {"running", "success", "failed"} :
      /\ wire.on /\ (j = job.n => job.sent)
      /\ j = job.n /\ what = "success" => ItemsOf(j) \subseteq site.coming \cup site.shown
      /\ wire' = StatusOf(wire, j, what)

\* _completion of the prompt's own request: a task, or the results themselves.
Completion ==
    /\ wire.on /\ job.sent /\ job.n \notin wire.known /\ wire.urls = {}
    /\ \/ LET w == [wire EXCEPT !.known = @ \cup {job.n}, !.parked[job.n] = None]
          IN  wire' = IF wire.parked[job.n] = None THEN w
                      ELSE Outcome(w, job.n, wire.parked[job.n])
       \/ /\ ItemsOf(job.n) \subseteq site.coming \cup site.shown
          /\ wire' = Outcome(wire, job.n, "success")

\* A response that cannot be read is dropped: the step just does not happen.
WireStep == At("wait") /\ (Status \/ Completion) /\ UNCHANGED <<flow, site, job>>

-----------------------------------------------------------------------------
(* Up to the prompt *)

\* Another document.  Seedream's account keeps its results, and shows them
\* with the next ones; a chat of Qwen is left with what it holds.
Load(p) ==
    [p EXCEPT !.shown = {}, !.coming = {}, !.says = None,
              !.ready = IF Qwen THEN {} ELSE @,
              !.history = IF Qwen THEN {} ELSE @ \cup p.shown \cup p.coming]

\* Mutant of Open: the tab keeps the chat it is in.
OpenStays ==
    /\ At("open")
    /\ job' = Go(job)
    /\ UNCHANGED <<flow, site, wire>>

\* new_chat, or _goto_image_home, which fails the job when it fails; a chat the
\* pool has opened is not opened again.
Open ==
    /\ At("open")
    /\ IF job.fresh /\ flow # "seedream image"
         THEN site' = site /\ job' = Go(job)
         ELSE site' \in {site, Load(site)} /\
              job' = IF site' = Load(site) THEN Go(job) ELSE Raise(job, "unsent")
    /\ UNCHANGED <<flow, wire>>

\* _enter_media_mode, verify_temporary_chat, _set_aspect and _upload: the tool
\* is confirmed as selected before anything is sent; each of them may fail.
EnterTool ==
    /\ At("tool")
    /\ job' \in {Go(job), Raise(job, "unsent")}
    /\ UNCHANGED <<flow, site, wire>>

\* Seedream's controls and reference images are best effort: what cannot be
\* set or attached is left out.
Prepare == At("prepare") /\ job' = Go(job) /\ UNCHANGED <<flow, site, wire>>

Older(set) == {i \in set : i[1] # job.n}

\* The older results of which a snapshot may not hold the src that counts:
\* unfinished ones, and those that are still to be rendered.
Unknowable == Older(site.coming \cup (site.shown \ site.ready))

\* Mutant of Known: taken of a view that does not list the older results.
KnownHome(known) == known = {}

\* What a snapshot of the page's srcs knows: a finished result has its own src;
\* an unfinished one has it already or shows a placeholder, and a clip of
\* Seedream always shows the spinner.
Known(known) ==
    /\ site.shown \cap site.ready \subseteq known
    /\ flow = "seedream video" => known \subseteq site.ready

\* capture_media_srcs, capture_video_srcs, capture_image_srcs: every src on the
\* page; none if the page cannot be read.  Seedream's runs on the results view.
Baseline ==
    /\ At("baseline")
    /\ \/ \E known \in SUBSET site.shown :
            /\ Known(known)
            /\ job' = [Go(job) EXCEPT !.base = known, !.missed = Unknowable]
       \/ /\ MayHitch("blank")
          /\ job' = [Go(job) EXCEPT !.missed = Unknowable \cup Older(site.shown)]
    /\ wire' = IF Qwen THEN [NoWire EXCEPT !.on = TRUE] ELSE wire
    /\ UNCHANGED <<flow, site>>

\* enter_prompt and submit_prompt.  The site makes all its results or none; the
\* results view shows the account's earlier ones too.
Send ==
    /\ At("send")
    /\ \/ /\ \E made \in {{}, ItemsOf(job.n)} :
               site' = [site EXCEPT !.coming = @ \cup made \cup site.history,
                                    !.history = {}]
          /\ LET u == [job EXCEPT !.sent = TRUE]
             IN  job' \in {Go(u), Raise(u, "unsent")}
       \/ job' = Raise(job, "unsent") /\ UNCHANGED site
    /\ UNCHANGED <<flow, wire>>

-----------------------------------------------------------------------------
(* Waiting for the results *)

PageResults == site.shown \cap site.ready
FoundNow == (PageResults \cup (IF Qwen THEN wire.urls ELSE {})) \ job.base

\* latest_response_text, in which Qwen's client looks for bad news.
BadNews == site.says \in {"limit", "fail"}

\* The wait ends with bad news about a prompt, right or wrong.
Refused(u, what, j) ==
    [Raise(u, IF what = "limit" THEN "limit" ELSE "failed") EXCEPT
        !.limit = what = "limit", !.source = j]

\* The error surfaces Seedream's poll reads are alerts and the error nodes of
\* result cards, and the view lists the cards of all prompts so far: the news
\* may be about any of them.
ErrorSurface == \E what \in {"limit", "fail"}, j \in 1 .. job.n : job' = Refused(job, what, j)

\* wait_for_new_media: bad news only while there is nothing; the results have
\* settled when two polls agree.
PollQwen ==
    /\ Qwen
    /\ CASE FoundNow # {} ->
              job' \in {[job EXCEPT !.found = FoundNow, !.same = FoundNow = job.found]}
                       \cup (IF FoundNow = job.found /\ job.same THEN {Go(job)} ELSE {})
         [] FoundNow = {} /\ wire.error -> job' = Raise(job, "failed")
         [] FoundNow = {} /\ ~wire.error /\ BadNews -> job' = Refused(job, site.says, site.by)
         [] OTHER -> job' = [job EXCEPT !.found = {}, !.same = FALSE]

\* wait_for_new_video: the first new result ends the wait.
PollVideo ==
    /\ flow = "seedream video"
    /\ IF FoundNow # {} THEN \E i \in FoundNow : job' = [Go(job) EXCEPT !.found = {i}]
       ELSE ErrorSurface \/ UNCHANGED job

\* wait_for_new_images: results add up, and bad news counts even then.
PollImages ==
    /\ flow = "seedream image"
    /\ LET all == job.found \cup FoundNow
       IN  \/ ErrorSurface
           \/ /\ all # {}
              /\ job.same \/ Cardinality(all) >= Cardinality(Parts)
              /\ job' = [Go(job) EXCEPT !.found = all]
           \/ job' = [job EXCEPT !.found = all, !.same = all # {}]

\* What the capture hears after the wait is not used.
StopListening == wire' = IF job'.at = "wait" THEN wire ELSE NoWire

Poll ==
    /\ At("wait") /\ ~job.expired
    /\ PollQwen \/ PollVideo \/ PollImages
    /\ StopListening
    /\ UNCHANGED <<flow, site>>

\* Mutant of TimedOut: only a job that has found something stops at the deadline.
TimedOutFound ==
    /\ At("wait") /\ job.expired /\ job.found # {}
    /\ job' = Go(job)
    /\ StopListening
    /\ UNCHANGED <<flow, site>>

\* At the deadline the last poll counts.
TimedOut ==
    /\ At("wait") /\ job.expired
    /\ job' = Go(job)
    /\ StopListening
    /\ UNCHANGED <<flow, site>>

Deadline ==
    /\ At("wait") /\ ~job.expired
    /\ job' = [job EXCEPT !.expired = TRUE]
    /\ UNCHANGED <<flow, site, wire>>

-----------------------------------------------------------------------------
(* The results *)

\* download_media, extract_video, extract_image: a file, or nothing after all
\* transports failed.  A job for a clip stops at its first file.
Download ==
    /\ At("download") /\ job.found # {} /\ (Video => job.saved = {})
    /\ \E i \in job.found, ok \in BOOLEAN :
         job' = [job EXCEPT !.found = @ \ {i},
                            !.saved = IF ok THEN @ \cup {i} ELSE @,
                            !.message = IF Qwen /\ ~ok THEN "unsaved" ELSE @]
    /\ UNCHANGED <<flow, site, wire>>

\* What the caller is told: nothing with results; "unsaved" if there were some;
\* else what the page says, or that the time is up.
Respond ==
    /\ At("download") /\ (job.found = {} \/ (Video /\ job.saved # {}))
    /\ job' = [job EXCEPT !.at = Final, !.found = {}, !.base = {},
                 !.message = CASE job.saved # {} -> None
                               [] job.saved = {} /\ job.message = None ->
                                    IF Qwen /\ site.says # None THEN "text" ELSE "timeout"
                               [] OTHER -> @]
    /\ UNCHANGED <<flow, site, wire>>

\* _leave_media_mode: best effort.
Leave ==
    /\ At("leave")
    /\ wire' = NoWire
    /\ job' = [job EXCEPT !.at = "idle"]
    /\ UNCHANGED <<flow, site>>

JobStep ==
    \/ Open \/ EnterTool \/ Prepare \/ Baseline \/ Send \/ Poll \/ TimedOut \/ Deadline
    \/ Download \/ Respond \/ Leave

\* The next job gets the tab as it is.  When the pool is to open the chat it
\* has done so by now, or has failed to.
Begin ==
    /\ At("idle") /\ job.n < MaxJobs
    /\ \E fresh, stay \in BOOLEAN :
         /\ stay => fresh /\ MayHitch("stay")
         /\ site' = IF fresh /\ ~stay THEN Load(site) ELSE site
         /\ job' = [NoJob EXCEPT !.n = job.n + 1, !.at = "open", !.fresh = fresh,
                                 !.kept = stay]
    /\ wire' = NoWire
    /\ UNCHANGED flow

-----------------------------------------------------------------------------
MediaInit ==
    /\ flow \in Flows
    /\ site = [shown |-> {}, ready |-> {}, coming |-> {}, history |-> {},
               says |-> None, by |-> 0]
    /\ wire = NoWire
    /\ job = NoJob

MediaNext == SiteStep \/ WireStep \/ JobStep \/ Begin

\* The client's task runs and its clock goes on; the site owes nothing.
MediaSpec == MediaInit /\ [][MediaNext]_mvars /\ WF_mvars(JobStep) /\ WF_mvars(Deadline)

-----------------------------------------------------------------------------
(* Properties *)

\* What is saved was made for this prompt: "a background task from another
\* conversation cannot become this result" (media_capture.py:4), nor can "a
\* reused tab's PRIOR finished clips" (seedream/client.py:309), or any result
\* that was finished and on the page when the baseline was taken of it.
OwnMedia == job.saved \subseteq ItemsOf(job.n) \cup job.missed

\* Qwen's account goes offline only for a limit that was reported for this job,
\* or by a text on the page that the pool failed to replace.  Of Seedream's
\* accounts this is not true: they go offline again for an old card.
LimitIsOwn == Qwen /\ job.limit => job.source = job.n \/ job.kept

\* Every media job ends, whatever the site shows.
JobEnds == ~At("idle") ~> At("idle")
=============================================================================
