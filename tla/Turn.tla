-------------------------------- MODULE Turn --------------------------------
(***************************************************************************)
(* send_message of the chat clients: one prompt is sent on a tab and its   *)
(* reply is read from the page.  Each provider is a script of the steps    *)
(* below; "text" is TextChatClient with DeepSeek's detector.  The other    *)
(* tabs only copy replies, through the same clipboard.                     *)
(***************************************************************************)
EXTENDS Page, Sequences

CONSTANTS
    Providers,    \* the providers to model, of AllProviders
    StablePolls,  \* equal readings that settle a reply (4, or 3 by text)
    MaxTries,     \* extractions of one reply (4 in ChatGPT, 3 in Claude)
    MaxCalls      \* bound: calls of send_message on the tab

AllProviders == {"chatgpt", "claude", "text", "qwen", "gemini", "grok"}

\* What send_message raises instead of returning a reply.
Reasons == {"unsent", "uncertain", "noturn", "temporary", "nofiles",
            "broken", "empty"}

\* Every content below is one a turn may hold; a turn shows its copy button
\* when it is complete.
ASSUME TurnAssumption ==
    /\ Providers \subseteq AllProviders
    /\ StablePolls \in Nat \ {0} /\ MaxTries \in Nat \ {0} /\ MaxCalls \in Nat
    /\ {"old"} \cup Growing \cup Final \subseteq Contents
    /\ Copyable \cap Growing = {}
    /\ None \notin Reasons

VARIABLES
    prov,  \* the provider of Me
    turn   \* where its send_message is: see TurnType

tvars == <<newest, clipVars, page, call, client, prov, turn>>

\* at: position in the script, 0 between calls; base and blind: the count of
\* turns before the prompt, and whether an older turn was still to come then;
\* seen and same: the last reading, and how many like it came in a row;
\* expired: the deadline of the current wait has passed; cut: history, the
\* reply was read after a deadline or a page error.
TurnType == [at : Nat, base : Nat, blind : BOOLEAN,
             seen : Contents \cup {None}, same : 0 .. StablePolls,
             expired : BOOLEAN, tries : 0 .. MaxTries, cut : BOOLEAN,
             result : Contents \cup Reasons \cup {None}, n : 0 .. MaxCalls]

-----------------------------------------------------------------------------
(* The scripts *)

\* The page may be found broken whenever it is looked at.
Broken == "broken" \in Quirks

ChatGPTScript ==
    <<"open", "render", "health", "pick", "baseline", "verify", "upload", "enter",
      "probe", "submit", "press", "ack",
      "copyable", "stopped", "stable", "images", "extract">>

ClaudeScript ==
    <<"open", "render", "baseline", "verify", "upload", "verify", "enter",
      "submit", "press", "ack", "streamed", "copyable", "stable", "extract">>

TextScript ==
    <<"open", "render", "pick", "select", "verify", "baseline", "upload", "enter",
      "submit", "press", "ack", "appear", "settle", "read">>

\* Every chat reconciles the modes again: a media request may have left one.
QwenScript ==
    <<"open", "render", "forget", "pick", "select", "verify", "baseline",
      "upload", "enter", "submit", "press", "ack", "appear", "settle", "read">>

GeminiScript ==
    <<"open", "render", "pick", "select", "verify", "baseline", "upload", "enter",
      "submit", "press", "ack", "confirm", "appear", "settle", "read", "redo",
      "resettle", "images">>

GrokScript ==
    <<"open", "render", "pick", "select", "verify", "baseline", "upload", "enter",
      "submit", "press", "ack", "appear", "settle", "read", "images">>

Script == [chatgpt |-> ChatGPTScript, claude |-> ClaudeScript,
           text |-> TextScript, qwen |-> QwenScript, gemini |-> GeminiScript,
           grok |-> GrokScript]

In(step) == turn.at > 0 /\ Script[prov][turn.at] = step

Reset(u) == [u EXCEPT !.seen = None, !.same = 0, !.expired = FALSE, !.tries = 0]
Ahead(u) == [Reset(u) EXCEPT !.at = @ + 1]
Jump(u, step) ==
    [Reset(u) EXCEPT !.at = CHOOSE i \in DOMAIN Script[prov] : Script[prov][i] = step]
Done(u, r) == [Reset(u) EXCEPT !.at = 0, !.result = r]

\* What a step touches besides `turn`.
NoPage == UNCHANGED <<newest, clipVars, page, client, call, prov>>
ThePage == UNCHANGED <<newest, clipVars, client, call, prov>>

-----------------------------------------------------------------------------
(* Before the prompt *)

\* ChatGPT's new_chat takes a page that shows no turn for a new chat.
LooksFresh == prov = "chatgpt" /\ ~call.temp /\ page.turns = 0

\* new_chat.  One that cannot be opened leaves the tab where it is, unless the
\* caller needs a temporary one.
NewChat ==
    \/ /\ CASE call.temp -> StartTemporary /\ Show(None)
            [] LooksFresh -> UNCHANGED <<page, client, newest>>
            [] OTHER -> page' = Load(page, FALSE) /\ Show(None) /\ UNCHANGED client
       /\ turn' = Ahead(turn)
    \/ /\ Broken
       /\ turn' = IF call.temp THEN Done(turn, "temporary") ELSE Ahead(turn)
       /\ UNCHANGED <<page, client, newest>>

\* navigate_to_thread loads the conversation; its turns render later.
OpenThread ==
    /\ page' = Load(page, TRUE) /\ Show(None)
    /\ turn' = Ahead(turn) /\ UNCHANGED client

Open ==
    /\ In("open")
    /\ CASE call.move = "fresh" -> NewChat
         [] call.move = "thread" -> OpenThread
         [] call.move = "stay" -> turn' = Ahead(turn) /\ UNCHANGED <<page, client, newest>>
    /\ call' = [call EXCEPT !.move = "stay"]
    /\ UNCHANGED <<clipVars, prov>>

\* The conversation must have rendered before its turns are counted; the wait
\* is bounded, and Claude's client does not wait at all.
Rendered ==
    /\ In("render")
    /\ ~page.hidden \/ "slow" \in Quirks \/ prov = "claude"
    /\ turn' = Ahead(turn)
    /\ NoPage

\* _detect_page_error
Health ==
    /\ In("health")
    /\ \/ turn' = Ahead(turn)
       \/ Broken /\ turn' = Done(turn, "broken")
    /\ NoPage

Forget ==
    /\ In("forget")
    /\ client' = [client EXCEPT !.synced = FALSE]
    /\ turn' = Ahead(turn)
    /\ UNCHANGED <<newest, clipVars, page, call, prov>>

Pick ==
    /\ In("pick")
    /\ page' \in PickModel(page)
    /\ newest' = [newest EXCEPT ![Me] = IF page'.turns = 0 THEN None ELSE @]
    /\ turn' = Ahead(turn)
    /\ UNCHANGED <<clipVars, client, call, prov>>

Select ==
    /\ In("select")
    /\ SelectModes
    /\ turn' = Ahead(turn)
    /\ UNCHANGED <<newest, clipVars, call, prov>>

Verify ==
    /\ In("verify")
    /\ turn' = IF TemporaryOK THEN Ahead(turn) ELSE Done(turn, "temporary")
    /\ NoPage

Older == page.hidden \/ page.backlog

\* Mutant of Baseline: the count of turns is forgotten.
BaselineZero ==
    /\ In("baseline")
    /\ turn' = [Ahead(turn) EXCEPT !.base = 0, !.blind = Older]
    /\ NoPage

\* pre_count, or the signature of the newest turn.  A DOM detector that cannot
\* count on a broken page counts nothing.
Baseline ==
    /\ In("baseline")
    /\ \/ turn' = [Ahead(turn) EXCEPT !.base = page.turns, !.blind = Older]
       \/ /\ Broken /\ prov \notin {"chatgpt", "claude"}
          /\ turn' = [Ahead(turn) EXCEPT !.base = 0, !.blind = page.turns > 0 \/ Older]
    /\ NoPage

\* Gemini and Grok send without the files they could not attach; the others
\* fail.
Upload ==
    /\ In("upload")
    /\ \/ turn' = Ahead(turn)
       \/ prov \notin {"gemini", "grok"} /\ turn' = Done(turn, "nofiles")
    /\ NoPage

-----------------------------------------------------------------------------
(* The prompt *)

\* enter_prompt: two attempts to have the composer hold the whole prompt.
Enter ==
    /\ In("enter")
    /\ \/ page' = [page EXCEPT !.draft = "whole"] /\ turn' = Ahead(turn)
       \/ /\ page' = [page EXCEPT !.draft = "part"]
          /\ turn' = IF turn.tries = 0 THEN [turn EXCEPT !.tries = 1]
                                       ELSE Done(turn, "unsent")
    /\ ThePage

\* ChatGPT's guard against a page that submits by itself.
MoreTurns == page.turns > turn.base

Probe ==
    /\ In("probe")
    /\ turn' = IF MoreTurns THEN Jump(turn, "copyable") ELSE Ahead(turn)
    /\ NoPage

Submit ==
    /\ In("submit")
    /\ turn' = IF MayPress THEN Ahead(turn) ELSE Done(turn, "unsent")
    /\ NoPage

\* The button is pressed, or never gets ready; the page may ignore the click,
\* and the click may fail with the prompt sent or not.
PressSend ==
    /\ In("press")
    /\ \/ page' \in {page, Press(page)} /\ turn' \in {Ahead(turn), Done(turn, "uncertain")}
       \/ UNCHANGED page /\ turn' = Done(turn, "unsent")
    /\ ThePage

\* Mutant of Ack: a click that is not acknowledged is repeated.
AckAgain ==
    /\ In("ack")
    /\ \/ (Acknowledged \/ page.sent > 0) /\ turn' = Ahead(turn)
       \/ ~Acknowledged /\ turn.expired /\ turn' = Jump(turn, "press")
    /\ NoPage

Ack ==
    /\ In("ack")
    /\ \/ (Acknowledged \/ page.sent > 0) /\ turn' = Ahead(turn)
       \/ ~Acknowledged /\ turn.expired /\ turn' = Done(turn, "uncertain")
    /\ NoPage

\* Deep Research shows a plan first; without a button the client goes on.
Confirm == In("confirm") /\ turn' = Ahead(turn) /\ NoPage

-----------------------------------------------------------------------------
(* Waiting for the reply *)

\* Mutant of NewTurn: any turn will do.
AnyTurn == page.turns > 0

\* ChatGPT and Claude compare the signature of the newest turn; without a
\* turn before the prompt every turn is new.
NewTurn == page.turns > 0 /\ (turn.base > 0 => page.turns # turn.base)

\* ChatGPT looks for images before it reads the text.
Reading == IF prov = "chatgpt" THEN "images" ELSE "extract"

Complete(u) == Jump(u, Reading)

\* The deadline passed: a new turn is extracted all the same.
Incomplete(u) == IF NewTurn THEN [Jump(u, Reading) EXCEPT !.cut = TRUE]
                            ELSE Done(u, "noturn")

GiveWay(u) == [Ahead(u) EXCEPT !.cut = TRUE]

\* One strategy of wait_for_response_complete: it succeeds, or gives way to
\* the next at the deadline or on a page error.
Strategy(step, success, onTimeout) ==
    /\ In(step)
    /\ \/ success /\ turn' = Complete(turn)
       \/ ~success /\ turn.expired /\ turn' = onTimeout
       \/ ~success /\ Broken /\ prov = "chatgpt" /\ step = "copyable"
          /\ turn' = GiveWay(turn)
    /\ NoPage

Copyable_ == NewTurn /\ newest[Me] \in Copyable \cup {"image"}

\* ChatGPT's strategies share one deadline; Claude gives each its own.
WaitCopyable ==
    Strategy("copyable", Copyable_,
             IF prov = "claude" THEN GiveWay(turn) ELSE Incomplete(turn))

WaitStreamed ==
    Strategy("streamed", NewTurn /\ newest[Me] \notin Growing \cup {None}, GiveWay(turn))

WaitStopped == Strategy("stopped", turn.seen = "part" /\ ~page.stop, Incomplete(turn))

\* The stop button shows, and its end is waited for; or it never shows.
SeeStop ==
    /\ In("stopped") /\ turn.seen = None
    /\ turn' = IF page.stop THEN [turn EXCEPT !.seen = "part"] ELSE Ahead(turn)
    /\ NoPage

Steady == turn.same = StablePolls

WaitStable ==
    Strategy("stable", Steady /\ turn.seen # "status", Incomplete(turn))

\* The shared DOM detector and those of Gemini and Grok: a new turn appears.
Appear ==
    /\ In("appear")
    /\ MoreTurns \/ turn.expired
    /\ turn' = IF MoreTurns THEN Ahead(turn) ELSE Done(turn, "noturn")
    /\ NoPage

\* Mutant of Streaming: nobody looks at the stop button.
StreamingUnseen == FALSE

\* DeepSeek's detector passes no stop button to the shared one.
Streaming == page.stop /\ prov # "text"

\* Image requests wait for the image; Gemini and Grok count the turns again.
NotYet == \/ Streaming
          \/ prov \in {"gemini", "grok"} /\
               (~MoreTurns \/ (call.image /\ newest[Me] # "image"))

\* One poll of the newest turn, in text stability and in the DOM detectors.
Poll ==
    /\ In("stable") \/ In("settle") \/ In("resettle")
    /\ ~Steady
    /\ LET c == newest[Me]
           bad == IF In("stable") THEN ~NewTurn ELSE NotYet
       IN  turn' = IF bad \/ c = None THEN [turn EXCEPT !.seen = None, !.same = 0]
                   ELSE IF c = turn.seen THEN [turn EXCEPT !.same = @ + 1]
                   ELSE [turn EXCEPT !.seen = c, !.same = 0]
    /\ NoPage

Settle ==
    /\ In("settle")
    /\ Steady \/ turn.expired
    /\ turn' = IF Steady THEN Ahead(turn) ELSE Done(turn, "noturn")
    /\ NoPage

\* Qwen also reads the reply off the network, when the request was seen.
Network ==
    /\ prov = "qwen" /\ (In("appear") \/ In("settle"))
    /\ page.replied /\ newest[Me] = "whole"
    /\ turn' = Done(turn, "whole")
    /\ NoPage

\* Mutant of Waits: the loop that waits for the turn to settle has no end.
WaitsForever == {"ack", "copyable", "streamed", "stopped", "stable", "appear"}

Waits == {"ack", "copyable", "streamed", "stopped", "stable", "appear", "settle",
          "resettle"}

Deadline ==
    /\ turn.at > 0 /\ Script[prov][turn.at] \in Waits /\ ~turn.expired
    /\ turn' = [turn EXCEPT !.expired = TRUE]
    /\ NoPage

-----------------------------------------------------------------------------
(* Reading the reply *)

\* extract_latest_response of the DOM detectors; Gemini and Grok look for
\* images then.
Read ==
    /\ In("read")
    /\ LET text == IF newest[Me] = None THEN "empty" ELSE newest[Me]
       IN  turn' = IF prov \in {"gemini", "grok"}
                     THEN [Ahead(turn) EXCEPT !.result = text]
                     ELSE Done(turn, text)
    /\ NoPage

\* _upgrade_to_nano_banana_pro: a menu entry, where the account has it, makes
\* the image again, in its turn or in another; the same wait follows, for a turn
\* that is there already, and nobody asks how it ended.
Redo ==
    /\ In("redo")
    /\ \/ turn' = Jump(turn, "images") /\ UNCHANGED <<page, newest>>
       \/ /\ call.image /\ newest[Me] # None
          /\ turn' = [Ahead(turn) EXCEPT !.base = page.turns - 1]
          /\ \/ UNCHANGED <<page, newest>>
             \/ newest[Me] = "image" /\ Show("part")
                /\ page' \in {[page EXCEPT !.stop = TRUE],
                              [page EXCEPT !.stop = TRUE, !.turns = 3]}
    /\ UNCHANGED <<clipVars, client, call, prov>>

Resettle ==
    /\ In("resettle")
    /\ Steady \/ turn.expired \/ Broken
    /\ turn' = Ahead(turn)
    /\ NoPage

\* detect_images_in_response.  The newest turn that is there may be an earlier
\* one, and that may have pictures.
Pictured == newest[Me] \in {"image", "old"}

\* extract_images_from_response looks again when the caller expects an image;
\* an image that could not be downloaded is returned without its file.
Images ==
    /\ In("images") /\ prov = "chatgpt"
    /\ \/ Pictured /\ turn' = Done(turn, newest[Me])
       \/ /\ newest[Me] # "image"
          /\ turn' = IF call.image /\ turn.tries + 1 < MaxTries
                       THEN [turn EXCEPT !.tries = @ + 1] ELSE Ahead(turn)
    /\ NoPage

\* _extract_images of Gemini and Grok: a picture that could not be saved is left
\* out, and the text is the reply.
SavedImages ==
    /\ In("images") /\ prov # "chatgpt"
    /\ \/ Pictured /\ turn' = Done(turn, newest[Me])
       \/ turn' = Done(turn, turn.result)
    /\ NoPage

Stale == turn.base > 0 /\ page.turns = turn.base

\* The copy step runs: see Clipboard.  Its first step is remembered in seen.
Copy ==
    /\ In("extract")
    /\ CopyStep(Me, Stale, newest[Me] = "status" /\ prov = "chatgpt")
    /\ copying[Me] = "idle" => turn.seen = None
    /\ turn' = [turn EXCEPT !.seen = "part"]
    /\ UNCHANGED <<newest, page, client, call, prov>>

Copied == copying[Me] = "idle" /\ turn.seen # None

\* An empty or transient text is tried again.  What the other tabs still have to
\* do of their copies commutes with what Me does from here: they end them first.
Extracted ==
    /\ In("extract") /\ Copied
    /\ \A t \in Tabs \ {Me} : At(t, "idle")
    /\ LET text == IF got[Me] = None THEN None ELSE got[Me][2]
       IN  turn' = IF text \in {None, "status"} /\ turn.tries + 1 < MaxTries
                     THEN [turn EXCEPT !.seen = None, !.tries = @ + 1]
                     ELSE Done(turn, IF text = None THEN "empty" ELSE text)
    /\ NoPage

-----------------------------------------------------------------------------
HasModes == prov \in {"text", "qwen", "gemini", "grok"}
Plain == CHOOSE i \in Ids : GroupsOf[i] = {}

ClientStep ==
    \/ Open \/ Rendered \/ Health \/ Forget \/ Pick \/ Select \/ Verify
    \/ Baseline \/ Upload \/ Enter \/ Probe \/ Submit \/ PressSend \/ Ack
    \/ Confirm \/ WaitCopyable \/ WaitStreamed \/ WaitStopped \/ SeeStop
    \/ WaitStable \/ Appear \/ Poll \/ Settle \/ Network \/ Read \/ Redo
    \/ Resettle \/ Images \/ SavedImages \/ Copy \/ Extracted

\* What was copied on Me for earlier callers.
OfMe == {Me} \X Contents

\* The next caller gets the tab as it is.  Temporary requests always start a
\* new chat (_fresh_chat_required).
Begin ==
    /\ turn.at = 0 /\ turn.n < MaxCalls
    /\ call' \in Calls /\ (call'.temp => call'.move = "fresh")
    /\ call'.id = Plain \/ HasModes
    /\ call'.image => prov \in {"chatgpt", "gemini", "grok"}
    /\ turn' = [turn EXCEPT !.at = 1, !.n = @ + 1, !.result = None,
                            !.cut = FALSE, !.base = 0, !.blind = FALSE]
    /\ page' = [page EXCEPT !.sent = 0, !.replied = FALSE,
                            !.turns = IF @ = 0 THEN 0 ELSE 1,
                            !.draft = IF @ = "empty" THEN @ ELSE "part",
                            !.backlog = @ \/ (page.sent > 0 /\ ~page.replied)]
    /\ newest' = [newest EXCEPT ![Me] = IF @ = None THEN None ELSE "old"]
    /\ \A t \in Tabs \ {Me} : At(t, "idle")
    /\ got' = [t \in Tabs |-> None]
    /\ disturbed' = {}
    /\ clip' = IF clip \in OfMe THEN <<Me, "old">> ELSE None
    /\ late' = {<<Me, "old">> : copy \in late \cap OfMe}
    /\ UNCHANGED <<copying, lock, pre, client, prov>>

\* The other tabs' copies, and Me's late ones, commute with everything Me does
\* before its own; what the other tabs left there they may copy again.
OtherTab(t) ==
    /\ In("extract")
    /\ Copied => ~At(t, "idle")
    /\ CopyStep(t, FALSE, FALSE) \/ Land(t)
    /\ UNCHANGED <<newest, page, client, call, prov, turn>>

Site_ ==
    \/ SiteStep /\ UNCHANGED <<clipVars, client, call, prov, turn>>
    \/ In("extract") /\ Land(Me) /\ UNCHANGED <<newest, page, client, call, prov, turn>>

TurnInit ==
    /\ ClipInit
    /\ prov \in Providers
    /\ \E old \in {0, 1}, on \in SUBSET Modes :
         /\ newest = [t \in Tabs |-> IF t # Me THEN "whole"
                                     ELSE IF old = 0 THEN None ELSE "old"]
         /\ page = [turns |-> old, hidden |-> FALSE, backlog |-> FALSE,
                    sent |-> 0, replied |-> FALSE, stop |-> FALSE,
                    draft |-> "empty", temp |-> FALSE,
                    on |-> IF prov \in {"chatgpt", "claude"} THEN {} ELSE on]
    /\ client = [memo |-> {}, synced |-> FALSE, lost |-> {}]
    /\ call = [id |-> Plain,
               image |-> FALSE, temp |-> FALSE, move |-> "stay"]
    /\ turn = [at |-> 0, base |-> 0, blind |-> FALSE, seen |-> None, same |-> 0,
               expired |-> FALSE, tries |-> 0, cut |-> FALSE, result |-> None,
               n |-> 0]

TurnNext ==
    \/ Begin \/ ClientStep \/ Deadline \/ Site_
    \/ \E t \in Tabs \ {Me} : OtherTab(t)

TurnSpec == TurnInit /\ [][TurnNext]_tvars

\* asyncio runs the client and the other tabs' copies and its Lock is first
\* come first served, clocks go on, and an opened page renders unless it is
\* slow.  The site owes no reply.
TurnFairness ==
    /\ WF_tvars(ClientStep) /\ SF_tvars(Copy)
    /\ WF_tvars(Deadline)
    /\ WF_tvars(Render /\ Site_)
    /\ \A t \in Tabs \ {Me} : WF_tvars(OtherTab(t))

TurnFairSpec == TurnSpec /\ TurnFairness

-----------------------------------------------------------------------------
(* Properties *)

\* The reply returned is the reply to this prompt, and all of it ("extract a
\* STALE answer", text_client.py:290): an earlier turn's text only if that turn
\* was still to come when the turns were counted, and cut short only after a
\* deadline or an error page, or where the detector is not given the stop
\* button (DeepSeek's).  A copy that was disturbed promises nothing.
RightReply ==
    ~turn.blind /\ Me \notin disturbed =>
      /\ turn.result # "old"
      /\ turn.result \in Growing => turn.cut \/ prov = "text"

\* "Never retry a dispatched click: a delayed UI acknowledgment could otherwise
\* create duplicate paid generations" (composer.py:248), even where the page
\* may submit a paste by itself.
SubmittedOnce == page.sent <= 1

\* A prompt goes where its caller wants it: a temporary request into a
\* temporary chat, and no request into a mode it did not ask for ("a default
\* request must not inherit a mode from the last one", text_client.py:134),
\* except a mode whose switch the client last left unfound or unread.
RightPlace ==
    [][page'.sent > page.sent =>
         /\ call.temp => page.temp
         /\ HasModes => page.on \subseteq GroupsOf[call.id] \cup client.lost]_tvars

\* "A default request must not inherit a mode from the last one"
\* (text_client.py:134): RightPlace without its exception.
NothingInherited ==
    [][page'.sent > page.sent /\ HasModes /\ call.id = Plain => page.on = {}]_tvars

\* Every call of send_message ends, whatever the site and the other tabs do.
TurnEnds == turn.at > 0 ~> turn.at = 0
=============================================================================
