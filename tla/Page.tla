-------------------------------- MODULE Page --------------------------------
(***************************************************************************)
(* The web page of one chat tab, and what every provider's client does to  *)
(* it before it waits for a reply: open a chat, set the model and the      *)
(* composer's modes (src/providers/model_picker.py), enforce temporary     *)
(* chats (temporary_chat.py), attach files, type and submit the prompt     *)
(* (composer.py).  The site itself is external: it answers, renders,       *)
(* pauses, loses edits and submits late as it likes.                       *)
(***************************************************************************)
EXTENDS Clipboard, FiniteSets

CONSTANTS
    Me,        \* the tab that is modelled in full
    Modes,     \* the composer's modes (tool groups of the model registry)
    Ids,       \* the chat model ids a caller may ask for
    GroupsOf,  \* tool_groups: the modes of an id; none for the default id
    Quirks     \* what this site may do: subset of AllQuirks

\* "slow": an opened conversation may outlast the client's wait for it;
\* "autosend": the composer may submit by itself after a paste;
\* "blind": a mode switch may be missing from the page when it is looked for;
\* "unreadable": a switch may not tell whether it is on; "broken": the page may
\* fail to load or show an error.
AllQuirks == {"slow", "autosend", "blind", "unreadable", "broken"}

ASSUME PageAssumption ==
    /\ Me \in Tabs
    /\ GroupsOf \in [Ids -> SUBSET Modes] /\ \E i \in Ids : GroupsOf[i] = {}
    /\ Quirks \subseteq AllQuirks

VARIABLES
    page,    \* the page of Me: see PageType
    call,    \* what the current caller asked for
    client   \* what the client object remembers: see ClientType

Calls == [id : Ids, image : BOOLEAN, temp : BOOLEAN,
          move : {"stay", "fresh", "thread"}]

\* turns: assistant turns rendered; hidden: an opened conversation that has
\* not rendered; backlog: an earlier prompt the site has not answered; sent:
\* submissions of this call; stop: the stop button shows.
PageType == [turns : Nat, hidden : BOOLEAN, backlog : BOOLEAN,
             sent : 0 .. 2, replied : BOOLEAN, stop : BOOLEAN,
             draft : {"empty", "part", "whole"},
             temp : BOOLEAN, on : SUBSET Modes]

\* memo: _modes_on; synced: _modes_synced.  lost is history: the modes
\* whose switch the client last left without having found and read it.
ClientType == [memo : SUBSET Modes, synced : BOOLEAN, lost : SUBSET Modes]

Show(c) == newest' = [newest EXCEPT ![Me] = c]

-----------------------------------------------------------------------------
(* The site *)

Growing == {"status", "part"}
Final == {"whole", "image"}

\* The turns of an opened conversation render.
Render ==
    /\ page.hidden
    /\ page' = [page EXCEPT !.hidden = FALSE, !.turns = @ + 1]
    /\ IF page.turns = 0 THEN Show("old") ELSE UNCHANGED newest

\* A prompt of an earlier call is answered after all, or its answer ends.
AnswerBacklog ==
    /\ page.backlog /\ ~page.hidden /\ ~page.replied
    /\ page' = [page EXCEPT !.backlog = FALSE, !.turns = @ + 1]
    /\ Show("old")

EndBacklog ==
    /\ page.stop /\ ~page.replied
    /\ page' = [page EXCEPT !.stop = FALSE]
    /\ UNCHANGED newest

\* The site takes up the prompt: a turn appears and the stop button shows.
StartReply ==
    /\ page.sent > 0 /\ ~page.replied /\ ~page.backlog
    /\ page' = [page EXCEPT !.replied = TRUE, !.turns = @ + 1, !.stop = TRUE,
                            !.draft = "empty"]
    /\ Show("status")

Grow ==
    /\ page.replied /\ newest[Me] = "status"
    /\ Show("part")
    /\ UNCHANGED page

\* No text grows after the stop button has gone.
FinishReply ==
    /\ page.replied /\ page.stop /\ newest[Me] \in Growing
    /\ page' = [page EXCEPT !.stop = FALSE]
    /\ \E c \in Final : (c = "image" => call.image) /\ Show(c)

\* An image may be painted into a turn that looks complete.
Paint ==
    /\ call.image /\ page.replied /\ ~page.stop /\ newest[Me] = "whole"
    /\ Show("image")
    /\ UNCHANGED page

\* The composer empties, some time after the submission.
EmptyDraft ==
    /\ page.sent > 0 /\ page.draft # "empty"
    /\ page' = [page EXCEPT !.draft = "empty"]
    /\ UNCHANGED newest

AutoSend ==
    /\ "autosend" \in Quirks /\ page.draft = "whole" /\ page.sent = 0
    /\ page' = [page EXCEPT !.sent = 1, !.draft = "empty"]
    /\ UNCHANGED newest

SiteStep ==
    \/ Render \/ AnswerBacklog \/ EndBacklog \/ StartReply \/ Grow \/ FinishReply
    \/ Paint \/ EmptyDraft \/ AutoSend

-----------------------------------------------------------------------------
(* The client's helpers: each is a relation on the page and the client *)

\* goto: another document.  What was not answered stays behind.
Load(p, hidden) ==
    [p EXCEPT !.turns = 0, !.hidden = hidden, !.backlog = FALSE,
              !.replied = FALSE, !.stop = FALSE, !.draft = "empty",
              !.temp = FALSE]

\* start_temporary_chat: the mode must read as on, else no prompt is sent;
\* the modes are to be reconciled again.
StartTemporary ==
    /\ page' = [Load(page, FALSE) EXCEPT !.temp = TRUE]
    /\ client' = [client EXCEPT !.synced = FALSE]

\* Mutant of TemporaryOK: the page is not looked at again.
TemporaryOKAlways == TRUE

\* verify_temporary_chat
TemporaryOK == call.temp => page.temp

\* Mutant of Suspects: only what this client remembers is suspect.
SuspectsMemo == client.memo

\* _suspect_modes: a tab's switches outlive the client, so the first request
\* suspects every mode of the registry.
Suspects == IF client.synced THEN client.memo ELSE Modes

\* _JS_SET_TOGGLE over the switches `found`, of which `read` tell their state.
\* One that does not is clicked to switch it on, or to switch off what this
\* client switched on; the click takes it to its other state.
Toggle(off, wanted, found, read) ==
    LET clicked == ((wanted \cup (IF client.synced THEN off ELSE {})) \cap found) \ read
    IN  {m \in Modes : CASE m \in read \cap wanted -> TRUE
                        [] m \in read \cap off -> FALSE
                        [] m \in clicked -> m \notin page.on
                        [] OTHER -> m \in page.on}

\* apply_modes: off first, then on; the memory holds what was asked for and
\* found now, and not what was to be switched off and was not found.
ApplyModes(wanted, found, read) ==
    LET off == Suspects \ wanted
    IN  /\ page' = [page EXCEPT !.on = Toggle(off, wanted, found, read)]
        /\ client' = [memo |-> wanted \cap found, synced |-> TRUE,
                      lost |-> (client.lost \cup off \cup wanted)
                               \ ((off \cup wanted) \cap read)]

\* _select_chat_model of the providers with modes.  The default id switches
\* nothing on, and looks at the page only for what is suspect.
SelectModes ==
    \E found \in IF "blind" \in Quirks THEN SUBSET Modes ELSE {Modes} :
    \E read \in IF "unreadable" \in Quirks THEN SUBSET found ELSE {found} :
      IF GroupsOf[call.id] = {} /\ Suspects = {}
        THEN /\ UNCHANGED page
             /\ client' = [client EXCEPT !.synced = TRUE]
        ELSE ApplyModes(GroupsOf[call.id], found, read)

\* pick_from_dropdown: another model may re-render the composer and reset the
\* conversation.
PickModel(p) ==
    {p, [p EXCEPT !.temp = FALSE], [p EXCEPT !.turns = 0, !.hidden = FALSE]}

-----------------------------------------------------------------------------
(* The composer *)

\* enter_prompt: the page holds the whole prompt, or mangles it; a second
\* attempt goes another way.
HoldsPrompt == page.draft = "whole"

\* submit_prompt sends nothing unless the composer holds the whole prompt and
\* no earlier generation is running.
MayPress == HoldsPrompt /\ ~page.stop

\* One click, or one Enter without a button: it takes what the composer holds.
Press(p) == IF p.draft = "empty" THEN p
            ELSE [p EXCEPT !.sent = IF @ < 2 THEN @ + 1 ELSE 2]

\* The draft is gone, or the generation runs.  (The prompt may also show as a
\* turn, any time after it was sent: see Ack.)
Acknowledged == page.draft = "empty" \/ page.stop
=============================================================================
