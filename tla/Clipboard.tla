----------------------------- MODULE Clipboard -----------------------------
(***************************************************************************)
(* Reading a reply through the page's copy button:                         *)
(* extract_last_response_via_copy of the ChatGPT and Claude detectors,     *)
(* under the process-wide lock of src/core/clipboard_lock.py.  Every tab   *)
(* writes to and reads from one X11 clipboard.                             *)
(***************************************************************************)
EXTENDS Naturals

CONSTANTS
    Tabs,      \* the tabs of all accounts of both providers
    Contents,  \* what an assistant turn may hold
    Copyable,  \* the contents that have a copy button
    None

ASSUME ClipboardAssumption ==
    /\ None \notin Tabs /\ None \notin Contents
    /\ Copyable \subseteq Contents

VARIABLES
    newest,  \* newest[t]: content of the newest assistant turn of tab t
    copying, \* copying[t]: where t is in the copy step
    lock,    \* the tab that holds the clipboard lock
    clip,    \* the clipboard: a tab and a content, or None
    pre,     \* pre_clipboard of the tab that holds the lock
    late,    \* copies that were clicked and have not reached the clipboard
    got,     \* got[t]: what the step returned
    disturbed \* history, the tabs whose copy ran into another: see Land, Clear

clipVars == <<copying, lock, clip, pre, late, got, disturbed>>

\* "landing" is the sleep after the click.
Steps == {"idle", "read", "clear", "click", "landing", "back", "dom"}
Critical == {"read", "clear", "click", "landing", "back"}
Cleared == {"click", "landing", "back"}

ClipInit ==
    /\ copying = [t \in Tabs |-> "idle"]
    /\ lock = None
    /\ clip = None
    /\ pre = None
    /\ late = {}
    /\ got = [t \in Tabs |-> None]
    /\ disturbed = {}

Own(t) == IF newest[t] = None THEN None ELSE <<t, newest[t]>>

At(t, step) == copying[t] = step
Go(t, step) == copying' = [copying EXCEPT ![t] = step]

-----------------------------------------------------------------------------
\* Mutant of Grab: no lock.
GrabFree(t) ==
    /\ At(t, "idle")
    /\ lock' = t
    /\ Go(t, "read")
    /\ got' = [got EXCEPT ![t] = None]
    /\ disturbed' = disturbed \ {t}
    /\ UNCHANGED <<clip, pre, late>>

\* async with get_clipboard_lock()
Grab(t) ==
    /\ At(t, "idle")
    /\ lock = None
    /\ lock' = t
    /\ Go(t, "read")
    /\ got' = [got EXCEPT ![t] = None]
    /\ disturbed' = disturbed \ {t}
    /\ UNCHANGED <<clip, pre, late>>

\* Any call of navigator.clipboard may be refused: its .catch() hides that.
ReadPre(t) ==
    /\ At(t, "read")
    /\ pre' \in {clip, None}
    /\ Go(t, "clear")
    /\ UNCHANGED <<lock, clip, late, got, disturbed>>

\* Refused, it leaves a text there that was not known before.
Clear(t) ==
    /\ At(t, "clear")
    /\ \/ clip' = None /\ UNCHANGED disturbed
       \/ /\ UNCHANGED clip
          /\ disturbed' = IF clip \in {None, pre} THEN disturbed ELSE disturbed \cup {t}
    /\ Go(t, "click")
    /\ UNCHANGED <<lock, pre, late, got>>

\* The block of the lock is left; a handler still at work may land later.
Unlock(t) ==
    /\ lock' = IF lock = t THEN None ELSE lock
    /\ pre' = IF lock = t THEN None ELSE pre

\* Click the copy button of the newest turn; `stale` is whether that is still
\* the previous turn.  Without a click the text is read from the page.
Click(t, stale) ==
    /\ At(t, "click")
    /\ IF newest[t] \in Copyable /\ ~stale
         THEN /\ late' = late \cup {<<t, newest[t]>>}
              /\ Go(t, "landing")
              /\ UNCHANGED <<lock, pre>>
         ELSE /\ Go(t, "dom")
              /\ Unlock(t)
              /\ UNCHANGED late
    /\ UNCHANGED <<clip, got, disturbed>>

InTime(t, c) == At(t, "landing") /\ Own(t) = <<t, c>>

\* The page's handler writes the clipboard, sooner or later or never.  One that
\* is late disturbs the copy under way, unless its text is that copy's own.
Land(t) ==
    \E c \in Contents :
      /\ <<t, c>> \in late
      /\ late' = late \ {<<t, c>>}
      /\ clip' = <<t, c>>
      /\ disturbed' = disturbed \cup
           {u \in Tabs : /\ copying[u] \in Cleared
                        /\ ~InTime(t, c) /\ Own(u) # <<t, c>>}
      /\ UNCHANGED <<copying, lock, pre, got>>

\* The sleep is over, whatever the handler has done.
Sleep(t) ==
    /\ At(t, "landing")
    /\ Go(t, "back")
    /\ UNCHANGED <<lock, clip, pre, late, got, disturbed>>

\* Read the clipboard back and release the lock: a text that is not what was
\* there before is the reply, anything else is read from the page.
ReadBack(t) ==
    /\ At(t, "back")
    /\ \E content \in {clip, None} :
         IF content \notin {None, pre}
           THEN Go(t, "idle") /\ got' = [got EXCEPT ![t] = content]
           ELSE Go(t, "dom") /\ UNCHANGED got
    /\ Unlock(t)
    /\ UNCHANGED <<clip, late, disturbed>>

\* An exception inside the lock: the block ends, the page is read.
CopyFails(t) ==
    /\ copying[t] \in Critical
    /\ Go(t, "dom")
    /\ Unlock(t)
    /\ UNCHANGED <<clip, late, got, disturbed>>

\* _extract_via_dom: the page's own newest turn, unless it is the previous one
\* or reads as a transient status.
ViaDom(t, stale, transient) ==
    /\ At(t, "dom")
    /\ got' = [got EXCEPT ![t] = IF stale \/ transient THEN None ELSE Own(t)]
    /\ Go(t, "idle")
    /\ disturbed' = disturbed \ {t}
    /\ UNCHANGED <<lock, clip, pre, late>>

CopyStep(t, stale, transient) ==
    \/ Grab(t) \/ ReadPre(t) \/ Clear(t) \/ Click(t, stale)
    \/ Sleep(t) \/ ReadBack(t) \/ CopyFails(t) \/ ViaDom(t, stale, transient)

-----------------------------------------------------------------------------
\* The tabs on their own: their replies come and go.
Init == ClipInit /\ newest \in [Tabs -> Contents \cup {None}]

Site(t) ==
    /\ \E c \in Contents \cup {None} : newest' = [newest EXCEPT ![t] = c]
    /\ UNCHANGED clipVars

Next ==
    \E t \in Tabs :
      \/ Site(t)
      \/ \E stale, transient \in BOOLEAN :
           CopyStep(t, stale, transient) /\ UNCHANGED newest
      \/ Land(t) /\ UNCHANGED newest

ClipSpec == Init /\ [][Next]_<<newest, clipVars>>

-----------------------------------------------------------------------------
(* Properties *)

\* "tab B can read tab A's copied text: the exact cross-request mix-up we must
\* never allow" (clipboard_lock.py:10): what the copy step returns was on the
\* tab's own page, unless a copy came later than the fixed sleep after its
\* click, or a text stayed that could be neither read nor cleared.
OwnText ==
    \A t \in Tabs \ disturbed : got[t] # None => got[t] \in {t} \X Contents
=============================================================================
