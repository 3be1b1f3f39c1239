----------------------------- MODULE TurnProofs -----------------------------
(***************************************************************************)
(* The clipboard lock does its work for any number of tabs, whatever they  *)
(* show, and send_message sends its prompt once, to where the caller wants *)
(* it, and returns the reply to it.                                        *)
(***************************************************************************)
EXTENDS Turn, TLAPS

ClipTypeOK ==
    /\ newest \in [Tabs -> Contents \cup {None}]
    /\ copying \in [Tabs -> Steps]
    /\ got \in [Tabs -> (Tabs \X Contents) \cup {None}]
    /\ clip \in (Tabs \X Contents) \cup {None}

\* Between taking and releasing the lock, a tab has it.
InsideLocked == \A t \in Tabs : copying[t] \in Critical => lock = t

\* From the clearing on, the clipboard has what was known to be there before,
\* or the tab's own copy, unless another disturbed it.
ClipOwn ==
    \A t \in Tabs \ disturbed :
      copying[t] \in Cleared => clip \in {None, pre} \cup ({t} \X Contents)

ClipInv == ClipTypeOK /\ InsideLocked /\ ClipOwn /\ OwnText

-----------------------------------------------------------------------------
\* What a page shows is nothing or the tab's.
LEMMA OwnIsOwn ==
    ASSUME ClipTypeOK, NEW t \in Tabs
    PROVE  Own(t) = None \/ Own(t) \in {t} \X Contents
BY DEF ClipTypeOK, Own

\* Only one tab is inside the lock.
LEMMA OneInside ==
    ASSUME InsideLocked, NEW t \in Tabs, NEW u \in Tabs,
           copying[t] \in Critical, copying[u] \in Critical
    PROVE  t = u
BY DEF InsideLocked

\* Taking the lock: nobody was inside.
LEMMA GrabKeeps ==
    ASSUME ClipInv, NEW t \in Tabs, Grab(t), UNCHANGED newest
    PROVE  ClipInv'
<1>1. \A u \in Tabs : copying[u] \notin Critical
    BY ClipboardAssumption DEF ClipInv, InsideLocked, Grab
<1>2. ClipTypeOK'
    BY DEF ClipInv, ClipTypeOK, Grab, Go, Steps
<1>3. \A u \in Tabs : copying'[u] = IF u = t THEN "read" ELSE copying[u]
    BY DEF ClipInv, ClipTypeOK, Grab, Go
<1>4. InsideLocked'
    BY <1>1, <1>3 DEF InsideLocked, Grab
<1>5. ClipOwn'
    BY <1>1, <1>3 DEF ClipOwn, Critical, Cleared
<1>6. OwnText'
    BY DEF ClipInv, ClipTypeOK, OwnText, Grab
<1> QED
    BY <1>2, <1>4, <1>5, <1>6 DEF ClipInv

\* Reading, clearing and waiting move only the tab that is inside; a text that
\* cannot be cleared is known, or the tab is marked.
LEMMA InsideKeeps ==
    ASSUME ClipInv, NEW t \in Tabs,
           ReadPre(t) \/ Clear(t) \/ Sleep(t), UNCHANGED newest
    PROVE  ClipInv'
<1>1. copying[t] \in Critical /\ UNCHANGED <<lock, late, got>>
    BY DEF ReadPre, Clear, Sleep, At, Critical
<1>2. /\ disturbed \subseteq disturbed'
      /\ clip' \in {clip, None}
    BY DEF ReadPre, Clear, Sleep
<1>3. PICK step \in Critical :
        /\ copying' = [copying EXCEPT ![t] = step]
        /\ step \in Cleared /\ t \notin disturbed' =>
             \/ clip' \in {None, pre'}
             \/ copying[t] \in Cleared /\ UNCHANGED <<clip, pre>>
    BY DEF ReadPre, Clear, Sleep, At, Go, Critical, Cleared
<1>4. \A u \in Tabs : copying'[u] = IF u = t THEN step ELSE copying[u]
    BY <1>3 DEF ClipInv, ClipTypeOK
<1>5. ClipTypeOK'
    BY <1>1, <1>2, <1>3 DEF ClipInv, ClipTypeOK, Critical, Steps
<1>6. InsideLocked'
    BY <1>1, <1>4 DEF ClipInv, InsideLocked
<1>7. \A u \in Tabs : u # t => copying[u] \notin Critical
    BY <1>1, OneInside DEF ClipInv
<1>8. ClipOwn'
    BY <1>2, <1>3, <1>4, <1>7 DEF ClipInv, ClipOwn, Critical, Cleared
<1>9. OwnText'
    BY <1>1, <1>2 DEF ClipInv, OwnText
<1> QED
    BY <1>5, <1>6, <1>8, <1>9 DEF ClipInv

\* The button is clicked: the copy is on its way.
LEMMA ClickKeeps ==
    ASSUME ClipInv, NEW t \in Tabs, At(t, "click"), Go(t, "landing"),
           UNCHANGED <<newest, lock, clip, pre, got, disturbed>>
    PROVE  ClipInv'
<1>1. \A u \in Tabs : copying'[u] = IF u = t THEN "landing" ELSE copying[u]
    BY DEF ClipInv, ClipTypeOK, Go
<1>2. ClipTypeOK'
    BY DEF ClipInv, ClipTypeOK, Go, Steps
<1>3. InsideLocked' /\ ClipOwn'
    BY <1>1 DEF ClipInv, InsideLocked, ClipOwn, At, Critical, Cleared
<1>4. OwnText'
    BY DEF ClipInv, OwnText
<1> QED
    BY <1>2, <1>3, <1>4 DEF ClipInv

\* A copy reaches the clipboard: it is that of the tab that waits for it, or it
\* marks the tab it disturbs.
LEMMA LandKeeps ==
    ASSUME ClipInv, NEW t \in Tabs, Land(t), UNCHANGED newest
    PROVE  ClipInv'
<1>1. PICK c \in Contents :
        /\ late' = late \ {<<t, c>>}
        /\ clip' = <<t, c>>
        /\ disturbed' = disturbed \cup
             {u \in Tabs : /\ copying[u] \in Cleared
                           /\ ~InTime(t, c) /\ Own(u) # <<t, c>>}
        /\ UNCHANGED <<copying, lock, pre, got>>
    BY DEF Land
<1>2. ClipOwn'
  <2> SUFFICES ASSUME NEW u \in Tabs, u \notin disturbed', copying[u] \in Cleared
               PROVE  clip' \in {None} \cup ({u} \X Contents)
      BY <1>1 DEF ClipOwn
  <2>1. CASE InTime(t, c)
    <3>1. t = u
        BY <2>1, OneInside DEF ClipInv, InTime, At, Critical, Cleared
    <3> QED
        BY <1>1, <3>1
  <2>2. CASE Own(u) = <<t, c>>
      BY <1>1, <2>2, OwnIsOwn DEF ClipInv
  <2> QED
      BY <1>1, <2>1, <2>2
<1>3. ClipTypeOK' /\ InsideLocked' /\ OwnText'
    BY <1>1 DEF ClipInv, ClipTypeOK, InsideLocked, OwnText
<1> QED
    BY <1>2, <1>3 DEF ClipInv

\* The lock is released, with or without a text: one of the tab's own, if
\* nothing disturbed its copy.
LEMMA UnlockKeeps ==
    ASSUME ClipInv, NEW t \in Tabs, Unlock(t),
           UNCHANGED <<newest, clip, late, disturbed>>,
           NEW step \in {"idle", "dom"}, Go(t, step),
           NEW text \in (Tabs \X Contents) \cup {None},
           text \in ({t} \X Contents) \cup {got[t]} \/ t \in disturbed,
           got' = [got EXCEPT ![t] = text],
           copying[t] \in Critical
    PROVE  ClipInv'
<1>1. \A u \in Tabs : copying'[u] = IF u = t THEN step ELSE copying[u]
    BY DEF ClipInv, ClipTypeOK, Go
<1>2. \A u \in Tabs : got'[u] = IF u = t THEN text ELSE got[u]
    BY DEF ClipInv, ClipTypeOK
<1>3. ClipTypeOK'
    BY DEF ClipInv, ClipTypeOK, Go, Steps
<1>4. \A u \in Tabs : copying'[u] \notin Critical
    BY <1>1, OneInside DEF ClipInv, Critical
<1>5. InsideLocked' /\ ClipOwn'
    BY <1>4 DEF InsideLocked, ClipOwn, Critical, Cleared
<1>6. OwnText'
    BY <1>2 DEF ClipInv, OwnText
<1> QED
    BY <1>3, <1>5, <1>6 DEF ClipInv

\* A click without a copy button, and the reading back.
LEMMA ClickStepKeeps ==
    ASSUME ClipInv, NEW t \in Tabs, NEW stale \in BOOLEAN,
           Click(t, stale), UNCHANGED newest
    PROVE  ClipInv'
<1>1. CASE newest[t] \in Copyable /\ ~stale
    BY <1>1, ClickKeeps DEF Click
<1>2. CASE ~(newest[t] \in Copyable /\ ~stale)
  <2>1. got' = [got EXCEPT ![t] = got[t]] /\ got[t] \in (Tabs \X Contents) \cup {None}
      BY DEF ClipInv, ClipTypeOK, Click
  <2>2. copying[t] \in Critical
      BY DEF Click, At, Critical
  <2> QED
      BY <1>2, <2>1, <2>2, UnlockKeeps DEF Click
<1> QED
    BY <1>1, <1>2

\* What is read back was put there by the tab that reads it.
LEMMA ReadBackKeeps ==
    ASSUME ClipInv, NEW t \in Tabs, ReadBack(t), UNCHANGED newest
    PROVE  ClipInv'
<1>1. copying[t] \in Critical /\ copying[t] \in Cleared
    BY DEF ReadBack, At, Critical, Cleared
<1>2. PICK content \in {clip, None} :
        IF content \notin {None, pre}
          THEN Go(t, "idle") /\ got' = [got EXCEPT ![t] = content]
          ELSE Go(t, "dom") /\ UNCHANGED got
    BY DEF ReadBack
<1>3. Unlock(t) /\ UNCHANGED <<newest, clip, late, disturbed>>
    BY DEF ReadBack
<1>4. CASE content \notin {None, pre}
  <2>1. content = clip /\ content \in (Tabs \X Contents) \cup {None}
      BY <1>4 DEF ClipInv, ClipTypeOK
  <2>2. content \in {t} \X Contents \/ t \in disturbed
      BY <1>1, <1>4, <2>1 DEF ClipInv, ClipOwn
  <2> QED
      BY <1>1, <1>2, <1>3, <1>4, <2>1, <2>2, UnlockKeeps
<1>5. CASE content \in {None, pre}
  <2>1. got' = [got EXCEPT ![t] = got[t]] /\ got[t] \in (Tabs \X Contents) \cup {None}
      BY <1>2, <1>5 DEF ClipInv, ClipTypeOK
  <2> QED
      BY <1>1, <1>2, <1>3, <1>5, <2>1, UnlockKeeps
<1> QED
    BY <1>4, <1>5

\* An exception, anywhere in the step.
LEMMA LeavingKeeps ==
    ASSUME ClipInv, NEW t \in Tabs, CopyFails(t), UNCHANGED newest
    PROVE  ClipInv'
<1>1. got' = [got EXCEPT ![t] = got[t]] /\ got[t] \in (Tabs \X Contents) \cup {None}
    BY DEF ClipInv, ClipTypeOK, CopyFails
<1> QED
    BY <1>1, UnlockKeeps DEF CopyFails

\* The text is read from the tab's own page.
LEMMA ViaDomKeeps ==
    ASSUME ClipInv, NEW t \in Tabs, NEW stale \in BOOLEAN,
           NEW transient \in BOOLEAN,
           ViaDom(t, stale, transient), UNCHANGED newest
    PROVE  ClipInv'
<1>1. \A u \in Tabs : copying'[u] = IF u = t THEN "idle" ELSE copying[u]
    BY DEF ClipInv, ClipTypeOK, ViaDom, Go
<1>2. PICK text \in ({t} \X Contents) \cup {None} :
        got' = [got EXCEPT ![t] = text]
    BY OwnIsOwn DEF ClipInv, ViaDom
<1>3. \A u \in Tabs : got'[u] = IF u = t THEN text ELSE got[u]
    BY <1>2 DEF ClipInv, ClipTypeOK
<1>4. ClipTypeOK'
    BY <1>2 DEF ClipInv, ClipTypeOK, ViaDom, Go, Steps
<1>5. InsideLocked' /\ ClipOwn'
    BY <1>1 DEF ClipInv, InsideLocked, ClipOwn, ViaDom, Critical, Cleared
<1>6. OwnText'
    BY <1>3 DEF ClipInv, OwnText, ViaDom
<1> QED
    BY <1>4, <1>5, <1>6 DEF ClipInv

-----------------------------------------------------------------------------
\* "tab B can read tab A's copied text: the exact cross-request mix-up we must
\* never allow" (clipboard_lock.py:10): with the lock, no tab gets a text that
\* was not on its own page, for any number of tabs and any order of clicks,
\* refusals and failures, unless a late copy or a text that could be neither
\* read nor cleared ran into its own.
THEOREM CopiesAreOwn == ClipSpec => []OwnText
<1>1. Init => ClipInv
    BY ClipboardAssumption DEF Init, ClipInit, ClipInv, ClipTypeOK, InsideLocked,
       ClipOwn, OwnText, Steps, Critical, Cleared
<1>2. ClipInv /\ [Next]_<<newest, clipVars>> => ClipInv'
  <2> SUFFICES ASSUME ClipInv, [Next]_<<newest, clipVars>>
               PROVE  ClipInv'
      OBVIOUS
  <2>1. CASE UNCHANGED <<newest, clipVars>>
      BY <2>1 DEF ClipInv, ClipTypeOK, InsideLocked, ClipOwn, OwnText, clipVars
  <2>2. CASE Next
    <3>1. PICK t \in Tabs :
            \/ Site(t)
            \/ \E stale, transient \in BOOLEAN :
                 CopyStep(t, stale, transient) /\ UNCHANGED newest
            \/ Land(t) /\ UNCHANGED newest
        BY <2>2 DEF Next
    <3>2. CASE Site(t)
        BY <3>2 DEF Site, ClipInv, ClipTypeOK, InsideLocked, ClipOwn, OwnText,
           clipVars
    <3>3. ASSUME NEW stale \in BOOLEAN, NEW transient \in BOOLEAN,
                 CopyStep(t, stale, transient), UNCHANGED newest
          PROVE  ClipInv'
        BY <3>3, GrabKeeps, InsideKeeps, ClickStepKeeps, ReadBackKeeps,
           LeavingKeeps, ViaDomKeeps DEF CopyStep
    <3>4. CASE Land(t) /\ UNCHANGED newest
        BY <3>4, LandKeeps
    <3> QED
        BY <3>1, <3>2, <3>3, <3>4
  <2> QED
      BY <2>1, <2>2
<1>3. ClipInv => OwnText
    BY DEF ClipInv
<1> QED
    BY <1>1, <1>2, <1>3, PTL DEF ClipSpec

-----------------------------------------------------------------------------
\* The step the client is at.
Step == IF turn.at = 0 THEN "idle" ELSE Script[prov][turn.at]

DomProviders == {"text", "qwen", "gemini", "grok"}

\* The last step of a script.
Last(p) == IF p \in {"chatgpt", "claude"} THEN "extract"
           ELSE IF p \in {"text", "qwen"} THEN "read" ELSE "images"

StepNames ==
    {"open", "render", "health", "forget", "pick", "select", "baseline", "verify",
     "upload", "enter", "probe", "submit", "press", "ack", "confirm", "copyable",
     "streamed", "stopped", "stable", "appear", "settle", "read", "redo",
     "resettle", "images", "extract"}

\* Which step comes after step s of a script.
Follows(p, s, t) ==
    /\ s \in StepNames \ {"extract"} /\ t \in StepNames
    /\ s = "open" => t = "render"
    /\ s = "render" => t \in IF p \in DomProviders THEN {"forget", "pick"}
                                              ELSE {"health", "baseline"}
    /\ s \in {"health", "forget"} => t = "pick"
    /\ s = "pick" => t = IF p = "chatgpt" THEN "baseline" ELSE "select"
    /\ s = "select" => t = "verify"
    /\ s = "verify" => t \in IF p \in DomProviders THEN {"baseline"} ELSE {"upload", "enter"}
    /\ s = "baseline" => t = IF p \in DomProviders THEN "upload" ELSE "verify"
    /\ s = "upload" => t \in IF p = "claude" THEN {"verify"} ELSE {"enter"}
    /\ s = "enter" => t \in {"probe", "submit"}
    /\ s = "probe" => t = "submit"
    /\ s = "submit" => t = "press"
    /\ s = "press" => t = "ack"
    /\ s = "ack" => t \in {"copyable", "streamed", "confirm", "appear"}
    /\ s = "confirm" => t = "appear"
    /\ s = "streamed" => t = "copyable"
    /\ s = "copyable" => t \in {"stopped", "stable"}
    /\ s = "stopped" => t = "stable"
    /\ s = "stable" => t \in {"images", "extract"}
    /\ s = "appear" => t = "settle"
    /\ s = "settle" => t = "read"
    /\ s = "read" => p \in {"gemini", "grok"} /\ t \in {"redo", "images"}
    /\ s = "redo" => t = "resettle"
    /\ s = "resettle" => t = "images"
    /\ s = "images" => t = "extract"

\* Every position of a script but the last has a step, and a next one.
InOrder(p) ==
    \A i \in 1 .. Len(Script[p]) :
      /\ Script[p][i] # Last(p) =>
           i + 1 \in 1 .. Len(Script[p]) /\ Follows(p, Script[p][i], Script[p][i + 1])
      /\ Script[p][i] \in StepNames

\* The steps of a send come in the order of its provider's code.
LEMMA ScriptsInOrder ==
    ASSUME NEW p \in AllProviders
    PROVE  InOrder(p)
<1>1. InOrder("chatgpt")
    BY DEF InOrder, Script, ChatGPTScript, Follows, Last, DomProviders, StepNames
<1>2. InOrder("claude")
    BY DEF InOrder, Script, ClaudeScript, Follows, Last, DomProviders,
       StepNames
<1>3. InOrder("text")
    BY DEF InOrder, Script, TextScript, Follows, Last, DomProviders,
       StepNames
<1>4. InOrder("qwen")
    BY DEF InOrder, Script, QwenScript, Follows, Last, DomProviders,
       StepNames
<1>5. InOrder("gemini")
  <2>1. Script["gemini"] = GeminiScript /\ Len(GeminiScript) = 18
      BY DEF Script, GeminiScript
  <2>2. ASSUME NEW i \in 1 .. 18
        PROVE  /\ GeminiScript[i] # "images" =>
                    /\ i + 1 \in 1 .. 18
                    /\ Follows("gemini", GeminiScript[i], GeminiScript[i + 1])
               /\ GeminiScript[i] \in StepNames
      BY DEF GeminiScript, Follows, DomProviders, StepNames
  <2> QED
      BY <2>1, <2>2 DEF InOrder, Last
<1>6. InOrder("grok")
    BY DEF InOrder, Script, GrokScript, Follows, Last, DomProviders,
       StepNames
<1> QED
    BY <1>1, <1>2, <1>3, <1>4, <1>5, <1>6 DEF AllProviders

\* Which steps only some scripts have.
Peculiar(p, s) ==
    /\ s \in {"select", "appear", "settle", "read"} => p \in DomProviders
    /\ s \in {"health", "probe", "stopped"} => p = "chatgpt"
    /\ s = "streamed" => p = "claude"
    /\ s \in {"copyable", "stable", "extract"} => p \in {"chatgpt", "claude"}
    /\ s \in {"confirm", "redo", "resettle"} => p = "gemini"
    /\ s = "images" => p \in {"chatgpt", "gemini", "grok"}
    /\ s = "forget" => p = "qwen"
    /\ s = "pick" => p # "claude"

\* Which steps are whose.
LEMMA ScriptsArePeculiar ==
    ASSUME NEW p \in AllProviders, NEW i \in 1 .. Len(Script[p])
    PROVE  Peculiar(p, Script[p][i])
<1>1. CASE p = "chatgpt"
    BY <1>1 DEF Peculiar, Script, ChatGPTScript, DomProviders
<1>2. CASE p = "claude"
    BY <1>2 DEF Peculiar, Script, ClaudeScript, DomProviders
<1>3. CASE p = "text"
    BY <1>3 DEF Peculiar, Script, TextScript, DomProviders
<1>4. CASE p = "qwen"
    BY <1>4 DEF Peculiar, Script, QwenScript, DomProviders
<1>5. CASE p = "gemini"
    BY <1>5 DEF Peculiar, Script, GeminiScript, DomProviders
<1>6. CASE p = "grok"
    BY <1>6 DEF Peculiar, Script, GrokScript, DomProviders
<1> QED
    BY <1>1, <1>2, <1>3, <1>4, <1>5, <1>6 DEF AllProviders

\* The steps a client jumps to are there.
LEMMA JumpTargets ==
    ASSUME NEW p \in AllProviders, NEW s,
           \/ s = "copyable" /\ p = "chatgpt"
           \/ s = "images" /\ p \in {"chatgpt", "gemini"}
           \/ s = "extract" /\ p = "claude"
    PROVE  \E i \in DOMAIN Script[p] : Script[p][i] = s
<1>1. 13 \in DOMAIN ChatGPTScript /\ ChatGPTScript[13] = "copyable"
    BY DEF ChatGPTScript
<1>2. 16 \in DOMAIN ChatGPTScript /\ ChatGPTScript[16] = "images"
    BY DEF ChatGPTScript
<1>3. 18 \in DOMAIN GeminiScript /\ GeminiScript[18] = "images"
    BY DEF GeminiScript
<1>4. 14 \in DOMAIN ClaudeScript /\ ClaudeScript[14] = "extract"
    BY DEF ClaudeScript
<1> QED
    BY <1>1, <1>2, <1>3, <1>4 DEF Script

\* No script is empty, and each opens the chat first.
LEMMA ScriptLength ==
    ASSUME NEW p \in AllProviders
    PROVE  /\ Len(Script[p]) \in Nat \ {0} /\ DOMAIN Script[p] = 1 .. Len(Script[p])
           /\ Script[p][1] = "open"
BY DEF AllProviders, Script, ChatGPTScript, ClaudeScript, TextScript, QwenScript,
   GeminiScript, GrokScript

-----------------------------------------------------------------------------
ClipContent == (Tabs \X Contents) \cup {None}

TurnTypeOK ==
    /\ newest \in [Tabs -> Contents \cup {None}]
    /\ copying \in [Tabs -> Steps]
    /\ got \in [Tabs -> ClipContent] /\ clip \in ClipContent
    /\ page \in PageType /\ call \in Calls /\ client \in ClientType
    /\ prov \in AllProviders /\ turn \in TurnType
    /\ turn.at \in 0 .. Len(Script[prov])
    /\ newest[Me] # None => page.turns > 0

\* Going on to the next step.
LEMMA GoOn ==
    ASSUME TurnTypeOK, NEW s, In(s), s # Last(prov), prov' = prov,
           turn'.at = turn.at + 1
    PROVE  /\ Step = s /\ Peculiar(prov, s) /\ s # "idle"
           /\ Follows(prov, s, Step') /\ Peculiar(prov, Step') /\ Step' # "idle"
           /\ turn'.at \in 0 .. Len(Script[prov'])
<1>1. turn.at \in Nat /\ Len(Script[prov]) \in Nat
    BY ScriptLength DEF TurnTypeOK, TurnType
<1>2. turn.at \in 1 .. Len(Script[prov]) /\ Script[prov][turn.at] = s
    BY <1>1 DEF TurnTypeOK, In
<1>3. InOrder(prov) /\ Peculiar(prov, s)
    BY <1>2, ScriptsInOrder, ScriptsArePeculiar DEF TurnTypeOK
<1>4. turn.at + 1 \in 1 .. Len(Script[prov]) /\ Script[prov][turn.at + 1] \in StepNames
      /\ Follows(prov, s, Script[prov][turn.at + 1])
    BY <1>2, <1>3 DEF InOrder
<1>5. Peculiar(prov, Script[prov][turn.at + 1])
    BY <1>4, ScriptsArePeculiar DEF TurnTypeOK
<1>6. s # "idle" /\ Script[prov][turn.at + 1] # "idle"
    BY <1>2, <1>3, <1>4 DEF InOrder, StepNames
<1>7. Step = s /\ Step' = Script[prov][turn.at + 1]
    BY <1>1, <1>2 DEF Step
<1> QED
    BY <1>1, <1>3, <1>4, <1>5, <1>6, <1>7

\* A step that is taken again.
LEMMA StayOn ==
    ASSUME TurnTypeOK, NEW s, In(s), prov' = prov, turn'.at = turn.at
    PROVE  /\ Step = s /\ Step' = s /\ Peculiar(prov, s)
           /\ turn'.at \in 0 .. Len(Script[prov'])
<1>1. turn.at \in 1 .. Len(Script[prov]) /\ Script[prov][turn.at] = s
    BY ScriptLength DEF TurnTypeOK, TurnType, In
<1> QED
    BY <1>1, ScriptsArePeculiar DEF TurnTypeOK, Step

\* The end of a send.
LEMMA Finish ==
    ASSUME TurnTypeOK, NEW s, In(s), prov' = prov, turn'.at = 0
    PROVE  /\ Step = s /\ Peculiar(prov, s) /\ Step' = "idle"
           /\ turn'.at \in 0 .. Len(Script[prov'])
<1>1. turn.at \in 1 .. Len(Script[prov]) /\ Script[prov][turn.at] = s
    BY ScriptLength DEF TurnTypeOK, TurnType, In
<1>2. Len(Script[prov]) \in Nat
    BY ScriptLength DEF TurnTypeOK
<1> QED
    BY <1>1, <1>2, ScriptsArePeculiar DEF TurnTypeOK, Step

\* Where Jump goes.
Target(s) == CHOOSE i \in DOMAIN Script[prov] : Script[prov][i] = s

\* A jump goes to one of its provider's steps that are there.
LEMMA JumpTo ==
    ASSUME TurnTypeOK, NEW s, In(s), prov' = prov, NEW t,
           \/ t = "copyable" /\ prov = "chatgpt"
           \/ t = "images" /\ prov \in {"chatgpt", "gemini"}
           \/ t = "extract" /\ prov = "claude",
           turn'.at = Target(t)
    PROVE  /\ Step = s /\ Peculiar(prov, s)
           /\ Step' = t /\ Peculiar(prov, t) /\ turn'.at \in 0 .. Len(Script[prov'])
<1>1. turn.at \in 1 .. Len(Script[prov]) /\ Script[prov][turn.at] = s
    BY ScriptLength DEF TurnTypeOK, TurnType, In
<1>2. turn'.at \in DOMAIN Script[prov] /\ Script[prov][turn'.at] = t
    BY JumpTargets DEF TurnTypeOK, Target
<1>3. turn'.at \in 1 .. Len(Script[prov]) /\ Len(Script[prov]) \in Nat
    BY <1>2, ScriptLength DEF TurnTypeOK
<1>4. Peculiar(prov, s) /\ Peculiar(prov, t)
    BY <1>1, <1>2, <1>3, ScriptsArePeculiar DEF TurnTypeOK
<1>5. Step = s
    BY <1>1, <1>3 DEF Step
<1>6. Step' = t
    BY <1>2, <1>3 DEF Step
<1> QED
    BY <1>3, <1>4, <1>5, <1>6

\* What u keeps of the turn through its waits, and a wait that begins.
SameTurn(u) ==
    u.base = turn.base /\ u.blind = turn.blind /\ u.cut = turn.cut /\ u.n = turn.n

Fresh(u) == u.seen = None /\ u.same = 0 /\ u.expired = FALSE /\ u.tries = 0

\* What each way to leave a step does to the turn's record.
LEMMA ResetIs ==
    ASSUME turn \in TurnType
    PROVE  /\ Reset(turn) \in TurnType
           /\ SameTurn(Reset(turn)) /\ Fresh(Reset(turn))
           /\ Reset(turn).at = turn.at /\ Reset(turn).result = turn.result
<1>1. 0 \in 0 .. StablePolls /\ 0 \in 0 .. MaxTries
    BY TurnAssumption
<1>2. Reset(turn) \in TurnType
    BY <1>1 DEF TurnType, Reset
<1>3. SameTurn(Reset(turn)) /\ Reset(turn).at = turn.at /\ Reset(turn).result = turn.result
    BY DEF TurnType, Reset, SameTurn
<1>4. Fresh(Reset(turn))
    BY DEF TurnType, Reset, Fresh
<1> QED
    BY <1>2, <1>3, <1>4

\* The next step starts with nothing seen.
LEMMA AheadIs ==
    ASSUME turn \in TurnType
    PROVE  /\ Ahead(turn) \in TurnType
           /\ SameTurn(Ahead(turn)) /\ Fresh(Ahead(turn))
           /\ Ahead(turn).at = turn.at + 1 /\ Ahead(turn).result = turn.result
<1> DEFINE u == Reset(turn)
<1>1. u \in TurnType /\ SameTurn(u) /\ Fresh(u) /\ u.at = turn.at /\ u.result = turn.result
    BY ResetIs
<1>2. Ahead(turn) = [u EXCEPT !.at = u.at + 1]
    BY DEF Ahead
<1> HIDE DEF u
<1> QED
    BY <1>1, <1>2 DEF TurnType, SameTurn, Fresh

\* A result ends the send.
LEMMA DoneIs ==
    ASSUME turn \in TurnType, NEW r \in Contents \cup Reasons \cup {None}
    PROVE  /\ Done(turn, r) \in TurnType
           /\ SameTurn(Done(turn, r)) /\ Fresh(Done(turn, r))
           /\ Done(turn, r).at = 0 /\ Done(turn, r).result = r
<1> DEFINE u == Reset(turn)
<1>1. u \in TurnType /\ SameTurn(u) /\ Fresh(u)
    BY ResetIs
<1>2. Done(turn, r) = [u EXCEPT !.at = 0, !.result = r]
    BY DEF Done
<1> HIDE DEF u
<1>3. Done(turn, r) \in TurnType
  <2> DEFINE v == [u EXCEPT !.at = 0]
  <2>1. v \in TurnType
      BY <1>1 DEF TurnType
  <2>2. Done(turn, r) = [v EXCEPT !.result = r]
      BY <1>1, <1>2 DEF TurnType
  <2> HIDE DEF v
  <2> QED
      BY <2>1, <2>2 DEF TurnType
<1>4. Done(turn, r).at = 0 /\ Done(turn, r).result = r
    BY <1>1, <1>2 DEF TurnType
<1>5. SameTurn(Done(turn, r)) /\ Fresh(Done(turn, r))
    BY <1>1, <1>2 DEF TurnType, SameTurn, Fresh
<1> QED
    BY <1>3, <1>4, <1>5

\* A jump starts its step with nothing seen, too.
LEMMA JumpIs ==
    ASSUME TurnTypeOK, NEW t,
           \/ t = "copyable" /\ prov = "chatgpt"
           \/ t = "images" /\ prov \in {"chatgpt", "gemini"}
           \/ t = "extract" /\ prov = "claude"
    PROVE  /\ Jump(turn, t) \in TurnType
           /\ SameTurn(Jump(turn, t)) /\ Fresh(Jump(turn, t))
           /\ Jump(turn, t).at = Target(t) /\ Jump(turn, t).result = turn.result
<1>1. Target(t) \in Nat
  <2>1. Target(t) \in DOMAIN Script[prov]
      BY JumpTargets DEF TurnTypeOK, Target
  <2> QED
      BY <2>1, ScriptLength DEF TurnTypeOK
<1> DEFINE u == Reset(turn)
<1>2. u \in TurnType /\ SameTurn(u) /\ Fresh(u) /\ u.result = turn.result
    BY ResetIs DEF TurnTypeOK
<1>3. Jump(turn, t) = [u EXCEPT !.at = Target(t)]
    BY DEF Jump, Target
<1> HIDE DEF u
<1> QED
    BY <1>1, <1>2, <1>3 DEF TurnType, SameTurn, Fresh

-----------------------------------------------------------------------------
\* Each of the three in full.
Onto == turn' \in TurnType /\ SameTurn(turn') /\ Fresh(turn')
        /\ turn'.at \in 0 .. Len(Script[prov'])

\* The same three as steps of the system: to the next step of the script,
LEMMA AheadMoves ==
    ASSUME TurnTypeOK, NEW s, In(s), s # Last(prov), prov' = prov,
           turn' = Ahead(turn)
    PROVE  /\ Onto /\ turn'.result = turn.result
           /\ Step = s /\ Peculiar(prov, s) /\ s # "idle"
           /\ Follows(prov, s, Step') /\ Peculiar(prov, Step') /\ Step' # "idle"
<1>1. turn \in TurnType
    BY DEF TurnTypeOK
<1>2. turn'.at = turn.at + 1
    BY <1>1, AheadIs
<1> QED
    BY <1>1, <1>2, AheadIs, GoOn DEF Onto

\* to no step, with a result,
LEMMA DoneMoves ==
    ASSUME TurnTypeOK, NEW s, In(s), prov' = prov,
           NEW r \in Contents \cup Reasons \cup {None}, turn' = Done(turn, r)
    PROVE  /\ Onto /\ turn'.result = r
           /\ Step = s /\ Peculiar(prov, s) /\ Step' = "idle"
<1>1. turn \in TurnType
    BY DEF TurnTypeOK
<1>2. turn'.at = 0
    BY <1>1, DoneIs
<1> QED
    BY <1>1, <1>2, DoneIs, Finish DEF Onto

\* and to a later step of the same provider.
LEMMA JumpMoves ==
    ASSUME TurnTypeOK, NEW s, In(s), prov' = prov, NEW t, turn' = Jump(turn, t),
           \/ t = "copyable" /\ prov = "chatgpt"
           \/ t = "images" /\ prov \in {"chatgpt", "gemini"}
           \/ t = "extract" /\ prov = "claude"
    PROVE  /\ Onto /\ turn'.result = turn.result
           /\ Step = s /\ Peculiar(prov, s)
           /\ Step' = t /\ Peculiar(prov, t)
<1>1. turn'.at = Target(t)
    BY JumpIs
<1> QED
    BY <1>1, JumpIs, JumpTo DEF Onto

\* Where a client's step that leaves the page alone takes it.
Onward ==
    \/ Step' \in {Step, "idle"}
    \/ /\ Follows(prov, Step, Step') /\ Step # "select"
       /\ Step = "verify" => TemporaryOK
    \/ /\ Step \in {"probe", "copyable", "streamed", "stopped", "stable"}
       /\ Step' \in {"copyable", "images", "extract"}

Quietly ==
    /\ UNCHANGED <<newest, clipVars, page, client, call, prov>>
    /\ turn' \in TurnType /\ turn'.at \in 0 .. Len(Script[prov']) /\ Onward

\* The steps that end with the next one of the script or with a reason.
LEMMA PassingMoves ==
    ASSUME TurnTypeOK, Rendered \/ Health \/ Verify \/ Upload \/ Submit \/ Ack
                       \/ Confirm \/ Appear \/ Settle \/ Resettle
    PROVE  Quietly
<1>1. PICK s \in {"render", "health", "verify", "upload", "submit", "ack", "confirm",
                  "appear", "settle", "resettle"} :
        /\ In(s) /\ NoPage
        /\ \/ turn' = Ahead(turn) /\ (s = "verify" => TemporaryOK)
           \/ \E r \in Reasons : turn' = Done(turn, r)
    BY DEF Rendered, Health, Verify, Upload, Submit, Ack, Confirm, Appear, Settle,
           Resettle, Reasons
<1>2. prov' = prov
    BY <1>1 DEF NoPage
<1>3. s # Last(prov)
    BY DEF Last
<1>4. CASE turn' = Ahead(turn) /\ (s = "verify" => TemporaryOK)
    BY <1>1, <1>2, <1>3, <1>4, AheadMoves DEF Quietly, Onward, Onto, NoPage
<1>5. ASSUME NEW r \in Reasons, turn' = Done(turn, r)
      PROVE  Quietly
    BY <1>1, <1>2, <1>5, DoneMoves DEF Quietly, Onward, Onto, NoPage
<1> QED
    BY <1>1, <1>4, <1>5

\* The steps that leave the page alone: the count of the turns,
LEMMA BaselineMoves ==
    ASSUME TurnTypeOK, Baseline
    PROVE  Quietly
<1>1. prov' = prov /\ "baseline" # Last(prov)
    BY DEF Baseline, NoPage, Last
<1>2. PICK n \in Nat, b \in BOOLEAN :
        turn' = [Ahead(turn) EXCEPT !.base = n, !.blind = b]
    BY DEF Baseline, Older, TurnTypeOK, PageType
<1>3. turn' \in TurnType /\ turn'.at = turn.at + 1
    BY <1>2, AheadIs DEF TurnTypeOK, TurnType
<1>4. turn'.at \in 0 .. Len(Script[prov']) /\ Onward
    BY <1>1, <1>3, GoOn DEF Baseline, Onward
<1> QED
    BY <1>3, <1>4 DEF Quietly, Baseline, NoPage

\* the look for a paste that submitted itself,
LEMMA ProbeMoves ==
    ASSUME TurnTypeOK, Probe
    PROVE  Quietly
<1>1. In("probe") /\ NoPage /\ prov' = prov /\ "probe" # Last(prov)
    BY DEF Probe, NoPage, Last
<1>2. CASE turn' = Ahead(turn)
    BY <1>1, <1>2, AheadMoves DEF Quietly, Onward, Onto, NoPage
<1>3. CASE turn' = Jump(turn, "copyable")
  <2>1. prov = "chatgpt"
      BY <1>1, StayOn, ScriptsArePeculiar, ScriptLength
         DEF In, TurnTypeOK, TurnType, Peculiar
  <2> QED
      BY <1>1, <1>3, <2>1, JumpMoves DEF Quietly, Onward, Onto, NoPage
<1> QED
    BY <1>2, <1>3 DEF Probe

\* The provider whose script has the step.
LEMMA WhoseStep ==
    ASSUME TurnTypeOK, NEW s, In(s)
    PROVE  Step = s /\ Peculiar(prov, s)
<1>1. turn.at \in 1 .. Len(Script[prov]) /\ Script[prov][turn.at] = s
    BY ScriptLength DEF TurnTypeOK, TurnType, In
<1> QED
    BY <1>1, ScriptsArePeculiar DEF TurnTypeOK, Step

\* A deadline, or a strategy that gives way.
LEMMA CutIs ==
    ASSUME NEW u \in TurnType
    PROVE  /\ [u EXCEPT !.cut = TRUE] \in TurnType
           /\ [u EXCEPT !.cut = TRUE].cut = TRUE
           /\ \A v \in TurnType : v = [u EXCEPT !.cut = TRUE] =>
                /\ v.at = u.at /\ v.base = u.base /\ v.blind = u.blind
                /\ v.result = u.result /\ v.seen = u.seen /\ v.same = u.same
BY DEF TurnType

\* the ways to wait for the end of the reply,
LEMMA StrategyMoves ==
    ASSUME TurnTypeOK, WaitCopyable \/ WaitStreamed \/ WaitStopped \/ WaitStable
    PROVE  Quietly
<1>1. PICK s \in {"copyable", "streamed", "stopped", "stable"} :
        /\ In(s) /\ NoPage
        /\ \/ turn' = Complete(turn)
           \/ turn' = Incomplete(turn)
           \/ turn' = GiveWay(turn) /\ s \in {"copyable", "streamed"}
    BY DEF WaitCopyable, WaitStreamed, WaitStopped, WaitStable, Strategy
<1>2. Step = s /\ prov \in {"chatgpt", "claude"} /\ prov' = prov /\ s # Last(prov)
    BY <1>1, WhoseStep DEF Peculiar, NoPage, Last
<1>3. Reading \in {"images", "extract"} /\ (Reading = "images" => prov = "chatgpt")
      /\ (Reading = "extract" => prov = "claude")
    BY <1>2 DEF Reading
<1>4. CASE turn' = Jump(turn, Reading)
    BY <1>1, <1>2, <1>3, <1>4, JumpMoves DEF Quietly, Onward, Onto, NoPage
<1>5. CASE turn' = [Jump(turn, Reading) EXCEPT !.cut = TRUE]
  <2>1. Jump(turn, Reading) \in TurnType /\ Jump(turn, Reading).at = Target(Reading)
      BY <1>3, JumpIs
  <2>2. turn' \in TurnType /\ turn'.at = Target(Reading)
      BY <1>5, <2>1, CutIs
  <2> QED
      BY <1>1, <1>2, <1>3, <2>2, JumpTo DEF Quietly, Onward, NoPage
<1>6. CASE turn' = [Ahead(turn) EXCEPT !.cut = TRUE]
  <2>1. Ahead(turn) \in TurnType /\ Ahead(turn).at = turn.at + 1
      BY AheadIs DEF TurnTypeOK
  <2>2. turn' \in TurnType /\ turn'.at = turn.at + 1
      BY <1>6, <2>1, CutIs
  <2> QED
      BY <1>1, <1>2, <2>2, GoOn DEF Quietly, Onward, NoPage
<1>7. CASE turn' = Done(turn, "noturn")
    BY <1>1, <1>2, <1>7, DoneMoves DEF Quietly, Onward, Onto, NoPage, Reasons
<1> QED
    BY <1>1, <1>4, <1>5, <1>6, <1>7 DEF Complete, Incomplete, GiveWay

\* the polls that only note what they see, and the deadlines,
LEMMA StayMoves ==
    ASSUME TurnTypeOK, SeeStop \/ Poll \/ Deadline
    PROVE  Quietly
<1>1. turn \in TurnType /\ newest[Me] \in Contents \cup {None} /\ "part" \in Contents
    BY PageAssumption, TurnAssumption DEF TurnTypeOK, Growing
<1>2. NoPage /\ prov' = prov
    BY DEF SeeStop, Poll, Deadline, NoPage
<1>3. CASE In("stopped") /\ turn' = Ahead(turn)
    BY <1>2, <1>3, AheadMoves DEF Quietly, Onward, Onto, NoPage, Last
<1>4. CASE /\ turn' \in TurnType /\ turn'.at = turn.at /\ \E s : In(s)
    BY <1>2, <1>4, StayOn DEF Quietly, Onward, NoPage
<1>5. CASE SeeStop
    BY <1>1, <1>3, <1>4, <1>5 DEF SeeStop, TurnType
<1>6. CASE Poll
  <2>1. 0 \in 0 .. StablePolls
        /\ (turn.same # StablePolls => turn.same + 1 \in 0 .. StablePolls)
      BY <1>1, TurnAssumption DEF TurnType
  <2>2. turn' \in TurnType /\ turn'.at = turn.at
      BY <1>1, <1>6, <2>1 DEF Poll, Steady, TurnType
  <2> QED
      BY <1>4, <1>6, <2>2 DEF Poll
<1>7. CASE Deadline
    BY <1>1, <1>4, <1>7 DEF Deadline, TurnType, In
<1> QED
    BY <1>5, <1>6, <1>7

\* and the readings of the reply.
LEMMA ReadingMoves ==
    ASSUME TurnTypeOK, Network \/ Read \/ Images \/ SavedImages \/ Extracted
    PROVE  Quietly
<1>1. /\ turn \in TurnType /\ newest[Me] \in Contents \cup {None}
      /\ "whole" \in Contents /\ "empty" \in Reasons
    BY PageAssumption, TurnAssumption DEF TurnTypeOK, Final, Reasons
<1>2. NoPage /\ prov' = prov
    BY DEF Network, Read, Images, SavedImages, Extracted, NoPage
<1>3. ASSUME NEW s, In(s), NEW r \in Contents \cup Reasons \cup {None},
             turn' = Done(turn, r)
      PROVE  Quietly
    BY <1>2, <1>3, DoneMoves DEF Quietly, Onward, Onto, NoPage
<1>4. CASE Network
    BY <1>1, <1>3, <1>4 DEF Network
<1>5. CASE Read
  <2> DEFINE text == IF newest[Me] = None THEN "empty" ELSE newest[Me]
  <2>1. text \in Contents \cup Reasons \cup {None}
      BY <1>1
  <2>2. CASE turn' = Done(turn, text)
      BY <1>3, <1>5, <2>1, <2>2 DEF Read
  <2>3. CASE prov \in {"gemini", "grok"} /\ turn' = [Ahead(turn) EXCEPT !.result = text]
    <3>1. turn' \in TurnType /\ turn'.at = turn.at + 1
        BY <1>1, <2>1, <2>3, AheadIs DEF TurnType
    <3>2. In("read") /\ "read" # Last(prov)
        BY <1>5, <2>3 DEF Read, Last
    <3> QED
        BY <1>2, <3>1, <3>2, GoOn DEF Quietly, Onward, NoPage
  <2> QED
      BY <1>5, <2>2, <2>3 DEF Read
<1>6. CASE Images
  <2>1. CASE turn' = Done(turn, newest[Me])
      BY <1>1, <1>3, <1>6, <2>1 DEF Images
  <2>2. CASE turn' = Ahead(turn)
      BY <1>2, <1>6, <2>2, AheadMoves DEF Images, Quietly, Onward, Onto, NoPage, Last
  <2>3. CASE turn.tries + 1 < MaxTries /\ turn' = [turn EXCEPT !.tries = @ + 1]
    <3>1. turn.tries + 1 \in 0 .. MaxTries
        BY <1>1, <2>3, TurnAssumption DEF TurnType
    <3>2. turn' \in TurnType /\ turn'.at = turn.at
        BY <1>1, <2>3, <3>1 DEF TurnType
    <3> QED
        BY <1>2, <1>6, <3>2, StayOn DEF Images, Quietly, Onward, NoPage
  <2> QED
      BY <1>6, <2>1, <2>2, <2>3 DEF Images
<1>7. CASE SavedImages
  <2>1. turn.result \in Contents \cup Reasons \cup {None}
      BY <1>1 DEF TurnType
  <2> QED
      BY <1>1, <1>3, <1>7, <2>1 DEF SavedImages
<1>8. CASE Extracted
  <2> DEFINE text == IF got[Me] = None THEN None ELSE got[Me][2]
  <2>1. text \in Contents \cup {None}
      BY PageAssumption DEF TurnTypeOK, ClipContent
  <2>2. CASE turn' = Done(turn, IF text = None THEN "empty" ELSE text)
      BY <1>1, <1>3, <1>8, <2>1, <2>2 DEF Extracted
  <2>3. CASE /\ turn.tries + 1 < MaxTries
             /\ turn' = [turn EXCEPT !.seen = None, !.tries = @ + 1]
    <3>1. turn.tries + 1 \in 0 .. MaxTries
        BY <1>1, <2>3, TurnAssumption DEF TurnType
    <3>2. turn' \in TurnType /\ turn'.at = turn.at
        BY <1>1, <2>3, <3>1 DEF TurnType
    <3> QED
        BY <1>2, <1>8, <3>2, StayOn DEF Extracted, Quietly, Onward, NoPage
  <2> QED
      BY <1>8, <2>2, <2>3 DEF Extracted
<1> QED
    BY <1>4, <1>5, <1>6, <1>7, <1>8

-----------------------------------------------------------------------------
\* The steps before the composer holds the whole prompt.
Typing == {"open", "render", "health", "forget", "pick", "select", "baseline",
           "verify", "upload", "enter"}

\* The prompt is sent at most once, and not before it is typed; up to the press
\* the composer of a page that submitted by itself is empty.
SendInv ==
    /\ page.sent \in {0, 1}
    /\ Step \in Typing => page.sent = 0 /\ page.draft # "whole" /\ ~page.replied
    /\ Step \in {"probe", "submit", "press"} /\ page.sent = 1 => page.draft = "empty"

\* Where the caller wants its prompt to go.
Placed ==
    /\ call.temp => page.temp
    /\ HasModes => page.on \subseteq GroupsOf[call.id] \cup client.lost

\* The steps before a temporary chat is verified for the last time, and before
\* the modes are set.
Unverified == {"idle", "open", "render", "health", "forget", "pick", "select", "verify"}
              \cup (IF prov \in {"chatgpt", "claude"} THEN {"baseline"} ELSE {})

Unset == {"idle", "open", "render", "forget", "pick", "select"}

PlaceInv ==
    /\ Step \notin Unverified => (call.temp => page.temp)
    /\ HasModes /\ Step \notin Unset =>
         page.on \subseteq GroupsOf[call.id] \cup client.lost
    /\ HasModes /\ client.synced => page.on \subseteq client.memo \cup client.lost
    /\ page.draft = "whole" => Placed

SafeInv == TurnTypeOK /\ SendInv /\ PlaceInv

\* None of those can send a prompt or move it.
LEMMA QuietKeeps ==
    ASSUME SafeInv, Quietly
    PROVE  SafeInv'
<1>1. TurnTypeOK'
    BY DEF SafeInv, TurnTypeOK, Quietly, clipVars
<1>2. SendInv'
    BY DEF SafeInv, SendInv, Quietly, Onward, Follows, Typing, StepNames, DomProviders
<1>3. TemporaryOK => (call.temp => page.temp)
    BY DEF TemporaryOK
<1>4. Step' \notin Unverified' => Step \notin Unverified \/ TemporaryOK
    BY DEF SafeInv, TurnTypeOK, AllProviders, Quietly, Onward, Follows, Unverified,
       StepNames, DomProviders
<1>5. HasModes /\ Step' \notin Unset => Step \notin Unset
    BY DEF SafeInv, TurnTypeOK, AllProviders, Quietly, Onward, Follows, Unset,
       StepNames, DomProviders, HasModes
<1>6. PlaceInv'
    BY <1>3, <1>4, <1>5 DEF SafeInv, PlaceInv, Placed, Quietly, HasModes
<1> QED
    BY <1>1, <1>2, <1>6 DEF SafeInv

\* A client's step that reaches the page: the next step of the script.
Touching == Open \/ Forget \/ Pick \/ Select \/ Enter \/ PressSend \/ Redo

\* A loaded page has an empty composer and no turn of this prompt.
LEMMA LoadIs ==
    ASSUME page \in PageType, NEW h \in BOOLEAN
    PROVE  /\ Load(page, h) \in PageType
           /\ Load(page, h).sent = page.sent /\ Load(page, h).draft = "empty"
           /\ Load(page, h).replied = FALSE /\ Load(page, h).on = page.on
           /\ Load(page, h).turns = 0 /\ Load(page, h).temp = FALSE
BY DEF PageType, Load

\* What Me's page shows.
LEMMA ShowIs ==
    ASSUME newest \in [Tabs -> Contents \cup {None}],
           NEW c \in Contents \cup {None}, Show(c)
    PROVE  newest' \in [Tabs -> Contents \cup {None}] /\ newest'[Me] = c
BY PageAssumption DEF Show

\* Opening a chat empties the composer and takes no other step.
LEMMA OpenKeeps ==
    ASSUME SafeInv, Open
    PROVE  SafeInv' /\ page'.sent = page.sent
<1>1. /\ In("open") /\ "open" # Last(prov) /\ UNCHANGED <<clipVars, prov>>
      /\ call' \in Calls /\ call'.temp = call.temp /\ call'.id = call.id
    BY DEF Open, Last, SafeInv, TurnTypeOK, Calls
<1>2. turn' = Ahead(turn) \/ turn' = Done(turn, "temporary")
    BY DEF Open, NewChat, OpenThread, SafeInv, TurnTypeOK, Calls
<1>3. Onto /\ Step = "open" /\ Step' \in {"render", "idle"}
  <2>1. CASE turn' = Ahead(turn)
      BY <1>1, <2>1, AheadMoves DEF SafeInv, Follows
  <2>2. CASE turn' = Done(turn, "temporary")
      BY <1>1, <2>2, DoneMoves DEF SafeInv, Reasons
  <2> QED
      BY <1>2, <2>1, <2>2
<1> DEFINE Opened ==
      /\ page' \in PageType /\ page'.sent = page.sent
      /\ page'.draft \in {page.draft, "empty"}
      /\ page'.replied \in {page.replied, FALSE} /\ page'.on = page.on
      /\ newest' \in [Tabs -> Contents \cup {None}]
      /\ newest'[Me] # None => page'.turns > 0
<1>4. Opened
  <2> USE DEF SafeInv, TurnTypeOK
  <2>1. CASE UNCHANGED <<page, newest>>
      BY <2>1
  <2>2. ASSUME NEW h \in BOOLEAN, page' = Load(page, h), Show(None)
        PROVE  Opened
      BY <2>2, LoadIs, ShowIs
  <2>3. ASSUME StartTemporary, Show(None)
        PROVE  Opened
    <3> DEFINE p == Load(page, FALSE)
    <3>1. p \in PageType /\ p.sent = page.sent /\ p.draft = "empty" /\ p.on = page.on
          /\ p.replied = FALSE
        BY LoadIs
    <3>2. page' = [p EXCEPT !.temp = TRUE]
        BY <2>3 DEF StartTemporary
    <3> HIDE DEF p
    <3>3. /\ page' \in PageType /\ page'.sent = page.sent /\ page'.draft = "empty"
          /\ page'.on = page.on /\ page'.replied = FALSE
        BY <3>1, <3>2 DEF PageType
    <3> QED
        BY <2>3, <3>3, ShowIs
  <2>4. \/ UNCHANGED <<page, newest>>
        \/ StartTemporary /\ Show(None)
        \/ \E h \in BOOLEAN : page' = Load(page, h) /\ Show(None)
      BY DEF Open, NewChat, OpenThread, Calls
  <2> QED
      BY <2>1, <2>2, <2>3, <2>4
<1>5. /\ client' \in ClientType /\ client'.memo = client.memo
      /\ client'.lost = client.lost /\ (client'.synced => client.synced)
    BY DEF Open, NewChat, OpenThread, StartTemporary, Calls, SafeInv, TurnTypeOK,
       ClientType
<1>6. TurnTypeOK'
    BY <1>1, <1>3, <1>4, <1>5 DEF SafeInv, TurnTypeOK, Onto, clipVars
<1>7. SendInv'
    BY <1>3, <1>4 DEF SafeInv, SendInv, Typing
<1>8. page'.draft # "whole"
    BY <1>3, <1>4 DEF SafeInv, SendInv, Typing
<1>9. PlaceInv'
    BY <1>1, <1>3, <1>4, <1>5, <1>8 DEF SafeInv, PlaceInv, Unverified, Unset, HasModes
<1> QED
    BY <1>4, <1>6, <1>7, <1>9 DEF SafeInv

\* The client's memory of the modes only shrinks.
LEMMA ForgetKeeps ==
    ASSUME SafeInv, Forget
    PROVE  SafeInv' /\ page'.sent = page.sent
<1>1. /\ In("forget") /\ "forget" # Last(prov) /\ turn' = Ahead(turn)
      /\ UNCHANGED <<newest, clipVars, page, call, prov>>
    BY DEF Forget, Last
<1>2. Onto /\ Step = "forget" /\ Step' = "pick"
    BY <1>1, AheadMoves DEF SafeInv, Follows
<1>3. /\ client' \in ClientType /\ client'.memo = client.memo
      /\ client'.lost = client.lost /\ ~client'.synced
    BY DEF Forget, SafeInv, TurnTypeOK, ClientType
<1>4. TurnTypeOK'
    BY <1>1, <1>2, <1>3 DEF SafeInv, TurnTypeOK, Onto, clipVars
<1>5. SendInv' /\ PlaceInv'
    BY <1>1, <1>2, <1>3 DEF SafeInv, SendInv, Typing, PlaceInv, Placed, Unverified,
       Unset, HasModes
<1> QED
    BY <1>1, <1>4, <1>5 DEF SafeInv

\* A model pick may reload the page, before the prompt is typed.
LEMMA PickKeeps ==
    ASSUME SafeInv, Pick
    PROVE  SafeInv' /\ page'.sent = page.sent
<1>1. /\ In("pick") /\ "pick" # Last(prov) /\ turn' = Ahead(turn)
      /\ UNCHANGED <<clipVars, client, call, prov>>
    BY DEF Pick, Last
<1>2. Onto /\ Step = "pick" /\ Step' = IF prov = "chatgpt" THEN "baseline" ELSE "select"
    BY <1>1, AheadMoves DEF SafeInv, Follows
<1>3. /\ page' \in PageType /\ page'.sent = page.sent /\ page'.draft = page.draft
      /\ page'.replied = page.replied /\ page'.on = page.on
      /\ page'.turns \in {page.turns, 0}
  <2> USE DEF SafeInv, TurnTypeOK, PageType
  <2>1. CASE page' = page
      BY <2>1
  <2>2. CASE page' = [page EXCEPT !.temp = FALSE]
      BY <2>2
  <2>3. CASE page' = [page EXCEPT !.turns = 0, !.hidden = FALSE]
      BY <2>3
  <2> QED
      BY <2>1, <2>2, <2>3 DEF Pick, PickModel
<1>4. /\ newest' \in [Tabs -> Contents \cup {None}]
      /\ newest'[Me] # None => page'.turns > 0
    BY <1>3, PageAssumption DEF Pick, SafeInv, TurnTypeOK, PageType
<1>5. TurnTypeOK'
    BY <1>1, <1>2, <1>3, <1>4 DEF SafeInv, TurnTypeOK, Onto, clipVars
<1>6. SendInv' /\ page'.draft # "whole"
    BY <1>2, <1>3 DEF SafeInv, SendInv, Typing
<1>7. PlaceInv'
    BY <1>1, <1>2, <1>3, <1>6 DEF SafeInv, PlaceInv, Unverified, Unset, HasModes
<1> QED
    BY <1>3, <1>5, <1>6, <1>7 DEF SafeInv

\* Reconciling the modes: what is on then is wanted, or was left unread.
LEMMA ModesReconciled ==
    ASSUME page \in PageType, client \in ClientType, SelectModes,
           GroupsOf[call.id] \subseteq Modes,
           client.synced => page.on \subseteq client.memo \cup client.lost
    PROVE  /\ page' \in PageType /\ client' \in ClientType
           /\ page'.sent = page.sent /\ page'.draft = page.draft
           /\ page'.replied = page.replied /\ page'.turns = page.turns
           /\ page'.on \subseteq client'.memo \cup client'.lost
           /\ page'.on \subseteq GroupsOf[call.id] \cup client'.lost
<1> DEFINE wanted == GroupsOf[call.id]
           off == Suspects \ wanted
<1>1. page.on \subseteq Modes /\ client.memo \subseteq Modes /\ client.lost \subseteq Modes
    BY DEF PageType, ClientType
<1>2. CASE /\ wanted = {} /\ Suspects = {} /\ UNCHANGED page
           /\ client' = [client EXCEPT !.synced = TRUE]
  <2>1. client' \in ClientType /\ client'.memo = client.memo /\ client'.lost = client.lost
      BY <1>2 DEF ClientType
  <2>2. page.on \subseteq client.lost
      BY <1>1, <1>2 DEF Suspects
  <2> QED
      BY <1>2, <2>1, <2>2
<1>3. ASSUME NEW found \in SUBSET Modes, NEW read \in SUBSET found,
             ApplyModes(wanted, found, read)
      PROVE  /\ page' \in PageType /\ client' \in ClientType
             /\ page'.sent = page.sent /\ page'.draft = page.draft
             /\ page'.replied = page.replied /\ page'.turns = page.turns
             /\ page'.on \subseteq client'.memo \cup client'.lost
             /\ page'.on \subseteq wanted \cup client'.lost
  <2> DEFINE on == Toggle(off, wanted, found, read)
  <2>1. page' = [page EXCEPT !.on = on] /\ on \subseteq Modes
      BY <1>3 DEF ApplyModes, Toggle
  <2> HIDE DEF on
  <2>2. /\ page' \in PageType /\ page'.on = on
        /\ page'.sent = page.sent /\ page'.draft = page.draft
        /\ page'.replied = page.replied /\ page'.turns = page.turns
      BY <2>1 DEF PageType
  <2>3. /\ client'.memo = wanted \cap found /\ client'.synced = TRUE
        /\ client'.lost = (client.lost \cup off \cup wanted) \ ((off \cup wanted) \cap read)
      BY <1>3 DEF ApplyModes
  <2>4. client' \in ClientType
      BY <1>1, <1>3 DEF ApplyModes, ClientType, Suspects
  <2>5. ASSUME NEW m \in on
        PROVE  m \in wanted \cap found \/ m \in client'.lost
    <3>1. m \in Modes
        BY <2>1
    <3> DEFINE clicked == ((wanted \cup (IF client.synced THEN off ELSE {})) \cap found) \ read
    <3>2. CASE m \in read
        BY <1>3, <2>3, <2>5, <3>1, <3>2 DEF on, Toggle, Suspects
    <3>3. CASE m \notin read /\ m \in off \cup wanted
        BY <2>3, <3>3
    <3>4. CASE m \notin read /\ m \notin off \cup wanted
      <4>1. m \in page.on
          BY <2>5, <3>1, <3>4 DEF on, Toggle
      <4>2. client.synced /\ m \notin client.memo
          BY <3>1, <3>4 DEF Suspects
      <4> QED
          BY <2>3, <3>4, <4>1, <4>2
    <3> QED
        BY <3>2, <3>3, <3>4
  <2> QED
      BY <2>2, <2>3, <2>4, <2>5
<1>4. PICK found \in SUBSET Modes, read \in SUBSET Modes :
        /\ read \subseteq found
        /\ \/ /\ wanted = {} /\ Suspects = {} /\ UNCHANGED page
              /\ client' = [client EXCEPT !.synced = TRUE]
           \/ ApplyModes(wanted, found, read)
    BY DEF SelectModes
<1> QED
    BY <1>2, <1>3, <1>4

\* The modes are set before the prompt is typed, or noted as lost.
LEMMA SelectKeeps ==
    ASSUME SafeInv, Select
    PROVE  SafeInv' /\ page'.sent = page.sent
<1>1. /\ In("select") /\ "select" # Last(prov) /\ turn' = Ahead(turn)
      /\ UNCHANGED <<newest, clipVars, call, prov>> /\ SelectModes
    BY DEF Select, Last
<1>2. Onto /\ Step = "select" /\ Step' = "verify" /\ HasModes
    BY <1>1, AheadMoves DEF SafeInv, Follows, Peculiar, HasModes, DomProviders
<1>3. GroupsOf[call.id] \subseteq Modes
    BY PageAssumption DEF SafeInv, TurnTypeOK, Calls
<1>4. /\ page' \in PageType /\ client' \in ClientType
      /\ page'.sent = page.sent /\ page'.draft = page.draft
      /\ page'.replied = page.replied /\ page'.turns = page.turns
      /\ page'.on \subseteq client'.memo \cup client'.lost
      /\ page'.on \subseteq GroupsOf[call.id] \cup client'.lost
    BY <1>1, <1>2, <1>3, ModesReconciled DEF SafeInv, TurnTypeOK, PlaceInv
<1>5. TurnTypeOK'
    BY <1>1, <1>2, <1>4 DEF SafeInv, TurnTypeOK, Onto, clipVars
<1>6. SendInv' /\ page'.draft # "whole"
    BY <1>2, <1>4 DEF SafeInv, SendInv, Typing
<1>7. PlaceInv'
    BY <1>1, <1>2, <1>4, <1>6 DEF PlaceInv, Unverified
<1> QED
    BY <1>4, <1>5, <1>6, <1>7 DEF SafeInv

\* The prompt is typed, or submits itself while it is pasted.
LEMMA EnterKeeps ==
    ASSUME SafeInv, Enter
    PROVE  SafeInv' /\ page'.sent = page.sent
<1>1. /\ In("enter") /\ "enter" # Last(prov)
      /\ UNCHANGED <<newest, clipVars, client, call, prov>>
    BY DEF Enter, ThePage, Last
<1>2. PICK d \in {"whole", "part"} :
        /\ page' = [page EXCEPT !.draft = d]
        /\ d = "whole" => turn' = Ahead(turn)
        /\ d = "part" => turn' \in {[turn EXCEPT !.tries = 1], Done(turn, "unsent")}
    BY DEF Enter
<1>3. /\ page' \in PageType /\ page'.draft = d /\ page'.sent = page.sent
      /\ page'.replied = page.replied /\ page'.turns = page.turns
      /\ page'.temp = page.temp /\ page'.on = page.on
    BY <1>2 DEF SafeInv, TurnTypeOK, PageType
<1>4. /\ Step = "enter" /\ turn' \in TurnType /\ turn'.at \in 0 .. Len(Script[prov'])
      /\ Step' \in {"probe", "submit", "enter", "idle"}
      /\ Step' = "enter" => d = "part"
  <2>1. CASE turn' = Ahead(turn) /\ d = "whole"
      BY <1>1, <2>1, AheadMoves DEF SafeInv, Follows, Onto
  <2>2. CASE turn' = Done(turn, "unsent")
      BY <1>1, <2>2, DoneMoves DEF SafeInv, Reasons, Onto
  <2>3. CASE turn' = [turn EXCEPT !.tries = 1] /\ d = "part"
    <3>1. 1 \in 0 .. MaxTries
        BY TurnAssumption
    <3>2. turn' \in TurnType /\ turn'.at = turn.at
        BY <2>3, <3>1 DEF SafeInv, TurnTypeOK, TurnType
    <3> QED
        BY <1>1, <2>3, <3>2, StayOn DEF SafeInv
  <2> QED
      BY <1>2, <2>1, <2>2, <2>3
<1>5. TurnTypeOK'
    BY <1>1, <1>3, <1>4 DEF SafeInv, TurnTypeOK, clipVars
<1>6. SendInv'
    BY <1>3, <1>4 DEF SafeInv, SendInv, Typing
<1>7. Placed'
    BY <1>1, <1>3, <1>4 DEF SafeInv, PlaceInv, Placed, Unverified, Unset, HasModes
<1>8. PlaceInv'
    BY <1>1, <1>3, <1>4, <1>7 DEF SafeInv, PlaceInv, Placed, HasModes
<1> QED
    BY <1>3, <1>5, <1>6, <1>8 DEF SafeInv

\* The one press: it sends what is in the composer where it then is.
LEMMA PressSendKeeps ==
    ASSUME SafeInv, PressSend
    PROVE  SafeInv' /\ (page'.sent > page.sent => Placed)
<1>1. /\ In("press") /\ "press" # Last(prov)
      /\ UNCHANGED <<newest, clipVars, client, call, prov>>
      /\ page' \in {page, Press(page)}
      /\ turn' = Ahead(turn) \/ \E r \in Reasons : turn' = Done(turn, r)
    BY DEF PressSend, ThePage, Last, Reasons
<1>2. Onto /\ Step = "press" /\ Step' \in {"ack", "idle"}
  <2>1. CASE turn' = Ahead(turn)
      BY <1>1, <2>1, AheadMoves DEF SafeInv, Follows
  <2>2. ASSUME NEW r \in Reasons, turn' = Done(turn, r)
        PROVE  Onto /\ Step = "press" /\ Step' = "idle"
      BY <1>1, <2>2, DoneMoves DEF SafeInv
  <2> QED
      BY <1>1, <2>1, <2>2
<1>3. page.sent = 1 => page.draft = "empty"
    BY <1>2 DEF SafeInv, SendInv
<1>4. /\ page' \in PageType /\ page'.sent \in {0, 1} /\ page'.draft = page.draft
      /\ page'.turns = page.turns /\ page'.temp = page.temp /\ page'.on = page.on
  <2>1. CASE page' = page
      BY <2>1 DEF SafeInv, TurnTypeOK, SendInv
  <2>2. CASE page.sent = 0 /\ page' = [page EXCEPT !.sent = 1]
      BY <2>2 DEF SafeInv, TurnTypeOK, PageType
  <2>3. page.sent \in {0, 1}
      BY DEF SafeInv, SendInv
  <2>4. CASE page' = Press(page) /\ page.draft # "empty"
      BY <1>3, <2>2, <2>3, <2>4 DEF Press, SafeInv, TurnTypeOK, PageType
  <2> QED
      BY <1>1, <2>1, <2>4 DEF Press
<1>5. Placed
    BY <1>2 DEF SafeInv, PlaceInv, Placed, Unverified, Unset
<1>6. TurnTypeOK'
    BY <1>1, <1>2, <1>4 DEF SafeInv, TurnTypeOK, Onto, clipVars
<1>7. SendInv'
    BY <1>2, <1>4 DEF SendInv, Typing
<1>8. PlaceInv'
    BY <1>1, <1>4, <1>5 DEF SafeInv, PlaceInv, Placed, HasModes
<1> QED
    BY <1>5, <1>6, <1>7, <1>8 DEF SafeInv

\* Gemini makes the image again from the turn that was sent.
LEMMA RedoKeeps ==
    ASSUME SafeInv, Redo
    PROVE  SafeInv' /\ page'.sent = page.sent
<1>1. /\ In("redo") /\ UNCHANGED <<clipVars, client, call, prov>>
    BY DEF Redo
<1>2. Step = "redo" /\ prov = "gemini" /\ "redo" # Last(prov)
    BY <1>1, WhoseStep DEF SafeInv, Peculiar, Last
<1>3. turn' \in TurnType /\ turn'.at \in 0 .. Len(Script[prov'])
      /\ Step' \in {"images", "resettle"}
  <2>1. CASE turn' = Jump(turn, "images")
      BY <1>1, <1>2, <2>1, JumpMoves DEF SafeInv, Onto
  <2>2. CASE newest[Me] # None /\ turn' = [Ahead(turn) EXCEPT !.base = page.turns - 1]
    <3>1. page.turns - 1 \in Nat
        BY <2>2 DEF SafeInv, TurnTypeOK, PageType
    <3>2. Ahead(turn) \in TurnType /\ Ahead(turn).at = turn.at + 1
        BY AheadIs DEF SafeInv, TurnTypeOK
    <3>3. turn' \in TurnType /\ turn'.at = turn.at + 1
        BY <2>2, <3>1, <3>2 DEF TurnType
    <3> QED
        BY <1>1, <1>2, <3>3, GoOn DEF SafeInv, Follows
  <2> QED
      BY <2>1, <2>2 DEF Redo
<1>4. /\ page' \in PageType /\ page'.sent = page.sent /\ page'.draft = page.draft
      /\ page'.temp = page.temp /\ page'.on = page.on
      /\ newest' \in [Tabs -> Contents \cup {None}]
      /\ newest'[Me] # None => page'.turns > 0
  <2> USE DEF SafeInv, TurnTypeOK
  <2>1. CASE UNCHANGED <<page, newest>>
      BY <2>1
  <2>2. CASE newest[Me] = "image" /\ Show("part")
             /\ page' \in {[page EXCEPT !.stop = TRUE],
                           [page EXCEPT !.stop = TRUE, !.turns = 3]}
    <3>1. newest' \in [Tabs -> Contents \cup {None}]
        BY <2>2, ShowIs, TurnAssumption DEF Growing
    <3>2. newest[Me] # None
        BY <2>2, ClipboardAssumption, TurnAssumption DEF Final
    <3>3. CASE page' = [page EXCEPT !.stop = TRUE]
        BY <3>1, <3>2, <3>3 DEF PageType
    <3>4. CASE page' = [page EXCEPT !.stop = TRUE, !.turns = 3]
      <4>1. page' \in PageType /\ page'.turns = 3
          BY <3>4 DEF PageType
      <4>2. /\ page'.sent = page.sent /\ page'.draft = page.draft
            /\ page'.temp = page.temp /\ page'.on = page.on
          BY <3>4 DEF PageType
      <4> QED
          BY <3>1, <4>1, <4>2
    <3> QED
        BY <2>2, <3>3, <3>4
  <2> QED
      BY <2>1, <2>2 DEF Redo
<1>5. TurnTypeOK'
    BY <1>1, <1>3, <1>4 DEF SafeInv, TurnTypeOK, clipVars
<1>6. SendInv'
    BY <1>3, <1>4 DEF SafeInv, SendInv, Typing
<1>7. PlaceInv'
    BY <1>1, <1>2, <1>3, <1>4 DEF SafeInv, PlaceInv, Placed, Unverified, Unset, HasModes
<1> QED
    BY <1>4, <1>5, <1>6, <1>7 DEF SafeInv

-----------------------------------------------------------------------------
\* The copy steps of every tab leave the page and the prompt alone.
LEMMA CopyTypes ==
    ASSUME TurnTypeOK, NEW t \in Tabs, NEW stale, NEW transient,
           CopyStep(t, stale, transient) \/ Land(t)
    PROVE  copying' \in [Tabs -> Steps] /\ got' \in [Tabs -> ClipContent]
           /\ clip' \in ClipContent
<1> USE DEF TurnTypeOK
<1>1. Own(t) \in ClipContent /\ None \in ClipContent
    BY DEF Own, ClipContent
<1>2. CASE Grab(t)
    BY <1>1, <1>2 DEF Grab, Go, Steps
<1>3. CASE ReadPre(t) \/ Clear(t) \/ Sleep(t)
    BY <1>1, <1>3 DEF ReadPre, Clear, Sleep, Go, Steps
<1>4. CASE Click(t, stale) \/ CopyFails(t)
    BY <1>4 DEF Click, CopyFails, Go, Steps
<1>5. CASE ReadBack(t)
  <2>1. clip' = clip /\ \/ Go(t, "dom") /\ UNCHANGED got
                        \/ Go(t, "idle") /\ got' = [got EXCEPT ![t] = clip]
                        \/ Go(t, "idle") /\ got' = [got EXCEPT ![t] = None]
      BY <1>5 DEF ReadBack
  <2> QED
      BY <1>1, <2>1 DEF Go, Steps
<1>6. CASE ViaDom(t, stale, transient)
    BY <1>1, <1>6 DEF ViaDom, Go, Steps
<1>7. CASE Land(t)
    BY <1>1, <1>7 DEF Land, ClipContent
<1> QED
    BY <1>2, <1>3, <1>4, <1>5, <1>6, <1>7 DEF CopyStep

\* So do the copy step of Me and those of the other tabs.
LEMMA CopiesKeep ==
    ASSUME SafeInv, \/ Copy
                    \/ Land(Me) /\ UNCHANGED <<newest, page, client, call, prov, turn>>
                    \/ \E t \in Tabs \ {Me} : OtherTab(t)
    PROVE  SafeInv' /\ page' = page /\ newest' = newest /\ call' = call /\ prov' = prov
           /\ Step' = Step /\ (turn' # turn => Step = "extract")
<1>1. /\ UNCHANGED <<newest, page, client, call, prov>>
      /\ copying' \in [Tabs -> Steps] /\ got' \in [Tabs -> ClipContent]
      /\ clip' \in ClipContent
    BY PageAssumption, CopyTypes DEF SafeInv, Copy, OtherTab
<1>2. /\ turn' \in TurnType /\ turn'.at = turn.at /\ (turn' # turn => In("extract"))
  <2>1. "part" \in Contents
      BY TurnAssumption DEF Growing
  <2> QED
      BY <2>1 DEF SafeInv, TurnTypeOK, TurnType, Copy, OtherTab
<1>3. Step' = Step
    BY <1>1, <1>2 DEF Step
<1>4. TurnTypeOK'
    BY <1>1, <1>2 DEF SafeInv, TurnTypeOK
<1>5. SendInv' /\ PlaceInv'
    BY <1>1, <1>3 DEF SafeInv, SendInv, PlaceInv, Placed, Unverified, HasModes
<1> QED
    BY <1>1, <1>2, <1>3, <1>4, <1>5, WhoseStep DEF SafeInv

-----------------------------------------------------------------------------
\* What the site may do to the page.
SiteEffect ==
    /\ page' \in PageType /\ page'.temp = page.temp /\ page'.on = page.on
    /\ page'.draft \in {page.draft, "empty"}
    /\ \/ page'.sent = page.sent
       \/ page.sent = 0 /\ page'.sent = 1 /\ page.draft = "whole" /\ page'.draft = "empty"
    /\ page'.replied = page.replied \/ page.sent > 0
    /\ newest' \in [Tabs -> Contents \cup {None}]
    /\ newest'[Me] # None => page'.turns > 0

\* What the site can do to the page by itself.
LEMMA SiteEffects ==
    ASSUME TurnTypeOK, SiteStep
    PROVE  SiteEffect
<1> USE DEF TurnTypeOK, SiteEffect
<1>1. {"old", "status", "part", "whole", "image"} \subseteq Contents
    BY TurnAssumption DEF Growing, Final
<1>2. ASSUME NEW c \in {"old", "status", "part", "whole", "image"}, Show(c)
      PROVE  newest' \in [Tabs -> Contents \cup {None}]
    BY <1>1, <1>2, ShowIs
<1>3. CASE Render
  <2>1. page' =
              [turns |-> page.turns + 1, hidden |-> FALSE, backlog |-> page.backlog,
               sent |-> page.sent,
                replied |-> page.replied, stop |-> page.stop, draft |-> page.draft,
                temp |-> page.temp, on |-> page.on]
      BY <1>3 DEF Render, PageType
  <2>2. page' \in PageType
      BY <2>1 DEF PageType
  <2>3. page.sent \in Nat /\ page.turns \in Nat
      BY DEF PageType
  <2> QED
      BY <1>2, <1>3, <2>1, <2>2, <2>3 DEF Render
<1>4. CASE AnswerBacklog
  <2>1. page' =
              [turns |-> page.turns + 1, hidden |-> page.hidden, backlog |-> FALSE,
               sent |-> page.sent,
                replied |-> page.replied, stop |-> page.stop, draft |-> page.draft,
                temp |-> page.temp, on |-> page.on]
      BY <1>4 DEF AnswerBacklog, PageType
  <2>2. page' \in PageType
      BY <2>1 DEF PageType
  <2>3. page.sent \in Nat /\ page.turns \in Nat
      BY DEF PageType
  <2> QED
      BY <1>2, <1>4, <2>1, <2>2, <2>3 DEF AnswerBacklog
<1>5. CASE EndBacklog
    BY <1>5 DEF EndBacklog, PageType
<1>6. CASE StartReply
  <2>1. page' =
              [turns |-> page.turns + 1, hidden |-> page.hidden, backlog |-> page.backlog,
               sent |-> page.sent,
                replied |-> TRUE, stop |-> TRUE, draft |-> "empty",
                temp |-> page.temp, on |-> page.on]
      BY <1>6 DEF StartReply, PageType
  <2>2. page' \in PageType
      BY <2>1 DEF PageType
  <2>3. page.sent \in Nat /\ page.turns \in Nat
      BY DEF PageType
  <2>4. page.sent > 0 /\ Show("status") /\ page'.turns > 0
      BY <1>6, <2>1, <2>3 DEF StartReply
  <2>5. newest' \in [Tabs -> Contents \cup {None}]
      BY <1>2, <2>4
  <2> QED
      BY <2>1, <2>2, <2>4, <2>5
<1>7. CASE Grow
  <2>1. newest[Me] # None
      BY <1>1, <1>7, ClipboardAssumption DEF Grow
  <2> QED
      BY <1>2, <1>7, <2>1 DEF Grow
<1>8. CASE FinishReply
  <2>1. newest[Me] # None
      BY <1>1, <1>8, ClipboardAssumption DEF FinishReply, Growing
  <2> QED
      BY <1>2, <1>8, <2>1 DEF FinishReply, Final, PageType
<1>9. CASE Paint
  <2>1. newest[Me] # None
      BY <1>1, <1>9, ClipboardAssumption DEF Paint
  <2> QED
      BY <1>2, <1>9, <2>1 DEF Paint
<1>10. CASE EmptyDraft
    BY <1>10 DEF EmptyDraft, PageType
<1>11. CASE AutoSend
  <2>1. page' =
              [turns |-> page.turns, hidden |-> page.hidden, backlog |-> page.backlog,
               sent |-> 1,
                replied |-> page.replied, stop |-> page.stop, draft |-> "empty",
                temp |-> page.temp, on |-> page.on]
      BY <1>11 DEF AutoSend, PageType
  <2>2. page' \in PageType
      BY <2>1 DEF PageType
  <2>3. page.sent \in Nat /\ page.turns \in Nat
      BY DEF PageType
  <2> QED
      BY <1>2, <1>11, <2>1, <2>2, <2>3 DEF AutoSend
<1> QED
    BY <1>3, <1>4, <1>5, <1>6, <1>7, <1>8, <1>9, <1>10, <1>11 DEF SiteStep

\* The site sends a draft only where a paste may submit itself.
LEMMA SiteKeeps ==
    ASSUME SafeInv, SiteStep, UNCHANGED <<clipVars, client, call, prov, turn>>
    PROVE  SafeInv' /\ Step' = Step /\ (page'.sent > page.sent => Placed)
<1>1. SiteEffect
    BY SiteEffects DEF SafeInv
<1>2. Step' = Step
    BY DEF Step
<1>3. TurnTypeOK'
    BY <1>1 DEF SafeInv, TurnTypeOK, SiteEffect, clipVars
<1>4. page.draft = "whole" => Placed
    BY DEF SafeInv, PlaceInv
<1>5. page'.sent > page.sent => page.draft = "whole"
    BY <1>1 DEF SiteEffect, SafeInv, SendInv
<1>6. SendInv'
    BY <1>1, <1>2 DEF SafeInv, SendInv, SiteEffect
<1>7. PlaceInv'
    BY <1>1, <1>2, <1>4 DEF SafeInv, PlaceInv, Placed, SiteEffect, Unverified, HasModes
<1> QED
    BY <1>2, <1>3, <1>4, <1>5, <1>6, <1>7 DEF SafeInv

\* The next caller: no prompt is left in the composer that could be sent.
LEMMA BeginKeeps ==
    ASSUME SafeInv, Begin
    PROVE  SafeInv' /\ Step = "idle" /\ Step' = "open" /\ page'.sent = 0
<1> USE DEF SafeInv, TurnTypeOK
<1>1. turn' \in TurnType /\ turn'.at = 1
  <2>1. turn' = [at |-> 1, base |-> 0, blind |-> FALSE, seen |-> turn.seen,
                 same |-> turn.same, expired |-> turn.expired,
                 tries |-> turn.tries, cut |-> FALSE, result |-> None,
                 n |-> turn.n + 1]
      BY DEF Begin, TurnType
  <2>2. turn.n + 1 \in 0 .. MaxCalls
      BY TurnAssumption DEF Begin, TurnType
  <2> QED
      BY <2>1, <2>2 DEF TurnType
<1>2. Step = "idle" /\ prov' = prov /\ turn'.at \in 0 .. Len(Script[prov'])
      /\ Step' = "open"
    BY <1>1, ScriptLength DEF Begin, Step
<1>3. /\ page' \in PageType /\ page'.sent = 0 /\ page'.replied = FALSE
      /\ page'.turns = (IF page.turns = 0 THEN 0 ELSE 1)
      /\ page'.draft \in {"empty", "part"} /\ page'.on = page.on
  <2>1. page' = [turns |-> IF page.turns = 0 THEN 0 ELSE 1, hidden |-> page.hidden,
                 backlog |-> page.backlog \/ (page.sent > 0 /\ ~page.replied),
                 sent |-> 0, replied |-> FALSE, stop |-> page.stop,
                 draft |-> IF page.draft = "empty" THEN page.draft ELSE "part",
                 temp |-> page.temp, on |-> page.on]
      BY DEF Begin, PageType
  <2>2. page' \in PageType
      BY <2>1 DEF PageType
  <2> QED
      BY <2>1, <2>2 DEF PageType
<1>4. newest' \in [Tabs -> Contents \cup {None}] /\ (newest'[Me] # None => page'.turns > 0)
    BY <1>3, PageAssumption, TurnAssumption DEF Begin, PageType
<1>5. copying' \in [Tabs -> Steps] /\ got' \in [Tabs -> ClipContent]
      /\ clip' \in ClipContent
    BY PageAssumption, TurnAssumption DEF Begin, ClipContent
<1>6. call' \in Calls /\ client' = client
    BY DEF Begin
<1>7. TurnTypeOK'
    BY <1>1, <1>2, <1>3, <1>4, <1>5, <1>6
<1>8. SendInv'
    BY <1>2, <1>3 DEF SendInv, Typing
<1>9. PlaceInv'
    BY <1>2, <1>3, <1>6 DEF PlaceInv, Unverified, Unset, HasModes
<1> QED
    BY <1>2, <1>3, <1>7, <1>8, <1>9

\* The first caller finds a page to which nothing was sent.
LEMMA SafeInit ==
    ASSUME TurnInit
    PROVE  SafeInv
<1>1. turn \in TurnType /\ turn.at = 0 /\ Step = "idle" /\ prov \in AllProviders
      /\ turn.at \in 0 .. Len(Script[prov])
  <2>1. turn \in TurnType /\ turn.at = 0 /\ Step = "idle" /\ prov \in AllProviders
      BY TurnAssumption DEF TurnInit, TurnType, Step
  <2> QED
      BY <2>1, ScriptLength
<1>2. /\ page \in PageType /\ page.sent = 0 /\ page.draft = "empty"
      /\ client \in ClientType /\ client.synced = FALSE
    BY DEF TurnInit, PageType, ClientType
<1>3. Plain \in Ids
    BY PageAssumption DEF Plain
<1>4. call \in Calls
    BY <1>3 DEF TurnInit, Calls
<1>5. /\ newest \in [Tabs -> Contents \cup {None}]
      /\ newest[Me] # None => page.turns > 0
    BY PageAssumption, TurnAssumption DEF TurnInit, Final
<1>6. copying \in [Tabs -> Steps] /\ got \in [Tabs -> ClipContent] /\ clip \in ClipContent
    BY DEF TurnInit, ClipInit, Steps, ClipContent
<1>7. TurnTypeOK
    BY <1>1, <1>2, <1>4, <1>5, <1>6 DEF TurnTypeOK
<1>8. SendInv /\ PlaceInv
    BY <1>1, <1>2 DEF SendInv, Typing, PlaceInv, Unverified, Unset
<1> QED
    BY <1>7, <1>8 DEF SafeInv

-----------------------------------------------------------------------------
\* Every step, at last; and a step that sends, sends to the right place.
LEMMA StepKeeps ==
    ASSUME SafeInv, [TurnNext]_tvars
    PROVE  SafeInv' /\ (page'.sent > page.sent => Placed)
<1>1. CASE UNCHANGED tvars
    BY <1>1 DEF tvars, clipVars, SafeInv, TurnTypeOK, SendInv, PlaceInv, Placed, Step,
       Unverified, HasModes, PageType
<1>2. page'.sent = page.sent => ~(page'.sent > page.sent)
    BY DEF SafeInv, SendInv
<1>8. CASE Quietly
    BY <1>2, <1>8, QuietKeeps DEF Quietly
<1>3. CASE ClientStep
  <2>1. CASE Touching
      BY <1>2, <2>1, OpenKeeps, ForgetKeeps, PickKeeps, SelectKeeps, EnterKeeps,
         PressSendKeeps, RedoKeeps DEF Touching
  <2>2. CASE Copy
    <3>1. SafeInv' /\ page' = page
        BY <2>2, CopiesKeep
    <3> QED
        BY <1>2, <3>1
  <2>3. CASE ~Touching /\ ~Copy
      BY <1>3, <1>8, <2>3, PassingMoves, BaselineMoves, ProbeMoves, StrategyMoves,
         StayMoves, ReadingMoves DEF ClientStep, Touching, SafeInv
  <2> QED
      BY <2>1, <2>2, <2>3
<1>4. CASE Deadline
    BY <1>4, <1>8, StayMoves DEF SafeInv
<1>5. CASE Site_
  <2>1. CASE Land(Me) /\ UNCHANGED <<newest, page, client, call, prov, turn>>
      BY <2>1, CopiesKeep DEF SafeInv, SendInv
  <2> QED
      BY <1>5, <2>1, SiteKeeps DEF Site_
<1>6. CASE Begin
    BY <1>6, BeginKeeps DEF SafeInv, SendInv
<1>7. CASE \E t \in Tabs \ {Me} : OtherTab(t)
    BY <1>7, CopiesKeep DEF SafeInv, SendInv
<1> QED
    BY <1>1, <1>3, <1>4, <1>5, <1>6, <1>7 DEF TurnNext

\* Every step of send_message, of the page, of the other tabs and of the next
\* caller keeps the prompt's place and the count of its sends.
THEOREM TurnSafety == TurnSpec => []SafeInv
<1>1. SafeInv /\ [TurnNext]_tvars => SafeInv'
    BY StepKeeps
<1> QED
    BY <1>1, SafeInit, PTL DEF TurnSpec

\* "Never retry a dispatched click" (composer.py:248): no sequence of pastes that
\* the page submits by itself, presses, failures and deadlines sends a prompt
\* twice.
THEOREM PromptSentOnce == TurnSpec => []SubmittedOnce
<1>1. SafeInv => SubmittedOnce
    BY DEF SafeInv, SendInv, SubmittedOnce
<1> QED
    BY <1>1, TurnSafety, PTL

\* A temporary request is sent into a temporary chat, and none into a mode that it
\* did not ask for (text_client.py:134), unless the client last left that mode's
\* switch unfound or unread.
THEOREM PromptRightlyPlaced == TurnSpec => RightPlace
<1>1. SafeInv /\ [TurnNext]_tvars =>
        [page'.sent > page.sent =>
           /\ call.temp => page.temp
           /\ HasModes => page.on \subseteq GroupsOf[call.id] \cup client.lost]_tvars
    BY StepKeeps DEF Placed
<1> QED
    BY <1>1, TurnSafety, PTL DEF TurnSpec, RightPlace

\* The steps before the turns are counted, for good.
Uncounted == {"open", "render", "health", "forget", "pick", "select", "baseline"}
             \cup (IF prov \in DomProviders THEN {"verify"} ELSE {})

\* The turns were counted while no older turn was still to come.
Counted == Step \notin Uncounted \cup {"idle"} /\ ~turn.blind

\* What a turn of this prompt shows, and what the client may take for its end.
Shown == Growing \cup Final
Fit(c) == c \in Shown /\ (~turn.cut => c \in Final)

\* The steps before the press, where an earlier generation may still be running;
\* those that only a turn of this prompt leads to; those after which Gemini
\* makes the image again.
BeforePress == Typing \cup {"probe", "submit"}
AfterReply == {"settle", "read", "redo", "resettle", "images", "extract"}
Remaking == {"redo", "resettle", "images", "extract"}

\* A turn above the count is the reply to this prompt, and what the client took
\* for the end of the reply is one.
Watched ==
    /\ ~page.hidden /\ ~page.backlog
    /\ ~page.replied => page.turns = turn.base
    /\ page.replied => newest[Me] \in Shown
    /\ page.replied /\ ~page.stop => newest[Me] \in Final
    /\ page.replied /\ Step \notin Remaking => page.turns = turn.base + 1
    /\ Step \notin BeforePress /\ page.stop => page.replied
    /\ Step \in AfterReply => page.replied
    /\ Step \in {"stopped", "stable"} => turn.cut
    /\ Step \in {"stopped", "stable"} /\ turn.seen # None => page.replied
    /\ prov # "text" =>
         /\ Step = "settle" /\ turn.seen # None => newest[Me] \in Final
         /\ Step = "read" => newest[Me] \in Final
    /\ Step \in {"images", "extract"} /\ prov \in {"chatgpt", "claude"} => Fit(newest[Me])

PageInv ==
    /\ Step \in Uncounted => turn.result = None
    /\ turn.same > 0 => turn.seen # None /\ Step \in {"stable", "settle", "resettle"}
    /\ Counted => Watched

\* What the clipboard may hold for Me: no text, one known before, or the reply.
Fair(c) == c \in {None, pre} \/ (c \in {Me} \X Contents /\ Fit(c[2]))

\* What the copy step of Me has in hand is what Me's page shows, unless another
\* copy disturbed it.
CopyInv ==
    /\ Step # "extract" => copying[Me] = "idle"
    /\ Step \notin {"extract", "idle"} => got[Me] = None
    /\ Step = "extract" /\ ~turn.blind /\ Me \notin disturbed =>
         /\ got[Me] # None => Fit(got[Me][2])
         /\ copying[Me] \in Cleared => Fair(clip)

\* RightReply; a call under way has no text of a disturbed copy yet.
RightInv ==
    ~turn.blind /\ (Step # "idle" \/ Me \notin disturbed) =>
      /\ turn.result # "old"
      /\ turn.result \in Growing => turn.cut \/ prov = "text"

ReplyInv == SafeInv /\ ClipInv /\ PageInv /\ CopyInv /\ RightInv

-----------------------------------------------------------------------------
\* The contents differ from one another and from None and the reasons.
LEMMA Different ==
    /\ None \notin Shown /\ None # "old" /\ None \notin Reasons /\ None # "part"
    /\ Shown \cap Reasons = {} /\ "old" \notin Shown \cup Reasons
    /\ Final \cap Growing = {} /\ Shown \cup {"old"} \subseteq Contents
BY ClipboardAssumption, TurnAssumption DEF Shown, Growing, Final, Reasons

\* A turn that is new is the reply.
LEMMA NewIsReply ==
    ASSUME SafeInv, Watched, NewTurn \/ MoreTurns
    PROVE  page.replied /\ newest[Me] \in Shown
BY DEF SafeInv, TurnTypeOK, PageType, TurnType, Watched, NewTurn, MoreTurns

\* A quiet step leaves the copies where they are.
LEMMA QuietCopies ==
    ASSUME ReplyInv, Quietly, Step # "idle",
           Step = "extract" => /\ copying[Me] = "idle"
                               /\ turn'.cut = turn.cut /\ turn'.blind = turn.blind
    PROVE  ClipInv' /\ CopyInv'
<1>1. ClipInv'
    BY DEF ReplyInv, Quietly, ClipInv, ClipTypeOK, InsideLocked, ClipOwn,
       OwnText, clipVars
<1>2. /\ Step = "extract" => Step' \in {"extract", "idle"}
      /\ UNCHANGED <<got, copying, clip, pre, disturbed>>
    BY DEF Quietly, Onward, Follows, clipVars
<1>3. CopyInv'
  <2>1. CASE Step = "extract"
      BY <1>2, <2>1 DEF ReplyInv, CopyInv, Fit, Cleared
  <2>2. CASE Step # "extract"
      BY <1>2, <2>2 DEF ReplyInv, CopyInv, Cleared
  <2> QED
      BY <2>1, <2>2
<1> QED
    BY <1>1, <1>3

\* A call that ends with a reason, or with a text that may be returned.
LEMMA DoneReplies ==
    ASSUME ReplyInv, Quietly, NEW s, In(s), s # "idle",
           NEW r \in Contents \cup Reasons \cup {None}, turn' = Done(turn, r),
           ~turn.blind /\ Me \notin disturbed =>
             r # "old" /\ (r \in Growing => turn.cut \/ prov = "text"),
           s = "extract" => copying[Me] = "idle"
    PROVE  ReplyInv'
<1>1. TurnTypeOK /\ prov' = prov
    BY DEF ReplyInv, SafeInv, Quietly
<1>2. /\ Onto /\ turn'.result = r
      /\ Step = s /\ Step' = "idle"
    BY <1>1, DoneMoves
<1>3. turn'.blind = turn.blind /\ turn'.cut = turn.cut /\ turn'.same = 0
    BY <1>2 DEF Onto, SameTurn, Fresh
<1>4. PageInv'
    BY <1>2, <1>3 DEF PageInv, Counted, Uncounted
<1>5. RightInv'
    BY <1>1, <1>2, <1>3 DEF RightInv, Quietly, clipVars
<1> QED
    BY <1>2, <1>3, <1>4, <1>5, QuietKeeps, QuietCopies DEF ReplyInv

\* The steps that end with the next one of the script or with a reason.
LEMMA PassingReplies ==
    ASSUME ReplyInv, Rendered \/ Health \/ Verify \/ Upload \/ Submit \/ Ack
                     \/ Confirm \/ Appear \/ Settle \/ Resettle
    PROVE  ReplyInv'
<1>1. Quietly
    BY PassingMoves DEF ReplyInv, SafeInv
<1>2. PICK s \in {"render", "health", "verify", "upload", "submit", "ack", "confirm",
                  "appear", "settle", "resettle"} :
        /\ In(s) /\ prov' = prov
        /\ \/ /\ turn' = Ahead(turn)
              /\ s = "submit" => ~page.stop
              /\ s = "appear" => MoreTurns
              /\ s = "settle" => Steady
           \/ \E r \in Reasons : turn' = Done(turn, r)
    BY DEF Rendered, Health, Verify, Upload, Submit, Ack, Confirm, Appear, Settle,
           Resettle, Reasons, MayPress, NoPage
<1>3. s # Last(prov)
    BY DEF Last
<1>4. ReplyInv => SafeInv /\ TurnTypeOK
    BY DEF ReplyInv, SafeInv
<1>5. CASE /\ turn' = Ahead(turn)
           /\ s = "submit" => ~page.stop
           /\ s = "appear" => MoreTurns
           /\ s = "settle" => Steady
  <2>1. /\ Onto /\ turn'.result = turn.result
        /\ Step = s /\ Peculiar(prov, s)
        /\ Follows(prov, s, Step') /\ Peculiar(prov, Step')
      BY <1>2, <1>3, <1>4, <1>5, AheadMoves
  <2>2. /\ turn'.base = turn.base /\ turn'.blind = turn.blind /\ turn'.cut = turn.cut
        /\ turn'.seen = None /\ turn'.same = 0
      BY <2>1 DEF Onto, SameTurn, Fresh
  <2>3. Counted' => Counted /\ Step' \notin Uncounted
      BY <1>2, <2>1, <2>2 DEF Counted, Uncounted, Follows, DomProviders, StepNames
  <2>4. s = "appear" /\ Counted => page.replied
      BY <1>4, <1>5, NewIsReply DEF ReplyInv, PageInv
  <2>5. s = "settle" => turn.seen # None
      BY <1>5, TurnAssumption DEF Steady, ReplyInv, PageInv
  <2>6. Counted' => Watched'
      BY <1>1, <1>5, <2>1, <2>2, <2>3, <2>4, <2>5, Different
         DEF ReplyInv, PageInv, Watched, Quietly, Follows, Peculiar, BeforePress, Typing,
         AfterReply, Remaking, StepNames, DomProviders
  <2>7. PageInv'
      BY <1>2, <2>1, <2>2, <2>6 DEF ReplyInv, PageInv, Uncounted, Follows, DomProviders, StepNames
  <2>8. RightInv'
      BY <1>2, <2>1, <2>2 DEF ReplyInv, RightInv
  <2> QED
      BY <1>1, <1>4, <2>1, <2>7, <2>8, QuietKeeps, QuietCopies DEF ReplyInv, Follows
<1>6. ASSUME NEW r \in Reasons, turn' = Done(turn, r)
      PROVE  ReplyInv'
  <2>1. r # "old" /\ r \notin Growing
      BY Different DEF Shown
  <2> QED
      BY <1>1, <1>2, <1>6, <2>1, DoneReplies
<1> QED
    BY <1>2, <1>5, <1>6

\* The turns are counted.
LEMMA BaselineReplies ==
    ASSUME ReplyInv, Baseline
    PROVE  ReplyInv'
<1>1. /\ Quietly /\ In("baseline") /\ "baseline" # Last(prov) /\ prov' = prov
      /\ TurnTypeOK /\ SafeInv
    BY BaselineMoves DEF ReplyInv, SafeInv, Baseline, NoPage, Last
<1>2. /\ Ahead(turn) \in TurnType /\ SameTurn(Ahead(turn)) /\ Fresh(Ahead(turn))
      /\ Ahead(turn).at = turn.at + 1 /\ Ahead(turn).result = turn.result
    BY <1>1, AheadIs DEF TurnTypeOK
<1>3. /\ turn'.at = turn.at + 1 /\ turn'.cut = turn.cut /\ turn'.result = turn.result
      /\ turn'.seen = None /\ turn'.same = 0
      /\ ~turn'.blind =>
           turn'.base = page.turns /\ ~page.hidden /\ ~page.backlog
  <2>1. PICK n, b : turn' = [Ahead(turn) EXCEPT !.base = n, !.blind = b]
      BY DEF Baseline
  <2>2. /\ turn'.at = turn.at + 1 /\ turn'.cut = turn.cut /\ turn'.result = turn.result
        /\ turn'.seen = None /\ turn'.same = 0
      BY <1>2, <2>1 DEF TurnType, SameTurn, Fresh
  <2>3. CASE turn' = [Ahead(turn) EXCEPT !.base = page.turns, !.blind = Older]
      BY <1>2, <2>2, <2>3 DEF Older, TurnType
  <2>4. CASE turn' = [Ahead(turn) EXCEPT !.base = 0, !.blind = page.turns > 0 \/ Older]
    <3>1. turn'.base = 0 /\ turn'.blind = (page.turns > 0 \/ Older) /\ page.turns \in Nat
        BY <1>1, <1>2, <2>4 DEF TurnTypeOK, PageType, TurnType
    <3>2. ~turn'.blind => ~(page.turns > 0) /\ ~Older
        BY <3>1, Zenon
    <3>3. ~(page.turns > 0) => page.turns = 0
        BY <3>1
    <3> QED
        BY <2>2, <3>1, <3>2, <3>3 DEF Older
  <2> QED
      BY <2>3, <2>4 DEF Baseline
<1>4. /\ Step = "baseline" /\ Follows(prov, "baseline", Step')
      /\ Step' = IF prov \in DomProviders THEN "upload" ELSE "verify"
    BY <1>1, <1>3, GoOn DEF Follows
<1>5. ~page.replied /\ turn.result = None
    BY <1>1, <1>4 DEF ReplyInv, SafeInv, SendInv, Typing, PageInv, Uncounted
<1>6. Counted' => Watched'
    BY <1>1, <1>2, <1>3, <1>4, <1>5 DEF Counted, Watched, Quietly, BeforePress, Typing,
       AfterReply, DomProviders
<1>7. PageInv'
    BY <1>1, <1>3, <1>4, <1>5, <1>6 DEF PageInv, Uncounted, DomProviders
<1>8. RightInv'
    BY <1>3, <1>5, Different DEF RightInv, Growing, Shown
<1> QED
    BY <1>1, <1>4, <1>7, <1>8, QuietKeeps, QuietCopies DEF ReplyInv

\* More turns than counted, after a paste: the reply has begun, and nothing is pressed.
LEMMA ProbeReplies ==
    ASSUME ReplyInv, Probe
    PROVE  ReplyInv'
<1>1. /\ Quietly /\ In("probe") /\ "probe" # Last(prov) /\ prov' = prov
      /\ TurnTypeOK /\ SafeInv
    BY ProbeMoves DEF ReplyInv, SafeInv, Probe, NoPage, Last
<1>2. Step = "probe" /\ prov = "chatgpt"
    BY <1>1, WhoseStep DEF Peculiar
<1>3. /\ Onto /\ turn'.result = turn.result
      /\ Step' = "submit" \/ (Step' = "copyable" /\ MoreTurns)
  <2>1. CASE turn' = Ahead(turn)
      BY <1>1, <2>1, AheadMoves DEF Follows
  <2>2. CASE turn' = Jump(turn, "copyable") /\ MoreTurns
      BY <1>1, <1>2, <2>2, JumpMoves
  <2> QED
      BY <2>1, <2>2 DEF Probe
<1>4. /\ turn'.base = turn.base /\ turn'.blind = turn.blind /\ turn'.cut = turn.cut
      /\ turn'.seen = None /\ turn'.same = 0
    BY <1>3 DEF Onto, SameTurn, Fresh
<1>5. Counted' => Counted
    BY <1>2, <1>3, <1>4 DEF Counted, Uncounted
<1>6. Counted /\ MoreTurns => page.replied
    BY <1>1, NewIsReply DEF ReplyInv, PageInv
<1>7. Counted' => Watched'
    BY <1>1, <1>2, <1>3, <1>4, <1>5, <1>6
       DEF ReplyInv, PageInv, Watched, Quietly, BeforePress, Typing, AfterReply, Remaking
<1>8. PageInv' /\ RightInv'
    BY <1>1, <1>2, <1>3, <1>4, <1>7 DEF ReplyInv, PageInv, RightInv, Uncounted
<1> QED
    BY <1>1, <1>2, <1>8, QuietKeeps, QuietCopies DEF ReplyInv

\* The client takes the reply for complete, gives up waiting for that, or goes
\* over to the next strategy.
LEMMA StrategyReplies ==
    ASSUME ReplyInv, WaitCopyable \/ WaitStreamed \/ WaitStopped \/ WaitStable
    PROVE  ReplyInv'
<1>1. Quietly /\ SafeInv /\ TurnTypeOK /\ prov' = prov
    BY StrategyMoves DEF ReplyInv, SafeInv, Quietly
<1>2. PICK s \in {"copyable", "streamed", "stopped", "stable"} :
        /\ In(s)
        /\ \/ /\ turn' = Complete(turn)
              /\ s = "copyable" => NewTurn /\ newest[Me] \in Copyable \cup {"image"}
              /\ s = "streamed" => NewTurn /\ newest[Me] \notin Growing \cup {None}
              /\ s = "stopped" => turn.seen = "part"
              /\ s = "stable" => Steady
           \/ turn' = Incomplete(turn)
           \/ turn' = GiveWay(turn) /\ s \in {"copyable", "streamed"}
    BY DEF WaitCopyable, WaitStreamed, WaitStopped, WaitStable, Strategy, Copyable_
<1>3. Step = s /\ prov \in {"chatgpt", "claude"} /\ s # Last(prov)
    BY <1>1, <1>2, WhoseStep DEF Peculiar, Last
<1>4. Reading \in {"images", "extract"} /\ (Reading = "images" => prov = "chatgpt")
      /\ (Reading = "extract" => prov = "claude")
    BY <1>3 DEF Reading
<1>5. /\ Jump(turn, Reading) \in TurnType /\ SameTurn(Jump(turn, Reading))
      /\ Fresh(Jump(turn, Reading)) /\ Jump(turn, Reading).at = Target(Reading)
      /\ Jump(turn, Reading).result = turn.result
    BY <1>1, <1>4, JumpIs
<1>6. /\ Ahead(turn) \in TurnType /\ SameTurn(Ahead(turn)) /\ Fresh(Ahead(turn))
      /\ Ahead(turn).at = turn.at + 1 /\ Ahead(turn).result = turn.result
    BY <1>1, AheadIs DEF TurnTypeOK
\* A reply goes to be read: it is there, and complete or cut.
<1>7. ASSUME Step' = Reading, turn'.base = turn.base, turn'.blind = turn.blind,
             turn'.cut = turn.cut \/ turn'.cut, turn'.same = 0,
             turn'.result = turn.result,
             Counted => page.replied /\ (~turn'.cut => newest[Me] \in Final)
      PROVE  ReplyInv'
  <2>1. Counted' => Counted
      BY <1>3, <1>4, <1>7 DEF Counted, Uncounted
  <2>2. Counted' => Watched'
      BY <1>1, <1>3, <1>4, <1>7, <2>1
         DEF ReplyInv, PageInv, Watched, Quietly, BeforePress, Typing, AfterReply, Remaking, Fit
  <2>3. PageInv' /\ RightInv'
      BY <1>1, <1>3, <1>4, <1>7, <2>2 DEF ReplyInv, PageInv, RightInv, Uncounted
  <2> QED
      BY <1>1, <1>3, <2>3, QuietKeeps, QuietCopies DEF ReplyInv
<1>8. CASE /\ turn' = Complete(turn)
           /\ s = "copyable" => NewTurn /\ newest[Me] \in Copyable \cup {"image"}
           /\ s = "streamed" => NewTurn /\ newest[Me] \notin Growing \cup {None}
           /\ s = "stopped" => turn.seen = "part"
           /\ s = "stable" => Steady
  <2>1. turn' = Jump(turn, Reading)
      BY <1>8 DEF Complete
  <2>2. Step' = Reading
      BY <1>1, <1>2, <1>4, <1>5, <2>1, JumpTo
  <2>3. /\ turn'.base = turn.base /\ turn'.blind = turn.blind /\ turn'.cut = turn.cut
        /\ turn'.same = 0 /\ turn'.result = turn.result
      BY <1>5, <2>1 DEF SameTurn, Fresh
  <2>4. ASSUME Counted
        PROVE  page.replied /\ (~turn.cut => newest[Me] \in Final)
    <3>1. Watched
        BY <2>4 DEF ReplyInv, PageInv
    <3>2. CASE s \in {"copyable", "streamed"}
      <4>1. NewTurn /\ newest[Me] \notin Growing
          BY <1>8, <3>2, TurnAssumption DEF Growing
      <4> QED
          BY <1>1, <3>1, <4>1, NewIsReply DEF Shown
    <3>3. CASE s \in {"stopped", "stable"}
      <4>1. turn.seen # None
          BY <1>8, <3>3, Different, TurnAssumption DEF Steady, ReplyInv, PageInv
      <4> QED
          BY <1>3, <3>1, <3>3, <4>1 DEF Watched
    <3> QED
        BY <3>2, <3>3
  <2> QED
      BY <1>7, <2>2, <2>3, <2>4
<1>9. CASE NewTurn /\ turn' = [Jump(turn, Reading) EXCEPT !.cut = TRUE]
  <2>1. /\ turn'.at = Target(Reading) /\ turn'.base = turn.base
        /\ turn'.blind = turn.blind /\ turn'.cut = TRUE /\ turn'.same = 0
        /\ turn'.result = turn.result
      BY <1>5, <1>9 DEF SameTurn, Fresh, TurnType
  <2>2. Step' = Reading
      BY <1>1, <1>2, <1>4, <2>1, JumpTo
  <2>3. Counted => page.replied
      BY <1>1, <1>9, NewIsReply DEF ReplyInv, PageInv
  <2> QED
      BY <1>7, <2>1, <2>2, <2>3
<1>10. CASE turn' = Done(turn, "noturn")
  <2>1. "noturn" \in Reasons /\ "noturn" # "old" /\ "noturn" \notin Growing
      BY DEF Reasons, Growing
  <2> QED
      BY <1>1, <1>2, <1>10, <2>1, DoneReplies
<1>11. CASE /\ turn' = [Ahead(turn) EXCEPT !.cut = TRUE]
            /\ s \in {"copyable", "streamed"}
  <2>1. /\ turn'.at = turn.at + 1 /\ turn'.base = turn.base
        /\ turn'.blind = turn.blind /\ turn'.cut = TRUE /\ turn'.same = 0
        /\ turn'.seen = None /\ turn'.result = turn.result
      BY <1>6, <1>11 DEF SameTurn, Fresh, TurnType
  <2>2. Follows(prov, s, Step') /\ Peculiar(prov, Step')
      BY <1>1, <1>2, <1>3, <2>1, GoOn
  <2>3. Step' \in {"copyable", "stopped", "stable"}
      BY <1>11, <2>2 DEF Follows
  <2>4. Counted' => Counted
      BY <1>3, <2>1 DEF Counted, Uncounted
  <2>5. Counted' => Watched'
      BY <1>1, <1>3, <1>11, <2>1, <2>3, <2>4
         DEF ReplyInv, PageInv, Watched, Quietly, BeforePress, Typing, AfterReply, Remaking
  <2>6. PageInv' /\ RightInv'
      BY <1>1, <1>3, <1>11, <2>1, <2>3, <2>5 DEF ReplyInv, PageInv, RightInv, Uncounted
  <2> QED
      BY <1>1, <1>3, <1>11, <2>6, QuietKeeps, QuietCopies DEF ReplyInv
<1> QED
    BY <1>2, <1>8, <1>9, <1>10, <1>11 DEF Incomplete, GiveWay

\* A stop button seen while waiting means that the reply has begun.
LEMMA SeeStopReplies ==
    ASSUME ReplyInv, SeeStop
    PROVE  ReplyInv'
<1>1. Quietly /\ SafeInv /\ TurnTypeOK /\ prov' = prov /\ In("stopped")
    BY StayMoves DEF ReplyInv, SafeInv, Quietly, SeeStop
<1>2. Step = "stopped" /\ prov = "chatgpt" /\ "stopped" # Last(prov)
    BY <1>1, WhoseStep DEF Peculiar, Last
<1>3. /\ turn'.base = turn.base /\ turn'.blind = turn.blind /\ turn'.cut = turn.cut
      /\ turn'.result = turn.result /\ turn'.same \in {turn.same, 0}
      /\ \/ Step' = "stopped" /\ page.stop
         \/ Step' = "stable" /\ turn'.seen = None
  <2>1. CASE page.stop /\ turn' = [turn EXCEPT !.seen = "part"]
    <3>1. /\ turn'.at = turn.at /\ turn'.base = turn.base /\ turn'.blind = turn.blind
          /\ turn'.cut = turn.cut /\ turn'.result = turn.result /\ turn'.seen = "part"
          /\ turn'.same = turn.same
        BY <1>1, <2>1 DEF TurnTypeOK, TurnType
    <3> QED
        BY <1>1, <2>1, <3>1, StayOn, Different
  <2>2. CASE turn' = Ahead(turn)
    <3>1. Step' = "stable"
        BY <1>1, <1>2, <2>2, AheadMoves DEF Follows
    <3>2. SameTurn(turn') /\ Fresh(turn') /\ turn'.result = turn.result
        BY <1>1, <2>2, AheadIs DEF TurnTypeOK
    <3> QED
        BY <3>1, <3>2 DEF SameTurn, Fresh
  <2> QED
      BY <2>1, <2>2 DEF SeeStop
<1>4. Counted' => Counted
    BY <1>2, <1>3 DEF Counted, Uncounted
<1>5. Counted' => Watched'
    BY <1>1, <1>2, <1>3, <1>4
       DEF ReplyInv, PageInv, Watched, Quietly, BeforePress, Typing, AfterReply, Remaking
<1>6. PageInv' /\ RightInv'
    BY <1>1, <1>2, <1>3, <1>5 DEF ReplyInv, PageInv, RightInv, Uncounted
<1> QED
    BY <1>1, <1>2, <1>6, QuietKeeps, QuietCopies DEF ReplyInv

\* One poll: what is seen and is not still being written is the reply.
LEMMA PollReplies ==
    ASSUME ReplyInv, Poll
    PROVE  ReplyInv'
<1>1. Quietly /\ SafeInv /\ TurnTypeOK /\ prov' = prov
    BY StayMoves DEF ReplyInv, SafeInv, Quietly
<1>2. PICK s \in {"stable", "settle", "resettle"} : In(s)
    BY DEF Poll
<1>3. Step = s /\ Peculiar(prov, s)
    BY <1>1, <1>2, WhoseStep
<1>4. /\ turn'.at = turn.at /\ turn'.base = turn.base /\ turn'.blind = turn.blind
      /\ turn'.cut = turn.cut /\ turn'.result = turn.result
      /\ turn'.same > 0 => turn'.seen # None
      /\ turn'.seen # None =>
           IF In("stable") THEN NewTurn ELSE ~NotYet
  <2> DEFINE c == newest[Me]
             bad == IF In("stable") THEN ~NewTurn ELSE NotYet
  <2>1. CASE (bad \/ c = None) /\ turn' = [turn EXCEPT !.seen = None, !.same = 0]
      BY <1>1, <2>1 DEF TurnTypeOK, TurnType
  <2>2. CASE ~bad /\ c # None /\ c = turn.seen /\ turn' = [turn EXCEPT !.same = @ + 1]
      BY <1>1, <2>2 DEF TurnTypeOK, TurnType
  <2>3. CASE ~bad /\ c # None /\ turn' = [turn EXCEPT !.seen = c, !.same = 0]
      BY <1>1, <2>3 DEF TurnTypeOK, TurnType
  <2> QED
      BY <2>1, <2>2, <2>3 DEF Poll
<1>5. Step' = Step
    BY <1>1, <1>2, <1>3, <1>4, StayOn
<1>6. In("stable") <=> s = "stable"
    BY <1>1, <1>2, <1>3, WhoseStep
<1>7. Counted' <=> Counted
    BY <1>1, <1>4, <1>5 DEF Counted, Uncounted
<1>8. Counted /\ s = "stable" /\ turn'.seen # None => page.replied
    BY <1>1, <1>4, <1>6, NewIsReply DEF ReplyInv, PageInv
<1>9. s = "settle" /\ prov # "text" /\ turn'.seen # None => ~page.stop
    BY <1>4, <1>6 DEF NotYet, Streaming
<1>10. Counted' => Watched'
  <2> SUFFICES ASSUME Counted'
               PROVE  Watched'
      OBVIOUS
  <2>1. Watched
      BY <1>7 DEF ReplyInv, PageInv
  <2> QED
      BY <1>1, <1>3, <1>4, <1>5, <1>7, <1>8, <1>9, <2>1
         DEF Watched, Quietly, BeforePress, Typing, AfterReply, Remaking
<1>11. PageInv' /\ RightInv'
    BY <1>1, <1>3, <1>4, <1>5, <1>10 DEF ReplyInv, PageInv, RightInv, Uncounted
<1> QED
    BY <1>1, <1>3, <1>11, QuietKeeps, QuietCopies DEF ReplyInv

\* A step that changes nothing but how long the client has waited or tried.
LEMMA StillReplies ==
    ASSUME ReplyInv, Quietly, NEW s, In(s), s # "idle",
           turn'.at = turn.at, turn'.base = turn.base, turn'.blind = turn.blind,
           turn'.cut = turn.cut, turn'.result = turn.result, turn'.same = turn.same,
           turn'.seen = turn.seen \/ (turn'.seen = None /\ s = "extract"),
           s = "extract" => copying[Me] = "idle"
    PROVE  ReplyInv'
<1>1. SafeInv /\ TurnTypeOK /\ prov' = prov
    BY DEF ReplyInv, SafeInv, Quietly
<1>2. Step = s /\ Step' = s
    BY <1>1, StayOn
<1>3. Counted' <=> Counted
    BY <1>1, <1>2 DEF Counted, Uncounted
<1>4. Counted' => Watched'
    BY <1>1, <1>2, <1>3
       DEF ReplyInv, PageInv, Watched, Quietly, BeforePress, Typing, AfterReply, Remaking, Fit
<1>5. PageInv' /\ RightInv'
    BY <1>1, <1>2, <1>4 DEF ReplyInv, PageInv, RightInv, Uncounted
<1> QED
    BY <1>1, <1>2, <1>5, QuietKeeps, QuietCopies DEF ReplyInv

\* After a deadline the reply may be cut short, and is noted to be.
LEMMA DeadlineReplies ==
    ASSUME ReplyInv, Deadline
    PROVE  ReplyInv'
<1>1. Quietly /\ SafeInv /\ TurnTypeOK
    BY StayMoves DEF ReplyInv, SafeInv
<1>2. PICK s \in Waits : In(s) /\ turn' = [turn EXCEPT !.expired = TRUE]
    BY DEF Deadline, In
<1>3. /\ turn'.at = turn.at /\ turn'.base = turn.base /\ turn'.blind = turn.blind
      /\ turn'.cut = turn.cut /\ turn'.result = turn.result /\ turn'.same = turn.same
      /\ turn'.seen = turn.seen
    BY <1>1, <1>2 DEF TurnTypeOK, TurnType
<1>4. s # "idle" /\ s # "extract"
    BY DEF Waits
<1> QED
    BY <1>1, <1>2, <1>3, <1>4, StillReplies

\* What is read is the reply.
LEMMA NetworkReplies ==
    ASSUME ReplyInv, Network
    PROVE  ReplyInv'
<1>1. Quietly
    BY ReadingMoves DEF ReplyInv, SafeInv
<1>2. turn' = Done(turn, "whole") /\ (In("appear") \/ In("settle"))
    BY DEF Network
<1>3. "whole" \in Contents /\ "whole" # "old" /\ "whole" \notin Growing
    BY TurnAssumption DEF Final, Growing
<1> QED
    BY <1>1, <1>2, <1>3, DoneReplies

\* What the domain clients read is a turn above the count.
LEMMA ReadReplies ==
    ASSUME ReplyInv, Read
    PROVE  ReplyInv'
<1>1. Quietly /\ SafeInv /\ TurnTypeOK /\ prov' = prov /\ In("read")
    BY ReadingMoves DEF ReplyInv, SafeInv, Quietly, Read
<1>2. Step = "read" /\ prov \in DomProviders
    BY <1>1, WhoseStep DEF Peculiar
<1> DEFINE text == IF newest[Me] = None THEN "empty" ELSE newest[Me]
<1>3. text \in Contents \cup Reasons \cup {None}
    BY <1>1, PageAssumption DEF TurnTypeOK, Reasons
<1>4. ~turn.blind => text \in Shown /\ (text \in Growing => prov = "text")
  <2> SUFFICES ASSUME ~turn.blind
               PROVE  text \in Shown /\ (text \in Growing => prov = "text")
      OBVIOUS
  <2>1. Watched
      BY <1>2 DEF ReplyInv, PageInv, Counted, Uncounted
  <2>2. newest[Me] \in Shown /\ (prov # "text" => newest[Me] \in Final)
      BY <1>2, <2>1 DEF Watched, AfterReply
  <2> QED
      BY <2>2, Different
<1>5. "old" \notin Shown
    BY Different
<1>6. CASE turn' = Done(turn, text)
    BY <1>1, <1>3, <1>4, <1>5, <1>6, DoneReplies
<1>7. CASE prov \in {"gemini", "grok"} /\ turn' = [Ahead(turn) EXCEPT !.result = text]
  <2>1. /\ turn'.at = turn.at + 1 /\ turn'.base = turn.base /\ turn'.blind = turn.blind
        /\ turn'.cut = turn.cut /\ turn'.result = text /\ turn'.same = 0
        /\ turn'.seen = None
      BY <1>1, <1>7, AheadIs DEF TurnTypeOK, TurnType, SameTurn, Fresh
  <2>2. Step' \in {"redo", "images"}
      BY <1>1, <1>7, <2>1, GoOn DEF Follows, Last
  <2>3. Counted' => Counted
      BY <1>2, <2>1 DEF Counted, Uncounted
  <2>4. Counted' => Watched'
      BY <1>1, <1>2, <1>7, <2>1, <2>2, <2>3
         DEF ReplyInv, PageInv, Watched, Quietly, BeforePress, Typing, AfterReply, Remaking
  <2>5. PageInv' /\ RightInv'
      BY <1>1, <1>4, <1>5, <2>1, <2>2, <2>4 DEF PageInv, RightInv, Uncounted
  <2> QED
      BY <1>1, <1>2, <2>5, QuietKeeps, QuietCopies DEF ReplyInv
<1> QED
    BY <1>6, <1>7 DEF Read

\* An answer without an image is read as text, by ChatGPT's client
LEMMA ImagesReply ==
    ASSUME ReplyInv, Images
    PROVE  ReplyInv'
<1>1. Quietly /\ SafeInv /\ TurnTypeOK /\ prov' = prov /\ In("images") /\ prov = "chatgpt"
    BY ReadingMoves DEF ReplyInv, SafeInv, Quietly, Images
<1>2. Step = "images"
    BY <1>1, WhoseStep
<1>3. Counted => Fit(newest[Me])
    BY <1>1, <1>2 DEF ReplyInv, PageInv, Watched
<1>4. CASE newest[Me] \in {"image", "old"} /\ turn' = Done(turn, newest[Me])
  <2>1. ~turn.blind => newest[Me] # "old" /\ newest[Me] \notin Growing
      BY <1>1, <1>2, <1>3, <1>4, Different DEF Counted, Uncounted, DomProviders, Fit, Growing
  <2>2. newest[Me] \in Contents
      BY <1>4, Different, TurnAssumption DEF Final
  <2> QED
      BY <1>1, <1>4, <2>1, <2>2, DoneReplies
<1>5. CASE turn' = [turn EXCEPT !.tries = @ + 1]
  <2>1. /\ turn'.at = turn.at /\ turn'.base = turn.base /\ turn'.blind = turn.blind
        /\ turn'.cut = turn.cut /\ turn'.result = turn.result /\ turn'.same = turn.same
        /\ turn'.seen = turn.seen
      BY <1>1, <1>5 DEF TurnTypeOK, TurnType
  <2> QED
      BY <1>1, <2>1, StillReplies
<1>6. CASE turn' = Ahead(turn)
  <2>1. Step' = "extract"
      BY <1>1, <1>6, AheadMoves DEF Follows, Last
  <2>2. SameTurn(turn') /\ Fresh(turn') /\ turn'.result = turn.result
      BY <1>1, <1>6, AheadIs DEF TurnTypeOK
  <2>3. Counted' => Counted
      BY <1>1, <1>2, <2>2 DEF Counted, Uncounted, DomProviders, SameTurn
  <2>4. Counted' => Watched'
      BY <1>1, <1>2, <2>1, <2>2, <2>3
         DEF ReplyInv, PageInv, Watched, Quietly, BeforePress, Typing, AfterReply, Remaking,
         SameTurn, Fit
  <2>5. PageInv' /\ RightInv'
      BY <1>1, <1>2, <2>1, <2>2, <2>4
         DEF ReplyInv, PageInv, RightInv, Uncounted, SameTurn, Fresh
  <2> QED
      BY <1>1, <1>2, <2>5, QuietKeeps, QuietCopies DEF ReplyInv
<1> QED
    BY <1>4, <1>5, <1>6 DEF Images, Pictured

\* and by the others.
LEMMA SavedImagesReply ==
    ASSUME ReplyInv, SavedImages
    PROVE  ReplyInv'
<1>1. Quietly /\ SafeInv /\ TurnTypeOK /\ prov' = prov /\ In("images") /\ prov # "chatgpt"
    BY ReadingMoves DEF ReplyInv, SafeInv, Quietly, SavedImages
<1>2. Step = "images"
    BY <1>1, WhoseStep
<1>3. CASE newest[Me] \in {"image", "old"} /\ turn' = Done(turn, newest[Me])
  <2>1. ~turn.blind => newest[Me] \in Shown
      BY <1>2 DEF ReplyInv, PageInv, Watched, Counted, Uncounted, AfterReply
  <2>2. newest[Me] \in Contents /\ newest[Me] \notin Growing
      BY <1>3, Different, TurnAssumption DEF Final, Growing
  <2> QED
      BY <1>1, <1>3, <2>1, <2>2, Different, DoneReplies
<1>4. CASE turn' = Done(turn, turn.result)
  <2>1. turn.result \in Contents \cup Reasons \cup {None}
      BY <1>1 DEF TurnTypeOK, TurnType
  <2> QED
      BY <1>1, <1>4, <2>1, DoneReplies DEF ReplyInv, RightInv
<1> QED
    BY <1>3, <1>4 DEF SavedImages, Pictured

\* What the copy step or the page yielded is returned, or asked for again.
LEMMA ExtractedReplies ==
    ASSUME ReplyInv, Extracted
    PROVE  ReplyInv'
<1>1. Quietly /\ SafeInv /\ TurnTypeOK /\ In("extract") /\ copying[Me] = "idle"
    BY ReadingMoves DEF ReplyInv, SafeInv, Extracted, Copied
<1>2. Step = "extract"
    BY <1>1, WhoseStep
<1> DEFINE text == IF got[Me] = None THEN None ELSE got[Me][2]
           r == IF text = None THEN "empty" ELSE text
<1>3. CASE turn' = Done(turn, r)
  <2>1. text \in Contents \cup {None}
      BY <1>1, PageAssumption DEF TurnTypeOK, ClipContent
  <2>2. r \in Contents \cup Reasons
      BY <2>1 DEF Reasons
  <2>3. ~turn.blind /\ Me \notin disturbed /\ got[Me] # None => Fit(got[Me][2])
      BY <1>2 DEF ReplyInv, CopyInv
  <2>4. ~turn.blind /\ Me \notin disturbed => r # "old" /\ (r \in Growing => turn.cut)
      BY <2>3, Different DEF Fit, Growing, Shown, Final
  <2> QED
      BY <1>1, <1>3, <2>2, <2>4, DoneReplies
<1>4. CASE turn' = [turn EXCEPT !.seen = None, !.tries = @ + 1]
  <2>1. /\ turn'.at = turn.at /\ turn'.base = turn.base /\ turn'.blind = turn.blind
        /\ turn'.cut = turn.cut /\ turn'.result = turn.result /\ turn'.same = turn.same
        /\ turn'.seen = None
      BY <1>1, <1>4 DEF TurnTypeOK, TurnType
  <2> QED
      BY <1>1, <2>1, StillReplies
<1> QED
    BY <1>3, <1>4 DEF Extracted

-----------------------------------------------------------------------------
\* The steps that reach the page.
LEMMA ClipStays ==
    ASSUME ClipInv, UNCHANGED clipVars, newest' \in [Tabs -> Contents \cup {None}]
    PROVE  ClipInv'
BY DEF ClipInv, ClipTypeOK, InsideLocked, ClipOwn, OwnText, clipVars

\* Before the turns are counted.
LEMMA UncountedReplies ==
    ASSUME ReplyInv, SafeInv', UNCHANGED clipVars, prov' = prov, Onto,
           Step \in Uncounted, Step' \in Uncounted \cup {"idle"},
           turn'.result = turn.result \/ (Step' = "idle" /\ turn'.result \in Reasons)
    PROVE  ReplyInv'
<1>1. turn.result = None /\ Step # "extract" /\ Step # "idle"
    BY DEF ReplyInv, PageInv, Uncounted
<1>2. turn'.same = 0
    BY DEF Onto, Fresh
<1>3. PageInv'
    BY <1>1, <1>2 DEF PageInv, Counted, Uncounted
<1>4. CopyInv'
    BY <1>1 DEF ReplyInv, CopyInv, clipVars, Uncounted
<1>5. RightInv'
    BY <1>1, Different DEF RightInv, Shown
<1>6. ClipInv'
    BY ClipStays DEF ReplyInv, SafeInv, TurnTypeOK
<1> QED
    BY <1>3, <1>4, <1>5, <1>6 DEF ReplyInv

\* Before the count nothing is promised.
LEMMA OpeningReplies ==
    ASSUME ReplyInv, Open \/ Forget \/ Pick \/ Select
    PROVE  ReplyInv'
<1>1. SafeInv /\ TurnTypeOK
    BY DEF ReplyInv, SafeInv
<1>2. SafeInv'
    BY <1>1, OpenKeeps, ForgetKeeps, PickKeeps, SelectKeeps
<1>3. PICK s \in {"open", "forget", "pick", "select"} :
        /\ In(s) /\ prov' = prov /\ UNCHANGED clipVars
        /\ \/ turn' = Ahead(turn)
           \/ s = "open" /\ turn' = Done(turn, "temporary")
    BY <1>1 DEF Open, NewChat, OpenThread, Forget, Pick, Select, TurnTypeOK, Calls, clipVars
<1>4. s # Last(prov) /\ Step = s /\ Peculiar(prov, s)
    BY <1>1, <1>3, WhoseStep DEF Last
<1>5. CASE turn' = Ahead(turn)
  <2>1. /\ Onto /\ turn'.result = turn.result /\ Follows(prov, s, Step')
        /\ Peculiar(prov, Step')
      BY <1>1, <1>3, <1>4, <1>5, AheadMoves
  <2>2. Step \in Uncounted /\ Step' \in Uncounted
      BY <1>4, <2>1 DEF Follows, Peculiar, Uncounted, DomProviders
  <2> QED
      BY <1>2, <1>3, <2>1, <2>2, UncountedReplies
<1>6. CASE s = "open" /\ turn' = Done(turn, "temporary")
  <2>1. Onto /\ turn'.result = "temporary" /\ Step' = "idle" /\ "temporary" \in Reasons
      BY <1>1, <1>3, <1>6, DoneMoves DEF Reasons
  <2>2. Step \in Uncounted
      BY <1>4, <1>6 DEF Uncounted
  <2> QED
      BY <1>2, <1>3, <2>1, <2>2, UncountedReplies
<1> QED
    BY <1>3, <1>5, <1>6

\* The composer is filled, and the button pressed.
LEMMA SendingReplies ==
    ASSUME ReplyInv, Enter \/ PressSend
    PROVE  ReplyInv'
<1>1. SafeInv /\ TurnTypeOK /\ SafeInv'
    BY EnterKeeps, PressSendKeeps DEF ReplyInv, SafeInv
<1>2. PICK s \in {"enter", "press"} :
        /\ In(s) /\ prov' = prov /\ UNCHANGED <<newest, clipVars>>
        /\ \/ turn' = Ahead(turn)
           \/ \E r \in Reasons : turn' = Done(turn, r)
           \/ s = "enter" /\ turn' = [turn EXCEPT !.tries = 1]
    BY DEF Enter, PressSend, ThePage, Reasons
<1>3. s # Last(prov) /\ Step = s
    BY <1>1, <1>2, WhoseStep DEF Last
<1>4. /\ page'.hidden = page.hidden /\ page'.backlog = page.backlog
      /\ page'.replied = page.replied /\ page'.stop = page.stop
      /\ page'.turns = page.turns
    BY <1>1 DEF Enter, PressSend, Press, TurnTypeOK, PageType
<1>5. /\ turn'.base = turn.base /\ turn'.blind = turn.blind /\ turn'.cut = turn.cut
      /\ turn'.same \in {turn.same, 0}
      /\ Step' = "ack" => s = "press"
      /\ \/ Step' \in {"probe", "submit", "enter", "ack"} /\ turn'.result = turn.result
         \/ Step' = "idle" /\ turn'.result \in Reasons
  <2>1. CASE turn' = Ahead(turn)
    <3>1. /\ Onto /\ turn'.result = turn.result /\ Follows(prov, s, Step')
        BY <1>1, <1>2, <1>3, <2>1, AheadMoves
    <3> QED
        BY <3>1 DEF Onto, SameTurn, Fresh, Follows
  <2>2. ASSUME NEW r \in Reasons, turn' = Done(turn, r)
        PROVE  Onto /\ turn'.result = r /\ Step' = "idle"
      BY <1>1, <1>2, <2>2, DoneMoves
  <2>3. CASE s = "enter" /\ turn' = [turn EXCEPT !.tries = 1]
    <3>1. /\ turn'.at = turn.at /\ turn'.base = turn.base /\ turn'.blind = turn.blind
          /\ turn'.cut = turn.cut /\ turn'.same = turn.same /\ turn'.result = turn.result
        BY <1>1, <2>3 DEF TurnTypeOK, TurnType
    <3>2. Step' = "enter"
        BY <1>1, <1>2, <2>3, <3>1, StayOn
    <3> QED
        BY <3>1, <3>2
  <2> QED
      BY <1>2, <2>1, <2>2, <2>3 DEF Onto, SameTurn, Fresh
<1>6. Counted' => Counted
    BY <1>3, <1>5 DEF Counted, Uncounted
<1>7. Counted' => Watched'
  <2> SUFFICES ASSUME Counted'
               PROVE  Watched'
      OBVIOUS
  <2>1. Watched /\ Step' # "idle"
      BY <1>6 DEF ReplyInv, PageInv, Counted
  <2>2. newest' = newest /\ Step \notin AfterReply /\ Step' \notin AfterReply
      BY <1>2, <1>3, <1>5, <2>1 DEF AfterReply, clipVars
  <2>3. Step' \notin BeforePress => Step \notin BeforePress
      BY <1>3, <1>5, <2>1 DEF BeforePress, Typing
  <2> QED
      BY <1>2, <1>4, <1>5, <2>1, <2>2, <2>3 DEF Watched, AfterReply, Remaking
<1>8. PageInv'
    BY <1>2, <1>3, <1>5, <1>7 DEF ReplyInv, PageInv, Uncounted
<1>9. RightInv'
    BY <1>2, <1>3, <1>5, Different DEF ReplyInv, RightInv, Shown
<1>10. CopyInv' /\ ClipInv'
    BY <1>1, <1>2, <1>3, <1>5, ClipStays
       DEF ReplyInv, CopyInv, clipVars, SafeInv, TurnTypeOK
<1> QED
    BY <1>1, <1>8, <1>9, <1>10 DEF ReplyInv

\* The image is made again: what is shown is still the reply.
LEMMA RedoReplies ==
    ASSUME ReplyInv, Redo
    PROVE  ReplyInv'
<1>1. SafeInv /\ TurnTypeOK /\ SafeInv' /\ In("redo") /\ prov' = prov /\ UNCHANGED clipVars
    BY RedoKeeps DEF ReplyInv, SafeInv, Redo, clipVars
<1>2. Step = "redo" /\ prov = "gemini" /\ "redo" # Last(prov)
    BY <1>1, WhoseStep DEF Peculiar, Last
<1>3. /\ turn'.blind = turn.blind /\ turn'.cut = turn.cut /\ turn'.same = 0
      /\ turn'.result = turn.result /\ Step' \in {"images", "resettle"}
  <2>1. CASE turn' = Jump(turn, "images")
      BY <1>1, <1>2, <2>1, JumpMoves DEF Onto, SameTurn, Fresh
  <2>2. CASE turn' = [Ahead(turn) EXCEPT !.base = page.turns - 1]
    <3>1. /\ turn'.at = turn.at + 1 /\ turn'.blind = turn.blind /\ turn'.cut = turn.cut
          /\ turn'.same = 0 /\ turn'.result = turn.result
        BY <1>1, <2>2, AheadIs DEF TurnTypeOK, TurnType, SameTurn, Fresh
    <3> QED
        BY <1>1, <1>2, <3>1, GoOn DEF Follows
  <2> QED
      BY <2>1, <2>2 DEF Redo
<1>4. Counted' => Counted
    BY <1>2, <1>3 DEF Counted, Uncounted, DomProviders
<1>5. /\ page'.hidden = page.hidden /\ page'.backlog = page.backlog
      /\ page'.replied = page.replied
      /\ \/ page'.stop = page.stop /\ newest' = newest
         \/ page'.stop /\ newest'[Me] = "part"
  <2>1. CASE UNCHANGED <<page, newest>>
      BY <2>1
  <2>2. CASE /\ Show("part")
             /\ page' \in {[page EXCEPT !.stop = TRUE],
                           [page EXCEPT !.stop = TRUE, !.turns = 3]}
    <3>1. newest'[Me] = "part"
        BY <1>1, <2>2, ShowIs, Different DEF TurnTypeOK, Shown, Growing
    <3>2. /\ page'.hidden = page.hidden /\ page'.backlog = page.backlog
          /\ page'.replied = page.replied /\ page'.stop
        BY <1>1, <2>2 DEF TurnTypeOK, PageType
    <3> QED
        BY <3>1, <3>2
  <2> QED
      BY <2>1, <2>2 DEF Redo
<1>6. Counted' => Watched'
    BY <1>1, <1>2, <1>3, <1>4, <1>5
       DEF ReplyInv, PageInv, Watched, BeforePress, Typing, AfterReply, Remaking, Shown, Growing
<1>7. PageInv' /\ RightInv'
    BY <1>1, <1>2, <1>3, <1>6 DEF ReplyInv, PageInv, RightInv, Uncounted
<1>8. CopyInv' /\ ClipInv'
    BY <1>1, <1>2, <1>3, ClipStays DEF ReplyInv, CopyInv, clipVars, SafeInv, TurnTypeOK
<1> QED
    BY <1>1, <1>7, <1>8 DEF ReplyInv

-----------------------------------------------------------------------------
\* The site: once the turns are counted, only the reply adds one.
LEMMA SiteReplies ==
    ASSUME ReplyInv, SiteStep, UNCHANGED <<clipVars, client, call, prov, turn>>
    PROVE  ReplyInv'
<1>1. SafeInv /\ TurnTypeOK /\ SafeInv' /\ Step' = Step
    BY SiteKeeps DEF ReplyInv, SafeInv
<1>2. turn' = turn /\ prov' = prov /\ UNCHANGED <<copying, got, clip, pre, disturbed>>
    BY DEF clipVars
<1>3. Counted' <=> Counted
    BY <1>1, <1>2 DEF Counted, Uncounted
<1>4. ASSUME Counted
      PROVE  Watched'
  <2>1. Watched
      BY <1>4 DEF ReplyInv, PageInv
  <2>2. ~page.hidden /\ ~page.backlog
      BY <2>1 DEF Watched
  <2>3. CASE EndBacklog \/ EmptyDraft \/ AutoSend
    <3>1. /\ page'.hidden = page.hidden /\ page'.backlog = page.backlog
          /\ page'.replied = page.replied /\ page'.turns = page.turns
          /\ newest' = newest
          /\ page'.stop = page.stop \/ (~page'.stop /\ ~page.replied)
        BY <1>1, <2>3 DEF EndBacklog, EmptyDraft, AutoSend, TurnTypeOK, PageType
    <3> QED
        BY <1>1, <1>2, <2>1, <3>1 DEF Watched, Fit
  <2>4. CASE StartReply
    <3>1. /\ ~page.replied /\ page'.turns = page.turns + 1 /\ page'.replied /\ page'.stop
          /\ page'.hidden = page.hidden /\ page'.backlog = page.backlog
        BY <1>1, <2>4 DEF StartReply, TurnTypeOK, PageType
    <3>2. newest'[Me] = "status"
        BY <1>1, <2>4, Different, ShowIs DEF StartReply, TurnTypeOK, Shown, Growing
    <3> QED
        BY <1>1, <1>2, <2>1, <3>1, <3>2
           DEF Watched, Shown, Growing, AfterReply, BeforePress, Typing
  <2>5. CASE Grow
    <3>1. newest'[Me] = "part" /\ newest[Me] \notin Final /\ page' = page
        BY <1>1, <2>5, Different, ShowIs DEF Grow, TurnTypeOK, Shown, Growing, Final
    <3> QED
        BY <1>1, <1>2, <2>1, <2>5, <3>1 DEF Grow, Watched, Shown, Growing, Fit
  <2>6. CASE FinishReply
    <3>1. /\ page'.hidden = page.hidden /\ page'.backlog = page.backlog
          /\ page'.replied = page.replied /\ page'.turns = page.turns /\ ~page'.stop
        BY <1>1, <2>6 DEF FinishReply, TurnTypeOK, PageType
    <3>2. newest'[Me] \in Final
        BY <1>1, <2>6, Different, ShowIs DEF FinishReply, TurnTypeOK, Shown
    <3> QED
        BY <1>1, <1>2, <2>1, <2>6, <3>1, <3>2 DEF FinishReply, Watched, Shown, Fit
  <2>7. CASE Paint
    <3>1. page' = page /\ newest'[Me] \in Final
        BY <1>1, <2>7, Different, ShowIs DEF Paint, TurnTypeOK, Shown, Final
    <3> QED
        BY <1>1, <1>2, <2>1, <3>1 DEF Watched, Shown, Fit
  <2> QED
      BY <2>2, <2>3, <2>4, <2>5, <2>6, <2>7 DEF SiteStep, Render, AnswerBacklog
<1>5. PageInv' /\ RightInv'
    BY <1>1, <1>2, <1>3, <1>4 DEF ReplyInv, PageInv, RightInv, Uncounted
<1>6. CopyInv'
    BY <1>1, <1>2 DEF ReplyInv, CopyInv, Fit, Fair
<1>7. ClipInv'
    BY <1>1, ClipStays DEF ReplyInv, SafeInv, TurnTypeOK
<1> QED
    BY <1>1, <1>5, <1>6, <1>7 DEF ReplyInv

\* A copy step of any tab leaves the clipboard its own.
LEMMA CopyStepKeeps ==
    ASSUME ClipInv, NEW t \in Tabs, NEW stale \in BOOLEAN,
           NEW transient \in BOOLEAN, UNCHANGED newest,
           CopyStep(t, stale, transient) \/ Land(t)
    PROVE  ClipInv'
BY GrabKeeps, InsideKeeps, ClickStepKeeps, ReadBackKeeps, LeavingKeeps, ViaDomKeeps,
   LandKeeps DEF CopyStep

\* The other tabs do not touch what Me has in hand.
LEMMA OthersReply ==
    ASSUME ReplyInv, NEW t \in Tabs \ {Me}, OtherTab(t)
    PROVE  ReplyInv'
<1>1. /\ SafeInv' /\ Step' = Step
      /\ UNCHANGED <<newest, page, client, call, prov, turn>>
      /\ CopyStep(t, FALSE, FALSE) \/ Land(t)
    BY CopiesKeep DEF ReplyInv, OtherTab
<1>2. ClipInv'
    BY <1>1, CopyStepKeeps DEF ReplyInv
<1>3. ClipTypeOK /\ InsideLocked /\ Me \in Tabs /\ t # Me /\ Step = "extract"
    BY PageAssumption, WhoseStep DEF ReplyInv, ClipInv, SafeInv, OtherTab
<1>4. /\ copying'[Me] = copying[Me] /\ got'[Me] = got[Me]
      /\ Me \in disturbed => Me \in disturbed'
    BY <1>1, <1>3 DEF ClipTypeOK, CopyStep, Grab, ReadPre, Clear, Click, Sleep, ReadBack,
       CopyFails, ViaDom, Land, Go
<1>5. ASSUME copying[Me] \in Cleared, Me \notin disturbed'
      PROVE  pre' = pre /\ clip' \in {clip, None}
  <2>1. copying[t] \notin Critical /\ lock = Me
      BY <1>3, <1>5, OneInside DEF InsideLocked, Critical, Cleared
  <2>2. CASE CopyStep(t, FALSE, FALSE)
      BY <1>3, <2>1, <2>2 DEF CopyStep, Grab, ReadPre, Clear, Click, Sleep, ReadBack,
         CopyFails, ViaDom, At, Critical
  <2>3. CASE Land(t)
    <3>1. PICK c \in Contents :
            /\ clip' = <<t, c>> /\ pre' = pre
            /\ InTime(t, c) \/ Own(Me) = <<t, c>>
        BY <1>3, <1>5, <2>3 DEF Land
    <3>2. ~InTime(t, c)
        BY <2>1 DEF InTime, At, Critical
    <3>3. Own(Me) = None
        BY <1>3, <3>1, <3>2, OwnIsOwn
    <3> QED
        BY <3>1, <3>2, <3>3
  <2> QED
      BY <1>1, <2>2, <2>3
<1>6. CopyInv'
    BY <1>1, <1>3, <1>4, <1>5 DEF ReplyInv, CopyInv, Fit, Fair
<1>7. PageInv' /\ RightInv'
    BY <1>1, <1>3 DEF ReplyInv, PageInv, RightInv, Counted, Watched, Uncounted, Fit
<1> QED
    BY <1>1, <1>2, <1>6, <1>7 DEF ReplyInv

\* Me's own copy takes what Me's page shows.
LEMMA OwnCopyReplies ==
    ASSUME ReplyInv,
           \/ Copy
           \/ /\ In("extract") /\ Land(Me)
              /\ UNCHANGED <<newest, page, client, call, prov, turn>>
    PROVE  ReplyInv'
<1>1. /\ SafeInv /\ SafeInv' /\ Step' = Step /\ Me \in Tabs /\ ClipTypeOK /\ ClipInv
      /\ newest' = newest /\ page' = page /\ prov' = prov
    BY CopiesKeep, PageAssumption DEF ReplyInv, ClipInv
<1>2. /\ turn'.base = turn.base /\ turn'.blind = turn.blind /\ turn'.cut = turn.cut
      /\ turn'.same = turn.same /\ turn'.result = turn.result
      /\ turn' = turn \/ (Step = "extract" /\ turn'.seen = "part")
  <2>1. CASE Copy
    <3>1. In("extract") /\ turn' = [turn EXCEPT !.seen = "part"]
        BY <2>1 DEF Copy
    <3>2. Step = "extract"
        BY <1>1, <3>1, WhoseStep DEF SafeInv
    <3> QED
        BY <1>1, <3>1, <3>2 DEF SafeInv, TurnTypeOK, TurnType
  <2> QED
      BY <2>1
<1>3. PICK stale \in BOOLEAN, transient \in BOOLEAN :
        CopyStep(Me, stale, transient) \/ Land(Me)
    BY DEF Copy, Stale
<1>4. ClipInv'
    BY <1>1, <1>3, CopyStepKeeps
<1>5. Step = "extract"
    BY <1>1, WhoseStep DEF Copy, SafeInv
<1>6. prov \in {"chatgpt", "claude"}
    BY <1>1, <1>5, ScriptsArePeculiar, ScriptLength
       DEF SafeInv, TurnTypeOK, TurnType, Step, Peculiar
<1>7. Counted => Fit(newest[Me]) /\ newest[Me] # None
    BY <1>5, <1>6, Different DEF ReplyInv, PageInv, Watched, Fit
<1>8. CopyInv'
  <2> SUFFICES ASSUME ~turn.blind, Me \notin disturbed'
               PROVE  /\ got'[Me] # None => Fit(got'[Me][2])
                      /\ copying'[Me] \in Cleared => Fair(clip)'
      BY <1>1, <1>2, <1>5 DEF CopyInv, Fit
  <2>1. Counted
      BY <1>5, <1>6 DEF Counted, Uncounted, DomProviders
  <2>2. Own(Me) = <<Me, newest[Me]>> /\ Fit(Own(Me)[2]) /\ newest[Me] \in Contents
      BY <1>1, <1>7, <2>1 DEF Own, ClipTypeOK
  <2>3. Me \notin disturbed =>
          /\ got[Me] # None => Fit(got[Me][2])
          /\ copying[Me] \in Cleared => Fair(clip)
      BY <1>5 DEF ReplyInv, CopyInv
  <2>4. Fit(newest[Me])' <=> Fit(newest[Me])
      BY <1>1, <1>2 DEF Fit
  <2>5. CASE Grab(Me)
      BY <1>1, <2>5 DEF ClipTypeOK, Grab, Go, Cleared
  <2>6. CASE ViaDom(Me, stale, transient)
      BY <1>1, <2>2, <2>6 DEF ClipTypeOK, ViaDom, Go, Cleared
  <2>7. CASE ReadPre(Me) \/ CopyFails(Me)
      BY <1>1, <2>3, <2>7 DEF ClipTypeOK, ReadPre, CopyFails, Go, Cleared
  <2>8. CASE Clear(Me)
      BY <1>1, <2>3, <2>8 DEF ClipTypeOK, Clear, Go, Cleared, Fair
  <2>9. CASE Click(Me, stale) \/ Sleep(Me)
      BY <1>1, <1>2, <2>3, <2>9 DEF ClipTypeOK, Click, Sleep, At, Go, Cleared, Fair, Fit
  <2>10. CASE ReadBack(Me)
      BY <1>1, <2>3, <2>10 DEF ClipTypeOK, ReadBack, At, Go, Cleared, Fair
  <2>11. CASE Land(Me)
    <3>1. PICK c \in Contents :
            /\ clip' = <<Me, c>> /\ UNCHANGED <<copying, got, pre>>
            /\ Me \notin disturbed
            /\ copying[Me] \in Cleared => Own(Me) = <<Me, c>>
        BY <1>1, <2>11 DEF Land, InTime
    <3>2. copying[Me] \in Cleared => Fit(c)
        BY <2>2, <3>1
    <3> QED
        BY <1>2, <2>3, <3>1, <3>2 DEF Fair, Fit
  <2> QED
      BY <1>3, <2>5, <2>6, <2>7, <2>8, <2>9, <2>10, <2>11 DEF CopyStep
<1>9. PageInv' /\ RightInv'
    BY <1>1, <1>2, <1>5, <1>6, Different
       DEF ReplyInv, PageInv, RightInv, Counted, Watched, Uncounted, Fit
<1> QED
    BY <1>1, <1>4, <1>8, <1>9 DEF ReplyInv

\* Between two calls nobody copies.
LEMMA BeginReplies ==
    ASSUME ReplyInv, Begin
    PROVE  ReplyInv'
<1>1. SafeInv /\ SafeInv' /\ Step = "idle" /\ Step' = "open" /\ prov' = prov
    BY BeginKeeps DEF ReplyInv, Begin
<1>2. \A t \in Tabs : copying[t] = "idle"
    BY <1>1 DEF Begin, At, ReplyInv, CopyInv
<1>3. turn'.result = None /\ turn'.same = turn.same /\ ~(turn.same > 0)
    BY <1>1 DEF Begin, SafeInv, TurnTypeOK, TurnType, ReplyInv, PageInv
<1>4. /\ copying' = copying /\ got' = [t \in Tabs |-> None]
      /\ Me \in Tabs
    BY PageAssumption DEF Begin
<1>5. ClipInv'
    BY <1>1, <1>2, <1>4 DEF ReplyInv, ClipInv, ClipTypeOK, InsideLocked, ClipOwn,
       OwnText, SafeInv, TurnTypeOK, ClipContent, Critical, Cleared
<1>6. CopyInv'
    BY <1>1, <1>2, <1>4 DEF CopyInv
<1>7. PageInv' /\ RightInv'
    BY <1>1, <1>3, Different DEF PageInv, RightInv, Counted, Uncounted, Shown
<1> QED
    BY <1>1, <1>5, <1>6, <1>7 DEF ReplyInv

\* Every step keeps the invariant of the reply.
LEMMA ReplyStepKeeps ==
    ASSUME ReplyInv, [TurnNext]_tvars
    PROVE  ReplyInv'
<1>1. CASE UNCHANGED tvars
  <2>1. SafeInv'
      BY StepKeeps DEF ReplyInv
  <2>2. Step' = Step /\ UNCHANGED <<newest, page, prov, turn, clipVars>>
      BY <1>1 DEF tvars, Step
  <2>3. ClipInv'
      BY <2>1, <2>2, ClipStays DEF ReplyInv, SafeInv, TurnTypeOK
  <2> QED
      BY <2>1, <2>2, <2>3 DEF ReplyInv, PageInv, CopyInv, RightInv, Counted, Watched,
         Uncounted, Fit, Fair, clipVars
<1>2. CASE ClientStep
    BY <1>2, PassingReplies, BaselineReplies, ProbeReplies, StrategyReplies,
       SeeStopReplies, PollReplies, NetworkReplies, ReadReplies, ImagesReply,
       SavedImagesReply, ExtractedReplies, OpeningReplies, SendingReplies, RedoReplies,
       OwnCopyReplies DEF ClientStep
<1>3. CASE Site_
    BY <1>3, SiteReplies, OwnCopyReplies DEF Site_
<1> QED
    BY <1>1, <1>2, <1>3, DeadlineReplies, BeginReplies, OthersReply DEF TurnNext

\* It holds before the first call.
LEMMA ReplyInit ==
    ASSUME TurnInit
    PROVE  ReplyInv
<1>1. SafeInv /\ Step = "idle" /\ Me \in Tabs
    BY SafeInit, PageAssumption DEF TurnInit, Step
<1>2. ClipInv /\ CopyInv
    BY <1>1 DEF TurnInit, ClipInit, ClipInv, ClipTypeOK, InsideLocked, ClipOwn,
       OwnText, Steps, Critical, At, CopyInv, SafeInv, TurnTypeOK
<1>3. PageInv /\ RightInv
    BY <1>1, Different DEF TurnInit, PageInv, RightInv, Counted, Uncounted, Shown
<1> QED
    BY <1>1, <1>2, <1>3 DEF ReplyInv

\* Whatever the site shows, whichever of a provider's ways to wait and to read
\* the reply is taken, whatever the other tabs copy meanwhile, however late a
\* copy lands and whichever calls are refused, ReplyInv holds.
THEOREM ReplySafety == TurnSpec => []ReplyInv
<1>1. ReplyInv /\ [TurnNext]_tvars => ReplyInv'
    BY ReplyStepKeeps
<1> QED
    BY <1>1, ReplyInit, PTL DEF TurnSpec

\* send_message never returns an earlier turn's text as the reply to its prompt
\* ("extract a STALE answer", text_client.py:290), unless that turn was still to
\* come when the turns were counted; and it returns a part of the reply only
\* after a deadline or an error page, or where no stop button is looked for.
\* A text copied while another copy landed is the exception.
THEOREM ReplyIsRight == TurnSpec => []RightReply
<1>1. ReplyInv => RightReply
    BY DEF ReplyInv, RightInv, RightReply
<1> QED
    BY <1>1, ReplySafety, PTL

\* Beside the whole send_message and the other tabs' copies too, no tab gets a
\* text that was not on its own page (core/clipboard_lock.py), with the
\* exceptions of OwnText.
THEOREM ReplyFromOwnPage == TurnSpec => []OwnText
<1>1. ReplyInv => OwnText
    BY DEF ReplyInv, ClipInv
<1> QED
    BY <1>1, ReplySafety, PTL
=============================================================================
