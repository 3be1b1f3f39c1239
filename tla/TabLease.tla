------------------------------ MODULE TabLease ------------------------------
(***************************************************************************)
(* What the pool of src/api/worker_pool.py promises about a browser tab,   *)
(* whatever the scheduling of requests, probes and account lifecycle:      *)
(* a tab enters service once, is handed to one client at a time, comes     *)
(* back from that client only, and once it has left service it is never    *)
(* handed out again.  WorkerPool implements this specification.            *)
(***************************************************************************)
CONSTANTS Tabs,      \* the browser tabs that may ever exist
          Clients,   \* whoever can hold a tab: API requests and probes
          None       \* no client

VARIABLES phase,     \* phase[t]: "unborn", "serving" or "gone"
          holder     \* holder[t]: the client driving tab t, or None

vars == <<phase, holder>>

Init ==
    /\ phase = [t \in Tabs |-> "unborn"]
    /\ holder = [t \in Tabs |-> None]

\* Tabs of an account come online together.
Join(T) ==
    /\ \A t \in T : phase[t] = "unborn"
    /\ phase' = [t \in Tabs |-> IF t \in T THEN "serving" ELSE phase[t]]
    /\ UNCHANGED holder

\* A tab in service and free goes to one client.
Grant(t, c) ==
    /\ phase[t] = "serving"
    /\ holder[t] = None
    /\ holder' = [holder EXCEPT ![t] = c]
    /\ UNCHANGED phase

\* The client gives its tab back; the tab stays in the phase it is in.
Return(t) ==
    /\ holder[t] # None
    /\ holder' = [holder EXCEPT ![t] = None]
    /\ UNCHANGED phase

\* Tabs of an account leave service together, free or not.
Retire(T) ==
    /\ \A t \in T : phase[t] # "unborn"
    /\ phase' = [t \in Tabs |-> IF t \in T THEN "gone" ELSE phase[t]]
    /\ UNCHANGED holder

Next ==
    \/ \E T \in SUBSET Tabs : Join(T) \/ Retire(T)
    \/ \E t \in Tabs, c \in Clients : Grant(t, c)
    \/ \E t \in Tabs : Return(t)

Spec == Init /\ [][Next]_vars
=============================================================================
