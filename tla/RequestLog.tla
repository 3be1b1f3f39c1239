------------------------------ MODULE RequestLog ------------------------------
(* The request log of src/api/request_log.py: every API request is recorded   *)
(* while it runs and again when it ends, in an ordered dictionary in memory   *)
(* and in a SQLite table behind it. The store prunes by age and by count,     *)
(* goes on in memory when a write fails, is cleared by the operator at any    *)
(* moment, and is loaded again after a restart of the gateway. A record is    *)
(* its id, the state the viewer shows and its time; headers and bodies are    *)
(* left out. `add` has no await under its lock, so it is one step.            *)
EXTENDS Integers, FiniteSets, SequencesExt

CONSTANTS MaxCalls, \* bound: the requests that reach the gateway
          MaxEntries,  \* RequestLogStore._max
          Retention,   \* RequestLogStore._retention, in clock ticks
          MaxClock,    \* bound: ticks of the wall clock
          MaxFaults,   \* bound: writes that fail in one life of the process
          MaxLives     \* bound: starts of the gateway

ASSUME LogAssumption ==
    /\ MaxEntries \in Nat \ {0}
    /\ {MaxCalls, Retention, MaxClock, MaxFaults, MaxLives} \subseteq Nat

VARIABLES memory,   \* _d: the records in dictionary order
          table,    \* the requests table: a set of records, one per id
          open,     \* _db is not None
          warning,  \* persistence_error is set
          lastId,   \* _seq
          request,  \* each request: its phase and the eid its middleware holds
          clock,    \* time.time()
          faults,   \* the writes that failed since the process started
          boots     \* the starts of the gateway so far

logVars == <<memory, table, open, warning, lastId, request, clock, faults, boots>>

\* Requests are told apart by the order they arrive in.
Calls == 1..MaxCalls

Outcomes == {"completed", "interrupted", "failed"}
Phases == {"none", "running", "lost", "unknown"} \cup Outcomes
NoId == 0
Records == [id : Nat \ {0}, of : Calls, state : {"in_progress"} \cup Outcomes,
            ts : 0..MaxClock, back : BOOLEAN]

IdsOf(records) == {e.id : e \in records}
Held == ToSet(memory)
Cutoff == clock - Retention

\* The count-th largest id and everything above it.
Newest(records, count) ==
    {e \in records : Cardinality({x \in records : x.id > e.id}) < count}

-------------------------------------------------------------------------------
(* Memory. *)

\* self._d[eid] = {...}: in place when the id is there, else at the end.
Put(d, e) ==
    IF \E i \in DOMAIN d : d[i].id = e.id
    THEN [i \in DOMAIN d |-> IF d[i].id = e.id THEN e ELSE d[i]]
    ELSE Append(d, e)

\* Drops the aged front, then the front beyond MaxEntries.
Prune(d) ==
    LET young == {i \in DOMAIN d : d[i].ts >= Cutoff}
        first == IF young = {} THEN Len(d) + 1 ELSE Min(young)
        kept  == SubSeq(d, first, Len(d))
    IN  SubSeq(kept, IF Len(kept) > MaxEntries THEN Len(kept) - MaxEntries + 1 ELSE 1, Len(kept))

-------------------------------------------------------------------------------
(* The table. *)

\* Mutant: only the new row is written after a failure.
RowsForgetful(d, entry) == IF entry # {} THEN entry ELSE ToSet(d)

\* What _persist writes: after a failure all of memory, else the one entry, and
\* all of memory again when there is none (it was pruned at once, or at a start).
Rows(d, entry) == IF warning \/ entry = {} THEN ToSet(d) ELSE entry

Replace(rows) == {e \in table : e.id \notin IdsOf(rows)} \cup rows

\* The two DELETEs of _persist: by age, and below the MaxEntries-th newest id.
Trim(rows) == Newest({e \in rows : e.ts >= Cutoff}, MaxEntries)

\* One transaction: it commits, or leaves the table and sets the warning.
Persist(d, entry) ==
    \/ ~open /\ UNCHANGED <<table, warning, faults>>
    \/ /\ open
       /\ table' = Trim(Replace(Rows(d, entry)))
       /\ warning' = FALSE
       /\ UNCHANGED faults
    \/ /\ open /\ faults < MaxFaults
       /\ faults' = faults + 1
       /\ warning' = TRUE
       /\ UNCHANGED table

-------------------------------------------------------------------------------
(* The middleware. *)

\* store.add: a record that is still there keeps its time, one that was pruned
\* or cleared meanwhile comes back at the end with the time of this write.
Add(r, eid, state) ==
    LET old == {e \in Held : e.id = eid}
        e   == IF old = {}
               THEN [id |-> eid, of |-> r, state |-> state, ts |-> clock, back |-> eid <= lastId]
               ELSE [CHOOSE x \in old : TRUE EXCEPT !.state = state]
        d   == Prune(Put(memory, e))
    IN  memory' = d /\ Persist(d, {x \in ToSet(d) : x.id = eid})

\* A request arrives: record('in_progress') takes the next id.
Arrive(r) ==
    /\ request[r].phase = "none"
    /\ \A q \in 1..(r - 1) : request[q].phase # "none"
    /\ lastId' = lastId + 1
    /\ Add(r, lastId + 1, "in_progress")
    /\ request' = [request EXCEPT ![r] = [phase |-> "running", eid |-> lastId + 1]]
    /\ UNCHANGED <<open, clock, boots>>

\* Its body has been read: the record is written again, still in progress.
BodyRead(r) ==
    /\ request[r].phase = "running"
    /\ Add(r, request[r].eid, "in_progress")
    /\ UNCHANGED <<open, lastId, request, clock, boots>>

\* It ends: the response is complete, the client left, or the application failed.
End(r, outcome) ==
    /\ request[r].phase = "running"
    /\ Add(r, request[r].eid, outcome)
    /\ request' = [request EXCEPT ![r].phase = outcome]
    /\ UNCHANGED <<open, lastId, clock, boots>>

\* DELETE /admin/api/logs: memory first; when the DELETE fails the rows stay.
Clear ==
    /\ memory' = <<>>
    /\ \/ ~open /\ UNCHANGED <<table, faults>>
       \/ open /\ table' = {} /\ UNCHANGED faults
       \/ open /\ faults < MaxFaults /\ faults' = faults + 1 /\ UNCHANGED table
    /\ UNCHANGED <<open, warning, lastId, request, clock, boots>>

-------------------------------------------------------------------------------
(* A restart. *)

\* Mutant: rows are served as they were stored.
LoadedAsIs(e) == e

\* A row as it is loaded: what was running when the gateway went down is over.
Loaded(e) == IF e.state = "in_progress" THEN [e EXCEPT !.state = "interrupted"] ELSE e

\* What becomes of the requests: those that run are lost with the process, and
\* nothing is claimed of a table the process could not always write.
Lost == [r \in Calls |->
           CASE request[r].phase = "none" -> request[r]
             [] request[r].phase # "none" /\ faults > 0 -> [request[r] EXCEPT !.phase = "unknown"]
             [] request[r].phase = "running" /\ faults = 0 -> [request[r] EXCEPT !.phase = "lost"]
             [] OTHER -> request[r]]

\* The records as a dictionary built in the order of their ids.
InIdOrder(records) ==
    {d \in [1..Cardinality(records) -> records] :
        ToSet(d) = records /\ \A i, j \in DOMAIN d : i < j => d[i].id < d[j].id}

\* __init__ in a new process: the newest young rows in id order, then _persist.
\* A database that cannot be opened leaves the new process with memory only.
Reboot ==
    LET rows == Newest({e \in table : e.ts >= Cutoff}, MaxEntries)
        loaded == {Loaded(e) : e \in rows}
    IN  /\ boots < MaxLives
        /\ boots' = boots + 1
        /\ request' = Lost
        /\ \/ /\ open' = TRUE
              /\ memory' \in InIdOrder(loaded)
              /\ lastId' = IF table = {} THEN 0 ELSE Max(IdsOf(table))
              /\ \/ table' = Trim(Replace(loaded)) /\ warning' = FALSE /\ faults' = 0
                 \/ /\ MaxFaults > 0 /\ faults' = 1
                    /\ warning' = TRUE
                    /\ UNCHANGED table
           \/ /\ MaxFaults > 0 /\ faults' = 1
              /\ open' = FALSE /\ warning' = TRUE
              /\ memory' = <<>> /\ lastId' = 0
              /\ UNCHANGED table
        /\ UNCHANGED clock

Tick ==
    /\ clock < MaxClock
    /\ clock' = clock + 1
    /\ UNCHANGED <<memory, table, open, warning, lastId, request, faults, boots>>

LogInit ==
    /\ memory = <<>> /\ table = {}
    /\ open = TRUE /\ warning = FALSE
    /\ lastId = 0
    /\ request = [r \in Calls |-> [phase |-> "none", eid |-> NoId]]
    /\ clock = 0 /\ faults = 0 /\ boots = 1

LogNext ==
    \/ \E r \in Calls : Arrive(r) \/ BodyRead(r) \/ \E o \in Outcomes : End(r, o)
    \/ Clear
    \/ Reboot
    \/ Tick

LogSpec == LogInit /\ [][LogNext]_logVars

-------------------------------------------------------------------------------
(* Properties. *)

\* While the viewer shows no warning, every record it shows is on disk as shown,
\* the ones a failed write left behind included: a restart would not lose them.
\* (One that came back after it had been pruned may be older than the table keeps,
\* and puts the dictionary out of order, so that an aged one may linger.)  This is
\* what _persist's rewrite of all of memory after a failure is for.
LogAgrees ==
    open /\ ~warning =>
        \A e \in Held : e \in table \/ e.back \/ e.ts < Cutoff

\* A record tells what became of its request, before and after a restart: a
\* request that ended keeps its outcome, one the gateway took down with it is
\* interrupted, and nothing is shown in progress that is not running. (A row
\* whose last write failed may be pruned from memory before the rewrite and come
\* back stale: after a process whose writes failed only the last part is claimed.)
OutcomeKept ==
    \A e \in Held :
        CASE request[e.of].phase = "running" -> e.state = "in_progress"
          [] request[e.of].phase = "lost" -> e.state = "interrupted"
          [] request[e.of].phase \in Outcomes -> e.state = request[e.of].phase
          [] OTHER -> e.state # "in_progress"
=============================================================================
