----------------------------- MODULE AccountFiles -----------------------------
(* The files an account lives in: accounts.json (src/accounts/registry.py),   *)
(* usage.json (usage.py) and proxies.json (proxies.py), each an object in     *)
(* memory that is changed first and saved after, atomically, by a rename. A   *)
(* save may fail and leaves the object ahead of its file; the usage is saved  *)
(* by the monitor's loop only; a start reads the three files, goes on without *)
(* one it cannot read, and seeds the default account. Account 0 is `default`, *)
(* account n is `<provider>-n`, the id suggest_id mints. Whether an account   *)
(* runs is the subject of AccountManager; here only its existence counts.     *)
EXTENDS Integers, FiniteSets, Functions, FiniteSetsExt, Sequences

CONSTANTS MaxAccounts,  \* bound: ids suggest_id may mint
          Proxies,      \* usable proxy lines
          MaxTime,      \* bound: ticks of the clock
          Cooldowns,    \* lengths of a cooldown, in ticks: what a page says, or
                        \* the default
          MaxStarts,    \* bound: starts of the gateway
          MaxBroken     \* bound: reads and writes that fail

ASSUME AccountFilesAssumption ==
    /\ {MaxAccounts, MaxTime, MaxStarts, MaxBroken} \subseteq Nat
    /\ Cooldowns \subseteq Nat \ {0}

VARIABLES registry,      \* AccountRegistry._accounts: id -> [number, order]
          registryFile,  \* accounts.json
          manager,       \* the ids in AccountManager._accounts
          until,         \* UsageStore: id -> cooldown_until
          usageFile,     \* usage.json
          dirty,         \* UsageStore._dirty
          lines,         \* ProxyPool._lines
          proxyFile,     \* proxies.json
          time,          \* time.time()
          starts,        \* starts so far
          broken         \* failed reads and writes so far

accVars == <<registry, registryFile, manager, until, usageFile, dirty, lines,
             proxyFile, time, starts, broken>>
files == <<registryFile, usageFile, proxyFile>>

Default == 0
Ids == 0..MaxAccounts
Numbers == 1..(MaxAccounts + 2)
ProxyLists == UNION {[1..n -> Proxies] : n \in 0..2}
Registries == UNION {[S -> Numbers] : S \in SUBSET Ids}

With(f, id, x) == [i \in DOMAIN f \cup {id} |-> IF i = id THEN x ELSE f[i]]

Fault == broken < MaxBroken /\ broken' = broken + 1
NoFault == UNCHANGED broken

-------------------------------------------------------------------------------
(* accounts.json. *)

\* Mutant: numbers are counted, not searched for a gap.
NextNumberCounted(reg) == Cardinality(DOMAIN reg) + 1

\* The lowest number no account has.
NextNumber(reg) == Min({n \in Numbers : \A i \in DOMAIN reg : reg[i] # n})

\* The lowest id no account has.
Free == {n \in 1..MaxAccounts : n \notin DOMAIN registry}

\* _save_unlocked: the rename replaces the file, or the call fails before it.
SaveRegistry(reg) ==
    \/ registryFile' = reg /\ NoFault
    \/ Fault /\ UNCHANGED registryFile

\* POST /admin/api/accounts: the registry first; manager and pool once it is saved.
Create ==
    /\ Free # {}
    /\ LET id  == Min(Free)
           reg == With(registry, id, NextNumber(registry))
       IN  /\ registry' = reg
           /\ \/ registryFile' = reg /\ NoFault /\ manager' = manager \cup {id}
              \/ Fault /\ UNCHANGED <<registryFile, manager>>
    /\ UNCHANGED <<until, usageFile, dirty, lines, proxyFile, time, starts>>

\* PATCH: the fields are set in place, then all of the registry is saved, what an
\* earlier call left unsaved included. (The number is not edited here.)
Update(id) ==
    /\ id \in DOMAIN registry
    /\ SaveRegistry(registry)
    /\ UNCHANGED <<registry, manager, until, usageFile, dirty, lines, proxyFile, time, starts>>

\* DELETE: out of manager and pool, then out of the registry and its file. The
\* usage of the account stays.
Delete(id) ==
    /\ id \in DOMAIN registry \ {Default}
    /\ manager' = manager \ {id}
    /\ LET reg == Restrict(registry, DOMAIN registry \ {id})
       IN  registry' = reg /\ SaveRegistry(reg)
    /\ UNCHANGED <<until, usageFile, dirty, lines, proxyFile, time, starts>>

-------------------------------------------------------------------------------
(* usage.json. *)

\* note_limit: the account that served a request hit its limit. The cooldown runs
\* from now, and what was left of an earlier one does not count.
NoteLimit(id) ==
    /\ id \in manager
    /\ \E length \in Cooldowns : until' = With(until, id, time + length)
    /\ dirty' = TRUE
    /\ UNCHANGED <<registry, registryFile, manager, usageFile, lines, proxyFile, time, starts, broken>>

\* Mutant: the flag is cleared although the write failed.
SaveUsageClearing ==
    /\ dirty
    /\ dirty' = FALSE
    /\ \/ usageFile' = until /\ NoFault
       \/ Fault /\ UNCHANGED usageFile
    /\ UNCHANGED <<registry, registryFile, manager, until, lines, proxyFile, time, starts>>

\* save, from the monitor's loop every three seconds and at shutdown: a failed
\* write leaves the flag, and the next round writes again.
SaveUsage ==
    /\ dirty
    /\ \/ usageFile' = until /\ dirty' = FALSE /\ NoFault
       \/ Fault /\ UNCHANGED <<usageFile, dirty>>
    /\ UNCHANGED <<registry, registryFile, manager, until, lines, proxyFile, time, starts>>

InCooldown(id) == id \in DOMAIN until /\ until[id] > time

-------------------------------------------------------------------------------
(* proxies.json. *)

\* PUT of the proxy list: the lines are replaced in memory, then saved.
ReplaceProxies(list) ==
    /\ list # lines
    /\ lines' = list
    /\ \/ proxyFile' = list /\ NoFault
       \/ Fault /\ UNCHANGED proxyFile
    /\ UNCHANGED <<registry, registryFile, manager, until, usageFile, dirty, time, starts>>

Direct == "none (direct)"

\* line_for_number: the account's number, wrapped around the list.
LineFor(list, reg, id) ==
    IF list = <<>> THEN Direct ELSE list[((reg[id] - 1) % Len(list)) + 1]

-------------------------------------------------------------------------------
(* Time and starts. *)

Pass ==
    /\ time < MaxTime /\ time' = time + 1
    /\ UNCHANGED <<registry, registryFile, manager, until, usageFile, dirty, lines,
                   proxyFile, starts, broken>>

\* Mutant: the numbers are filled in for every account, by its place.
SeededAfresh(reg) ==
    LET ids == DOMAIN reg \cup {Default}
    IN  [i \in ids |-> Cardinality({j \in ids : j <= i})]

\* ensure_default: the default account is seeded with number 1 where it is missing.
Seeded(reg) ==
    IF Default \in DOMAIN reg THEN reg ELSE With(reg, Default, 1)

NoAccounts == [i \in {} |-> 0]

\* The lifespan's start, after a crash or a stop (a stop saves the usage first:
\* SaveUsage). Each load goes on with nothing when its file cannot be read, and
\* seeding the default account then replaces accounts.json.
Start(unread) ==
    LET reg == Seeded(IF "registry" \in unread THEN NoAccounts ELSE registryFile)
    IN  /\ starts < MaxStarts /\ starts' = starts + 1
        /\ Cardinality(unread) + broken <= MaxBroken
        /\ broken' = broken + Cardinality(unread)
        /\ registry' = reg
        /\ registryFile' = reg
        /\ manager' = DOMAIN reg
        /\ until' = IF "usage" \in unread THEN NoAccounts ELSE usageFile
        /\ dirty' = FALSE
        /\ lines' = IF "proxies" \in unread THEN <<>> ELSE proxyFile
        /\ UNCHANGED <<usageFile, proxyFile, time>>

Stores == {"registry", "usage", "proxies"}

AccInit ==
    /\ registry = Seeded(NoAccounts) /\ registryFile = registry
    /\ manager = {Default}
    /\ until = NoAccounts /\ usageFile = NoAccounts /\ dirty = FALSE
    /\ lines = <<>> /\ proxyFile = <<>>
    /\ time = 0 /\ starts = 1 /\ broken = 0

AccNext ==
    \/ Create
    \/ \E id \in Ids : Update(id) \/ Delete(id) \/ NoteLimit(id)
    \/ SaveUsage
    \/ \E list \in ProxyLists : ReplaceProxies(list)
    \/ Pass
    \/ \E unread \in SUBSET Stores : Start(unread)

AccSpec == AccInit /\ [][AccNext]_accVars

-------------------------------------------------------------------------------
(* Properties. *)

\* An account's proxy is its own and stays with it: no two accounts have the same
\* number (they share a proxy only when there are fewer proxies than accounts), and
\* the proxy an account goes out through changes only when the operator replaces
\* the list, or a start cannot read a file of theirs or finds an older list than memory -
\* not through removals, failed saves or restarts. (An operator may still set a
\* number by hand.)
ProxyOwn ==
    /\ [](\A i, j \in DOMAIN registry : i # j => registry[i] # registry[j])
    /\ [][\A id \in manager \cap manager' :
             LineFor(lines', registry', id) # LineFor(lines, registry, id)
               => \/ \E list \in ProxyLists : ReplaceProxies(list)
                  \/ \E unread \in SUBSET Stores :
                        /\ Start(unread)
                        /\ proxyFile # lines \/ unread \cap {"registry", "proxies"} # {}]_accVars

\* A cooldown that has not run out is forgotten or cut short only by a newer limit
\* of the same account, which may say an earlier time, by a crash before the save
\* (the monitor saves every three seconds, and a failed save is made up for), or by
\* a start that cannot read usage.json: not by a restart, a removal, a failed save
\* or another account's limit.
CooldownKept ==
    [][\A id \in Ids :
          InCooldown(id) /\ (id \notin DOMAIN until' \/ until'[id] < until[id])
            => \/ NoteLimit(id)
               \/ \E unread \in SUBSET Stores :
                     Start(unread) /\ (dirty \/ "usage" \in unread)]_accVars

===============================================================================
