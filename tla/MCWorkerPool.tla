---------------------------- MODULE MCWorkerPool ----------------------------
(* Small instances of WorkerPool for TLC. *)
EXTENDS WorkerPool, TLC

\* One account whose tabs come and go.
OneAccount == [t \in Tabs |-> 1]

\* Two accounts: tab 21 is a tab of account 2.
TwoAccounts == [t \in Tabs |-> t \div 10]

MCWant(p, v, x) == [pinned |-> p, provider |-> v, model |-> "any",
                    excluded |-> x]

\* Fresh requests for each provider, and a chained one.
MCWants == {MCWant(None, v, {}) : v \in Providers} \cup {MCWant(1, "gpt", {})}

\* ... and a failover attempt that excludes account 1.
FailoverWants == MCWants \cup {MCWant(None, "gpt", {1})}

\* Requests that ask for the same things are interchangeable; so are the
\* tabs of a single account.
RequestSymmetry == Permutations(Requests)
TabSymmetry == RequestSymmetry \cup Permutations(Tabs)
=============================================================================
