----------------------------- MODULE MCFailover -----------------------------
(* Small instances of Failover for TLC. *)
EXTENDS Failover, TLC

TwoAccounts == [t \in Tabs |-> t \div 10]

\* One provider and model: every set of exclusions, and a continuation on
\* account 1.
MCWants == [pinned : {None}, provider : Providers, model : Models,
            excluded : SUBSET Accounts]
           \cup [pinned : {1}, provider : Providers, model : Models,
                 excluded : {{}}]

RequestSymmetry == Permutations(Requests)
=============================================================================
