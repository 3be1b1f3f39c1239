----------------------------- MODULE MCRotation -----------------------------
(* Small instances of Rotation for TLC. *)
EXTENDS Rotation, TLC

\* Account 1 has two tabs, the others one each.
MCAccountOf == [t \in Tabs |-> t \div 10]

\* Fresh requests, and failover attempts that exclude account 1.
MCWants == [pinned : {None}, provider : Providers, model : Models,
            excluded : {{}, {1}}]

RequestSymmetry == Permutations(Requests)
=============================================================================
