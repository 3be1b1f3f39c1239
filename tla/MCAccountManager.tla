--------------------------- MODULE MCAccountManager ---------------------------
(* Small instances of AccountManager for TLC. *)
EXTENDS AccountManager, TLC

MCAccountOf == [t \in Tabs |-> t \div 10]

MCWants == [pinned : {None}, provider : Providers, model : Models,
            excluded : {{}}]

RequestSymmetry == Permutations(Requests)
=============================================================================
