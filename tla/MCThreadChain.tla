---------------------------- MODULE MCThreadChain ----------------------------
(* Small instances of ThreadChain for TLC. *)
EXTENDS ThreadChain

\* Tabs 11 and 12 belong to account 1, and so does conversation 101.
MCAccountOf == [t \in Tabs |-> t \div 10]
MCOwnerOf == [T \in Threads |-> T \div 100]
=============================================================================
