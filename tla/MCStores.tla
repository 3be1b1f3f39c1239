------------------------------ MODULE MCStores ------------------------------
(* The stores of one gateway for TLC: the files of media requests, the        *)
(* request log and the files of the accounts. They share the process and      *)
(* nothing else, no step of one reads or writes another, so that each is      *)
(* explored by itself: `part` says which.                                     *)
EXTENDS Files, RequestLog, AccountFiles, TLC

VARIABLE part

\* Every image opens alike: two PNGs of one size and colour type do.
MCPrefix == [x \in Images |-> "png"]

Symmetry == Permutations(Requests) \cup Permutations(Images) \cup Permutations(Proxies)

Init ==
    /\ part \in {"files", "log", "accounts"}
    /\ FilesInit /\ LogInit /\ AccInit

Next ==
    \/ part = "files" /\ FilesNext /\ UNCHANGED <<part, logVars, accVars>>
    \/ part = "log" /\ LogNext /\ UNCHANGED <<part, fileVars, accVars>>
    \/ part = "accounts" /\ AccNext /\ UNCHANGED <<part, fileVars, logVars>>

Spec == Init /\ [][Next]_<<part, fileVars, logVars, accVars>>

=============================================================================
