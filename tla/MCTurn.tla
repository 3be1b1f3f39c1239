------------------------------- MODULE MCTurn -------------------------------
(* Small instances of Turn for TLC. *)
EXTENDS Turn

MCContents == {"old", "status", "part", "whole", "image"}
MCCopyable == {"old", "whole"}

\* A plain chat, one mode, and a model that needs two.
MCGroupsOf == [i \in Ids |-> CASE i = "plain" -> {}
                                [] i = "think" -> {"think"}
                                [] i = "both" -> {"think", "search"}]
=============================================================================
