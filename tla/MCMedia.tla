------------------------------ MODULE MCMedia ------------------------------
(* The tab of Media for TLC; its constants are plain values. *)
EXTENDS Media
=============================================================================
