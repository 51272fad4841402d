---------------------------- MODULE MCOTOThreads ----------------------------
(* OTOThreads for TLC.                                                     *)
EXTENDS OTOThreads

(* Enough kernel ids for main and the threads, so that none is used twice. *)
EnoughIds == Cardinality(Slots) + 1
=============================================================================
