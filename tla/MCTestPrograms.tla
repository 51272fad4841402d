--------------------------- MODULE MCTestPrograms ---------------------------
(* TestPrograms for TLC.                                                   *)
EXTENDS TestPrograms

AllLibraries == {"MTO", "OTO", "POSIX"}
=============================================================================
