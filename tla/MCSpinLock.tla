----------------------------- MODULE MCSpinLock -----------------------------
(* SpinLock for TLC.                                                       *)
EXTENDS SpinLock

(* test11.c's lock is static, and static memory is zeroed.                 *)
Static == {0}
=============================================================================
