---------------------------- MODULE MCMutexLock ----------------------------
(* MutexLock for TLC.                                                      *)
EXTENDS MutexLock

(* test5.c's lock is static, and static memory is zeroed.                  *)
Static == {0}

(* The lowest address a lock can have by default (vm.mmap_min_addr).       *)
Lowest == 65536
=============================================================================
