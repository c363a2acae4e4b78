---------------------------- MODULE Descriptors ----------------------------
(***************************************************************************)
(* The process's table of file descriptors, which the kernel keeps, and    *)
(* FdGuard::closeFd, the one place where the library calls ::close.        *)
(*                                                                         *)
(* The table is seen through the party each descriptor belongs to: the one *)
(* that opened it, or the one it was last handed to.  A number that was    *)
(* closed is free again and the kernel may give it to anybody, which is    *)
(* what makes a number that is remembered for too long dangerous.          *)
(***************************************************************************)
EXTENDS Integers

CONSTANT Fds       \* the descriptor numbers this process can be given

ASSUME DescriptorsAssumption == Fds \subseteq Nat

VARIABLE owner     \* owner[f] is the party that f belongs to, Nobody when f is free

NO_FD == -1
Nobody == "nobody"

FreeFds == {f \in Fds : owner[f] = Nobody}

IsOpen(f) == f \in Fds /\ owner[f] # Nobody

-----------------------------------------------------------------------------
(* closeFd(f) does nothing for NO_FD.  Otherwise it calls ::close, which   *)
(* fails with EBADF when f is not open and may report an error when it is, *)
(* and throws when that call fails.  An error of ::close on an open        *)
(* descriptor still frees the number: Linux releases it before anything in *)
(* close can fail.                                                         *)

CloseReturns(f) == f = NO_FD \/ IsOpen(f)

CloseThrows(f) == f # NO_FD

Vacated(table, f) ==
    IF f \in Fds THEN [table EXCEPT ![f] = Nobody] ELSE table
=============================================================================
