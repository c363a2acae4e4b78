------------------------ MODULE MC_ServerSocketFsm ------------------------
(* ServerSocketFsm with two descriptor numbers (its own, and one that an   *)
(* accepted connection or some other part of the process can take) and two *)
(* addresses, so that a second bind can differ from the first.             *)
EXTENDS ServerSocketFsm

MC_Fds == 3..4

\* Memory that happens to be zero, and memory with anything in it.
MC_Zeroed == {INIT}
MC_Indeterminate == States
=============================================================================
