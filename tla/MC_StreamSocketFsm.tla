------------------------ MODULE MC_StreamSocketFsm ------------------------
(* StreamSocketFsm with two descriptor numbers (its own, and one that some *)
(* other part of the process can hold or take over) and two hosts, so that *)
(* a later connect can go somewhere else.                                  *)
EXTENDS StreamSocketFsm

MC_Fds == 3..4
=============================================================================
