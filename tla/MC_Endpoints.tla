---------------------------- MODULE MC_Endpoints ----------------------------
(* Endpoints with two variables of each class, so that there is a source   *)
(* and a target of moves, two clients, so that one can be served while the *)
(* other waits, and three descriptor numbers, so that a server that serves *)
(* both has none left.                                                     *)
EXTENDS Endpoints

MC_Fds == 3..5

\* Memory that is zero; ServerSocketFsm has the other values.
MC_FreshStates == {"INIT"}
=============================================================================
