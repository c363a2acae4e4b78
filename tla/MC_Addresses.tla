---------------------------- MODULE MC_Addresses ----------------------------
(* Two objects of each class.  8080 is 31 * 256 + 144: its bytes differ.   *)
EXTENDS Addresses

MC_Ports  == {0, 8080, 65535}
MC_Labels == {0, 1}
=============================================================================
