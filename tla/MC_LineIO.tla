----------------------------- MODULE MC_LineIO -----------------------------
(* LineIO with a delimiter of two bytes, lines that are empty, that end in *)
(* half a delimiter or that start with its other half, and a kernel buffer *)
(* shorter than most messages.                                             *)
EXTENDS LineIO

MC_Lines == {<<>>, <<"r">>, <<"n">>, <<"x", "r">>}
MC_Eol   == <<"r", "n">>
=============================================================================
