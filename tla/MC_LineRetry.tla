---------------------------- MODULE MC_LineRetry ----------------------------
(* LineRetry with the lines and the delimiter of MC_LineIO: what is left of *)
(* one line and the next one can form a delimiter where nobody wrote one.   *)
EXTENDS LineRetry

MC_Lines == {<<>>, <<"n">>, <<"x", "r">>}
MC_Eol   == <<"r", "n">>
=============================================================================
