----------------------------- MODULE LineRetry -----------------------------
(***************************************************************************)
(* LineIO with a history of what an exception in the middle of sendline    *)
(* leaves on the connection when the program calls sendline again.  The    *)
(* history variables only follow the steps of LineIO.                      *)
(***************************************************************************)
EXTENDS LineIO

VARIABLES
    torn,     \* the stream ends in a part of a line that sendline gave up
    whole     \* the lines sendline sent to their end, each after a whole line

retryVars == <<vars, torn, whole>>

\* The call of sendline ends: it returns, or an exception leaves it.
CallEnds == sender = "sending" /\ sender' # "sending"
CallReturns == CallEnds /\ charsSent' = Len(message)

RetryInit == Init /\ torn = FALSE /\ whole = <<>>

RetryNext ==
    /\ Next
    /\ torn' = (~CallReturns /\ (torn \/ (CallEnds /\ charsSent > 0)))
    /\ whole' = IF CallReturns /\ ~torn THEN Append(whole, Last(accepted)) ELSE whole

RetrySpec == RetryInit /\ [][RetryNext]_retryVars

\* The members of part occur in all, in this order.
OccursIn(part, all) ==
    \E place \in [DOMAIN part -> DOMAIN all] :
        \A i \in DOMAIN part :
            /\ all[place[i]] = part[i]
            /\ i > 1 => place[i - 1] < place[i]

\* A program that calls sendline again after an exception in the middle of a
\* line spoils that line and the next one it sends to its end, with which the
\* rest merges, and no other: readline is back at the start of a line after
\* that.  (The delimiter here does not overlap itself.)
RetrySpoilsOneMoreLine ==
    receiver = "idle" /\ wire = <<>> => OccursIn(whole, delivered)
=============================================================================
