------------------------------ MODULE Reception ------------------------------
(***************************************************************************)
(* What a ServerSocket promises the clients of a program, together with    *)
(* the StreamSockets that accept() makes: they are served in the order in  *)
(* which they came, nobody is served who did not wait, and no call costs   *)
(* more than one of them its place, unless it closes the server and with   *)
(* it the queue.  The program may end the connection of a served client at *)
(* any time; with which calls is not said here.                            *)
(***************************************************************************)
EXTENDS Naturals, Sequences

CONSTANT Clients

VARIABLES
    waiting,    \* the clients that are connected and not yet accepted
    served,     \* the clients whose connection a StreamSocket holds
    over        \* nothing is promised any more

vars == <<waiting, served, over>>

Init == waiting = <<>> /\ served = {} /\ over = FALSE

Arrive(c) ==
    /\ c \notin served /\ \A i \in DOMAIN waiting : waiting[i] # c
    /\ waiting' = Append(waiting, c)
    /\ UNCHANGED <<served, over>>

\* The first in the queue is served.  Instead of it, or for it, one client may
\* lose its place.
Serve ==
    /\ waiting # <<>>
    /\ waiting' = Tail(waiting)
    /\ LET candidates == served \cup {Head(waiting)}
       IN \/ served' = candidates
          \/ \E lost \in candidates : served' = candidates \ {lost}
    /\ UNCHANGED over

\* The program gives up the connection of a served client.
Leave(c) ==
    /\ c \in served
    /\ served' = served \ {c}
    /\ UNCHANGED <<waiting, over>>

\* The server is closed, and with it the connections nobody has accepted.
CloseDoor ==
    /\ waiting' = <<>>
    /\ UNCHANGED <<served, over>>

End ==
    /\ over' = TRUE
    /\ waiting' = <<>>
    /\ served' = {}

Next ==
    \/ \E c \in Clients : Arrive(c) \/ Leave(c)
    \/ Serve \/ CloseDoor \/ End

Spec == Init /\ [][~over /\ Next]_vars
=============================================================================
