----------------------------- MODULE ByteStream -----------------------------
(***************************************************************************)
(* One direction of a TCP connection, as ::send and ::recv see it: a first *)
(* in, first out queue of bytes between two processes, of which the kernel *)
(* holds at most Capacity.  A call may move fewer bytes than it was asked  *)
(* for.  The operators take the queue, and whether the receiving end is    *)
(* gone, as arguments, so that a connection can have two of them.          *)
(***************************************************************************)
EXTENDS Integers, Sequences

CONSTANT Capacity   \* how many bytes the kernel buffers

ASSUME CapacityAssumption == Capacity \in Nat \ {0}

\* The bytes of a message that follow the first n.
After(n, message) == SubSeq(message, n + 1, Len(message))

Full(w) == Len(w) = Capacity

\* The results n of a ::send of `size' bytes that succeeds.  If the receiving
\* end is gone it may be accepted as well, fail, or raise SIGPIPE.
SendResults(w, gone, size) ==
    {n \in 1..size : gone \/ n <= Capacity - Len(w)}

\* What is accepted for a receiver that is gone is discarded.
Sent(w, gone, bytes) == IF gone THEN <<>> ELSE w \o bytes

\* The results n of a ::recv into `size' bytes that finds some.
RecvResults(w, size) == {n \in 1..size : n <= Len(w)}
=============================================================================
