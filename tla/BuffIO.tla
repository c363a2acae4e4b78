------------------------------- MODULE BuffIO -------------------------------
(***************************************************************************)
(* snl::sendBuff and snl::receiveBuff at the two ends of a connection.     *)
(* Each end may send a buffer, and polls for the other end's with          *)
(* receiveBuff until it has all of it, moving the head of its own buffer   *)
(* by what each call returned (serverFunc and strSockTest in main.cpp).    *)
(* An end that does both does one after the other, in an order of its own. *)
(* The bytes are numbered by their place in the buffer that is sent.       *)
(***************************************************************************)
EXTENDS ByteStream

CONSTANTS
    Sizes,        \* the sizes a buffer can have, 0 when an end sends nothing
    Faults        \* which of "crash" and "hangup" can happen

ASSUME BufferAssumption ==
    /\ Sizes \subseteq Nat
    /\ Faults \subseteq {"crash", "hangup"}

Ends == {"client", "server"}

Peer(e) == IF e = "client" THEN "server" ELSE "client"

VARIABLES
    size,         \* size[e]: how many bytes e sends, which both ends know
    first,        \* first[e]: what the program of e does first
    pc,           \* pc[e]: what it does now
    wire,         \* wire[e]: the bytes e has sent and its peer not received
    bytesSent,    \* bytesSent[e]: the local bytesSent of e's sendBuff
    received      \* received[e]: e's buffer, as far as it is filled

programs == <<size, first>>
vars     == <<programs, pc, wire, bytesSent, received>>

Buffer(e) == [i \in 1..size[e] |-> i]

\* The socket of e is closed, by its program or with its process.
Absent(e) == pc[e] \in {"closed", "gone", "dead", "killed"}

Sends(e)    == size[e] > 0
Receives(e) == size[Peer(e)] > 0

Beginning(e) ==
    IF Sends(e) /\ (first[e] = "send" \/ ~Receives(e)) THEN "sending" ELSE "polling"

Init ==
    /\ size \in [Ends -> Sizes]
    /\ \E e \in Ends : Sends(e)
    /\ first \in [Ends -> {"send", "receive"}]
    /\ pc = [e \in Ends |-> Beginning(e)]
    /\ wire = [e \in Ends |-> <<>>]
    /\ bytesSent = [e \in Ends |-> 0]
    /\ received = [e \in Ends |-> <<>>]

-----------------------------------------------------------------------------
(* sendBuff.                                                               *)

AfterSending(e) == IF first[e] = "send" /\ Receives(e) THEN "polling" ELSE "done"

\* The head of the buffer is not moved.
Transmits_headStays(e, n) ==
    wire' = [wire EXCEPT ![e] = Sent(@, Absent(Peer(e)), SubSeq(Buffer(e), 1, n))]

\* e has n more bytes of its buffer sent.  When the peer is gone they are
\* discarded, and the answer may discard what came from the peer before.
Transmits(e, n) ==
    LET gone == Absent(Peer(e))
        sent == Sent(wire[e], gone, SubSeq(Buffer(e), bytesSent[e] + 1, bytesSent[e] + n))
    IN \/ wire' = [wire EXCEPT ![e] = sent]
       \/ gone /\ wire' = [wire EXCEPT ![e] = sent, ![Peer(e)] = <<>>]

Unsent(e) == size[e] - bytesSent[e]

\* send waits until all of the rest fits.
Sendable_whole(e) ==
    {n \in SendResults(wire[e], Absent(Peer(e)), Unsent(e)) : n = Unsent(e)}

Sendable(e) == SendResults(wire[e], Absent(Peer(e)), Unsent(e))

\* One byte too many is counted.
CountedTo_offByOne(e, n) ==
    /\ bytesSent' = [bytesSent EXCEPT ![e] = n + 1]
    /\ pc' = [pc EXCEPT ![e] = IF n + 1 = size[e] THEN AfterSending(e) ELSE "sending"]

\* There is no loop: whatever the first send took has to do.
CountedTo_once(e, n) ==
    /\ bytesSent' = [bytesSent EXCEPT ![e] = n]
    /\ pc' = [pc EXCEPT ![e] = AfterSending(e)]

\* The loop goes on until everything is counted as sent.
CountedTo(e, n) ==
    /\ bytesSent' = [bytesSent EXCEPT ![e] = n]
    /\ pc' = [pc EXCEPT ![e] = IF n = size[e] THEN AfterSending(e) ELSE "sending"]

\* bytesSent is assigned, not increased.
SendSome_lastOnly(e) ==
    /\ pc[e] = "sending"
    /\ \E n \in Sendable(e) : Transmits(e, n) /\ CountedTo(e, n)
    /\ UNCHANGED <<programs, received>>

SendSome(e) ==
    /\ pc[e] = "sending"
    /\ \E n \in Sendable(e) : Transmits(e, n) /\ CountedTo(e, bytesSent[e] + n)
    /\ UNCHANGED <<programs, received>>

\* ::send fails, for whatever reason: the exception leaves sendBuff and the
\* program, which no longer knows what was sent, gives up.
SendThrows(e) ==
    /\ pc[e] = "sending"
    /\ pc' = [pc EXCEPT ![e] = "failed"]
    /\ UNCHANGED <<programs, wire, bytesSent, received>>

-----------------------------------------------------------------------------
(* receiveBuff, one receive with MSG_DONTWAIT, called in a loop.           *)

AfterPolling(e) == IF first[e] = "receive" /\ Sends(e) THEN "sending" ELSE "done"

\* One call of receiveBuff is taken for the whole buffer.
ReceiveSome_once(e) ==
    /\ pc[e] = "polling"
    /\ \E n \in RecvResults(wire[Peer(e)], size[Peer(e)] - Len(received[e])) :
        /\ wire' = [wire EXCEPT ![Peer(e)] = After(n, @)]
        /\ received' = [received EXCEPT ![e] = @ \o SubSeq(wire[Peer(e)], 1, n)]
    /\ pc' = [pc EXCEPT ![e] = AfterPolling(e)]
    /\ UNCHANGED <<programs, bytesSent>>

\* A call that found bytes; the program asks for what is missing.
ReceiveSome(e) ==
    /\ pc[e] = "polling"
    /\ \E n \in RecvResults(wire[Peer(e)], size[Peer(e)] - Len(received[e])) :
        /\ wire' = [wire EXCEPT ![Peer(e)] = After(n, @)]
        /\ received' = [received EXCEPT ![e] = @ \o SubSeq(wire[Peer(e)], 1, n)]
    /\ pc' = [pc EXCEPT ![e] =
           IF Len(received'[e]) = size[Peer(e)] THEN AfterPolling(e) ELSE "polling"]
    /\ UNCHANGED <<programs, bytesSent>>

\* ::recv fails, mostly with EAGAIN because there is nothing to read: an
\* exception, and the program calls again with the same head.
ReceiveNothing(e) == pc[e] = "polling" /\ UNCHANGED vars

\* The end of the stream, or a connection that the peer has reset.
ReceiveEof(e) ==
    /\ pc[e] = "polling" /\ wire[Peer(e)] = <<>> /\ Absent(Peer(e))
    /\ pc' = [pc EXCEPT ![e] = "eof"]
    /\ UNCHANGED <<programs, wire, bytesSent, received>>

-----------------------------------------------------------------------------
(* The end of a connection.                                                *)

\* The socket of e is closed.  What was on its way to e is lost; if there was
\* anything the connection is reset, and what e has sent may be lost as well.
Leaves(e, how) ==
    /\ pc' = [pc EXCEPT ![e] = how]
    /\ \/ wire' = [wire EXCEPT ![Peer(e)] = <<>>]
       \/ wire[Peer(e)] # <<>> /\ wire' = [x \in Ends |-> <<>>]
    /\ UNCHANGED <<programs, bytesSent, received>>

\* A program closes its socket when it is done, or after an exception.
Close(e) ==
    \/ pc[e] = "done" /\ Leaves(e, "closed")
    \/ pc[e] \in {"failed", "eof"} /\ Leaves(e, "gone")

\* A program stops polling before it has everything.
HangUp(e) ==
    /\ "hangup" \in Faults
    /\ pc[e] = "polling" /\ Leaves(e, "gone")

\* send is called without MSG_NOSIGNAL.
SendKilled(e) == pc[e] = "sending" /\ Absent(Peer(e)) /\ Leaves(e, "killed")

Crashes(e) ==
    /\ "crash" \in Faults
    /\ ~Absent(e) /\ Leaves(e, "dead")

Next ==
    \E e \in Ends :
        \/ SendSome(e) \/ SendThrows(e) \/ SendKilled(e)
        \/ ReceiveSome(e) \/ ReceiveNothing(e) \/ ReceiveEof(e)
        \/ Close(e) \/ HangUp(e) \/ Crashes(e)

Spec == Init /\ [][Next]_vars

\* sendBuff goes on as long as the kernel lets it, and a polling program keeps
\* polling.
Fairness == \A e \in Ends : WF_vars(SendSome(e)) /\ WF_vars(ReceiveSome(e))

FairSpec == Spec /\ Fairness

-----------------------------------------------------------------------------
(* Properties.                                                             *)

\* Every variable has its type and no count exceeds the buffer.
TypeOK ==
    /\ size \in [Ends -> Sizes]
    /\ first \in [Ends -> {"send", "receive"}]
    /\ pc \in [Ends -> {"sending", "polling", "done", "failed", "eof",
                        "closed", "gone", "dead", "killed"}]
    /\ \A e \in Ends :
        /\ wire[e] \in Seq(1..size[e]) /\ Len(wire[e]) <= Capacity
        /\ bytesSent[e] \in 0..size[e]
        /\ received[e] \in Seq(1..size[Peer(e)])
        /\ Len(received[e]) <= size[Peer(e)]

\* What an end has received is the beginning of what was to be sent to it,
\* byte by byte, whatever pieces the two loops and the kernel cut it into.
ReceivedIsPrefix ==
    \A e \in Ends : received[e] = SubSeq(Buffer(Peer(e)), 1, Len(received[e]))

\* sendBuff's count is exact: while both ends are there, the bytes it counts
\* as sent are those that were received and those still on the wire.
CountIsExact ==
    (\A e \in Ends : ~Absent(e)) =>
        \A e \in Ends : bytesSent[e] = Len(received[Peer(e)]) + Len(wire[e])

Faulty(e) == pc[e] \in {"gone", "dead", "killed"}

\* A receiver that still misses bytes meets the end of the stream only if the
\* other end died or gave up: closing a socket when sendBuff has returned
\* cuts nothing off.
EofOnlyByFault == \A e \in Ends : pc[e] = "eof" => Faulty(Peer(e))

\* Each end sends more than the kernel holds before it reads anything.
BothOverfill == \A e \in Ends : first[e] = "send" /\ size[e] > Capacity

\* Each end waits for the other one's buffer before it sends its own.
BothWait == \A e \in Ends : first[e] = "receive" /\ Sends(e)

\* Two programs wait for each other only if both send first, and each of them
\* more than the kernel holds, or both receive first.  Whatever the sizes, it
\* is enough that one end reads first and the other end writes first.
StuckOnlyTogether ==
    (\A e \in Ends :
        \/ pc[e] = "sending" /\ Full(wire[e])
        \/ pc[e] = "polling" /\ wire[Peer(e)] = <<>>)
    => BothOverfill \/ BothWait

\* In every other case both programs get to their end, unless one of them dies,
\* hangs up or gives up because ::send failed; also with buffers larger than
\* what the kernel holds.
BothFinish ==
    \/ BothOverfill \/ BothWait
    \/ <>(\A e \in Ends : pc[e] \in {"done", "closed"})
    \/ <>(\E e \in Ends : Faulty(e) \/ pc[e] = "failed")
=============================================================================
