------------------------------- MODULE LineIO -------------------------------
(***************************************************************************)
(* snl::sendline and snl::readline at the two ends of a connection.  Each  *)
(* is a loop around StreamSocket::send or StreamSocket::receive, and each  *)
(* iteration, one system call, is a step: the other end, the kernel's      *)
(* buffer and failures come in between.  Any ::send and any ::recv can     *)
(* fail, on a blocking socket too (a signal, no memory, a connection that  *)
(* is reset), and on one with O_NONBLOCK set with EAGAIN.                  *)
(***************************************************************************)
EXTENDS ByteStream, SequencesExt

CONSTANTS
    Lines,        \* the lines a program sends
    Eol,          \* the delimiter both ends use
    MaxLines,     \* bound: how many calls of sendline there are
    Retries,      \* the ends whose program calls again after an exception
    Faults        \* which of "crash" and "hangup" can happen

Occurs(pattern, s) ==
    \E i \in 0..(Len(s) - Len(pattern)) :
        SubSeq(s, i + 1, i + Len(pattern)) = pattern

\* Lines and the delimiter are strings, of whatever characters; the first
\* occurrence of the delimiter in what sendline writes is the one sendline wrote.
ASSUME LinesAssumption ==
    /\ MaxLines \in Nat
    /\ Retries \subseteq {"sender", "receiver"}
    /\ Faults \subseteq {"crash", "hangup"}
    /\ \A s \in Lines \cup {Eol} : s \in Seq(ToSet(s))
    /\ \A l \in Lines : ~Occurs(Eol, Front(l \o Eol))

VARIABLES
    wire,         \* the bytes that were sent and not yet received
    sender,       \* what the sending process does
    receiver,     \* what the receiving process does
    accepted,     \* history: the lines given to sendline
    message,      \* sendline's local message
    charsSent,    \* sendline's local charsSent
    lineBuff,     \* the string the caller of readline passes
    delivered     \* history: the lines readline returned

sendVars == <<accepted, message, charsSent, sender>>
readVars == <<lineBuff, delivered, receiver>>
vars     == <<wire, sendVars, readVars>>

\* The sending end is closed, or its process is gone: what is on the wire can
\* still be read, and the end of the stream comes after it.
Finished == sender \in {"closed", "dead"}

\* The receiving end is closed.
HungUp == receiver = "closed"

Init ==
    /\ wire = <<>>
    /\ sender = "idle"
    /\ accepted = <<>>
    /\ message = <<>>
    /\ charsSent = 0
    /\ receiver = "idle"
    /\ lineBuff = <<>>
    /\ delivered = <<>>

-----------------------------------------------------------------------------
(* sendline.                                                               *)

BeginSendline(line) ==
    /\ sender = "idle" /\ Len(accepted) < MaxLines
    /\ accepted' = Append(accepted, line)
    /\ message' = line \o Eol
    /\ charsSent' = 0
    /\ sender' = "sending"
    /\ UNCHANGED <<wire, readVars>>

\* Every iteration starts at the head of the message.
SendSome_fromHead ==
    /\ sender = "sending"
    /\ \E n \in SendResults(wire, HungUp, Len(message) - charsSent) :
        /\ wire' = Sent(wire, HungUp, SubSeq(message, 1, n))
        /\ charsSent' = charsSent + n
        /\ sender' = IF charsSent' = Len(message) THEN "idle" ELSE "sending"
    /\ UNCHANGED <<accepted, message, readVars>>

\* There is no loop: whatever the first send took has to do.
SendSome_once ==
    /\ sender = "sending"
    /\ \E n \in SendResults(wire, HungUp, Len(message) - charsSent) :
        /\ wire' = Sent(wire, HungUp, SubSeq(message, charsSent + 1, charsSent + n))
        /\ charsSent' = charsSent + n
        /\ sender' = "idle"
    /\ UNCHANGED <<accepted, message, readVars>>

\* The first byte is counted before it is sent.
SendSome_skipsOne ==
    /\ sender = "sending"
    /\ \E n \in SendResults(wire, HungUp, Len(message) - charsSent) :
        /\ wire' = Sent(wire, HungUp, SubSeq(message, charsSent + 1, charsSent + n))
        /\ charsSent' = charsSent + n + 1
        /\ sender' = IF charsSent' = Len(message) THEN "idle" ELSE "sending"
    /\ UNCHANGED <<accepted, message, readVars>>

\* send waits until all of the rest fits.
SendSome_whole ==
    /\ sender = "sending"
    /\ LET rest == Len(message) - charsSent IN
        /\ rest \in SendResults(wire, HungUp, rest)
        /\ wire' = Sent(wire, HungUp, After(charsSent, message))
    /\ charsSent' = Len(message)
    /\ sender' = "idle"
    /\ UNCHANGED <<accepted, message, readVars>>

SendSome ==
    /\ sender = "sending"
    /\ \E n \in SendResults(wire, HungUp, Len(message) - charsSent) :
        /\ wire' = Sent(wire, HungUp, SubSeq(message, charsSent + 1, charsSent + n))
        /\ charsSent' = charsSent + n
        /\ sender' = IF charsSent' = Len(message) THEN "idle" ELSE "sending"
    /\ UNCHANGED <<accepted, message, readVars>>

\* What a program does with an exception: call again, or close.
AfterException(end) == IF end \in Retries THEN "idle" ELSE "failed"

\* ::send fails, for whatever reason, and the exception leaves sendline, which
\* forgets how much of the message is gone.
SendThrows ==
    /\ sender = "sending"
    /\ sender' = AfterException("sender")
    /\ UNCHANGED <<wire, accepted, message, charsSent, readVars>>

\* send is called without MSG_NOSIGNAL.
SendKilled ==
    /\ sender = "sending" /\ HungUp
    /\ sender' = "killed"
    /\ UNCHANGED <<wire, accepted, message, charsSent, readVars>>

\* The application closes its socket when it is not in the middle of a call.
CloseSender ==
    /\ sender \in {"idle", "failed"}
    /\ sender' = "closed"
    /\ UNCHANGED <<wire, accepted, message, charsSent, readVars>>

SenderCrashes ==
    /\ "crash" \in Faults
    /\ sender \in {"idle", "sending"}
    /\ sender' = "dead"
    /\ UNCHANGED <<wire, accepted, message, charsSent, readVars>>

-----------------------------------------------------------------------------
(* readline.                                                               *)

\* The caller's string is not cleared.
BeginReadline_noClear ==
    /\ receiver = "idle"
    /\ receiver' = "reading"
    /\ UNCHANGED <<wire, lineBuff, delivered, sendVars>>

BeginReadline ==
    /\ receiver = "idle"
    /\ lineBuff' = <<>>
    /\ receiver' = "reading"
    /\ UNCHANGED <<wire, delivered, sendVars>>

\* lineBuff without its last Len(Eol) characters.
Stripped(line) == SubSeq(line, 1, Len(line) - Len(Eol))

\* One byte is received and appended; the delimiter ends the loop.
ReadByte ==
    /\ receiver = "reading"
    /\ 1 \in RecvResults(wire, 1)
    /\ wire' = After(1, wire)
    /\ LET line == Append(lineBuff, Head(wire)) IN
        \/ /\ ~Occurs(Eol, line)
           /\ lineBuff' = line
           /\ UNCHANGED <<delivered, receiver>>
        \/ /\ Occurs(Eol, line)
           /\ lineBuff' = Stripped(line)
           /\ delivered' = Append(delivered, lineBuff')
           /\ receiver' = "idle"
    /\ UNCHANGED sendVars

\* The exception leaves readline; the caller's string holds what came so far.
ReadEof ==
    /\ receiver = "reading" /\ wire = <<>> /\ Finished
    /\ receiver' = "eof"
    /\ UNCHANGED <<wire, lineBuff, delivered, sendVars>>

\* ::recv fails, for whatever reason: the exception leaves readline, and the
\* next call starts with an empty string.
ReadThrows ==
    /\ receiver = "reading"
    /\ receiver' = AfterException("receiver")
    /\ UNCHANGED <<wire, lineBuff, delivered, sendVars>>

\* The application closes its socket, having read enough of the stream.
HangUp ==
    /\ "hangup" \in Faults
    /\ receiver \in {"idle", "eof", "failed"}
    /\ receiver' = "closed"
    /\ wire' = <<>>
    /\ UNCHANGED <<lineBuff, delivered, sendVars>>

-----------------------------------------------------------------------------

ReadStep == BeginReadline \/ ReadByte \/ ReadEof

Next ==
    \/ \E line \in Lines : BeginSendline(line)
    \/ SendSome \/ SendThrows \/ SendKilled
    \/ CloseSender \/ SenderCrashes
    \/ ReadStep \/ ReadThrows
    \/ HangUp

Spec == Init /\ [][Next]_vars

\* A call of sendline that was made goes on as long as it can, and the
\* receiving program calls readline again and again, as the sample program
\* does.  Nobody is obliged to call sendline, to close or to fail.
Fairness == WF_vars(SendSome) /\ WF_vars(ReadStep)

FairSpec == Spec /\ Fairness

-----------------------------------------------------------------------------
(* Properties.                                                             *)

Bytes == UNION {ToSet(l \o Eol) : l \in Lines}

\* Every variable has its type, and sendline never counts more than it has.
TypeOK ==
    /\ wire \in BoundedSeq(Bytes, Capacity)
    /\ sender \in {"idle", "sending", "failed", "closed", "dead", "killed"}
    /\ accepted \in BoundedSeq(Lines, MaxLines)
    /\ message \in {<<>>} \cup {l \o Eol : l \in Lines}
    /\ charsSent \in 0..Len(message)
    /\ receiver \in {"idle", "reading", "failed", "eof", "closed"}
    /\ ToSet(lineBuff) \subseteq Bytes
    /\ Len(delivered) <= MaxLines

\* The histories of the two loops, taken for the channel's variables.
Channel == INSTANCE LineChannel
               WITH Lines <- Lines, accepted <- accepted, delivered <- delivered

\* Lines come out of readline as they went into sendline, none torn, merged,
\* repeated or out of order, through partial sends, a full buffer, errors of
\* ::send and ::recv, a sender that dies in the middle of a line and a receiver
\* that stops reading, as long as no program goes on after an exception.
LinesInOrder == Channel!Spec

\* One of the programs has died, given up after an exception or closed its
\* socket before the end.
EndFailed == sender \in {"failed", "dead"} \/ receiver \in {"failed", "closed"}

\* If neither end fails, every line is delivered in the end, also one that is
\* longer than what the kernel buffers.  With LinesInOrder: the two loops
\* implement the fair channel.
LinesArrive == <>EndFailed \/ Channel!Progress

\* At the end of the stream readline has read everything that was sent: every
\* line if the last call of sendline returned, and if a crash or an exception
\* ended it before, every line but that one, and of it, in the caller's
\* string, the bytes the call had sent.  No program goes on after an exception.
EofAfterEverything ==
    receiver = "eof" =>
        \/ /\ charsSent = Len(message)
           /\ Len(delivered) = Len(accepted)
           /\ lineBuff = <<>>
        \/ /\ charsSent < Len(message)
           /\ Len(delivered) = Len(accepted) - 1
           /\ lineBuff = SubSeq(message, 1, charsSent)

(* What the comments of the code promise and it does not keep.             *)

\* sendline "will always block until the message is completely sent
\* (independent of the socket behavior)": when the kernel takes no more bytes,
\* it waits.
SendlineBlocks ==
    [][sender = "sending" /\ Full(wire) => sender' = "sending"]_vars

\* "the send will throw errors if something goes wrong".
SendErrorsAreThrown == sender # "killed"
=============================================================================
