---------------------------- MODULE BuffIO_proofs ----------------------------
(***************************************************************************)
(* Proofs about BuffIO for every buffer size, every capacity of the        *)
(* kernel, every way the two loops and the kernel cut the buffers up, and  *)
(* every set of faults: its types and the four safety invariants.          *)
(*                                                                         *)
(* All of them follow from one inductive invariant about each end of the   *)
(* connection, EndInv: the bytes that have arrived and the bytes on the    *)
(* wire are consecutive, sendBuff's count is what arrived and what is on   *)
(* the wire (and no more, once somebody has left in trouble), and where a  *)
(* program stands says how far its two buffers are.                        *)
(***************************************************************************)
EXTENDS BuffIO, SequenceTheorems, TLAPS

USE CapacityAssumption, BufferAssumption

-----------------------------------------------------------------------------
(* The two ends.                                                           *)

LEMMA Peers ==
    ASSUME NEW e \in Ends
    PROVE  /\ Peer(e) \in Ends /\ Peer(e) # e /\ Peer(Peer(e)) = e
           /\ \A x \in Ends : x = e \/ x = Peer(e)
  BY DEF Ends, Peer

-----------------------------------------------------------------------------
(* Pieces of a buffer.  Byte i of a buffer is numbered i.                  *)

\* s is the piece of a buffer that follows its first k bytes.
Piece(s, k) == s \in Seq(Nat) /\ \A i \in 1..Len(s) : s[i] = k + i

LEMMA EmptyPiece == ASSUME NEW k \in Nat PROVE Piece(<<>>, k) /\ Len(<<>>) = 0
  BY DEF Piece

LEMMA PieceLen == ASSUME NEW s, NEW k, Piece(s, k) PROVE Len(s) \in Nat
  BY DEF Piece

\* A piece that follows another makes one piece with it.
LEMMA PieceAppended ==
    ASSUME NEW k \in Nat, NEW s, Piece(s, k),
           NEW t, NEW m, m = k + Len(s), Piece(t, m)
    PROVE  Piece(s \o t, k) /\ Len(s \o t) = Len(s) + Len(t)
  <1>1. /\ s \o t \in Seq(Nat)
        /\ Len(s \o t) = Len(s) + Len(t)
        /\ \A i \in 1..Len(s) + Len(t) :
             (s \o t)[i] = IF i <= Len(s) THEN s[i] ELSE t[i - Len(s)]
    BY ConcatProperties DEF Piece
  <1>2. Len(s) \in Nat /\ Len(t) \in Nat
    BY PieceLen
  <1>3. ASSUME NEW i \in 1..Len(s \o t) PROVE (s \o t)[i] = k + i
    <2>1. CASE i <= Len(s)
      BY <1>1, <1>2, <2>1 DEF Piece
    <2>2. CASE ~(i <= Len(s))
      <3>1. i - Len(s) \in 1..Len(t)
        BY <1>1, <1>2, <2>2
      <3>2. t[i - Len(s)] = k + Len(s) + (i - Len(s))
        BY <3>1 DEF Piece
      <3>3. QED
        BY <1>1, <1>2, <2>2, <3>2
    <2>3. QED
      BY <2>1, <2>2
  <1>4. QED
    BY <1>1, <1>3 DEF Piece

\* Its first n bytes, and what follows them.
LEMMA PieceCut ==
    ASSUME NEW k \in Nat, NEW s, Piece(s, k), NEW n \in Nat, n <= Len(s)
    PROVE  /\ Piece(SubSeq(s, 1, n), k) /\ Len(SubSeq(s, 1, n)) = n
           /\ Piece(After(n, s), k + n) /\ Len(After(n, s)) = Len(s) - n
  <1>0. Len(s) \in Nat /\ \A i \in 1..Len(s) : s[i] \in Nat /\ s[i] = k + i
    BY PieceLen DEF Piece
  <1>1. /\ SubSeq(s, 1, n) \in Seq(Nat)
        /\ Len(SubSeq(s, 1, n)) = n
        /\ \A i \in 1..n : SubSeq(s, 1, n)[i] = s[i]
    <2>1. \A i \in 1..n : s[i] \in Nat
      BY <1>0
    <2>2. /\ SubSeq(s, 1, n) \in Seq(Nat)
          /\ Len(SubSeq(s, 1, n)) = IF 1 <= n THEN n - 1 + 1 ELSE 0
          /\ \A i \in 1..n - 1 + 1 : SubSeq(s, 1, n)[i] = s[1 + i - 1]
      BY <2>1, SubSeqProperties
    <2>3. QED
      BY <2>2
  <1>2. /\ After(n, s) \in Seq(Nat)
        /\ Len(After(n, s)) = Len(s) - n
        /\ \A i \in 1..Len(s) - n : After(n, s)[i] = s[n + i]
    <2>1. \A i \in n + 1..Len(s) : s[i] \in Nat
      BY <1>0
    <2>2. /\ After(n, s) \in Seq(Nat)
          /\ Len(After(n, s)) = IF n + 1 <= Len(s) THEN Len(s) - (n + 1) + 1 ELSE 0
          /\ \A i \in 1..Len(s) - (n + 1) + 1 : After(n, s)[i] = s[n + 1 + i - 1]
      BY <1>0, <2>1, SubSeqProperties DEF After
    <2>3. QED
      BY <1>0, <2>2
  <1>3. \A i \in 1..n : i \in 1..Len(s)
    BY <1>0
  <1>4. Piece(SubSeq(s, 1, n), k)
    BY <1>0, <1>1, <1>3 DEF Piece
  <1>5. Piece(After(n, s), k + n)
    <2>1. ASSUME NEW i \in 1..Len(s) - n
          PROVE  n + i \in 1..Len(s) /\ k + (n + i) = k + n + i
      BY <1>0
    <2>2. QED
      BY <1>0, <1>2, <2>1 DEF Piece
  <1>6. QED
    BY <1>1, <1>2, <1>4, <1>5

\* The n bytes of a buffer that sendBuff hands to ::send next.
LEMMA BufferPiece ==
    ASSUME NEW e, size[e] \in Nat, NEW b \in Nat, NEW n \in Nat, b + n <= size[e]
    PROVE  LET s == SubSeq(Buffer(e), b + 1, b + n)
           IN  Piece(s, b) /\ Len(s) = n
  <1> DEFINE s == SubSeq(Buffer(e), b + 1, b + n)
  <1>1. \A i \in b + 1..b + n : Buffer(e)[i] = i /\ Buffer(e)[i] \in Nat
    BY DEF Buffer
  <1>2. /\ s \in Seq(Nat)
        /\ Len(s) = IF b + 1 <= b + n THEN b + n - (b + 1) + 1 ELSE 0
        /\ \A i \in 1..b + n - (b + 1) + 1 : s[i] = Buffer(e)[b + 1 + i - 1]
    BY <1>1, SubSeqProperties
  <1>3. Len(s) = n /\ \A i \in 1..n : s[i] = b + i
    BY <1>1, <1>2
  <1>4. QED
    BY <1>2, <1>3 DEF Piece

\* The same piece of the same length is the same sequence.
LEMMA PieceUnique ==
    ASSUME NEW k \in Nat, NEW s, Piece(s, k), NEW t, Piece(t, k), Len(s) = Len(t)
    PROVE  s = t
  BY SeqEqual DEF Piece

\* A piece whose bytes are in S is a sequence over S.
LEMMA PieceOver ==
    ASSUME NEW k, NEW s, Piece(s, k), NEW S, \A i \in 1..Len(s) : s[i] \in S
    PROVE  s \in Seq(S)
  <1>1. s \in [1..Len(s) -> Nat] /\ Len(s) \in Nat
    BY LenProperties DEF Piece
  <1>2. s \in [1..Len(s) -> S]
    BY <1>1
  <1>3. QED
    BY <1>1, <1>2, SeqDef

\* Sums of lengths.
LEMMA Sums ==
    /\ \A r, w, b \in Nat : r + w <= b => r <= b
    /\ \A r, w, b, x \in Nat : r + w <= b /\ x <= w => r + x <= b
    /\ \A r, w, b, n \in Nat : r + w <= b /\ b <= n /\ b # n => r # n
  OBVIOUS

-----------------------------------------------------------------------------
(* The inductive invariant.                                                *)

Places == {"sending", "polling", "done", "failed", "eof",
           "closed", "gone", "dead", "killed"}

\* The variables are functions over the two ends.
Shapes ==
    /\ size \in [Ends -> Sizes]
    /\ first \in [Ends -> {"send", "receive"}]
    /\ pc \in [Ends -> Places]
    /\ wire \in [Ends -> Seq(Nat)]
    /\ bytesSent \in [Ends -> Nat]
    /\ received \in [Ends -> Seq(Nat)]

AllSent(e)     == bytesSent[e] = size[e]
AllReceived(e) == Len(received[e]) = size[Peer(e)]

\* How many bytes of e's buffer have arrived.
Arrived(e) == Len(received[Peer(e)])

\* What has arrived is the beginning of a buffer, what is on the wire follows.
RightBytes(e) ==
    Piece(received[e], 0) /\ Piece(wire[e], Arrived(e)) /\ Len(wire[e]) <= Capacity

\* Nothing is received that was not sent, and nothing is lost as long as e has
\* not failed and its peer is there: closing a socket in order loses nothing.
Counted(e) ==
    /\ Arrived(e) + Len(wire[e]) <= bytesSent[e]
    /\ bytesSent[e] <= size[e]
    /\ ~Faulty(e) /\ ~Absent(Peer(e)) => Arrived(e) + Len(wire[e]) = bytesSent[e]

\* How far the buffers are where the program of e stands.
Phase(e) ==
    /\ pc[e] = "sending" =>
         /\ ~AllSent(e)
         /\ first[e] = "send" => Len(received[e]) = 0
         /\ first[e] = "receive" => AllReceived(e)
    /\ pc[e] = "polling" =>
         /\ Len(received[e]) < size[Peer(e)]
         /\ first[e] = "send" => AllSent(e)
         /\ first[e] = "receive" => bytesSent[e] = 0
    /\ pc[e] \in {"done", "closed"} => AllSent(e) /\ AllReceived(e)

EofBlame(e) == pc[e] = "eof" => Faulty(Peer(e))

EndInv(e) == RightBytes(e) /\ Counted(e) /\ Phase(e) /\ EofBlame(e)

Inv == Shapes /\ \A e \in Ends : EndInv(e)

\* What a proof about a step of end e needs to know of both ends.
LEMMA Facts ==
    ASSUME Inv, NEW e \in Ends
    PROVE  /\ Peer(e) \in Ends /\ Peer(e) # e /\ Peer(Peer(e)) = e
           /\ EndInv(e) /\ EndInv(Peer(e))
           /\ size[e] \in Nat /\ size[Peer(e)] \in Nat
           /\ bytesSent[e] \in Nat /\ bytesSent[Peer(e)] \in Nat
           /\ Len(wire[e]) \in Nat /\ Len(wire[Peer(e)]) \in Nat
           /\ Len(received[e]) \in Nat /\ Len(received[Peer(e)]) \in Nat
  <1>1. Peer(e) \in Ends /\ Peer(e) # e /\ Peer(Peer(e)) = e
    BY Peers
  <1>2. size[e] \in Nat /\ size[Peer(e)] \in Nat
    BY <1>1 DEF Inv, Shapes
  <1>3. QED
    BY <1>1, <1>2 DEF Inv, Shapes

LEMMA InitInv == Init => Inv
  <1> SUFFICES ASSUME Init PROVE Inv
    OBVIOUS
  <1>1. Shapes
    BY DEF Init, Shapes, Places, Beginning
  <1>2. ASSUME NEW e \in Ends PROVE EndInv(e)
    <2>1. Peer(e) \in Ends /\ Peer(Peer(e)) = e
      BY Peers
    <2>2. /\ wire[e] = <<>> /\ bytesSent[e] = 0
          /\ received[e] = <<>> /\ received[Peer(e)] = <<>>
          /\ size[e] \in Nat /\ size[Peer(e)] \in Nat
          /\ pc[e] = Beginning(e)
      BY <2>1 DEF Init
    <2>3. RightBytes(e)
      BY <2>2, EmptyPiece DEF RightBytes, Arrived
    <2>4. Counted(e)
      BY <2>2, EmptyPiece DEF Counted, Arrived
    <2>5. \E x \in Ends : Sends(x)
      BY DEF Init
    <2>6. Sends(e) \/ Receives(e)
      BY <2>5, Peers DEF Sends, Receives
    <2>7. Phase(e)
      BY <2>1, <2>2, <2>6, EmptyPiece
      DEF Phase, AllSent, AllReceived, Beginning, Sends, Receives
    <2>8. EofBlame(e)
      BY <2>2 DEF EofBlame, Beginning
    <2>9. QED
      BY <2>3, <2>4, <2>7, <2>8 DEF EndInv
  <1>3. QED
    BY <1>1, <1>2 DEF Inv

\* sendBuff: the bytes that follow those sent are put on the wire, or thrown
\* away because the peer is gone.  In the second case what the peer sent may be
\* discarded too; it had not finished, or it would not have left a sender.
LEMMA SendSomeInv == ASSUME Inv, NEW e \in Ends, SendSome(e) PROVE Inv'
  <1> DEFINE p == Peer(e)
             b == bytesSent[e]
  <1>0. /\ p \in Ends /\ p # e /\ Peer(p) = e
        /\ EndInv(e) /\ EndInv(p)
        /\ size[e] \in Nat /\ size[p] \in Nat /\ b \in Nat /\ bytesSent[p] \in Nat
        /\ Len(wire[e]) \in Nat /\ Len(wire[p]) \in Nat
        /\ Len(received[e]) \in Nat /\ Len(received[p]) \in Nat
    BY Facts
  <1>s. Shapes
    BY DEF Inv
  <1>a. Arrived(e) \in Nat /\ Arrived(e) + Len(wire[e]) <= b
    BY <1>0 DEF EndInv, Counted, Arrived
  <1>1. PICK n \in Sendable(e) : Transmits(e, n) /\ CountedTo(e, b + n)
    BY DEF SendSome
  <1>2. /\ n \in Nat /\ n >= 1 /\ b + n <= size[e]
        /\ Absent(p) \/ n <= Capacity - Len(wire[e])
    BY <1>0, <1>1 DEF Sendable, SendResults, Unsent
  <1>3. pc[e] = "sending" /\ UNCHANGED <<size, first, received>>
    BY DEF SendSome, programs
  <1> DEFINE part == SubSeq(Buffer(e), b + 1, b + n)
             sent == Sent(wire[e], Absent(p), part)
  <1>4. Piece(part, b) /\ Len(part) = n
    BY <1>0, <1>2, BufferPiece
  <1>5. /\ bytesSent' = [bytesSent EXCEPT ![e] = b + n]
        /\ pc' = [pc EXCEPT ![e] = IF b + n = size[e] THEN AfterSending(e) ELSE "sending"]
        /\ wire' = [wire EXCEPT ![e] = sent] \/ wire' = [wire EXCEPT ![e] = sent, ![p] = <<>>]
        /\ ~Absent(p) => wire' = [wire EXCEPT ![e] = sent]
    BY <1>1 DEF CountedTo, Transmits
  <1>w. sent = IF Absent(p) THEN <<>> ELSE wire[e] \o part
    BY DEF Sent
  <1> HIDE DEF sent, part
  <1>6. /\ Piece(sent, Arrived(e)) /\ Len(sent) \in Nat /\ Len(sent) <= Capacity
        /\ Arrived(e) + Len(sent) <= b + n
        /\ ~Absent(p) => Arrived(e) + Len(sent) = b + n
    <2>1. CASE Absent(p)
      <3>1. sent = <<>> /\ Piece(sent, Arrived(e)) /\ Len(sent) = 0
        BY <1>w, <2>1, <1>a, EmptyPiece
      <3>2. QED
        BY <1>0, <1>a, <1>2, <2>1, <3>1
    <2>2. CASE ~Absent(p)
      <3>1. Arrived(e) + Len(wire[e]) = b
        BY <1>0, <1>3, <2>2 DEF EndInv, Counted, Faulty
      <3>2. Piece(wire[e], Arrived(e)) /\ Arrived(e) \in Nat
        BY <1>0 DEF EndInv, RightBytes, Arrived
      <3>3. /\ Piece(wire[e] \o part, Arrived(e))
            /\ Len(wire[e] \o part) = Len(wire[e]) + n
        BY <1>4, <3>1, <3>2, PieceAppended
      <3>4. sent = wire[e] \o part
        BY <1>w, <2>2
      <3>5. Piece(sent, Arrived(e)) /\ Len(sent) = Len(wire[e]) + n
        BY <3>3, <3>4
      <3>6. n <= Capacity - Len(wire[e]) /\ Capacity \in Nat
        BY <1>2, <2>2
      <3>7. /\ Len(sent) \in Nat /\ Len(sent) <= Capacity
            /\ Arrived(e) + Len(sent) = b + n
        BY <1>0, <1>a, <1>2, <3>1, <3>5, <3>6
      <3>8. QED
        BY <1>0, <1>a, <1>2, <3>5, <3>7
    <2>3. QED
      BY <2>1, <2>2
  <1>7. sent \in Seq(Nat)
    BY <1>6 DEF Piece
  <1>8. AfterSending(e) \in {"polling", "done"}
    BY DEF AfterSending
  <1>9. Shapes'
    <2>1. b + n \in Nat
      BY <1>0, <1>2
    <2>2. bytesSent' \in [Ends -> Nat]
      BY <1>s, <1>5, <2>1 DEF Shapes
    <2>3. wire' \in [Ends -> Seq(Nat)]
      <3>1. <<>> \in Seq(Nat) /\ wire \in [Ends -> Seq(Nat)]
        BY <1>s DEF Shapes
      <3>2. [wire EXCEPT ![e] = sent] \in [Ends -> Seq(Nat)]
        BY <1>7, <3>1
      <3>3. [wire EXCEPT ![e] = sent, ![p] = <<>>] \in [Ends -> Seq(Nat)]
        BY <3>1, <3>2
      <3>4. QED
        BY <1>5, <3>2, <3>3
    <2>4. pc' \in [Ends -> Places]
      BY <1>s, <1>5, <1>8 DEF Shapes, Places
    <2>5. QED
      BY <1>s, <1>3, <2>2, <2>3, <2>4 DEF Shapes
  <1>10. /\ bytesSent'[e] = b + n /\ bytesSent'[p] = bytesSent[p]
         /\ pc'[e] = (IF b + n = size[e] THEN AfterSending(e) ELSE "sending")
         /\ pc'[p] = pc[p]
         /\ wire'[e] = sent
         /\ wire'[p] = wire[p] \/ wire'[p] = <<>>
         /\ ~Absent(p) => wire'[p] = wire[p]
    BY <1>s, <1>0, <1>5 DEF Shapes
  <1>11. Absent(p) => Faulty(p)
    <2>1. SUFFICES ASSUME pc[p] = "closed" PROVE FALSE
      BY DEF Absent, Faulty
    <2>2. Len(received[p]) = size[e]
      BY <1>0, <2>1 DEF EndInv, Phase, AllReceived
    <2>3. b # size[e]
      BY <1>0, <1>3 DEF EndInv, Phase, AllSent
    <2>4. Len(received[p]) + Len(wire[e]) <= b /\ b <= size[e]
      BY <1>0 DEF EndInv, Counted, Arrived
    <2>5. QED
      BY <1>0, <2>2, <2>3, <2>4
  <1>12. RightBytes(e)' /\ RightBytes(p)'
    BY <1>0, <1>3, <1>6, <1>10, EmptyPiece DEF EndInv, RightBytes, Arrived
  <1>13. Counted(e)'
    BY <1>0, <1>2, <1>3, <1>6, <1>10 DEF Counted, Arrived, Absent
  <1>14. Counted(p)'
    <2>1. /\ Len(received[e]) + Len(wire[p]) <= bytesSent[p]
          /\ bytesSent[p] <= size[p]
          /\ ~Faulty(p) => Len(received[e]) + Len(wire[p]) = bytesSent[p]
      BY <1>0, <1>3 DEF EndInv, Counted, Arrived, Absent
    <2>2. Len(wire'[p]) \in Nat /\ Len(wire'[p]) <= Len(wire[p])
      BY <1>0, <1>10, EmptyPiece
    <2>3. Len(received[e]) + Len(wire'[p]) <= bytesSent[p]
      <3>1. Len(received[e]) + Len(wire[p]) <= bytesSent[p]
        BY <2>1
      <3>2. QED
        BY <1>0, <2>2, <3>1, Sums
    <2>4. ASSUME ~Faulty(p)
          PROVE  Len(received[e]) + Len(wire'[p]) = bytesSent[p]
      <3>1. wire'[p] = wire[p]
        BY <1>10, <1>11, <2>4, Zenon
      <3>2. QED
        BY <2>1, <2>4, <3>1
    <2>5. QED
      BY <1>0, <1>3, <1>10, <2>1, <2>3, <2>4 DEF Counted, Arrived, Faulty
  <1>15. Phase(e)'
    BY <1>s, <1>0, <1>2, <1>3, <1>10
    DEF Shapes, EndInv, Phase, AllSent, AllReceived, AfterSending, Receives
  <1>16. Phase(p)'
    BY <1>0, <1>3, <1>10 DEF EndInv, Phase, AllSent, AllReceived
  <1>17. EofBlame(e)' /\ EofBlame(p)'
    BY <1>0, <1>3, <1>8, <1>10 DEF EndInv, EofBlame, Faulty
  <1>18. EndInv(e)' /\ EndInv(p)'
    BY <1>12, <1>13, <1>14, <1>15, <1>16, <1>17 DEF EndInv
  <1>19. QED
    BY <1>9, <1>18, Peers DEF Inv

\* An exception: the program of e goes on elsewhere and nothing else happens.
LEMMA ThrowsInv ==
    ASSUME Inv, NEW e \in Ends, NEW w \in {"failed", "eof"},
           ~Absent(e), w = "eof" => Faulty(Peer(e)),
           pc' = [pc EXCEPT ![e] = w],
           UNCHANGED <<programs, wire, bytesSent, received>>
    PROVE  Inv'
  <1> DEFINE p == Peer(e)
  <1>0. p \in Ends /\ p # e /\ Peer(p) = e /\ EndInv(e) /\ EndInv(p)
    BY Facts
  <1>1. Shapes
    BY DEF Inv
  <1>2. UNCHANGED <<size, first, wire, bytesSent, received>>
    BY DEF programs
  <1>3. pc'[e] = w /\ pc'[p] = pc[p]
    BY <1>0, <1>1 DEF Shapes
  <1>4. Shapes'
    BY <1>1, <1>2 DEF Shapes, Places
  <1>5. RightBytes(e)' /\ RightBytes(p)'
    BY <1>0, <1>2 DEF EndInv, RightBytes, Arrived
  <1>6. ~Faulty(e) /\ ~Absent(e)' /\ (Faulty(p)' <=> Faulty(p)) /\ (Absent(p)' <=> Absent(p))
    BY <1>3 DEF Faulty, Absent
  <1>7. Counted(e)' /\ Counted(p)'
    BY <1>0, <1>2, <1>6 DEF EndInv, Counted, Arrived
  <1>8. Phase(e)' /\ Phase(p)'
    BY <1>0, <1>2, <1>3 DEF EndInv, Phase, AllSent, AllReceived
  <1>9. EofBlame(e)' /\ EofBlame(p)'
    BY <1>0, <1>3, <1>6 DEF EndInv, EofBlame
  <1>10. EndInv(e)' /\ EndInv(p)'
    BY <1>5, <1>7, <1>8, <1>9 DEF EndInv
  <1>11. QED
    BY <1>4, <1>10, Peers DEF Inv

\* The end of the stream, met by a program that misses bytes: had the peer
\* closed in order, all it was to send would be on the wire or received.
LEMMA ReceiveEofInv == ASSUME Inv, NEW e \in Ends, ReceiveEof(e) PROVE Inv'
  <1> DEFINE p == Peer(e)
  <1>0. /\ p \in Ends /\ p # e /\ Peer(p) = e
        /\ EndInv(e) /\ EndInv(p)
        /\ size[p] \in Nat /\ Len(received[e]) \in Nat
    BY Facts
  <1>1. pc[e] = "polling" /\ wire[p] = <<>> /\ Absent(p)
    BY DEF ReceiveEof
  <1>2. ASSUME pc[p] = "closed" PROVE FALSE
    <2>1. bytesSent[p] = size[p]
      BY <1>0, <1>2 DEF EndInv, Phase, AllSent
    <2>2. Len(received[e]) + Len(wire[p]) = bytesSent[p]
      BY <1>0, <1>1, <1>2 DEF EndInv, Counted, Arrived, Faulty, Absent
    <2>3. Len(received[e]) < size[p]
      BY <1>0, <1>1 DEF EndInv, Phase
    <2>4. QED
      BY <1>0, <1>1, <2>1, <2>2, <2>3, EmptyPiece
  <1>3. Faulty(p)
    BY <1>1, <1>2 DEF Absent, Faulty
  <1>4. ~Absent(e)
    BY <1>1 DEF Absent
  <1>5. QED
    BY <1>3, <1>4, ThrowsInv DEF ReceiveEof

\* receiveBuff: the first bytes of the wire go to the end of the buffer.
LEMMA ReceiveSomeInv == ASSUME Inv, NEW e \in Ends, ReceiveSome(e) PROVE Inv'
  <1> DEFINE p == Peer(e)
             w == wire[p]
             r == received[e]
  <1>0. /\ p \in Ends /\ p # e /\ Peer(p) = e
        /\ EndInv(e) /\ EndInv(p)
        /\ size[e] \in Nat /\ size[p] \in Nat
        /\ bytesSent[e] \in Nat /\ bytesSent[p] \in Nat
        /\ Len(wire[e]) \in Nat /\ Len(w) \in Nat
        /\ Len(r) \in Nat /\ Len(received[p]) \in Nat
    BY Facts
  <1>s. Shapes
    BY DEF Inv
  <1>1. PICK n \in RecvResults(w, size[p] - Len(r)) :
          /\ wire' = [wire EXCEPT ![p] = After(n, @)]
          /\ received' = [received EXCEPT ![e] = @ \o SubSeq(w, 1, n)]
    BY DEF ReceiveSome
  <1>2. n \in Nat /\ n >= 1 /\ n <= Len(w) /\ Len(r) + n <= size[p]
    BY <1>0, <1>1 DEF RecvResults
  <1>3. /\ pc[e] = "polling" /\ UNCHANGED <<size, first, bytesSent>>
        /\ pc' = [pc EXCEPT ![e] =
             IF Len(received'[e]) = size[p] THEN AfterPolling(e) ELSE "polling"]
    BY DEF ReceiveSome, programs
  <1>4. Piece(r, 0) /\ Piece(w, Len(r))
    BY <1>0 DEF EndInv, RightBytes, Arrived
  <1> HIDE DEF r, w
  <1>5. /\ Piece(SubSeq(w, 1, n), Len(r)) /\ Len(SubSeq(w, 1, n)) = n
        /\ Piece(After(n, w), Len(r) + n) /\ Len(After(n, w)) = Len(w) - n
    BY <1>0, <1>2, <1>4, PieceCut
  <1> DEFINE t == SubSeq(w, 1, n)
  <1>6. Piece(r \o t, 0) /\ Len(r \o t) = Len(r) + n
    <2>1. Piece(t, Len(r)) /\ Len(t) = n
      BY <1>5
    <2> HIDE DEF t
    <2>2. Len(r) = 0 + Len(r) /\ 0 \in Nat
      BY <1>0
    <2>3. Piece(r \o t, 0) /\ Len(r \o t) = Len(r) + Len(t)
      BY <1>4, <2>1, <2>2, PieceAppended
    <2>4. QED
      BY <2>1, <2>3
  <1>7. /\ received'[e] = r \o SubSeq(w, 1, n) /\ received'[p] = received[p]
        /\ wire'[e] = wire[e] /\ wire'[p] = After(n, w)
    BY <1>s, <1>0, <1>1 DEF Shapes, r, w
  <1>8. /\ Piece(received'[e], 0) /\ Len(received'[e]) = Len(r) + n
        /\ Piece(wire'[p], Len(received'[e])) /\ Len(wire'[p]) = Len(w) - n
    BY <1>5, <1>6, <1>7
  <1>9. AfterPolling(e) = IF first[e] = "receive" /\ size[e] > 0 THEN "sending" ELSE "done"
    BY DEF AfterPolling, Sends
  <1>10. /\ pc'[e] = (IF Len(r) + n = size[p] THEN AfterPolling(e) ELSE "polling")
         /\ pc'[p] = pc[p]
    BY <1>s, <1>0, <1>3, <1>8 DEF Shapes
  <1>11. Shapes'
    <2>1. received' \in [Ends -> Seq(Nat)]
      BY <1>s, <1>1, <1>6 DEF Shapes, Piece, r
    <2>2. wire' \in [Ends -> Seq(Nat)]
      BY <1>s, <1>1, <1>5 DEF Shapes, Piece, w
    <2>3. pc' \in [Ends -> Places]
      BY <1>s, <1>3, <1>9 DEF Shapes, Places
    <2>4. QED
      BY <1>s, <1>3, <2>1, <2>2, <2>3 DEF Shapes
  <1>12. RightBytes(e)'
    BY <1>0, <1>7, <1>8 DEF EndInv, RightBytes, Arrived
  <1>13. RightBytes(p)'
    <2>1. Piece(received[p], 0) /\ Len(w) <= Capacity
      BY <1>0 DEF EndInv, RightBytes, w
    <2>2. QED
      BY <1>0, <1>2, <1>7, <1>8, <2>1 DEF RightBytes, Arrived
  <1>14. ~Faulty(e) /\ ~Faulty(e)' /\ ~Absent(e) /\ ~Absent(e)'
    BY <1>3, <1>9, <1>10 DEF Faulty, Absent
  <1>15. (Faulty(p)' <=> Faulty(p)) /\ (Absent(p)' <=> Absent(p))
    BY <1>10 DEF Faulty, Absent
  <1>16. Counted(e)'
    BY <1>0, <1>3, <1>7, <1>14, <1>15 DEF EndInv, Counted, Arrived
  <1>17. Counted(p)'
    <2>1. Len(received'[e]) + Len(wire'[p]) = Len(r) + Len(w)
      BY <1>0, <1>2, <1>8
    <2>2. QED
      BY <1>0, <1>3, <1>14, <1>15, <2>1 DEF EndInv, Counted, Arrived, r, w
  <1>18. Phase(e)'
    <2>1. /\ first[e] = "send" => bytesSent[e] = size[e]
          /\ first[e] = "receive" => bytesSent[e] = 0
          /\ first[e] \in {"send", "receive"}
      BY <1>s, <1>0, <1>3 DEF Shapes, EndInv, Phase, AllSent
    <2>2. CASE Len(r) + n = size[p]
      BY <1>0, <1>3, <1>8, <1>9, <1>10, <2>1, <2>2
      DEF Phase, AllSent, AllReceived
    <2>3. CASE Len(r) + n # size[p]
      BY <1>0, <1>2, <1>3, <1>8, <1>10, <2>1, <2>3
      DEF Phase, AllSent, AllReceived
    <2>4. QED
      BY <2>2, <2>3
  <1>19. Phase(p)'
    BY <1>0, <1>3, <1>7, <1>10 DEF EndInv, Phase, AllSent, AllReceived
  <1>20. EofBlame(e)' /\ EofBlame(p)'
    BY <1>0, <1>9, <1>10, <1>14, <1>15 DEF EndInv, EofBlame
  <1>21. EndInv(e)' /\ EndInv(p)'
    BY <1>12, <1>13, <1>16, <1>17, <1>18, <1>19, <1>20 DEF EndInv
  <1>22. QED
    BY <1>11, <1>21, Peers DEF Inv

\* A socket is closed.  A program that closes it in order has received all it
\* was sent, so that nothing is on its way to it and the connection is not
\* reset: what it sent itself stays on the wire.
LEMMA LeavesInv ==
    ASSUME Inv, NEW e \in Ends, NEW how \in {"closed", "gone", "dead", "killed"},
           ~Absent(e), how = "closed" => pc[e] = "done", Leaves(e, how)
    PROVE  Inv'
  <1> DEFINE p == Peer(e)
  <1>0. /\ p \in Ends /\ p # e /\ Peer(p) = e
        /\ EndInv(e) /\ EndInv(p)
        /\ size[e] \in Nat /\ size[p] \in Nat
        /\ bytesSent[e] \in Nat /\ bytesSent[p] \in Nat
        /\ Len(wire[e]) \in Nat /\ Len(wire[p]) \in Nat
        /\ Len(received[e]) \in Nat /\ Len(received[p]) \in Nat
    BY Facts
  <1>s. Shapes
    BY DEF Inv
  <1>1. /\ UNCHANGED <<size, first, bytesSent, received>>
        /\ pc' = [pc EXCEPT ![e] = how]
        /\ \/ wire' = [wire EXCEPT ![p] = <<>>]
           \/ wire[p] # <<>> /\ wire' = [x \in Ends |-> <<>>]
    BY DEF Leaves, programs
  <1>2. pc'[e] = how /\ pc'[p] = pc[p]
    BY <1>s, <1>0, <1>1 DEF Shapes
  <1>3. /\ wire'[p] = <<>>
        /\ wire'[e] = wire[e] \/ (wire[p] # <<>> /\ wire'[e] = <<>>)
    BY <1>s, <1>0, <1>1 DEF Shapes
  <1>4. Shapes'
    <2>1. pc' \in [Ends -> Places]
      BY <1>s, <1>1 DEF Shapes, Places
    <2>2. wire' \in [Ends -> Seq(Nat)]
      <3>1. <<>> \in Seq(Nat) /\ wire \in [Ends -> Seq(Nat)]
        BY <1>s DEF Shapes
      <3>2. [wire EXCEPT ![p] = <<>>] \in [Ends -> Seq(Nat)]
        BY <3>1
      <3>3. [x \in Ends |-> <<>>] \in [Ends -> Seq(Nat)]
        BY <3>1
      <3>4. QED
        BY <1>1, <3>2, <3>3
    <2>3. QED
      BY <1>s, <1>1, <2>1, <2>2 DEF Shapes
  <1>5. RightBytes(e)' /\ RightBytes(p)'
    <2>1. Len(received[p]) \in Nat /\ Len(received[e]) \in Nat /\ 0 <= Capacity
      BY <1>0
    <2>2. QED
      BY <1>0, <1>1, <1>3, <2>1, EmptyPiece DEF EndInv, RightBytes, Arrived
  <1>6. (Faulty(p)' <=> Faulty(p)) /\ (Absent(p)' <=> Absent(p)) /\ Absent(e)'
    BY <1>2 DEF Faulty, Absent
  <1>7. ASSUME pc'[e] = "closed" PROVE wire'[e] = wire[e] /\ ~Faulty(e)
    <2>1. pc[e] = "done"
      BY <1>2, <1>7
    <2>2. Len(received[e]) = size[p]
      BY <1>0, <2>1 DEF EndInv, Phase, AllReceived
    <2>3. Len(received[e]) + Len(wire[p]) <= bytesSent[p] /\ bytesSent[p] <= size[p]
      BY <1>0 DEF EndInv, Counted, Arrived
    <2>4. Len(wire[p]) = 0
      BY <1>0, <2>2, <2>3
    <2>5. wire[p] = <<>>
      BY <1>s, <1>0, <2>4, EmptySeq DEF Shapes
    <2>6. QED
      BY <1>3, <2>1, <2>5 DEF Faulty
  <1>8. Counted(e)'
    <2>1. /\ Len(received[p]) + Len(wire[e]) <= bytesSent[e]
          /\ bytesSent[e] <= size[e]
          /\ ~Faulty(e) /\ ~Absent(p) => Len(received[p]) + Len(wire[e]) = bytesSent[e]
      BY <1>0 DEF EndInv, Counted, Arrived
    <2>2. Len(received[p]) + Len(wire'[e]) <= bytesSent[e]
      <3>1. Len(wire'[e]) \in Nat /\ Len(wire'[e]) <= Len(wire[e])
        BY <1>0, <1>3, EmptyPiece
      <3>2. QED
        BY <1>0, <2>1, <3>1, Sums
    <2>3. ASSUME ~Faulty(e)', ~Absent(p)
          PROVE  Len(received[p]) + Len(wire'[e]) = bytesSent[e]
      <3>1. pc'[e] = "closed"
        BY <1>2, <2>3 DEF Faulty
      <3>2. QED
        BY <1>7, <2>1, <2>3, <3>1
    <2>4. QED
      BY <1>1, <1>6, <2>1, <2>2, <2>3 DEF Counted, Arrived
  <1>9. Counted(p)'
    <2>1. /\ Len(received[e]) + Len(wire[p]) <= bytesSent[p]
          /\ bytesSent[p] <= size[p]
      BY <1>0 DEF EndInv, Counted, Arrived
    <2>2. Len(received[e]) + Len(wire'[p]) <= bytesSent[p]
      <3>1. Len(wire'[p]) \in Nat /\ Len(wire'[p]) <= Len(wire[p])
        BY <1>0, <1>3, EmptyPiece
      <3>2. QED
        BY <1>0, <2>1, <3>1, Sums
    <2>3. QED
      BY <1>0, <1>1, <1>6, <2>1, <2>2 DEF Counted, Arrived
  <1>10. Phase(e)'
    BY <1>0, <1>1, <1>2 DEF EndInv, Phase, AllSent, AllReceived
  <1>11. Phase(p)'
    BY <1>0, <1>1, <1>2 DEF EndInv, Phase, AllSent, AllReceived
  <1>12. EofBlame(e)' /\ EofBlame(p)'
    BY <1>0, <1>2 DEF EndInv, EofBlame, Faulty, Absent
  <1>13. EndInv(e)' /\ EndInv(p)'
    BY <1>5, <1>8, <1>9, <1>10, <1>11, <1>12 DEF EndInv
  <1>14. QED
    BY <1>4, <1>13, Peers DEF Inv

LEMMA NextInv == Inv /\ [Next]_vars => Inv'
  <1> SUFFICES ASSUME Inv, [Next]_vars PROVE Inv'
    OBVIOUS
  <1>1. CASE UNCHANGED vars
    BY <1>1
    DEF Inv, Shapes, EndInv, RightBytes, Counted, Phase, EofBlame, AllSent,
        AllReceived, Arrived, Faulty, Absent, vars, programs
  <1>2. ASSUME NEW e \in Ends, SendSome(e) PROVE Inv'
    BY <1>2, SendSomeInv
  <1>3. ASSUME NEW e \in Ends, SendThrows(e) PROVE Inv'
    BY <1>3, ThrowsInv DEF SendThrows, Absent
  <1>4. ASSUME NEW e \in Ends, SendKilled(e) PROVE Inv'
    <2>1. ~Absent(e) /\ Leaves(e, "killed")
      BY <1>4 DEF SendKilled, Absent
    <2>2. QED
      BY <2>1, LeavesInv
  <1>5. ASSUME NEW e \in Ends, ReceiveSome(e) PROVE Inv'
    BY <1>5, ReceiveSomeInv
  <1>6. ASSUME NEW e \in Ends, ReceiveNothing(e) PROVE Inv'
    BY <1>1, <1>6 DEF ReceiveNothing
  <1>7. ASSUME NEW e \in Ends, ReceiveEof(e) PROVE Inv'
    BY <1>7, ReceiveEofInv
  <1>8. ASSUME NEW e \in Ends, Close(e) PROVE Inv'
    <2>1. /\ ~Absent(e)
          /\ (pc[e] = "done" /\ Leaves(e, "closed")) \/ Leaves(e, "gone")
      BY <1>8 DEF Close, Absent
    <2>2. QED
      BY <2>1, LeavesInv
  <1>9. ASSUME NEW e \in Ends, HangUp(e) PROVE Inv'
    <2>1. ~Absent(e) /\ Leaves(e, "gone")
      BY <1>9 DEF HangUp, Absent
    <2>2. QED
      BY <2>1, LeavesInv
  <1>10. ASSUME NEW e \in Ends, Crashes(e) PROVE Inv'
    <2>1. ~Absent(e) /\ Leaves(e, "dead")
      BY <1>10 DEF Crashes
    <2>2. QED
      BY <2>1, LeavesInv
  <1>11. QED
    BY <1>1, <1>2, <1>3, <1>4, <1>5, <1>6, <1>7, <1>8, <1>9, <1>10 DEF Next

LEMMA AlwaysInv == Spec => []Inv
  BY InitInv, NextInv, PTL DEF Spec

-----------------------------------------------------------------------------
(* What follows from it.                                                   *)

\* Every variable has its type: no count, and nothing received or on the wire,
\* exceeds the buffer, and the wire never holds more than the kernel takes.
THEOREM TypeCorrect == Spec => []TypeOK
  <1>1. ASSUME Inv PROVE TypeOK
    <2>1. ASSUME NEW e \in Ends
          PROVE  /\ wire[e] \in Seq(1..size[e]) /\ Len(wire[e]) <= Capacity
                 /\ bytesSent[e] \in 0..size[e]
                 /\ received[e] \in Seq(1..size[Peer(e)])
                 /\ Len(received[e]) <= size[Peer(e)]
      <3> DEFINE p == Peer(e)
      <3>0. /\ p \in Ends /\ Peer(p) = e /\ EndInv(e) /\ EndInv(p)
            /\ size[e] \in Nat /\ size[p] \in Nat
            /\ bytesSent[e] \in Nat /\ bytesSent[p] \in Nat
            /\ Len(wire[e]) \in Nat /\ Len(wire[p]) \in Nat
            /\ Len(received[e]) \in Nat /\ Len(received[p]) \in Nat
        BY <1>1, Facts
      <3>1. /\ Piece(received[e], 0) /\ Piece(wire[e], Len(received[p]))
            /\ Len(wire[e]) <= Capacity
        BY <3>0 DEF EndInv, RightBytes, Arrived
      <3>2. /\ Len(received[p]) + Len(wire[e]) <= bytesSent[e]
            /\ bytesSent[e] <= size[e]
            /\ Len(received[e]) + Len(wire[p]) <= bytesSent[p]
            /\ bytesSent[p] <= size[p]
        BY <3>0 DEF EndInv, Counted, Arrived
      <3>3. \A i \in 1..Len(wire[e]) : wire[e][i] \in 1..size[e]
        <4>1. ASSUME NEW i \in 1..Len(wire[e]) PROVE wire[e][i] \in 1..size[e]
          <5>1. wire[e][i] = Len(received[p]) + i
            BY <3>1 DEF Piece
          <5>2. i \in Nat /\ 1 <= i /\ i <= Len(wire[e])
            BY <3>0
          <5>3. Len(received[p]) + i <= bytesSent[e]
            BY <3>0, <3>2, <5>2, Sums
          <5>4. QED
            BY <3>0, <3>2, <5>1, <5>2, <5>3
        <4>2. QED
          BY <4>1
      <3>4. Len(received[e]) <= size[p]
        <4>1. Len(received[e]) <= bytesSent[p]
          BY <3>0, <3>2, Sums
        <4>2. QED
          BY <3>0, <3>2, <4>1
      <3>5. \A i \in 1..Len(received[e]) : received[e][i] \in 1..size[p]
        BY <3>0, <3>1, <3>4 DEF Piece
      <3>6. wire[e] \in Seq(1..size[e])
        BY <3>1, <3>3, PieceOver
      <3>7. received[e] \in Seq(1..size[p])
        BY <3>1, <3>5, PieceOver
      <3>8. QED
        BY <3>0, <3>1, <3>2, <3>4, <3>6, <3>7
    <2>2. QED
      BY <1>1, <2>1 DEF TypeOK, Inv, Shapes, Places
  <1>2. QED
    BY <1>1, AlwaysInv, PTL

\* What an end has received is the beginning of what was to be sent to it,
\* whatever the sizes, the capacity and the pieces.
THEOREM WhatArrivesIsAPrefix == Spec => []ReceivedIsPrefix
  <1>1. ASSUME Inv, NEW e \in Ends
        PROVE  received[e] = SubSeq(Buffer(Peer(e)), 1, Len(received[e]))
    <2> DEFINE p == Peer(e)
               l == Len(received[e])
               s == SubSeq(Buffer(p), 0 + 1, 0 + l)
    <2>1. /\ EndInv(e) /\ EndInv(p) /\ Peer(p) = e /\ size[p] \in Nat /\ l \in Nat
          /\ bytesSent[p] \in Nat /\ Len(wire[p]) \in Nat
      BY <1>1, Facts
    <2>2. l <= size[p]
      <3>1. l + Len(wire[p]) <= bytesSent[p] /\ bytesSent[p] <= size[p]
        BY <2>1 DEF EndInv, Counted, Arrived
      <3>2. l <= bytesSent[p]
        BY <2>1, <3>1, Sums
      <3>3. QED
        BY <2>1, <3>1, <3>2
    <2>3. Piece(s, 0) /\ Len(s) = l
      <3>1. 0 \in Nat /\ 0 + l <= size[p]
        BY <2>1, <2>2
      <3>2. QED
        BY <2>1, <3>1, BufferPiece
    <2>4. Piece(received[e], 0)
      BY <2>1 DEF EndInv, RightBytes
    <2>5. received[e] = s
      BY <2>3, <2>4, PieceUnique
    <2>6. s = SubSeq(Buffer(p), 1, l)
      BY <2>1
    <2>7. QED
      BY <2>5, <2>6
  <1>2. Inv => ReceivedIsPrefix
    BY <1>1 DEF ReceivedIsPrefix
  <1>3. QED
    BY <1>2, AlwaysInv, PTL

\* While both ends are there, sendBuff counts as sent exactly the bytes that
\* were received and those still on the wire.
THEOREM CountsAreExact == Spec => []CountIsExact
  <1>1. ASSUME Inv, \A e \in Ends : ~Absent(e), NEW e \in Ends
        PROVE  bytesSent[e] = Len(received[Peer(e)]) + Len(wire[e])
    BY <1>1, Facts DEF EndInv, Counted, Arrived, Faulty, Absent
  <1>2. Inv => CountIsExact
    BY <1>1 DEF CountIsExact
  <1>3. QED
    BY <1>2, AlwaysInv, PTL

\* A receiver that still misses bytes meets the end of the stream only if the
\* other end died or gave up.
THEOREM EofNeedsAFault == Spec => []EofOnlyByFault
  <1>1. Inv => EofOnlyByFault
    BY DEF Inv, EndInv, EofBlame, EofOnlyByFault
  <1>2. QED
    BY <1>1, AlwaysInv, PTL

\* Two programs wait for each other only if both send first, and each more
\* than the kernel holds, or both receive first.
THEOREM StuckOnlyIfBothAreAlike == Spec => []StuckOnlyTogether
  <1> DEFINE Stuck(e) == \/ pc[e] = "sending" /\ Full(wire[e])
                         \/ pc[e] = "polling" /\ wire[Peer(e)] = <<>>
  <1>1. ASSUME Inv, \A e \in Ends : Stuck(e), NEW e \in Ends,
               pc[e] = "sending", pc[Peer(e)] = "polling"
        PROVE  FALSE
    <2>1. Len(wire[e]) = Capacity
      BY <1>1 DEF Full
    <2>2. wire[e] = <<>>
      BY <1>1, Peers
    <2>3. QED
      BY <2>1, <2>2, EmptyPiece
  <1>2. ASSUME Inv, NEW e \in Ends, pc[e] = "sending", Full(wire[e]),
               pc[Peer(e)] = "sending"
        PROVE  first[e] = "send" /\ size[e] > Capacity
    <2> DEFINE p == Peer(e)
    <2>0. /\ p \in Ends /\ Peer(p) = e /\ EndInv(e) /\ EndInv(p)
          /\ size[e] \in Nat /\ size[p] \in Nat
          /\ bytesSent[e] \in Nat /\ bytesSent[p] \in Nat
          /\ Len(wire[e]) \in Nat /\ Len(wire[p]) \in Nat
          /\ Len(received[e]) \in Nat /\ Len(received[p]) \in Nat
      BY <1>2, Facts
    <2>1. /\ Len(received[p]) + Len(wire[e]) <= bytesSent[e]
          /\ bytesSent[e] <= size[e]
          /\ Len(received[e]) + Len(wire[p]) <= bytesSent[p]
          /\ bytesSent[p] <= size[p]
      BY <2>0 DEF EndInv, Counted, Arrived
    <2>2. bytesSent[e] # size[e] /\ bytesSent[p] # size[p]
      BY <1>2, <2>0 DEF EndInv, Phase, AllSent
    <2>3. Len(wire[e]) = Capacity
      BY <1>2 DEF Full
    <2>4. size[e] > Capacity
      BY <2>0, <2>1, <2>2, <2>3
    <2>5. Len(received[e]) # size[p]
      BY <2>0, <2>1, <2>2, Sums
    <2>6. first[e] # "receive"
      BY <1>2, <2>0, <2>5 DEF EndInv, Phase, AllReceived
    <2>7. first[e] \in {"send", "receive"}
      BY <1>2 DEF Inv, Shapes
    <2>8. QED
      BY <2>4, <2>6, <2>7
  <1>3. ASSUME Inv, NEW e \in Ends, pc[e] = "polling", wire[Peer(e)] = <<>>,
               pc[Peer(e)] = "polling"
        PROVE  first[Peer(e)] = "receive" /\ Sends(Peer(e))
    <2> DEFINE p == Peer(e)
    <2>0. /\ p \in Ends /\ Peer(p) = e /\ EndInv(e) /\ EndInv(p)
          /\ size[p] \in Nat /\ Len(received[e]) \in Nat
      BY <1>3, Facts
    <2>1. Len(received[e]) + Len(wire[p]) = bytesSent[p]
      BY <1>3, <2>0 DEF EndInv, Counted, Arrived, Faulty, Absent
    <2>2. Len(received[e]) < size[p]
      BY <1>3, <2>0 DEF EndInv, Phase
    <2>3. bytesSent[p] # size[p]
      BY <1>3, <2>0, <2>1, <2>2, EmptyPiece
    <2>4. first[p] # "send"
      BY <1>3, <2>0, <2>3 DEF EndInv, Phase, AllSent
    <2>5. first[p] \in {"send", "receive"}
      BY <1>3, <2>0 DEF Inv, Shapes
    <2>6. QED
      BY <2>0, <2>2, <2>4, <2>5 DEF Sends
  <1>4. ASSUME Inv, \A e \in Ends : Stuck(e) PROVE BothOverfill \/ BothWait
    <2>1. \A e \in Ends : pc[e] \in {"sending", "polling"}
      BY <1>4
    <2>2. CASE \A e \in Ends : pc[e] = "sending"
      <3>1. \A e \in Ends : first[e] = "send" /\ size[e] > Capacity
        BY <1>2, <1>4, <2>2, Peers
      <3>2. QED
        BY <3>1 DEF BothOverfill
    <2>3. CASE \A e \in Ends : pc[e] = "polling"
      <3>1. \A e \in Ends : first[Peer(e)] = "receive" /\ Sends(Peer(e))
        BY <1>3, <1>4, <2>3, Peers
      <3>2. \A e \in Ends : first[e] = "receive" /\ Sends(e)
        BY <3>1, Peers
      <3>3. QED
        BY <3>2 DEF BothWait
    <2>4. CASE \E e \in Ends : pc[e] = "sending" /\ pc[Peer(e)] = "polling"
      BY <1>1, <1>4, <2>4
    <2>5. QED
      BY <2>1, <2>2, <2>3, <2>4, Peers
  <1>5. Inv => StuckOnlyTogether
    BY <1>4 DEF StuckOnlyTogether
  <1>6. QED
    BY <1>5, AlwaysInv, PTL
=============================================================================
