---------------------------- MODULE LineIO_proofs ----------------------------
(***************************************************************************)
(* Proofs about LineIO for every set of lines, every delimiter that ends   *)
(* them unambiguously, every capacity of the kernel's buffer, every number *)
(* of calls and every set of faults: the types, that the two loops         *)
(* implement LineChannel, and what was read at the end of the stream.      *)
(*                                                                         *)
(* They hold of programs that give up after an exception: Retries = {}.    *)
(* An exception in the middle of a line forgets where the line was, so     *)
(* that a program that calls again spoils lines (see LineRetry).           *)
(***************************************************************************)
EXTENDS LineIO, SequenceTheorems, TLAPS

USE CapacityAssumption

NoRetries == Retries = {}

-----------------------------------------------------------------------------
(* The inductive invariant.                                                *)

\* What sendline writes for the line that was accepted as number i.
Written(i) == accepted[i] \o Eol

\* The bytes of all the lines in a row: byte j of line i is byte ends[i-1] + j
\* of the stream.
Stream(bytes, ends) ==
    /\ ends \in [Nat -> Nat]
    /\ ends[0] = 0
    /\ \A i \in 1..Len(accepted) :
        /\ ends[i] = ends[i - 1] + Len(Written(i))
        /\ \A j \in 1..Len(Written(i)) : bytes[ends[i - 1] + j] = Written(i)[j]
    /\ \A i, j \in 0..Len(accepted) : i <= j => ends[i] <= ends[j]

\* How many bytes of the stream were sent follows from what sendline has counted.
SentSoFar(ends, sent) ==
    /\ sent <= ends[Len(accepted)]
    /\ sender = "idle" => sent = ends[Len(accepted)]
    /\ accepted # <<>> => sent = ends[Len(accepted) - 1] + charsSent

\* And how many were received from what readline does: between two calls it is
\* at the end of a line, and in a call it has a part of the next one.
ReadSoFar(bytes, ends, read) ==
    /\ receiver = "idle" => read = ends[Len(delivered)]
    /\ receiver = "reading" =>
        /\ read = ends[Len(delivered)] + Len(lineBuff)
        /\ \A j \in 1..Len(lineBuff) : lineBuff[j] = bytes[ends[Len(delivered)] + j]
        /\ Len(delivered) < Len(accepted) =>
            Len(lineBuff) < Len(Written(Len(delivered) + 1))

\* The wire holds what is between the two.
Flow(bytes, ends, read) ==
    /\ Stream(bytes, ends)
    /\ read \in Nat
    /\ \A x \in 1..Len(wire) : wire[x] = bytes[read + x]
    /\ SentSoFar(ends, read + Len(wire))
    /\ ReadSoFar(bytes, ends, read)

Shapes ==
    /\ wire \in Seq(Bytes) /\ Len(wire) <= Capacity
    /\ sender \in {"idle", "sending", "failed", "closed", "dead", "killed"}
    /\ accepted \in Seq(Lines) /\ Len(accepted) <= MaxLines
    /\ message \in {<<>>} \cup {l \o Eol : l \in Lines}
    /\ charsSent \in 0..Len(message)
    /\ receiver \in {"idle", "reading", "failed", "eof", "closed"}
    /\ lineBuff \in Seq(Bytes)
    /\ delivered \in Seq(Lines)
    /\ Len(delivered) <= Len(accepted)

\* The message is always that of the last line, and in a call some of it is
\* left to send.
InCall ==
    /\ accepted = <<>> => message = <<>>
    /\ accepted # <<>> => message = Written(Len(accepted))
    /\ sender = "sending" => accepted # <<>> /\ charsSent < Len(message)

AtTheEnd == (receiver = "eof" => Finished) /\ EofAfterEverything

InOrder == ~HungUp => \E bytes, ends, read : Flow(bytes, ends, read)

Inv == NoRetries /\ Shapes /\ InCall /\ AtTheEnd /\ InOrder

-----------------------------------------------------------------------------
(* Lines and the delimiter.                                                *)

\* A part of a sequence, byte by byte.
LEMMA Part ==
    ASSUME NEW s \in Seq(Bytes), NEW i \in Nat, NEW k \in Nat, i + k <= Len(s)
    PROVE  /\ SubSeq(s, i + 1, i + k) \in Seq(Bytes)
           /\ Len(SubSeq(s, i + 1, i + k)) = k
           /\ \A j \in 1..k : SubSeq(s, i + 1, i + k)[j] = s[i + j]
  <1>1. Len(s) \in Nat
    OBVIOUS
  <1>2. \A x \in i + 1..i + k : s[x] \in Bytes
    BY <1>1, ElementOfSeq
  <1>3. /\ SubSeq(s, i + 1, i + k) \in Seq(Bytes)
        /\ Len(SubSeq(s, i + 1, i + k))
              = IF i + 1 <= i + k THEN i + k - (i + 1) + 1 ELSE 0
        /\ \A j \in 1..i + k - (i + 1) + 1 :
              SubSeq(s, i + 1, i + k)[j] = s[i + 1 + j - 1]
    BY <1>2, SubSeqProperties
  <1>4. i + k - (i + 1) + 1 = k /\ (i + 1 <= i + k <=> k # 0)
    OBVIOUS
  <1>5. \A j \in 1..k : i + 1 + j - 1 = i + j
    OBVIOUS
  <1>6. QED
    BY <1>3, <1>4, <1>5

\* A line and the delimiter are strings over the bytes that can be sent.
LEMMA LineStrings ==
    ASSUME NEW l \in Lines
    PROVE  /\ l \in Seq(Bytes) /\ Eol \in Seq(Bytes)
           /\ l \o Eol \in Seq(Bytes)
           /\ Len(l \o Eol) = Len(l) + Len(Eol)
           /\ \A j \in 1..Len(l) : (l \o Eol)[j] = l[j]
           /\ \A j \in 1..Len(Eol) : (l \o Eol)[Len(l) + j] = Eol[j]
  <1> DEFINE C == ToSet(l) \cup ToSet(Eol)
  <1>1. l \in Seq(ToSet(l)) /\ Eol \in Seq(ToSet(Eol))
    BY LinesAssumption
  <1>2. ToSet(l) \subseteq C /\ ToSet(Eol) \subseteq C
    OBVIOUS
  <1> HIDE DEF C
  <1>3. l \in Seq(C) /\ Eol \in Seq(C)
    BY <1>1, <1>2, SeqMonotonic
  <1>4. /\ l \o Eol \in Seq(C)
        /\ Len(l \o Eol) = Len(l) + Len(Eol)
        /\ \A j \in 1..Len(l) + Len(Eol) :
             (l \o Eol)[j] = IF j <= Len(l) THEN l[j] ELSE Eol[j - Len(l)]
    BY <1>3, ConcatProperties
  <1>5. Len(l) \in Nat /\ Len(Eol) \in Nat
    BY <1>1
  <1>6. \A j \in 1..Len(l) : (l \o Eol)[j] = l[j]
    BY <1>4, <1>5
  <1>7. ASSUME NEW j \in 1..Len(Eol)
        PROVE  (l \o Eol)[Len(l) + j] = Eol[j]
    <2>1. /\ Len(l) + j \in 1..Len(l) + Len(Eol) /\ ~(Len(l) + j <= Len(l))
          /\ Len(l) + j - Len(l) = j
      BY <1>5
    <2>2. QED
      BY <1>4, <2>1
  <1>8. ToSet(l \o Eol) \subseteq Bytes
    BY DEF Bytes
  <1>9. DOMAIN (l \o Eol) = 1..Len(l \o Eol)
    BY <1>4
  <1>10. \A j \in 1..Len(l \o Eol) : (l \o Eol)[j] \in Bytes
    BY <1>8, <1>9 DEF ToSet
  <1>11. \A j \in 1..Len(l) : l[j] \in Bytes
    <2>1. \A j \in 1..Len(l) : j \in 1..Len(l \o Eol)
      BY <1>4, <1>5
    <2>2. QED
      BY <1>6, <1>10, <2>1
  <1>12. \A j \in 1..Len(Eol) : Eol[j] \in Bytes
    <2>1. \A j \in 1..Len(Eol) : Len(l) + j \in 1..Len(l \o Eol)
      BY <1>4, <1>5
    <2>2. QED
      BY <1>7, <1>10, <2>1
  <1>13. /\ l \in [1..Len(l) -> ToSet(l)] /\ Eol \in [1..Len(Eol) -> ToSet(Eol)]
         /\ l \o Eol \in [1..Len(l \o Eol) -> C] /\ Len(l \o Eol) \in Nat
    BY <1>1, <1>4, LenProperties
  <1>14. /\ l \in [1..Len(l) -> Bytes] /\ Eol \in [1..Len(Eol) -> Bytes]
         /\ l \o Eol \in [1..Len(l \o Eol) -> Bytes]
    BY <1>10, <1>11, <1>12, <1>13
  <1>15. l \in Seq(Bytes) /\ Eol \in Seq(Bytes) /\ l \o Eol \in Seq(Bytes)
    BY <1>5, <1>13, <1>14, SeqDef
  <1>16. QED
    BY <1>4, <1>6, <1>7, <1>15

\* Where the delimiter occurs, byte by byte.
LEMMA OccursAt ==
    ASSUME NEW s \in Seq(Bytes), Eol \in Seq(Bytes)
    PROVE  Occurs(Eol, s) <=>
           \E i \in Nat : /\ i + Len(Eol) <= Len(s)
                          /\ \A j \in 1..Len(Eol) : s[i + j] = Eol[j]
  <1>1. Len(s) \in Nat /\ Len(Eol) \in Nat
    OBVIOUS
  <1>2. ASSUME NEW i \in Nat, i + Len(Eol) <= Len(s)
        PROVE  SubSeq(s, i + 1, i + Len(Eol)) = Eol <=>
               \A j \in 1..Len(Eol) : s[i + j] = Eol[j]
    <2> DEFINE t == SubSeq(s, i + 1, i + Len(Eol))
    <2>1. /\ t \in Seq(Bytes) /\ Len(t) = Len(Eol)
          /\ \A j \in 1..Len(Eol) : t[j] = s[i + j]
      BY <1>1, <1>2, Part
    <2> HIDE DEF t
    <2>2. ASSUME \A j \in 1..Len(Eol) : s[i + j] = Eol[j] PROVE t = Eol
      BY <2>1, <2>2, SeqEqual
    <2>3. QED
      BY <2>1, <2>2 DEF t
  <1>3. \A i \in 0..Len(s) - Len(Eol) : i \in Nat /\ i + Len(Eol) <= Len(s)
    BY <1>1
  <1>4. \A i \in Nat : i + Len(Eol) <= Len(s) => i \in 0..Len(s) - Len(Eol)
    BY <1>1
  <1>5. QED
    BY <1>2, <1>3, <1>4 DEF Occurs

\* The part of a line that readline has read: the delimiter is in it when all
\* of it was read, and not before; then what remains without it is the line.
LEMMA ReadPart ==
    ASSUME NEW l \in Lines, NEW q \in Seq(Bytes), Len(q) <= Len(l \o Eol),
           \A j \in 1..Len(q) : q[j] = (l \o Eol)[j]
    PROVE  /\ Len(q) < Len(l \o Eol) => ~Occurs(Eol, q)
           /\ Len(q) = Len(l \o Eol) => Occurs(Eol, q) /\ Stripped(q) = l
  <1> DEFINE m == l \o Eol
  <1>1. /\ l \in Seq(Bytes) /\ Eol \in Seq(Bytes) /\ m \in Seq(Bytes)
        /\ Len(m) = Len(l) + Len(Eol)
        /\ \A j \in 1..Len(l) : m[j] = l[j]
        /\ \A j \in 1..Len(Eol) : m[Len(l) + j] = Eol[j]
    BY LineStrings
  <1>2. Len(l) \in Nat /\ Len(Eol) \in Nat /\ Len(m) \in Nat /\ Len(q) \in Nat
    BY <1>1
  <1>3. \A j \in 1..Len(q) : q[j] = m[j]
    OBVIOUS
  <1>4. ~Occurs(Eol, Front(m)) /\ Len(q) <= Len(m)
    BY LinesAssumption
  <1> HIDE DEF m
  <1>5. ASSUME Len(q) < Len(m) PROVE ~Occurs(Eol, q)
    <2> SUFFICES ASSUME Occurs(Eol, q) PROVE FALSE
      OBVIOUS
    <2>1. PICK i \in Nat : /\ i + Len(Eol) <= Len(q)
                           /\ \A j \in 1..Len(Eol) : q[i + j] = Eol[j]
      BY <1>1, OccursAt
    <2> DEFINE k == Len(m) - 1
               h == SubSeq(m, 1, k)
    <2>2. k \in Nat /\ 0 + k <= Len(m) /\ k = 0 + k /\ Len(q) <= k
      BY <1>2, <1>5
    <2>3. h = Front(m)
      BY DEF Front
    <2> HIDE DEF k
    <2>4. /\ h \in Seq(Bytes) /\ Len(h) = k
          /\ \A j \in 1..k : h[j] = m[j]
      <3>1. /\ SubSeq(m, 0 + 1, 0 + k) \in Seq(Bytes)
            /\ Len(SubSeq(m, 0 + 1, 0 + k)) = k
            /\ \A j \in 1..k : SubSeq(m, 0 + 1, 0 + k)[j] = m[0 + j]
        BY <1>1, <2>2, Part
      <3>2. 0 + 1 = 1 /\ 0 + k = k /\ \A j \in 1..k : 0 + j = j
        BY <2>2
      <3>3. QED
        BY <3>1, <3>2
    <2> HIDE DEF h
    <2>5. i + Len(Eol) <= Len(h)
      BY <1>2, <2>1, <2>2, <2>4
    <2>6. ASSUME NEW j \in 1..Len(Eol) PROVE h[i + j] = Eol[j]
      <3>1. i + j \in 1..Len(q) /\ i + j \in 1..k
        BY <1>2, <2>1, <2>2
      <3>2. QED
        BY <1>3, <2>1, <2>4, <3>1
    <2>7. Occurs(Eol, h)
      BY <1>1, <2>4, <2>5, <2>6, OccursAt
    <2>8. QED
      BY <1>4, <2>3, <2>7
  <1>6. ASSUME Len(q) = Len(m) PROVE Occurs(Eol, q)
    <2>1. Len(l) + Len(Eol) <= Len(q)
      BY <1>1, <1>2, <1>6
    <2>2. ASSUME NEW j \in 1..Len(Eol) PROVE q[Len(l) + j] = Eol[j]
      <3>1. Len(l) + j \in 1..Len(q)
        BY <1>2, <2>1
      <3>2. QED
        BY <1>1, <1>3, <3>1
    <2>3. QED
      BY <1>1, <1>2, <2>1, <2>2, OccursAt
  <1>7. ASSUME Len(q) = Len(m) PROVE Stripped(q) = l
    <2> DEFINE k == Len(q) - Len(Eol)
               t == SubSeq(q, 1, k)
    <2>1. k = Len(l) /\ 0 + k <= Len(q)
      BY <1>1, <1>2, <1>7
    <2> HIDE DEF k
    <2>2. /\ t \in Seq(Bytes) /\ Len(t) = k
          /\ \A j \in 1..k : t[j] = q[j]
      <3>1. /\ SubSeq(q, 0 + 1, 0 + k) \in Seq(Bytes)
            /\ Len(SubSeq(q, 0 + 1, 0 + k)) = k
            /\ \A j \in 1..k : SubSeq(q, 0 + 1, 0 + k)[j] = q[0 + j]
        BY <1>2, <2>1, Part
      <3>2. 0 + 1 = 1 /\ 0 + k = k /\ \A j \in 1..k : 0 + j = j
        BY <1>2, <2>1
      <3>3. QED
        BY <3>1, <3>2
    <2> HIDE DEF t
    <2>3. \A j \in 1..k : t[j] = l[j]
      <3>1. \A j \in 1..k : j \in 1..Len(q)
        BY <1>2, <2>1
      <3>2. QED
        BY <1>1, <1>3, <2>1, <2>2, <3>1
    <2>4. t = l
      BY <1>1, <2>1, <2>2, <2>3, SeqEqual
    <2>5. QED
      BY <2>4 DEF t, k, Stripped
  <1>8. QED
    BY <1>5, <1>6, <1>7 DEF m

\* The delimiter is not empty, when there is a line to end.
LEMMA EolNotEmpty ==
    ASSUME NEW l \in Lines
    PROVE  Len(Eol) \in Nat \ {0} /\ Len(l \o Eol) \in Nat \ {0}
  <1>1. /\ l \in Seq(Bytes) /\ Eol \in Seq(Bytes) /\ l \o Eol \in Seq(Bytes)
        /\ Len(l \o Eol) = Len(l) + Len(Eol)
    BY LineStrings
  <1>2. Len(Eol) # 0
    <2> SUFFICES ASSUME Len(Eol) = 0 PROVE FALSE
      OBVIOUS
    <2>1. ~Occurs(Eol, Front(l \o Eol))
      BY LinesAssumption
    <2>2. Front(l \o Eol) \in Seq(Bytes)
      <3> DEFINE m == l \o Eol
      <3>1. Len(m) \in Nat /\ m \in Seq(Bytes)
        BY <1>1
      <3> HIDE DEF m
      <3>2. \A i \in 1..Len(m) - 1 : m[i] \in Bytes
        BY <3>1, ElementOfSeq
      <3>3. SubSeq(m, 1, Len(m) - 1) \in Seq(Bytes)
        BY <3>1, <3>2, SubSeqProperties
      <3>4. QED
        BY <3>3 DEF m, Front
    <2>3. Len(Front(l \o Eol)) \in Nat
      BY <2>2
    <2>4. QED
      BY <1>1, <2>1, <2>2, <2>3, OccursAt
  <1>3. QED
    BY <1>1, <1>2

-----------------------------------------------------------------------------
(* Every step keeps the invariant.                                         *)

LEMMA InitInv == NoRetries /\ Init => Inv
  <1> SUFFICES ASSUME NoRetries, Init PROVE Inv
    OBVIOUS
  <1>0. MaxLines \in Nat
    BY LinesAssumption
  <1>1. Len(<<>>) = 0 /\ \A S : <<>> \in Seq(S)
    BY EmptySeq
  <1>2. Shapes
    BY <1>0, <1>1 DEF Init, Shapes
  <1>3. InCall /\ AtTheEnd
    BY DEF Init, InCall, AtTheEnd, EofAfterEverything
  <1>4. PICK zero : zero = [x \in Nat |-> 0]
    OBVIOUS
  <1>5. Stream(zero, zero)
    BY <1>1, <1>4 DEF Init, Stream
  <1>6. Flow(zero, zero, 0)
    <2>1. SentSoFar(zero, 0)
      BY <1>1, <1>4 DEF Init, SentSoFar
    <2>2. ReadSoFar(zero, zero, 0)
      BY <1>1, <1>4 DEF Init, ReadSoFar
    <2>3. 0 + Len(wire) = 0 /\ \A x \in 1..Len(wire) : wire[x] = zero[0 + x]
      BY <1>1 DEF Init
    <2>4. QED
      BY <1>5, <2>1, <2>2, <2>3 DEF Flow
  <1>7. QED
    BY <1>2, <1>3, <1>6 DEF Inv, InOrder

\* Places in a stream are counted.
LEMMA Beyond ==
    ASSUME NEW z \in Nat, NEW j \in Nat, j # 0
    PROVE  z + j \in Nat /\ ~(z + j <= z) /\ z + j - z = j
  OBVIOUS

LEMMA BeforeEnd ==
    ASSUME NEW a \in Nat, NEW j \in Nat, NEW k \in Nat, NEW y \in Nat, NEW z \in Nat,
           j <= k, y = a + k, y <= z
    PROVE  a + j \in Nat /\ a + j <= z
  OBVIOUS

LEMMA Before ==
    ASSUME NEW a \in Nat, NEW j \in Nat, NEW k \in Nat, NEW r \in Nat, NEW w \in Nat,
           NEW z \in Nat, j <= k, r = a + k, r + w = z
    PROVE  a + j \in Nat /\ a + j <= z
  OBVIOUS

LEMMA Onward ==
    ASSUME NEW r \in Nat, NEW w \in Nat, NEW a \in Nat, NEW c \in Nat, r + w = a + c
    PROVE  /\ \A k \in Nat : r + (w + k) = a + (c + k)
           /\ \A x, j \in Nat : j = x - w => a + (c + j) = r + x
  OBVIOUS

\* The places of a stream that has at least one line more than were delivered.
LEMMA StreamPlaces ==
    ASSUME Shapes, NEW bytes, NEW ends, Stream(bytes, ends)
    PROVE  /\ Len(accepted) \in Nat /\ Len(delivered) \in Nat
           /\ \A i \in 0..Len(accepted) : ends[i] \in Nat
           /\ \A i \in 1..Len(accepted) :
                accepted[i] \in Lines /\ Len(Written(i)) \in Nat \ {0}
  <1>1. Len(accepted) \in Nat /\ Len(delivered) \in Nat
    BY DEF Shapes
  <1>2. \A i \in 0..Len(accepted) : ends[i] \in Nat
    BY DEF Stream
  <1>3. ASSUME NEW i \in 1..Len(accepted)
        PROVE  accepted[i] \in Lines /\ Len(Written(i)) \in Nat \ {0}
    <2>1. accepted[i] \in Lines
      BY ElementOfSeq DEF Shapes
    <2>2. QED
      BY <2>1, EolNotEmpty DEF Written
  <1>4. QED
    BY <1>1, <1>2, <1>3

LEMMA BeginSendlineInv ==
    ASSUME Inv, NEW line \in Lines, BeginSendline(line)
    PROVE  Inv'
  <1> DEFINE n == Len(accepted)
  <1>1. /\ accepted' = Append(accepted, line) /\ message' = line \o Eol
        /\ charsSent' = 0 /\ sender = "idle" /\ sender' = "sending"
        /\ n < MaxLines
        /\ UNCHANGED <<wire, lineBuff, delivered, receiver>>
    BY DEF BeginSendline, readVars
  <1>2. MaxLines \in Nat /\ accepted \in Seq(Lines) /\ n \in Nat /\ n <= MaxLines
    BY LinesAssumption DEF Inv, Shapes
  <1>3. /\ accepted' \in Seq(Lines) /\ Len(accepted') = n + 1
        /\ \A i \in 1..n : accepted'[i] = accepted[i]
        /\ accepted'[n + 1] = line
    BY <1>1, <1>2, AppendProperties
  <1>4. Len(line \o Eol) \in Nat \ {0}
    BY EolNotEmpty
  <1>5. Shapes'
    <2>1. charsSent' \in 0..Len(message')
      BY <1>1, <1>4
    <2>2. Len(accepted') <= MaxLines /\ Len(delivered') <= Len(accepted')
      BY <1>1, <1>2, <1>3 DEF Inv, Shapes
    <2>3. QED
      BY <1>1, <1>3, <2>1, <2>2 DEF Inv, Shapes
  <1>6. InCall'
    <2>1. accepted' # <<>>
      BY <1>2, <1>3, EmptySeq
    <2>2. message' = accepted'[Len(accepted')] \o Eol
      BY <1>1, <1>3
    <2>3. charsSent' < Len(message')
      BY <1>1, <1>4
    <2>4. QED
      BY <2>1, <2>2, <2>3 DEF InCall, Written
  <1>7. AtTheEnd'
    BY <1>1 DEF Inv, AtTheEnd, EofAfterEverything, Finished
  <1>8. InOrder'
    <2> SUFFICES ASSUME ~HungUp' PROVE \E bytes, ends, read : Flow(bytes, ends, read)'
      BY DEF InOrder
    <2>1. PICK bytes, ends, read : Flow(bytes, ends, read)
      BY <1>1 DEF Inv, InOrder, HungUp
    <2>2. /\ \A i \in 0..n : ends[i] \in Nat
          /\ ends \in [Nat -> Nat] /\ ends[0] = 0
          /\ \A i \in 0..n : ends[i] <= ends[n]
          /\ \A i, j \in 0..n : i <= j => ends[i] <= ends[j]
          /\ \A i \in 1..n :
               /\ ends[i] = ends[i - 1] + Len(accepted[i] \o Eol)
               /\ Len(accepted[i] \o Eol) \in Nat
               /\ \A j \in 1..Len(accepted[i] \o Eol) :
                    bytes[ends[i - 1] + j] = (accepted[i] \o Eol)[j]
      <3>1. Stream(bytes, ends)
        BY <2>1 DEF Flow
      <3>2. /\ \A i \in 0..n : ends[i] \in Nat
            /\ \A i \in 1..n : Len(accepted[i] \o Eol) \in Nat
        BY <3>1, StreamPlaces DEF Inv, Written
      <3>3. \A i \in 0..n : ends[i] <= ends[n]
        BY <1>2, <3>1 DEF Stream
      <3>4. QED
        BY <3>1, <3>2, <3>3 DEF Stream, Written
    <2> DEFINE z == ends[n]
               m == Len(line \o Eol)
    <2>0. z \in Nat /\ m \in Nat \ {0} /\ z + m \in Nat /\ z <= z + m /\ n + 1 \in Nat
      <3>1. n \in 0..n /\ n + 1 \in Nat
        BY <1>2
      <3>2. z \in Nat /\ m \in Nat \ {0}
        BY <1>4, <2>2, <3>1
      <3> HIDE DEF z, m
      <3>3. QED
        BY <3>1, <3>2
    <2>3. PICK e : e = [ends EXCEPT ![n + 1] = ends[n] + Len(line \o Eol)]
      OBVIOUS
    <2>4. PICK b : b = [x \in Nat |-> IF x <= ends[n] THEN bytes[x]
                                      ELSE (line \o Eol)[x - ends[n]]]
      OBVIOUS
    <2>5. /\ e \in [Nat -> Nat]
          /\ \A i \in 0..n : e[i] = ends[i]
          /\ e[n + 1] = ends[n] + Len(line \o Eol)
      <3>2. \A i \in 0..n : i \in Nat /\ i # n + 1
        BY <1>2
      <3>3. QED
        BY <2>0, <2>2, <2>3, <3>2
    <2>6. \A x \in Nat : /\ x <= ends[n] => b[x] = bytes[x]
                         /\ ~(x <= ends[n]) => b[x] = (line \o Eol)[x - ends[n]]
      BY <2>4
    <2>7. \A j \in 1..Len(line \o Eol) : b[ends[n] + j] = (line \o Eol)[j]
      <3> SUFFICES ASSUME NEW j \in 1..m PROVE b[z + j] = (line \o Eol)[j]
        OBVIOUS
      <3>1. z \in Nat /\ j \in Nat /\ j # 0
        BY <2>0
      <3>2. \A x \in Nat : ~(x <= z) => b[x] = (line \o Eol)[x - z]
        BY <2>6
      <3> HIDE DEF z
      <3>3. PICK x : x = z + j
        OBVIOUS
      <3>4. x \in Nat /\ ~(x <= z) /\ x - z = j
        BY <3>1, <3>3, Beyond
      <3>5. b[x] = (line \o Eol)[j]
        BY <3>2, <3>4
      <3>6. QED
        BY <3>3, <3>5
    <2>8. ASSUME NEW i \in 1..n, NEW j \in 1..Len(accepted[i] \o Eol)
          PROVE  b[ends[i - 1] + j] = (accepted[i] \o Eol)[j]
      <3>1. i \in 0..n /\ i - 1 \in 0..n
        BY <1>2
      <3>4. /\ ends[i - 1] \in Nat /\ j \in Nat /\ ends[i] \in Nat
            /\ Len(accepted[i] \o Eol) \in Nat /\ j <= Len(accepted[i] \o Eol)
            /\ ends[i] = ends[i - 1] + Len(accepted[i] \o Eol) /\ ends[i] <= z
        BY <2>2, <3>1
      <3>2. ends[i - 1] + j \in Nat /\ ends[i - 1] + j <= ends[n]
        BY <2>0, <3>4, BeforeEnd
      <3>3. QED
        BY <2>2, <2>6, <3>2
    <2>9. Stream(b, e)'
      <3>1. e[0] = 0
        BY <1>2, <2>2, <2>5
      <3>2. ASSUME NEW i \in 1..Len(accepted')
            PROVE  /\ e[i] = e[i - 1] + Len(Written(i)')
                   /\ \A j \in 1..Len(Written(i)') : b[e[i - 1] + j] = Written(i)'[j]
        <4>1. CASE i \in 1..n
          <5>1. Written(i)' = accepted[i] \o Eol
            BY <1>3, <4>1 DEF Written
          <5>2. i \in 0..n /\ i - 1 \in 0..n
            BY <1>2, <4>1
          <5>3. e[i] = ends[i] /\ e[i - 1] = ends[i - 1]
            BY <2>5, <5>2
          <5>4. QED
            BY <2>2, <2>8, <4>1, <5>1, <5>3
        <4>2. CASE i = n + 1
          <5>1. Written(i)' = line \o Eol
            BY <1>3, <4>2 DEF Written
          <5>2. i - 1 = n /\ n \in 0..n
            BY <1>2, <4>2
          <5>3. QED
            BY <2>5, <2>7, <4>2, <5>1, <5>2
        <4>3. QED
          BY <1>2, <1>3, <4>1, <4>2
      <3>3. ASSUME NEW i \in 0..Len(accepted'), NEW j \in 0..Len(accepted'), i <= j
            PROVE  e[i] <= e[j]
        <4>1. CASE j \in 0..n
          <5>1. i \in 0..n
            BY <1>2, <3>3, <4>1
          <5>2. QED
            BY <2>2, <2>5, <3>3, <4>1, <5>1
        <4>2. CASE i \in 0..n /\ j = n + 1
          <5>1. e[i] = ends[i] /\ ends[i] \in Nat /\ ends[i] <= z /\ e[j] = z + m
            BY <2>2, <2>5, <4>2
          <5> HIDE DEF z, m
          <5>2. QED
            BY <2>0, <5>1
        <4>3. CASE i = n + 1 /\ j = n + 1
          <5>1. e[i] = z + m /\ e[j] = z + m
            BY <2>5, <4>3
          <5> HIDE DEF z, m
          <5>2. QED
            BY <2>0, <5>1
        <4>4. QED
          BY <1>2, <1>3, <3>3, <4>1, <4>2, <4>3
      <3>4. QED
        BY <2>5, <3>1, <3>2, <3>3 DEF Stream
    <2>10. read \in Nat /\ Len(wire) \in Nat /\ read + Len(wire) = ends[n]
      BY <1>1, <2>1 DEF Flow, SentSoFar, Inv, Shapes
    <2>11. \A x \in 1..Len(wire) : wire[x] = b[read + x]
      <3>1. \A x \in 1..Len(wire) : wire[x] = bytes[read + x]
        BY <2>1 DEF Flow
      <3>2. \A x \in 1..Len(wire) : read + x \in Nat /\ read + x <= ends[n]
        BY <2>10
      <3>3. QED
        BY <2>6, <3>1, <3>2
    <2>12. SentSoFar(e, read + Len(wire))'
      <3>1. Len(accepted') - 1 = n /\ n \in 0..n
        BY <1>2, <1>3
      <3>2. e[n] = z /\ e[n + 1] = z + m
        BY <2>5, <3>1
      <3>3. read + Len(wire) = e[n] /\ e[n] <= e[n + 1] /\ e[n] + 0 = e[n]
        BY <2>0, <2>10, <3>2
      <3>4. QED
        BY <1>1, <1>3, <3>1, <3>3 DEF SentSoFar
    <2>13. ReadSoFar(b, e, read)'
      <3> DEFINE d == Len(delivered)
      <3>1. d \in 0..n /\ d \in Nat
        BY <1>2 DEF Inv, Shapes
      <3>2. e[d] = ends[d]
        BY <2>5, <3>1
      <3>3. ReadSoFar(bytes, ends, read)
        BY <2>1 DEF Flow
      <3>4. CASE receiver = "idle"
        BY <1>1, <3>2, <3>3, <3>4 DEF ReadSoFar
      <3>5. CASE receiver = "reading"
        <4>1. /\ Len(lineBuff) \in Nat
              /\ read = ends[d] + Len(lineBuff)
              /\ \A j \in 1..Len(lineBuff) : lineBuff[j] = bytes[ends[d] + j]
              /\ d < n => Len(lineBuff) < Len(Written(d + 1))
          BY <3>3, <3>5 DEF ReadSoFar, Inv, Shapes
        <4>2. \A j \in 1..Len(lineBuff) : b[ends[d] + j] = bytes[ends[d] + j]
          <5>1. ASSUME NEW j \in 1..Len(lineBuff)
                PROVE  ends[d] + j \in Nat /\ ends[d] + j <= ends[n]
            <6>1. ends[d] \in Nat /\ j \in Nat /\ j <= Len(lineBuff)
              BY <2>2, <3>1, <4>1
            <6>2. read = ends[d] + Len(lineBuff) /\ read + Len(wire) = z
              BY <2>10, <4>1
            <6> HIDE DEF d, z
            <6>3. z \in Nat /\ Len(lineBuff) \in Nat /\ Len(wire) \in Nat /\ read \in Nat
              BY <2>0, <2>10, <4>1
            <6>5. ends[d] + j \in Nat /\ ends[d] + j <= z
              BY <6>1, <6>2, <6>3, Before
            <6>4. QED
              BY <6>5 DEF d, z
          <5>2. QED
            BY <2>6, <5>1
        <4>3. Len(lineBuff) < Len(accepted'[d + 1] \o Eol)
          <5>1. CASE d < n
            <6>1. d + 1 \in 1..n
              BY <1>2, <3>1, <5>1
            <6>2. QED
              BY <1>3, <4>1, <5>1, <6>1 DEF Written
          <5>2. CASE d = n
            <6>1. Len(lineBuff) = 0
              BY <1>2, <2>2, <2>10, <3>1, <4>1, <5>2
            <6>2. QED
              BY <1>3, <1>4, <5>2, <6>1
          <5>3. QED
            BY <1>2, <3>1, <5>1, <5>2
        <4>4. QED
          BY <1>1, <3>2, <3>5, <4>1, <4>2, <4>3 DEF ReadSoFar, Written
      <3>6. CASE receiver \notin {"idle", "reading"}
        BY <1>1, <3>6 DEF ReadSoFar
      <3>7. QED
        BY <3>4, <3>5, <3>6
    <2>14. Flow(b, e, read)'
      BY <1>1, <2>9, <2>10, <2>11, <2>12, <2>13 DEF Flow
    <2>15. QED
      BY <2>14
  <1>9. QED
    BY <1>5, <1>6, <1>7, <1>8 DEF Inv, NoRetries

LEMMA SendSomeInv ==
    ASSUME Inv, SendSome
    PROVE  Inv'
  <1> DEFINE n == Len(accepted)
             w == Len(wire)
  <1>1. PICK k \in SendResults(wire, HungUp, Len(message) - charsSent) :
          /\ wire' = Sent(wire, HungUp, SubSeq(message, charsSent + 1, charsSent + k))
          /\ charsSent' = charsSent + k
          /\ sender' = IF charsSent' = Len(message) THEN "idle" ELSE "sending"
    BY DEF SendSome
  <1>2. sender = "sending" /\ UNCHANGED <<accepted, message, lineBuff, delivered, receiver>>
    BY DEF SendSome, readVars
  <1>3. /\ accepted \in Seq(Lines) /\ n \in Nat \ {0}
        /\ message = Written(n) /\ charsSent \in Nat /\ charsSent < Len(message)
        /\ wire \in Seq(Bytes) /\ w \in Nat /\ w <= Capacity /\ Capacity \in Nat
    <2>1. /\ accepted \in Seq(Lines) /\ accepted # <<>>
          /\ message = Written(n) /\ charsSent < Len(message)
          /\ wire \in Seq(Bytes) /\ w <= Capacity /\ charsSent \in 0..Len(message)
      BY <1>2 DEF Inv, Shapes, InCall
    <2>2. n # 0
      BY <2>1, EmptySeq
    <2>3. QED
      BY <2>1, <2>2
  <1>4. message \in Seq(Bytes) /\ Len(message) \in Nat
    <2>1. n \in 1..n
      BY <1>3
    <2>2. accepted[n] \in Lines
      BY <1>3, <2>1, ElementOfSeq
    <2>3. QED
      BY <1>3, <2>2, LineStrings DEF Written
  <1>5. /\ k \in Nat /\ charsSent + k \in Nat /\ charsSent + k <= Len(message)
        /\ ~HungUp => w + k <= Capacity
    BY <1>3, <1>4 DEF SendResults
  <1>6. PICK part : part = SubSeq(message, charsSent + 1, charsSent + k)
    OBVIOUS
  <1>7. /\ part \in Seq(Bytes) /\ Len(part) = k
        /\ \A j \in 1..k : part[j] = message[charsSent + j]
    <2>1. charsSent \in Nat
      BY <1>3
    <2>2. QED
      BY <1>4, <1>5, <1>6, <2>1, Part
  <1>8. /\ ~HungUp => wire' = wire \o part
        /\ HungUp => wire' = <<>>
    BY <1>1, <1>6 DEF Sent
  <1>9. /\ wire \o part \in Seq(Bytes) /\ Len(wire \o part) = w + k
        /\ \A x \in 1..w + k :
             (wire \o part)[x] = IF x <= w THEN wire[x] ELSE part[x - w]
    BY <1>3, <1>7, ConcatProperties
  <1>10. sender' \in {"idle", "sending"}
    BY <1>1
  <1>11. Shapes'
    <2>1. wire' \in Seq(Bytes) /\ Len(wire') <= Capacity
      <3>1. CASE HungUp
        <4>1. <<>> \in Seq(Bytes) /\ Len(<<>>) = 0
          BY EmptySeq
        <4>2. QED
          BY <1>3, <1>8, <3>1, <4>1
      <3>2. CASE ~HungUp
        BY <1>5, <1>8, <1>9, <3>2
      <3>3. QED
        BY <3>1, <3>2
    <2>2. charsSent' \in 0..Len(message')
      BY <1>1, <1>2, <1>4, <1>5
    <2>3. QED
      BY <1>2, <1>10, <2>1, <2>2 DEF Inv, Shapes
  <1>12. InCall'
    <2>1. accepted # <<>> /\ message = Written(n)
      BY <1>2 DEF Inv, InCall
    <2>2. sender' = "sending" => charsSent' < Len(message')
      BY <1>1, <1>2, <1>4, <1>5
    <2>3. QED
      BY <1>2, <2>1, <2>2 DEF InCall, Written
  <1>13. AtTheEnd'
    BY <1>2, <1>10 DEF Inv, AtTheEnd, EofAfterEverything, Finished
  <1>14. InOrder'
    <2> SUFFICES ASSUME ~HungUp' PROVE \E bytes, ends, read : Flow(bytes, ends, read)'
      BY DEF InOrder
    <2>1. ~HungUp
      BY <1>2 DEF HungUp
    <2>2. PICK bytes, ends, read : Flow(bytes, ends, read)
      BY <2>1 DEF Inv, InOrder
    <2>3. wire' = wire \o part
      BY <1>8, <2>1
    <2>4. /\ ends[n - 1] \in Nat /\ ends[n] \in Nat /\ read \in Nat
          /\ ends[n] = ends[n - 1] + Len(message)
          /\ \A j \in 1..Len(message) : bytes[ends[n - 1] + j] = message[j]
          /\ read + w = ends[n - 1] + charsSent
      <3>1. Stream(bytes, ends) /\ SentSoFar(ends, read + w) /\ read \in Nat
        BY <2>2 DEF Flow
      <3>2. n \in 1..n /\ n - 1 \in Nat /\ n \in Nat
        BY <1>3
      <3>3. QED
        BY <1>2, <1>3, <3>1, <3>2 DEF Stream, SentSoFar
    <2>5. /\ \A i \in Nat : read + (w + i) = ends[n - 1] + (charsSent + i)
          /\ \A x, j \in Nat : j = x - w => ends[n - 1] + (charsSent + j) = read + x
      <3>1. PICK a : a = ends[n - 1]
        OBVIOUS
      <3>2. a \in Nat /\ read \in Nat /\ w \in Nat /\ charsSent \in Nat
        BY <1>3, <2>4, <3>1
      <3>3. read + w = a + charsSent
        BY <2>4, <3>1
      <3> HIDE DEF n, w
      <3>4. /\ \A i \in Nat : read + (w + i) = a + (charsSent + i)
            /\ \A x, j \in Nat : j = x - w => a + (charsSent + j) = read + x
        BY <3>2, <3>3, Onward
      <3>5. QED
        BY <3>1, <3>4
    <2>6. Stream(bytes, ends)'
      BY <1>2, <2>2 DEF Flow, Stream, Written
    <2>7. ReadSoFar(bytes, ends, read)'
      BY <1>2, <2>2 DEF Flow, ReadSoFar, Written
    <2>8. SentSoFar(ends, read + Len(wire))'
      <3>1. Len(wire') = w + k
        BY <1>9, <2>3
      <3>2. read + (w + k) = ends[n - 1] + (charsSent + k)
        BY <1>5, <2>5
      <3>3. ends[n - 1] + (charsSent + k) <= ends[n]
        BY <1>3, <1>4, <1>5, <2>4
      <3>4. charsSent + k = Len(message) => ends[n - 1] + (charsSent + k) = ends[n]
        BY <2>4
      <3>5. QED
        BY <1>1, <1>2, <1>10, <3>1, <3>2, <3>3, <3>4 DEF SentSoFar
    <2>9. ASSUME NEW x \in 1..Len(wire') PROVE wire'[x] = bytes[read + x]
      <3>1. x \in Nat /\ x \in 1..w + k
        BY <1>3, <1>5, <1>9, <2>3
      <3>2. CASE x <= w
        <4>1. wire'[x] = wire[x] /\ x \in 1..w
          BY <1>3, <1>9, <2>3, <3>1, <3>2
        <4>2. QED
          BY <2>2, <4>1 DEF Flow
      <3>3. CASE ~(x <= w)
        <4>1. PICK j : j = x - w
          OBVIOUS
        <4>2. j \in 1..k
          BY <1>3, <1>5, <3>1, <3>3, <4>1
        <4>3. wire'[x] = part[j]
          BY <1>9, <2>3, <3>1, <3>3, <4>1
        <4>4. PICK c : c = charsSent + j
          OBVIOUS
        <4>5. c \in 1..Len(message)
          BY <1>3, <1>4, <1>5, <4>2, <4>4
        <4>6. part[j] = message[c]
          BY <1>7, <4>2, <4>4
        <4>7. message[c] = bytes[ends[n - 1] + c]
          BY <2>4, <4>5
        <4>8. ends[n - 1] + c = read + x
          <5>1. j \in Nat
            BY <4>2
          <5>2. QED
            BY <2>5, <3>1, <4>1, <4>4, <5>1
        <4>9. QED
          BY <4>3, <4>6, <4>7, <4>8
      <3>4. QED
        BY <3>2, <3>3
    <2>10. QED
      BY <2>4, <2>6, <2>7, <2>8, <2>9 DEF Flow
  <1>15. QED
    BY <1>11, <1>12, <1>13, <1>14 DEF Inv, NoRetries

\* What the sending program does between and after its sends moves no byte, and
\* it does not go back to the top of the program.
LEMMA SenderInv ==
    ASSUME Inv, SendThrows \/ SendKilled \/ CloseSender \/ SenderCrashes
    PROVE  Inv'
  <1>1. UNCHANGED <<wire, accepted, message, charsSent, lineBuff, delivered, receiver>>
    BY DEF SendThrows, SendKilled, CloseSender, SenderCrashes, readVars
  <1>2. /\ sender' \in {"idle", "failed", "closed", "dead", "killed"}
        /\ ~Finished
    BY DEF SendThrows, SendKilled, CloseSender, SenderCrashes, AfterException, Finished
  <1>3. sender' # "idle"
    BY DEF SendThrows, SendKilled, CloseSender, SenderCrashes, AfterException,
           Inv, NoRetries
  <1>6. Shapes'
    BY <1>1, <1>2 DEF Inv, Shapes
  <1>7. InCall'
    BY <1>1, <1>2 DEF Inv, InCall, Written
  <1>8. AtTheEnd'
    BY <1>1, <1>2 DEF Inv, AtTheEnd, EofAfterEverything
  <1>9. InOrder'
    <2> SUFFICES ASSUME ~HungUp' PROVE \E bytes, ends, read : Flow(bytes, ends, read)'
      BY DEF InOrder
    <2>1. ~HungUp
      BY <1>1 DEF HungUp
    <2>2. PICK bytes, ends, read : Flow(bytes, ends, read)
      BY <2>1 DEF Inv, InOrder
    <2>3. Stream(bytes, ends)' /\ ReadSoFar(bytes, ends, read)'
      BY <1>1, <2>2 DEF Flow, Stream, ReadSoFar, Written
    <2>4. SentSoFar(ends, read + Len(wire))'
      BY <1>1, <1>3, <2>2 DEF Flow, SentSoFar
    <2>5. read \in Nat /\ \A x \in 1..Len(wire') : wire'[x] = bytes[read + x]
      BY <1>1, <2>2 DEF Flow
    <2>6. QED
      BY <2>3, <2>4, <2>5 DEF Flow
  <1>10. QED
    BY <1>6, <1>7, <1>8, <1>9 DEF Inv, NoRetries

LEMMA BeginReadlineInv ==
    ASSUME Inv, BeginReadline
    PROVE  Inv'
  <1>1. /\ receiver = "idle" /\ receiver' = "reading" /\ lineBuff' = <<>>
        /\ UNCHANGED <<wire, accepted, message, charsSent, sender, delivered>>
    BY DEF BeginReadline, sendVars
  <1>2. Len(lineBuff') = 0 /\ lineBuff' \in Seq(Bytes)
    BY <1>1, EmptySeq
  <1>3. Shapes' /\ InCall' /\ AtTheEnd'
    BY <1>1, <1>2
    DEF Inv, Shapes, InCall, AtTheEnd, EofAfterEverything, HungUp, Written
  <1>4. InOrder'
    <2>1. PICK bytes, ends, read : Flow(bytes, ends, read)
      BY <1>1 DEF Inv, InOrder, HungUp
    <2>2. Stream(bytes, ends)' /\ SentSoFar(ends, read + Len(wire))'
      BY <1>1, <2>1 DEF Flow, Stream, SentSoFar, Written
    <2>3. ReadSoFar(bytes, ends, read)'
      <3> DEFINE d == Len(delivered)
      <3>1. Stream(bytes, ends) /\ read = ends[d] /\ Shapes
        BY <1>1, <2>1 DEF Inv, Flow, ReadSoFar
      <3>2. d \in Nat /\ ends[d] \in Nat
        BY <3>1 DEF Shapes, Stream
      <3>3. read = ends[d] + Len(lineBuff')
        BY <1>2, <3>1, <3>2
      <3>4. d < Len(accepted) => Len(lineBuff') < Len(Written(d + 1))
        <4> SUFFICES ASSUME d < Len(accepted) PROVE 0 < Len(Written(d + 1))
          BY <1>2
        <4>1. d + 1 \in 1..Len(accepted)
          BY <3>1, <3>2 DEF Shapes
        <4>2. Len(Written(d + 1)) \in Nat \ {0}
          BY <3>1, <4>1, StreamPlaces
        <4>3. QED
          BY <4>2
      <3>5. \A j \in 1..Len(lineBuff') : lineBuff'[j] = bytes[ends[d] + j]
        BY <1>2
      <3>6. QED
        BY <1>1, <3>3, <3>4, <3>5 DEF ReadSoFar, Written
    <2>4. QED
      BY <1>1, <2>1, <2>2, <2>3 DEF Flow, InOrder
  <1>5. QED
    BY <1>1, <1>3, <1>4 DEF Inv, NoRetries

\* readline has reached the end of the stream only if it has read all lines,
\* and is in the middle of one only if not all of it was sent.
LEMMA NothingAfterTheLast ==
    ASSUME Shapes, NEW bytes, NEW ends, NEW read, Flow(bytes, ends, read),
           receiver = "reading"
    PROVE  /\ read = ends[Len(accepted)] =>
                lineBuff = <<>> /\ Len(delivered) = Len(accepted)
           /\ read < ends[Len(accepted)] => Len(delivered) < Len(accepted)
  <1> DEFINE d == Len(delivered)
             n == Len(accepted)
             b == Len(lineBuff)
  <1>1. /\ d \in Nat /\ n \in Nat /\ d <= n /\ b \in Nat
        /\ lineBuff \in Seq(Bytes)
    BY DEF Shapes
  <1>2. /\ read = ends[d] + b /\ read \in Nat
        /\ d < n => b < Len(Written(d + 1))
        /\ Stream(bytes, ends)
    BY DEF Flow, ReadSoFar
  <1>3. d < n => /\ ends[d + 1] = ends[d] + Len(Written(d + 1))
                 /\ Len(Written(d + 1)) \in Nat
                 /\ ends[d + 1] <= ends[n]
    <2> SUFFICES ASSUME d < n
                 PROVE  /\ ends[d + 1] = ends[d] + Len(Written(d + 1))
                        /\ Len(Written(d + 1)) \in Nat
                        /\ ends[d + 1] <= ends[n]
      OBVIOUS
    <2>1. PICK i : i = d + 1
      OBVIOUS
    <2>2. i \in 1..n /\ i \in 0..n /\ i - 1 = d
      BY <1>1, <2>1
    <2>3. ends[i] = ends[i - 1] + Len(Written(i)) /\ ends[i] <= ends[n]
      BY <1>2, <2>2, SMTT(30) DEF Stream
    <2>4. Len(Written(i)) \in Nat
      BY <1>2, <2>2, StreamPlaces
    <2>5. QED
      BY <2>1, <2>2, <2>3, <2>4
  <1>4. ends[d] \in Nat /\ ends[d + 1] \in Nat /\ ends[n] \in Nat
    BY <1>1, <1>2 DEF Stream
  <1>5. d < n => read < ends[n]
    <2>1. PICK a, c, m : a = ends[d] /\ c = ends[d + 1] /\ m = Len(Written(d + 1))
      OBVIOUS
    <2>2. d < n => a \in Nat /\ m \in Nat /\ b < m /\ c = a + m /\ c <= ends[n]
      BY <1>2, <1>3, <1>4, <2>1
    <2>3. read = a + b
      BY <1>2, <2>1
    <2> HIDE DEF d, n, b
    <2>4. QED
      BY <1>1, <1>4, <2>2, <2>3
  <1>6. d = n => read = ends[n] + b
    BY <1>2
  <1> HIDE DEF d, n, b
  <1>7. read = ends[n] => b = 0 /\ d = n
    BY <1>1, <1>2, <1>4, <1>5, <1>6
  <1>8. read < ends[n] => d < n
    BY <1>1, <1>2, <1>4, <1>6
  <1>9. b = 0 => lineBuff = <<>>
    BY <1>1, EmptySeq DEF b
  <1>10. QED
    BY <1>7, <1>8, <1>9 DEF d, n

\* readline has read the first c bytes of the last line, and not the last one
\* of them: it is in that line.
LEMMA InTheLast ==
    ASSUME Shapes, NEW bytes, NEW ends, NEW read, Flow(bytes, ends, read),
           receiver = "reading", NEW n, n = Len(accepted), n # 0,
           NEW c \in Nat, c < Len(Written(n)), read = ends[n - 1] + c
    PROVE  Len(delivered) = n - 1 /\ Len(lineBuff) = c
  <1> DEFINE d == Len(delivered)
             b == Len(lineBuff)
  <1>1. /\ d \in Nat /\ n \in Nat /\ d <= n /\ b \in Nat
        /\ n \in 1..n /\ n - 1 \in 0..n
    BY DEF Shapes
  <1>2. /\ read = ends[d] + b /\ read \in Nat
        /\ d < n => b < Len(Written(d + 1))
        /\ Stream(bytes, ends)
    BY DEF Flow, ReadSoFar
  <1>3. /\ ends[n] = ends[n - 1] + Len(Written(n)) /\ Len(Written(n)) \in Nat
        /\ ends[n - 1] \in Nat /\ ends[n] \in Nat /\ ends[d] \in Nat
    <2>1. ends[n] = ends[n - 1] + Len(Written(n))
      BY <1>1, <1>2 DEF Stream
    <2>2. Len(Written(n)) \in Nat
      BY <1>1, <1>2, StreamPlaces
    <2>3. d \in 0..n /\ n \in 0..n
      BY <1>1
    <2>4. ends[n - 1] \in Nat /\ ends[n] \in Nat /\ ends[d] \in Nat
      BY <1>1, <1>2, <2>3, StreamPlaces
    <2>5. QED
      BY <2>1, <2>2, <2>4
  <1>4. d < n
    <2>1. read < ends[n]
      <3>1. PICK a, m : a = ends[n - 1] /\ m = Len(Written(n))
        OBVIOUS
      <3>2. a \in Nat /\ m \in Nat /\ c < m /\ read = a + c /\ ends[n] = a + m
        BY <1>3, <3>1
      <3>3. QED
        BY <3>2
    <2>2. QED
      BY <2>1, NothingAfterTheLast
  <1>5. d + 1 \in 1..n /\ d + 1 \in 0..n
    BY <1>1, <1>4
  <1>6. ends[d + 1] = ends[d] + Len(Written(d + 1)) /\ Len(Written(d + 1)) \in Nat
    <2>1. PICK i : i = d + 1
      OBVIOUS
    <2>2. i \in 1..n /\ i - 1 = d
      BY <1>1, <1>5, <2>1
    <2>3. ends[i] = ends[i - 1] + Len(Written(i))
      BY <1>2, <2>2 DEF Stream
    <2>4. Len(Written(i)) \in Nat
      BY <1>2, <2>2, StreamPlaces
    <2>5. QED
      BY <2>1, <2>2, <2>3, <2>4
  <1>7. ~(d + 1 <= n - 1)
    <2> SUFFICES ASSUME d + 1 <= n - 1 PROVE FALSE
      OBVIOUS
    <2>1. ends[d + 1] <= ends[n - 1]
      BY <1>1, <1>2, <1>5 DEF Stream
    <2>2. PICK a, m, x : a = ends[d] /\ m = Len(Written(d + 1)) /\ x = ends[n - 1]
      OBVIOUS
    <2>3. /\ a \in Nat /\ m \in Nat /\ x \in Nat /\ b \in Nat
          /\ b < m /\ a + m <= x /\ a + b = x + c
      BY <1>1, <1>2, <1>3, <1>4, <1>6, <2>1, <2>2
    <2> HIDE DEF b
    <2>4. QED
      BY <2>3
  <1>8. d = n - 1
    BY <1>1, <1>4, <1>7
  <1>9. b = c
    <2>1. PICK a : a = ends[n - 1]
      OBVIOUS
    <2>2. a \in Nat /\ a + b = a + c
      BY <1>2, <1>3, <1>8, <2>1
    <2> HIDE DEF b
    <2>3. QED
      BY <1>1, <2>2
  <1>10. QED
    BY <1>8, <1>9

LEMMA ReadEofInv ==
    ASSUME Inv, ReadEof
    PROVE  Inv'
  <1> DEFINE n == Len(accepted)
  <1>1. /\ receiver = "reading" /\ receiver' = "eof" /\ wire = <<>> /\ Finished
        /\ UNCHANGED <<wire, accepted, message, charsSent, sender, lineBuff, delivered>>
    BY DEF ReadEof, sendVars
  <1>2. PICK bytes, ends, read : Flow(bytes, ends, read)
    BY <1>1 DEF Inv, InOrder, HungUp
  <1>3. Shapes' /\ InCall'
    BY <1>1 DEF Inv, Shapes, InCall, HungUp, Written
  <1>s. /\ Shapes /\ n \in Nat /\ accepted \in Seq(Lines)
        /\ charsSent \in 0..Len(message) /\ lineBuff \in Seq(Bytes)
        /\ accepted = <<>> => message = <<>>
        /\ accepted # <<>> => message = Written(n)
    <2>1. Shapes /\ InCall
      BY DEF Inv
    <2>2. accepted \in Seq(Lines) /\ n \in Nat /\ lineBuff \in Seq(Bytes)
      BY <2>1 DEF Shapes
    <2>3. charsSent \in 0..Len(message)
      BY <2>1 DEF Shapes
    <2>4. /\ accepted = <<>> => message = <<>>
          /\ accepted # <<>> => message = Written(n)
      BY <2>1 DEF InCall
    <2>5. QED
      BY <2>1, <2>2, <2>3, <2>4
  <1>r. /\ read \in Nat /\ read <= ends[n]
        /\ accepted # <<>> => read = ends[n - 1] + charsSent
        /\ Stream(bytes, ends)
    <2>1. Len(wire) = 0
      BY <1>1, EmptySeq
    <2>2. read \in Nat /\ SentSoFar(ends, read + Len(wire)) /\ Stream(bytes, ends)
      BY <1>2 DEF Flow
    <2>3. read + Len(wire) = read
      BY <2>1, <2>2
    <2>4. QED
      BY <2>2, <2>3 DEF SentSoFar
  <1>4. EofAfterEverything'
    <2>1. CASE accepted = <<>>
      <3>1. n = 0 /\ Len(message) = 0
        BY <1>s, <2>1, EmptySeq
      <3>2. ends[0] = 0 /\ charsSent = 0
        BY <1>s, <1>r, <3>1 DEF Stream
      <3>3. read = ends[n]
        BY <1>r, <3>1, <3>2
      <3>4. lineBuff = <<>> /\ Len(delivered) = n
        BY <1>1, <1>2, <1>s, <3>3, NothingAfterTheLast
      <3>5. QED
        BY <1>1, <3>1, <3>2, <3>4 DEF EofAfterEverything
    <2>2. CASE accepted # <<>>
      <3>1. n \in 1..n /\ n # 0
        <4>1. n # 0
          BY <1>s, <2>2, EmptySeq
        <4>2. QED
          BY <1>s, <4>1
      <3>2. accepted[n] \in Lines
        BY <1>s, <3>1, ElementOfSeq
      <3>3. message = Written(n) /\ message \in Seq(Bytes) /\ Len(message) \in Nat
        <4>1. message = Written(n)
          BY <1>s, <2>2
        <4>2. Written(n) \in Seq(Bytes)
          BY <3>2, LineStrings DEF Written
        <4>3. QED
          BY <4>1, <4>2
      <3>4. /\ ends[n] = ends[n - 1] + Len(message)
            /\ \A j \in 1..Len(message) : bytes[ends[n - 1] + j] = message[j]
        BY <1>r, <3>1, <3>3 DEF Stream
      <3>5. CASE charsSent = Len(message)
        <4>1. read = ends[n]
          BY <1>r, <2>2, <3>4, <3>5
        <4>2. lineBuff = <<>> /\ Len(delivered) = n
          BY <1>1, <1>2, <1>s, <4>1, NothingAfterTheLast
        <4>3. QED
          BY <1>1, <3>5, <4>2 DEF EofAfterEverything
      <3>6. CASE charsSent # Len(message)
        <4>1. charsSent \in Nat /\ charsSent < Len(message)
          BY <1>s, <3>3, <3>6
        <4>2. Len(delivered) = n - 1 /\ Len(lineBuff) = charsSent
          BY <1>1, <1>2, <1>s, <1>r, <2>2, <3>1, <3>3, <4>1, InTheLast
        <4> DEFINE part == SubSeq(message, 0 + 1, 0 + charsSent)
        <4>3. /\ part \in Seq(Bytes) /\ Len(part) = charsSent
              /\ \A j \in 1..charsSent : part[j] = message[0 + j]
          BY <3>3, <4>1, Part
        <4>4. part = SubSeq(message, 1, charsSent) /\ \A j \in 1..charsSent : 0 + j = j
          BY <4>1
        <4> HIDE DEF part
        <4>5. ASSUME NEW j \in 1..charsSent PROVE lineBuff[j] = part[j]
          <5>1. lineBuff[j] = bytes[ends[Len(delivered)] + j]
            BY <1>1, <1>2, <4>2 DEF Flow, ReadSoFar
          <5>2. j \in 1..Len(message)
            BY <3>3, <4>1
          <5>3. QED
            BY <3>4, <4>2, <4>3, <4>4, <5>1, <5>2
        <4>6. lineBuff = part
          BY <1>s, <4>2, <4>3, <4>5, SeqEqual
        <4>7. QED
          BY <1>1, <4>1, <4>2, <4>4, <4>6 DEF EofAfterEverything
      <3>7. QED
        BY <3>5, <3>6
    <2>3. QED
      BY <2>1, <2>2
  <1>5. AtTheEnd'
    BY <1>1, <1>4 DEF AtTheEnd, Finished
  <1>6. InOrder'
    <2>1. Flow(bytes, ends, read)'
      BY <1>1, <1>2 DEF Flow, Stream, SentSoFar, ReadSoFar, Written
    <2>2. QED
      BY <2>1 DEF InOrder
  <1>7. QED
    BY <1>3, <1>5, <1>6 DEF Inv, NoRetries

LEMMA ReadThrowsInv ==
    ASSUME Inv, ReadThrows
    PROVE  Inv'
  <1>1. /\ receiver = "reading" /\ receiver' = "failed"
        /\ UNCHANGED <<wire, accepted, message, charsSent, sender, lineBuff, delivered>>
    BY DEF ReadThrows, sendVars, AfterException, Inv, NoRetries
  <1>2. PICK bytes, ends, read : Flow(bytes, ends, read)
    BY <1>1 DEF Inv, InOrder, HungUp
  <1>3. Shapes' /\ InCall' /\ AtTheEnd'
    BY <1>1 DEF Inv, Shapes, InCall, AtTheEnd, EofAfterEverything, HungUp, Written
  <1>4. Flow(bytes, ends, read)'
    BY <1>1, <1>2 DEF Flow, Stream, SentSoFar, ReadSoFar, Written
  <1>5. QED
    BY <1>3, <1>4 DEF Inv, InOrder, NoRetries

LEMMA HangUpInv ==
    ASSUME Inv, HangUp
    PROVE  Inv'
  <1>1. /\ receiver' = "closed" /\ wire' = <<>>
        /\ UNCHANGED <<accepted, message, charsSent, sender, lineBuff, delivered>>
    BY DEF HangUp, sendVars
  <1>2. wire' \in Seq(Bytes) /\ Len(wire') <= Capacity
    BY <1>1, EmptySeq
  <1>3. Shapes' /\ InCall' /\ AtTheEnd' /\ InOrder'
    BY <1>1, <1>2
    DEF Inv, Shapes, InCall, AtTheEnd, EofAfterEverything, InOrder, HungUp, Written
  <1>4. QED
    BY <1>3 DEF Inv, NoRetries
\* What readline has read is a part of line i, or all of it and the delimiter.
IsPartOf(line, i, bytes, ends, read) ==
    /\ i \in 1..Len(accepted) /\ accepted[i] \in Lines
    /\ line \in Seq(Bytes) /\ Len(line) = Len(lineBuff) + 1
    /\ read = ends[Len(delivered)] + Len(line)
    /\ ends[i] = ends[Len(delivered)] + Len(Written(i))
    /\ \A j \in 1..Len(line) : line[j] = bytes[ends[Len(delivered)] + j]
    /\ ~Occurs(Eol, line) => Len(line) < Len(Written(i))
    /\ Occurs(Eol, line) => /\ Len(line) = Len(Written(i))
                            /\ Stripped(line) = accepted[i]

\* One more byte off the wire is the next byte of the line readline reads.
LEMMA NextByte ==
    ASSUME Shapes, NEW bytes, NEW ends, NEW read, Flow(bytes, ends, read),
           receiver = "reading", Len(wire) # 0,
           NEW line, line = Append(lineBuff, Head(wire)),
           NEW i, i = Len(delivered) + 1
    PROVE  IsPartOf(line, i, bytes, ends, read + 1)
  <1> DEFINE d == Len(delivered)
             n == Len(accepted)
             b == Len(lineBuff)
             w == Len(wire)
  <1>1. /\ d \in Nat /\ n \in Nat /\ d <= n /\ b \in Nat /\ w \in Nat /\ w # 0
        /\ lineBuff \in Seq(Bytes) /\ wire \in Seq(Bytes)
    BY DEF Shapes
  <1>2. /\ read = ends[d] + b /\ read \in Nat /\ read + w <= ends[n]
        /\ d < n => b < Len(Written(d + 1))
        /\ \A j \in 1..b : lineBuff[j] = bytes[ends[d] + j]
        /\ \A x \in 1..w : wire[x] = bytes[read + x]
        /\ Stream(bytes, ends)
    BY DEF Flow, ReadSoFar, SentSoFar
  <1>3. ends[d] \in Nat /\ ends[n] \in Nat
    BY <1>1, <1>2 DEF Stream
  <1>4. d < n
    <2>1. read < ends[n]
      BY <1>1, <1>2, <1>3
    <2>2. QED
      BY <2>1, NothingAfterTheLast
  <1>5. i \in 1..n /\ i - 1 = d
    BY <1>1, <1>4
  <1>6. accepted[i] \in Lines /\ Len(Written(i)) \in Nat /\ b < Len(Written(i))
    BY <1>2, <1>4, <1>5, StreamPlaces
  <1>7. /\ ends[i] = ends[d] + Len(Written(i))
        /\ \A j \in 1..Len(Written(i)) : bytes[ends[d] + j] = Written(i)[j]
    <2>1. /\ ends[i] = ends[i - 1] + Len(Written(i))
          /\ \A j \in 1..Len(Written(i)) : bytes[ends[i - 1] + j] = Written(i)[j]
      BY <1>2, <1>5 DEF Stream
    <2>2. i - 1 = d
      BY <1>5
    <2>3. QED
      BY <2>1, <2>2
  <1>8. PICK c : c = Head(wire)
    OBVIOUS
  <1>9. c = wire[1] /\ c \in Bytes /\ 1 \in 1..w
    <2>1. 1 \in 1..w
      BY <1>1
    <2>2. c = wire[1]
      BY <1>1, <1>8
    <2>3. QED
      BY <1>1, <2>1, <2>2, ElementOfSeq
  <1>10. /\ line \in Seq(Bytes) /\ Len(line) = b + 1
         /\ \A j \in 1..b : line[j] = lineBuff[j]
         /\ line[b + 1] = c
    BY <1>1, <1>8, <1>9, AppendProperties
  <1>11. read + 1 = ends[d] + (b + 1)
    <2>1. PICK a : a = ends[d]
      OBVIOUS
    <2>2. a \in Nat /\ read = a + b
      BY <1>2, <1>3, <2>1
    <2> HIDE DEF b
    <2>3. read + 1 = a + (b + 1)
      BY <1>1, <2>2
    <2>4. QED
      BY <2>1, <2>3
  <1>12. ASSUME NEW j \in 1..Len(line) PROVE line[j] = bytes[ends[d] + j]
    <2>1. CASE j \in 1..b
      BY <1>2, <1>10, <2>1
    <2>2. CASE j = b + 1
      <3>1. c = bytes[read + 1]
        BY <1>2, <1>9
      <3>2. QED
        BY <1>10, <1>11, <2>2, <3>1
    <2>3. QED
      BY <1>1, <1>10, <2>1, <2>2
  <1>13. Len(line) <= Len(Written(i)) /\ Len(line) \in Nat
    BY <1>1, <1>6, <1>10
  <1>14. \A j \in 1..Len(line) : line[j] = Written(i)[j]
    <2>1. \A j \in 1..Len(line) : j \in 1..Len(Written(i))
      BY <1>6, <1>13
    <2>2. QED
      BY <1>7, <1>12, <2>1
  <1>15. /\ Len(line) < Len(Written(i)) => ~Occurs(Eol, line)
         /\ Len(line) = Len(Written(i)) => Occurs(Eol, line) /\ Stripped(line) = accepted[i]
    BY <1>6, <1>10, <1>13, <1>14, ReadPart DEF Written
  <1>16. /\ ~Occurs(Eol, line) => Len(line) < Len(Written(i))
         /\ Occurs(Eol, line) => /\ Len(line) = Len(Written(i))
                                 /\ Stripped(line) = accepted[i]
    BY <1>6, <1>13, <1>15
  <1>17. QED
    BY <1>5, <1>6, <1>7, <1>10, <1>11, <1>12, <1>16 DEF IsPartOf

LEMMA ReadByteInv ==
    ASSUME Inv, ReadByte
    PROVE  /\ Inv'
           /\ delivered' # delivered =>
                /\ Len(delivered) < Len(accepted)
                /\ delivered' = Append(delivered, accepted[Len(delivered) + 1])
                /\ accepted' = accepted
  <1> DEFINE d == Len(delivered)
             w == Len(wire)
  <1>1. PICK line, i : line = Append(lineBuff, Head(wire)) /\ i = d + 1
    OBVIOUS
  <1>2. /\ receiver = "reading" /\ wire' = After(1, wire)
        /\ UNCHANGED <<accepted, message, charsSent, sender>>
        /\ 1 \in RecvResults(wire, 1)
    BY DEF ReadByte, sendVars
  <1>3. \/ /\ ~Occurs(Eol, line) /\ lineBuff' = line
           /\ UNCHANGED <<delivered, receiver>>
        \/ /\ Occurs(Eol, line) /\ lineBuff' = Stripped(line)
           /\ delivered' = Append(delivered, lineBuff') /\ receiver' = "idle"
    BY <1>1 DEF ReadByte
  <1>4. Shapes /\ wire \in Seq(Bytes) /\ w \in Nat /\ w # 0
    <2>1. Shapes
      BY DEF Inv
    <2>2. wire \in Seq(Bytes)
      BY <2>1 DEF Shapes
    <2>3. w \in Nat
      BY <2>2
    <2>4. 1 <= w
      BY <1>2 DEF RecvResults
    <2>5. QED
      BY <2>1, <2>2, <2>3, <2>4
  <1>5. PICK bytes, ends, read : Flow(bytes, ends, read)
    BY <1>2 DEF Inv, InOrder, HungUp
  <1>6. /\ i \in 1..Len(accepted) /\ accepted[i] \in Lines
        /\ line \in Seq(Bytes) /\ Len(line) = Len(lineBuff) + 1
        /\ read + 1 = ends[d] + Len(line)
        /\ ends[i] = ends[d] + Len(Written(i))
        /\ \A j \in 1..Len(line) : line[j] = bytes[ends[d] + j]
        /\ ~Occurs(Eol, line) => Len(line) < Len(Written(i))
        /\ Occurs(Eol, line) => /\ Len(line) = Len(Written(i))
                                /\ Stripped(line) = accepted[i]
    <2>1. IsPartOf(line, i, bytes, ends, read + 1)
      BY <1>1, <1>2, <1>4, <1>5, NextByte
    <2>2. QED
      BY <2>1 DEF IsPartOf
  <1>7. d \in Nat /\ Len(accepted) \in Nat /\ d < Len(accepted) /\ d + 1 <= Len(accepted)
    BY <1>1, <1>4, <1>6 DEF Shapes
  <1>8. /\ wire' \in Seq(Bytes) /\ Len(wire') = w - 1
        /\ \A x \in 1..w - 1 : wire'[x] = wire[1 + x]
    <2>1. PICK k : k = w - 1
      OBVIOUS
    <2>2. k \in Nat /\ 1 + k = w
      BY <1>4, <2>1
    <2>3. wire' = SubSeq(wire, 1 + 1, 1 + k)
      BY <1>2, <2>2 DEF After
    <2>4. QED
      BY <1>4, <2>1, <2>2, <2>3, Part
  <1>9. \/ UNCHANGED <<delivered, receiver>>
        \/ /\ delivered' = Append(delivered, accepted[i]) /\ receiver' = "idle"
           /\ delivered' \in Seq(Lines) /\ Len(delivered') = d + 1
    <2>1. delivered \in Seq(Lines)
      BY <1>4 DEF Shapes
    <2>2. /\ Append(delivered, accepted[i]) \in Seq(Lines)
          /\ Len(Append(delivered, accepted[i])) = d + 1
      BY <1>6, <2>1, AppendProperties
    <2>3. QED
      BY <1>3, <1>6, <2>2
  <1>10. Shapes'
    <2>1. Len(wire') <= Capacity
      BY <1>4, <1>8 DEF Shapes
    <2>2. lineBuff' \in Seq(Bytes)
      BY <1>3, <1>6, LineStrings
    <2>3. delivered' \in Seq(Lines) /\ Len(delivered') <= Len(accepted')
      BY <1>2, <1>4, <1>7, <1>9 DEF Shapes
    <2>4. receiver' \in {"idle", "reading", "failed", "eof", "closed"}
      BY <1>2, <1>9
    <2>5. QED
      BY <1>2, <1>4, <1>8, <2>1, <2>2, <2>3, <2>4 DEF Shapes
  <1>11. InCall' /\ AtTheEnd'
    BY <1>2, <1>9
    DEF Inv, InCall, AtTheEnd, EofAfterEverything, HungUp, Written
  <1>12. InOrder'
    <2>1. Stream(bytes, ends)'
      BY <1>2, <1>5 DEF Flow, Stream, Written
    <2>2. read \in Nat /\ read + 1 \in Nat
      BY <1>5 DEF Flow
    <2>3. \A x \in 1..Len(wire') : wire'[x] = bytes[read + 1 + x]
      <3>1. \A x \in 1..w - 1 : 1 + x \in 1..w /\ read + (1 + x) = read + 1 + x
        BY <1>4, <2>2
      <3>2. \A x \in 1..w : wire[x] = bytes[read + x]
        BY <1>5 DEF Flow
      <3>3. ASSUME NEW x \in 1..w - 1 PROVE wire'[x] = bytes[read + 1 + x]
        <4>1. wire'[x] = wire[1 + x]
          BY <1>8
        <4>2. wire[1 + x] = bytes[read + (1 + x)]
          BY <3>1, <3>2
        <4>3. QED
          BY <3>1, <4>1, <4>2
      <3>4. QED
        BY <1>8, <3>3
    <2>4. SentSoFar(ends, read + 1 + Len(wire))'
      <3>1. read + 1 + Len(wire') = read + w
        BY <1>4, <1>8, <2>2
      <3>2. SentSoFar(ends, read + w)
        BY <1>5 DEF Flow
      <3>3. QED
        BY <1>2, <3>1, <3>2 DEF SentSoFar
    <2>5. ReadSoFar(bytes, ends, read + 1)'
      <3>1. CASE ~Occurs(Eol, line)
        <4>1. UNCHANGED <<delivered, receiver>> /\ lineBuff' = line
          BY <1>3, <3>1
        <4>2. Len(line) < Len(Written(d + 1))
          BY <1>1, <1>6, <3>1
        <4>3. QED
          BY <1>2, <1>6, <4>1, <4>2 DEF ReadSoFar, Written
      <3>2. CASE Occurs(Eol, line)
        <4>1. receiver' = "idle" /\ Len(delivered') = i
          <5>1. delivered' = Append(delivered, lineBuff') /\ receiver' = "idle"
            BY <1>3, <3>2
          <5>2. QED
            BY <1>1, <5>1
        <4>2. read + 1 = ends[i]
          BY <1>6, <3>2
        <4>3. QED
          BY <4>1, <4>2 DEF ReadSoFar
      <3>3. QED
        BY <3>1, <3>2
    <2>6. Flow(bytes, ends, read + 1)'
      BY <2>1, <2>2, <2>3, <2>4, <2>5 DEF Flow
    <2>7. QED
      BY <2>6 DEF InOrder
  <1>13. Inv'
    BY <1>10, <1>11, <1>12 DEF Inv, NoRetries
  <1>14. QED
    BY <1>1, <1>2, <1>7, <1>9, <1>13
LEMMA NextInv == Inv /\ [Next]_vars => Inv'
  <1> SUFFICES ASSUME Inv, [Next]_vars PROVE Inv'
    OBVIOUS
  <1>1. ASSUME NEW line \in Lines, BeginSendline(line) PROVE Inv'
    BY <1>1, BeginSendlineInv
  <1>2. CASE SendSome
    BY <1>2, SendSomeInv
  <1>3. CASE SendThrows \/ SendKilled \/ CloseSender \/ SenderCrashes
    BY <1>3, SenderInv
  <1>4. CASE BeginReadline
    BY <1>4, BeginReadlineInv
  <1>5. CASE ReadByte
    BY <1>5, ReadByteInv
  <1>6. CASE ReadEof
    BY <1>6, ReadEofInv
  <1>7. CASE ReadThrows
    BY <1>7, ReadThrowsInv
  <1>8. CASE HangUp
    BY <1>8, HangUpInv
  <1>9. CASE UNCHANGED vars
    <2>1. UNCHANGED <<wire, sender, receiver, accepted, message, charsSent,
                      lineBuff, delivered>>
      BY <1>9 DEF vars, sendVars, readVars
    <2>2. Shapes' /\ InCall' /\ AtTheEnd'
      BY <2>1 DEF Inv, Shapes, InCall, AtTheEnd, EofAfterEverything, Finished, HungUp, Written
    <2>3. InOrder'
      <3>1. ASSUME NEW bytes, NEW ends, NEW read, Flow(bytes, ends, read)
            PROVE  Flow(bytes, ends, read)'
        BY <2>1, <3>1 DEF Flow, Stream, SentSoFar, ReadSoFar, Written
      <3>2. QED
        BY <2>1, <3>1 DEF Inv, InOrder, HungUp
    <2>4. QED
      BY <2>2, <2>3 DEF Inv, NoRetries
  <1>10. QED
    BY <1>1, <1>2, <1>3, <1>4, <1>5, <1>6, <1>7, <1>8, <1>9 DEF Next, ReadStep

LEMMA Invariance == NoRetries /\ Spec => []Inv
  BY InitInv, NextInv, PTL DEF Spec

-----------------------------------------------------------------------------
(* The theorems.                                                           *)

LEMMA Bounded ==
    ASSUME NEW S, NEW k \in Nat, NEW q \in Seq(S), Len(q) <= k
    PROVE  q \in BoundedSeq(S, k)
  <1>1. Len(q) \in 0..k /\ q \in [1..Len(q) -> S]
    OBVIOUS
  <1>2. QED
    BY <1>1 DEF BoundedSeq, SeqOf

LEMMA InvTypeOK == Inv => TypeOK
  <1> SUFFICES ASSUME Inv PROVE TypeOK
    OBVIOUS
  <1>1. MaxLines \in Nat /\ Capacity \in Nat
    BY LinesAssumption
  <1>2. wire \in BoundedSeq(Bytes, Capacity)
    BY <1>1, Bounded DEF Inv, Shapes
  <1>3. accepted \in BoundedSeq(Lines, MaxLines)
    BY <1>1, Bounded DEF Inv, Shapes
  <1>4. ToSet(lineBuff) \subseteq Bytes
    <2>1. lineBuff \in Seq(Bytes)
      BY DEF Inv, Shapes
    <2>2. DOMAIN lineBuff = 1..Len(lineBuff) /\ \A j \in 1..Len(lineBuff) : lineBuff[j] \in Bytes
      BY <2>1, ElementOfSeq
    <2>3. QED
      BY <2>2 DEF ToSet
  <1>5. Len(delivered) <= MaxLines
    <2>1. Len(delivered) \in Nat /\ Len(accepted) \in Nat
      BY DEF Inv, Shapes
    <2>2. QED
      BY <1>1, <2>1 DEF Inv, Shapes
  <1>6. QED
    BY <1>2, <1>3, <1>4, <1>5 DEF Inv, Shapes, TypeOK

\* Every variable has its type: the kernel never holds more than its buffer,
\* sendline never counts more than its message has, and readline never
\* returns more lines than sendline was given.
THEOREM TypeCorrect == NoRetries /\ Spec => []TypeOK
  BY Invariance, InvTypeOK, PTL

\* When readline meets the end of the stream, everything that was sent has been
\* read: all lines, or all but the one whose sendline a crash or an exception
\* ended, and of that one the bytes that were sent.
THEOREM EverythingSentIsRead == NoRetries /\ Spec => []EofAfterEverything
  <1>1. Inv => EofAfterEverything
    BY DEF Inv, AtTheEnd
  <1>2. QED
    BY <1>1, Invariance, PTL

LEMMA ChannelStep == Inv /\ [Next]_vars => [Channel!Next]_<<accepted, delivered>>
  <1> SUFFICES ASSUME Inv, [Next]_vars, ~UNCHANGED <<accepted, delivered>>
               PROVE  Channel!Next
    OBVIOUS
  <1>1. ASSUME NEW line \in Lines, BeginSendline(line) PROVE Channel!Next
    BY <1>1 DEF BeginSendline, readVars, Channel!Next, Channel!Accept
  <1>2. CASE ReadByte
    <2>1. accepted' = accepted
      BY <1>2 DEF ReadByte, sendVars
    <2>2. /\ Len(delivered) < Len(accepted)
          /\ delivered' = Append(delivered, accepted[Len(delivered) + 1])
      BY <1>2, <2>1, ReadByteInv
    <2>3. QED
      BY <2>1, <2>2 DEF Channel!Next, Channel!Deliver, Channel!InTransit
  <1>3. \/ \E line \in Lines : BeginSendline(line)
        \/ ReadByte
    BY DEF Next, ReadStep, SendSome, SendThrows, SendKilled, CloseSender, SenderCrashes,
           BeginReadline, ReadEof, ReadThrows, HangUp, vars, sendVars, readVars
  <1>4. QED
    BY <1>1, <1>2, <1>3

\* The two loops implement the channel: readline returns the lines that were
\* given to sendline, whole, each once and in their order, whatever the sizes
\* of the sends and of the kernel's buffer, and also if one of them is given up.
THEOREM LoopsAreAChannel == NoRetries /\ Spec => LinesInOrder
  <1>1. Init => Channel!Init
    BY DEF Init, Channel!Init
  <1>2. QED
    BY <1>1, Invariance, ChannelStep, PTL DEF Spec, LinesInOrder, Channel!Spec
=============================================================================
