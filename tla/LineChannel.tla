---------------------------- MODULE LineChannel ----------------------------
(***************************************************************************)
(* What sendline and readline promise together: lines come out whole, once *)
(* and in the order in which they went in.                                 *)
(***************************************************************************)
EXTENDS Naturals, Sequences

CONSTANT Lines

VARIABLES
    accepted,    \* the lines given to sendline
    delivered    \* the lines readline returned

Init == accepted = <<>> /\ delivered = <<>>

Accept(line) ==
    /\ accepted' = Append(accepted, line)
    /\ UNCHANGED delivered

InTransit == Len(delivered) < Len(accepted)

Deliver ==
    /\ InTransit
    /\ delivered' = Append(delivered, accepted[Len(delivered) + 1])
    /\ UNCHANGED accepted

Next == (\E line \in Lines : Accept(line)) \/ Deliver

Spec == Init /\ [][Next]_<<accepted, delivered>>

\* No line stays in transit for ever.
Progress == WF_<<accepted, delivered>>(Deliver)

FairSpec == Spec /\ Progress
=============================================================================
