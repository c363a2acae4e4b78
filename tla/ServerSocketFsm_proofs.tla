----------------------- MODULE ServerSocketFsm_proofs -----------------------
(***************************************************************************)
(* Proofs about ServerSocketFsm for every set of descriptor numbers, every *)
(* set of addresses and every value of the uninitialised state: its types, *)
(* what the object holds, that its members agree with the kernel, and the  *)
(* two action properties.                                                  *)
(***************************************************************************)
EXTENDS ServerSocketFsm, TLAPS

USE DescriptorsAssumption, ServerAssumption
    DEF NO_FD, Nobody, Self, Other

Parties == {Nobody, Self, Other}

Sockets == [addr : Addrs \cup {Unbound}, listening : BOOLEAN, nonblock : BOOLEAN]

-----------------------------------------------------------------------------
(* The descriptor table.                                                   *)

\* Closing f frees f and leaves every other entry alone (closeFd).
LEMMA VacatedEntries ==
    ASSUME NEW table \in [Fds -> Parties], NEW f
    PROVE  /\ Vacated(table, f) \in [Fds -> Parties]
           /\ \A x \in Fds :
                Vacated(table, f)[x] = IF x = f THEN Nobody ELSE table[x]
  BY DEF Vacated, Parties

\* Closing what is not open changes nothing.
LEMMA VacatedUnowned ==
    ASSUME NEW table \in [Fds -> Parties], NEW f, f \in Fds => table[f] = Nobody
    PROVE  Vacated(table, f) = table
  BY DEF Vacated, Parties

\* The move in bind: f is opened, then what the member held is closed.
LEMMA MovedInOwner ==
    ASSUME owner \in [Fds -> Parties], NEW a, NEW f \in FreeFds, MovedIn(a, f)
    PROVE  /\ f \in Fds /\ owner[f] = Nobody /\ fd' = f
           /\ owner' \in [Fds -> Parties]
           /\ \A x \in Fds : x = fd => owner'[x] = Nobody
           /\ f # fd => owner'[f] = Self
           /\ \A x \in Fds : x # fd /\ x # f => owner'[x] = owner[x]
  <1>1. f \in Fds /\ owner[f] = Nobody /\ fd' = f
    BY DEF FreeFds, MovedIn
  <1> DEFINE opened == [owner EXCEPT ![f] = Self]
  <1>2. /\ opened \in [Fds -> Parties]
        /\ \A x \in Fds : opened[x] = IF x = f THEN Self ELSE owner[x]
    BY <1>1 DEF Parties
  <1>3. owner' = Vacated(opened, fd)
    BY DEF MovedIn
  <1> HIDE DEF opened
  <1>4. /\ owner' \in [Fds -> Parties]
        /\ \A x \in Fds : owner'[x] = IF x = fd THEN Nobody ELSE opened[x]
    BY <1>2, <1>3, VacatedEntries
  <1>5. QED
    BY <1>1, <1>2, <1>4

\* And the kernel knows of the new socket what bind and fcntl told it.
LEMMA MovedInSocket ==
    ASSUME sock \in [Fds -> Sockets], nonBlockingIo \in BOOLEAN,
           NEW a \in Addrs, NEW f \in FreeFds, MovedIn(a, f)
    PROVE  /\ sock' \in [Fds -> Sockets]
           /\ sock'[f].addr = a /\ sock'[f].listening = FALSE
           /\ sock'[f].nonblock = nonBlockingIo
           /\ \A x \in Fds : x # f => sock'[x] = sock[x]
  <1>1. f \in Fds
    BY DEF FreeFds
  <1>2. sock' = [sock EXCEPT ![f] =
            [addr |-> a, listening |-> FALSE, nonblock |-> nonBlockingIo]]
    BY DEF MovedIn
  <1>3. /\ sock' \in [Fds -> Sockets]
        /\ sock'[f] = [addr |-> a, listening |-> FALSE, nonblock |-> nonBlockingIo]
        /\ \A x \in Fds : x # f => sock'[x] = sock[x]
    BY <1>1, <1>2 DEF Sockets
  <1>4. QED
    BY <1>3

-----------------------------------------------------------------------------
(* Types.                                                                  *)

LEMMA InitTypeOK == Init => TypeOK
  <1> SUFFICES ASSUME Init PROVE TypeOK
    OBVIOUS
  <1>1. owner \in [Fds -> {Nobody, Self, Other}]
    BY DEF Init
  <1>2. sock \in [Fds -> Sockets]
    BY DEF Init, NewSocket, Sockets
  <1>3. last \in [call : Calls, out : {"returns", "rejects", "fails"}]
    BY DEF Init, Calls
  <1>4. fsmState \in States
    BY DEF Init, States, INIT, GARBAGE
  <1>5. QED
    BY <1>1, <1>2, <1>3, <1>4 DEF Init, TypeOK, Sockets

\* How a call ends is one of the ways `last' knows.
LEMMA EndsTypeOK ==
    ASSUME NEW c \in Calls,
           Returns(c) \/ Fails(c) \/ Rejects(c)
    PROVE  last' \in [call : Calls, out : {"returns", "rejects", "fails"}]
  BY DEF Returns, Fails, Rejects

\* The end of the process keeps every type.
LEMMA TerminatesTypeOK ==
    ASSUME TypeOK, NEW c \in Calls, Terminates(c)
    PROVE  TypeOK'
  BY EndsTypeOK DEF TypeOK, Terminates, hist

LEMMA NextTypeOK == TypeOK /\ [Next]_vars => TypeOK'
  <1> SUFFICES ASSUME TypeOK, [Next]_vars PROVE TypeOK'
    OBVIOUS
  <1>t. owner \in [Fds -> Parties] /\ sock \in [Fds -> Sockets]
    BY DEF TypeOK, Parties, Sockets
  <1>v. Vacated(owner, fd) \in [Fds -> Parties]
    BY <1>t, VacatedEntries
  <1>n. NewSocket \in Sockets
    BY DEF NewSocket, Sockets
  <1>s. {INIT, BOUND, LISTENING, ACCEPTING, CLOSED} \subseteq States
    BY DEF States, INIT, BOUND, LISTENING, ACCEPTING, CLOSED, GARBAGE
  <1>c. /\ {"construct", "destroy", "bind", "listen", "accept"} \subseteq Calls
        /\ {"close", "reset", "setNonBlockIO", "other"} \subseteq Calls
    BY DEF Calls
  <1>1. CASE Construct
    BY <1>1, <1>c, EndsTypeOK DEF TypeOK, Construct, kernel
  <1>2. ASSUME NEW a \in Addrs, ConstructListening(a) PROVE TypeOK'
    <2>1. CASE FailsUnchanged("construct")
      BY <2>1, <1>c, EndsTypeOK DEF TypeOK, FailsUnchanged, members, kernel, hist
    <2>2. CASE UnwindingThrows("construct")
      BY <2>2, <1>c, TerminatesTypeOK DEF UnwindingThrows
    <2>3. ASSUME NEW f \in FreeFds,
                 obj' = "alive", fsmState' = LISTENING, fd' = f,
                 nonBlockingIo' = FALSE, socketAddr' = a,
                 owner' = [owner EXCEPT ![f] = Self],
                 sock' = [sock EXCEPT ![f] =
                     [addr |-> a, listening |-> TRUE, nonblock |-> FALSE]],
                 past' = "bound", Returns("construct"), UNCHANGED closeErred
          PROVE  TypeOK'
      <3>1. f \in Fds
        BY DEF FreeFds
      <3>2. owner' \in [Fds -> Parties] /\ sock' \in [Fds -> Sockets]
        BY <2>3, <1>t, <3>1 DEF Parties, Sockets
      <3>3. QED
        BY <2>3, <3>1, <3>2, <1>s, <1>c, EndsTypeOK DEF TypeOK, Parties, Sockets
    <2>4. QED
      BY <1>2, <2>1, <2>2, <2>3 DEF ConstructListening
  <1>3. CASE Destroy
    <2>1. CASE Terminates("destroy")
      BY <2>1, <1>c, TerminatesTypeOK
    <2>2. CASE ~Terminates("destroy")
      BY <1>3, <2>2, <1>v, <1>c, EndsTypeOK DEF TypeOK, Destroy, hist, Parties
    <2>3. QED
      BY <2>1, <2>2
  <1>4. ASSUME NEW a \in Addrs, Bind(a) PROVE TypeOK'
    <2>1. CASE Rejects("bind") \/ FailsUnchanged("bind")
      BY <2>1, <1>c, EndsTypeOK
      DEF TypeOK, Rejects, FailsUnchanged, members, kernel, hist
    <2>2. CASE UnwindingThrows("bind")
      BY <2>2, <1>c, TerminatesTypeOK DEF UnwindingThrows
    <2>3. CASE MoveThrows /\ Fails("bind") /\ UNCHANGED obj
      BY <2>3, <1>v, <1>c, EndsTypeOK DEF MoveThrows, TypeOK, members, IsOpen, Parties
    <2>4. ASSUME NEW f \in FreeFds, MovedIn(a, f),
                 \/ /\ socketAddr' = a /\ fsmState' = BOUND
                    /\ past' = "bound" /\ Returns("bind")
                 \/ /\ past' = "halfBound" /\ Fails("bind")
                    /\ UNCHANGED <<fsmState, socketAddr>>,
                 UNCHANGED <<obj, nonBlockingIo, closeErred>>
          PROVE  TypeOK'
      <3>1. nonBlockingIo \in BOOLEAN
        BY DEF TypeOK
      <3>2. /\ fd' \in Fds /\ owner' \in [Fds -> Parties]
            /\ sock' \in [Fds -> Sockets]
        BY <2>4, <3>1, <1>t, MovedInOwner, MovedInSocket
      <3>3. obj = "alive"
        BY <1>4 DEF Bind
      <3>4. last' \in [call : Calls, out : {"returns", "rejects", "fails"}]
        BY <2>4, <1>c, EndsTypeOK
      <3>5. QED
        BY <2>4, <3>2, <3>3, <3>4, <1>s DEF TypeOK, Parties, Sockets
    <2>5. QED
      BY <1>4, <2>1, <2>2, <2>3, <2>4 DEF Bind
  <1>5. CASE Listen
    <2>1. sock' \in [Fds -> Sockets]
      <3>1. \/ sock' = sock
            \/ fd \in Fds /\ sock' = [sock EXCEPT ![fd].listening = TRUE]
        BY <1>5 DEF Listen, Rejects, FailsUnchanged, kernel, IsOpen
      <3>2. ASSUME fd \in Fds
            PROVE  [sock[fd] EXCEPT !.listening = TRUE] \in Sockets
        <4>1. sock[fd] \in Sockets
          BY <3>2, <1>t
        <4>2. QED
          BY <4>1 DEF Sockets
      <3>3. QED
        BY <3>1, <3>2, <1>t
    <2>2. QED
      BY <1>5, <2>1, <1>s, <1>c, EndsTypeOK
      DEF Listen, TypeOK, Rejects, FailsUnchanged, members, kernel, hist, Sockets
  <1>6. CASE Accept
    <2>1. sock' \in [Fds -> Sockets] /\ owner' \in [Fds -> Parties]
      BY <1>6, <1>t, <1>n
      DEF Accept, Rejects, FailsUnchanged, kernel, FreeFds, Parties
    <2>2. QED
      BY <1>6, <2>1, <1>s, <1>c, EndsTypeOK
      DEF Accept, TypeOK, Rejects, FailsUnchanged, members, kernel, hist,
          Sockets, Parties
  <1>7. CASE Close
    BY <1>7, <1>v, <1>s, <1>c, EndsTypeOK
    DEF Close, TypeOK, Rejects, members, kernel, hist, IsOpen, Parties
  <1>8. CASE Reset
    BY <1>8, <1>v, <1>s, <1>c, EndsTypeOK
    DEF Reset, TypeOK, members, IsOpen, Parties
  <1>9. ASSUME NEW v \in BOOLEAN, SetNonBlockIO(v) PROVE TypeOK'
    <2>1. sock' \in [Fds -> Sockets]
      BY <1>9, <1>t DEF SetNonBlockIO, FailsUnchanged, kernel, IsOpen, Sockets
    <2>2. QED
      BY <1>9, <2>1, <1>c, EndsTypeOK
      DEF SetNonBlockIO, TypeOK, FailsUnchanged, members, kernel, hist, Sockets
  <1>10. ASSUME NEW f \in Fds, OtherOpen(f) PROVE TypeOK'
    <2>1. sock' \in [Fds -> Sockets] /\ owner' \in [Fds -> Parties]
      BY <1>10, <1>t, <1>n DEF OtherOpen, Parties
    <2>2. QED
      BY <1>10, <2>1, <1>c DEF OtherOpen, TypeOK, members, hist, Sockets, Parties
  <1>11. ASSUME NEW f \in Fds, OtherClose(f) PROVE TypeOK'
    <2>1. owner' \in [Fds -> Parties]
      BY <1>11, <1>t, VacatedEntries DEF OtherClose
    <2>2. QED
      BY <1>11, <2>1, <1>c DEF OtherClose, TypeOK, members, hist, Parties
  <1>12. CASE UNCHANGED vars
    BY <1>12 DEF TypeOK, vars, members, kernel, hist
  <1>13. QED
    BY <1>1, <1>2, <1>3, <1>4, <1>5, <1>6, <1>7, <1>8, <1>9, <1>10, <1>11, <1>12
    DEF Next

\* Every variable keeps its type, and without an object no member holds a
\* descriptor.
THEOREM TypeCorrect == Spec => []TypeOK
  BY InitTypeOK, NextTypeOK, PTL DEF Spec

-----------------------------------------------------------------------------
(* What INIT holds, and nothing forgotten.                                 *)

LEMMA InitInitHoldsNothing == Init => InitHoldsNothing
  BY DEF Init, InitHoldsNothing

\* Whatever ends without an assignment, and the end of the process, keeps it.
LEMMA NextInitHoldsNothing ==
    TypeOK /\ InitHoldsNothing /\ [Next]_vars => InitHoldsNothing'
  <1> SUFFICES ASSUME TypeOK, InitHoldsNothing, [Next]_vars, fsmState' = INIT,
                      past' # "halfBound"
               PROVE  fd' = NO_FD
    BY DEF InitHoldsNothing
  <1> USE DEF InitHoldsNothing, INIT, BOUND, LISTENING, ACCEPTING, CLOSED
  <1>1. CASE Construct
    BY <1>1 DEF Construct
  <1>2. ASSUME NEW a \in Addrs, ConstructListening(a) PROVE fd' = NO_FD
    BY <1>2
    DEF ConstructListening, FailsUnchanged, UnwindingThrows, Terminates, members, hist
  <1>3. CASE Destroy
    BY <1>3 DEF Destroy, Terminates
  <1>4. ASSUME NEW a \in Addrs, Bind(a) PROVE fd' = NO_FD
    BY <1>4
    DEF Bind, MoveThrows, Rejects, FailsUnchanged, UnwindingThrows, Terminates,
        members, hist
  <1>5. CASE Listen
    BY <1>5 DEF Listen, Rejects, FailsUnchanged, members, hist
  <1>6. CASE Accept
    BY <1>6 DEF Accept, Rejects, FailsUnchanged, members, hist
  <1>7. CASE Close
    BY <1>7 DEF Close, Rejects, members, hist
  <1>8. CASE Reset
    BY <1>8 DEF Reset, members
  <1>9. ASSUME NEW v \in BOOLEAN, SetNonBlockIO(v) PROVE fd' = NO_FD
    BY <1>9 DEF SetNonBlockIO, FailsUnchanged, members, hist
  <1>10. ASSUME NEW f \in Fds, OtherOpen(f) \/ OtherClose(f) PROVE fd' = NO_FD
    BY <1>10 DEF OtherOpen, OtherClose, members, hist
  <1>11. CASE UNCHANGED vars
    BY <1>11 DEF vars, members, hist
  <1>12. QED
    BY <1>1, <1>2, <1>3, <1>4, <1>5, <1>6, <1>7, <1>8, <1>9, <1>10, <1>11 DEF Next

\* In state INIT the guard is empty, unless a bind() threw once its socket was
\* in the member.
THEOREM NothingHeldInInit == Spec => []InitHoldsNothing
  BY InitInitHoldsNothing, NextInitHoldsNothing, TypeCorrect, PTL DEF Spec

LEMMA InitNoLeak == Init => NoLeak
  BY DEF Init, NoLeak

LEMMA NextNoLeak ==
    TypeOK /\ NoLeak /\ [Next]_vars => NoLeak'
  <1> SUFFICES ASSUME TypeOK, NoLeak, [Next]_vars,
                      NEW x \in Fds, owner'[x] = Self
               PROVE  fd' = x
    BY DEF NoLeak
  <1>t. /\ owner \in [Fds -> Parties]
        /\ sock \in [Fds -> Sockets] /\ nonBlockingIo \in BOOLEAN
        /\ fd \in Fds \cup {NO_FD}
        /\ obj # "alive" => fd = NO_FD
    BY DEF TypeOK, Parties, Sockets
  <1>held. owner[x] = Self => fd = x
    BY DEF NoLeak
  <1>v. Vacated(owner, fd)[x] # Self
    BY <1>t, <1>held, VacatedEntries
  <1>e. ~Terminates("construct") /\ ~Terminates("destroy") /\ ~Terminates("bind")
    BY DEF Terminates
  <1>1. CASE Construct
    BY <1>1, <1>t, <1>held DEF Construct, kernel
  <1>2. ASSUME NEW a \in Addrs, ConstructListening(a) PROVE fd' = x
    BY <1>2, <1>t, <1>held, <1>e
    DEF ConstructListening, FailsUnchanged, UnwindingThrows, members, kernel, FreeFds
  <1>3. CASE Destroy
    BY <1>3, <1>v, <1>e DEF Destroy
  <1>4. ASSUME NEW a \in Addrs, Bind(a) PROVE fd' = x
    <2>1. CASE Rejects("bind") \/ FailsUnchanged("bind")
      BY <2>1, <1>held DEF Rejects, FailsUnchanged, members, kernel
    <2>2. CASE MoveThrows
      BY <2>2, <1>v DEF MoveThrows
    <2>3. ASSUME NEW f \in FreeFds, MovedIn(a, f) PROVE fd' = x
      <3>1. fd' = f
        BY <2>3 DEF MovedIn
      <3>2. x # fd => owner[x] # Self
        BY <1>held
      <3>3. x # fd /\ x # f => owner'[x] = owner[x]
        BY <2>3, <1>t, MovedInOwner
      <3>4. x = fd => owner'[x] = Nobody
        BY <2>3, <1>t, MovedInOwner
      <3>5. QED
        BY <3>1, <3>2, <3>3, <3>4
    <2>4. QED
      BY <1>4, <1>e, <2>1, <2>2, <2>3 DEF Bind, UnwindingThrows
  <1>5. CASE Listen
    BY <1>5, <1>held DEF Listen, Rejects, FailsUnchanged, members, kernel
  <1>6. CASE Accept
    BY <1>6, <1>t, <1>held
    DEF Accept, Rejects, FailsUnchanged, members, kernel, FreeFds
  <1>7. CASE Close
    BY <1>7, <1>v, <1>held DEF Close, Rejects, members, kernel
  <1>8. CASE Reset
    BY <1>8, <1>v DEF Reset
  <1>9. ASSUME NEW v \in BOOLEAN, SetNonBlockIO(v) PROVE fd' = x
    BY <1>9, <1>held DEF SetNonBlockIO, FailsUnchanged, members, kernel
  <1>10. ASSUME NEW f \in Fds, OtherOpen(f) PROVE fd' = x
    BY <1>10, <1>t, <1>held DEF OtherOpen, members
  <1>11. ASSUME NEW f \in Fds, OtherClose(f) PROVE fd' = x
    BY <1>11, <1>t, <1>held, VacatedEntries DEF OtherClose, members
  <1>12. CASE UNCHANGED vars
    BY <1>12, <1>held DEF vars, members, kernel
  <1>13. QED
    BY <1>1, <1>2, <1>3, <1>4, <1>5, <1>6, <1>7, <1>8, <1>9, <1>10, <1>11, <1>12
    DEF Next

\* Every socket the object opened and did not close is the one its guard
\* holds, whatever system call fails on the way.
THEOREM NothingLeaks == Spec => []NoLeak
  BY InitNoLeak, NextNoLeak, TypeCorrect, PTL DEF Spec

-----------------------------------------------------------------------------
(* What the guard holds is open and the object's own.                      *)

LEMMA InitHeldIsOwned == Init => HeldIsOwned
  BY DEF Init, HeldIsOwned

\* Once ::close has reported an error on an open descriptor, that is not
\* forgotten.
LEMMA CloseErrStays == [Next]_vars /\ closeErred => closeErred'
  BY DEF Next, vars, hist, Construct, ConstructListening, Destroy, Bind, Listen,
         Accept, Close, Reset, SetNonBlockIO, OtherOpen, OtherClose, Rejects,
         FailsUnchanged, UnwindingThrows, Terminates, MoveThrows

LEMMA NextHeldIsOwned ==
    TypeOK /\ HeldIsOwned /\ [Next]_vars => HeldIsOwned'
  <1> SUFFICES ASSUME TypeOK, HeldIsOwned, [Next]_vars,
                      fd' # NO_FD, ~closeErred, ~closeErred'
               PROVE  owner'[fd'] = Self
    BY CloseErrStays DEF HeldIsOwned
  <1>t. /\ owner \in [Fds -> Parties]
        /\ sock \in [Fds -> Sockets] /\ nonBlockingIo \in BOOLEAN
        /\ fd \in Fds \cup {NO_FD}
        /\ obj # "alive" => fd = NO_FD
    BY DEF TypeOK, Parties, Sockets
  <1>held. fd # NO_FD => owner[fd] = Self
    BY DEF HeldIsOwned
  <1>1. CASE Construct
    BY <1>1 DEF Construct
  <1>2. ASSUME NEW a \in Addrs, ConstructListening(a) PROVE owner'[fd'] = Self
    BY <1>2, <1>t, <1>held
    DEF ConstructListening, FailsUnchanged, UnwindingThrows, Terminates,
        members, kernel, FreeFds
  <1>3. CASE Destroy
    BY <1>3 DEF Destroy, Terminates
  <1>4. ASSUME NEW a \in Addrs, Bind(a) PROVE owner'[fd'] = Self
    <2>1. CASE Rejects("bind") \/ FailsUnchanged("bind") \/ UnwindingThrows("bind")
      BY <2>1, <1>held
      DEF Rejects, FailsUnchanged, UnwindingThrows, Terminates, members, kernel
    <2>2. CASE MoveThrows
      BY <2>2, <1>t, <1>held DEF MoveThrows, CloseThrows, IsOpen, members
    <2>3. ASSUME NEW f \in FreeFds, MovedIn(a, f) PROVE owner'[fd'] = Self
      BY <2>3, <1>t, <1>held, MovedInOwner
    <2>4. QED
      BY <1>4, <2>1, <2>2, <2>3 DEF Bind
  <1>5. CASE Listen
    BY <1>5, <1>held DEF Listen, Rejects, FailsUnchanged, members, kernel
  <1>6. CASE Accept
    BY <1>6, <1>t, <1>held
    DEF Accept, Rejects, FailsUnchanged, members, kernel, FreeFds
  <1>7. CASE Close
    BY <1>7, <1>t, <1>held DEF Close, Rejects, CloseThrows, IsOpen, members, kernel
  <1>8. CASE Reset
    BY <1>8, <1>t, <1>held DEF Reset, CloseThrows, IsOpen, members
  <1>9. ASSUME NEW v \in BOOLEAN, SetNonBlockIO(v) PROVE owner'[fd'] = Self
    BY <1>9, <1>held DEF SetNonBlockIO, FailsUnchanged, members, kernel
  <1>10. ASSUME NEW f \in Fds, OtherOpen(f) PROVE owner'[fd'] = Self
    BY <1>10, <1>t, <1>held DEF OtherOpen, FreeFds, members
  <1>11. ASSUME NEW f \in Fds, OtherClose(f) PROVE owner'[fd'] = Self
    BY <1>11, <1>t, <1>held, VacatedEntries DEF OtherClose, members
  <1>12. CASE UNCHANGED vars
    BY <1>12, <1>held DEF vars, members, kernel
  <1>13. QED
    BY <1>1, <1>2, <1>3, <1>4, <1>5, <1>6, <1>7, <1>8, <1>9, <1>10, <1>11, <1>12
    DEF Next

\* As long as no ::close reports an error, the number the guard holds is open
\* and the object's own.
THEOREM HeldNumberIsOwned == Spec => []HeldIsOwned
  BY InitHeldIsOwned, NextHeldIsOwned, TypeCorrect, PTL DEF Spec

-----------------------------------------------------------------------------
(* The members and the kernel.                                             *)

\* What the members say of the socket in the guard, in one formula.
Agrees == StateMatchesKernel /\ FlagMatchesKernel

LEMMA InitAgrees == Init => Agrees
  BY DEF Init, Agrees, StateMatchesKernel, FlagMatchesKernel, OwnsSocket

\* No step of somebody else, and no call that ends without an assignment,
\* touches the socket behind the guard.
LEMMA AgreesKept ==
    ASSUME Agrees, UNCHANGED <<members, past>>, OwnsSocket' => OwnsSocket,
           OwnsSocket' => sock'[fd] = sock[fd]
    PROVE  Agrees'
  BY DEF Agrees, StateMatchesKernel, FlagMatchesKernel, OwnsSocket, members,
         IsListening

LEMMA NextAgrees == TypeOK /\ Agrees /\ [Next]_vars => Agrees'
  <1> SUFFICES ASSUME TypeOK, Agrees, [Next]_vars PROVE Agrees'
    OBVIOUS
  <1>t. /\ owner \in [Fds -> Parties]
        /\ sock \in [Fds -> Sockets]
        /\ fd \in Fds \cup {NO_FD}
        /\ obj # "alive" => fd = NO_FD
        /\ NO_FD \notin Fds
        /\ nonBlockingIo \in BOOLEAN
    BY DEF TypeOK, Parties, Sockets
  <1>e. ASSUME fd' = NO_FD PROVE Agrees'
    BY <1>e DEF Agrees, StateMatchesKernel, FlagMatchesKernel, OwnsSocket
  <1>u. ASSUME UNCHANGED members, UNCHANGED kernel, UNCHANGED hist PROVE Agrees'
    BY <1>u, AgreesKept DEF OwnsSocket, members, kernel, hist
  <1>1. CASE Construct
    BY <1>1, <1>e DEF Construct
  <1>2. ASSUME NEW a \in Addrs, ConstructListening(a) PROVE Agrees'
    <2>1. CASE FailsUnchanged("construct") \/ UnwindingThrows("construct")
      BY <2>1, <1>u, <1>e DEF FailsUnchanged, UnwindingThrows, Terminates
    <2>2. CASE ~(FailsUnchanged("construct") \/ UnwindingThrows("construct"))
      <3>1. /\ fd' \in Fds /\ socketAddr' = a /\ nonBlockingIo' = FALSE
            /\ fsmState' = LISTENING
            /\ sock'[fd'] = [addr |-> a, listening |-> TRUE, nonblock |-> FALSE]
        BY <1>2, <2>2, <1>t DEF ConstructListening, FreeFds
      <3>2. /\ sock'[fd'].addr = a /\ sock'[fd'].listening
            /\ sock'[fd'].nonblock = FALSE
        BY <3>1
      <3>3. IsListening' /\ fsmState' \in {BOUND, LISTENING, ACCEPTING}
        BY <3>1 DEF IsListening, BOUND, LISTENING, ACCEPTING, CLOSED
      <3>4. QED
        BY <3>1, <3>2, <3>3, Zenon DEF Agrees, StateMatchesKernel, FlagMatchesKernel
    <2>3. QED
      BY <2>1, <2>2
  <1>3. CASE Destroy
    BY <1>3, <1>e DEF Destroy, Terminates
  <1>4. ASSUME NEW a \in Addrs, Bind(a) PROVE Agrees'
    <2>1. CASE Rejects("bind") \/ FailsUnchanged("bind") \/ UnwindingThrows("bind")
      BY <2>1, <1>u, <1>e DEF Rejects, FailsUnchanged, UnwindingThrows, Terminates
    <2>2. CASE MoveThrows
      <3>1. ~OwnsSocket'
        BY <2>2, <1>t, VacatedEntries DEF MoveThrows, OwnsSocket, members
      <3>2. QED
        BY <2>2, <3>1, AgreesKept DEF MoveThrows
    <2>3. ASSUME NEW f \in FreeFds, MovedIn(a, f), UNCHANGED nonBlockingIo,
                 bindCheck,
                 \/ socketAddr' = a /\ fsmState' = BOUND
                 \/ past' = "halfBound" /\ UNCHANGED fsmState
          PROVE  Agrees'
      <3>0. fd' = f
        BY <2>3 DEF MovedIn
      <3>1. /\ sock'[fd'].addr = a /\ sock'[fd'].listening = FALSE
            /\ sock'[fd'].nonblock = nonBlockingIo'
        BY <2>3, <3>0, <1>t, MovedInSocket
      <3>2. ~IsListening'
        BY <2>3 DEF IsListening, bindCheck, INIT, BOUND, LISTENING, CLOSED
      <3>3. \/ fsmState' \in {BOUND, LISTENING, ACCEPTING} /\ socketAddr' = a
            \/ fsmState' = INIT /\ past' = "halfBound"
        BY <2>3 DEF bindCheck
      <3>4. QED
        BY <3>1, <3>2, <3>3 DEF Agrees, StateMatchesKernel, FlagMatchesKernel
    <2>4. QED
      BY <1>4, <2>1, <2>2, <2>3 DEF Bind
  <1>5. CASE Listen
    <2>1. CASE Rejects("listen") \/ FailsUnchanged("listen")
      BY <2>1, <1>u DEF Rejects, FailsUnchanged
    <2>2. CASE ~(Rejects("listen") \/ FailsUnchanged("listen"))
      <3>1. /\ fd \in Fds /\ UNCHANGED <<fd, nonBlockingIo, socketAddr, owner>>
            /\ fsmState' = LISTENING
            /\ sock'[fd] = [sock[fd] EXCEPT !.listening = TRUE]
        BY <1>5, <2>2, <1>t DEF Listen, IsOpen
      <3>i. fsmState # INIT
        BY <1>5, <2>2 DEF Listen, listenCheck, INIT, BOUND
      <3>2. /\ sock'[fd].addr = sock[fd].addr
            /\ sock'[fd].nonblock = sock[fd].nonblock
            /\ sock'[fd].listening = TRUE
        BY <3>1, <1>t DEF Sockets
      <3>3. QED
        BY <3>1, <3>i, <3>2
        DEF Agrees, StateMatchesKernel, FlagMatchesKernel, OwnsSocket,
            IsListening, BOUND, LISTENING, ACCEPTING, CLOSED
    <2>3. QED
      BY <2>1, <2>2
  <1>6. CASE Accept
    <2>1. CASE Rejects("accept") \/ FailsUnchanged("accept")
      BY <2>1, <1>u DEF Rejects, FailsUnchanged
    <2>2. CASE ~(Rejects("accept") \/ FailsUnchanged("accept"))
      <3>1. /\ UNCHANGED <<fd, nonBlockingIo, socketAddr>>
            /\ fd \in Fds
            /\ fsmState' = ACCEPTING /\ fsmState # INIT
            /\ sock[fd].listening
            /\ owner'[fd] = Self => owner[fd] = Self /\ sock'[fd] = sock[fd]
        BY <1>6, <2>2, <1>t
        DEF Accept, IsOpen, FreeFds, acceptCheck, INIT, LISTENING, ACCEPTING
      <3>2. QED
        BY <3>1
        DEF Agrees, StateMatchesKernel, FlagMatchesKernel, OwnsSocket,
            IsListening, BOUND, LISTENING, ACCEPTING, CLOSED
    <2>3. QED
      BY <2>1, <2>2
  <1>7. CASE Close
    <2>1. CASE UNCHANGED <<members, past>> /\ owner' = Vacated(owner, fd)
      <3>1. ~OwnsSocket'
        BY <2>1, <1>t, VacatedEntries DEF OwnsSocket, members
      <3>2. QED
        BY <2>1, <3>1, AgreesKept
    <2>2. QED
      BY <1>7, <2>1, <1>u, <1>e DEF Close, Rejects
  <1>8. CASE Reset
    <2>1. CASE UNCHANGED <<members, past>>
      <3>1. ~OwnsSocket'
        BY <1>8, <2>1, <1>t, VacatedEntries DEF Reset, OwnsSocket, members
      <3>2. QED
        BY <2>1, <3>1, AgreesKept
    <2>2. QED
      BY <1>8, <2>1, <1>e DEF Reset
  <1>9. ASSUME NEW v \in BOOLEAN, SetNonBlockIO(v) PROVE Agrees'
    <2>1. CASE /\ IsOpen(fd)
               /\ sock' = [sock EXCEPT ![fd].nonblock = v]
               /\ nonBlockingIo' = v
               /\ UNCHANGED <<obj, fsmState, fd, socketAddr, owner, hist>>
      <3>1. /\ sock'[fd].addr = sock[fd].addr
            /\ sock'[fd].listening = sock[fd].listening
            /\ sock'[fd].nonblock = v
        BY <2>1, <1>t DEF IsOpen, Sockets
      <3>2. QED
        BY <2>1, <3>1
        DEF Agrees, StateMatchesKernel, FlagMatchesKernel, OwnsSocket, IsListening, hist
    <2>2. QED
      BY <1>9, <2>1, <1>u, <1>e DEF SetNonBlockIO, FailsUnchanged
  <1>10. ASSUME NEW f \in Fds, OtherOpen(f) PROVE Agrees'
    BY <1>10, <1>t, AgreesKept DEF OtherOpen, OwnsSocket, members, hist
  <1>11. ASSUME NEW f \in Fds, OtherClose(f) PROVE Agrees'
    BY <1>11, <1>t, VacatedEntries, AgreesKept DEF OtherClose, OwnsSocket, members, hist
  <1>12. CASE UNCHANGED vars
    BY <1>12, <1>u DEF vars
  <1>13. QED
    BY <1>1, <1>2, <1>3, <1>4, <1>5, <1>6, <1>7, <1>8, <1>9, <1>10, <1>11, <1>12
    DEF Next

\* While the object owns a socket, its state and the address it reports are
\* those of that socket.
THEOREM StateIsTheKernels == Spec => []StateMatchesKernel
  <1>1. Agrees => StateMatchesKernel
    BY DEF Agrees
  <1>2. QED
    BY <1>1, InitAgrees, NextAgrees, TypeCorrect, PTL DEF Spec

\* And the flag it reports is the O_NONBLOCK flag of that socket.
THEOREM FlagIsTheKernels == Spec => []FlagMatchesKernel
  <1>1. Agrees => FlagMatchesKernel
    BY DEF Agrees
  <1>2. QED
    BY <1>1, InitAgrees, NextAgrees, TypeCorrect, PTL DEF Spec

-----------------------------------------------------------------------------
(* The states that promise a socket.                                       *)

LEMMA InitLiveHoldsSocket == Init => LiveHoldsSocket
  BY DEF Init, LiveHoldsSocket

LEMMA NextLiveHoldsSocket ==
    TypeOK /\ LiveHoldsSocket /\ [Next]_vars => LiveHoldsSocket'
  <1> SUFFICES ASSUME TypeOK, LiveHoldsSocket, [Next]_vars,
                      obj' = "alive", past' # "fresh",
                      fsmState' \in {BOUND, LISTENING, ACCEPTING}
               PROVE  fd' # NO_FD
    BY DEF LiveHoldsSocket
  <1>live. obj = "alive" /\ past # "fresh" /\ fsmState \in {BOUND, LISTENING, ACCEPTING}
             => fd # NO_FD
    BY DEF LiveHoldsSocket
  <1>f. NO_FD \notin Fds
    OBVIOUS
  <1>1. CASE Construct
    BY <1>1 DEF Construct
  <1>2. ASSUME NEW a \in Addrs, ConstructListening(a) PROVE fd' # NO_FD
    BY <1>2, <1>live, <1>f
    DEF ConstructListening, FailsUnchanged, UnwindingThrows, Terminates,
        members, hist, FreeFds
  <1>3. CASE Destroy
    BY <1>3 DEF Destroy, Terminates
  <1>4. ASSUME NEW a \in Addrs, Bind(a) PROVE fd' # NO_FD
    BY <1>4, <1>live, <1>f
    DEF Bind, MovedIn, MoveThrows, bindCheck, Rejects, FailsUnchanged,
        UnwindingThrows, Terminates, members, hist, FreeFds, INIT, BOUND,
        LISTENING, ACCEPTING
  <1>5. CASE Listen
    BY <1>5, <1>live, <1>f DEF Listen, Rejects, FailsUnchanged, IsOpen, members, hist
  <1>6. CASE Accept
    BY <1>6, <1>live, <1>f DEF Accept, Rejects, FailsUnchanged, IsOpen, members, hist
  <1>7. CASE Close
    BY <1>7, <1>live
    DEF Close, Rejects, members, hist, BOUND, LISTENING, ACCEPTING, CLOSED
  <1>8. CASE Reset
    BY <1>8, <1>live DEF Reset, members, INIT, BOUND, LISTENING, ACCEPTING
  <1>9. ASSUME NEW v \in BOOLEAN, SetNonBlockIO(v) PROVE fd' # NO_FD
    BY <1>9, <1>live DEF SetNonBlockIO, FailsUnchanged, members, hist
  <1>10. ASSUME NEW f \in Fds, OtherOpen(f) \/ OtherClose(f) PROVE fd' # NO_FD
    BY <1>10, <1>live DEF OtherOpen, OtherClose, members, hist
  <1>11. CASE UNCHANGED vars
    BY <1>11, <1>live DEF vars, members, hist
  <1>12. QED
    BY <1>1, <1>2, <1>3, <1>4, <1>5, <1>6, <1>7, <1>8, <1>9, <1>10, <1>11 DEF Next

\* Once the uninitialised state has been overwritten, a server that says it is
\* bound or listening has a socket.
THEOREM LiveStatesHoldASocket == Spec => []LiveHoldsSocket
  BY InitLiveHoldsSocket, NextLiveHoldsSocket, TypeCorrect, PTL DEF Spec

\* The two together: the state tells whether the server's guard is empty.
THEOREM StateTellsWhatIsHeld == Spec => []HeldAsStateSays
  <1>1. InitHoldsNothing /\ LiveHoldsSocket => HeldAsStateSays
    BY DEF HeldAsStateSays
  <1>2. QED
    BY <1>1, NothingHeldInInit, LiveStatesHoldASocket, PTL

-----------------------------------------------------------------------------
(* What a call may never do.                                               *)

\* A call that throws: no member moves, and the table only if ::close failed
\* on an open descriptor, because closing any other number does nothing.
LEMMA StepThrowKeepsState ==
    ASSUME TypeOK, HeldIsOwned, [Next]_vars, last'.out # "returns",
           obj' # "terminated"
    PROVE  /\ UNCHANGED <<fsmState, nonBlockingIo, socketAddr>>
           /\ \/ UNCHANGED fd /\ (closeErred' \/ UNCHANGED kernel)
              \/ /\ last'.call = "bind" /\ past' = "halfBound"
                 /\ owner'[fd'] = Self \/ closeErred
  <1>t. /\ owner \in [Fds -> Parties]
        /\ sock \in [Fds -> Sockets] /\ nonBlockingIo \in BOOLEAN
        /\ fd \in Fds \cup {NO_FD}
    BY DEF TypeOK, Parties, Sockets
  <1> DEFINE Kept == UNCHANGED members /\ (closeErred' \/ UNCHANGED kernel)
             Goal == /\ UNCHANGED <<fsmState, nonBlockingIo, socketAddr>>
                     /\ \/ UNCHANGED fd /\ (closeErred' \/ UNCHANGED kernel)
                        \/ /\ last'.call = "bind" /\ past' = "halfBound"
                           /\ owner'[fd'] = Self \/ closeErred
  <1>k. ASSUME Kept PROVE Goal
    BY <1>k DEF members
  <1>r. ASSUME NEW c, Returns(c) PROVE FALSE
    BY <1>r DEF Returns
  <1>e. ASSUME NEW c, Terminates(c) PROVE FALSE
    BY <1>e DEF Terminates
  <1>u. ASSUME NEW c, FailsUnchanged(c) \/ Rejects(c)
        PROVE  UNCHANGED members /\ UNCHANGED kernel
    BY <1>u DEF FailsUnchanged, Rejects
  <1>c. ASSUME owner' = Vacated(owner, fd), closeErred' = (closeErred \/ IsOpen(fd)),
               UNCHANGED sock
        PROVE  closeErred' \/ UNCHANGED kernel
    <2>1. CASE IsOpen(fd)
      BY <1>c, <2>1
    <2>2. CASE ~IsOpen(fd)
      BY <1>c, <2>2, <1>t, VacatedUnowned DEF IsOpen, kernel
    <2>3. QED
      BY <2>1, <2>2
  <1>1. ASSUME Construct PROVE Kept
    BY <1>1, <1>r DEF Construct
  <1>2. ASSUME NEW a \in Addrs, ConstructListening(a)
        PROVE  Kept
    BY <1>2, <1>r, <1>e, <1>u DEF ConstructListening, UnwindingThrows
  <1>3. ASSUME Destroy PROVE Kept
    BY <1>3, <1>r, <1>e DEF Destroy
  <1>4. ASSUME NEW a \in Addrs, Bind(a)
        PROVE  Goal
    <2>1. CASE Rejects("bind") \/ FailsUnchanged("bind")
      BY <2>1, <1>u, <1>k
    <2>2. CASE MoveThrows
      BY <2>2, <1>c, <1>k DEF MoveThrows
    <2>3. ASSUME NEW f \in FreeFds, MovedIn(a, f), past' = "halfBound",
                 Fails("bind"), UNCHANGED <<fsmState, socketAddr, nonBlockingIo>>
          PROVE  Goal
      <3>1. last'.call = "bind"
        BY <2>3 DEF Fails
      <3>2. fd' = f /\ (f # fd => owner'[f] = Self) /\ owner[f] = Nobody /\ f \in Fds
        BY <2>3, <1>t, MovedInOwner
      <3>3. f = fd => closeErred
        BY <3>2 DEF HeldIsOwned
      <3>4. QED
        BY <2>3, <3>1, <3>2, <3>3
    <2>4. QED
      BY <1>4, <1>r, <1>e, <2>1, <2>2, <2>3 DEF Bind, UnwindingThrows
  <1>5. ASSUME Listen PROVE Kept
    BY <1>5, <1>r, <1>u DEF Listen
  <1>6. ASSUME Accept PROVE Kept
    BY <1>6, <1>r, <1>u DEF Accept
  <1>7. ASSUME Close PROVE Kept
    BY <1>7, <1>r, <1>u, <1>c DEF Close
  <1>8. ASSUME Reset PROVE Kept
    BY <1>8, <1>r, <1>c DEF Reset
  <1>9. ASSUME NEW v \in BOOLEAN, SetNonBlockIO(v)
        PROVE  Kept
    BY <1>9, <1>r, <1>u DEF SetNonBlockIO
  <1>10. ASSUME NEW f \in Fds, OtherOpen(f) \/ OtherClose(f) PROVE FALSE
    BY <1>10 DEF OtherOpen, OtherClose
  <1>11. ASSUME UNCHANGED vars PROVE Kept
    BY <1>11 DEF vars, members, kernel
  <1>12. QED
    BY <1>k, <1>1, <1>2, <1>3, <1>4, <1>5, <1>6, <1>7, <1>8, <1>9, <1>10, <1>11 DEF Next

\* What an exception leaves behind: state, flag and address as they were; a
\* changed guard only after a bind() whose socket was in the member, and then it
\* is the object's; a changed kernel otherwise only by a failed ::close.
THEOREM ThrowsKeepState == Spec => ThrowKeepsState
  <1>1. TypeOK /\ HeldIsOwned /\ [Next]_vars =>
          [last'.out # "returns" /\ obj' # "terminated" =>
             /\ UNCHANGED <<fsmState, nonBlockingIo, socketAddr>>
             /\ \/ UNCHANGED fd /\ (closeErred' \/ UNCHANGED kernel)
                \/ /\ last'.call = "bind" /\ past' = "halfBound"
                   /\ owner'[fd'] = Self \/ closeErred]_vars
    BY StepThrowKeepsState
  <1>2. QED
    BY <1>1, TypeCorrect, HeldNumberIsOwned, PTL DEF Spec, ThrowKeepsState

\* What a call does to the table is confined to its own entries: the number it
\* closes is the object's, and the number it opens was free.
LEMMA StepOthersUntouched ==
    ASSUME TypeOK, HeldIsOwned, [Next]_vars, ~closeErred, last'.call # "other",
           obj' # "terminated", NEW x \in Fds, owner[x] = Other
    PROVE  owner'[x] = Other /\ sock'[x] = sock[x]
  <1>t. /\ owner \in [Fds -> Parties]
        /\ sock \in [Fds -> Sockets] /\ nonBlockingIo \in BOOLEAN
        /\ fd \in Fds \cup {NO_FD}
        /\ obj # "alive" => fd = NO_FD
    BY DEF TypeOK, Parties, Sockets
  <1>n. fd # x
    BY <1>t DEF HeldIsOwned
  <1>v. Vacated(owner, fd) \in [Fds -> Parties] /\ Vacated(owner, fd)[x] = Other
    BY <1>t, <1>n, VacatedEntries
  <1>e. ASSUME NEW c, Terminates(c) PROVE FALSE
    BY <1>e DEF Terminates
  <1>u. ASSUME NEW c, FailsUnchanged(c) \/ Rejects(c)
        PROVE  UNCHANGED <<owner, sock>>
    BY <1>u DEF FailsUnchanged, Rejects, kernel
  <1> DEFINE Goal == owner'[x] = Other /\ sock'[x] = sock[x]
  <1>k. ASSUME UNCHANGED <<owner, sock>> PROVE Goal
    BY <1>k
  <1>1. CASE Construct
    BY <1>1, <1>k DEF Construct, kernel
  <1>2. ASSUME NEW a \in Addrs, ConstructListening(a) PROVE Goal
    BY <1>2, <1>t, <1>e, <1>u, <1>k DEF ConstructListening, UnwindingThrows, FreeFds
  <1>3. CASE Destroy
    BY <1>3, <1>v, <1>e DEF Destroy
  <1>4. ASSUME NEW a \in Addrs, Bind(a) PROVE Goal
    <2>1. CASE MoveThrows
      BY <2>1, <1>v DEF MoveThrows
    <2>2. ASSUME NEW f \in FreeFds, MovedIn(a, f) PROVE Goal
      <3>1. f # x
        BY DEF FreeFds
      <3>2. owner'[x] = Other
        BY <2>2, <1>t, <1>n, <3>1, MovedInOwner
      <3>3. sock'[x] = sock[x]
        <4>1. sock' = [sock EXCEPT ![f] =
                [addr |-> a, listening |-> FALSE, nonblock |-> nonBlockingIo]]
          BY <2>2 DEF MovedIn
        <4>2. QED
          BY <4>1, <1>t, <3>1
      <3>4. QED
        BY <3>2, <3>3
    <2>3. QED
      BY <1>4, <1>e, <1>u, <1>k, <2>1, <2>2 DEF Bind, UnwindingThrows
  <1>5. CASE Listen
    BY <1>5, <1>t, <1>n, <1>u, <1>k DEF Listen
  <1>6. CASE Accept
    BY <1>6, <1>t, <1>u, <1>k DEF Accept, FreeFds
  <1>7. CASE Close
    BY <1>7, <1>v, <1>u, <1>k DEF Close
  <1>8. CASE Reset
    BY <1>8, <1>v DEF Reset
  <1>9. ASSUME NEW v \in BOOLEAN, SetNonBlockIO(v) PROVE Goal
    BY <1>9, <1>t, <1>n, <1>u, <1>k DEF SetNonBlockIO, kernel
  <1>10. ASSUME NEW f \in Fds, OtherOpen(f) \/ OtherClose(f) PROVE FALSE
    BY <1>10 DEF OtherOpen, OtherClose
  <1>11. CASE UNCHANGED vars
    BY <1>11, <1>k DEF vars, kernel
  <1>12. QED
    BY <1>1, <1>2, <1>3, <1>4, <1>5, <1>6, <1>7, <1>8, <1>9, <1>10, <1>11 DEF Next

\* As long as no ::close has reported an error, no call on the server closes,
\* takes or alters a descriptor of anybody else: an accepted connection
\* outlives its server.
THEOREM OthersAreLeftAlone == Spec => OthersUntouched
  <1>1. TypeOK /\ HeldIsOwned /\ [Next]_vars =>
          [last'.call # "other" /\ obj' # "terminated" /\ ~closeErred =>
             \A f \in Fds : owner[f] = Other =>
               owner'[f] = Other /\ sock'[f] = sock[f]]_vars
    BY StepOthersUntouched
  <1>2. QED
    BY <1>1, TypeCorrect, HeldNumberIsOwned, PTL DEF Spec, OthersUntouched
=============================================================================
