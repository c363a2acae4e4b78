----------------------- MODULE StreamSocketFsm_proofs -----------------------
(***************************************************************************)
(* Proofs about StreamSocketFsm for every set of descriptor numbers and    *)
(* every set of hosts: its types, what the object holds, that its state    *)
(* says which halves of the connection are open, and the action            *)
(* properties.                                                             *)
(***************************************************************************)
EXTENDS StreamSocketFsm, TLAPS

USE DescriptorsAssumption, StreamAssumption
    DEF NO_FD, Nobody, Self, Other

Parties == {Nobody, Self, Other}

Hosts == Addrs \cup {DefaultAddr}

Connections == [peer : Hosts, rd : BOOLEAN, wr : BOOLEAN,
                link : {"up", "eof", "broken"}, nonblock : BOOLEAN]

Endings == [call : Calls, out : {"returns", "rejects", "fails", "eof", "killed"}]

-----------------------------------------------------------------------------
(* The descriptor table and the kernel's connections.                      *)

\* Closing f frees f and leaves every other entry alone (closeFd).
LEMMA VacatedEntries ==
    ASSUME NEW table \in [Fds -> Parties], NEW f
    PROVE  /\ Vacated(table, f) \in [Fds -> Parties]
           /\ \A x \in Fds :
                Vacated(table, f)[x] = IF x = f THEN Nobody ELSE table[x]
  BY DEF Vacated, Parties

\* Closing what is not open changes nothing.
LEMMA VacatedUnowned ==
    ASSUME NEW table \in [Fds -> Parties], NEW f, f \in Fds => table[f] = Nobody
    PROVE  Vacated(table, f) = table
  BY DEF Vacated, Parties

LEMMA ConnectionType ==
    ASSUME NEW a \in Hosts, NEW nb \in BOOLEAN
    PROVE  Connection(a, nb) \in Connections
  BY DEF Connection, Connections

\* A new connection: both halves are open and the peer is the host asked for.
LEMMA ConnectionParts ==
    ASSUME NEW a, NEW nb
    PROVE  /\ Connection(a, nb).peer = a
           /\ Connection(a, nb).rd
           /\ Connection(a, nb).wr
  BY DEF Connection

\* The entry of a closed number is empty, the others stay.
LEMMA ClearedEntries ==
    ASSUME sock \in [Fds -> Connections], NEW f
    PROVE  /\ Cleared(f) \in [Fds -> Connections]
           /\ \A x \in Fds :
                Cleared(f)[x] = IF x = f THEN NoConnection ELSE sock[x]
  <1>1. NoConnection \in Connections
    BY ConnectionType DEF NoConnection, Hosts
  <1>2. QED
    BY <1>1 DEF Cleared

\* What a connect that succeeds does to both tables.
LEMMA AttachedEntries ==
    ASSUME sock \in [Fds -> Connections], owner \in [Fds -> Parties],
           nonBlock \in BOOLEAN, NEW f, NEW a \in Hosts, Attached(f, a)
    PROVE  /\ f \in Fds /\ fd' = f
           /\ owner' \in [Fds -> Parties] /\ sock' \in [Fds -> Connections]
           /\ owner'[f] = Self /\ sock'[f] = Connection(a, nonBlock)
           /\ f = fd \/ owner[f] = Nobody
           /\ \A x \in Fds : x # f =>
                /\ owner'[x] = IF x = fd THEN Nobody ELSE owner[x]
                /\ sock'[x] = IF x = fd THEN NoConnection ELSE sock[x]
  <1>1. /\ Vacated(owner, fd) \in [Fds -> Parties]
        /\ Cleared(fd) \in [Fds -> Connections]
    BY VacatedEntries, ClearedEntries
  <1>2. Connection(a, nonBlock) \in Connections
    BY ConnectionType
  <1>3. f \in Fds /\ fd' = f /\ (f = fd \/ owner[f] = Nobody)
    BY VacatedEntries DEF Attached
  <1>4. owner' \in [Fds -> Parties] /\ sock' \in [Fds -> Connections]
    BY <1>1, <1>2, <1>3 DEF Attached, Parties
  <1>5. owner'[f] = Self /\ sock'[f] = Connection(a, nonBlock)
    BY <1>1, <1>3 DEF Attached
  <1>6. ASSUME NEW x \in Fds, x # f
        PROVE  /\ owner'[x] = IF x = fd THEN Nobody ELSE owner[x]
               /\ sock'[x] = IF x = fd THEN NoConnection ELSE sock[x]
    BY <1>1, <1>3, <1>6, VacatedEntries, ClearedEntries DEF Attached
  <1>7. QED
    BY <1>3, <1>4, <1>5, <1>6

-----------------------------------------------------------------------------
(* Types.                                                                  *)

LEMMA InitTypeOK == Init => TypeOK
  <1> SUFFICES ASSUME Init PROVE TypeOK
    OBVIOUS
  <1>1. owner \in [Fds -> {Nobody, Self, Other}]
    BY DEF Init
  <1>2. sock \in [Fds -> Connections]
    BY ConnectionType DEF Init, NoConnection, Hosts
  <1>3. last \in Endings
    BY DEF Init, Calls, Endings
  <1>4. fsmState \in States
    BY DEF Init, States, INIT, CLOSED
  <1>5. nonBlock \in BOOLEAN /\ asked \in BOOLEAN
    BY DEF Init, defaultNonBlock
  <1>6. QED
    BY <1>1, <1>2, <1>3, <1>4, <1>5 DEF Init, TypeOK, Connections, Hosts, Endings

\* The end of the process keeps every type.
LEMMA DiesTypeOK ==
    ASSUME TypeOK, NEW c \in Calls, NEW o \in {"fails", "killed"}, Dies(c, o)
    PROVE  TypeOK'
  <1>1. sock' \in [Fds -> Connections]
    BY ConnectionType DEF Dies, NoConnection, Hosts
  <1>2. QED
    BY <1>1 DEF Dies, Ends, TypeOK, hist, Connections, Hosts

\* A call that changes nothing but how it ended.
LEMMA UnchangedTypeOK ==
    ASSUME TypeOK, NEW c \in Calls,
           NEW o \in {"returns", "rejects", "fails", "eof"}, EndsUnchanged(c, o)
    PROVE  TypeOK'
  BY DEF EndsUnchanged, Ends, TypeOK, members, kernel, hist

\* close, and the two half-closes that end in it.
LEMMA CloseAllTypeOK ==
    ASSUME TypeOK, NEW c \in Calls, CloseAll(c)
    PROVE  TypeOK'
  <1>1. CASE Rejects(c)
    BY <1>1, UnchangedTypeOK DEF Rejects
  <1>2. CASE ~Rejects(c)
    <2>1. owner' = Vacated(owner, fd) /\ sock' = Cleared(fd)
      BY <1>2 DEF CloseAll, Closes
    <2>2. owner' \in [Fds -> Parties] /\ sock' \in [Fds -> Connections]
      BY <2>1, VacatedEntries, ClearedEntries
      DEF TypeOK, Parties, Connections, Hosts
    <2>3. CLOSED \in States
      BY DEF CLOSED, States, INIT
    <2>4. last' \in Endings
      BY <1>2 DEF CloseAll, Returns, Fails, Ends, Endings
    <2>5. QED
      BY <1>2, <2>2, <2>3, <2>4
      DEF CloseAll, TypeOK, members, hist, IsOpen, Parties, Connections, Hosts,
          Endings
  <1>3. QED
    BY <1>1, <1>2

LEMMA NextTypeOK == TypeOK /\ [Next]_vars => TypeOK'
  <1> SUFFICES ASSUME TypeOK, [Next]_vars PROVE TypeOK'
    OBVIOUS
  <1>t. owner \in [Fds -> Parties] /\ sock \in [Fds -> Connections]
    BY DEF TypeOK, Parties, Connections, Hosts
  <1>v. Vacated(owner, fd) \in [Fds -> Parties] /\ Cleared(fd) \in [Fds -> Connections]
    BY <1>t, VacatedEntries, ClearedEntries
  <1>s. {INIT, CONNECTED, UCLOSED, DCLOSED, CLOSED} \subseteq States
    BY DEF States, INIT, CONNECTED, UCLOSED, DCLOSED, CLOSED
  <1>c. /\ {"construct", "destroy", "connect", "reconnect", "send"} \subseteq Calls
        /\ {"receive", "uclose", "dclose", "close", "reset"} \subseteq Calls
        /\ {"setNonBlock", "peer", "other"} \subseteq Calls
    BY DEF Calls
  <1> USE DEF Returns, Fails, Ends
  <1>1. CASE Construct
    BY <1>1, <1>s, <1>c DEF TypeOK, Construct, kernel, defaultNonBlock
  <1>2. ASSUME NEW f \in Fds, ConstructAccepted(f) PROVE TypeOK'
    <2>1. owner' \in [Fds -> Parties] /\ sock[f].peer \in Hosts
      BY <1>2, <1>t DEF ConstructAccepted, Parties, Connections
    <2>2. QED
      BY <1>2, <2>1, <1>s, <1>c
      DEF TypeOK, ConstructAccepted, Parties, Hosts, defaultNonBlock
  <1>3. CASE Destroy
    <2>1. CASE Dies("destroy", "fails")
      BY <2>1, <1>c, DiesTypeOK
    <2>2. CASE ~Dies("destroy", "fails")
      BY <1>3, <2>2, <1>v, <1>c
      DEF TypeOK, Destroy, Closes, hist, Parties, Connections, Hosts
    <2>3. QED
      BY <2>1, <2>2
  <1>4. ASSUME NEW a \in Addrs, Connect(a) PROVE TypeOK'
    <2>1. CASE Rejects("connect") \/ EndsUnchanged("connect", "fails")
      BY <2>1, <1>c, UnchangedTypeOK DEF Rejects
    <2>2. CASE UnwindingThrows("connect")
      BY <2>2, <1>c, DiesTypeOK DEF UnwindingThrows
    <2>3. CASE ~(\/ Rejects("connect") \/ EndsUnchanged("connect", "fails")
                 \/ UnwindingThrows("connect"))
      <3>1. PICK f \in FreeFds : Attached(f, a)
        BY <1>4, <2>3 DEF Connect
      <3>2. /\ fd' \in Fds
            /\ owner' \in [Fds -> Parties] /\ sock' \in [Fds -> Connections]
        BY <3>1, <1>t, AttachedEntries DEF TypeOK, Hosts
      <3>3. QED
        BY <1>4, <2>3, <3>2, <1>s, <1>c
        DEF Connect, TypeOK, hist, Parties, Connections, Hosts
    <2>4. QED
      BY <2>1, <2>2, <2>3
  <1>5. CASE ReConnect
    <2>1. CASE Rejects("reconnect")
      BY <2>1, <1>c, UnchangedTypeOK DEF Rejects
    <2>2. CASE Dies("reconnect", "fails")
      BY <2>2, <1>c, DiesTypeOK
    <2>3. CASE ~(Rejects("reconnect") \/ Dies("reconnect", "fails"))
      <3>1. CASE \E f \in Fds : Attached(f, socketAddress)
        <4>1. /\ fd' \in Fds
              /\ owner' \in [Fds -> Parties] /\ sock' \in [Fds -> Connections]
          BY <3>1, <1>t, AttachedEntries DEF TypeOK, Hosts
        <4>2. /\ last' \in Endings /\ obj' = "alive" /\ obj = "alive"
              /\ fsmState' \in States
              /\ UNCHANGED <<nonBlock, socketAddress, asked>>
              /\ closeErred' = closeErred \/ closeErred' = (closeErred \/ IsOpen(fd))
          BY <1>5, <2>3, <1>s, <1>c DEF ReConnect, TypeOK, members, hist, Endings
        <4>3. closeErred' \in BOOLEAN
          BY <4>2 DEF TypeOK, IsOpen
        <4>4. QED
          BY <4>1, <4>2, <4>3 DEF TypeOK, Parties, Connections, Hosts, Endings
      <3>2. CASE ~\E f \in Fds : Attached(f, socketAddress)
        <4>1. /\ last' \in Endings /\ obj' = "alive" /\ obj = "alive"
              /\ fsmState' \in States
              /\ UNCHANGED <<nonBlock, socketAddress, asked>>
              /\ closeErred' = closeErred \/ closeErred' = (closeErred \/ IsOpen(fd))
              /\ fd' = fd \/ fd' = NO_FD
              /\ owner' = Vacated(owner, fd) /\ sock' = Cleared(fd)
          BY <1>5, <2>3, <3>2, <1>s, <1>c
          DEF ReConnect, TypeOK, members, hist, Endings, Closes
        <4>2. closeErred' \in BOOLEAN
          BY <4>1 DEF TypeOK, IsOpen
        <4>3. QED
          BY <4>1, <4>2, <1>v DEF TypeOK, Parties, Connections, Hosts, Endings
      <3>3. QED
        BY <3>1, <3>2
    <2>4. QED
      BY <2>1, <2>2, <2>3
  <1>6. ASSUME NEW noSignal \in BOOLEAN, Send(noSignal) PROVE TypeOK'
    BY <1>6, <1>c, UnchangedTypeOK, DiesTypeOK DEF Send, Rejects
  <1>7. ASSUME NEW n \in 0..1, Receive(n) PROVE TypeOK'
    BY <1>7, <1>c, UnchangedTypeOK DEF Receive, Rejects
  <1>8. CASE UClose
    <2>1. CASE Rejects("uclose") \/ EndsUnchanged("uclose", "fails")
      BY <2>1, <1>c, UnchangedTypeOK DEF Rejects
    <2>2. CASE CloseAll("uclose")
      BY <2>2, <1>c, CloseAllTypeOK
    <2>3. CASE sock' = [sock EXCEPT ![fd].wr = FALSE] /\ CanShutdown
      <3>1. sock' \in [Fds -> Connections]
        BY <2>3, <1>t DEF CanShutdown, IsOpen, Connections
      <3>2. QED
        BY <1>8, <2>3, <3>1, <1>s, <1>c, UnchangedTypeOK, CloseAllTypeOK
        DEF UClose, Rejects, TypeOK, hist, Connections, Hosts
    <2>4. QED
      BY <1>8, <2>1, <2>2, <2>3 DEF UClose
  <1>9. CASE DClose
    <2>1. CASE Rejects("dclose") \/ EndsUnchanged("dclose", "fails")
      BY <2>1, <1>c, UnchangedTypeOK DEF Rejects
    <2>2. CASE CloseAll("dclose")
      BY <2>2, <1>c, CloseAllTypeOK
    <2>3. CASE sock' = [sock EXCEPT ![fd].rd = FALSE] /\ CanShutdown
      <3>1. sock' \in [Fds -> Connections]
        BY <2>3, <1>t DEF CanShutdown, IsOpen, Connections
      <3>2. QED
        BY <1>9, <2>3, <3>1, <1>s, <1>c, UnchangedTypeOK, CloseAllTypeOK
        DEF DClose, Rejects, TypeOK, hist, Connections, Hosts
    <2>4. QED
      BY <1>9, <2>1, <2>2, <2>3 DEF DClose
  <1>10. CASE Close
    BY <1>10, <1>c, CloseAllTypeOK DEF Close
  <1>11. CASE Reset
    <2>1. /\ last' \in Endings /\ obj' = "alive" /\ obj = "alive"
          /\ fsmState' \in States
          /\ fd' = fd \/ fd' = NO_FD
          /\ nonBlock' = nonBlock \/ nonBlock' = FALSE
          /\ asked' = asked \/ asked' = FALSE
          /\ socketAddress' = socketAddress \/ socketAddress' = DefaultAddr
          /\ closeErred' = closeErred \/ closeErred' = (closeErred \/ IsOpen(fd))
          /\ owner' = Vacated(owner, fd) /\ sock' = Cleared(fd)
      BY <1>11, <1>s, <1>c
      DEF Reset, TypeOK, members, hist, defaultNonBlock, Endings, Closes
    <2>2. closeErred' \in BOOLEAN
      BY <2>1 DEF TypeOK, IsOpen
    <2>3. QED
      BY <2>1, <2>2, <1>v DEF TypeOK, Parties, Connections, Hosts, Endings
  <1>12. ASSUME NEW v \in BOOLEAN, SetNonBlock(v) PROVE TypeOK'
    <2>1. CASE EndsUnchanged("setNonBlock", "fails")
      BY <2>1, <1>c, UnchangedTypeOK
    <2>2. CASE ~EndsUnchanged("setNonBlock", "fails")
      <3>1. sock' \in [Fds -> Connections]
        BY <1>12, <2>2, <1>t DEF SetNonBlock, kernel, IsOpen, Connections
      <3>2. QED
        BY <1>12, <2>2, <3>1, <1>c
        DEF SetNonBlock, TypeOK, members, kernel, Connections, Hosts
    <2>3. QED
      BY <2>1, <2>2
  <1>13. ASSUME NEW f \in Fds, PeerFinishes(f) \/ PeerResets(f) PROVE TypeOK'
    <2>1. sock' \in [Fds -> Connections]
      BY <1>13, <1>t DEF PeerFinishes, PeerResets, Connections
    <2>2. QED
      BY <1>13, <2>1, <1>c
      DEF PeerFinishes, PeerResets, TypeOK, members, hist, Connections, Hosts
  <1>14. ASSUME NEW f \in Fds, OtherClose(f) PROVE TypeOK'
    <2>1. owner' \in [Fds -> Parties] /\ sock' \in [Fds -> Connections]
      BY <1>14, <1>t, VacatedEntries, ClearedEntries DEF OtherClose, Closes
    <2>2. QED
      BY <1>14, <2>1, <1>c
      DEF OtherClose, TypeOK, members, hist, Parties, Connections, Hosts
  <1>15. ASSUME NEW f \in Fds, NEW a \in Addrs, OtherOpen(f, a) PROVE TypeOK'
    <2>1. owner' \in [Fds -> Parties] /\ sock' \in [Fds -> Connections]
      BY <1>15, <1>t, ConnectionType DEF OtherOpen, Parties, Hosts
    <2>2. QED
      BY <1>15, <2>1, <1>c
      DEF OtherOpen, TypeOK, members, hist, Parties, Connections, Hosts
  <1>16. CASE UNCHANGED vars
    BY <1>16 DEF TypeOK, vars, members, kernel, hist
  <1>17. QED
    BY <1>1, <1>2, <1>3, <1>4, <1>5, <1>6, <1>7, <1>8, <1>9, <1>10, <1>11, <1>12,
       <1>13, <1>14, <1>15, <1>16
    DEF Next

\* Every variable keeps its type, and without an object no member holds a
\* descriptor.
THEOREM TypeCorrect == Spec => []TypeOK
  BY InitTypeOK, NextTypeOK, PTL DEF Spec

-----------------------------------------------------------------------------
(* Nothing to close in INIT, and nothing forgotten.                        *)

LEMMA InitInitHoldsNothing == Init => InitHoldsNothing
  BY DEF Init, InitHoldsNothing

LEMMA NextInitHoldsNothing ==
    TypeOK /\ InitHoldsNothing /\ [Next]_vars => InitHoldsNothing'
  <1> SUFFICES ASSUME TypeOK, InitHoldsNothing, [Next]_vars, fsmState' = INIT
               PROVE  fd' = NO_FD
    BY DEF InitHoldsNothing
  <1> USE DEF InitHoldsNothing, INIT, CONNECTED, UCLOSED, DCLOSED, CLOSED
  <1>u. ASSUME NEW c, NEW o, EndsUnchanged(c, o) PROVE fd' = NO_FD
    BY <1>u DEF EndsUnchanged, members
  <1>d. ASSUME NEW c, NEW o, Dies(c, o) PROVE fd' = NO_FD
    BY <1>d DEF Dies
  <1>c. ASSUME NEW c, CloseAll(c) PROVE fd' = NO_FD
    BY <1>c, <1>u DEF CloseAll, Rejects, members
  <1>1. CASE Construct
    BY <1>1 DEF Construct
  <1>2. ASSUME NEW f \in Fds, ConstructAccepted(f) PROVE fd' = NO_FD
    BY <1>2 DEF ConstructAccepted
  <1>3. CASE Destroy
    BY <1>3, <1>d DEF Destroy
  <1>4. ASSUME NEW a \in Addrs, Connect(a) PROVE fd' = NO_FD
    BY <1>4, <1>u, <1>d DEF Connect, Rejects, UnwindingThrows
  <1>5. CASE ReConnect
    BY <1>5, <1>u, <1>d DEF ReConnect, Rejects, members
  <1>6. ASSUME NEW noSignal \in BOOLEAN, Send(noSignal) PROVE fd' = NO_FD
    BY <1>6, <1>u, <1>d DEF Send, Rejects
  <1>7. ASSUME NEW n \in 0..1, Receive(n) PROVE fd' = NO_FD
    BY <1>7, <1>u DEF Receive, Rejects
  <1>8. CASE UClose
    BY <1>8, <1>u, <1>c DEF UClose, Rejects
  <1>9. CASE DClose
    BY <1>9, <1>u, <1>c DEF DClose, Rejects
  <1>10. CASE Close
    BY <1>10, <1>c DEF Close
  <1>11. CASE Reset
    BY <1>11 DEF Reset, members
  <1>12. ASSUME NEW v \in BOOLEAN, SetNonBlock(v) PROVE fd' = NO_FD
    BY <1>12, <1>u DEF SetNonBlock, members
  <1>13. ASSUME NEW f \in Fds, PeerFinishes(f) \/ PeerResets(f) \/ OtherClose(f)
         PROVE  fd' = NO_FD
    BY <1>13 DEF PeerFinishes, PeerResets, OtherClose, members
  <1>14. ASSUME NEW f \in Fds, NEW a \in Addrs, OtherOpen(f, a) PROVE fd' = NO_FD
    BY <1>14 DEF OtherOpen, members
  <1>15. CASE UNCHANGED vars
    BY <1>15 DEF vars, members
  <1>16. QED
    BY <1>1, <1>2, <1>3, <1>4, <1>5, <1>6, <1>7, <1>8, <1>9, <1>10, <1>11, <1>12,
       <1>13, <1>14, <1>15
    DEF Next

\* In state INIT the guard is empty, so that connect() has nothing to close.
THEOREM NothingHeldInInit == Spec => []InitHoldsNothing
  BY InitInitHoldsNothing, NextInitHoldsNothing, TypeCorrect, PTL DEF Spec

LEMMA InitNoLeak == Init => NoLeak
  BY DEF Init, NoLeak

LEMMA NextNoLeak == TypeOK /\ NoLeak /\ [Next]_vars => NoLeak'
  <1> SUFFICES ASSUME TypeOK, NoLeak, [Next]_vars,
                      NEW x \in Fds, owner'[x] = Self
               PROVE  fd' = x
    BY DEF NoLeak
  <1>t. /\ owner \in [Fds -> Parties] /\ sock \in [Fds -> Connections]
        /\ nonBlock \in BOOLEAN /\ socketAddress \in Hosts
        /\ obj # "alive" => fd = NO_FD
    BY DEF TypeOK, Parties, Connections, Hosts
  <1>held. owner[x] = Self => fd = x
    BY DEF NoLeak
  <1>v. Vacated(owner, fd)[x] # Self
    BY <1>t, <1>held, VacatedEntries
  <1>k. ASSUME UNCHANGED <<fd, owner>> PROVE fd' = x
    BY <1>k, <1>held
  <1>u. ASSUME NEW c, NEW o, EndsUnchanged(c, o) PROVE fd' = x
    BY <1>u, <1>k DEF EndsUnchanged, members, kernel
  <1>d. ASSUME NEW c, NEW o, Dies(c, o) PROVE FALSE
    BY <1>d DEF Dies
  <1>cl. ~Closes(fd)
    BY <1>v DEF Closes
  <1>a. ASSUME NEW f, NEW a \in Hosts, Attached(f, a) PROVE fd' = x
    BY <1>a, <1>t, <1>held, AttachedEntries
  <1>c. ASSUME NEW c, CloseAll(c) PROVE fd' = x
    BY <1>c, <1>u, <1>cl DEF CloseAll, Rejects
  <1>1. CASE Construct
    BY <1>1, <1>t, <1>held DEF Construct, kernel
  <1>2. ASSUME NEW f \in Fds, ConstructAccepted(f) PROVE fd' = x
    BY <1>2, <1>t, <1>held DEF ConstructAccepted
  <1>3. CASE Destroy
    BY <1>3, <1>cl, <1>d DEF Destroy
  <1>4. ASSUME NEW a \in Addrs, Connect(a) PROVE fd' = x
    BY <1>4, <1>u, <1>d, <1>a DEF Connect, Rejects, UnwindingThrows, Hosts
  <1>5. CASE ReConnect
    BY <1>5, <1>t, <1>u, <1>d, <1>a, <1>cl DEF ReConnect, Rejects
  <1>6. ASSUME NEW noSignal \in BOOLEAN, Send(noSignal) PROVE fd' = x
    BY <1>6, <1>u, <1>d DEF Send, Rejects
  <1>7. ASSUME NEW n \in 0..1, Receive(n) PROVE fd' = x
    BY <1>7, <1>u DEF Receive, Rejects
  <1>8. CASE UClose
    BY <1>8, <1>u, <1>c, <1>k DEF UClose, Rejects
  <1>9. CASE DClose
    BY <1>9, <1>u, <1>c, <1>k DEF DClose, Rejects
  <1>10. CASE Close
    BY <1>10, <1>c DEF Close
  <1>11. CASE Reset
    BY <1>11, <1>cl DEF Reset
  <1>12. ASSUME NEW v \in BOOLEAN, SetNonBlock(v) PROVE fd' = x
    BY <1>12, <1>u, <1>k DEF SetNonBlock, members, kernel
  <1>13. ASSUME NEW f \in Fds, PeerFinishes(f) \/ PeerResets(f) PROVE fd' = x
    BY <1>13, <1>k DEF PeerFinishes, PeerResets, members
  <1>14. ASSUME NEW f \in Fds, OtherClose(f) PROVE fd' = x
    BY <1>14, <1>t, <1>held, VacatedEntries DEF OtherClose, Closes, members
  <1>15. ASSUME NEW f \in Fds, NEW a \in Addrs, OtherOpen(f, a) PROVE fd' = x
    BY <1>15, <1>t, <1>held DEF OtherOpen, members
  <1>16. CASE UNCHANGED vars
    BY <1>16, <1>k DEF vars, members, kernel
  <1>17. QED
    BY <1>1, <1>2, <1>3, <1>4, <1>5, <1>6, <1>7, <1>8, <1>9, <1>10, <1>11, <1>12,
       <1>13, <1>14, <1>15, <1>16
    DEF Next

\* Every connection the object opened or took over, and did not close, is the
\* one its guard holds, whatever system call fails on the way.
THEOREM NothingLeaks == Spec => []NoLeak
  BY InitNoLeak, NextNoLeak, TypeCorrect, PTL DEF Spec

-----------------------------------------------------------------------------
(* What the guard holds is open and the object's own.                      *)

LEMMA InitHeldIsOwned == Init => HeldIsOwned
  BY DEF Init, HeldIsOwned

\* Once ::close has reported an error on an open descriptor, that is not
\* forgotten.
LEMMA CloseErrStays == [Next]_vars /\ closeErred => closeErred'
  BY DEF Next, vars, hist, Construct, ConstructAccepted, Destroy, Connect,
         ReConnect, Send, Receive, UClose, DClose, Close, CloseAll, Reset,
         SetNonBlock, PeerFinishes, PeerResets, OtherOpen, OtherClose, Rejects,
         EndsUnchanged, UnwindingThrows, Dies

LEMMA NextHeldIsOwned ==
    TypeOK /\ HeldIsOwned /\ [Next]_vars => HeldIsOwned'
  <1> SUFFICES ASSUME TypeOK, HeldIsOwned, [Next]_vars,
                      fd' # NO_FD, ~closeErred, ~closeErred'
               PROVE  owner'[fd'] = Self
    BY CloseErrStays DEF HeldIsOwned
  <1>t. /\ owner \in [Fds -> Parties] /\ sock \in [Fds -> Connections]
        /\ nonBlock \in BOOLEAN /\ socketAddress \in Hosts
        /\ fd \in Fds \cup {NO_FD}
        /\ obj # "alive" => fd = NO_FD
    BY DEF TypeOK, Parties, Connections, Hosts
  <1>held. fd # NO_FD => owner[fd] = Self
    BY DEF HeldIsOwned
  <1>k. ASSUME UNCHANGED <<fd, owner>> PROVE owner'[fd'] = Self
    BY <1>k, <1>held
  <1>u. ASSUME NEW c, NEW o, EndsUnchanged(c, o) PROVE owner'[fd'] = Self
    BY <1>u, <1>k DEF EndsUnchanged, members, kernel
  <1>d. ASSUME NEW c, NEW o, Dies(c, o) PROVE FALSE
    BY <1>d DEF Dies
  <1>a. ASSUME NEW f, NEW a \in Hosts, Attached(f, a) PROVE owner'[fd'] = Self
    BY <1>a, <1>t, AttachedEntries
  <1>e. ~(CloseThrows(fd) /\ closeErred' = (closeErred \/ IsOpen(fd)))
    BY <1>t, <1>held DEF CloseThrows, IsOpen
  <1>c. ASSUME NEW c, CloseAll(c) PROVE owner'[fd'] = Self
    BY <1>c, <1>u, <1>e DEF CloseAll, Rejects
  <1>1. CASE Construct
    BY <1>1 DEF Construct
  <1>2. ASSUME NEW f \in Fds, ConstructAccepted(f) PROVE owner'[fd'] = Self
    BY <1>2, <1>t DEF ConstructAccepted
  <1>3. CASE Destroy
    BY <1>3, <1>d DEF Destroy
  <1>4. ASSUME NEW a \in Addrs, Connect(a) PROVE owner'[fd'] = Self
    BY <1>4, <1>u, <1>d, <1>a DEF Connect, Rejects, UnwindingThrows, Hosts
  <1>5. CASE ReConnect
    BY <1>5, <1>t, <1>u, <1>d, <1>a, <1>e DEF ReConnect, Rejects
  <1>6. ASSUME NEW noSignal \in BOOLEAN, Send(noSignal) PROVE owner'[fd'] = Self
    BY <1>6, <1>u, <1>d DEF Send, Rejects
  <1>7. ASSUME NEW n \in 0..1, Receive(n) PROVE owner'[fd'] = Self
    BY <1>7, <1>u DEF Receive, Rejects
  <1>8. CASE UClose
    BY <1>8, <1>u, <1>c, <1>k DEF UClose, Rejects
  <1>9. CASE DClose
    BY <1>9, <1>u, <1>c, <1>k DEF DClose, Rejects
  <1>10. CASE Close
    BY <1>10, <1>c DEF Close
  <1>11. CASE Reset
    BY <1>11, <1>e DEF Reset
  <1>12. ASSUME NEW v \in BOOLEAN, SetNonBlock(v) PROVE owner'[fd'] = Self
    BY <1>12, <1>u, <1>k DEF SetNonBlock, members, kernel
  <1>13. ASSUME NEW f \in Fds, PeerFinishes(f) \/ PeerResets(f)
         PROVE  owner'[fd'] = Self
    BY <1>13, <1>k DEF PeerFinishes, PeerResets, members
  <1>14. ASSUME NEW f \in Fds, OtherClose(f) PROVE owner'[fd'] = Self
    BY <1>14, <1>t, <1>held, VacatedEntries DEF OtherClose, Closes, members
  <1>15. ASSUME NEW f \in Fds, NEW a \in Addrs, OtherOpen(f, a)
         PROVE  owner'[fd'] = Self
    BY <1>15, <1>t, <1>held DEF OtherOpen, FreeFds, members
  <1>16. CASE UNCHANGED vars
    BY <1>16, <1>k DEF vars, members, kernel
  <1>17. QED
    BY <1>1, <1>2, <1>3, <1>4, <1>5, <1>6, <1>7, <1>8, <1>9, <1>10, <1>11, <1>12,
       <1>13, <1>14, <1>15, <1>16
    DEF Next

\* As long as no ::close reports an error, the number the guard holds is open
\* and the object's own, also after reconnects that failed.
THEOREM HeldNumberIsOwned == Spec => []HeldIsOwned
  BY InitHeldIsOwned, NextHeldIsOwned, TypeCorrect, PTL DEF Spec

-----------------------------------------------------------------------------
(* The kernel's entries, whoever they belong to.                           *)

\* A free number has no connection behind it.
FreeIsClear == \A f \in Fds : owner[f] = Nobody => sock[f] = NoConnection

LEMMA InitFreeIsClear == Init => FreeIsClear
  BY DEF Init, FreeIsClear

LEMMA NextFreeIsClear == TypeOK /\ FreeIsClear /\ [Next]_vars => FreeIsClear'
  <1> SUFFICES ASSUME TypeOK, FreeIsClear, [Next]_vars,
                      NEW x \in Fds, owner'[x] = Nobody
               PROVE  sock'[x] = NoConnection
    BY DEF FreeIsClear, NoConnection, Connection
  <1>t. /\ owner \in [Fds -> Parties] /\ sock \in [Fds -> Connections]
        /\ nonBlock \in BOOLEAN /\ socketAddress \in Hosts
        /\ fd \in Fds \cup {NO_FD}
        /\ obj # "alive" => fd = NO_FD
    BY DEF TypeOK, Parties, Connections, Hosts
  <1>free. owner[x] = Nobody => sock[x] = NoConnection
    BY DEF FreeIsClear
  <1>k. ASSUME UNCHANGED <<owner, sock>> PROVE sock'[x] = NoConnection
    BY <1>k, <1>free
  <1>f. ASSUME NEW f \in Fds, IsOpen(f), UNCHANGED owner,
               \A y \in Fds : y # f => sock'[y] = sock[y]
        PROVE  sock'[x] = NoConnection
    BY <1>f, <1>free DEF IsOpen
  <1>u. ASSUME NEW c, NEW o, EndsUnchanged(c, o) PROVE sock'[x] = NoConnection
    BY <1>u, <1>k DEF EndsUnchanged, kernel
  <1>d. ASSUME NEW c, NEW o, Dies(c, o) PROVE sock'[x] = NoConnection
    BY <1>d DEF Dies
  <1>a. ASSUME NEW f, NEW a \in Hosts, Attached(f, a)
        PROVE  sock'[x] = NoConnection
    BY <1>a, <1>t, <1>free, AttachedEntries
  <1>cl. ASSUME NEW f, Closes(f) PROVE sock'[x] = NoConnection
    BY <1>cl, <1>t, <1>free, VacatedEntries, ClearedEntries DEF Closes
  <1>c. ASSUME NEW c, CloseAll(c) PROVE sock'[x] = NoConnection
    BY <1>c, <1>u, <1>cl DEF CloseAll, Rejects
  <1>1. CASE Construct
    BY <1>1, <1>k DEF Construct, kernel
  <1>2. ASSUME NEW f \in Fds, ConstructAccepted(f) PROVE sock'[x] = NoConnection
    BY <1>2, <1>t, <1>free DEF ConstructAccepted
  <1>3. CASE Destroy
    BY <1>3, <1>cl, <1>d DEF Destroy
  <1>4. ASSUME NEW a \in Addrs, Connect(a) PROVE sock'[x] = NoConnection
    BY <1>4, <1>u, <1>d, <1>a DEF Connect, Rejects, UnwindingThrows, Hosts
  <1>5. CASE ReConnect
    BY <1>5, <1>t, <1>u, <1>d, <1>a, <1>cl DEF ReConnect, Rejects
  <1>6. ASSUME NEW noSignal \in BOOLEAN, Send(noSignal) PROVE sock'[x] = NoConnection
    BY <1>6, <1>u, <1>d DEF Send, Rejects
  <1>7. ASSUME NEW n \in 0..1, Receive(n) PROVE sock'[x] = NoConnection
    BY <1>7, <1>u DEF Receive, Rejects
  <1>8. CASE UClose
    BY <1>8, <1>t, <1>u, <1>c, <1>f DEF UClose, Rejects, CanShutdown, IsOpen
  <1>9. CASE DClose
    BY <1>9, <1>t, <1>u, <1>c, <1>f DEF DClose, Rejects, CanShutdown, IsOpen
  <1>10. CASE Close
    BY <1>10, <1>c DEF Close
  <1>11. CASE Reset
    BY <1>11, <1>cl DEF Reset
  <1>12. ASSUME NEW v \in BOOLEAN, SetNonBlock(v) PROVE sock'[x] = NoConnection
    BY <1>12, <1>t, <1>u, <1>k, <1>f DEF SetNonBlock, kernel, IsOpen
  <1>13. ASSUME NEW f \in Fds, PeerFinishes(f) \/ PeerResets(f)
         PROVE  sock'[x] = NoConnection
    BY <1>13, <1>t, <1>f DEF PeerFinishes, PeerResets
  <1>14. ASSUME NEW f \in Fds, OtherClose(f) PROVE sock'[x] = NoConnection
    BY <1>14, <1>cl DEF OtherClose
  <1>15. ASSUME NEW f \in Fds, NEW a \in Addrs, OtherOpen(f, a)
         PROVE  sock'[x] = NoConnection
    BY <1>15, <1>t, <1>free DEF OtherOpen
  <1>16. CASE UNCHANGED vars
    BY <1>16, <1>k DEF vars, kernel
  <1>17. QED
    BY <1>1, <1>2, <1>3, <1>4, <1>5, <1>6, <1>7, <1>8, <1>9, <1>10, <1>11, <1>12,
       <1>13, <1>14, <1>15, <1>16
    DEF Next

LEMMA AlwaysFreeIsClear == Spec => []FreeIsClear
  BY InitFreeIsClear, NextFreeIsClear, TypeCorrect, PTL DEF Spec

\* A half that this process has shut down belongs to the connection behind
\* the member, and the state says so.  It holds even when the number the member
\* kept has become somebody else's, so that the halves of a connection that is
\* accepted or found behind a stale number are open.
ShutHalvesAreHeld ==
    \A f \in Fds : owner[f] # Nobody =>
        /\ ~sock[f].wr => f = fd /\ fsmState = UCLOSED
        /\ ~sock[f].rd => f = fd /\ fsmState = DCLOSED

LEMMA InitShutHalvesAreHeld == Init => ShutHalvesAreHeld
  BY DEF Init, ShutHalvesAreHeld

LEMMA NextShutHalvesAreHeld ==
    TypeOK /\ ShutHalvesAreHeld /\ [Next]_vars => ShutHalvesAreHeld'
  <1> DEFINE Shut(x) == /\ ~sock[x].wr => x = fd /\ fsmState = UCLOSED
                        /\ ~sock[x].rd => x = fd /\ fsmState = DCLOSED
  <1> SUFFICES ASSUME TypeOK, ShutHalvesAreHeld, [Next]_vars,
                      NEW x \in Fds, owner'[x] # Nobody
               PROVE  Shut(x)'
    BY DEF ShutHalvesAreHeld
  <1>t. /\ owner \in [Fds -> Parties] /\ sock \in [Fds -> Connections]
        /\ nonBlock \in BOOLEAN /\ socketAddress \in Hosts
        /\ fd \in Fds \cup {NO_FD}
        /\ obj # "alive" => fd = NO_FD
    BY DEF TypeOK, Parties, Connections, Hosts
  <1>shut. owner[x] # Nobody => Shut(x)
    BY DEF ShutHalvesAreHeld
  \* Nothing happens to x, and it is not the number the member held.
  <1>o. ASSUME x # fd, owner[x] # Nobody, sock'[x] = sock[x]
        PROVE  Shut(x)'
    BY <1>o, <1>shut
  <1>k. ASSUME UNCHANGED <<fsmState, fd, owner>>,
               sock'[x].wr <=> sock[x].wr, sock'[x].rd <=> sock[x].rd
        PROVE  Shut(x)'
    BY <1>k, <1>shut
  <1>n. ASSUME sock'[x].wr, sock'[x].rd PROVE Shut(x)'
    BY <1>n
  <1>u. ASSUME NEW c, NEW o, EndsUnchanged(c, o) PROVE Shut(x)'
    BY <1>u, <1>k DEF EndsUnchanged, members, kernel
  <1>d. ASSUME NEW c, NEW o, Dies(c, o) PROVE FALSE
    BY <1>d DEF Dies
  <1>a. ASSUME NEW f, NEW a \in Hosts, Attached(f, a) PROVE Shut(x)'
    <2>1. CASE x = f
      BY <1>a, <1>t, <2>1, <1>n, AttachedEntries, ConnectionParts
    <2>2. CASE x # f
      BY <1>a, <1>t, <2>2, <1>o, AttachedEntries
    <2>3. QED
      BY <2>1, <2>2
  <1>cl. ASSUME Closes(fd) PROVE Shut(x)'
    <2>1. x # fd /\ owner[x] # Nobody /\ sock'[x] = sock[x]
      BY <1>cl, <1>t, VacatedEntries, ClearedEntries DEF Closes
    <2>2. QED
      BY <2>1, <1>o
  <1>c. ASSUME NEW c, CloseAll(c) PROVE Shut(x)'
    BY <1>c, <1>u, <1>cl DEF CloseAll, Rejects
  <1>1. CASE Construct
    BY <1>1, <1>t, <1>shut DEF Construct, kernel
  <1>2. ASSUME NEW f \in Fds, ConstructAccepted(f) PROVE Shut(x)'
    <2>1. x # fd /\ owner[x] # Nobody /\ sock'[x] = sock[x]
      BY <1>2, <1>t DEF ConstructAccepted, IsOpen
    <2>2. QED
      BY <2>1, <1>o
  <1>3. CASE Destroy
    BY <1>3, <1>cl, <1>d DEF Destroy
  <1>4. ASSUME NEW a \in Addrs, Connect(a) PROVE Shut(x)'
    BY <1>4, <1>u, <1>d, <1>a DEF Connect, Rejects, UnwindingThrows, Hosts
  <1>5. CASE ReConnect
    BY <1>5, <1>t, <1>u, <1>d, <1>a, <1>cl DEF ReConnect, Rejects
  <1>6. ASSUME NEW noSignal \in BOOLEAN, Send(noSignal) PROVE Shut(x)'
    BY <1>6, <1>u, <1>d DEF Send, Rejects
  <1>7. ASSUME NEW n \in 0..1, Receive(n) PROVE Shut(x)'
    BY <1>7, <1>u DEF Receive, Rejects
  <1>8. CASE UClose
    <2>1. CASE /\ fsmState = CONNECTED /\ CanShutdown
               /\ sock' = [sock EXCEPT ![fd].wr = FALSE]
               /\ fsmState' = UCLOSED
               /\ UNCHANGED <<fd, owner>>
      <3>1. sock[x].rd /\ (x # fd => sock[x].wr)
        BY <2>1, <1>shut DEF CONNECTED, UCLOSED, DCLOSED
      <3>2. (sock'[x].rd <=> sock[x].rd) /\ (x # fd => sock'[x] = sock[x])
        BY <2>1, <1>t DEF CanShutdown, IsOpen, Connections
      <3>3. QED
        BY <2>1, <3>1, <3>2
    <2>2. QED
      BY <1>8, <2>1, <1>u, <1>c DEF UClose, Rejects
  <1>9. CASE DClose
    <2>1. CASE /\ fsmState = CONNECTED /\ CanShutdown
               /\ sock' = [sock EXCEPT ![fd].rd = FALSE]
               /\ fsmState' = DCLOSED
               /\ UNCHANGED <<fd, owner>>
      <3>1. sock[x].wr /\ (x # fd => sock[x].rd)
        BY <2>1, <1>shut DEF CONNECTED, UCLOSED, DCLOSED
      <3>2. (sock'[x].wr <=> sock[x].wr) /\ (x # fd => sock'[x] = sock[x])
        BY <2>1, <1>t DEF CanShutdown, IsOpen, Connections
      <3>3. QED
        BY <2>1, <3>1, <3>2
    <2>2. QED
      BY <1>9, <2>1, <1>u, <1>c DEF DClose, Rejects
  <1>10. CASE Close
    BY <1>10, <1>c DEF Close
  <1>11. CASE Reset
    BY <1>11, <1>cl DEF Reset
  <1>12. ASSUME NEW v \in BOOLEAN, SetNonBlock(v) PROVE Shut(x)'
    <2>1. CASE sock' = [sock EXCEPT ![fd].nonblock = v] /\ IsOpen(fd)
      <3>1. (sock'[x].wr <=> sock[x].wr) /\ (sock'[x].rd <=> sock[x].rd)
        BY <2>1, <1>t DEF IsOpen, Connections
      <3>2. QED
        BY <1>12, <2>1, <3>1, <1>u, <1>k DEF SetNonBlock, members, kernel
    <2>2. QED
      BY <1>12, <2>1, <1>u, <1>k DEF SetNonBlock, members, kernel
  <1>13. ASSUME NEW f \in Fds, PeerFinishes(f) \/ PeerResets(f) PROVE Shut(x)'
    <2>1. (sock'[x].wr <=> sock[x].wr) /\ (sock'[x].rd <=> sock[x].rd)
      BY <1>13, <1>t DEF PeerFinishes, PeerResets, Connections
    <2>2. QED
      BY <1>13, <2>1, <1>k DEF PeerFinishes, PeerResets, members
  <1>14. ASSUME NEW f \in Fds, OtherClose(f) PROVE Shut(x)'
    <2>1. /\ owner[x] # Nobody /\ sock'[x] = sock[x]
          /\ UNCHANGED <<fsmState, fd>>
      BY <1>14, <1>t, VacatedEntries, ClearedEntries DEF OtherClose, Closes, members
    <2>2. QED
      BY <2>1, <1>shut
  <1>15. ASSUME NEW f \in Fds, NEW a \in Addrs, OtherOpen(f, a) PROVE Shut(x)'
    <2>1. CASE x = f
      BY <1>15, <1>t, <2>1, <1>n, ConnectionParts DEF OtherOpen
    <2>2. CASE x # f
      BY <1>15, <1>t, <2>2, <1>shut DEF OtherOpen, members
    <2>3. QED
      BY <2>1, <2>2
  <1>16. CASE UNCHANGED vars
    BY <1>16, <1>k DEF vars, members, kernel
  <1>17. QED
    BY <1>1, <1>2, <1>3, <1>4, <1>5, <1>6, <1>7, <1>8, <1>9, <1>10, <1>11, <1>12,
       <1>13, <1>14, <1>15, <1>16
    DEF Next

LEMMA AlwaysShutHalvesAreHeld == Spec => []ShutHalvesAreHeld
  BY InitShutHalvesAreHeld, NextShutHalvesAreHeld, TypeCorrect, PTL DEF Spec

-----------------------------------------------------------------------------
(* The state and the halves of the connection.                             *)

LEMMA InitHalvesMatchState == Init => HalvesMatchState
  BY DEF Init, HalvesMatchState

LEMMA NextHalvesMatchState ==
    TypeOK /\ ShutHalvesAreHeld /\ HalvesMatchState /\ [Next]_vars
      => HalvesMatchState'
  <1> DEFINE Matches == /\ fsmState \in {CONNECTED, UCLOSED, DCLOSED}
                        /\ sock[fd].wr <=> fsmState # UCLOSED
                        /\ sock[fd].rd <=> fsmState # DCLOSED
                        /\ sock[fd].peer = socketAddress
  <1> SUFFICES ASSUME TypeOK, ShutHalvesAreHeld, HalvesMatchState, [Next]_vars,
                      fd' # NO_FD, owner'[fd'] = Self
               PROVE  Matches'
    BY DEF HalvesMatchState
  <1>t. /\ owner \in [Fds -> Parties] /\ sock \in [Fds -> Connections]
        /\ nonBlock \in BOOLEAN /\ socketAddress \in Hosts
        /\ fd \in Fds \cup {NO_FD}
        /\ obj # "alive" => fd = NO_FD
    BY DEF TypeOK, Parties, Connections, Hosts
  <1>m. fd # NO_FD /\ owner[fd] = Self => Matches
    BY DEF HalvesMatchState
  <1>k. ASSUME UNCHANGED <<fsmState, fd, owner, socketAddress>>,
               sock'[fd].wr <=> sock[fd].wr, sock'[fd].rd <=> sock[fd].rd,
               sock'[fd].peer = sock[fd].peer
        PROVE  Matches'
    BY <1>k, <1>m
  <1>u. ASSUME NEW c, NEW o, EndsUnchanged(c, o) PROVE Matches'
    BY <1>u, <1>k DEF EndsUnchanged, members, kernel
  <1>d. ASSUME NEW c, NEW o, Dies(c, o) PROVE FALSE
    BY <1>d DEF Dies
  <1>a. ASSUME NEW f, NEW a \in Hosts, Attached(f, a),
               fsmState' = CONNECTED, socketAddress' = a
        PROVE  Matches'
    <2>1. sock'[fd'].peer = a /\ sock'[fd'].wr /\ sock'[fd'].rd
      BY <1>a, <1>t, AttachedEntries, ConnectionParts
    <2>2. QED
      BY <1>a, <2>1 DEF CONNECTED, UCLOSED, DCLOSED
  <1>cl. ASSUME Closes(fd), fd' = fd PROVE FALSE
    BY <1>cl, <1>t, VacatedEntries DEF Closes
  <1>c. ASSUME NEW c, CloseAll(c) PROVE Matches'
    BY <1>c, <1>u, <1>cl DEF CloseAll, Rejects, members
  <1>1. CASE Construct
    BY <1>1 DEF Construct
  <1>2. ASSUME NEW f \in Fds, ConstructAccepted(f) PROVE Matches'
    <2>1. sock[f].wr /\ sock[f].rd
      BY <1>2, <1>t DEF ConstructAccepted, IsOpen, ShutHalvesAreHeld
    <2>2. QED
      BY <1>2, <2>1 DEF ConstructAccepted, CONNECTED, UCLOSED, DCLOSED
  <1>3. CASE Destroy
    BY <1>3, <1>d DEF Destroy
  <1>4. ASSUME NEW a \in Addrs, Connect(a) PROVE Matches'
    BY <1>4, <1>u, <1>d, <1>a DEF Connect, Rejects, UnwindingThrows, Hosts
  <1>5. CASE ReConnect
    BY <1>5, <1>t, <1>u, <1>d, <1>a, <1>cl
    DEF ReConnect, Rejects, members
  <1>6. ASSUME NEW noSignal \in BOOLEAN, Send(noSignal) PROVE Matches'
    BY <1>6, <1>u, <1>d DEF Send, Rejects
  <1>7. ASSUME NEW n \in 0..1, Receive(n) PROVE Matches'
    BY <1>7, <1>u DEF Receive, Rejects
  <1>8. CASE UClose
    <2>1. CASE /\ fsmState = CONNECTED /\ CanShutdown
               /\ sock' = [sock EXCEPT ![fd].wr = FALSE]
               /\ fsmState' = UCLOSED
               /\ UNCHANGED <<fd, owner, socketAddress>>
      <3>1. Matches
        BY <2>1, <1>m
      <3>2. /\ ~sock'[fd].wr /\ (sock'[fd].rd <=> sock[fd].rd)
            /\ sock'[fd].peer = sock[fd].peer
        BY <2>1, <1>t DEF CanShutdown, IsOpen, Connections
      <3>3. QED
        BY <2>1, <3>1, <3>2 DEF CONNECTED, UCLOSED, DCLOSED
    <2>2. QED
      BY <1>8, <2>1, <1>u, <1>c DEF UClose, Rejects
  <1>9. CASE DClose
    <2>1. CASE /\ fsmState = CONNECTED /\ CanShutdown
               /\ sock' = [sock EXCEPT ![fd].rd = FALSE]
               /\ fsmState' = DCLOSED
               /\ UNCHANGED <<fd, owner, socketAddress>>
      <3>1. Matches
        BY <2>1, <1>m
      <3>2. /\ ~sock'[fd].rd /\ (sock'[fd].wr <=> sock[fd].wr)
            /\ sock'[fd].peer = sock[fd].peer
        BY <2>1, <1>t DEF CanShutdown, IsOpen, Connections
      <3>3. QED
        BY <2>1, <3>1, <3>2 DEF CONNECTED, UCLOSED, DCLOSED
    <2>2. QED
      BY <1>9, <2>1, <1>u, <1>c DEF DClose, Rejects
  <1>10. CASE Close
    BY <1>10, <1>c DEF Close
  <1>11. CASE Reset
    BY <1>11, <1>cl DEF Reset, members
  <1>12. ASSUME NEW v \in BOOLEAN, SetNonBlock(v) PROVE Matches'
    <2>1. CASE sock' = [sock EXCEPT ![fd].nonblock = v] /\ IsOpen(fd)
      <3>1. /\ (sock'[fd].wr <=> sock[fd].wr) /\ (sock'[fd].rd <=> sock[fd].rd)
            /\ sock'[fd].peer = sock[fd].peer
        BY <2>1, <1>t DEF IsOpen, Connections
      <3>2. QED
        BY <1>12, <2>1, <3>1, <1>u, <1>k DEF SetNonBlock, members, kernel
    <2>2. QED
      BY <1>12, <2>1, <1>u, <1>k DEF SetNonBlock, members, kernel
  <1>13. ASSUME NEW f \in Fds, PeerFinishes(f) \/ PeerResets(f) PROVE Matches'
    <2>1. fd \in Fds /\ UNCHANGED <<fsmState, fd, owner, socketAddress>>
      BY <1>13, <1>t DEF PeerFinishes, PeerResets, members
    <2>2. /\ (sock'[fd].wr <=> sock[fd].wr) /\ (sock'[fd].rd <=> sock[fd].rd)
          /\ sock'[fd].peer = sock[fd].peer
      BY <1>13, <2>1, <1>t DEF PeerFinishes, PeerResets, Connections
    <2>3. QED
      BY <2>1, <2>2, <1>k
  <1>14. ASSUME NEW f \in Fds, OtherClose(f) PROVE Matches'
    <2>1. fd \in Fds /\ UNCHANGED <<fsmState, fd, socketAddress>>
      BY <1>14, <1>t DEF OtherClose, members
    <2>2. owner[fd] = Self /\ sock'[fd] = sock[fd]
      BY <1>14, <2>1, <1>t, VacatedEntries, ClearedEntries DEF OtherClose, Closes
    <2>3. QED
      BY <2>1, <2>2, <1>m
  <1>15. ASSUME NEW f \in Fds, NEW a \in Addrs, OtherOpen(f, a) PROVE Matches'
    <2>1. fd \in Fds /\ UNCHANGED <<fsmState, fd, socketAddress>>
      BY <1>15, <1>t DEF OtherOpen, members
    <2>2. owner[fd] = Self /\ sock'[fd] = sock[fd]
      BY <1>15, <2>1, <1>t DEF OtherOpen
    <2>3. QED
      BY <2>1, <2>2, <1>m
  <1>16. CASE UNCHANGED vars
    BY <1>16, <1>k DEF vars, members, kernel
  <1>17. QED
    BY <1>1, <1>2, <1>3, <1>4, <1>5, <1>6, <1>7, <1>8, <1>9, <1>10, <1>11, <1>12,
       <1>13, <1>14, <1>15, <1>16
    DEF Next

\* While the object owns a connection, its state says which halves are open in
\* the kernel, and the address it reports is the peer's.
THEOREM HalvesAlwaysMatchState == Spec => []HalvesMatchState
  BY InitHalvesMatchState, NextHalvesMatchState, AlwaysShutHalvesAreHeld,
     TypeCorrect, PTL DEF Spec

-----------------------------------------------------------------------------
(* What a call may never do.                                               *)

\* What a call that throws leaves behind.
KeepsState ==
    /\ UNCHANGED <<fsmState, nonBlock, socketAddress>>
    /\ \/ UNCHANGED fd /\ (closeErred' \/ UNCHANGED kernel)
       \/ last'.call \in {"reset", "reconnect"} /\ fd' = NO_FD

\* Closing a number that is not open does nothing, so a close that fails and
\* changes the tables is one that failed on an open descriptor.
LEMMA StepThrowKeepsState ==
    ASSUME TypeOK, FreeIsClear, Next,
           last'.out \in {"rejects", "fails", "eof"}, obj' # "terminated"
    PROVE  KeepsState
  <1> DEFINE Kept == UNCHANGED members /\ (closeErred' \/ UNCHANGED kernel)
  <1> DEFINE Goal == KeepsState
  <1>t. /\ owner \in [Fds -> Parties] /\ sock \in [Fds -> Connections]
        /\ fd \in Fds \cup {NO_FD}
    BY DEF TypeOK, Parties, Connections, Hosts
  <1>r. ASSUME NEW c, Returns(c) PROVE FALSE
    BY <1>r DEF Returns, Ends
  <1>k. Kept => Goal
    BY DEF KeepsState, members
  <1>e. ASSUME NEW c \in {"reset", "reconnect"}, NEW o, Ends(c, o),
               fd' = NO_FD, UNCHANGED <<fsmState, nonBlock, socketAddress>>
        PROVE  Goal
    BY <1>e DEF KeepsState, Ends
  <1>u. ASSUME NEW c, NEW o, EndsUnchanged(c, o) PROVE Goal
    BY <1>u, <1>k DEF EndsUnchanged
  <1>d. ASSUME NEW c, NEW o, Dies(c, o) PROVE FALSE
    BY <1>d DEF Dies
  <1>cl. ASSUME Closes(fd), closeErred' = (closeErred \/ IsOpen(fd))
         PROVE  closeErred' \/ UNCHANGED kernel
    <2>1. CASE IsOpen(fd)
      BY <1>cl, <2>1
    <2>2. CASE ~IsOpen(fd)
      <3>1. Vacated(owner, fd) = owner
        BY <2>2, <1>t, VacatedUnowned DEF IsOpen
      <3>2. Cleared(fd) = sock
        BY <2>2, <1>t DEF Cleared, IsOpen, FreeIsClear
      <3>3. QED
        BY <1>cl, <3>1, <3>2 DEF Closes, kernel
    <2>3. QED
      BY <2>1, <2>2
  <1>c. ASSUME NEW c, CloseAll(c) PROVE Goal
    BY <1>c, <1>u, <1>cl, <1>r, <1>k DEF CloseAll, Rejects
  <1>1. CASE Construct
    BY <1>1, <1>r DEF Construct
  <1>2. ASSUME NEW f \in Fds, ConstructAccepted(f) PROVE FALSE
    BY <1>2, <1>r DEF ConstructAccepted
  <1>3. CASE Destroy
    BY <1>3, <1>r, <1>d DEF Destroy
  <1>4. ASSUME NEW a \in Addrs, Connect(a) PROVE Goal
    BY <1>4, <1>u, <1>d, <1>r DEF Connect, Rejects, UnwindingThrows
  <1>5. CASE ReConnect
    <2>1. CASE CloseThrows(fd) /\ Closes(fd) /\ Fails("reconnect")
               /\ closeErred' = (closeErred \/ IsOpen(fd)) /\ UNCHANGED members
      BY <2>1, <1>cl, <1>k
    <2>2. CASE fd' = NO_FD /\ UNCHANGED <<fsmState, nonBlock, socketAddress>>
               /\ (Ends("reconnect", "rejects") \/ Fails("reconnect"))
      BY <2>2, <1>e DEF Fails
    <2>3. QED
      BY <1>5, <2>1, <2>2, <1>u, <1>d, <1>r DEF ReConnect, Rejects
  <1>6. ASSUME NEW noSignal \in BOOLEAN, Send(noSignal) PROVE Goal
    BY <1>6, <1>u, <1>d DEF Send, Rejects
  <1>7. ASSUME NEW n \in 0..1, Receive(n) PROVE Goal
    BY <1>7, <1>u DEF Receive, Rejects
  <1>8. CASE UClose
    BY <1>8, <1>u, <1>c, <1>r DEF UClose, Rejects
  <1>9. CASE DClose
    BY <1>9, <1>u, <1>c, <1>r DEF DClose, Rejects
  <1>10. CASE Close
    BY <1>10, <1>c DEF Close
  <1>11. CASE Reset
    <2>1. CASE fd' = NO_FD /\ Fails("reset")
               /\ UNCHANGED <<fsmState, nonBlock, socketAddress>>
      BY <2>1, <1>e DEF Fails
    <2>2. CASE CloseThrows(fd) /\ Closes(fd)
               /\ closeErred' = (closeErred \/ IsOpen(fd)) /\ UNCHANGED members
      BY <2>2, <1>cl, <1>k
    <2>3. QED
      BY <1>11, <2>1, <2>2, <1>r DEF Reset
  <1>12. ASSUME NEW v \in BOOLEAN, SetNonBlock(v) PROVE Goal
    BY <1>12, <1>u, <1>r DEF SetNonBlock
  <1>13. ASSUME NEW f \in Fds, PeerFinishes(f) \/ PeerResets(f) \/ OtherClose(f)
         PROVE  FALSE
    BY <1>13 DEF PeerFinishes, PeerResets, OtherClose, Ends
  <1>14. ASSUME NEW f \in Fds, NEW a \in Addrs, OtherOpen(f, a) PROVE FALSE
    BY <1>14 DEF OtherOpen, Ends
  <1>15. QED
    BY <1>1, <1>2, <1>3, <1>4, <1>5, <1>6, <1>7, <1>8, <1>9, <1>10, <1>11, <1>12,
       <1>13, <1>14
    DEF Next

\* What an exception leaves behind: state, flag and address always stay, guard
\* and kernel too, unless ::close failed on an open descriptor, or a reset or
\* resetConnection had closed the connection and now holds nothing.
THEOREM ThrowsKeepState == Spec => ThrowKeepsState
  <1>1. TypeOK /\ FreeIsClear /\ [Next]_vars =>
          [last'.out \in {"rejects", "fails", "eof"} /\ obj' # "terminated" =>
             KeepsState]_vars
    BY StepThrowKeepsState
  <1>2. QED
    BY <1>1, TypeCorrect, AlwaysFreeIsClear, PTL
    DEF Spec, ThrowKeepsState, KeepsState

\* The order checks let no send reach a half that was shut for sending, and no
\* receive a half that was shut for receiving: what is left is the peer.
LEMMA StepOnlyThePeerBreaksIo ==
    ASSUME TypeOK, ShutHalvesAreHeld, Next
    PROVE  /\ last'.out = "killed" => sock[fd].link = "broken"
           /\ last'.out = "eof" => sock[fd].link # "up"
  <1> DEFINE Goal == /\ last'.out = "killed" => sock[fd].link = "broken"
                     /\ last'.out = "eof" => sock[fd].link # "up"
  <1>o. ASSUME NEW c, NEW o \in {"returns", "rejects", "fails"}, Ends(c, o)
        PROVE  Goal
    BY <1>o DEF Ends
  <1>r. ASSUME NEW c, Returns(c) \/ Fails(c) PROVE Goal
    BY <1>r, <1>o DEF Returns, Fails
  <1>u. ASSUME NEW c, NEW o \in {"returns", "rejects", "fails"},
               EndsUnchanged(c, o) \/ Dies(c, o)
        PROVE  Goal
    BY <1>u, <1>o DEF EndsUnchanged, Dies
  <1>c. ASSUME NEW c, CloseAll(c) PROVE Goal
    BY <1>c, <1>u, <1>r DEF CloseAll, Rejects
  <1>1. CASE Construct
    BY <1>1, <1>r DEF Construct
  <1>2. ASSUME NEW f \in Fds, ConstructAccepted(f) PROVE Goal
    BY <1>2, <1>r DEF ConstructAccepted
  <1>3. CASE Destroy
    BY <1>3, <1>r, <1>u DEF Destroy
  <1>4. ASSUME NEW a \in Addrs, Connect(a) PROVE Goal
    BY <1>4, <1>u, <1>r DEF Connect, Rejects, UnwindingThrows
  <1>5. CASE ReConnect
    BY <1>5, <1>u, <1>r, <1>o DEF ReConnect, Rejects
  <1>6. ASSUME NEW noSignal \in BOOLEAN, Send(noSignal) PROVE Goal
    <2>1. CASE sendCheck /\ BrokenPipe /\ Dies("send", "killed")
      <3>1. IsOpen(fd) /\ sock[fd].wr
        BY <2>1
        DEF BrokenPipe, IsOpen, sendCheck, ShutHalvesAreHeld, CONNECTED, UCLOSED,
            DCLOSED
      <3>2. QED
        BY <2>1, <3>1 DEF BrokenPipe, Dies, Ends
    <2>2. QED
      BY <1>6, <2>1, <1>u DEF Send, Rejects
  <1>7. ASSUME NEW n \in 0..1, Receive(n) PROVE Goal
    <2>1. CASE receiveCheck /\ AtEnd /\ EndsUnchanged("receive", "eof")
      <3>1. IsOpen(fd) /\ sock[fd].rd
        BY <2>1
        DEF AtEnd, IsOpen, receiveCheck, ShutHalvesAreHeld, CONNECTED, UCLOSED,
            DCLOSED
      <3>2. QED
        BY <2>1, <3>1 DEF AtEnd, EndsUnchanged, Ends
    <2>2. QED
      BY <1>7, <2>1, <1>u DEF Receive, Rejects
  <1>8. CASE UClose
    BY <1>8, <1>u, <1>c, <1>r DEF UClose, Rejects
  <1>9. CASE DClose
    BY <1>9, <1>u, <1>c, <1>r DEF DClose, Rejects
  <1>10. CASE Close
    BY <1>10, <1>c DEF Close
  <1>11. CASE Reset
    BY <1>11, <1>r DEF Reset
  <1>12. ASSUME NEW v \in BOOLEAN, SetNonBlock(v) PROVE Goal
    BY <1>12, <1>u, <1>r DEF SetNonBlock
  <1>13. ASSUME NEW f \in Fds, PeerFinishes(f) \/ PeerResets(f) \/ OtherClose(f)
         PROVE  Goal
    BY <1>13, <1>o DEF PeerFinishes, PeerResets, OtherClose
  <1>14. ASSUME NEW f \in Fds, NEW a \in Addrs, OtherOpen(f, a) PROVE Goal
    BY <1>14, <1>o DEF OtherOpen
  <1>15. QED
    BY <1>1, <1>2, <1>3, <1>4, <1>5, <1>6, <1>7, <1>8, <1>9, <1>10, <1>11, <1>12,
       <1>13, <1>14
    DEF Next

\* A send is fatal, and a receive reports the end of the stream, only because
\* of what the peer did, even when the guard holds a number that is no longer
\* its own.
THEOREM OnlyThePeerBreaksIoHolds == Spec => OnlyThePeerBreaksIo
  <1>1. TypeOK /\ ShutHalvesAreHeld /\ [Next]_vars =>
          [/\ last'.out = "killed" => sock[fd].link = "broken"
           /\ last'.out = "eof" => sock[fd].link # "up"]_vars
    BY StepOnlyThePeerBreaksIo
  <1>2. QED
    BY <1>1, TypeCorrect, AlwaysShutHalvesAreHeld, PTL DEF Spec, OnlyThePeerBreaksIo

\* What a call does to the tables is confined to its own entries: the number
\* it closes is the object's, and the number it connects was free.
LEMMA StepOthersUntouched ==
    ASSUME TypeOK, HeldIsOwned, Next, ~closeErred,
           last'.call \notin {"other", "peer"}, obj' # "terminated",
           NEW x \in Fds, owner[x] = Other, owner'[x] # Self
    PROVE  owner'[x] = Other /\ sock'[x] = sock[x]
  <1> DEFINE Goal == owner'[x] = Other /\ sock'[x] = sock[x]
  <1>t. /\ owner \in [Fds -> Parties] /\ sock \in [Fds -> Connections]
        /\ nonBlock \in BOOLEAN /\ socketAddress \in Hosts
        /\ fd \in Fds \cup {NO_FD}
        /\ obj # "alive" => fd = NO_FD
    BY DEF TypeOK, Parties, Connections, Hosts
  <1>n. fd # x
    BY <1>t DEF HeldIsOwned
  <1>k. ASSUME UNCHANGED <<owner, sock>> PROVE Goal
    BY <1>k
  <1>u. ASSUME NEW c, NEW o, EndsUnchanged(c, o) PROVE Goal
    BY <1>u, <1>k DEF EndsUnchanged, kernel
  <1>d. ASSUME NEW c, NEW o, Dies(c, o) PROVE FALSE
    BY <1>d DEF Dies
  <1>a. ASSUME NEW f, NEW a \in Hosts, Attached(f, a) PROVE Goal
    BY <1>a, <1>t, <1>n, AttachedEntries
  <1>cl. ASSUME Closes(fd) PROVE Goal
    BY <1>cl, <1>t, <1>n, VacatedEntries, ClearedEntries DEF Closes
  <1>c. ASSUME NEW c, CloseAll(c) PROVE Goal
    BY <1>c, <1>u, <1>cl DEF CloseAll, Rejects
  <1>1. CASE Construct
    BY <1>1, <1>k DEF Construct, kernel
  <1>2. ASSUME NEW f \in Fds, ConstructAccepted(f) PROVE Goal
    BY <1>2, <1>t DEF ConstructAccepted
  <1>3. CASE Destroy
    BY <1>3, <1>cl, <1>d DEF Destroy
  <1>4. ASSUME NEW a \in Addrs, Connect(a) PROVE Goal
    BY <1>4, <1>u, <1>d, <1>a DEF Connect, Rejects, UnwindingThrows, Hosts
  <1>5. CASE ReConnect
    BY <1>5, <1>t, <1>u, <1>d, <1>a, <1>cl DEF ReConnect, Rejects
  <1>6. ASSUME NEW noSignal \in BOOLEAN, Send(noSignal) PROVE Goal
    BY <1>6, <1>u, <1>d DEF Send, Rejects
  <1>7. ASSUME NEW n \in 0..1, Receive(n) PROVE Goal
    BY <1>7, <1>u DEF Receive, Rejects
  <1>8. CASE UClose
    BY <1>8, <1>t, <1>n, <1>u, <1>c DEF UClose, Rejects
  <1>9. CASE DClose
    BY <1>9, <1>t, <1>n, <1>u, <1>c DEF DClose, Rejects
  <1>10. CASE Close
    BY <1>10, <1>c DEF Close
  <1>11. CASE Reset
    BY <1>11, <1>cl DEF Reset
  <1>12. ASSUME NEW v \in BOOLEAN, SetNonBlock(v) PROVE Goal
    BY <1>12, <1>t, <1>n, <1>u, <1>k DEF SetNonBlock, kernel
  <1>13. ASSUME NEW f \in Fds, PeerFinishes(f) \/ PeerResets(f) \/ OtherClose(f)
         PROVE  FALSE
    BY <1>13 DEF PeerFinishes, PeerResets, OtherClose, Ends
  <1>14. ASSUME NEW f \in Fds, NEW a \in Addrs, OtherOpen(f, a) PROVE FALSE
    BY <1>14 DEF OtherOpen, Ends
  <1>15. QED
    BY <1>1, <1>2, <1>3, <1>4, <1>5, <1>6, <1>7, <1>8, <1>9, <1>10, <1>11, <1>12,
       <1>13, <1>14
    DEF Next

\* As long as no ::close has reported an error, no call closes or alters a
\* connection of another part of the process.
THEOREM OthersAreLeftAlone == Spec => OthersUntouched
  <1>1. TypeOK /\ HeldIsOwned /\ [Next]_vars =>
          [last'.call \notin {"other", "peer"} /\ obj' # "terminated" /\ ~closeErred =>
             \A f \in Fds : owner[f] = Other /\ owner'[f] # Self =>
               owner'[f] = Other /\ sock'[f] = sock[f]]_vars
    BY StepOthersUntouched
  <1>2. QED
    BY <1>1, TypeCorrect, HeldNumberIsOwned, PTL DEF Spec, OthersUntouched
=============================================================================
