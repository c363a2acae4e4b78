-------------------------- MODULE Endpoints_proofs --------------------------
(***************************************************************************)
(* Proofs about Endpoints for any number of variables of the two classes,  *)
(* descriptor numbers and clients, and every backlog: the types, that each *)
(* open number is in the hands of one object, that an object holds what it *)
(* says, and that the two classes implement Reception.                     *)
(*                                                                         *)
(* A call is a few system calls in a row.  So the invariant is an operator *)
(* of the objects b, the owners o and the kernel's sockets k, and lemmas   *)
(* without primes say what one system call does to it; an action is the    *)
(* chain of those that it makes.                                           *)
(***************************************************************************)
EXTENDS Endpoints, TLAPS

USE DescriptorsAssumption, EndpointsAssumption
    DEF NO_FD, Nobody, Library

-----------------------------------------------------------------------------
(* The inductive invariant.                                                *)

Uses == {"free", "bound", "listening", "connected"}

KernelSockets == [use : Uses, queue : Seq(Clients), peer : Peers]

Owners == [Fds -> {Nobody, Library}]

Objects == [ptr : {"fsm", "null", "none"}, state : ServerStates \cup StreamStates,
            fd : Fds \cup {NO_FD}, peer : Peers]

KernelTypes(o, k) ==
    /\ o \in Owners
    /\ k \in [Fds -> KernelSockets]
    /\ \A f \in Fds : Len(k[f].queue) <= Backlog

\* Nothing is behind a number that is free, only a listening socket has a
\* queue, and only a connection a peer.
Sorted(o, k) ==
    \A f \in Fds :
        /\ o[f] = Nobody => k[f] = NoSocket
        /\ k[f].use # "listening" => k[f].queue = <<>>
        /\ k[f].use # "connected" => k[f].peer = Nobody

UsesPort(s) == s.use \in {"bound", "listening"}

OnePort(k) == \A f, g \in Fds : UsesPort(k[f]) /\ UsesPort(k[g]) => f = g

\* Client c waits in the queue of f.
WaitsAt(c, f, k) == \E i \in 1..Len(k[f].queue) : k[f].queue[i] = c

\* Every client is in one place at most: in a queue, once, or behind one
\* connection.
OnePlace(k) ==
    /\ \A f, g \in Fds : k[f].peer \in Clients /\ k[g].peer = k[f].peer => f = g
    /\ \A f, g \in Fds : \A i \in 1..Len(k[f].queue) : k[f].queue[i] # k[g].peer
    /\ \A f \in Fds : \A i, j \in 1..Len(k[f].queue) :
            k[f].queue[i] = k[f].queue[j] => i = j

Kernel(o, k) == KernelTypes(o, k) /\ Sorted(o, k) /\ OnePort(k) /\ OnePlace(k)

ObjectTypes(b) ==
    /\ b \in [Sockets -> Objects]
    /\ \A p \in Sockets : b[p].ptr # "fsm" => b[p] \in {NoObject, MovedFrom}

AllHeld(b, o) == \A f \in Fds : o[f] # Nobody => \E p \in Sockets : b[p].fd = f

\* What an object, the one in p or one that is to be there, says of a socket.
Says(p, object, s) ==
    /\ p \in ServerSockets =>
        \/ s.use = "bound" /\ object.state \in {"INIT", "BOUND"}
        \/ s.use = "listening" /\ object.state \in {"LISTENING", "ACCEPTING"}
    /\ p \in StreamSockets =>
        /\ s.use = "connected" /\ s.peer = object.peer
        /\ object.state \in {"CONNECTED", "UCLOSED", "DCLOSED"}

AllTrue(b, o, k) ==
    \A p \in Sockets : b[p].fd \in Fds =>
        o[b[p].fd] # Nobody /\ Says(p, b[p], k[b[p].fd])

Alone(b) == \A p, q \in Sockets : b[p].fd \in Fds /\ b[q].fd = b[p].fd => p = q

Consistent(b, o, k) ==
    /\ ObjectTypes(b)
    /\ Kernel(o, k)
    /\ AllHeld(b, o)
    /\ AllTrue(b, o, k)
    /\ Alone(b)

\* Before and after a ::close that reported an error.
Inv ==
    /\ running \in BOOLEAN
    /\ closeErred \in BOOLEAN
    /\ ~closeErred => Consistent(socket, owner, sock)
    /\ closeErred =>
        ObjectTypes(socket) /\ Kernel(owner, sock) /\ AllHeld(socket, owner)
    /\ ~running => \A f \in Fds : sock[f] = NoSocket

-----------------------------------------------------------------------------
(* What a system call does to the kernel's tables.                         *)

\* The sockets after ::close(g).
ClosedAt(k, g) == IF g \in Fds THEN [k EXCEPT ![g] = NoSocket] ELSE k

LEMMA NoSocketType == NoSocket \in KernelSockets
  BY DEF NoSocket, KernelSockets, Uses, Peers

\* ::close frees one entry and leaves the others alone.
LEMMA CloseEntries ==
    ASSUME NEW o \in Owners, NEW k \in [Fds -> KernelSockets], NEW g
    PROVE  /\ Vacated(o, g) \in Owners
           /\ \A x \in Fds : Vacated(o, g)[x] = IF x = g THEN Nobody ELSE o[x]
           /\ ClosedAt(k, g) \in [Fds -> KernelSockets]
           /\ \A x \in Fds : ClosedAt(k, g)[x] = IF x = g THEN NoSocket ELSE k[x]
  BY NoSocketType DEF Vacated, ClosedAt, Owners

\* ::close keeps the kernel's invariant.
LEMMA CloseKernel ==
    ASSUME NEW o, NEW k, Kernel(o, k), NEW g
    PROVE  Kernel(Vacated(o, g), ClosedAt(k, g))
  <1> DEFINE p == Vacated(o, g)
             m == ClosedAt(k, g)
  <1>1. o \in Owners /\ k \in [Fds -> KernelSockets]
    BY DEF Kernel, KernelTypes
  <1>2. /\ p \in Owners /\ m \in [Fds -> KernelSockets]
        /\ \A x \in Fds : p[x] = IF x = g THEN Nobody ELSE o[x]
        /\ \A x \in Fds : m[x] = IF x = g THEN NoSocket ELSE k[x]
    BY <1>1, CloseEntries
  <1>3. NoSocket.queue = <<>> /\ NoSocket.use = "free" /\ NoSocket.peer = Nobody
    BY DEF NoSocket
  <1> HIDE DEF p, m
  <1>4. KernelTypes(p, m)
    BY <1>2, <1>3 DEF Kernel, KernelTypes
  <1>5. Sorted(p, m)
    BY <1>2, <1>3 DEF Kernel, Sorted
  <1>6. OnePort(m)
    BY <1>2, <1>3 DEF Kernel, OnePort, UsesPort
  <1>7. OnePlace(m)
    <2>1. \A f, g1 \in Fds : m[f].peer \in Clients /\ m[g1].peer = m[f].peer => f = g1
      BY <1>2, <1>3 DEF Kernel, OnePlace
    <2>2. \A f, g1 \in Fds : \A i \in 1..Len(m[f].queue) : m[f].queue[i] # m[g1].peer
      <3> SUFFICES ASSUME NEW f \in Fds, NEW g1 \in Fds, NEW i \in 1..Len(m[f].queue)
                   PROVE  m[f].queue[i] # m[g1].peer
        OBVIOUS
      <3>1. f # g /\ m[f] = k[f]
        <4>1. f # g
          <5> SUFFICES ASSUME f = g PROVE FALSE
            OBVIOUS
          <5>1. m[f].queue = <<>>
            BY <1>2, <1>3
          <5>2. Len(m[f].queue) = 0
            BY <5>1
          <5>3. QED
            BY <5>2
        <4>2. QED
          BY <1>2, <4>1
      <3>2. k[f].queue[i] \in Clients
        BY <1>1, <3>1 DEF KernelSockets
      <3>3. QED
        BY <1>2, <1>3, <3>1, <3>2 DEF Kernel, OnePlace
    <2>3. \A f \in Fds : \A i, j \in 1..Len(m[f].queue) :
              m[f].queue[i] = m[f].queue[j] => i = j
      BY <1>2, <1>3 DEF Kernel, OnePlace
    <2>4. QED
      BY <2>1, <2>2, <2>3 DEF OnePlace
  <1>8. QED
    BY <1>4, <1>5, <1>6, <1>7 DEF Kernel, p, m

\* A new socket at a number that was free: a connection with a client that is
\* nowhere else or with the remote host, or the one socket of the port.
LEMMA OpenKernel ==
    ASSUME NEW o, NEW k, Kernel(o, k),
           NEW f \in Fds, o[f] = Nobody,
           NEW s \in KernelSockets, s.queue = <<>>, s.use # "free",
           s.use # "connected" => s.peer = Nobody,
           UsesPort(s) => \A g \in Fds : ~UsesPort(k[g]),
           s.peer \in Clients =>
               \A g \in Fds : k[g].peer # s.peer /\ ~WaitsAt(s.peer, g, k)
    PROVE  Kernel([o EXCEPT ![f] = Library], [k EXCEPT ![f] = s])
  <1> DEFINE p == [o EXCEPT ![f] = Library]
             m == [k EXCEPT ![f] = s]
  <1>1. o \in Owners /\ k \in [Fds -> KernelSockets]
    BY DEF Kernel, KernelTypes
  <1>2. /\ p \in Owners /\ m \in [Fds -> KernelSockets]
        /\ \A x \in Fds : p[x] = IF x = f THEN Library ELSE o[x]
        /\ \A x \in Fds : m[x] = IF x = f THEN s ELSE k[x]
    BY <1>1 DEF Owners
  <1> HIDE DEF p, m
  <1>4. KernelTypes(p, m)
    BY <1>2 DEF Kernel, KernelTypes
  <1>5. Sorted(p, m)
    BY <1>2 DEF Kernel, Sorted, UsesPort, KernelSockets, Uses
  <1>6. OnePort(m)
    BY <1>2 DEF Kernel, OnePort
  <1>7. OnePlace(m)
    <2>1. \A g, h \in Fds : m[g].peer \in Clients /\ m[h].peer = m[g].peer => g = h
      BY <1>2 DEF Kernel, OnePlace
    <2>2. \A g, h \in Fds : \A i \in 1..Len(m[g].queue) : m[g].queue[i] # m[h].peer
      <3> SUFFICES ASSUME NEW g \in Fds, NEW h \in Fds, NEW i \in 1..Len(m[g].queue)
                   PROVE  m[g].queue[i] # m[h].peer
        OBVIOUS
      <3>1. g # f /\ m[g] = k[g] /\ i \in 1..Len(k[g].queue)
        BY <1>2
      <3>2. k[g].queue \in Seq(Clients)
        BY <1>1 DEF KernelSockets
      <3>4. k[g].queue[i] \in Clients
        BY <3>1, <3>2
      <3>3. QED
        BY <1>2, <3>1, <3>4 DEF Kernel, OnePlace, WaitsAt
    <2>3. \A g \in Fds : \A i, j \in 1..Len(m[g].queue) :
              m[g].queue[i] = m[g].queue[j] => i = j
      BY <1>2 DEF Kernel, OnePlace
    <2>4. QED
      BY <2>1, <2>2, <2>3 DEF OnePlace
  <1>8. QED
    BY <1>4, <1>5, <1>6, <1>7 DEF Kernel, p, m

\* ::accept takes the first client from a queue; it is then nowhere.
LEMMA PopKernel ==
    ASSUME NEW o, NEW k, Kernel(o, k), NEW l \in Fds, k[l].queue # <<>>
    PROVE  LET m == [k EXCEPT ![l].queue = Tail(@)]
               c == Head(k[l].queue)
           IN /\ Kernel(o, m)
              /\ c \in Clients
              /\ \A g \in Fds : m[g].peer # c /\ ~WaitsAt(c, g, m)
  <1> DEFINE m == [k EXCEPT ![l].queue = Tail(@)]
             q == k[l].queue
             c == Head(q)
  <1>1. o \in Owners /\ k \in [Fds -> KernelSockets] /\ q \in Seq(Clients)
    BY DEF Kernel, KernelTypes, KernelSockets
  <1>2. /\ Len(q) \in Nat \ {0}
        /\ Len(Tail(q)) = Len(q) - 1
        /\ \A i \in 1..Len(Tail(q)) : i + 1 \in 1..Len(q) /\ Tail(q)[i] = q[i + 1]
        /\ Tail(q) \in Seq(Clients)
        /\ c = q[1] /\ c \in Clients /\ 1 \in 1..Len(q)
    BY <1>1
  <1>3. /\ m \in [Fds -> KernelSockets]
        /\ \A x \in Fds \ {l} : m[x] = k[x]
        /\ \A x \in Fds : m[x].use = k[x].use /\ m[x].peer = k[x].peer
        /\ m[l].queue = Tail(q)
    <2>1. /\ \A x \in Fds \ {l} : m[x] = k[x]
          /\ m[l] = [k[l] EXCEPT !.queue = Tail(q)]
      BY <1>1
    <2>2. k[l] \in KernelSockets
      BY <1>1
    <2>3. /\ m[l].use = k[l].use /\ m[l].peer = k[l].peer
          /\ m[l].queue = Tail(q) /\ m[l] \in KernelSockets
      <3>1. PICK r : r = k[l]
        OBVIOUS
      <3>2. r \in [use : Uses, queue : Seq(Clients), peer : Peers]
        BY <2>2, <3>1 DEF KernelSockets
      <3>3. m[l] = [r EXCEPT !.queue = Tail(q)] /\ Tail(q) \in Seq(Clients)
        BY <1>2, <2>1, <3>1
      <3> HIDE DEF m, q
      <3>4. QED
        BY <3>1, <3>2, <3>3 DEF KernelSockets
    <2>4. m \in [Fds -> KernelSockets]
      BY <1>1, <2>1, <2>3
    <2>5. QED
      BY <2>1, <2>3, <2>4
  <1>5. k[l].use = "listening"
    BY DEF Kernel, Sorted
  <1>6. \A f, g \in Fds : \A i \in 1..Len(k[f].queue) : k[f].queue[i] # k[g].peer
    BY DEF Kernel, OnePlace
  <1>7. \A i, j \in 1..Len(q) : q[i] = q[j] => i = j
    BY DEF Kernel, OnePlace
  <1>8. \A g \in Fds \ {l} : k[g].queue = <<>>
    BY <1>5 DEF Kernel, Sorted, OnePort, UsesPort
  <1> HIDE DEF m, q, c
  <1>9. KernelTypes(o, m)
    <2>1. Len(q) <= Backlog
      BY DEF Kernel, KernelTypes, q
    <2>2. QED
      BY <1>1, <1>2, <1>3, <2>1 DEF Kernel, KernelTypes
  <1>10. Sorted(o, m)
    <2>1. o[l] # Nobody
      BY <1>5 DEF Kernel, Sorted, NoSocket
    <2>2. QED
      BY <1>3, <1>5, <2>1 DEF Kernel, Sorted
  <1>11. OnePort(m)
    BY <1>3 DEF Kernel, OnePort, UsesPort
  <1>12. OnePlace(m)
    <2>1. \A g, h \in Fds : m[g].peer \in Clients /\ m[h].peer = m[g].peer => g = h
      BY <1>3 DEF Kernel, OnePlace
    <2>2. \A g, h \in Fds : \A i \in 1..Len(m[g].queue) : m[g].queue[i] # m[h].peer
      <3> SUFFICES ASSUME NEW g \in Fds, NEW h \in Fds, NEW i \in 1..Len(m[g].queue)
                   PROVE  m[g].queue[i] # m[h].peer
        OBVIOUS
      <3>1. CASE g # l
        BY <1>3, <1>8, <3>1
      <3>2. CASE g = l
        <4>1. i + 1 \in 1..Len(q) /\ m[g].queue[i] = q[i + 1]
          BY <1>2, <1>3, <3>2
        <4>2. q[i + 1] # k[h].peer
          BY <1>6, <4>1 DEF q
        <4>3. QED
          BY <1>3, <4>1, <4>2
      <3>3. QED
        BY <3>1, <3>2
    <2>3. \A g \in Fds : \A i, j \in 1..Len(m[g].queue) :
              m[g].queue[i] = m[g].queue[j] => i = j
      <3> SUFFICES ASSUME NEW g \in Fds, NEW i \in 1..Len(m[g].queue),
                          NEW j \in 1..Len(m[g].queue), m[g].queue[i] = m[g].queue[j]
                   PROVE  i = j
        OBVIOUS
      <3>1. g = l
        BY <1>3, <1>8
      <3>2. /\ i + 1 \in 1..Len(q) /\ m[g].queue[i] = q[i + 1]
            /\ j + 1 \in 1..Len(q) /\ m[g].queue[j] = q[j + 1]
        BY <1>2, <1>3, <3>1
      <3>3. i + 1 = j + 1
        BY <1>7, <3>2
      <3>4. QED
        BY <3>3
    <2>4. QED
      BY <2>1, <2>2, <2>3 DEF OnePlace
  <1>13. ASSUME NEW g \in Fds PROVE m[g].peer # c /\ ~WaitsAt(c, g, m)
    <2>1. m[g].peer # c
      <3>1. m[g].peer = k[g].peer
        BY <1>3
      <3>2. 1 \in 1..Len(q) /\ c = q[1]
        BY <1>2
      <3>3. q[1] # k[g].peer
        BY <1>6, <3>2 DEF q
      <3>4. QED
        BY <3>1, <3>2, <3>3
    <2>2. CASE g # l
      BY <1>3, <1>8, <2>1, <2>2 DEF WaitsAt
    <2>3. CASE g = l
      <3>1. \A i \in 1..Len(Tail(q)) : Tail(q)[i] # c
        BY <1>2, <1>7
      <3>2. QED
        BY <1>3, <2>1, <2>3, <3>1 DEF WaitsAt
    <2>4. QED
      BY <2>2, <2>3
  <1>14. QED
    BY <1>2, <1>9, <1>10, <1>11, <1>12, <1>13 DEF Kernel, m, c, q

\* A client comes that is nowhere yet.
LEMMA ArriveKernel ==
    ASSUME NEW o, NEW k, Kernel(o, k), NEW l \in Fds, k[l].use = "listening",
           Len(k[l].queue) < Backlog,
           NEW c \in Clients, \A g \in Fds : k[g].peer # c /\ ~WaitsAt(c, g, k)
    PROVE  Kernel(o, [k EXCEPT ![l].queue = Append(@, c)])
  <1> DEFINE m == [k EXCEPT ![l].queue = Append(@, c)]
             q == k[l].queue
             r == Append(q, c)
  <1>1. o \in Owners /\ k \in [Fds -> KernelSockets] /\ q \in Seq(Clients)
    BY DEF Kernel, KernelTypes, KernelSockets
  <1>2. /\ Len(q) \in Nat /\ r \in Seq(Clients)
        /\ Len(r) = Len(q) + 1
        /\ r[Len(q) + 1] = c
        /\ \A i \in 1..Len(q) : r[i] = q[i] /\ q[i] # c
    BY <1>1 DEF WaitsAt
  <1>3. /\ m \in [Fds -> KernelSockets]
        /\ \A x \in Fds \ {l} : m[x] = k[x]
        /\ \A x \in Fds : m[x].use = k[x].use /\ m[x].peer = k[x].peer
        /\ m[l].queue = r
    BY <1>1, <1>2 DEF KernelSockets
  <1>6. \A f, g \in Fds : \A i \in 1..Len(k[f].queue) : k[f].queue[i] # k[g].peer
    BY DEF Kernel, OnePlace
  <1>7. \A i, j \in 1..Len(q) : q[i] = q[j] => i = j
    BY DEF Kernel, OnePlace
  <1>8. \A g \in Fds \ {l} : k[g].queue = <<>>
    BY DEF Kernel, Sorted, OnePort, UsesPort
  <1>9. Len(q) < Backlog
    OBVIOUS
  <1> HIDE DEF m, q, r
  <1>10. KernelTypes(o, m)
    BY <1>1, <1>2, <1>3, <1>9 DEF Kernel, KernelTypes
  <1>11. Sorted(o, m)
    <2>1. o[l] # Nobody
      BY DEF Kernel, Sorted, NoSocket
    <2>2. QED
      BY <1>3, <2>1 DEF Kernel, Sorted
  <1>12. OnePort(m)
    BY <1>3 DEF Kernel, OnePort, UsesPort
  <1>13. \A i \in 1..Len(r) : i \in 1..Len(q) \/ i = Len(q) + 1
    BY <1>2
  <1>14. OnePlace(m)
    <2>1. \A g, h \in Fds : m[g].peer \in Clients /\ m[h].peer = m[g].peer => g = h
      BY <1>3 DEF Kernel, OnePlace
    <2>2. \A g, h \in Fds : \A i \in 1..Len(m[g].queue) : m[g].queue[i] # m[h].peer
      <3> SUFFICES ASSUME NEW g \in Fds, NEW h \in Fds, NEW i \in 1..Len(m[g].queue)
                   PROVE  m[g].queue[i] # m[h].peer
        OBVIOUS
      <3>1. g = l
        BY <1>3, <1>8
      <3>2. CASE i \in 1..Len(q)
        <4>1. m[g].queue[i] = k[l].queue[i] /\ i \in 1..Len(k[l].queue)
          BY <1>2, <1>3, <3>1, <3>2 DEF q
        <4>2. QED
          BY <1>3, <1>6, <4>1
      <3>3. CASE i = Len(q) + 1
        BY <1>2, <1>3, <3>1, <3>3
      <3>4. QED
        BY <1>3, <1>13, <3>1, <3>2, <3>3
    <2>3. \A g \in Fds : \A i, j \in 1..Len(m[g].queue) :
              m[g].queue[i] = m[g].queue[j] => i = j
      <3> SUFFICES ASSUME NEW g \in Fds, NEW i \in 1..Len(m[g].queue),
                          NEW j \in 1..Len(m[g].queue), m[g].queue[i] = m[g].queue[j]
                   PROVE  i = j
        OBVIOUS
      <3>1. g = l
        BY <1>3, <1>8
      <3>2. i \in 1..Len(r) /\ j \in 1..Len(r) /\ r[i] = r[j]
        BY <1>3, <3>1
      <3>3. CASE i \in 1..Len(q) /\ j \in 1..Len(q)
        BY <1>2, <1>7, <3>2, <3>3
      <3>4. CASE ~(i \in 1..Len(q) /\ j \in 1..Len(q))
        BY <1>2, <1>13, <3>2, <3>4
      <3>5. QED
        BY <3>3, <3>4
    <2>4. QED
      BY <2>1, <2>2, <2>3 DEF OnePlace
  <1>15. QED
    BY <1>10, <1>11, <1>12, <1>14 DEF Kernel, m

\* ::listen on a bound socket.
LEMMA ListenKernel ==
    ASSUME NEW o, NEW k, Kernel(o, k), NEW l \in Fds, k[l].use = "bound"
    PROVE  Kernel(o, [k EXCEPT ![l] = ListenSocket])
  <1> DEFINE m == [k EXCEPT ![l] = ListenSocket]
  <1>1. /\ ListenSocket.use = "listening" /\ ListenSocket.queue = <<>>
        /\ ListenSocket.peer = Nobody
    BY DEF ListenSocket, NoSocket
  <1>2. ListenSocket \in KernelSockets
    <2>1. <<>> \in Seq(Clients)
      OBVIOUS
    <2>2. QED
      BY <2>1 DEF ListenSocket, NoSocket, KernelSockets, Uses, Peers
  <1>3. /\ m \in [Fds -> KernelSockets]
        /\ \A x \in Fds \ {l} : m[x] = k[x]
        /\ m[l] = ListenSocket
    BY <1>2 DEF Kernel, KernelTypes
  <1>4. k[l].queue = <<>> /\ k[l].peer = Nobody /\ o[l] # Nobody
    BY DEF Kernel, Sorted, NoSocket
  <1>5. /\ \A x \in Fds : m[x].queue = k[x].queue /\ m[x].peer = k[x].peer
        /\ \A x \in Fds : UsesPort(m[x]) <=> UsesPort(k[x])
    BY <1>1, <1>3, <1>4 DEF UsesPort
  <1> HIDE DEF m
  <1>6. KernelTypes(o, m)
    BY <1>3, <1>5 DEF Kernel, KernelTypes
  <1>7. Sorted(o, m)
    BY <1>1, <1>3, <1>4 DEF Kernel, Sorted
  <1>8. OnePort(m)
    BY <1>5 DEF Kernel, OnePort
  <1>9. OnePlace(m)
    <2>1. \A g, h \in Fds : m[g].peer \in Clients /\ m[h].peer = m[g].peer => g = h
      BY <1>5 DEF Kernel, OnePlace
    <2>2. \A g, h \in Fds : \A i \in 1..Len(m[g].queue) : m[g].queue[i] # m[h].peer
      BY <1>5 DEF Kernel, OnePlace
    <2>3. \A g \in Fds : \A i, j \in 1..Len(m[g].queue) :
              m[g].queue[i] = m[g].queue[j] => i = j
      BY <1>5 DEF Kernel, OnePlace
    <2>4. QED
      BY <2>1, <2>2, <2>3 DEF OnePlace
  <1>10. QED
    BY <1>6, <1>7, <1>8, <1>9 DEF Kernel, m

-----------------------------------------------------------------------------
(* What a step does to the objects and to what they hold.                  *)

LEMMA EmptyObjects ==
    /\ NoObject \in Objects /\ MovedFrom \in Objects
    /\ NoObject.fd = NO_FD /\ NoObject.ptr = "none"
    /\ MovedFrom.fd = NO_FD /\ MovedFrom.ptr = "null"
  BY DEF NoObject, MovedFrom, Objects, ServerStates, Peers

\* An object without a number is in p; nothing else changes.
LEMMA PutEmpty ==
    ASSUME NEW b, NEW o, NEW k, Consistent(b, o, k), NEW p \in Sockets,
           b[p].fd = NO_FD,
           NEW object \in Objects, object.fd = NO_FD,
           object.ptr # "fsm" => object \in {NoObject, MovedFrom}
    PROVE  Consistent([b EXCEPT ![p] = object], o, k)
  <1> DEFINE d == [b EXCEPT ![p] = object]
  <1>1. b \in [Sockets -> Objects]
    BY DEF Consistent, ObjectTypes
  <1>2. /\ d \in [Sockets -> Objects]
        /\ \A x \in Sockets \ {p} : d[x] = b[x]
        /\ d[p] = object
    BY <1>1
  <1> HIDE DEF d
  <1>3. ObjectTypes(d)
    BY <1>2 DEF Consistent, ObjectTypes
  <1>4. AllHeld(d, o)
    BY <1>2 DEF Consistent, AllHeld
  <1>5. AllTrue(d, o, k)
    BY <1>2 DEF Consistent, AllTrue
  <1>6. Alone(d)
    BY <1>2 DEF Consistent, Alone
  <1>7. QED
    BY <1>3, <1>4, <1>5, <1>6 DEF Consistent, d

\* The number that p holds is closed, and p has an object without one.
LEMMA CloseConsistent ==
    ASSUME NEW b, NEW o, NEW k, Consistent(b, o, k), NEW p \in Sockets,
           NEW object \in Objects, object.fd = NO_FD,
           object.ptr # "fsm" => object \in {NoObject, MovedFrom}
    PROVE  Consistent([b EXCEPT ![p] = object],
                      Vacated(o, b[p].fd), ClosedAt(k, b[p].fd))
  <1> DEFINE d == [b EXCEPT ![p] = object]
             g == b[p].fd
             v == Vacated(o, g)
             m == ClosedAt(k, g)
  <1>1. /\ b \in [Sockets -> Objects] /\ o \in Owners /\ k \in [Fds -> KernelSockets]
        /\ Kernel(o, k)
    BY DEF Consistent, ObjectTypes, Kernel, KernelTypes
  <1>2. /\ d \in [Sockets -> Objects]
        /\ \A x \in Sockets \ {p} : d[x] = b[x]
        /\ d[p] = object
    BY <1>1
  <1>3. /\ \A x \in Fds : v[x] = IF x = g THEN Nobody ELSE o[x]
        /\ \A x \in Fds : m[x] = IF x = g THEN NoSocket ELSE k[x]
    BY <1>1, CloseEntries
  <1>4. Kernel(v, m)
    BY <1>1, CloseKernel
  <1>5. \A x \in Sockets \ {p} : b[x].fd \in Fds => b[x].fd # g
    BY DEF Consistent, Alone
  <1> HIDE DEF d, v, m
  <1>6. ObjectTypes(d)
    BY <1>2 DEF Consistent, ObjectTypes
  <1>7. AllHeld(d, v)
    BY <1>2, <1>3 DEF Consistent, AllHeld
  <1>8. AllTrue(d, v, m)
    <2> SUFFICES ASSUME NEW x \in Sockets, d[x].fd \in Fds
                 PROVE  v[d[x].fd] # Nobody /\ Says(x, d[x], m[d[x].fd])
      BY DEF AllTrue
    <2>1. x # p /\ d[x] = b[x]
      BY <1>2
    <2>2. o[b[x].fd] # Nobody /\ Says(x, b[x], k[b[x].fd])
      BY <2>1 DEF Consistent, AllTrue
    <2>3. v[b[x].fd] = o[b[x].fd] /\ m[b[x].fd] = k[b[x].fd]
      BY <1>3, <1>5, <2>1
    <2>4. QED
      BY <2>1, <2>2, <2>3
  <1>9. Alone(d)
    BY <1>2 DEF Consistent, Alone
  <1>10. QED
    BY <1>4, <1>6, <1>7, <1>8, <1>9 DEF Consistent, d, v, m

\* A free number is opened as a socket and given to p, which had none.
LEMMA OpenConsistent ==
    ASSUME NEW b, NEW o, NEW k, Consistent(b, o, k), NEW p \in Sockets,
           b[p].fd = NO_FD,
           NEW f \in Fds, o[f] = Nobody,
           NEW s \in KernelSockets, s.queue = <<>>, s.use # "free",
           s.use # "connected" => s.peer = Nobody,
           UsesPort(s) => \A g \in Fds : ~UsesPort(k[g]),
           s.peer \in Clients =>
               \A g \in Fds : k[g].peer # s.peer /\ ~WaitsAt(s.peer, g, k),
           NEW object \in Objects, object.fd = f, object.ptr = "fsm",
           Says(p, object, s)
    PROVE  Consistent([b EXCEPT ![p] = object],
                      [o EXCEPT ![f] = Library], [k EXCEPT ![f] = s])
  <1> DEFINE d == [b EXCEPT ![p] = object]
             v == [o EXCEPT ![f] = Library]
             m == [k EXCEPT ![f] = s]
  <1>1. /\ b \in [Sockets -> Objects] /\ o \in Owners /\ k \in [Fds -> KernelSockets]
        /\ Kernel(o, k)
    BY DEF Consistent, ObjectTypes, Kernel, KernelTypes
  <1>2. /\ d \in [Sockets -> Objects]
        /\ \A x \in Sockets \ {p} : d[x] = b[x]
        /\ d[p] = object
    BY <1>1
  <1>3. /\ \A x \in Fds : v[x] = IF x = f THEN Library ELSE o[x]
        /\ \A x \in Fds : m[x] = IF x = f THEN s ELSE k[x]
    BY <1>1 DEF Owners
  <1>4. Kernel(v, m)
    BY <1>1, OpenKernel
  <1>5. \A x \in Sockets : b[x].fd # f
    BY DEF Consistent, AllTrue
  <1> HIDE DEF d, v, m
  <1>6. ObjectTypes(d)
    BY <1>2 DEF Consistent, ObjectTypes
  <1>7. AllHeld(d, v)
    BY <1>2, <1>3 DEF Consistent, AllHeld
  <1>8. AllTrue(d, v, m)
    <2> SUFFICES ASSUME NEW x \in Sockets, d[x].fd \in Fds
                 PROVE  v[d[x].fd] # Nobody /\ Says(x, d[x], m[d[x].fd])
      BY DEF AllTrue
    <2>1. CASE x = p
      BY <1>2, <1>3, <2>1
    <2>2. CASE x # p
      <3>1. d[x] = b[x]
        BY <1>2, <2>2
      <3>2. o[b[x].fd] # Nobody /\ Says(x, b[x], k[b[x].fd])
        BY <3>1 DEF Consistent, AllTrue
      <3>3. v[b[x].fd] = o[b[x].fd] /\ m[b[x].fd] = k[b[x].fd]
        BY <1>3, <1>5, <3>1
      <3>4. QED
        BY <3>1, <3>2, <3>3
    <2>3. QED
      BY <2>1, <2>2
  <1>9. Alone(d)
    BY <1>2, <1>5 DEF Consistent, Alone
  <1>10. QED
    BY <1>4, <1>6, <1>7, <1>8, <1>9 DEF Consistent, d, v, m

\* The object in q goes to p, which held nothing.
LEMMA MoveConsistent ==
    ASSUME NEW b, NEW o, NEW k, Consistent(b, o, k),
           NEW p \in Sockets, NEW q \in Sockets, SameClass(p, q), p # q,
           b[p].fd = NO_FD
    PROVE  Consistent([b EXCEPT ![p] = b[q], ![q] = MovedFrom], o, k)
  <1> DEFINE d == [b EXCEPT ![p] = b[q], ![q] = MovedFrom]
  <1>1. b \in [Sockets -> Objects]
    BY DEF Consistent, ObjectTypes
  <1>2. /\ d \in [Sockets -> Objects]
        /\ \A x \in Sockets \ {p, q} : d[x] = b[x]
        /\ d[p] = b[q] /\ d[q] = MovedFrom
    BY <1>1, EmptyObjects
  <1> HIDE DEF d
  <1>3. ObjectTypes(d)
    BY <1>2 DEF Consistent, ObjectTypes
  <1>4. AllHeld(d, o)
    <2> SUFFICES ASSUME NEW f \in Fds, o[f] # Nobody
                 PROVE  \E x \in Sockets : d[x].fd = f
      BY DEF AllHeld
    <2>1. PICK x \in Sockets : b[x].fd = f
      BY DEF Consistent, AllHeld
    <2>2. x # p
      BY <2>1
    <2>3. QED
      BY <1>2, <2>1, <2>2
  <1>5. AllTrue(d, o, k)
    <2> SUFFICES ASSUME NEW x \in Sockets, d[x].fd \in Fds
                 PROVE  o[d[x].fd] # Nobody /\ Says(x, d[x], k[d[x].fd])
      BY DEF AllTrue
    <2>1. x # q
      BY <1>2, EmptyObjects
    <2>2. CASE x # p
      BY <1>2, <2>1, <2>2 DEF Consistent, AllTrue
    <2>3. CASE x = p
      <3>1. o[b[q].fd] # Nobody /\ Says(q, b[q], k[b[q].fd])
        BY <1>2, <2>3 DEF Consistent, AllTrue
      <3>2. (p \in ServerSockets <=> q \in ServerSockets)
            /\ (p \in StreamSockets <=> q \in StreamSockets)
        BY DEF SameClass
      <3>3. QED
        BY <1>2, <2>3, <3>1, <3>2 DEF Says
    <2>4. QED
      BY <2>2, <2>3
  <1>6. Alone(d)
    BY <1>2, EmptyObjects DEF Consistent, Alone
  <1>7. QED
    BY <1>3, <1>4, <1>5, <1>6 DEF Consistent, d

\* The state of the object in p changes to one that is as true.
LEMMA RestateConsistent ==
    ASSUME NEW b, NEW o, NEW k, Consistent(b, o, k), NEW p \in Sockets,
           b[p].ptr = "fsm",
           NEW m, Kernel(o, m),
           \A x \in Sockets \ {p} : b[x].fd \in Fds =>
               m[b[x].fd].use = k[b[x].fd].use /\ m[b[x].fd].peer = k[b[x].fd].peer,
           NEW object \in Objects, object.ptr = "fsm", object.fd = b[p].fd,
           object.fd \in Fds => Says(p, object, m[object.fd])
    PROVE  Consistent([b EXCEPT ![p] = object], o, m)
  <1> DEFINE d == [b EXCEPT ![p] = object]
  <1>1. b \in [Sockets -> Objects]
    BY DEF Consistent, ObjectTypes
  <1>2. /\ d \in [Sockets -> Objects]
        /\ \A x \in Sockets \ {p} : d[x] = b[x]
        /\ \A x \in Sockets : d[x].fd = b[x].fd
        /\ d[p] = object
    BY <1>1
  <1> HIDE DEF d
  <1>3. ObjectTypes(d)
    BY <1>2 DEF Consistent, ObjectTypes
  <1>4. AllHeld(d, o)
    <2>1. AllHeld(b, o)
      BY DEF Consistent
    <2>2. QED
      BY <1>2, <2>1 DEF AllHeld
  <1>5. AllTrue(d, o, m)
    <2> SUFFICES ASSUME NEW x \in Sockets, d[x].fd \in Fds
                 PROVE  o[d[x].fd] # Nobody /\ Says(x, d[x], m[d[x].fd])
      BY DEF AllTrue
    <2>1. o[b[x].fd] # Nobody /\ Says(x, b[x], k[b[x].fd])
      BY <1>2 DEF Consistent, AllTrue
    <2>2. CASE x = p
      BY <1>2, <2>1, <2>2
    <2>3. CASE x # p
      BY <1>2, <2>1, <2>3 DEF Says
    <2>4. QED
      BY <2>2, <2>3
  <1>6. Alone(d)
    BY <1>2 DEF Consistent, Alone
  <1>7. QED
    BY <1>3, <1>4, <1>5, <1>6 DEF Consistent, d

\* Nothing is open and there are no objects.
LEMMA CleanConsistent ==
    Consistent([p \in Sockets |-> NoObject], [f \in Fds |-> Nobody],
               [f \in Fds |-> NoSocket])
  <1> DEFINE b == [p \in Sockets |-> NoObject]
             o == [f \in Fds |-> Nobody]
             k == [f \in Fds |-> NoSocket]
  <1>1. \A p \in Sockets : b[p] = NoObject
    OBVIOUS
  <1>2. b \in [Sockets -> Objects]
    BY EmptyObjects
  <1>3. o \in Owners /\ \A f \in Fds : o[f] = Nobody
    BY DEF Owners
  <1>4. k \in [Fds -> KernelSockets] /\ \A f \in Fds : k[f] = NoSocket
    BY NoSocketType
  <1>5. /\ NoSocket.queue = <<>> /\ Len(<<>>) = 0 /\ NoSocket.use = "free"
        /\ NoSocket.peer = Nobody
    BY DEF NoSocket
  <1> HIDE DEF b, o, k
  <1>6. KernelTypes(o, k)
    BY <1>3, <1>4, <1>5 DEF KernelTypes
  <1>7. Sorted(o, k) /\ OnePort(k)
    BY <1>3, <1>4, <1>5 DEF Sorted, OnePort, UsesPort
  <1>8. OnePlace(k)
    BY <1>4, <1>5 DEF OnePlace
  <1>9. ObjectTypes(b)
    BY <1>1, <1>2 DEF ObjectTypes
  <1>10. AllHeld(b, o) /\ AllTrue(b, o, k) /\ Alone(b)
    BY <1>1, <1>3, EmptyObjects DEF AllHeld, AllTrue, Alone
  <1>11. QED
    BY <1>6, <1>7, <1>8, <1>9, <1>10 DEF Consistent, Kernel, b, o, k

LEMMA InitInv == Init => Inv
  <1> SUFFICES ASSUME Init PROVE Inv
    OBVIOUS
  <1>1. Consistent(socket, owner, sock)
    BY CleanConsistent DEF Init
  <1>2. QED
    BY <1>1 DEF Init, Inv

-----------------------------------------------------------------------------
(* The actions.                                                            *)

LEMMA FsmType ==
    ASSUME NEW state \in ServerStates \cup StreamStates, NEW f \in Fds \cup {NO_FD},
           NEW peer \in Peers
    PROVE  /\ Fsm(state, f, peer) \in Objects
           /\ Fsm(state, f, peer).ptr = "fsm" /\ Fsm(state, f, peer).state = state
           /\ Fsm(state, f, peer).fd = f /\ Fsm(state, f, peer).peer = peer
  BY DEF Fsm, Objects

\* The sockets that a call can open.
LEMMA OpenedTypes ==
    /\ {BoundSocket, ListenSocket, Connection(Remote)} \subseteq KernelSockets
    /\ BoundSocket.use = "bound" /\ BoundSocket.queue = <<>>
    /\ BoundSocket.peer = Nobody
    /\ ListenSocket.use = "listening" /\ ListenSocket.queue = <<>>
    /\ ListenSocket.peer = Nobody
    /\ \A c \in Clients \cup {Remote} :
        /\ Connection(c) \in KernelSockets
        /\ Connection(c).use = "connected" /\ Connection(c).queue = <<>>
        /\ Connection(c).peer = c
  <1>1. <<>> \in Seq(Clients)
    OBVIOUS
  <1>2. QED
    BY <1>1 DEF BoundSocket, ListenSocket, Connection, NoSocket, KernelSockets,
                Uses, Peers

\* PortIsFree is what bind needs: no socket of this process uses the port.
LEMMA FreePort ==
    ASSUME Kernel(owner, sock), PortIsFree
    PROVE  \A f \in Fds : ~UsesPort(sock[f])
  <1> SUFFICES ASSUME NEW f \in Fds PROVE ~UsesPort(sock[f])
    OBVIOUS
  <1>1. sock[f].use = "free" \/ sock[f].peer = Remote
    BY DEF PortIsFree
  <1>2. sock[f].use # "connected" => sock[f].peer = "nobody"
    BY DEF Kernel, Sorted
  <1>3. Remote # "nobody"
    OBVIOUS
  <1>4. QED
    BY <1>1, <1>2, <1>3 DEF UsesPort

\* In a call that changes objects and tables, without ::close failing.
LEMMA GoesOn ==
    ASSUME Inv, running, ~closeErred, UNCHANGED <<running, closeErred>>,
           Consistent(socket', owner', sock')
    PROVE  Inv'
  BY DEF Inv

\* The end of the process.
LEMMA DiesInv ==
    ASSUME Inv, ~closeErred, Dies
    PROVE  Inv'
  <1>1. Consistent(socket', owner', sock')
    BY CleanConsistent DEF Dies
  <1>2. \A f \in Fds : sock'[f] = NoSocket
    BY DEF Dies
  <1>3. QED
    BY <1>1, <1>2 DEF Inv, Dies

\* A call opens a socket for the object in p, which held nothing.
LEMMA OpensInv ==
    ASSUME Inv, running, ~closeErred, UNCHANGED <<running, closeErred>>,
           NEW p \in Sockets, socket[p].fd = NO_FD,
           NEW f \in FreeFds,
           NEW s \in {BoundSocket, ListenSocket, Connection(Remote)},
           UsesPort(s) => PortIsFree,
           NEW object \in Objects, object.fd = f, object.ptr = "fsm",
           Says(p, object, s),
           Becomes(p, object), Opens(f, s)
    PROVE  Inv'
  <1>1. f \in Fds /\ owner[f] = Nobody
    BY DEF FreeFds
  <1>2. Consistent(socket, owner, sock) /\ Kernel(owner, sock)
    BY DEF Inv, Consistent
  <1>3. /\ s \in KernelSockets /\ s.queue = <<>> /\ s.use # "free"
        /\ s.use # "connected" => s.peer = Nobody
        /\ s.peer \notin Clients
    BY OpenedTypes
  <1>4. UsesPort(s) => \A g \in Fds : ~UsesPort(sock[g])
    BY <1>2, FreePort
  <1>5. /\ socket' = [socket EXCEPT ![p] = object]
        /\ owner' = [owner EXCEPT ![f] = Library]
        /\ sock' = [sock EXCEPT ![f] = s]
    BY DEF Becomes, Opens, OpensAndCloses, Vacated
  <1>6. Consistent(socket', owner', sock')
    BY <1>1, <1>2, <1>3, <1>4, <1>5, OpenConsistent
  <1>7. QED
    BY <1>6, GoesOn

\* A member function closes the number of p and may throw.
LEMMA ClosesIntoInv ==
    ASSUME Inv, running, ~closeErred, NEW p \in Sockets,
           NEW object \in Objects, object.fd = NO_FD, object.ptr = "fsm",
           ClosesInto(p, object)
    PROVE  Inv'
  <1> DEFINE f == socket[p].fd
  <1>1. Consistent(socket, owner, sock)
    BY DEF Inv
  <1>2. owner' = Vacated(owner, f) /\ sock' = ClosedAt(sock, f) /\ UNCHANGED running
    BY DEF ClosesInto, Closes, ClosedAt
  <1>3. CASE CloseReturns(f) /\ Becomes(p, object) /\ UNCHANGED closeErred
    <2>1. Consistent(socket', owner', sock')
      BY <1>1, <1>2, <1>3, CloseConsistent DEF Becomes
    <2>2. QED
      BY <1>2, <1>3, <2>1, GoesOn
  <1>4. CASE /\ CloseThrows(f) /\ UNCHANGED socket
             /\ closeErred' = (closeErred \/ IsOpen(f))
    <2>1. f \in Fds
      BY <1>1, <1>4 DEF CloseThrows, Consistent, ObjectTypes, Objects
    <2>2. closeErred'
      BY <1>1, <1>4, <2>1 DEF IsOpen, Consistent, AllTrue
    <2>3. Kernel(owner', sock')
      BY <1>1, <1>2, CloseKernel DEF Consistent
    <2>4. \A x \in Fds : owner'[x] # Nobody => owner[x] # Nobody
      BY <1>1, <1>2, CloseEntries DEF Consistent, Kernel, KernelTypes
    <2>5. AllHeld(socket', owner')
      BY <1>1, <1>4, <2>4 DEF Consistent, AllHeld
    <2>6. ObjectTypes(socket')
      BY <1>1, <1>4 DEF Consistent
    <2>7. closeErred' \in BOOLEAN
      BY <1>4 DEF IsOpen
    <2>8. QED
      BY <1>2, <2>2, <2>3, <2>5, <2>6, <2>7 DEF Inv
  <1>5. QED
    BY <1>3, <1>4 DEF ClosesInto

LEMMA SocketStepInv ==
    ASSUME Inv, ~closeErred, NEW p \in Sockets, SocketStep(p)
    PROVE  Inv'
  <1>1. Consistent(socket, owner, sock)
    BY DEF Inv
  <1>2. \A x \in Sockets : socket[x].ptr # "fsm" => socket[x].fd = NO_FD
    BY <1>1, EmptyObjects DEF Consistent, ObjectTypes
  <1>3. CASE Construct(p)
    <2>1. PICK state \in ServerStates \cup StreamStates :
              Becomes(p, Fsm(state, NO_FD, Nobody))
      BY <1>3 DEF Construct, ServerStates, StreamStates
    <2>2. socket[p].fd = NO_FD /\ running
      BY <1>2, <1>3 DEF Construct, IsFresh
    <2>3. Nobody \in Peers
      BY DEF Peers
    <2>4. /\ Fsm(state, NO_FD, Nobody) \in Objects
          /\ Fsm(state, NO_FD, Nobody).fd = NO_FD
          /\ Fsm(state, NO_FD, Nobody).ptr = "fsm"
      BY <2>3, FsmType
    <2>5. Consistent([socket EXCEPT ![p] = Fsm(state, NO_FD, Nobody)], owner, sock)
      BY <1>1, <2>2, <2>4, PutEmpty
    <2>6. Consistent(socket', owner', sock')
      BY <1>3, <2>1, <2>5 DEF Construct, Becomes
    <2>7. QED
      BY <1>3, <2>2, <2>6, GoesOn DEF Construct
  <1>4. CASE Destroy(p)
    <2>1. CASE Dies
      BY <2>1, DiesInv
    <2>2. CASE ~Dies
      <3>1. /\ running /\ UNCHANGED <<running, closeErred>>
            /\ owner' = Vacated(owner, socket[p].fd)
            /\ sock' = ClosedAt(sock, socket[p].fd)
            /\ socket' = [socket EXCEPT ![p] = NoObject]
        BY <1>4, <2>2 DEF Destroy, Exists, Closes, ClosedAt, Becomes
      <3>2. Consistent(socket', owner', sock')
        BY <1>1, <3>1, EmptyObjects, CloseConsistent
      <3>3. QED
        BY <3>1, <3>2, GoesOn
    <2>3. QED
      BY <2>1, <2>2
  <1>c. Fsm("CLOSED", NO_FD, Nobody) \in Objects /\ Fsm("INIT", NO_FD, Nobody) \in Objects
        /\ Fsm("CLOSED", NO_FD, Nobody).fd = NO_FD /\ Fsm("INIT", NO_FD, Nobody).fd = NO_FD
        /\ Fsm("CLOSED", NO_FD, Nobody).ptr = "fsm" /\ Fsm("INIT", NO_FD, Nobody).ptr = "fsm"
    BY DEF Fsm, Objects, ServerStates, Peers
  <1>5. CASE Close(p)
    BY <1>5, <1>c, ClosesIntoInv DEF Close, HasFsm
  <1>6. CASE Reset(p)
    <2>1. running
      BY <1>6 DEF Reset, HasFsm
    <2>2. CASE ClosesInto(p, Fsm("INIT", NO_FD, Nobody))
      BY <1>c, <2>1, <2>2, ClosesIntoInv
    <2>3. CASE ClosesInto(p, Fsm(socket[p].state, NO_FD, socket[p].peer))
      <3> DEFINE object == Fsm(socket[p].state, NO_FD, socket[p].peer)
      <3>1. socket[p] \in Objects
        BY <1>1 DEF Consistent, ObjectTypes
      <3>2. socket[p].state \in ServerStates \cup StreamStates /\ socket[p].peer \in Peers
        BY <3>1 DEF Objects
      <3>3. object \in Objects /\ object.fd = NO_FD /\ object.ptr = "fsm"
        BY <3>2, FsmType
      <3> HIDE DEF object
      <3>4. ClosesInto(p, object)
        BY <2>3 DEF object
      <3>5. QED
        BY <2>1, <3>3, <3>4, ClosesIntoInv
    <2>4. QED
      BY <1>6, <2>2, <2>3 DEF Reset
  <1>7. ASSUME NEW q \in Sockets, MoveConstruct(p, q) PROVE Inv'
    <2>1. socket[p].fd = NO_FD /\ p # q /\ running
      BY <1>2, <1>7 DEF MoveConstruct, IsFresh, Exists
    <2>2. Consistent(socket', owner', sock')
      BY <1>1, <1>7, <2>1, MoveConsistent DEF MoveConstruct
    <2>3. QED
      BY <1>7, <2>1, <2>2, GoesOn DEF MoveConstruct
  <1>8. ASSUME NEW q \in Sockets, MoveAssign(p, q) PROVE Inv'
    <2>1. CASE Dies
      BY <2>1, DiesInv
    <2>2. CASE ~Dies
      <3> DEFINE b == [socket EXCEPT ![p] = NoObject]
                 g == socket[p].fd
      <3>1. /\ running /\ UNCHANGED <<running, closeErred>>
            /\ SameClass(p, q) /\ p # q
            /\ owner' = Vacated(owner, g)
            /\ sock' = ClosedAt(sock, g)
            /\ socket' = [socket EXCEPT ![p] = socket[q], ![q] = MovedFrom]
        BY <1>8, <2>2 DEF MoveAssign, Exists, Closes, ClosedAt
      <3>2. Consistent(b, Vacated(owner, g), ClosedAt(sock, g))
        BY <1>1, EmptyObjects, CloseConsistent
      <3>3. socket \in [Sockets -> Objects]
        BY <1>1 DEF Consistent, ObjectTypes
      <3>4. b[p] = NoObject /\ b[q] = socket[q]
        BY <3>1, <3>3
      <3>5. [b EXCEPT ![p] = b[q], ![q] = MovedFrom] = socket'
        BY <3>1, <3>3, <3>4
      <3> HIDE DEF b, g
      <3>6. Consistent([b EXCEPT ![p] = b[q], ![q] = MovedFrom],
                       Vacated(owner, g), ClosedAt(sock, g))
        BY <3>1, <3>2, <3>4, EmptyObjects, MoveConsistent
      <3>7. Consistent(socket', owner', sock')
        BY <3>1, <3>5, <3>6
      <3>8. QED
        BY <3>1, <3>7, GoesOn
    <2>3. QED
      BY <2>1, <2>2
  <1>9. CASE CallMovedFrom(p)
    BY <1>9, DiesInv DEF CallMovedFrom
  <1>10. QED
    BY <1>3, <1>4, <1>5, <1>6, <1>7, <1>8, <1>9 DEF SocketStep

\* The call of ::accept itself: the queue loses its first client, which is
\* nowhere then, and the server moves on.
LEMMA PopConsistent ==
    ASSUME Consistent(socket, owner, sock), NEW s \in ServerSockets, CanAccept(s)
    PROVE  LET l == socket[s].fd
               m == [sock EXCEPT ![l].queue = Tail(@)]
               c == Head(sock[l].queue)
           IN /\ l \in Fds /\ owner[l] # Nobody
              /\ sock[l].use = "listening" /\ sock[l].queue # <<>>
              /\ Consistent([socket EXCEPT ![s].state = "ACCEPTING"], owner, m)
              /\ c \in Clients
              /\ \A g \in Fds : m[g].peer # c /\ ~WaitsAt(c, g, m)
  <1> DEFINE l == socket[s].fd
             m == [sock EXCEPT ![l].queue = Tail(@)]
             c == Head(sock[l].queue)
             object == [socket[s] EXCEPT !.state = "ACCEPTING"]
  <1>1. l \in Fds /\ owner[l] # Nobody /\ sock[l].queue # <<>> /\ socket[s].ptr = "fsm"
    BY DEF CanAccept, IsOpen, HasFsm
  <1>2. sock[l].use = "listening"
    BY <1>1 DEF Consistent, Kernel, Sorted
  <1>3. /\ Kernel(owner, m) /\ c \in Clients
        /\ \A g \in Fds : m[g].peer # c /\ ~WaitsAt(c, g, m)
    BY <1>1, PopKernel DEF Consistent
  <1>4. /\ socket \in [Sockets -> Objects] /\ s \in Sockets
        /\ sock \in [Fds -> KernelSockets]
    BY DEF Consistent, ObjectTypes, Kernel, KernelTypes, Sockets
  <1>5. /\ object \in Objects /\ object.fd = l /\ object.ptr = "fsm"
        /\ object.state = "ACCEPTING"
    BY <1>1, <1>4 DEF Objects, ServerStates
  <1>6. \A x \in Fds : m[x].use = sock[x].use /\ m[x].peer = sock[x].peer
    BY <1>1, <1>4 DEF KernelSockets
  <1>7. Says(s, object, m[l])
    BY <1>1, <1>2, <1>5, <1>6 DEF Says
  <1> HIDE DEF m, object
  <1>8. Consistent([socket EXCEPT ![s] = object], owner, m)
    <2>1. \A x \in Sockets \ {s} : socket[x].fd \in Fds =>
              m[socket[x].fd].use = sock[socket[x].fd].use
              /\ m[socket[x].fd].peer = sock[socket[x].fd].peer
      BY <1>6
    <2>2. object.fd = socket[s].fd
      BY <1>5
    <2>3. object.fd \in Fds => Says(s, object, m[object.fd])
      BY <1>5, <1>7
    <2>4. QED
      BY <1>1, <1>3, <1>4, <1>5, <2>1, <2>2, <2>3, RestateConsistent
  <1>9. [socket EXCEPT ![s].state = "ACCEPTING"] = [socket EXCEPT ![s] = object]
    BY <1>4 DEF object
  <1>10. QED
    BY <1>1, <1>2, <1>3, <1>8, <1>9 DEF m

\* What a successful accept() makes of the tables and the objects.
LEMMA AcceptConsistent ==
    ASSUME Consistent(socket, owner, sock),
           NEW s \in ServerSockets, NEW t \in StreamSockets, CanAccept(s),
           NEW f \in FreeFds
    PROVE  LET g == socket[t].fd
               l == socket[s].fd
               c == Head(sock[l].queue)
               popped == [sock EXCEPT ![l].queue = Tail(@)]
               made == Accepted(s, f)
               sockNext == [ClosedAt(popped, g) EXCEPT ![f] = Connection(c)]
           IN /\ f # g /\ made[f].peer = c
              /\ (IF g \in Fds THEN [made EXCEPT ![g] = NoSocket] ELSE made) = sockNext
              /\ Consistent([socket EXCEPT ![s].state = "ACCEPTING",
                                           ![t] = Fsm("CONNECTED", f, c)],
                            Vacated([owner EXCEPT ![f] = Library], g), sockNext)
  <1> DEFINE g == socket[t].fd
             l == socket[s].fd
             c == Head(sock[l].queue)
             popped == [sock EXCEPT ![l].queue = Tail(@)]
             b == [socket EXCEPT ![s].state = "ACCEPTING"]
             d == [b EXCEPT ![t] = NoObject]
             v == Vacated(owner, g)
             m == ClosedAt(popped, g)
             object == Fsm("CONNECTED", f, c)
             made == Accepted(s, f)
             made2 == IF g \in Fds THEN [made EXCEPT ![g] = NoSocket] ELSE made
  <1>1. /\ l \in Fds /\ owner[l] # Nobody
        /\ Consistent(b, owner, popped)
        /\ c \in Clients
        /\ \A x \in Fds : popped[x].peer # c /\ ~WaitsAt(c, x, popped)
    BY PopConsistent
  <1>2. /\ s \in Sockets /\ t \in Sockets /\ s # t
        /\ f \in Fds /\ owner[f] = Nobody
        /\ socket \in [Sockets -> Objects] /\ owner \in Owners
        /\ sock \in [Fds -> KernelSockets]
    BY DEF Sockets, FreeFds, Consistent, ObjectTypes, Kernel, KernelTypes
  <1>3. f # g
    BY <1>2 DEF Consistent, AllTrue
  <1>4. b \in [Sockets -> Objects] /\ b[t] = socket[t] /\ popped \in [Fds -> KernelSockets]
    BY <1>1, <1>2 DEF Consistent, ObjectTypes, Kernel, KernelTypes
  <1>5. made = [popped EXCEPT ![f] = Connection(c)]
    BY DEF Accepted
  <1>6. /\ object \in Objects /\ object.fd = f /\ object.ptr = "fsm"
        /\ object.state = "CONNECTED" /\ object.peer = c
    <2>1. "CONNECTED" \in ServerStates \cup StreamStates /\ c \in Peers
      BY <1>1 DEF StreamStates, Peers
    <2>2. f \in Fds \cup {NO_FD}
      BY <1>2
    <2> HIDE DEF c
    <2>3. QED
      BY <2>1, <2>2, FsmType
  <1> HIDE DEF b, popped, c, l, made, object
  <1>7. d \in [Sockets -> Objects] /\ d[t] = NoObject /\ d[t].fd = NO_FD
    BY <1>2, <1>4, EmptyObjects
  <1>8. Consistent(d, v, m)
    BY <1>1, <1>2, <1>4, EmptyObjects, CloseConsistent
  <1>9. /\ v \in Owners /\ m \in [Fds -> KernelSockets]
        /\ \A x \in Fds : v[x] = IF x = g THEN Nobody ELSE owner[x]
        /\ \A x \in Fds : m[x] = IF x = g THEN NoSocket ELSE popped[x]
    BY <1>2, <1>4, CloseEntries
  <1>10. v[f] = Nobody
    BY <1>2, <1>9
  <1>11. \A x \in Fds : m[x].peer # c /\ ~WaitsAt(c, x, m)
    <2>1. NoSocket.peer = "nobody" /\ NoSocket.queue = <<>>
      BY DEF NoSocket
    <2>2. c # "nobody"
      BY <1>1
    <2>3. \A x \in Fds : m[x].peer # c
      BY <1>1, <1>9, <2>1, <2>2
    <2>4. \A x \in Fds : ~WaitsAt(c, x, m)
      <3> SUFFICES ASSUME NEW x \in Fds, NEW i \in 1..Len(m[x].queue)
                   PROVE  m[x].queue[i] # c
        BY DEF WaitsAt
      <3>1. x # g
        BY <1>9, <2>1
      <3>2. m[x] = popped[x]
        BY <1>9, <3>1
      <3>3. QED
        BY <1>1, <3>2 DEF WaitsAt
    <2>5. QED
      BY <2>3, <2>4
  <1>12. /\ Connection(c) \in KernelSockets /\ Connection(c).queue = <<>>
         /\ Connection(c).use = "connected" /\ Connection(c).peer = c
    BY <1>1, OpenedTypes
  <1>13. Says(t, object, Connection(c))
    BY <1>6, <1>12 DEF Says
  <1> HIDE DEF v, m, d
  <1>14. Consistent([d EXCEPT ![t] = object], [v EXCEPT ![f] = Library],
                    [m EXCEPT ![f] = Connection(c)])
    <2>1. ~UsesPort(Connection(c))
      BY <1>12 DEF UsesPort
    <2>2. QED
      BY <1>2, <1>6, <1>7, <1>8, <1>10, <1>11, <1>12, <1>13, <2>1, OpenConsistent
  <1>15. [d EXCEPT ![t] = object] = [b EXCEPT ![t] = object]
    BY <1>2, <1>4, <1>7 DEF d
  <1>16. [v EXCEPT ![f] = Library] = Vacated([owner EXCEPT ![f] = Library], g)
    BY <1>2, <1>3 DEF v, Vacated, Owners
  <1>17. made2 = [m EXCEPT ![f] = Connection(c)]
    BY <1>2, <1>3, <1>4, <1>5 DEF m, ClosedAt
  <1>18. made[f].peer = c
    BY <1>2, <1>4, <1>5, <1>12
  <1>19. QED
    BY <1>3, <1>14, <1>15, <1>16, <1>17, <1>18
    DEF m, made, b, object, c, l, popped, v

LEMMA ServerStepInv ==
    ASSUME Inv, ~closeErred, NEW s \in ServerSockets, ServerStep(s)
    PROVE  Inv'
  <1>1. Consistent(socket, owner, sock)
    BY DEF Inv
  <1>2. s \in Sockets /\ s \notin StreamSockets /\ socket[s] \in Objects
    BY <1>1 DEF Sockets, Consistent, ObjectTypes
  <1>3. {"LISTENING", "BOUND", "ACCEPTING"} \subseteq ServerStates /\ Nobody \in Peers
    BY DEF ServerStates, Peers
  <1>4. CASE ConstructListening(s)
    <2>1. CASE Dies
      BY <2>1, DiesInv
    <2>2. CASE ~Dies
      <3>1. PICK f \in FreeFds :
                /\ Becomes(s, Fsm("LISTENING", f, Nobody))
                /\ Opens(f, ListenSocket)
                /\ PortIsFree
                /\ UNCHANGED <<running, closeErred>>
        BY <1>4, <2>2 DEF ConstructListening, UnwindingThrows
      <3>2. socket[s].fd = NO_FD /\ running
        BY <1>1, <1>2, <1>4, EmptyObjects
        DEF ConstructListening, IsFresh, Consistent, ObjectTypes
      <3>3. Says(s, Fsm("LISTENING", f, Nobody), ListenSocket)
        BY <1>2, OpenedTypes DEF Says, Fsm
      <3>4. f \in Fds
        BY DEF FreeFds
      <3>5. /\ Fsm("LISTENING", f, Nobody) \in Objects
            /\ Fsm("LISTENING", f, Nobody).fd = f
            /\ Fsm("LISTENING", f, Nobody).ptr = "fsm"
        BY <1>3, <3>4, FsmType
      <3>6. QED
        BY <1>2, <3>1, <3>2, <3>3, <3>5, OpensInv
    <2>3. QED
      BY <2>1, <2>2
  <1>5. CASE Bind(s)
    <2>1. CASE Dies
      BY <2>1, DiesInv
    <2>2. CASE ~Dies
      <3>1. PICK f \in FreeFds, state \in {"INIT", "BOUND"} :
                /\ Becomes(s, Fsm(state, f, Nobody))
                /\ Opens(f, BoundSocket)
                /\ PortIsFree
                /\ UNCHANGED <<running, closeErred>>
        BY <1>5, <2>2 DEF Bind, UnwindingThrows
      <3>2. socket[s].fd = NO_FD /\ running
        <4>1. socket[s].state = "INIT" /\ running
          BY <1>5 DEF Bind, HasFsm
        <4>2. \A g \in Fds : ~UsesPort(sock[g])
          BY <1>1, <3>1, FreePort DEF Consistent
        <4>3. socket[s].fd \notin Fds
          BY <1>1, <1>2, <4>1, <4>2 DEF Consistent, AllTrue, Says, UsesPort
        <4>4. QED
          BY <1>2, <4>1, <4>3 DEF Objects
      <3>3. Says(s, Fsm(state, f, Nobody), BoundSocket)
        BY <1>2, OpenedTypes DEF Says, Fsm
      <3>4. f \in Fds /\ state \in ServerStates \cup StreamStates
        BY DEF FreeFds, ServerStates
      <3>5. /\ Fsm(state, f, Nobody) \in Objects
            /\ Fsm(state, f, Nobody).fd = f
            /\ Fsm(state, f, Nobody).ptr = "fsm"
        BY <1>3, <3>4, FsmType
      <3>6. QED
        BY <1>2, <3>1, <3>2, <3>3, <3>5, OpensInv
    <2>3. QED
      BY <2>1, <2>2
  <1>6. CASE Listen(s)
    <2> DEFINE f == socket[s].fd
               object == Fsm("LISTENING", f, Nobody)
               m == [sock EXCEPT ![f] = ListenSocket]
    <2>1. /\ running /\ socket[s].ptr = "fsm" /\ f \in Fds
          /\ sock[f].use = "bound"
          /\ socket' = [socket EXCEPT ![s] = object] /\ sock' = m
          /\ UNCHANGED <<running, owner, closeErred>>
      BY <1>6 DEF Listen, HasFsm, IsOpen, Becomes
    <2>2. Kernel(owner, m)
      BY <1>1, <2>1, ListenKernel DEF Consistent
    <2>3. object \in Objects /\ object.fd = f /\ object.ptr = "fsm"
          /\ object.state = "LISTENING"
      <3>1. "LISTENING" \in ServerStates \cup StreamStates /\ f \in Fds \cup {NO_FD}
        BY <1>3, <2>1
      <3> HIDE DEF f
      <3>2. QED
        BY <1>3, <3>1, FsmType
    <2>4. m[f] = ListenSocket /\ \A x \in Fds \ {f} : m[x] = sock[x]
      BY <1>1, <2>1 DEF Consistent, Kernel, KernelTypes
    <2>5. Says(s, object, m[f])
      BY <1>2, <2>3, <2>4, OpenedTypes DEF Says
    <2>6. \A x \in Sockets \ {s} : socket[x].fd \in Fds => socket[x].fd # f
      BY <1>1, <1>2, <2>1 DEF Consistent, Alone
    <2> HIDE DEF f, m, object
    <2>7. \A x \in Sockets \ {s} : socket[x].fd \in Fds =>
              m[socket[x].fd].use = sock[socket[x].fd].use
              /\ m[socket[x].fd].peer = sock[socket[x].fd].peer
      BY <2>4, <2>6
    <2>8. object.fd \in Fds => Says(s, object, m[object.fd])
      BY <2>3, <2>5
    <2>9. object.fd = socket[s].fd
      BY <2>3 DEF f
    <2>10. Consistent([socket EXCEPT ![s] = object], owner, m)
      BY <1>1, <1>2, <2>1, <2>2, <2>3, <2>7, <2>8, <2>9, RestateConsistent
    <2>11. Consistent(socket', owner', sock')
      BY <2>1, <2>10
    <2>12. QED
      BY <2>1, <2>11, GoesOn
  <1>7. ASSUME NEW t \in StreamSockets, Accept(s, t) PROVE Inv'
    <2>1. CASE Dies
      BY <2>1, DiesInv
    <2>2. CASE ~Dies
      <3> DEFINE g == socket[t].fd
      <3>1. PICK f \in FreeFds :
                /\ CanAccept(s)
                /\ owner' = Vacated([owner EXCEPT ![f] = Library], g)
                /\ sock' = IF g \in Fds THEN [Accepted(s, f) EXCEPT ![g] = NoSocket]
                                        ELSE Accepted(s, f)
                /\ socket' = [socket EXCEPT
                                  ![s].state = "ACCEPTING",
                                  ![t] = Fsm("CONNECTED", f, Accepted(s, f)[f].peer)]
                /\ UNCHANGED <<running, closeErred>>
        BY <1>7, <2>2 DEF Accept
      <3> DEFINE l == socket[s].fd
                 c == Head(sock[l].queue)
                 popped == [sock EXCEPT ![l].queue = Tail(@)]
                 made == Accepted(s, f)
                 next == [ClosedAt(popped, g) EXCEPT ![f] = Connection(c)]
      <3>2. /\ made[f].peer = c
            /\ (IF g \in Fds THEN [made EXCEPT ![g] = NoSocket] ELSE made) = next
            /\ Consistent([socket EXCEPT ![s].state = "ACCEPTING",
                                         ![t] = Fsm("CONNECTED", f, c)],
                          Vacated([owner EXCEPT ![f] = Library], g), next)
        BY <1>1, <3>1, AcceptConsistent
      <3> HIDE DEF made, next, c
      <3>3. /\ sock' = IF g \in Fds THEN [made EXCEPT ![g] = NoSocket] ELSE made
            /\ socket' = [socket EXCEPT
                              ![s].state = "ACCEPTING",
                              ![t] = Fsm("CONNECTED", f, made[f].peer)]
        BY <3>1 DEF made
      <3>4. Consistent(socket', owner', sock')
        BY <3>1, <3>2, <3>3
      <3>5. running
        BY <3>1 DEF CanAccept, HasFsm
      <3>6. QED
        BY <3>1, <3>4, <3>5, GoesOn
    <2>3. QED
      BY <2>1, <2>2
  <1>8. CASE AcceptThrows(s)
    <2>1. CASE Dies
      BY <2>1, DiesInv
    <2>2. CASE ~Dies
      <3>1. /\ CanAccept(s) /\ UNCHANGED <<running, owner, closeErred>>
            /\ socket' = [socket EXCEPT ![s].state = "ACCEPTING"]
            /\ sock' = [sock EXCEPT ![socket[s].fd].queue = Tail(@)]
        BY <1>8, <2>2 DEF AcceptThrows
      <3>2. Consistent(socket', owner', sock')
        BY <1>1, <3>1, PopConsistent
      <3>3. running
        BY <3>1 DEF CanAccept, HasFsm
      <3>4. QED
        BY <3>1, <3>2, <3>3, GoesOn
    <2>3. QED
      BY <2>1, <2>2
  <1>9. QED
    BY <1>4, <1>5, <1>6, <1>7, <1>8 DEF ServerStep

LEMMA StreamStepInv ==
    ASSUME Inv, ~closeErred, NEW t \in StreamSockets, StreamStep(t)
    PROVE  Inv'
  <1>1. Consistent(socket, owner, sock)
    BY DEF Inv
  <1>2. t \in Sockets /\ t \notin ServerSockets /\ socket[t] \in Objects
    BY <1>1 DEF Sockets, Consistent, ObjectTypes
  <1>3. {"INIT", "CONNECTED", "UCLOSED", "DCLOSED"} \subseteq ServerStates \cup StreamStates
        /\ {Nobody, Remote} \subseteq Peers
    BY DEF ServerStates, StreamStates, Peers
  <1>c. /\ Connection(Remote) \in KernelSockets /\ Connection(Remote).queue = <<>>
        /\ Connection(Remote).use = "connected" /\ Connection(Remote).peer = Remote
    BY OpenedTypes
  <1>f. ASSUME NEW f \in Fds
        PROVE  /\ Fsm("CONNECTED", f, Remote) \in Objects
               /\ Fsm("CONNECTED", f, Remote).fd = f
               /\ Fsm("CONNECTED", f, Remote).ptr = "fsm"
               /\ Says(t, Fsm("CONNECTED", f, Remote), Connection(Remote))
    BY <1>2, <1>3, <1>c, FsmType DEF Says
  <1>4. CASE Connect(t)
    <2>1. CASE Dies
      BY <2>1, DiesInv
    <2>2. CASE ~Dies
      <3>1. PICK f \in FreeFds :
                /\ Becomes(t, Fsm("CONNECTED", f, Remote))
                /\ Opens(f, Connection(Remote))
                /\ UNCHANGED <<running, closeErred>>
        BY <1>4, <2>2 DEF Connect, UnwindingThrows
      <3>2. socket[t].fd = NO_FD /\ running
        <4>1. socket[t].fd \notin Fds
          BY <1>1, <1>2, <1>4 DEF Connect, Consistent, AllTrue, Says
        <4>2. QED
          BY <1>2, <1>4, <4>1 DEF Connect, HasFsm, Objects
      <3>3. f \in Fds
        BY DEF FreeFds
      <3>4. QED
        BY <1>2, <1>c, <1>f, <3>1, <3>2, <3>3, OpensInv DEF UsesPort
    <2>3. QED
      BY <2>1, <2>2
  <1>5. ASSUME NEW half \in {"UCLOSED", "DCLOSED"}, NEW other, CloseHalf(t, half, other)
        PROVE  Inv'
    <2>1. CASE Close(t)
      BY <1>2, <2>1, SocketStepInv DEF SocketStep
    <2>2. CASE ~Close(t)
      <3> DEFINE object == [socket[t] EXCEPT !.state = half]
      <3>1. /\ running /\ socket[t].ptr = "fsm" /\ socket[t].state = "CONNECTED"
            /\ socket' = [socket EXCEPT ![t].state = half]
            /\ UNCHANGED <<running, owner, sock, closeErred>>
        BY <1>5, <2>2 DEF CloseHalf, HasFsm
      <3>2. /\ object \in Objects /\ object.fd = socket[t].fd /\ object.ptr = "fsm"
            /\ object.state = half /\ object.peer = socket[t].peer
        BY <1>2, <1>3, <3>1 DEF Objects
      <3>3. [socket EXCEPT ![t].state = half] = [socket EXCEPT ![t] = object]
        BY <1>1, <1>2 DEF Consistent, ObjectTypes
      <3> HIDE DEF object
      <3>4. object.fd \in Fds => Says(t, object, sock[object.fd])
        BY <1>1, <1>2, <3>2 DEF Consistent, AllTrue, Says
      <3>5. Kernel(owner, sock)
        BY <1>1 DEF Consistent
      <3>6. Consistent([socket EXCEPT ![t] = object], owner, sock)
        BY <1>1, <1>2, <3>1, <3>2, <3>4, <3>5, RestateConsistent
      <3>7. QED
        BY <3>1, <3>3, <3>6, GoesOn
    <2>3. QED
      BY <2>1, <2>2
  <1>6. CASE ResetConnection(t)
    <2> DEFINE o == socket[t]
    <2>1. CASE Dies
      BY <2>1, DiesInv
    <2>2. CASE ClosesInto(t, Fsm(o.state, NO_FD, o.peer))
      <3>1. /\ Fsm(o.state, NO_FD, o.peer) \in Objects
            /\ Fsm(o.state, NO_FD, o.peer).fd = NO_FD
            /\ Fsm(o.state, NO_FD, o.peer).ptr = "fsm"
        <4>1. o.state \in ServerStates \cup StreamStates /\ o.peer \in Peers
          BY <1>2 DEF Objects
        <4> HIDE DEF o
        <4>2. QED
          BY <4>1, FsmType
      <3>2. running
        BY <1>6 DEF ResetConnection, HasFsm
      <3>3. QED
        BY <1>2, <2>2, <3>1, <3>2, ClosesIntoInv
    <2>3. CASE ~Dies /\ ~ClosesInto(t, Fsm(o.state, NO_FD, o.peer))
      <3> DEFINE g == o.fd
                 b == [socket EXCEPT ![t] = NoObject]
                 v == Vacated(owner, g)
                 m == ClosedAt(sock, g)
      <3>1. PICK f \in Fds :
                /\ running
                /\ v[f] = Nobody
                /\ socket' = [socket EXCEPT ![t] = Fsm("CONNECTED", f, Remote)]
                /\ owner' = [v EXCEPT ![f] = Library]
                /\ sock' = [x \in Fds |-> IF x = f THEN Connection(Remote)
                                          ELSE IF x = g THEN NoSocket ELSE sock[x]]
                /\ UNCHANGED <<running, closeErred>>
        BY <1>6, <2>3 DEF ResetConnection, Becomes, HasFsm
      <3>2. Consistent(b, v, m)
        BY <1>1, <1>2, EmptyObjects, CloseConsistent
      <3>3. /\ m \in [Fds -> KernelSockets]
            /\ \A x \in Fds : m[x] = IF x = g THEN NoSocket ELSE sock[x]
        BY <1>1, CloseEntries DEF Consistent, Kernel, KernelTypes
      <3>4. b[t] = NoObject
            /\ [b EXCEPT ![t] = Fsm("CONNECTED", f, Remote)]
                = [socket EXCEPT ![t] = Fsm("CONNECTED", f, Remote)]
        BY <1>1, <1>2 DEF Consistent, ObjectTypes
      <3> HIDE DEF g, b, v, m
      <3>5. sock' = [m EXCEPT ![f] = Connection(Remote)]
        BY <3>1, <3>3
      <3>6. Consistent([b EXCEPT ![t] = Fsm("CONNECTED", f, Remote)],
                       [v EXCEPT ![f] = Library], [m EXCEPT ![f] = Connection(Remote)])
        <4>1. ~UsesPort(Connection(Remote)) /\ Connection(Remote).peer \notin Clients
          BY <1>c DEF UsesPort
        <4>2. b[t].fd = NO_FD
          BY <3>4, EmptyObjects
        <4>3. QED
          BY <1>2, <1>c, <1>f, <3>1, <3>2, <4>1, <4>2, OpenConsistent
      <3>7. Consistent(socket', owner', sock')
        BY <3>1, <3>4, <3>5, <3>6
      <3>8. QED
        BY <3>1, <3>7, GoesOn
    <2>4. QED
      BY <2>1, <2>2, <2>3
  <1>7. QED
    BY <1>4, <1>5, <1>6 DEF StreamStep

LEMMA ClientConnectsInv ==
    ASSUME Inv, ~closeErred, NEW c \in Clients, ClientConnects(c)
    PROVE  Inv'
  <1>1. Consistent(socket, owner, sock) /\ sock \in [Fds -> KernelSockets]
    BY DEF Inv, Consistent, Kernel, KernelTypes
  <1>2. PICK l \in Fds :
            /\ sock[l].use = "listening" /\ Len(sock[l].queue) < Backlog
            /\ sock' = [sock EXCEPT ![l].queue = Append(@, c)]
    BY DEF ClientConnects
  <1>3. UNCHANGED <<running, socket, owner, closeErred>>
    BY DEF ClientConnects
  <1>4. running
    BY <1>2 DEF Inv, NoSocket
  <1>5. \A g \in Fds : sock[g].peer # c /\ ~WaitsAt(c, g, sock)
    <2>1. \A g \in Fds : sock[g].peer # c
      BY DEF ClientConnects, ConnectedTo
    <2>2. ASSUME NEW g \in Fds, NEW i \in 1..Len(sock[g].queue) PROVE sock[g].queue[i] # c
      <3>1. sock[g].queue \in Seq(Clients)
        BY <1>1 DEF KernelSockets
      <3>2. i \in DOMAIN sock[g].queue
        BY <3>1
      <3>3. QED
        BY <3>2 DEF ClientConnects, Waiting
    <2>3. QED
      BY <2>1, <2>2 DEF WaitsAt
  <1>6. Kernel(owner, sock')
    BY <1>1, <1>2, <1>5, ArriveKernel DEF Consistent
  <1>7. \A x \in Fds : sock'[x].use = sock[x].use /\ sock'[x].peer = sock[x].peer
    BY <1>1, <1>2 DEF KernelSockets
  <1>8. AllTrue(socket, owner, sock')
    BY <1>1, <1>7 DEF Consistent, AllTrue, Says
  <1>9. Consistent(socket', owner', sock')
    BY <1>1, <1>3, <1>6, <1>8 DEF Consistent
  <1>10. QED
    BY <1>3, <1>4, <1>9, GoesOn

LEMMA NextInv == Inv /\ [Next]_vars => Inv'
  <1> SUFFICES ASSUME Inv, [Next]_vars PROVE Inv'
    OBVIOUS
  <1>1. CASE UNCHANGED vars
    BY <1>1 DEF Inv, vars
  <1>2. CASE Next
    <2>1. ~closeErred
      BY <1>2 DEF Next
    <2>2. ASSUME NEW p \in Sockets, SocketStep(p) PROVE Inv'
      BY <2>1, <2>2, SocketStepInv
    <2>3. ASSUME NEW s \in ServerSockets, ServerStep(s) PROVE Inv'
      BY <2>1, <2>3, ServerStepInv
    <2>4. ASSUME NEW t \in StreamSockets, StreamStep(t) PROVE Inv'
      BY <2>1, <2>4, StreamStepInv
    <2>5. ASSUME NEW c \in Clients, ClientConnects(c) PROVE Inv'
      BY <2>1, <2>5, ClientConnectsInv
    <2>6. QED
      BY <1>2, <2>2, <2>3, <2>4, <2>5 DEF Next
  <1>3. QED
    BY <1>1, <1>2

LEMMA Invariance == Spec => []Inv
  BY InitInv, NextInv, PTL DEF Spec

-----------------------------------------------------------------------------
(* The three invariants.                                                   *)

\* A queue is no longer than the backlog.
LEMMA BoundedQueue ==
    ASSUME NEW q \in Seq(Clients), Len(q) <= Backlog
    PROVE  q \in BoundedSeq(Clients, Backlog)
  <1>1. Len(q) \in 0..Backlog /\ q \in [1..Len(q) -> Clients]
    OBVIOUS
  <1>2. QED
    BY <1>1 DEF BoundedSeq, SeqOf

LEMMA InvTypeOK == Inv => TypeOK
  <1> SUFFICES ASSUME Inv PROVE TypeOK
    OBVIOUS
  <1>1. ObjectTypes(socket) /\ Kernel(owner, sock)
    BY DEF Inv, Consistent
  <1>2. /\ sock \in [Fds -> KernelSockets]
        /\ \A f \in Fds : Len(sock[f].queue) <= Backlog
    BY <1>1 DEF Kernel, KernelTypes
  <1>3. sock \in [Fds -> [use : {"free", "bound", "listening", "connected"},
                          queue : BoundedSeq(Clients, Backlog), peer : Peers]]
    <2>1. ASSUME NEW f \in Fds
          PROVE  sock[f] \in [use : {"free", "bound", "listening", "connected"},
                              queue : BoundedSeq(Clients, Backlog), peer : Peers]
      <3>1. /\ sock[f] \in KernelSockets /\ sock[f].queue \in Seq(Clients)
            /\ Len(sock[f].queue) <= Backlog
        BY <1>2 DEF KernelSockets
      <3>2. sock[f].queue \in BoundedSeq(Clients, Backlog)
        BY <3>1, BoundedQueue
      <3>3. QED
        BY <3>1, <3>2 DEF KernelSockets, Uses
    <2>2. QED
      BY <1>2, <2>1
  <1>4. QED
    BY <1>1, <1>3 DEF Inv, TypeOK, ObjectTypes, Objects, Kernel, KernelTypes, Owners

LEMMA InvHeldOnce == Inv => HeldOnce
  <1> SUFFICES ASSUME Inv PROVE HeldOnce
    OBVIOUS
  <1>1. AllHeld(socket, owner)
    BY DEF Inv, Consistent
  <1>2. ~closeErred => AllTrue(socket, owner, sock) /\ Alone(socket)
    BY DEF Inv, Consistent
  <1>3. QED
    BY <1>1, <1>2 DEF HeldOnce, Holders, IsOpen, AllHeld, AllTrue, Alone

LEMMA InvHoldsWhatItSays == Inv => HoldsWhatItSays
  <1> SUFFICES ASSUME Inv, ~closeErred, NEW p \in Sockets, socket[p].fd # NO_FD
               PROVE  LET s == sock[socket[p].fd] IN
                      IF p \in ServerSockets
                      THEN \/ s.use = "bound" /\ socket[p].state \in {"INIT", "BOUND"}
                           \/ /\ s.use = "listening"
                              /\ socket[p].state \in {"LISTENING", "ACCEPTING"}
                      ELSE /\ s.use = "connected" /\ s.peer = socket[p].peer
                           /\ socket[p].state \in {"CONNECTED", "UCLOSED", "DCLOSED"}
    BY DEF HoldsWhatItSays
  <1>1. socket[p].fd \in Fds
    BY DEF Inv, Consistent, ObjectTypes, Objects
  <1>2. Says(p, socket[p], sock[socket[p].fd])
    BY <1>1 DEF Inv, Consistent, AllTrue
  <1>3. QED
    BY <1>2 DEF Says, Sockets

\* Every variable has its type: an object that was moved from remembers
\* nothing, and the kernel queues no more clients than listen() asked for.
THEOREM TypeCorrect == Spec => []TypeOK
  BY Invariance, InvTypeOK, PTL

\* No construction, move, accept() or failure of one loses a descriptor, and
\* until a ::close reports an error no two variables hold the same one.
THEOREM NumbersAreHeldOnce == Spec => []HeldOnce
  BY Invariance, InvHeldOnce, PTL

\* A variable says truly what is behind the number it holds, after a bind() or
\* a reset() that threw half-way too, and accept() hands every connection to
\* the right variable with the right address.
THEOREM ObjectsTellTheTruth == Spec => []HoldsWhatItSays
  BY Invariance, InvHoldsWhatItSays, PTL

-----------------------------------------------------------------------------
(* The reception: what the clients see of the kernel's table.              *)

\* Queue and Served, for tables and objects that are not those of a state.
QueueIn(k) ==
    IF \E f \in Fds : k[f].use = "listening"
    THEN k[CHOOSE f \in Fds : k[f].use = "listening"].queue
    ELSE <<>>

ServedIn(b, o, k) ==
    {c \in Clients : \E t \in StreamSockets :
        /\ b[t].fd \in Fds /\ o[b[t].fd] # Nobody
        /\ k[b[t].fd].peer = c}

\* The clients at the other end of a connection.
ConnectedIn(k) == {c \in Clients : \E f \in Fds : k[f].peer = c}

\* Since every connection is in the hands of a StreamSocket, the clients that
\* are served are those that are connected.
LEMMA ServedAreConnected ==
    ASSUME NEW b, NEW o, NEW k, Consistent(b, o, k)
    PROVE  ServedIn(b, o, k) = ConnectedIn(k)
  <1>1. ServedIn(b, o, k) \subseteq ConnectedIn(k)
    BY DEF ServedIn, ConnectedIn
  <1>2. ASSUME NEW c \in Clients, NEW f \in Fds, k[f].peer = c
        PROVE  c \in ServedIn(b, o, k)
    <2>1. c # "nobody"
      OBVIOUS
    <2>2. k[f].use = "connected" /\ o[f] # Nobody
      BY <1>2, <2>1 DEF Consistent, Kernel, Sorted, NoSocket
    <2>3. PICK p \in Sockets : b[p].fd = f
      BY <2>2 DEF Consistent, AllHeld
    <2>4. Says(p, b[p], k[f])
      BY <2>3 DEF Consistent, AllTrue
    <2>5. p \in StreamSockets
      BY <2>2, <2>4 DEF Says, Sockets
    <2>6. QED
      BY <1>2, <2>2, <2>3, <2>5 DEF ServedIn
  <1>3. QED
    BY <1>1, <1>2 DEF ConnectedIn

LEMMA QueueOf ==
    ASSUME NEW o, NEW k, Kernel(o, k)
    PROVE  /\ \A l \in Fds : k[l].use = "listening" => QueueIn(k) = k[l].queue
           /\ (\A l \in Fds : k[l].use # "listening") => QueueIn(k) = <<>>
  <1>1. ASSUME NEW l \in Fds, k[l].use = "listening"
        PROVE  QueueIn(k) = k[l].queue
    <2> DEFINE m == CHOOSE f \in Fds : k[f].use = "listening"
    <2>1. m \in Fds /\ k[m].use = "listening"
      BY <1>1
    <2>2. m = l
      BY <1>1, <2>1 DEF Kernel, OnePort, UsesPort
    <2>3. QED
      BY <1>1, <2>2 DEF QueueIn
  <1>2. QED
    BY <1>1 DEF QueueIn

\* The same queue, as long as the same socket listens.
LEMMA QueueSame ==
    ASSUME NEW o, NEW k, Kernel(o, k), NEW p, NEW m, Kernel(p, m),
           \A f \in Fds : m[f].use = "listening" <=> k[f].use = "listening",
           \A f \in Fds : k[f].use = "listening" => m[f].queue = k[f].queue
    PROVE  QueueIn(m) = QueueIn(k)
  <1>1. CASE \E l \in Fds : k[l].use = "listening"
    BY <1>1, QueueOf
  <1>2. CASE \A l \in Fds : k[l].use # "listening"
    BY <1>2, QueueOf
  <1>3. QED
    BY <1>1, <1>2

\* What Reception allows a step to do to the queue and to those served.
Promised(q, v, qq, vv) ==
    \/ qq = q /\ vv = v
    \/ \E c \in Clients :
        /\ c \notin v /\ \A i \in DOMAIN q : q[i] # c
        /\ qq = Append(q, c) /\ vv = v
    \/ /\ q # <<>> /\ qq = Tail(q)
       /\ LET candidates == v \cup {Head(q)}
          IN \/ vv = candidates
             \/ \E lost \in candidates : vv = candidates \ {lost}
    \/ \E c \in v : qq = q /\ vv = v \ {c}
    \/ qq = <<>> /\ vv = v

LEMMA ConnectedClosed ==
    ASSUME NEW o, NEW k, Kernel(o, k), NEW g
    PROVE  /\ g \in Fds =>
                ConnectedIn(ClosedAt(k, g)) = ConnectedIn(k) \ {k[g].peer}
           /\ g \notin Fds => ConnectedIn(ClosedAt(k, g)) = ConnectedIn(k)
  <1> DEFINE m == ClosedAt(k, g)
  <1>1. \A x \in Fds : m[x] = IF x = g THEN NoSocket ELSE k[x]
    BY CloseEntries DEF Kernel, KernelTypes
  <1>2. NoSocket.peer = "nobody" /\ "nobody" \notin Clients
    BY DEF NoSocket
  <1>3. \A x, y \in Fds : k[x].peer \in Clients /\ k[y].peer = k[x].peer => x = y
    BY DEF Kernel, OnePlace
  <1> HIDE DEF m
  <1>4. ASSUME NEW c \in Clients
        PROVE  (\E x \in Fds : m[x].peer = c) <=>
               (\E x \in Fds : x # g /\ k[x].peer = c)
    BY <1>1, <1>2
  <1>5. CASE g \in Fds
    <2>1. ASSUME NEW c \in Clients
          PROVE  (\E x \in Fds : x # g /\ k[x].peer = c) <=>
                 (\E x \in Fds : k[x].peer = c) /\ c # k[g].peer
      BY <1>3, <1>5
    <2>2. \A c \in Clients : (\E x \in Fds : m[x].peer = c) <=>
                             (\E x \in Fds : k[x].peer = c) /\ c # k[g].peer
      BY <1>4, <2>1
    <2>3. ConnectedIn(m) = ConnectedIn(k) \ {k[g].peer}
      BY <2>2 DEF ConnectedIn
    <2>4. QED
      BY <1>5, <2>3 DEF m
  <1>6. CASE g \notin Fds
    BY <1>4, <1>6 DEF ConnectedIn, m
  <1>7. QED
    BY <1>5, <1>6

\* ::close on a listening socket empties the queue.
LEMMA QueueClosed ==
    ASSUME NEW o, NEW k, Kernel(o, k), NEW g
    PROVE  /\ g \in Fds /\ k[g].use = "listening" => QueueIn(ClosedAt(k, g)) = <<>>
           /\ ~(g \in Fds /\ k[g].use = "listening") =>
                QueueIn(ClosedAt(k, g)) = QueueIn(k)
  <1> DEFINE m == ClosedAt(k, g)
             p == Vacated(o, g)
  <1>1. \A x \in Fds : m[x] = IF x = g THEN NoSocket ELSE k[x]
    BY CloseEntries DEF Kernel, KernelTypes
  <1>2. NoSocket.use = "free"
    BY DEF NoSocket
  <1>3. Kernel(p, m)
    BY CloseKernel
  <1> HIDE DEF m, p
  <1>4. CASE g \in Fds /\ k[g].use = "listening"
    <2>1. \A x \in Fds : m[x].use # "listening"
      BY <1>1, <1>2, <1>4 DEF Kernel, OnePort, UsesPort
    <2>2. QED
      BY <1>3, <1>4, <2>1, QueueOf DEF m
  <1>5. CASE ~(g \in Fds /\ k[g].use = "listening")
    <2>1. \A x \in Fds : m[x].use = "listening" <=> k[x].use = "listening"
      BY <1>1, <1>2, <1>5
    <2>2. \A x \in Fds : k[x].use = "listening" => m[x].queue = k[x].queue
      BY <1>1, <1>5
    <2>3. QueueIn(m) = QueueIn(k)
      BY <1>3, <2>1, <2>2, QueueSame
    <2>4. QED
      BY <1>5, <2>3 DEF m
  <1>6. QED
    BY <1>4, <1>5

\* ::close closes the door, ends one client's visit, or concerns none.
LEMMA ClosePromised ==
    ASSUME NEW o, NEW k, Kernel(o, k), NEW g
    PROVE  Promised(QueueIn(k), ConnectedIn(k),
                    QueueIn(ClosedAt(k, g)), ConnectedIn(ClosedAt(k, g)))
  <1>1. CASE g \in Fds /\ k[g].use = "listening"
    <2>1. k[g].peer \notin ConnectedIn(k)
      BY <1>1 DEF Kernel, Sorted, ConnectedIn
    <2>2. ConnectedIn(ClosedAt(k, g)) = ConnectedIn(k)
      BY <1>1, <2>1, ConnectedClosed
    <2>3. QED
      BY <1>1, <2>2, QueueClosed DEF Promised
  <1>2. CASE ~(g \in Fds /\ k[g].use = "listening")
    <2>1. QueueIn(ClosedAt(k, g)) = QueueIn(k)
      BY <1>2, QueueClosed
    <2>2. CASE g \in Fds
      <3>1. ConnectedIn(ClosedAt(k, g)) = ConnectedIn(k) \ {k[g].peer}
        BY <2>2, ConnectedClosed
      <3>2. CASE k[g].peer \in ConnectedIn(k)
        BY <2>1, <3>1, <3>2 DEF Promised
      <3>3. CASE k[g].peer \notin ConnectedIn(k)
        <4>1. ConnectedIn(k) \ {k[g].peer} = ConnectedIn(k)
          BY <3>3
        <4>2. QED
          BY <2>1, <3>1, <4>1 DEF Promised
      <3>4. QED
        BY <3>2, <3>3
    <2>3. CASE g \notin Fds
      BY <2>1, <2>3, ConnectedClosed DEF Promised
    <2>4. QED
      BY <2>2, <2>3
  <1>3. QED
    BY <1>1, <1>2

\* A new socket has no queue, and its peer, if it is a client, is connected.
\* A socket s is opened at f.
OpenedAt(m, k, f, s) == \A x \in Fds : m[x] = IF x = f THEN s ELSE k[x]

\* The port is free for s.
FreeFor(s, k) == UsesPort(s) => \A g \in Fds : ~UsesPort(k[g])

LEMMA ViewOpened ==
    ASSUME NEW o, NEW k, Kernel(o, k), NEW f \in Fds, o[f] = Nobody,
           NEW s \in KernelSockets, s.queue = <<>>, FreeFor(s, k),
           NEW p, NEW m, Kernel(p, m), OpenedAt(m, k, f, s)
    PROVE  /\ QueueIn(m) = QueueIn(k)
           /\ ConnectedIn(m) = ConnectedIn(k) \cup ({s.peer} \cap Clients)
  <1>1. \A x \in Fds : m[x] = IF x = f THEN s ELSE k[x]
    BY DEF OpenedAt
  <1>2. k[f].use = "free" /\ k[f].peer = "nobody" /\ "nobody" \notin Clients
    BY DEF Kernel, Sorted, NoSocket
  <1>3. Kernel(p, m)
    OBVIOUS
  <1>4. QueueIn(m) = QueueIn(k)
    <2>1. CASE s.use = "listening"
      <3>1. \A x \in Fds : k[x].use # "listening"
        BY <2>1 DEF UsesPort, FreeFor
      <3>2. m[f].use = "listening" /\ m[f].queue = <<>>
        BY <1>1, <2>1
      <3>3. QED
        BY <1>3, <3>1, <3>2, QueueOf
    <2>2. CASE s.use # "listening"
      <3>1. \A x \in Fds : m[x].use = "listening" <=> k[x].use = "listening"
        BY <1>1, <1>2, <2>2
      <3>2. \A x \in Fds : k[x].use = "listening" => m[x].queue = k[x].queue
        BY <1>1, <1>2
      <3>3. QED
        BY <1>3, <3>1, <3>2, QueueSame
    <2>3. QED
      BY <2>1, <2>2
  <1>5. ConnectedIn(m) = ConnectedIn(k) \cup ({s.peer} \cap Clients)
    BY <1>1, <1>2 DEF ConnectedIn
  <1>6. QED
    BY <1>4, <1>5

\* ::accept itself: the first client leaves the queue.
LEMMA ViewPopped ==
    ASSUME NEW o, NEW k, Kernel(o, k), NEW l \in Fds, k[l].queue # <<>>
    PROVE  LET m == [k EXCEPT ![l].queue = Tail(@)]
           IN /\ QueueIn(k) = k[l].queue
              /\ QueueIn(m) = Tail(k[l].queue)
              /\ ConnectedIn(m) = ConnectedIn(k)
              /\ Head(k[l].queue) \in Clients
              /\ Head(k[l].queue) \notin ConnectedIn(k)
  <1> DEFINE m == [k EXCEPT ![l].queue = Tail(@)]
             c == Head(k[l].queue)
  <1>1. /\ Kernel(o, m) /\ c \in Clients
        /\ \A g \in Fds : m[g].peer # c
    BY PopKernel
  <1>2. k \in [Fds -> KernelSockets] /\ k[l].use = "listening"
    BY DEF Kernel, KernelTypes, Sorted
  <1>3. /\ \A x \in Fds : m[x].use = k[x].use /\ m[x].peer = k[x].peer
        /\ m[l].queue = Tail(k[l].queue)
    BY <1>2 DEF KernelSockets
  <1> HIDE DEF m, c
  <1>4. QueueIn(k) = k[l].queue
    BY <1>2, QueueOf
  <1>5. QueueIn(m) = Tail(k[l].queue)
    BY <1>1, <1>2, <1>3, QueueOf
  <1>6. ConnectedIn(m) = ConnectedIn(k)
    BY <1>3 DEF ConnectedIn
  <1>7. c \notin ConnectedIn(m)
    BY <1>1 DEF ConnectedIn
  <1>8. QED
    BY <1>1, <1>4, <1>5, <1>6, <1>7 DEF m, c

\* What the clients see of a step that neither ends the process nor has its
\* ::close report an error.
Keeps ==
    Promised(QueueIn(sock), ConnectedIn(sock), QueueIn(sock'), ConnectedIn(sock'))

LEMMA SameKeeps == ASSUME sock' = sock PROVE Keeps
  BY DEF Keeps, Promised

LEMMA CloseKeeps ==
    ASSUME Consistent(socket, owner, sock), NEW g, sock' = ClosedAt(sock, g)
    PROVE  Keeps
  BY ClosePromised DEF Consistent, Keeps

LEMMA OpenKeeps ==
    ASSUME Consistent(socket, owner, sock), Consistent(socket', owner', sock'),
           NEW f \in FreeFds,
           NEW s \in {BoundSocket, ListenSocket, Connection(Remote)},
           UsesPort(s) => PortIsFree,
           Opens(f, s)
    PROVE  Keeps
  <1>1. f \in Fds /\ owner[f] = Nobody
    BY DEF FreeFds
  <1>2. s \in KernelSockets /\ s.queue = <<>> /\ s.peer \notin Clients
    BY OpenedTypes
  <1>3. OpenedAt(sock', sock, f, s)
    BY DEF Opens, OpensAndCloses, Consistent, Kernel, KernelTypes, OpenedAt
  <1>4. FreeFor(s, sock)
    BY FreePort DEF Consistent, FreeFor
  <1>5. Kernel(owner, sock) /\ Kernel(owner', sock')
    BY DEF Consistent
  <1>6. /\ QueueIn(sock') = QueueIn(sock)
        /\ ConnectedIn(sock') = ConnectedIn(sock) \cup ({s.peer} \cap Clients)
    BY <1>1, <1>2, <1>3, <1>4, <1>5, ViewOpened
  <1>7. ConnectedIn(sock') = ConnectedIn(sock)
    BY <1>2, <1>6
  <1>8. QED
    BY <1>6, <1>7 DEF Keeps, Promised

LEMMA SocketStepKeeps ==
    ASSUME Consistent(socket, owner, sock), NEW p \in Sockets, SocketStep(p), ~Dies
    PROVE  Keeps
  <1>1. CASE Construct(p)
    BY <1>1, SameKeeps DEF Construct
  <1>2. CASE Destroy(p)
    <2>1. sock' = ClosedAt(sock, socket[p].fd)
      BY <1>2 DEF Destroy, Closes, ClosedAt
    <2>2. QED
      BY <2>1, CloseKeeps
  <1>3. CASE Close(p) \/ Reset(p)
    <2>1. sock' = ClosedAt(sock, socket[p].fd)
      BY <1>3 DEF Close, Reset, ClosesInto, Closes, ClosedAt
    <2>2. QED
      BY <2>1, CloseKeeps
  <1>4. ASSUME NEW q \in Sockets, MoveConstruct(p, q) PROVE Keeps
    BY <1>4, SameKeeps DEF MoveConstruct
  <1>5. ASSUME NEW q \in Sockets, MoveAssign(p, q) PROVE Keeps
    <2>1. sock' = ClosedAt(sock, socket[p].fd)
      BY <1>5 DEF MoveAssign, Closes, ClosedAt
    <2>2. QED
      BY <2>1, CloseKeeps
  <1>6. CASE CallMovedFrom(p)
    BY <1>6 DEF CallMovedFrom
  <1>7. QED
    BY <1>1, <1>2, <1>3, <1>4, <1>5, <1>6 DEF SocketStep

LEMMA AcceptKeeps ==
    ASSUME Consistent(socket, owner, sock),
           NEW s \in ServerSockets, NEW t \in StreamSockets, Accept(s, t), ~Dies
    PROVE  Keeps
  <1> DEFINE g == socket[t].fd
             l == socket[s].fd
             c == Head(sock[l].queue)
             popped == [sock EXCEPT ![l].queue = Tail(@)]
             shut == ClosedAt(popped, g)
  <1>1. PICK f \in FreeFds :
            /\ CanAccept(s)
            /\ owner' = Vacated([owner EXCEPT ![f] = Library], g)
            /\ sock' = IF g \in Fds THEN [Accepted(s, f) EXCEPT ![g] = NoSocket]
                                    ELSE Accepted(s, f)
    BY DEF Accept
  <1>2. /\ sock' = [shut EXCEPT ![f] = Connection(c)]
        /\ Consistent([socket EXCEPT ![s].state = "ACCEPTING",
                                     ![t] = Fsm("CONNECTED", f, c)],
                      Vacated([owner EXCEPT ![f] = Library], g),
                      [shut EXCEPT ![f] = Connection(c)])
        /\ f # g
    BY <1>1, AcceptConsistent
  <1>3. /\ l \in Fds /\ sock[l].queue # <<>> /\ c \in Clients
        /\ Consistent([socket EXCEPT ![s].state = "ACCEPTING"], owner, popped)
    BY <1>1, PopConsistent
  <1>4. Kernel(owner, sock) /\ Kernel(owner, popped)
        /\ Kernel(owner', sock')
    BY <1>1, <1>2, <1>3 DEF Consistent
  <1>5. /\ QueueIn(sock) = sock[l].queue
        /\ QueueIn(popped) = Tail(sock[l].queue)
        /\ ConnectedIn(popped) = ConnectedIn(sock)
        /\ c \notin ConnectedIn(sock)
    BY <1>3, <1>4, ViewPopped
  <1>6. /\ sock \in [Fds -> KernelSockets] /\ popped \in [Fds -> KernelSockets]
        /\ owner \in Owners
    BY <1>4 DEF Kernel, KernelTypes
  <1>7. f \in Fds /\ owner[f] = Nobody /\ t \in Sockets
    BY DEF FreeFds, Sockets
  <1>8. g \in Fds => sock[g].use = "connected" /\ popped[g].use = "connected"
    <2>1. \A x \in Fds : popped[x].use = sock[x].use
      BY <1>3, <1>6 DEF KernelSockets
    <2>2. g \in Fds => Says(t, socket[t], sock[g])
      BY <1>7 DEF Consistent, AllTrue
    <2>3. QED
      BY <2>1, <2>2 DEF Says
  <1>9. /\ Connection(c) \in KernelSockets /\ Connection(c).queue = <<>>
        /\ Connection(c).use = "connected" /\ Connection(c).peer = c
    BY <1>3, OpenedTypes
  <1>10. Vacated(owner, g)[f] = Nobody
    BY <1>6, <1>7, CloseEntries
  <1> HIDE DEF popped, c
  <1>11. QueueIn(shut) = Tail(sock[l].queue) /\ Kernel(Vacated(owner, g), shut)
    BY <1>4, <1>5, <1>8, QueueClosed, CloseKernel
  <1>12. \/ ConnectedIn(shut) = ConnectedIn(sock)
         \/ \E lost \in ConnectedIn(sock) : ConnectedIn(shut) = ConnectedIn(sock) \ {lost}
    <2>1. CASE g \in Fds
      <3>1. ConnectedIn(shut) = ConnectedIn(sock) \ {popped[g].peer}
        BY <1>4, <1>5, <2>1, ConnectedClosed
      <3>2. CASE popped[g].peer \in ConnectedIn(sock)
        BY <3>1, <3>2
      <3>3. CASE popped[g].peer \notin ConnectedIn(sock)
        <4>1. ConnectedIn(sock) \ {popped[g].peer} = ConnectedIn(sock)
          BY <3>3
        <4>2. QED
          BY <3>1, <4>1
      <3>4. QED
        BY <3>2, <3>3
    <2>2. CASE g \notin Fds
      BY <1>4, <1>5, <2>2, ConnectedClosed
    <2>3. QED
      BY <2>1, <2>2
  <1> HIDE DEF shut, g, l
  <1>13. /\ QueueIn(sock') = Tail(sock[l].queue)
         /\ ConnectedIn(sock') = ConnectedIn(shut) \cup {c}
    <2>1. ~UsesPort(Connection(c))
      BY <1>9 DEF UsesPort
    <2>2. {Connection(c).peer} \cap Clients = {c}
      BY <1>3, <1>9
    <2>3. OpenedAt(sock', shut, f, Connection(c)) /\ FreeFor(Connection(c), shut)
      BY <1>2, <1>11, <2>1 DEF Kernel, KernelTypes, OpenedAt, FreeFor
    <2>4. /\ QueueIn(sock') = QueueIn(shut)
          /\ ConnectedIn(sock')
                = ConnectedIn(shut) \cup ({Connection(c).peer} \cap Clients)
      BY <1>4, <1>7, <1>9, <1>10, <1>11, <2>1, <2>3, ViewOpened
    <2>5. QED
      BY <1>11, <2>2, <2>4
  <1>14. c = Head(QueueIn(sock)) /\ QueueIn(sock) # <<>>
    BY <1>3, <1>5 DEF c
  <1>15. LET candidates == ConnectedIn(sock) \cup {c}
         IN \/ ConnectedIn(sock') = candidates
            \/ \E lost \in candidates : ConnectedIn(sock') = candidates \ {lost}
    <2>1. CASE ConnectedIn(shut) = ConnectedIn(sock)
      BY <1>13, <2>1
    <2>2. ASSUME NEW lost \in ConnectedIn(sock),
                 ConnectedIn(shut) = ConnectedIn(sock) \ {lost}
          PROVE  ConnectedIn(sock') = (ConnectedIn(sock) \cup {c}) \ {lost}
      <3>1. lost # c
        BY <1>5
      <3>2. QED
        BY <1>13, <2>2, <3>1
    <2>3. QED
      BY <1>12, <2>1, <2>2
  <1>16. QED
    BY <1>5, <1>13, <1>14, <1>15 DEF Keeps, Promised

LEMMA ServerStepKeeps ==
    ASSUME Consistent(socket, owner, sock), Consistent(socket', owner', sock'),
           NEW s \in ServerSockets, ServerStep(s), ~Dies
    PROVE  Keeps
  <1>1. CASE ConstructListening(s)
    <2>1. PICK f \in FreeFds : Opens(f, ListenSocket) /\ PortIsFree
      BY <1>1 DEF ConstructListening, UnwindingThrows
    <2>2. QED
      BY <2>1, OpenKeeps
  <1>2. CASE Bind(s)
    <2>1. PICK f \in FreeFds : Opens(f, BoundSocket) /\ PortIsFree
      BY <1>2 DEF Bind, UnwindingThrows
    <2>2. QED
      BY <2>1, OpenKeeps
  <1>3. CASE Listen(s)
    <2> DEFINE l == socket[s].fd
    <2>1. /\ l \in Fds /\ sock[l].use = "bound"
          /\ sock' = [sock EXCEPT ![l] = ListenSocket]
      BY <1>3 DEF Listen, IsOpen
    <2>2. Kernel(owner, sock) /\ Kernel(owner', sock') /\ sock \in [Fds -> KernelSockets]
      BY DEF Consistent, Kernel, KernelTypes
    <2>3. /\ \A x \in Fds \ {l} : sock'[x] = sock[x]
          /\ sock'[l].use = "listening" /\ sock'[l].queue = <<>>
          /\ sock'[l].peer = "nobody"
      BY <2>1, <2>2, OpenedTypes
    <2>4. \A x \in Fds : sock[x].use # "listening"
      BY <2>1, <2>2 DEF Kernel, OnePort, UsesPort
    <2>5. QueueIn(sock) = <<>> /\ QueueIn(sock') = <<>>
      BY <2>1, <2>2, <2>3, <2>4, QueueOf
    <2>6. sock[l].peer = "nobody"
      BY <2>1, <2>2 DEF Kernel, Sorted
    <2>7. \A x \in Fds : sock'[x].peer = sock[x].peer
      BY <2>3, <2>6
    <2>8. ConnectedIn(sock') = ConnectedIn(sock)
      BY <2>7 DEF ConnectedIn
    <2>9. QED
      BY <2>5, <2>8 DEF Keeps, Promised
  <1>4. ASSUME NEW t \in StreamSockets, Accept(s, t) PROVE Keeps
    BY <1>4, AcceptKeeps
  <1>5. CASE AcceptThrows(s)
    <2> DEFINE l == socket[s].fd
               c == Head(sock[l].queue)
    <2>1. CanAccept(s) /\ sock' = [sock EXCEPT ![l].queue = Tail(@)]
      BY <1>5 DEF AcceptThrows
    <2>2. l \in Fds /\ sock[l].queue # <<>> /\ Kernel(owner, sock)
      BY <2>1 DEF CanAccept, IsOpen, Consistent
    <2>3. /\ QueueIn(sock) = sock[l].queue
          /\ QueueIn(sock') = Tail(sock[l].queue)
          /\ ConnectedIn(sock') = ConnectedIn(sock)
          /\ c \notin ConnectedIn(sock)
      BY <2>1, <2>2, ViewPopped
    <2>4. ConnectedIn(sock') = (ConnectedIn(sock) \cup {c}) \ {c}
      BY <2>3
    <2>5. QED
      BY <2>2, <2>3, <2>4 DEF Keeps, Promised
  <1>6. QED
    BY <1>1, <1>2, <1>3, <1>4, <1>5 DEF ServerStep

LEMMA StreamStepKeeps ==
    ASSUME Consistent(socket, owner, sock), Consistent(socket', owner', sock'),
           NEW t \in StreamSockets, StreamStep(t), ~Dies
    PROVE  Keeps
  <1>1. CASE Connect(t)
    <2>1. PICK f \in FreeFds : Opens(f, Connection(Remote))
      BY <1>1 DEF Connect, UnwindingThrows
    <2>2. QED
      BY <2>1, OpenedTypes, OpenKeeps DEF UsesPort
  <1>2. ASSUME NEW half, NEW other, CloseHalf(t, half, other) PROVE Keeps
    <2>1. CASE Close(t)
      BY <2>1, SocketStepKeeps DEF SocketStep, Sockets
    <2>2. CASE ~Close(t)
      BY <1>2, <2>2, SameKeeps DEF CloseHalf
    <2>3. QED
      BY <2>1, <2>2
  <1>3. CASE ResetConnection(t)
    <2> DEFINE o == socket[t]
               g == o.fd
               v == Vacated(owner, g)
               m == ClosedAt(sock, g)
               s == Connection(Remote)
    <2>1. CASE ClosesInto(t, Fsm(o.state, NO_FD, o.peer))
      <3>1. sock' = ClosedAt(sock, g)
        BY <2>1 DEF ClosesInto, Closes, ClosedAt
      <3>2. QED
        BY <3>1, CloseKeeps
    <2>2. CASE ~ClosesInto(t, Fsm(o.state, NO_FD, o.peer))
      <3>1. PICK f \in Fds :
                /\ v[f] = Nobody
                /\ o.peer = Remote
                /\ sock' = [x \in Fds |-> IF x = f THEN Connection(Remote)
                                          ELSE IF x = g THEN NoSocket ELSE sock[x]]
        BY <1>3, <2>2 DEF ResetConnection
      <3>2. Kernel(owner, sock) /\ Kernel(owner', sock') /\ Kernel(v, m)
        BY CloseKernel DEF Consistent
      <3>3. /\ m \in [Fds -> KernelSockets]
            /\ \A x \in Fds : m[x] = IF x = g THEN NoSocket ELSE sock[x]
        BY CloseEntries DEF Consistent, Kernel, KernelTypes
      <3>4. g \in Fds => sock[g].use = "connected" /\ sock[g].peer = Remote
        BY <3>1 DEF Consistent, AllTrue, Says, Sockets
      <3> HIDE DEF v, m
      <3>5. \A x \in Fds : sock'[x] = IF x = f THEN Connection(Remote) ELSE m[x]
        BY <3>1, <3>3
      <3>6. QueueIn(m) = QueueIn(sock)
        BY <3>2, <3>4, QueueClosed DEF m
      <3>7. ConnectedIn(m) = ConnectedIn(sock)
        <4>1. Remote \notin ConnectedIn(sock)
          BY DEF ConnectedIn
        <4>2. CASE g \in Fds
          <5>1. ConnectedIn(m) = ConnectedIn(sock) \ {Remote}
            BY <3>2, <3>4, <4>2, ConnectedClosed DEF m
          <5>2. QED
            BY <4>1, <5>1
        <4>3. CASE g \notin Fds
          BY <3>2, <4>3, ConnectedClosed DEF m
        <4>4. QED
          BY <4>2, <4>3
      <3>8. s \in KernelSockets /\ s.queue = <<>> /\ s.use = "connected" /\ s.peer = Remote
        BY OpenedTypes
      <3> HIDE DEF s, g
      <3>9. ~UsesPort(s) /\ {s.peer} \cap Clients = {}
        BY <3>8 DEF UsesPort
      <3>10. /\ QueueIn(sock') = QueueIn(m)
             /\ ConnectedIn(sock') = ConnectedIn(m) \cup ({s.peer} \cap Clients)
        <4>1. OpenedAt(sock', m, f, s) /\ FreeFor(s, m)
          BY <3>5, <3>9 DEF s, OpenedAt, FreeFor
        <4>2. v[f] = Nobody
          BY <3>1
        <4>3. QED
          BY <3>2, <3>8, <3>9, <4>1, <4>2, ViewOpened
      <3>11. QueueIn(sock') = QueueIn(sock) /\ ConnectedIn(sock') = ConnectedIn(sock)
        BY <3>6, <3>7, <3>9, <3>10
      <3>12. QED
        BY <3>11 DEF Keeps, Promised
    <2>3. QED
      BY <2>1, <2>2
  <1>4. QED
    BY <1>1, <1>2, <1>3 DEF StreamStep

LEMMA ClientConnectsKeeps ==
    ASSUME Consistent(socket, owner, sock), Consistent(socket', owner', sock'),
           NEW c \in Clients, ClientConnects(c)
    PROVE  Keeps
  <1>1. /\ Kernel(owner, sock) /\ Kernel(owner', sock')
        /\ sock \in [Fds -> KernelSockets]
    BY DEF Consistent, Kernel, KernelTypes
  <1>2. PICK l \in Fds :
            /\ sock[l].use = "listening"
            /\ sock' = [sock EXCEPT ![l].queue = Append(@, c)]
    BY DEF ClientConnects
  <1>3. /\ \A x \in Fds : sock'[x].use = sock[x].use /\ sock'[x].peer = sock[x].peer
        /\ sock'[l].queue = Append(sock[l].queue, c)
    BY <1>1, <1>2 DEF KernelSockets
  <1>4. QueueIn(sock) = sock[l].queue /\ QueueIn(sock') = Append(sock[l].queue, c)
    <2>1. sock[l].use = "listening" /\ sock'[l].use = "listening"
      BY <1>2, <1>3
    <2>2. QueueIn(sock) = sock[l].queue
      BY <1>1, <2>1, QueueOf
    <2>3. QueueIn(sock') = sock'[l].queue
      BY <1>1, <2>1, QueueOf
    <2>4. QED
      BY <1>3, <2>2, <2>3
  <1>5. ConnectedIn(sock') = ConnectedIn(sock)
    BY <1>3 DEF ConnectedIn
  <1>6. c \notin ConnectedIn(sock)
    BY DEF ClientConnects, ConnectedTo, ConnectedIn
  <1>7. \A i \in DOMAIN sock[l].queue : sock[l].queue[i] # c
    BY <1>2 DEF ClientConnects, Waiting
  <1>8. QED
    BY <1>4, <1>5, <1>6, <1>7 DEF Keeps, Promised

\* Every step that does not end the reception.
LEMMA NextKeeps ==
    ASSUME Consistent(socket, owner, sock), Consistent(socket', owner', sock'),
           Next, ~Dies
    PROVE  Keeps
  BY SocketStepKeeps, ServerStepKeeps, StreamStepKeeps, ClientConnectsKeeps DEF Next

\* After the end of the process nothing happens.
LEMMA EndIsFinal ==
    ASSUME Inv, Next
    PROVE  running /\ ~closeErred
  <1>1. ~closeErred
    BY DEF Next
  <1>2. ASSUME NEW p \in Sockets, SocketStep(p) PROVE running
    BY <1>2
    DEF SocketStep, Construct, Destroy, Close, Reset, MoveConstruct, MoveAssign,
        CallMovedFrom, IsFresh, Exists, HasFsm
  <1>3. ASSUME NEW s \in ServerSockets, ServerStep(s) PROVE running
    BY <1>3
    DEF ServerStep, ConstructListening, Bind, Listen, Accept, AcceptThrows, CanAccept,
        IsFresh, HasFsm
  <1>4. ASSUME NEW t \in StreamSockets, StreamStep(t) PROVE running
    BY <1>4 DEF StreamStep, Connect, ResetConnection, CloseHalf, Close, HasFsm
  <1>5. ASSUME NEW c \in Clients, ClientConnects(c) PROVE running
    BY <1>5 DEF ClientConnects, Inv, NoSocket
  <1>6. QED
    BY <1>1, <1>2, <1>3, <1>4, <1>5 DEF Next

\* A step that keeps the promise is one of Reception, or none.
LEMMA PromiseKept ==
    ASSUME ~Ended, ~Ended', Promised(Queue, Served, Queue', Served')
    PROVE  [~Ended /\ Service!Next]_(Service!vars)
  <1>1. /\ (IF Ended THEN <<>> ELSE Queue) = Queue
        /\ (IF Ended THEN {} ELSE Served) = Served
        /\ (IF Ended THEN <<>> ELSE Queue)' = Queue'
        /\ (IF Ended THEN {} ELSE Served)' = Served'
    OBVIOUS
  <1>2. Ended' = Ended
    BY DEF Ended
  <1>3. CASE Queue' = Queue /\ Served' = Served
    BY <1>1, <1>2, <1>3 DEF Service!vars
  <1>4. ASSUME NEW c \in Clients,
               c \notin Served, \A i \in DOMAIN Queue : Queue[i] # c,
               Queue' = Append(Queue, c), Served' = Served
        PROVE  Service!Next
    BY <1>1, <1>2, <1>4 DEF Service!Next, Service!Arrive
  <1>5. CASE /\ Queue # <<>> /\ Queue' = Tail(Queue)
             /\ LET candidates == Served \cup {Head(Queue)}
                IN \/ Served' = candidates
                   \/ \E lost \in candidates : Served' = candidates \ {lost}
    BY <1>1, <1>2, <1>5 DEF Service!Next, Service!Serve
  <1>6. ASSUME NEW c \in Served, Queue' = Queue, Served' = Served \ {c}
        PROVE  Service!Next
    <2>1. c \in Clients
      BY DEF Served
    <2>2. QED
      BY <1>1, <1>2, <1>6, <2>1 DEF Service!Next, Service!Leave
  <1>7. CASE Queue' = <<>> /\ Served' = Served
    BY <1>1, <1>2, <1>7 DEF Service!Next, Service!CloseDoor
  <1>8. QED
    BY <1>3, <1>4, <1>5, <1>6, <1>7 DEF Promised

LEMMA ServiceInit == Init => Service!Init
  <1> SUFFICES ASSUME Init PROVE Service!Init
    OBVIOUS
  <1>1. ~Ended /\ Ended = FALSE
    BY DEF Init, Ended
  <1>2. \A f \in Fds : sock[f] = NoSocket
    BY DEF Init
  <1>3. Queue = <<>>
    BY <1>2 DEF Queue, NoSocket
  <1>4. Served = {}
    BY DEF Init, Served, Serves, IsOpen
  <1>5. QED
    BY <1>1, <1>3, <1>4 DEF Service!Init

LEMMA ServiceNext == Inv /\ Inv' /\ [Next]_vars => [~Ended /\ Service!Next]_(Service!vars)
  <1> SUFFICES ASSUME Inv, Inv', [Next]_vars
               PROVE  [~Ended /\ Service!Next]_(Service!vars)
    OBVIOUS
  <1>1. CASE UNCHANGED vars
    <2>1. Queue' = Queue /\ Served' = Served /\ Ended' = Ended
      BY <1>1 DEF vars, Queue, Served, Serves, Ended, IsOpen
    <2>2. QED
      BY <2>1 DEF Service!vars
  <1>2. CASE Next
    <2>1. running /\ ~closeErred /\ ~Ended
      BY <1>2, EndIsFinal DEF Ended
    <2>2. CASE Ended'
      <3>1. Ended' = TRUE
        BY <2>2 DEF Ended
      <3>2. Service!End
        BY <2>2, <3>1 DEF Service!End
      <3>3. QED
        BY <2>1, <3>2 DEF Service!Next
    <2>3. CASE ~Ended'
      <3>1. Consistent(socket, owner, sock) /\ Consistent(socket', owner', sock')
        BY <2>1, <2>3 DEF Inv, Ended
      <3>2. ~Dies
        BY <2>3 DEF Dies, Ended
      <3>3. Keeps
        BY <1>2, <3>1, <3>2, NextKeeps
      <3>4. Served = ServedIn(socket, owner, sock)
            /\ Served' = ServedIn(socket', owner', sock')
        BY DEF Served, Serves, ServedIn, IsOpen
      <3>5. Served = ConnectedIn(sock) /\ Served' = ConnectedIn(sock')
        BY <3>1, <3>4, ServedAreConnected
      <3>6. Queue = QueueIn(sock) /\ Queue' = QueueIn(sock')
        BY DEF Queue, QueueIn
      <3>7. Promised(Queue, Served, Queue', Served')
        BY <3>3, <3>5, <3>6 DEF Keeps
      <3>8. QED
        BY <2>1, <2>3, <3>7, PromiseKept
    <2>4. QED
      BY <2>2, <2>3
  <1>3. QED
    BY <1>1, <1>2

\* The two classes implement Reception: accept() serves the clients in the
\* order in which they came, and no call, whether it returns or throws, costs
\* more than one of them its place.
THEOREM ReceptionIsImplemented == Spec => ClientsAreServed
  <1>1. Spec => []Inv
    BY Invariance
  <1>2. QED
    BY <1>1, ServiceInit, ServiceNext, PTL DEF Spec, ClientsAreServed, Service!Spec

-----------------------------------------------------------------------------
(* Who can end the connection of a client.                                 *)

\* The connection of client c, which t holds, is no longer there after a step.
Loses(t, c) == Serves(t, c) /\ c \notin ConnectedIn(sock')

\* A step that keeps the peer of every other number than that of p loses the
\* connection of p, if it loses one.
LEMMA OnlyItsHolder ==
    ASSUME Consistent(socket, owner, sock),
           NEW t \in StreamSockets, NEW c \in Clients, Loses(t, c),
           NEW p \in Sockets,
           \A x \in Fds : x # socket[p].fd /\ sock[x].peer = c => sock'[x].peer = c
    PROVE  p = t
  <1>1. t \in Sockets /\ socket[t].fd \in Fds /\ sock[socket[t].fd].peer = c
    BY DEF Loses, Serves, IsOpen, Sockets
  <1>2. sock'[socket[t].fd].peer # c
    BY <1>1 DEF Loses, ConnectedIn
  <1>3. socket[p].fd = socket[t].fd
    BY <1>1, <1>2
  <1>4. QED
    BY <1>1, <1>3 DEF Consistent, Alone

\* A step that keeps every peer loses no connection.
LEMMA NobodyLoses ==
    ASSUME NEW t \in StreamSockets, NEW c \in Clients,
           \A x \in Fds : sock[x].peer = c => sock'[x].peer = c
    PROVE  ~Loses(t, c)
  BY DEF Loses, Serves, IsOpen, ConnectedIn

LEMMA LostByClose ==
    ASSUME Consistent(socket, owner, sock),
           NEW t \in StreamSockets, NEW c \in Clients, Loses(t, c),
           NEW p \in Sockets, sock' = ClosedAt(sock, socket[p].fd)
    PROVE  p = t
  <1>1. \A x \in Fds : x # socket[p].fd => sock'[x] = sock[x]
    BY CloseEntries DEF Consistent, Kernel, KernelTypes
  <1>2. QED
    BY <1>1, OnlyItsHolder

\* Opening a free number loses nobody.
LEMMA OpenLosesNobody ==
    ASSUME Consistent(socket, owner, sock),
           NEW t \in StreamSockets, NEW c \in Clients,
           NEW f \in FreeFds, NEW s, Opens(f, s)
    PROVE  ~Loses(t, c)
  <1>1. f \in Fds /\ sock[f].peer = "nobody" /\ c # "nobody"
    BY DEF FreeFds, Consistent, Kernel, Sorted, NoSocket
  <1>2. \A x \in Fds : x # f => sock'[x] = sock[x]
    BY DEF Opens, OpensAndCloses, Consistent, Kernel, KernelTypes
  <1>3. QED
    BY <1>1, <1>2, NobodyLoses

LEMMA SocketStepLoses ==
    ASSUME Consistent(socket, owner, sock),
           NEW t \in StreamSockets, NEW c \in Clients, Loses(t, c),
           NEW p \in Sockets, SocketStep(p), ~Dies
    PROVE  GivesUp(t)
  <1>1. sock' # sock
    BY NobodyLoses
  <1>2. CASE Destroy(p)
    <2>1. sock' = ClosedAt(sock, socket[p].fd)
      BY <1>2 DEF Destroy, Closes, ClosedAt
    <2>2. p = t
      BY <2>1, LostByClose
    <2>3. QED
      BY <1>2, <2>2 DEF GivesUp
  <1>3. CASE Close(p) \/ Reset(p)
    <2>1. sock' = ClosedAt(sock, socket[p].fd)
      BY <1>3 DEF Close, Reset, ClosesInto, Closes, ClosedAt
    <2>2. p = t
      BY <2>1, LostByClose
    <2>3. QED
      BY <1>3, <2>2 DEF GivesUp
  <1>4. ASSUME NEW q \in Sockets, MoveAssign(p, q) PROVE GivesUp(t)
    <2>1. sock' = ClosedAt(sock, socket[p].fd) /\ SameClass(p, q)
      BY <1>4 DEF MoveAssign, Closes, ClosedAt
    <2>2. p = t
      BY <2>1, LostByClose
    <2>3. q \in StreamSockets
      BY <2>1, <2>2 DEF SameClass
    <2>4. QED
      BY <1>4, <2>2, <2>3 DEF GivesUp
  <1>5. QED
    BY <1>1, <1>2, <1>3, <1>4
    DEF SocketStep, Construct, MoveConstruct, CallMovedFrom

\* Assigning a new connection to u ends the one that u had.
LEMMA AcceptLoses ==
    ASSUME Consistent(socket, owner, sock),
           NEW t \in StreamSockets, NEW c \in Clients, Loses(t, c),
           NEW s \in ServerSockets, NEW u \in StreamSockets, Accept(s, u), ~Dies
    PROVE  GivesUp(t)
  <1> DEFINE l == socket[s].fd
             g == socket[u].fd
  <1>1. PICK f \in FreeFds :
            sock' = IF g \in Fds THEN [Accepted(s, f) EXCEPT ![g] = NoSocket]
                                 ELSE Accepted(s, f)
    BY DEF Accept
  <1>2. /\ f \in Fds /\ sock[f].peer = "nobody" /\ c # "nobody"
        /\ sock \in [Fds -> KernelSockets]
    BY DEF FreeFds, Consistent, Kernel, KernelTypes, Sorted, NoSocket
  <1>3. \A x \in Fds : x # f => Accepted(s, f)[x].peer = sock[x].peer
    BY <1>2 DEF Accepted, KernelSockets
  <1>4. Accepted(s, f) \in [Fds -> {Accepted(s, f)[x] : x \in Fds}]
    BY <1>2 DEF Accepted
  <1> HIDE DEF g
  <1>5. \A x \in Fds : x # g => sock'[x] = Accepted(s, f)[x]
    BY <1>1, <1>4
  <1>6. \A x \in Fds : x # g /\ sock[x].peer = c => sock'[x].peer = c
    BY <1>2, <1>3, <1>5
  <1>7. u \in Sockets
    BY DEF Sockets
  <1>8. u = t
    BY <1>6, <1>7, OnlyItsHolder DEF g
  <1>9. QED
    BY <1>8 DEF GivesUp

LEMMA ServerStepLoses ==
    ASSUME Consistent(socket, owner, sock),
           NEW t \in StreamSockets, NEW c \in Clients, Loses(t, c),
           NEW s \in ServerSockets, ServerStep(s), ~Dies
    PROVE  GivesUp(t)
  <1>1. CASE ConstructListening(s)
    <2>1. PICK f \in FreeFds : Opens(f, ListenSocket)
      BY <1>1 DEF ConstructListening, UnwindingThrows
    <2>2. QED
      BY <2>1, OpenLosesNobody
  <1>2. CASE Bind(s)
    <2>1. PICK f \in FreeFds : Opens(f, BoundSocket)
      BY <1>2 DEF Bind, UnwindingThrows
    <2>2. QED
      BY <2>1, OpenLosesNobody
  <1>3. CASE Listen(s)
    <2> DEFINE l == socket[s].fd
    <2>1. /\ l \in Fds /\ sock[l].use = "bound"
          /\ sock' = [sock EXCEPT ![l] = ListenSocket]
      BY <1>3 DEF Listen, IsOpen
    <2>2. sock[l].peer = "nobody" /\ c # "nobody" /\ sock \in [Fds -> KernelSockets]
      BY <2>1 DEF Consistent, Kernel, KernelTypes, Sorted
    <2> HIDE DEF l
    <2>3. \A x \in Fds : x # l => sock'[x] = sock[x]
      BY <2>1, <2>2
    <2>4. QED
      BY <2>2, <2>3, NobodyLoses
  <1>4. ASSUME NEW u \in StreamSockets, Accept(s, u) PROVE GivesUp(t)
    BY <1>4, AcceptLoses
  <1>5. CASE AcceptThrows(s)
    <2>1. /\ sock' = [sock EXCEPT ![socket[s].fd].queue = Tail(@)]
          /\ sock \in [Fds -> KernelSockets]
      BY <1>5 DEF AcceptThrows, Consistent, Kernel, KernelTypes
    <2>2. \A x \in Fds : sock'[x].peer = sock[x].peer
      BY <2>1 DEF KernelSockets
    <2>3. QED
      BY <2>2, NobodyLoses
  <1>6. QED
    BY <1>1, <1>2, <1>3, <1>4, <1>5 DEF ServerStep

LEMMA StreamStepLoses ==
    ASSUME Consistent(socket, owner, sock),
           NEW t \in StreamSockets, NEW c \in Clients, Loses(t, c),
           NEW u \in StreamSockets, StreamStep(u), ~Dies
    PROVE  GivesUp(t)
  <1>0. u \in Sockets
    BY DEF Sockets
  <1>1. CASE Connect(u)
    <2>1. PICK f \in FreeFds : Opens(f, Connection(Remote))
      BY <1>1 DEF Connect, UnwindingThrows
    <2>2. QED
      BY <2>1, OpenLosesNobody
  <1>2. ASSUME NEW half, NEW other, CloseHalf(u, half, other) PROVE GivesUp(t)
    <2>1. CASE Close(u)
      BY <1>0, <2>1, SocketStepLoses DEF SocketStep
    <2>2. CASE ~Close(u)
      BY <1>2, <2>2, NobodyLoses DEF CloseHalf
    <2>3. QED
      BY <2>1, <2>2
  <1>3. CASE ResetConnection(u)
    <2> DEFINE o == socket[u]
               g == o.fd
    <2>1. \A x \in Fds : x # g /\ sock[x].peer = c => sock'[x].peer = c
      <3>1. CASE ClosesInto(u, Fsm(o.state, NO_FD, o.peer))
        <4>1. sock' = ClosedAt(sock, g)
          BY <3>1 DEF ClosesInto, Closes, ClosedAt
        <4>2. QED
          BY <4>1, CloseEntries DEF Consistent, Kernel, KernelTypes
      <3>2. CASE ~ClosesInto(u, Fsm(o.state, NO_FD, o.peer))
        <4>1. PICK f \in Fds :
                  /\ Vacated(owner, g)[f] = Nobody
                  /\ sock' = [x \in Fds |-> IF x = f THEN Connection(Remote)
                                            ELSE IF x = g THEN NoSocket ELSE sock[x]]
          BY <1>3, <3>2 DEF ResetConnection
        <4>2. f = g \/ owner[f] = "nobody"
          BY <4>1, CloseEntries DEF Consistent, Kernel, KernelTypes
        <4>3. f # g => sock[f].peer = "nobody"
          BY <4>2 DEF Consistent, Kernel, Sorted, NoSocket
        <4>4. c # "nobody"
          OBVIOUS
        <4> HIDE DEF g
        <4>5. QED
          BY <4>1, <4>3, <4>4
      <3>3. QED
        BY <3>1, <3>2
    <2>2. u = t
      BY <1>0, <2>1, OnlyItsHolder
    <2>3. QED
      BY <1>3, <2>2 DEF GivesUp
  <1>4. QED
    BY <1>1, <1>2, <1>3 DEF StreamStep

LEMMA NextLoses ==
    ASSUME Consistent(socket, owner, sock),
           NEW t \in StreamSockets, NEW c \in Clients, Loses(t, c),
           Next, ~Dies
    PROVE  GivesUp(t)
  <1>1. ASSUME NEW d \in Clients, ClientConnects(d) PROVE FALSE
    <2>1. PICK f \in Fds : sock' = [sock EXCEPT ![f].queue = Append(@, d)]
      BY <1>1 DEF ClientConnects
    <2>2. sock \in [Fds -> KernelSockets]
      BY DEF Consistent, Kernel, KernelTypes
    <2>3. \A x \in Fds : sock'[x].peer = sock[x].peer
      BY <2>1, <2>2 DEF KernelSockets
    <2>4. QED
      BY <2>3, NobodyLoses
  <1>2. QED
    BY <1>1, SocketStepLoses, ServerStepLoses, StreamStepLoses DEF Next

\* The step of LostByItsHolderOnly.
HolderLoses ==
    ~Ended' =>
        \A t \in StreamSockets, c \in Clients :
            Serves(t, c) /\ c \notin Served' => GivesUp(t)

LEMMA StepHolderLoses == Inv /\ Inv' /\ [Next]_vars => [HolderLoses]_vars
  <1> SUFFICES ASSUME Inv, Inv', Next, ~Ended',
                      NEW t \in StreamSockets, NEW c \in Clients,
                      Serves(t, c), c \notin Served'
               PROVE  GivesUp(t)
    BY DEF HolderLoses
  <1>1. running /\ ~closeErred
    BY EndIsFinal
  <1>2. Consistent(socket, owner, sock) /\ Consistent(socket', owner', sock')
    BY <1>1 DEF Inv, Ended
  <1>3. ~Dies
    BY DEF Dies, Ended
  <1>4. Served' = ServedIn(socket', owner', sock')
    BY DEF Served, Serves, ServedIn, IsOpen
  <1>5. Served' = ConnectedIn(sock')
    BY <1>2, <1>4, ServedAreConnected
  <1>6. Loses(t, c)
    BY <1>5 DEF Loses
  <1>7. QED
    BY <1>2, <1>3, <1>6, NextLoses

\* A client that is served loses its connection only by a call on the variable
\* that holds it, or by a move or an accept() into that variable: nothing that
\* happens to the server or to another StreamSocket can end it.
THEOREM ConnectionsEndByTheirHolder == Spec => LostByItsHolderOnly
  <1>1. Spec => []Inv
    BY Invariance
  <1>2. QED
    BY <1>1, StepHolderLoses, PTL DEF Spec, LostByItsHolderOnly, HolderLoses
=============================================================================
