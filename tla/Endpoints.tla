------------------------------ MODULE Endpoints ------------------------------
(***************************************************************************)
(* One process with its ServerSockets and StreamSockets, as a program sees *)
(* them: variables of the two classes, each of which is a unique_ptr to a  *)
(* state machine, over one descriptor table, and the clients that connect. *)
(* Every action is one call of a member function, which the facade         *)
(* forwards to the state machine; accept() is where the two classes meet.  *)
(*                                                                         *)
(* The state machines are reduced to their state, descriptor and peer;     *)
(* ServerSocketFsm and StreamSocketFsm have the rest.  A call that throws  *)
(* before it has changed anything (an order check, the first system call)  *)
(* is a stuttering step and not written down.                              *)
(***************************************************************************)
EXTENDS Descriptors, SequencesExt

CONSTANTS
    ServerSockets,  \* the variables of class ServerSocket
    StreamSockets,  \* the variables of class StreamSocket
    Clients,        \* processes that connect to this one
    Remote,         \* a host that this process connects to
    Backlog,        \* how many connections the kernel holds for accept()
    FreshStates     \* what the uninitialised fsmState of a server can hold

Library == "library"
Sockets == ServerSockets \cup StreamSockets

ServerStates == {"INIT", "BOUND", "LISTENING", "ACCEPTING", "CLOSED"}
StreamStates == {"INIT", "CONNECTED", "UCLOSED", "DCLOSED", "CLOSED"}

ASSUME EndpointsAssumption ==
    /\ ServerSockets \cap StreamSockets = {}
    /\ {Remote, Nobody} \cap Clients = {}
    /\ Remote # Nobody
    /\ Backlog \in Nat
    /\ FreshStates \subseteq ServerStates

VARIABLES
    running,     \* the process has not ended
    socket,      \* socket[p]: the object in variable p
    sock,        \* kernel: what is behind each descriptor
    closeErred   \* history: ::close failed on an open descriptor

vars == <<running, socket, owner, sock, closeErred>>

\* ptr is "fsm", "null" after a move, or "none" when there is no object.
NoObject == [ptr |-> "none", state |-> "INIT", fd |-> NO_FD, peer |-> Nobody]

MovedFrom == [NoObject EXCEPT !.ptr = "null"]

Fsm(state, f, peer) == [ptr |-> "fsm", state |-> state, fd |-> f, peer |-> peer]

\* The kernel's side: a socket, its queue of clients or its peer.
NoSocket    == [use |-> "free", queue |-> <<>>, peer |-> Nobody]
BoundSocket == [NoSocket EXCEPT !.use = "bound"]
ListenSocket == [NoSocket EXCEPT !.use = "listening"]
Connection(c) == [NoSocket EXCEPT !.use = "connected", !.peer = c]

Init ==
    /\ running = TRUE
    /\ socket = [p \in Sockets |-> NoObject]
    /\ owner = [f \in Fds |-> Nobody]
    /\ sock = [f \in Fds |-> NoSocket]
    /\ closeErred = FALSE

-----------------------------------------------------------------------------

HasFsm(p) == running /\ socket[p].ptr = "fsm"
Exists(p) == running /\ socket[p].ptr # "none"
IsFresh(p) == running /\ socket[p].ptr = "none"

\* The object in p changes.
Becomes(p, object) == socket' = [socket EXCEPT ![p] = object]

\* The kernel opens f as s; then number g, if it is one, is closed.
OpensAndCloses(f, s, g) ==
    /\ owner' = Vacated([owner EXCEPT ![f] = Library], g)
    /\ sock' = LET opened == [sock EXCEPT ![f] = s]
               IN IF g \in Fds THEN [opened EXCEPT ![g] = NoSocket] ELSE opened

Opens(f, s) == OpensAndCloses(f, s, NO_FD)

Closes(g) ==
    /\ owner' = Vacated(owner, g)
    /\ sock' = IF g \in Fds THEN [sock EXCEPT ![g] = NoSocket] ELSE sock

\* A destructor throws: std::terminate.  Or a null pointer is dereferenced.
\* The kernel closes everything.
Dies ==
    /\ running' = FALSE
    /\ socket' = [p \in Sockets |-> NoObject]
    /\ owner' = [f \in Fds |-> Nobody]
    /\ sock' = [f \in Fds |-> NoSocket]
    /\ UNCHANGED closeErred

\* The guard of a descriptor that a call has just opened closes it while an
\* exception leaves the call, and ::close reports an error.
UnwindingThrows == FreeFds # {} /\ Dies

-----------------------------------------------------------------------------
(* What the two classes have in common.                                    *)

SameClass(p, q) == {p, q} \subseteq ServerSockets \/ {p, q} \subseteq StreamSockets

Construct(p) ==
    /\ IsFresh(p)
    /\ \E state \in (IF p \in ServerSockets THEN FreshStates ELSE {"INIT"}) :
        Becomes(p, Fsm(state, NO_FD, Nobody))
    /\ UNCHANGED <<running, owner, sock, closeErred>>

MoveConstruct(p, q) ==
    /\ SameClass(p, q) /\ IsFresh(p) /\ Exists(q)
    /\ socket' = [socket EXCEPT ![p] = socket[q], ![q] = MovedFrom]
    /\ UNCHANGED <<running, owner, sock, closeErred>>

\* The object p had dies with its state machine and its guard; the assertion
\* this != &rhs is a precondition.
MoveAssign(p, q) ==
    /\ SameClass(p, q) /\ p # q /\ Exists(p) /\ Exists(q)
    /\ \/ /\ CloseReturns(socket[p].fd)
          /\ Closes(socket[p].fd)
          /\ socket' = [socket EXCEPT ![p] = socket[q], ![q] = MovedFrom]
          /\ UNCHANGED <<running, closeErred>>
       \/ CloseThrows(socket[p].fd) /\ Dies

\* A destructor that forgets the descriptor, as if the guard were an int.
Destroy_rawFd(p) ==
    /\ Exists(p)
    /\ socket' = [socket EXCEPT ![p].ptr = "none"]
    /\ UNCHANGED <<running, owner, sock, closeErred>>

Destroy(p) ==
    /\ Exists(p)
    /\ \/ /\ CloseReturns(socket[p].fd)
          /\ Closes(socket[p].fd)
          /\ Becomes(p, NoObject)
          /\ UNCHANGED <<running, closeErred>>
       \/ CloseThrows(socket[p].fd) /\ Dies

\* ::close in a member function; an error is an exception, and the guard keeps
\* its number.
ClosesInto(p, object) ==
    LET f == socket[p].fd IN
    /\ Closes(f)
    /\ \/ CloseReturns(f) /\ Becomes(p, object) /\ UNCHANGED closeErred
       \/ CloseThrows(f) /\ UNCHANGED socket /\ closeErred' = (closeErred \/ IsOpen(f))
    /\ UNCHANGED running

\* The address that a closed socket still reports is left out: nothing can be
\* done with it.
Close(p) ==
    /\ HasFsm(p) /\ socket[p].state # "CLOSED"
    /\ ClosesInto(p, Fsm("CLOSED", NO_FD, Nobody))

\* A StreamSocket makes the empty address after the close, which can throw.
Reset(p) ==
    /\ HasFsm(p)
    /\ \/ ClosesInto(p, Fsm("INIT", NO_FD, Nobody))
       \/ /\ p \in StreamSockets
          /\ ClosesInto(p, Fsm(socket[p].state, NO_FD, socket[p].peer))

\* Any call on an object that was moved from.
CallMovedFrom(p) == running /\ socket[p].ptr = "null" /\ Dies

-----------------------------------------------------------------------------
(* ServerSocket.                                                           *)

\* The port cannot be bound while a socket uses it; the connections that were
\* accepted on it do, too.
PortIsFree == \A f \in Fds : sock[f].use = "free" \/ sock[f].peer = Remote

\* The constructors that bind and listen.
ConstructListening(s) ==
    /\ IsFresh(s)
    /\ \/ UnwindingThrows
       \/ /\ PortIsFree
          /\ \E f \in FreeFds :
              /\ Becomes(s, Fsm("LISTENING", f, Nobody))
              /\ Opens(f, ListenSocket)
          /\ UNCHANGED <<running, closeErred>>

\* The bound socket is moved into the member before the address is copied: if
\* that throws, the server stays in INIT and holds the socket.  The port is in
\* use then, and the next bind() fails, so that the move has nothing to close.
Bind(s) ==
    /\ HasFsm(s) /\ socket[s].state = "INIT"
    /\ \/ UnwindingThrows
       \/ /\ PortIsFree
          /\ \E f \in FreeFds, state \in {"INIT", "BOUND"} :
              /\ Becomes(s, Fsm(state, f, Nobody))
              /\ Opens(f, BoundSocket)
          /\ UNCHANGED <<running, closeErred>>

Listen(s) ==
    LET f == socket[s].fd IN
    /\ HasFsm(s) /\ socket[s].state = "BOUND"
    /\ IsOpen(f) /\ sock[f].use = "bound"
    /\ Becomes(s, Fsm("LISTENING", f, Nobody))
    /\ sock' = [sock EXCEPT ![f] = ListenSocket]
    /\ UNCHANGED <<running, owner, closeErred>>

\* Only the first accept() passes the order check.
acceptCheck_once(state) == state = "LISTENING"

acceptCheck(state) == state \in {"LISTENING", "ACCEPTING"}

\* The listening socket of server s has a client, and there is a number for it.
CanAccept(s) ==
    LET f == socket[s].fd IN
    /\ HasFsm(s) /\ acceptCheck(socket[s].state)
    /\ IsOpen(f) /\ sock[f].queue # <<>>
    /\ FreeFds # {}

\* The kernel's table after ::accept gave the first client in the queue of
\* server s the number f.
Accepted(s, f) ==
    LET l == socket[s].fd
    IN [sock EXCEPT ![l].queue = Tail(@), ![f] = Connection(Head(sock[l].queue))]

\* accept() copies the number out of the local guard, which closes it.
Accept_copiesFd(s, t) ==
    /\ CanAccept(s) /\ CloseReturns(socket[t].fd)
    /\ Closes(socket[t].fd)
    /\ \E f \in FreeFds :
        socket' = [socket EXCEPT ![s].state = "ACCEPTING",
                                 ![t] = Fsm("CONNECTED", f, Accepted(s, f)[f].peer)]
    /\ UNCHANGED <<running, closeErred>>

\* accept() gives the new socket an address that nobody filled in.
Accept_noAddress(s, t) ==
    /\ CanAccept(s) /\ socket[t].fd = NO_FD
    /\ \E f \in FreeFds :
        /\ owner' = [owner EXCEPT ![f] = Library]
        /\ sock' = Accepted(s, f)
        /\ socket' = [socket EXCEPT ![s].state = "ACCEPTING",
                                    ![t] = Fsm("CONNECTED", f, Nobody)]
    /\ UNCHANGED <<running, closeErred>>

\* StreamSocket t = s.accept(), or t = s.accept(), which destroys what t had
\* after the new connection is made.
Accept(s, t) ==
    /\ CanAccept(s)
    /\ \/ /\ CloseReturns(socket[t].fd)
          /\ \E f \in FreeFds :
              LET g == socket[t].fd
                  made == Accepted(s, f)
              IN /\ owner' = Vacated([owner EXCEPT ![f] = Library], g)
                 /\ sock' = IF g \in Fds THEN [made EXCEPT ![g] = NoSocket] ELSE made
                 /\ socket' = [socket EXCEPT
                        ![s].state = "ACCEPTING",
                        ![t] = Fsm("CONNECTED", f, made[f].peer)]
          /\ UNCHANGED <<running, closeErred>>
       \/ CloseThrows(socket[t].fd) /\ Dies

\* accept() fills in a socket of the caller, whose connection it closes before
\* it knows whether there will be another.
AcceptThrows_closesFirst(s) ==
    /\ CanAccept(s)
    /\ \E t \in StreamSockets :
        LET g == socket[t].fd
            popped == [sock EXCEPT ![socket[s].fd].queue = Tail(@)] IN
        /\ owner' = Vacated(owner, g)
        /\ sock' = IF g \in Fds THEN [popped EXCEPT ![g] = NoSocket] ELSE popped
        /\ socket' = [socket EXCEPT ![s].state = "ACCEPTING", ![t].fd = NO_FD]
    /\ UNCHANGED <<running, closeErred>>

\* makeSockAddr or make_unique throws: the local guard closes the connection
\* again, and the server has moved on.
AcceptThrows(s) ==
    /\ CanAccept(s)
    /\ \/ /\ socket' = [socket EXCEPT ![s].state = "ACCEPTING"]
          /\ sock' = [sock EXCEPT ![socket[s].fd].queue = Tail(@)]
          /\ UNCHANGED <<running, owner, closeErred>>
       \/ Dies

-----------------------------------------------------------------------------
(* StreamSocket.                                                           *)

Connect(t) ==
    /\ HasFsm(t) /\ socket[t].state = "INIT"
    /\ \/ UnwindingThrows
       \/ /\ \E f \in FreeFds :
              /\ Becomes(t, Fsm("CONNECTED", f, Remote))
              /\ Opens(f, Connection(Remote))
          /\ UNCHANGED <<running, closeErred>>

\* closeUpstream and closeDownstream: one half, then the whole.
CloseHalf(t, half, other) ==
    \/ /\ HasFsm(t) /\ socket[t].state = "CONNECTED" /\ IsOpen(socket[t].fd)
       /\ socket' = [socket EXCEPT ![t].state = half]
       /\ UNCHANGED <<running, owner, sock, closeErred>>
    \/ socket[t].state = other /\ Close(t)

\* The old connection is closed first.  Nobody listens where a client has
\* connected from, so only Remote can be reached again.
ResetConnection(t) ==
    LET o == socket[t] IN
    /\ HasFsm(t) /\ o.state # "INIT"
    /\ \/ ClosesInto(t, Fsm(o.state, NO_FD, o.peer))
       \/ /\ CloseReturns(o.fd) /\ o.state # "CLOSED" /\ o.peer = Remote
          /\ \E f \in Fds :
              /\ Vacated(owner, o.fd)[f] = Nobody
              /\ Becomes(t, Fsm("CONNECTED", f, Remote))
              /\ owner' = [Vacated(owner, o.fd) EXCEPT ![f] = Library]
              /\ sock' = [g \in Fds |-> IF g = f THEN Connection(Remote)
                                        ELSE IF g = o.fd THEN NoSocket ELSE sock[g]]
          /\ UNCHANGED <<running, closeErred>>
       \/ /\ CloseReturns(o.fd) /\ o.state # "CLOSED"
          /\ IsOpen(o.fd) \/ FreeFds # {}
          /\ Dies

-----------------------------------------------------------------------------
(* The clients.                                                            *)

Waiting(c) == \E f \in Fds : \E i \in DOMAIN sock[f].queue : sock[f].queue[i] = c

ConnectedTo(c) == \E f \in Fds : sock[f].peer = c

\* The kernel completes the connection without asking the program.
ClientConnects(c) ==
    /\ ~Waiting(c) /\ ~ConnectedTo(c)
    /\ \E f \in Fds :
        /\ sock[f].use = "listening" /\ Len(sock[f].queue) < Backlog
        /\ sock' = [sock EXCEPT ![f].queue = Append(@, c)]
    /\ UNCHANGED <<running, socket, owner, closeErred>>

SocketStep(p) ==
    \/ Construct(p) \/ Destroy(p) \/ Close(p) \/ Reset(p)
    \/ \E q \in Sockets : MoveConstruct(p, q) \/ MoveAssign(p, q)
    \/ CallMovedFrom(p)

ServerStep(s) ==
    \/ ConstructListening(s) \/ Bind(s) \/ Listen(s)
    \/ \E t \in StreamSockets : Accept(s, t)
    \/ AcceptThrows(s)

StreamStep(t) ==
    \/ Connect(t) \/ ResetConnection(t)
    \/ CloseHalf(t, "UCLOSED", "DCLOSED") \/ CloseHalf(t, "DCLOSED", "UCLOSED")

\* Bound: what can happen after ::close has reported an error, and a guard
\* holds a stale number, is followed in FdGuard and in the state machines.
Next ==
    /\ ~closeErred
    /\ \/ \E p \in Sockets : SocketStep(p)
       \/ \E s \in ServerSockets : ServerStep(s)
       \/ \E t \in StreamSockets : StreamStep(t)
       \/ \E c \in Clients : ClientConnects(c)

Spec == Init /\ [][Next]_vars

\* The program keeps calling accept(), and the calls do not fail for ever
\* while there is a client and a free number.
KeepsAccepting ==
    WF_vars(\E s \in ServerSockets :
                AcceptThrows(s) \/ \E t \in StreamSockets : Accept(s, t))

FairSpec == Spec /\ KeepsAccepting

-----------------------------------------------------------------------------
(* Properties.                                                             *)

Peers == Clients \cup {Remote, Nobody}

\* Every variable has its type; without an object, or after a move, nothing is
\* remembered.
TypeOK ==
    /\ running \in BOOLEAN
    /\ socket \in [Sockets -> [ptr : {"fsm", "null", "none"},
                               state : ServerStates \cup StreamStates,
                               fd : Fds \cup {NO_FD}, peer : Peers]]
    /\ \A p \in Sockets : socket[p].ptr # "fsm" => socket[p] \in {NoObject, MovedFrom}
    /\ owner \in [Fds -> {Nobody, Library}]
    /\ sock \in [Fds -> [use : {"free", "bound", "listening", "connected"},
                         queue : BoundedSeq(Clients, Backlog), peer : Peers]]
    /\ closeErred \in BOOLEAN

Holders(f) == {p \in Sockets : socket[p].fd = f}

\* Through constructions, moves, accepts and failures of them, every open
\* descriptor is in the hands of an object; and of one only, which holds no
\* other kind of number, as long as no ::close reports an error.
HeldOnce ==
    /\ \A f \in Fds : IsOpen(f) => Holders(f) # {}
    /\ ~closeErred =>
        \A f \in Fds, p, q \in Sockets :
            {p, q} \subseteq Holders(f) => p = q /\ IsOpen(f)

\* A ServerSocket holds the socket that its state promises, or after a bind()
\* that threw half-way a bound one in INIT, and a StreamSocket a connection with
\* the peer that getSocketAddress() reports: what accept() hands over arrives at
\* the right object with the right address, and numbers that are used again
\* confuse nobody.
HoldsWhatItSays ==
    ~closeErred =>
        \A p \in Sockets : socket[p].fd # NO_FD =>
            LET s == sock[socket[p].fd] IN
            IF p \in ServerSockets
            THEN \/ s.use = "bound" /\ socket[p].state \in {"INIT", "BOUND"}
                 \/ s.use = "listening" /\ socket[p].state \in {"LISTENING", "ACCEPTING"}
            ELSE /\ s.use = "connected" /\ s.peer = socket[p].peer
                 /\ socket[p].state \in {"CONNECTED", "UCLOSED", "DCLOSED"}

Ended == ~running \/ closeErred

\* The queue of the socket that listens; the port admits one.
Queue ==
    IF \E f \in Fds : sock[f].use = "listening"
    THEN sock[CHOOSE f \in Fds : sock[f].use = "listening"].queue
    ELSE <<>>

\* The clients whose connection is in the hands of a StreamSocket.
Serves(t, c) == IsOpen(socket[t].fd) /\ sock[socket[t].fd].peer = c

Served == {c \in Clients : \E t \in StreamSockets : Serves(t, c)}

Service == INSTANCE Reception
               WITH Clients <- Clients,
                    waiting <- IF Ended THEN <<>> ELSE Queue,
                    served <- IF Ended THEN {} ELSE Served,
                    over <- Ended

\* The two classes implement the reception: clients are served in the order in
\* which they came, nobody is served who did not wait, and a call, an accept()
\* that throws too, ends the place of at most one client, or empties the queue.
ClientsAreServed == Service!Spec

\* The calls with which a program gives up the connection that t holds.
GivesUp(t) ==
    \/ Close(t) \/ Reset(t) \/ ResetConnection(t) \/ Destroy(t)
    \/ \E u \in StreamSockets : MoveAssign(t, u)
    \/ \E s \in ServerSockets : Accept(s, t)

\* Those who are served stay served: a client loses its connection only by a
\* call on the very StreamSocket that holds it, or by a move or an accept()
\* into that one.  Closing, moving or destroying the server costs no client its
\* connection, nor does an accept() that throws, a move of the connection to
\* another variable, or what happens to other clients.
LostByItsHolderOnly ==
    [][~Ended' =>
        \A t \in StreamSockets, c \in Clients :
            Serves(t, c) /\ c \notin Served' => GivesUp(t)]_vars

\* No client waits for ever while there is a number for its connection: it is
\* served, or told that it will not be.  Nothing tells the clients apart, so
\* what is true of one of them is true of all.
WaitingIsMet ==
    LET c == CHOOSE c \in Clients : TRUE
    IN Waiting(c) ~> (~Waiting(c) \/ FreeFds = {} \/ closeErred)
=============================================================================
