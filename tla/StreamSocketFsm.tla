-------------------------- MODULE StreamSocketFsm --------------------------
(***************************************************************************)
(* snl::StreamSocketFsm, the state machine behind snl::StreamSocket: its   *)
(* members, the kernel's view of the connection it guards, and one action  *)
(* per public operation.  Each action is the whole call: the order check,  *)
(* the system calls in their order, any of which may fail and make the     *)
(* call throw, and the assignments to the members.                         *)
(*                                                                         *)
(* The peer may finish its stream or reset the connection at any moment.   *)
(* Other descriptors of the process belong to the party Other.             *)
(***************************************************************************)
EXTENDS Descriptors

CONSTANTS
    Addrs,         \* the socket addresses of the hosts there are
    DefaultAddr    \* the address of a default-constructed SocketAddress

Self  == "stream"
Other == "other"

ASSUME StreamAssumption == DefaultAddr \notin Addrs

\* StrSoFsmState, with the values of the enumeration.
INIT      == 0
CONNECTED == 1
UCLOSED   == 2
DCLOSED   == 3
CLOSED    == 4

States == INIT..CLOSED

VARIABLES
    obj,           \* "none", "alive", or "terminated": the process is gone
    fsmState,      \* member fsmState
    fd,            \* member strSoFd, as the number its FdGuard holds
    nonBlock,      \* member nonBlock
    socketAddress, \* member socketAddress
    sock,          \* kernel: the connection behind each open descriptor
    last,          \* the last call and how it ended
    asked,         \* history: what the last setNonBlock that returned asked for
    closeErred     \* history: ::close failed on an open descriptor

members == <<fsmState, fd, nonBlock, socketAddress>>
kernel  == <<owner, sock>>
hist    == <<asked, closeErred>>
vars    == <<obj, members, kernel, last, hist>>

defaultNonBlock == FALSE

\* A connection to host a.  rd and wr are the halves this process has not
\* shut down; link is what the peer has done to it.
Connection(a, nb) ==
    [peer |-> a, rd |-> TRUE, wr |-> TRUE, link |-> "up", nonblock |-> nb]

NoConnection == Connection(DefaultAddr, FALSE)

Init ==
    /\ obj = "none"
    /\ fsmState = INIT
    /\ fd = NO_FD
    /\ nonBlock = defaultNonBlock
    /\ socketAddress = DefaultAddr
    /\ owner = [f \in Fds |-> Nobody]
    /\ sock = [f \in Fds |-> NoConnection]
    /\ last = [call |-> "none", out |-> "returns"]
    /\ asked = defaultNonBlock
    /\ closeErred = FALSE

-----------------------------------------------------------------------------
(* How a call ends.                                                        *)

Ends(c, o) == last' = [call |-> c, out |-> o]

Returns(c) == Ends(c, "returns")

\* A system call failed and executeSyscall, makeFdGuard or closeFd threw.
Fails(c) == Ends(c, "fails")

EndsUnchanged(c, o) ==
    Ends(c, o) /\ UNCHANGED <<obj, members, kernel, hist>>

\* An order check, or getSockAddress, threw.
Rejects(c) == EndsUnchanged(c, "rejects")

\* The process ends, by std::terminate or by a signal.
Dies(c, o) ==
    /\ obj' = "terminated"
    /\ owner' = [f \in Fds |-> Nobody]
    /\ sock' = [f \in Fds |-> NoConnection]
    /\ fd' = NO_FD
    /\ Ends(c, o)
    /\ UNCHANGED <<fsmState, nonBlock, socketAddress, hist>>

\* A local FdGuard that owns a new socket dies while an exception leaves the
\* function, and its close() throws too.
UnwindingThrows(c) == FreeFds # {} /\ Dies(c, "fails")

Cleared(f) ==
    IF f \in Fds THEN [sock EXCEPT ![f] = NoConnection] ELSE sock

\* The kernel's side of closeFd.
Closes(f) == owner' = Vacated(owner, f) /\ sock' = Cleared(f)

-----------------------------------------------------------------------------
(* The order checks and the inspections.                                   *)

\* Any connection will do for sending.
sendCheck_anyConnected == CONNECTED <= fsmState /\ fsmState < CLOSED

connectCheck         == fsmState = INIT
sendCheck            == fsmState \in {CONNECTED, DCLOSED}
receiveCheck         == fsmState \in {CONNECTED, UCLOSED}
upstreamCloseCheck   == fsmState \in {CONNECTED, DCLOSED}
downstreamCloseCheck == fsmState \in {CONNECTED, UCLOSED}
closeCheck           == fsmState # CLOSED
resetConnectCheck    == fsmState # INIT

IsConnected == CONNECTED <= fsmState /\ fsmState < CLOSED

-----------------------------------------------------------------------------
(* Construction and destruction.                                           *)

Construct ==
    /\ obj = "none"
    /\ obj' = "alive"
    /\ fsmState' = INIT
    /\ fd' = NO_FD
    /\ nonBlock' = defaultNonBlock
    /\ socketAddress' = DefaultAddr
    /\ asked' = defaultNonBlock
    /\ Returns("construct")
    /\ UNCHANGED <<kernel, closeErred>>

\* The constructor ServerSocket::accept uses, with the connection ::accept
\* returned and the address of its peer.
ConstructAccepted(f) ==
    /\ obj = "none"
    /\ IsOpen(f) /\ owner[f] = Other
    /\ obj' = "alive"
    /\ fsmState' = CONNECTED
    /\ fd' = f
    /\ owner' = [owner EXCEPT ![f] = Self]
    /\ nonBlock' = defaultNonBlock
    /\ socketAddress' = sock[f].peer
    /\ asked' = defaultNonBlock
    /\ Returns("construct")
    /\ UNCHANGED <<sock, closeErred>>

\* A destructor that forgets the descriptor, as if the member were an int.
Destroy_rawFd ==
    /\ obj = "alive"
    /\ obj' = "none"
    /\ Returns("destroy")
    /\ UNCHANGED <<members, kernel, hist>>

\* The destructor: only the FdGuard member has something to do.
Destroy ==
    /\ obj = "alive"
    /\ \/ /\ CloseReturns(fd)
          /\ Closes(fd)
          /\ fd' = NO_FD
          /\ obj' = "none"
          /\ Returns("destroy")
          /\ UNCHANGED <<fsmState, nonBlock, socketAddress, hist>>
       \/ CloseThrows(fd) /\ Dies("destroy", "fails")

-----------------------------------------------------------------------------
(* Connecting.                                                             *)

\* createSockAndConnect returned a guard with descriptor f for host a, and
\* it was moved into the member, which closed what the member held.
Attached(f, a) ==
    /\ f \in Fds /\ Vacated(owner, fd)[f] = Nobody
    /\ owner' = [Vacated(owner, fd) EXCEPT ![f] = Self]
    /\ sock' = [Cleared(fd) EXCEPT ![f] = Connection(a, nonBlock)]
    /\ fd' = f

\* socket, connect and fcntl on a local guard, then the move into the member,
\* which is empty in INIT (InitHoldsNothing), so that the move cannot throw.
Connect(a) ==
    /\ obj = "alive"
    /\ \/ ~connectCheck /\ Rejects("connect")
       \/ connectCheck /\ EndsUnchanged("connect", "fails")
       \/ connectCheck /\ UnwindingThrows("connect")
       \/ /\ connectCheck
          /\ \E f \in FreeFds : Attached(f, a)
          /\ socketAddress' = a
          /\ fsmState' = CONNECTED
          /\ Returns("connect")
          /\ UNCHANGED <<obj, nonBlock, hist>>

\* The old descriptor is dropped, not closed.
ReConnect_noClose ==
    /\ obj = "alive" /\ IsConnected
    /\ \E f \in FreeFds :
        /\ owner' = [owner EXCEPT ![f] = Self]
        /\ sock' = [sock EXCEPT ![f] = Connection(socketAddress, nonBlock)]
        /\ fd' = f
    /\ fsmState' = CONNECTED
    /\ Returns("reconnect")
    /\ UNCHANGED <<obj, nonBlock, socketAddress, hist>>

\* The state is not set back to CONNECTED.
ReConnect_keepsState ==
    /\ obj = "alive" /\ IsConnected
    /\ CloseReturns(fd)
    /\ \E f \in Fds : Attached(f, socketAddress)
    /\ Returns("reconnect")
    /\ UNCHANGED <<obj, fsmState, nonBlock, socketAddress, hist>>

\* The old connection is closed first; the address is read after that, and
\* in CLOSED getSockAddress throws.  A failure after the close leaves the
\* object without a descriptor and its state as it was.
ReConnect ==
    /\ obj = "alive"
    /\ \/ ~resetConnectCheck /\ Rejects("reconnect")
       \/ /\ resetConnectCheck /\ CloseThrows(fd)
          /\ Closes(fd)
          /\ closeErred' = (closeErred \/ IsOpen(fd))
          /\ Fails("reconnect")
          /\ UNCHANGED <<obj, members, asked>>
       \/ /\ resetConnectCheck /\ CloseReturns(fd)
          /\ \/ /\ ~IsConnected
                /\ Closes(fd)
                /\ fd' = NO_FD
                /\ Ends("reconnect", "rejects")
                /\ UNCHANGED <<obj, fsmState>>
             \/ /\ IsConnected
                /\ Closes(fd)
                /\ fd' = NO_FD
                /\ Fails("reconnect")
                /\ UNCHANGED <<obj, fsmState>>
             \/ /\ IsConnected
                /\ \E f \in Fds : Attached(f, socketAddress)
                /\ fsmState' = CONNECTED
                /\ Returns("reconnect")
                /\ UNCHANGED obj
          /\ UNCHANGED <<nonBlock, socketAddress, hist>>
       \/ /\ resetConnectCheck /\ IsConnected /\ CloseReturns(fd)
          /\ IsOpen(fd) \/ FreeFds # {}
          /\ Dies("reconnect", "fails")

-----------------------------------------------------------------------------
(* Sending and receiving.                                                  *)

\* Writing into a half that is shut down, or to a peer that is gone, fails
\* with EPIPE and raises SIGPIPE unless the flags say MSG_NOSIGNAL.
BrokenPipe == IsOpen(fd) /\ (~sock[fd].wr \/ sock[fd].link = "broken")

Send(noSignal) ==
    /\ obj = "alive"
    /\ \/ ~sendCheck /\ Rejects("send")
       \/ sendCheck /\ EndsUnchanged("send", "fails")
       \/ sendCheck /\ BrokenPipe /\ ~noSignal /\ Dies("send", "killed")
       \/ sendCheck /\ IsOpen(fd) /\ ~BrokenPipe /\ EndsUnchanged("send", "returns")

\* recv gives 0 at the end of the stream, which is an exception unless the
\* caller's buffer is empty.
AtEnd == IsOpen(fd) /\ (~sock[fd].rd \/ sock[fd].link # "up")

Receive(bufferSize) ==
    /\ obj = "alive"
    /\ \/ ~receiveCheck /\ Rejects("receive")
       \/ receiveCheck /\ EndsUnchanged("receive", "fails")
       \/ receiveCheck /\ AtEnd /\ bufferSize # 0 /\ EndsUnchanged("receive", "eof")
       \/ receiveCheck /\ IsOpen(fd) /\ EndsUnchanged("receive", "returns")

-----------------------------------------------------------------------------
(* Closing, as a whole and by halves, and reset.                           *)

\* toNextStateImpl(closeAct), reached from three public calls.
CloseAll(c) ==
    \/ ~closeCheck /\ Rejects(c)
    \/ /\ closeCheck /\ CloseReturns(fd)
       /\ Closes(fd)
       /\ fd' = NO_FD
       /\ fsmState' = CLOSED
       /\ Returns(c)
       /\ UNCHANGED <<obj, nonBlock, socketAddress, hist>>
    \/ /\ closeCheck /\ CloseThrows(fd)
       /\ Closes(fd)
       /\ closeErred' = (closeErred \/ IsOpen(fd))
       /\ Fails(c)
       /\ UNCHANGED <<obj, members, asked>>

\* ::shutdown fails without a descriptor and on a connection that is reset.
CanShutdown == IsOpen(fd) /\ sock[fd].link # "broken"

UClose ==
    /\ obj = "alive"
    /\ \/ ~upstreamCloseCheck /\ Rejects("uclose")
       \/ fsmState = CONNECTED /\ ~CanShutdown /\ EndsUnchanged("uclose", "fails")
       \/ /\ fsmState = CONNECTED /\ CanShutdown
          /\ sock' = [sock EXCEPT ![fd].wr = FALSE]
          /\ fsmState' = UCLOSED
          /\ Returns("uclose")
          /\ UNCHANGED <<obj, fd, nonBlock, socketAddress, owner, hist>>
       \/ fsmState = DCLOSED /\ CloseAll("uclose")

\* The state is advanced before shutdown, which may throw.
DClose_stateFirst ==
    /\ obj = "alive" /\ fsmState = CONNECTED
    /\ fsmState' = DCLOSED
    /\ \/ CanShutdown /\ sock' = [sock EXCEPT ![fd].rd = FALSE] /\ Returns("dclose")
       \/ ~CanShutdown /\ UNCHANGED sock /\ Fails("dclose")
    /\ UNCHANGED <<obj, fd, nonBlock, socketAddress, owner, hist>>

DClose ==
    /\ obj = "alive"
    /\ \/ ~downstreamCloseCheck /\ Rejects("dclose")
       \/ fsmState = CONNECTED /\ ~CanShutdown /\ EndsUnchanged("dclose", "fails")
       \/ /\ fsmState = CONNECTED /\ CanShutdown
          /\ sock' = [sock EXCEPT ![fd].rd = FALSE]
          /\ fsmState' = DCLOSED
          /\ Returns("dclose")
          /\ UNCHANGED <<obj, fd, nonBlock, socketAddress, owner, hist>>
       \/ fsmState = UCLOSED /\ CloseAll("dclose")

\* The descriptor is closed, but its number is kept.
Close_keepsNumber ==
    /\ obj = "alive" /\ closeCheck /\ CloseReturns(fd)
    /\ Closes(fd)
    /\ fsmState' = CLOSED
    /\ Returns("close")
    /\ UNCHANGED <<obj, fd, nonBlock, socketAddress, hist>>

Close == obj = "alive" /\ CloseAll("close")

\* INIT is assigned before the close, which may throw.
Reset_stateFirst ==
    /\ obj = "alive"
    /\ Closes(fd)
    /\ fsmState' = INIT
    /\ socketAddress' = DefaultAddr
    /\ \/ CloseReturns(fd) /\ fd' = NO_FD /\ Returns("reset")
       \/ CloseThrows(fd) /\ UNCHANGED fd /\ Fails("reset")
    /\ UNCHANGED <<obj, nonBlock, hist>>

\* The empty address is allocated after the close; if that throws, the object
\* keeps its state and its address without a connection.
Reset ==
    /\ obj = "alive"
    /\ Closes(fd)
    /\ \/ /\ CloseReturns(fd)
          /\ fd' = NO_FD
          /\ socketAddress' = DefaultAddr
          /\ nonBlock' = defaultNonBlock
          /\ fsmState' = INIT
          /\ asked' = defaultNonBlock
          /\ Returns("reset")
          /\ UNCHANGED <<obj, closeErred>>
       \/ /\ CloseReturns(fd)
          /\ fd' = NO_FD
          /\ Fails("reset")
          /\ UNCHANGED <<obj, fsmState, nonBlock, socketAddress, hist>>
       \/ /\ CloseThrows(fd)
          /\ closeErred' = (closeErred \/ IsOpen(fd))
          /\ Fails("reset")
          /\ UNCHANGED <<obj, members, asked>>

\* The member nonBlock is read, never assigned.
SetNonBlock(v) ==
    /\ obj = "alive"
    /\ \/ /\ v = nonBlock \/ fsmState = INIT
          /\ asked' = v
          /\ Returns("setNonBlock")
          /\ UNCHANGED <<obj, members, kernel, closeErred>>
       \/ /\ v # nonBlock /\ fsmState # INIT /\ IsOpen(fd)
          /\ sock' = [sock EXCEPT ![fd].nonblock = v]
          /\ asked' = v
          /\ Returns("setNonBlock")
          /\ UNCHANGED <<obj, members, owner, closeErred>>
       \/ /\ v # nonBlock /\ fsmState # INIT
          /\ EndsUnchanged("setNonBlock", "fails")

-----------------------------------------------------------------------------
(* The peer, and the rest of the process.                                  *)

PeerFinishes(f) ==
    /\ IsOpen(f) /\ sock[f].link = "up"
    /\ sock' = [sock EXCEPT ![f].link = "eof"]
    /\ Ends("peer", "returns")
    /\ UNCHANGED <<obj, members, owner, hist>>

PeerResets(f) ==
    /\ IsOpen(f) /\ sock[f].link # "broken"
    /\ sock' = [sock EXCEPT ![f].link = "broken"]
    /\ Ends("peer", "returns")
    /\ UNCHANGED <<obj, members, owner, hist>>

\* Another part of the process connects to, or accepts, a host.
OtherOpen(f, a) ==
    /\ obj # "terminated" /\ f \in FreeFds
    /\ owner' = [owner EXCEPT ![f] = Other]
    /\ sock' = [sock EXCEPT ![f] = Connection(a, FALSE)]
    /\ Ends("other", "returns")
    /\ UNCHANGED <<obj, members, hist>>

OtherClose(f) ==
    /\ IsOpen(f) /\ owner[f] = Other
    /\ Closes(f)
    /\ Ends("other", "returns")
    /\ UNCHANGED <<obj, members, hist>>

Next ==
    \/ Construct
    \/ \E f \in Fds : ConstructAccepted(f)
    \/ Destroy
    \/ \E a \in Addrs : Connect(a)
    \/ ReConnect
    \/ \E noSignal \in BOOLEAN : Send(noSignal)
    \/ \E bufferSize \in 0..1 : Receive(bufferSize)
    \/ UClose
    \/ DClose
    \/ Close
    \/ Reset
    \/ \E v \in BOOLEAN : SetNonBlock(v)
    \/ \E f \in Fds : PeerFinishes(f) \/ PeerResets(f) \/ OtherClose(f)
    \/ \E f \in Fds, a \in Addrs : OtherOpen(f, a)

Spec == Init /\ [][Next]_vars

-----------------------------------------------------------------------------
(* Properties.                                                             *)

Calls == {"none", "construct", "destroy", "connect", "reconnect", "send",
          "receive", "uclose", "dclose", "close", "reset", "setNonBlock",
          "peer", "other"}

\* Every variable has its type, and without an object no member holds a
\* descriptor.
TypeOK ==
    /\ obj \in {"none", "alive", "terminated"}
    /\ fsmState \in States
    /\ fd \in Fds \cup {NO_FD}
    /\ obj # "alive" => fd = NO_FD
    /\ nonBlock \in BOOLEAN
    /\ socketAddress \in Addrs \cup {DefaultAddr}
    /\ owner \in [Fds -> {Nobody, Self, Other}]
    /\ sock \in [Fds -> [peer : Addrs \cup {DefaultAddr}, rd : BOOLEAN,
                         wr : BOOLEAN, link : {"up", "eof", "broken"},
                         nonblock : BOOLEAN]]
    /\ last \in [call : Calls,
                 out : {"returns", "rejects", "fails", "eof", "killed"}]
    /\ asked \in BOOLEAN
    /\ closeErred \in BOOLEAN

\* No leak: every connection the object opened or took over, and did not
\* close, is the one its guard holds, on the paths that throw half-way too.
NoLeak == \A f \in Fds : owner[f] = Self => fd = f

\* An object that was never connected, or was reset, holds no connection, even
\* if ::close failed before: connect has nothing to close.
InitHoldsNothing == fsmState = INIT => fd = NO_FD

\* As long as no ::close reports an error, the number the guard holds is open
\* and the object's own, also after reconnects that failed.
HeldIsOwned == fd # NO_FD /\ ~closeErred => owner[fd] = Self

\* While the object owns a connection, its state says which halves are open
\* in the kernel, and getSockAddress() names the host at the other end, also
\* after reconnects that failed and were tried again.
HalvesMatchState ==
    fd # NO_FD /\ owner[fd] = Self =>
        /\ fsmState \in {CONNECTED, UCLOSED, DCLOSED}
        /\ sock[fd].wr <=> fsmState # UCLOSED
        /\ sock[fd].rd <=> fsmState # DCLOSED
        /\ sock[fd].peer = socketAddress

\* What an exception leaves behind: state, flag and address are those of before
\* the call, so that the connection can be made again, and so are guard and
\* kernel, unless it was ::close that failed, or a reset or resetConnection
\* that had closed the connection already and then holds nothing.
ThrowKeepsState ==
    [][last'.out \in {"rejects", "fails", "eof"} /\ obj' # "terminated" =>
        /\ UNCHANGED <<fsmState, nonBlock, socketAddress>>
        /\ \/ UNCHANGED fd /\ (closeErred' \/ UNCHANGED kernel)
           \/ last'.call \in {"reset", "reconnect"} /\ fd' = NO_FD]_vars

\* A send is fatal, and a receive reports the end of the stream, only because
\* of what the peer did, never because this object shut that half down: the
\* order checks stop such calls before they reach the kernel.
OnlyThePeerBreaksIo ==
    [][/\ last'.out = "killed" => sock[fd].link = "broken"
       /\ last'.out = "eof" => sock[fd].link # "up"]_vars

\* A call never touches a connection of another part of the process.
OthersUntouched ==
    [][last'.call \notin {"other", "peer"} /\ obj' # "terminated" /\ ~closeErred =>
        \A f \in Fds : owner[f] = Other /\ owner'[f] # Self =>
            owner'[f] = Other /\ sock'[f] = sock[f]]_vars

(* What the comments and messages of the code promise and it does not keep. *)

\* The blocking mode that was asked for is the one the connection has: set
\* before connect ("save flag for later (upon connection the socket will be
\* set to nonblock)"), changed back ("sets the socket to blocking/nonblocking")
\* or kept by resetConnection ("keeping the current config").
AskedModeApplies ==
    /\ last \in [call : {"connect", "reconnect", "setNonBlock"}, out : {"returns"}]
    /\ fd # NO_FD
    => sock[fd].nonblock = asked
=============================================================================
