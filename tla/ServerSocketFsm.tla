-------------------------- MODULE ServerSocketFsm --------------------------
(***************************************************************************)
(* snl::ServerSocketFsm, the state machine behind snl::ServerSocket: its   *)
(* members, the kernel's view of the socket it guards, and one action per  *)
(* public operation.  Each action is the whole call: the order check, the  *)
(* system calls in their order, any of which may fail and make the call    *)
(* throw, and the assignments to the members.                              *)
(*                                                                         *)
(* Other descriptors of the process belong to the party Other; those that  *)
(* accept() returned are among them, because a StreamSocket owns them from *)
(* then on.                                                                *)
(***************************************************************************)
EXTENDS Descriptors

CONSTANTS
    Addrs,         \* the socket addresses a program binds to
    DefaultAddr,   \* the address of a default-constructed SocketAddress
    FreshStates    \* what the uninitialised member fsmState can hold

Self  == "server"
Other == "other"

\* ServerFsmState, with the values of the enumeration; the code compares them
\* with < and <=.  The underlying type is uint8_t and every value above
\* CLOSED compares alike, so one of them stands for all.
INIT      == 0
BOUND     == 1
LISTENING == 2
ACCEPTING == 3
CLOSED    == 4
GARBAGE   == 5

States == INIT..GARBAGE

Unbound == "unbound"  \* the kernel has no local address for the socket

ASSUME ServerAssumption ==
    /\ DefaultAddr \notin Addrs
    /\ Unbound \notin Addrs \cup {DefaultAddr}
    /\ FreshStates \subseteq States
    /\ INIT \in FreshStates

VARIABLES
    obj,           \* "none", "alive", or "terminated" after std::terminate
    fsmState,      \* member fsmState
    fd,            \* member servSockFd, as the number its FdGuard holds
    nonBlockingIo, \* member nonBlockingIo
    socketAddr,    \* member socketAddr
    sock,          \* kernel: local address and flags of each open socket
    last,          \* the last call and how it ended
    past,          \* history: the last of construction, bind and reset,
                   \* "halfBound" for a bind that threw after its move
    closeErred     \* history: ::close failed on an open descriptor

members == <<fsmState, fd, nonBlockingIo, socketAddr>>
kernel  == <<owner, sock>>
hist    == <<past, closeErred>>
vars    == <<obj, members, kernel, last, hist>>

NewSocket == [addr |-> Unbound, listening |-> FALSE, nonblock |-> FALSE]

Init ==
    /\ obj = "none"
    /\ fsmState = INIT
    /\ fd = NO_FD
    /\ nonBlockingIo = FALSE
    /\ socketAddr = DefaultAddr
    /\ owner = [f \in Fds |-> Nobody]
    /\ sock = [f \in Fds |-> NewSocket]
    /\ last = [call |-> "none", out |-> "returns"]
    /\ past = "fresh"
    /\ closeErred = FALSE

-----------------------------------------------------------------------------
(* How a call ends.                                                        *)

Returns(c) == last' = [call |-> c, out |-> "returns"]

\* A system call failed and executeSyscall, makeFdGuard or closeFd threw.
Fails(c) == last' = [call |-> c, out |-> "fails"]

FailsUnchanged(c) == Fails(c) /\ UNCHANGED <<obj, members, kernel, hist>>

\* The order check threw before anything was done.
Rejects(c) ==
    /\ last' = [call |-> c, out |-> "rejects"]
    /\ UNCHANGED <<obj, members, kernel, hist>>

\* A destructor throws while the stack unwinds, or at the end of a scope.
Terminates(c) ==
    /\ obj' = "terminated"
    /\ owner' = [f \in Fds |-> Nobody]
    /\ fd' = NO_FD
    /\ Fails(c)
    /\ UNCHANGED <<fsmState, nonBlockingIo, socketAddr, sock, hist>>

\* A local FdGuard that owns a new socket dies while an exception leaves the
\* function, and its close() throws too.
UnwindingThrows(c) == FreeFds # {} /\ Terminates(c)

\* The inspections isBound and isListening.
IsBound     == BOUND <= fsmState
IsListening == LISTENING <= fsmState /\ fsmState < CLOSED

-----------------------------------------------------------------------------
(* Construction and destruction.                                           *)

\* The default constructor, which leaves fsmState uninitialised.
Construct ==
    /\ obj = "none"
    /\ obj' = "alive"
    /\ fsmState' \in FreshStates
    /\ fd' = NO_FD
    /\ nonBlockingIo' = FALSE
    /\ socketAddr' = DefaultAddr
    /\ past' = "fresh"
    /\ Returns("construct")
    /\ UNCHANGED <<kernel, closeErred>>

\* The constructor that binds and listens.  Whatever fails, the delegating
\* constructor has finished, so the destructor runs and closes the socket.
ConstructListening(a) ==
    /\ obj = "none"
    /\ \/ FailsUnchanged("construct")
       \/ UnwindingThrows("construct")
       \/ \E f \in FreeFds :
            /\ obj' = "alive"
            /\ fsmState' = LISTENING
            /\ fd' = f
            /\ nonBlockingIo' = FALSE
            /\ socketAddr' = a
            /\ owner' = [owner EXCEPT ![f] = Self]
            /\ sock' = [sock EXCEPT ![f] =
                   [addr |-> a, listening |-> TRUE, nonblock |-> FALSE]]
            /\ past' = "bound"
            /\ Returns("construct")
            /\ UNCHANGED closeErred

\* A destructor that forgets the descriptor, as if the member were an int.
Destroy_rawFd ==
    /\ obj = "alive"
    /\ obj' = "none"
    /\ Returns("destroy")
    /\ UNCHANGED <<members, kernel, hist>>

\* The destructor: only the FdGuard member has something to do.
Destroy ==
    /\ obj = "alive"
    /\ \/ /\ CloseReturns(fd)
          /\ owner' = Vacated(owner, fd)
          /\ fd' = NO_FD
          /\ obj' = "none"
          /\ Returns("destroy")
          /\ UNCHANGED <<fsmState, nonBlockingIo, socketAddr, sock, hist>>
       \/ CloseThrows(fd) /\ Terminates("destroy")

-----------------------------------------------------------------------------
(* bind, listen and accept.                                                *)

bindCheck == fsmState = INIT

listenCheck == fsmState = BOUND

acceptCheck == fsmState \in {LISTENING, ACCEPTING}

closeCheck == fsmState # CLOSED

\* The state is advanced before the system calls that may throw.
Bind_stateFirst(a) ==
    /\ obj = "alive" /\ bindCheck
    /\ fsmState' = BOUND
    /\ Fails("bind")
    /\ UNCHANGED <<obj, fd, nonBlockingIo, socketAddr, kernel, hist>>

\* socket, bind and fcntl have given a local guard the descriptor f, which is
\* moved into the member: the member closes what it held, then takes f over.
\* After a reset that failed in INIT, or a bind that threw too late, it may
\* hold a number, and a stale one may be f itself, which is then closed.
MovedIn(a, f) ==
    /\ fd = f \/ CloseReturns(fd)
    /\ owner' = Vacated([owner EXCEPT ![f] = Self], fd)
    /\ sock' = [sock EXCEPT ![f] =
           [addr |-> a, listening |-> FALSE, nonblock |-> nonBlockingIo]]
    /\ fd' = f

\* ::close fails in the move, and the local guard closes the new descriptor.
MoveThrows ==
    /\ CloseThrows(fd) /\ FreeFds \ {fd} # {}
    /\ owner' = Vacated(owner, fd)
    /\ closeErred' = (closeErred \/ IsOpen(fd))
    /\ UNCHANGED <<members, sock, past>>

\* The address is not remembered.
Bind_noAddress(a) ==
    /\ obj = "alive" /\ bindCheck
    /\ \E f \in FreeFds : MovedIn(a, f)
    /\ fsmState' = BOUND
    /\ past' = "bound"
    /\ Returns("bind")
    /\ UNCHANGED <<obj, nonBlockingIo, socketAddr, closeErred>>

\* After the move the address is copied, which allocates; if that throws, the
\* state is not advanced and the member keeps the bound socket.
Bind(a) ==
    /\ obj = "alive"
    /\ \/ ~bindCheck /\ Rejects("bind")
       \/ bindCheck /\ FailsUnchanged("bind")
       \/ bindCheck /\ UnwindingThrows("bind")
       \/ bindCheck /\ MoveThrows /\ Fails("bind") /\ UNCHANGED obj
       \/ /\ bindCheck
          /\ \E f \in FreeFds : MovedIn(a, f)
          /\ \/ /\ socketAddr' = a
                /\ fsmState' = BOUND
                /\ past' = "bound"
                /\ Returns("bind")
             \/ /\ past' = "halfBound"
                /\ Fails("bind")
                /\ UNCHANGED <<fsmState, socketAddr>>
          /\ UNCHANGED <<obj, nonBlockingIo, closeErred>>

Listen ==
    /\ obj = "alive"
    /\ \/ ~listenCheck /\ Rejects("listen")
       \/ listenCheck /\ FailsUnchanged("listen")
       \/ /\ listenCheck
          /\ IsOpen(fd)
          /\ sock' = [sock EXCEPT ![fd].listening = TRUE]
          /\ fsmState' = LISTENING
          /\ Returns("listen")
          /\ UNCHANGED <<obj, fd, nonBlockingIo, socketAddr, owner, hist>>

\* accept() keeps the connection in the object's own guard.
Accept_keepsClient ==
    /\ obj = "alive"
    /\ acceptCheck
    /\ IsOpen(fd) /\ sock[fd].listening
    /\ \E f \in FreeFds :
        /\ owner' = [owner EXCEPT ![f] = Self]
        /\ sock' = [sock EXCEPT ![f] = NewSocket]
    /\ fsmState' = ACCEPTING
    /\ Returns("accept")
    /\ UNCHANGED <<obj, fd, nonBlockingIo, socketAddr, hist>>

\* The new connection goes to the guard the caller passed, which is empty.
Accept ==
    /\ obj = "alive"
    /\ \/ ~acceptCheck /\ Rejects("accept")
       \/ acceptCheck /\ FailsUnchanged("accept")
       \/ /\ acceptCheck
          /\ IsOpen(fd) /\ sock[fd].listening
          /\ \E f \in FreeFds :
              /\ owner' = [owner EXCEPT ![f] = Other]
              /\ sock' = [sock EXCEPT ![f] = NewSocket]
          /\ fsmState' = ACCEPTING
          /\ Returns("accept")
          /\ UNCHANGED <<obj, fd, nonBlockingIo, socketAddr, hist>>

-----------------------------------------------------------------------------
(* close, reset and the blocking flag.                                     *)

Close ==
    /\ obj = "alive"
    /\ \/ ~closeCheck /\ Rejects("close")
       \/ /\ closeCheck /\ CloseReturns(fd)
          /\ owner' = Vacated(owner, fd)
          /\ fd' = NO_FD
          /\ fsmState' = CLOSED
          /\ Returns("close")
          /\ UNCHANGED <<obj, nonBlockingIo, socketAddr, sock, hist>>
       \/ /\ closeCheck /\ CloseThrows(fd)
          /\ owner' = Vacated(owner, fd)
          /\ closeErred' = (closeErred \/ IsOpen(fd))
          /\ Fails("close")
          /\ UNCHANGED <<obj, members, sock, past>>

\* The descriptor is closed, but its number is kept.
Reset_keepsNumber ==
    /\ obj = "alive"
    /\ CloseReturns(fd)
    /\ owner' = Vacated(owner, fd)
    /\ nonBlockingIo' = FALSE
    /\ fsmState' = INIT
    /\ past' = "reset"
    /\ Returns("reset")
    /\ UNCHANGED <<obj, fd, socketAddr, sock, closeErred>>

\* INIT is assigned before the close, which may throw.
Reset_stateFirst ==
    /\ obj = "alive"
    /\ owner' = Vacated(owner, fd)
    /\ fsmState' = INIT
    /\ \/ CloseReturns(fd) /\ fd' = NO_FD /\ Returns("reset")
       \/ CloseThrows(fd) /\ UNCHANGED fd /\ Fails("reset")
    /\ UNCHANGED <<obj, nonBlockingIo, socketAddr, sock, hist>>

\* socketAddr keeps its old value on purpose.
Reset ==
    /\ obj = "alive"
    /\ owner' = Vacated(owner, fd)
    /\ \/ /\ CloseReturns(fd)
          /\ fd' = NO_FD
          /\ nonBlockingIo' = FALSE
          /\ fsmState' = INIT
          /\ past' = "reset"
          /\ Returns("reset")
          /\ UNCHANGED <<obj, socketAddr, sock, closeErred>>
       \/ /\ CloseThrows(fd)
          /\ closeErred' = (closeErred \/ IsOpen(fd))
          /\ Fails("reset")
          /\ UNCHANGED <<obj, members, sock, past>>

\* The flag is saved before the system calls that may throw.
SetNonBlockIO_flagFirst(v) ==
    /\ obj = "alive"
    /\ nonBlockingIo' = v
    /\ \/ /\ IsOpen(fd)
          /\ sock' = [sock EXCEPT ![fd].nonblock = v]
          /\ Returns("setNonBlockIO")
       \/ UNCHANGED sock /\ Fails("setNonBlockIO")
    /\ UNCHANGED <<obj, fsmState, fd, socketAddr, owner, hist>>

SetNonBlockIO(v) ==
    /\ obj = "alive"
    /\ \/ /\ v = nonBlockingIo
          /\ Returns("setNonBlockIO")
          /\ UNCHANGED <<obj, members, kernel, hist>>
       \/ /\ v # nonBlockingIo /\ fd = NO_FD
          /\ nonBlockingIo' = v
          /\ Returns("setNonBlockIO")
          /\ UNCHANGED <<obj, fsmState, fd, socketAddr, kernel, hist>>
       \/ /\ v # nonBlockingIo /\ IsOpen(fd)
          /\ sock' = [sock EXCEPT ![fd].nonblock = v]
          /\ nonBlockingIo' = v
          /\ Returns("setNonBlockIO")
          /\ UNCHANGED <<obj, fsmState, fd, socketAddr, owner, hist>>
       \/ /\ v # nonBlockingIo /\ fd # NO_FD
          /\ FailsUnchanged("setNonBlockIO")

-----------------------------------------------------------------------------
(* The rest of the process opens and closes descriptors of its own.        *)

OtherOpen(f) ==
    /\ obj # "terminated"
    /\ f \in FreeFds
    /\ owner' = [owner EXCEPT ![f] = Other]
    /\ sock' = [sock EXCEPT ![f] = NewSocket]
    /\ last' = [call |-> "other", out |-> "returns"]
    /\ UNCHANGED <<obj, members, hist>>

OtherClose(f) ==
    /\ IsOpen(f) /\ owner[f] = Other
    /\ owner' = Vacated(owner, f)
    /\ last' = [call |-> "other", out |-> "returns"]
    /\ UNCHANGED <<obj, members, sock, hist>>

Next ==
    \/ Construct
    \/ \E a \in Addrs : ConstructListening(a)
    \/ Destroy
    \/ \E a \in Addrs : Bind(a)
    \/ Listen
    \/ Accept
    \/ Close
    \/ Reset
    \/ \E v \in BOOLEAN : SetNonBlockIO(v)
    \/ \E f \in Fds : OtherOpen(f)
    \/ \E f \in Fds : OtherClose(f)

Spec == Init /\ [][Next]_vars

-----------------------------------------------------------------------------
(* Properties.                                                             *)

Calls == {"none", "construct", "destroy", "bind", "listen", "accept", "close",
          "reset", "setNonBlockIO", "other"}

\* Every variable has its type, and without an object no member holds a
\* descriptor.
TypeOK ==
    /\ obj \in {"none", "alive", "terminated"}
    /\ fsmState \in States
    /\ fd \in Fds \cup {NO_FD}
    /\ obj # "alive" => fd = NO_FD
    /\ nonBlockingIo \in BOOLEAN
    /\ socketAddr \in Addrs \cup {DefaultAddr}
    /\ owner \in [Fds -> {Nobody, Self, Other}]
    /\ sock \in [Fds -> [addr : Addrs \cup {Unbound}, listening : BOOLEAN,
                         nonblock : BOOLEAN]]
    /\ last \in [call : Calls, out : {"returns", "rejects", "fails"}]
    /\ past \in {"fresh", "bound", "halfBound", "reset"}
    /\ closeErred \in BOOLEAN

\* No leak: every socket the object opened and did not close is the one its
\* guard holds, on the paths that throw half-way through as well.
NoLeak == \A f \in Fds : owner[f] = Self => fd = f

\* A server in INIT holds a socket only after a bind() that threw once the
\* socket was in the member: one that was never bound, or was reset, holds
\* none, even if ::close failed before.
InitHoldsNothing == fsmState = INIT /\ past # "halfBound" => fd = NO_FD

\* As long as no ::close reports an error, the number the guard holds is open
\* and the object's own.
HeldIsOwned == fd # NO_FD /\ ~closeErred => owner[fd] = Self

\* The guard holds a socket that is the object's.
OwnsSocket == fd # NO_FD /\ owner[fd] = Self

\* While the object owns a socket, its state says what the kernel knows: bound
\* and not listening in BOUND, listening in LISTENING and ACCEPTING, and
\* getSockAddr() reports the address the socket is really bound to.  INIT says
\* so of a socket only when it was left behind by a bind() that threw.
StateMatchesKernel ==
    OwnsSocket =>
        /\ sock[fd].listening <=> IsListening
        /\ \/ /\ fsmState \in {BOUND, LISTENING, ACCEPTING}
              /\ sock[fd].addr = socketAddr
           \/ fsmState = INIT /\ past = "halfBound"

\* The flag getNonBlockIO() reports is the O_NONBLOCK flag of the socket,
\* also when it was set before bind() and when setting it has failed.
FlagMatchesKernel ==
    OwnsSocket => sock[fd].nonblock = nonBlockingIo

\* Once the state has been assigned, the states that promise a socket have
\* one.  (Before that the uninitialised member may promise anything.)
LiveHoldsSocket ==
    obj = "alive" /\ past # "fresh" /\ fsmState \in {BOUND, LISTENING, ACCEPTING}
        => fd # NO_FD

\* The state tells whether the guard holds a number, stale numbers included,
\* after any order of calls and failures.
HeldAsStateSays == InitHoldsNothing /\ LiveHoldsSocket

\* What an exception leaves behind: state, flag and address are those of before
\* the call ("otherwise no exception safety", setNonBlockIO), and so are guard
\* and kernel, unless it was ::close that failed, or a bind() whose socket was
\* in the member already.  That one is the object's, to be closed by the next
\* bind, reset or destructor.
ThrowKeepsState ==
    [][last'.out # "returns" /\ obj' # "terminated" =>
        /\ UNCHANGED <<fsmState, nonBlockingIo, socketAddr>>
        /\ \/ UNCHANGED fd /\ (closeErred' \/ UNCHANGED kernel)
           \/ /\ last'.call = "bind" /\ past' = "halfBound"
              /\ owner'[fd'] = Self \/ closeErred]_vars

\* A call on the server never touches a descriptor of anybody else, in
\* particular not an accepted connection: the sample program closes the
\* server and goes on reading from the connection.
OthersUntouched ==
    [][last'.call # "other" /\ obj' # "terminated" /\ ~closeErred =>
        \A f \in Fds : owner[f] = Other =>
            owner'[f] = Other /\ sock'[f] = sock[f]]_vars

(* What a comment of the code promises and the code does not keep.         *)

\* reset() leaves the old address in place because it "cannot be read, will
\* throw error": until the next bind() nobody is told the address of an
\* earlier one.
ResetHidesAddress ==
    obj = "alive" /\ past = "reset" /\ IsBound => socketAddr = DefaultAddr
=============================================================================
