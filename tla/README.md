# TLA+ models of socket_interface

`socket_interface` is a small C++ wrapper (namespace `snl`) around POSIX stream
sockets. This directory holds TLA+ specifications of it, the TLC configurations
that check them on small instances, and machine-checked proofs of some of the
results for instances of every size. Paths such as `src/FdGuard.cpp:58` are
relative to the root of the repository's source tree.

- [Inventory](#inventory): the parts of the system, and what makes them correct
- [Plan](#plan): what is written and what comes next
- [Modules](#modules): how the models correspond to the code
- [Runs](#runs): what is checked, with which bounds
- [Divergences](#divergences): where the code does not do what it says
- [Fairness](#fairness), [Proofs](#proofs), [What is not modelled](#what-is-not-modelled)

## Inventory

| Component | State | Operations |
|---|---|---|
| `FdGuard` | one descriptor number, `NO_FD` (-1) when empty | construction (empty, from a number, `makeFdGuard`), move construction and assignment, `release`, `reset`, `close`, destruction; `closeFd` is the one caller of `::close` |
| `ServerSocketFsm` | `fsmState`, a guard `servSockFd`, `nonBlockingIo`, `socketAddr`, `backlog` | `toNextState` with a bind, listen, accept, close or reset action; `setNonBlockIO`; inspections |
| `StreamSocketFsm` | `fsmState`, a guard `strSoFd`, `nonBlock`, `socketAddress` | `toNextState` with a connect, reconnect, send, receive, close (whole, upstream, downstream) or reset action; `setNonBlock`; inspections |
| `ServerSocket`, `StreamSocket` | a `unique_ptr` to the state machine, null after a move | moves; forward every call to it; `ServerSocket::accept` builds a `StreamSocket` from the accepted descriptor |
| `sendline`, `readline`, `sendBuff`, `receiveBuff` | locals: how much is sent, what has been read | loops around `StreamSocket::send` and `receive` |
| `SocketAddress`, `IpAddress`, `TcpPort` | values | construction from text or numbers, copies, conversion from and to `sockaddr` |
| `SnlException` and its kin | a message and an `errno` | thrown by everything above |
| `main.cpp` | the sample client and server | a loop around `readline`, and one around `receiveBuff` |

How they interact. A state machine owns one `FdGuard`; every state-changing
call checks the state, makes its system calls through `executeSyscall` or
`makeFdGuard`, which throw when a call fails, and then assigns the members. The
guards of one process share the kernel's descriptor table with each other and
with all other code: a number that is closed is free for anybody. Server and
client processes share nothing but the connection, a pair of byte streams of
which the kernel buffers a limited part.

What is hard here.

- *Failure half-way through.* Every call consists of several system calls, any
  of which may fail; what was opened must be closed and the members must stay
  consistent with the kernel. `::close` itself can report an error, and
  destructors, which are `noexcept`, call it.
- *Stale numbers.* A number that is remembered after it was closed may by now
  be somebody else's descriptor.
- *Order.* The two state machines allow some calls in some states; long legal
  sequences (reset, reconnect, half closes) must not lead to a state the checks
  were not written for.
- *Cutting of streams.* The kernel may take or give fewer bytes than asked for,
  the peer may die or hang up between two iterations of a loop, and a call may
  fail in the middle of it, with `EAGAIN` on a non-blocking socket and with
  `EINTR` and others on any.

There are no threads in the library and no shared objects between threads; the
concurrency is between processes, and between an object and the rest of its
process as far as descriptors are concerned.

What makes each part correct.

- `FdGuard`: every descriptor handed to a guard has exactly one owner, is never
  forgotten and never closed twice or on behalf of somebody else.
- `ServerSocketFsm`: its state says what the kernel knows about the socket; no
  socket leaks; a call that throws leaves state, flag and address as they were;
  accepted connections lead a life of their own.
- `StreamSocketFsm`: the same, and its state names the halves of the connection
  that are open, so that a send on a half this process shut down never reaches
  the kernel (it would raise `SIGPIPE`).
- `sendline` and `readline`: a channel of whole lines, in order, each delivered
  once, and eventually; what an exception in the middle of a line spoils can be
  told.
- `sendBuff` and `receiveBuff`: the receiver's buffer is always a beginning of
  the sender's, and gets all of it eventually; two programs that exchange
  buffers get stuck only in orders that can be named.
- `ServerSocket` and `StreamSocket` together: clients are served in the order in
  which they came, a served client keeps its connection until a call on the
  variable that holds it, whatever becomes of the server, moves carry a connection along and `accept` hands over the right one.
- addresses: whatever was copied, moved, assigned or swapped, the kernel is told
  the host and port the program means, and what it reports back is the same
  address.

## Plan

Written, in this order because everything rests on the ownership of
descriptors:

1. `Descriptors`, `FdGuard`, `FdGuard_proofs`
2. `ServerSocketFsm`
3. `StreamSocketFsm`
4. `ByteStream`, and over it `LineIO` with its abstract specification
   `LineChannel`, and `BuffIO`
5. `Addresses`, `Addresses_proofs`
6. `Endpoints`, which joins the two classes of a process, and its abstract
   specification `Reception`
7. both directions of a connection in `BuffIO`, and when that can be stuck
8. `ServerSocketFsm_proofs`, `StreamSocketFsm_proofs`, `BuffIO_proofs`,
   `LineIO_proofs`, `Endpoints_proofs`
9. `LineRetry`, what is left of the channel when the sending program calls again
   after an exception

To come: a proof of what `LineRetry` states, and the same for a receiver that
calls again.

## Modules

| Module | Models | Actions and the code |
|---|---|---|
| `Descriptors` | the kernel's descriptor table, `FdGuard::closeFd` | no actions of its own. `owner[f]` is the party a number belongs to |
| `FdGuard` | any number of guards in one process, and code around them that holds raw numbers | one action per constructor, operation and destructor; `Open` and `CloseOwn` are the code around |
| `ServerSocketFsm` | one server object at a time | one action per public operation; `OtherOpen`, `OtherClose` the rest of the process |
| `StreamSocketFsm` | one stream socket at a time, and its peer | the same; `PeerFinishes` and `PeerResets` are the peer |
| `ByteStream` | one direction of a connection, as `::send` and `::recv` see it | no variables: operators on a queue of bytes, for `LineIO` and `BuffIO` |
| `LineIO` | a sender that calls `sendline`, a receiver that calls `readline` | one action per system call in the loops |
| `LineChannel` | what the two promise together | accept a line, deliver a line |
| `LineRetry` | `LineIO` with a sender that calls again after an exception | the actions of `LineIO`; two history variables say which lines were sent whole behind whole ones |
| `BuffIO` | two programs, each with `sendBuff` and a loop around `receiveBuff`, in both directions of one connection | one action per system call in the loops; `Close`, `HangUp` and `Crashes` end a program |
| `Endpoints` | the variables of class `ServerSocket` and `StreamSocket` in one process, the kernel's sockets behind them, and the clients that connect | one action per constructor, move, destructor and state-changing call of the two classes; `ClientConnects` is a client |
| `Reception` | what `Endpoints` promises the clients | arrive, serve, leave, close the door |
| `Addresses` | any number of `IpAddress` and `SocketAddress` objects, `TcpPort`, the kernel's side of a `sockaddr_storage` | one action per constructor, factory, assignment, swap and destructor, and for `getIpAddress`; the conversions are operators |
| `MC_*` | instances for TLC | - |
| `FdGuard_proofs`, `ServerSocketFsm_proofs`, `StreamSocketFsm_proofs`, `LineIO_proofs`, `BuffIO_proofs`, `Endpoints_proofs`, `Addresses_proofs` | theorems about the module in the name | - |

Operators with a suffix (`Close_keepsNumber`, `SendSome_once`) stand next to the
definition they vary. They are not part of any behaviour: each is a version of
it with a plausible mistake, kept to show that a property notices.

Modelling decisions that hold throughout:

- A call on an object is one step of the model: nothing in the library runs
  concurrently with it on the same object, and the rest of the process is not
  affected half-way. Each action has one disjunct per way the call can end: an
  order check that throws, a system call that fails, success. `last` records
  the call and how it ended. The exceptions are the loops of `LineIO` and
  `BuffIO`, where the peer acts between two iterations.
- The kernel may hand out any free number. POSIX promises the lowest, but code
  outside the model may hold any of them, so the choice seen from here is free.
- `::close` on a number that is not open fails, and it may report an error for
  one that is open; the number is free afterwards in either case, which is what
  Linux does. `closeFd` then throws and the guard keeps its number
  (`src/FdGuard.cpp:58`). The history variable `closeErred` records an error for
  an open descriptor. Properties that only hold as long as there was none say
  so; a failure with `EBADF` is no excuse for them.
- A destructor that throws ends the process (`obj = "terminated"`), and the
  kernel closes everything. The same happens when a local guard has to close
  the descriptor it just opened while an exception leaves the function.
- The member `fsmState` of a `ServerSocketFsm` is not initialised by the default
  constructor (`src/ServerSocketFsm.cpp:22`). `FreshStates` is the set of values
  it may have: all states, and `GARBAGE`, which stands for the values above
  `CLOSED`, all of which the comparisons of the code treat alike.
- Two calls change something and may throw all the same, since making or
  copying a `SocketAddress` allocates. `bind` moves the bound socket into the
  member, copies the address (`src/ServerSocketFsm.cpp:43`), and assigns the
  state last: if the copy throws, a server in `INIT` holds a bound socket, which
  the history variable `past` records as `"halfBound"`. The move (`MovedIn`,
  `MoveThrows`) then has something to close in the next `bind`. `reset` of a
  stream socket closes, makes an empty address (`src/StreamSocketFsm.cpp:121`),
  and assigns the state last: if that throws, the object keeps a state that
  promises a connection, and has none. `ThrowKeepsState` says what is left in
  either case.
- `listen`'s backlog is the kernel's `listening` flag; which connection `accept`
  returns makes no difference to the server's state.
- In the state machines addresses are model values; `DefaultAddr` is that of a default-constructed
  `SocketAddress`.
- In `StreamSocketFsm` a connection has the halves this process has not shut
  down (`rd`, `wr`) and what the peer did (`link`). `::send` may fail for any
  reason at any time; writing to a broken pipe may kill the process unless
  `MSG_NOSIGNAL` is given.
- A connection handed to the constructor that `ServerSocket::accept` uses is one
  that another part of the process opened before, in blocking mode.
- `LineIO`: any `::send` and any `::recv` may fail at any time, since
  `executeSyscall` throws on every error: `EINTR` or `ENOBUFS` on a blocking
  socket as well as `EAGAIN` on a non-blocking one, so that the two need not be
  told apart. `Retries` says which programs call again after an exception (the
  others stop using the socket), `Faults` which of a crash of the sender and a
  hang-up of the receiver can happen. `LinesAssumption` asks that lines and delimiter are strings and
  that a line with its delimiter contains the delimiter only at the end; without
  that the protocol itself is ambiguous.
- `Addresses`: an object's pointer is `NONE` (no object), `NULL` (moved from) or
  the implementation it owns; that no two objects own the same one is the
  business of `unique_ptr`. `hosts` and `endpoints` are history variables: they
  follow what the program means by each object and are never read by the code.
  A program does not read a moved-from object, because the code dereferences the
  null pointer; it may assign to one. Functions that can throw return the set of
  their results. Every allocation may fail (`Throws`). Ports have their full 16
  bits, and `ExchangeBytes` is what `htons` and `ntohs` do on a little-endian
  machine; addresses of hosts are opaque, since the code only copies them.
- `BuffIO`: both programs know both sizes, and a receiver moves the head of its
  buffer by what it got, as `src/main.cpp:38-43` does. An end that sends and
  receives does one after the other (`first`); a size of 0 means that it sends
  nothing. The bytes are numbered by their place. `::send` may fail at any time
  here, too; `sendBuff` then forgets its count, and the program gives up. A poll that finds nothing is
  an exception that changes nothing, so `ReceiveNothing` stutters. Closing a
  socket loses what was on its way to it; when there was anything the connection
  is reset, and then what the closed end had sent may be lost too (`Leaves`).
- `Endpoints`: an object is a pointer and, behind it, the state machine reduced
  to state, descriptor and peer. The pointer is `"none"` without an object and
  `"null"` after a move. A call through a null pointer ends the process
  (`CallMovedFrom`), except assignment, destruction and being moved once more.
  Calls that throw before they changed anything are stuttering steps and not
  written down; the two state machine modules have them. There is one port, and
  since the library does not set `SO_REUSEADDR` it cannot be bound while a socket
  or an accepted connection uses it (`PortIsFree`). A client that was accepted
  cannot be reached again by `resetConnection`, since nobody listens where it
  connected from; a host this process connected to can. The address a closed
  `StreamSocket` goes on reporting is left out. After a `::close` that reported
  an error for an open descriptor the model stops (`~closeErred` in `Next`, a
  bound): what stale numbers do is the subject of `FdGuard` and of the state
  machines.

## Runs

Each run answers one question. Where deadlock is not checked the system may
really stop: the process has ended (a destructor threw, a signal), or both
programs have done what they wanted.

| Run | Expected | Question |
|---|---|---|
| `FdGuard` | pass | does any operation forget a descriptor, also when it throws half-way; are ownership, exclusiveness and rightful closes kept until `::close` reports an error? |
| `ServerSocketFsm` | pass | does the server's state agree with the kernel, whatever system call fails, `::close` included? |
| `StreamSocketFsm` | pass | the same for a connection, with half closes, reconnects and the peer |
| `LineIO` | pass | are lines delivered whole, in order, once and eventually, and what has been read when the stream ends? |
| `LineRetry` | pass | which lines does a program spoil that calls `sendline` again after an exception? |
| `BuffIO` | pass | is the received part always a beginning of the buffer, is the count exact, can the two programs get stuck, and do both finish otherwise? |
| `Endpoints` | pass | is every descriptor in exactly one variable that says truly what it is; are clients served in order, none losing its place because of another; who can end a client's connection; is nobody left waiting? |
| `Addresses` | pass | do family, storage and length tell the kernel what the program means, after any calls and failures; does an address survive the round trip? |
| the four others | violation | see [Divergences](#divergences) |

Bounds, and why they are enough.

- `FdGuard`: three guards, three numbers. Exchanging descriptors between two
  guards takes two of each, the third guard and number are the bystander that a
  wrong close would hit. The proofs drop the bounds.
- `ServerSocketFsm`, `StreamSocketFsm`: two numbers, the object's own and one
  that belongs to someone else (an accepted connection, or a number that was
  given back and taken over). The object never owns two at a time, except
  inside one call. Two addresses, so that a second bind or connect can differ
  from the first.
- `LineIO`: a buffer of three bytes, a delimiter of two, three lines chosen from
  the empty one, one that ends in half a delimiter, one that starts with the
  other half, and one that together with its delimiter exceeds the buffer. So
  sends are partial, delimiters arrive in two pieces, and several lines are on
  the wire at once. Both programs give up after an exception (`Retries = {}`).
- `LineRetry`: the same buffer, lines and delimiter, four lines and a sender that
  always calls again; so there is a line that is cut, one that merges with it,
  and one after that, and more than one cut can come before a whole line. That
  no more than one further line is spoiled rests on a delimiter that does not
  overlap itself, as the default `"\r\n"` does not. A receiver that calls again
  is not in any run: what it loses is any part of any line it retries.
- `BuffIO`: each end sends 0, 3 or 8 bytes over a buffer of three: nothing, just
  what the kernel holds, and more than twice that; each end in either order.
- `Endpoints`: two variables of each class, a source and a target for every
  move; two clients, one of which can wait while the other is served, with a
  backlog of two; three numbers, so that `t = server.accept()` can open a
  connection before it closes one, and a server that serves both clients has no
  number left. The uninitialised state is `INIT` here; the run
  `ServerSocketFsm` has the other values. Nothing tells the clients apart, so
  `WaitingIsMet` follows one of them.
- `Addresses`: two objects of each class, so that there is a source and a
  target; ports 0, 65535 and 8080, whose bytes differ; IPv6 labels 0 and 1. The
  proofs drop the bounds.

What the properties say is in the comment above each of them. The ones that say
most: `NoLeak` (every path of every call, also when `::close` fails),
`StateMatchesKernel` and `HalvesMatchState` (a member and the kernel agree after
any sequence), `ThrowKeepsState` (what an exception leaves behind, which the code says of one
call only), `OnlyThePeerBreaksIo` (the order checks keep fatal
calls away from the kernel), `LinesInOrder` and `LinesArrive` (refinement of the
fair channel), `EofAfterEverything` (what the receiver has when a line was cut
off), `RetrySpoilsOneMoreLine`, `CountIsExact`, `StuckOnlyTogether` (which orders of sending and
receiving are safe whatever the sizes), `ClientsAreServed` (refinement: no call on
the two classes costs more than one client its place) and `LostByItsHolderOnly`.
The last two belong together: `Reception` bounds how many clients a call can
cost and keeps their order, but lets the program end the connection of a served
client at any time; `LostByItsHolderOnly` says with which calls it does, those
on the variable that holds the connection.

## Divergences

Each of these was found with the model and confirmed by running the library.
Those that begin with the name of a run have one that TLC ends with a
counterexample.

1. A default-constructed server may report that it is bound and refuse `bind()`,
   because `fsmState` is not initialised (`src/ServerSocketFsm.cpp:22`,
   `src/ServerSocketFsm.h:93`). `Construct` gives it any value of `FreshStates`,
   and the run `ServerSocketFsm` starts from every one.
2. `ServerSocketFsm_staleAddress`: after `bind`, `reset`, `close` the server
   reports that it is bound, and gives the address of the earlier bind, which a
   comment says cannot be read (`src/ServerSocketFsm.cpp:126`).
3. A `bind` whose copy of the address throws (`src/ServerSocketFsm.cpp:43`)
   leaves a bound socket in a server that says `INIT`: the exception in
   `StateMatchesKernel`, `HeldAsStateSays` and `ThrowKeepsState`. `isBound()` is
   false, the port stays in use, and the next `bind` passes the check that
   throws "binding to already bound socket" (`src/ServerSocketFsm.cpp:203`) and
   closes the first socket.
4. After a `resetConnection` that failed, `isConnected()` is true and there is no
   descriptor (`src/StreamSocketFsm.cpp:127-132`). Action `ReConnect` has this
   path; `HalvesMatchState` says that a later try puts state, address and
   connection in agreement again.
5. `StreamSocketFsm_askedMode`: the member `nonBlock` is compared with and never
   assigned (`src/StreamSocketFsm.cpp:134-148`). A mode asked for before
   `connect` is lost, `setNonBlockIO(false)` cannot undo
   `setNonBlockIO(true)`, and `resetConnection` turns a non-blocking connection
   into a blocking one.
6. `LineIO_sendError`: when `::send` fails with the buffer full (`EAGAIN` on a
   non-blocking socket, `EINTR` on a blocking one that waits) `sendline` throws
   in the middle of a line (`src/StreamSocket.h:69` says it always blocks).
   `readline` does the same (`src/StreamSocket.h:78`), and a program that calls
   again after it has lost the beginning of a line; `MSG_WAITALL` does not help.
7. `LineIO_sigpipe`: a receiver that hangs up kills the sender with `SIGPIPE`;
   no exception is thrown (`src/StreamSocket.cpp:102`, `:116`).
8. After a `::close` that reported an error `FdGuard::get()` goes on returning
   the number (`src/FdGuard.cpp:58` against the comment `src/FdGuard.h:30`). It
   is why `HeldIsOwned` has a condition wherever it appears.
9. `resetConnection` after `close` always throws, although the host is known:
   `getSockAddress()` does not answer in `CLOSED`. Action `ReConnect` has this
   path.
10. `receiveBuff` throws when there is nothing to read, where
    `src/StreamSocket.h:97` says that it returns immediately; the sample program
    does not catch that. The receiver of `BuffIO` does, and polls on.

## Fairness

`LineIO`: weak fairness of `SendSome` (a call of `sendline` that was made goes on
as long as the kernel lets it) and of `ReadStep` (the receiving program calls
`readline` in an endless loop, as `src/main.cpp:76-80` does, and reads what is
there). Both are single processes in a loop without any other wait than the one
inside the system call, so nothing but the scheduler is assumed. `BuffIO`: for
each end, weak fairness of `SendSome` and of `ReceiveSome`, for the same reasons;
in particular a program that polls and finds nothing polls again. Nobody is
obliged to start a call, to close, to crash or to hang up, and nothing is
assumed of the ways a call can fail: that a `::send` does not fail is not
assumed either, and `BothFinish` and `LinesArrive` name the failures after which
nothing has to arrive, an exception of `::send` among them.

`Endpoints`: `KeepsAccepting` is weak fairness of `accept()` as a whole: the
program goes on calling it, on any server, and of a call that finds a client and
a number it does not matter how it ends, since a client whose `StreamSocket`
cannot be made is told by the end of its connection. The sample program calls
it once (`src/main.cpp:36`); this is the loop every server puts around it. The
program owes nothing else. `WaitingIsMet` does not count the time in which the
process has no free number.

## Proofs

Every safety property that a passing run checks, invariants, action properties
and the two refinements alike, is also a theorem, except
`RetrySpoilsOneMoreLine`; for all values of the constants that the assumptions
below allow: any set of descriptor numbers, addresses, hosts, variables and clients,
any buffer sizes and lines, any capacity of the kernel. All are theorems of
`Spec`, without fairness. What stays with TLC is at the end of this section.

| Module | Theorem | Statement |
|---|---|---|
| `FdGuard_proofs` | `TypeCorrect` | `Spec => []TypeOK` |
| | `NothingLeaks` | `Spec => []NoLeak` |
| | `HeldNumbersAreOwned` | `Spec => []HeldIsOwned` |
| | `GuardsAreExclusive` | `Spec => []ExclusiveOwnership` |
| | `EveryCloseIsRightful` | `Spec => []RightfulClose` |
| `ServerSocketFsm_proofs` | `TypeCorrect` | `Spec => []TypeOK` |
| | `NothingLeaks` | `Spec => []NoLeak` |
| | `HeldNumberIsOwned` | `Spec => []HeldIsOwned` |
| | `StateIsTheKernels` | `Spec => []StateMatchesKernel` |
| | `FlagIsTheKernels` | `Spec => []FlagMatchesKernel` |
| | `StateTellsWhatIsHeld` | `Spec => []HeldAsStateSays` |
| | `ThrowsKeepState` | `Spec => ThrowKeepsState` |
| | `OthersAreLeftAlone` | `Spec => OthersUntouched` |
| `StreamSocketFsm_proofs` | `TypeCorrect` | `Spec => []TypeOK` |
| | `NothingHeldInInit` | `Spec => []InitHoldsNothing` |
| | `NothingLeaks` | `Spec => []NoLeak` |
| | `HeldNumberIsOwned` | `Spec => []HeldIsOwned` |
| | `HalvesAlwaysMatchState` | `Spec => []HalvesMatchState` |
| | `ThrowsKeepState` | `Spec => ThrowKeepsState` |
| | `OnlyThePeerBreaksIoHolds` | `Spec => OnlyThePeerBreaksIo` |
| | `OthersAreLeftAlone` | `Spec => OthersUntouched` |
| `LineIO_proofs` | `TypeCorrect` | `NoRetries /\ Spec => []TypeOK` |
| | `EverythingSentIsRead` | `NoRetries /\ Spec => []EofAfterEverything` |
| | `LoopsAreAChannel` | `NoRetries /\ Spec => LinesInOrder` (refinement of `LineChannel`) |
| `BuffIO_proofs` | `TypeCorrect` | `Spec => []TypeOK` |
| | `WhatArrivesIsAPrefix` | `Spec => []ReceivedIsPrefix` |
| | `CountsAreExact` | `Spec => []CountIsExact` |
| | `EofNeedsAFault` | `Spec => []EofOnlyByFault` |
| | `StuckOnlyIfBothAreAlike` | `Spec => []StuckOnlyTogether` |
| `Endpoints_proofs` | `TypeCorrect` | `Spec => []TypeOK` |
| | `NumbersAreHeldOnce` | `Spec => []HeldOnce` |
| | `ObjectsTellTheTruth` | `Spec => []HoldsWhatItSays` |
| | `ReceptionIsImplemented` | `Spec => ClientsAreServed` (refinement of `Reception`) |
| | `ConnectionsEndByTheirHolder` | `Spec => LostByItsHolderOnly` |
| `Addresses_proofs` | `TypeCorrect` | `Spec => []TypeOK` |
| | `KernelIsTold` | `Spec => []ToldAsMeant` |
| | `StorageRoundTrip` | `Spec => []RoundTrip` |

### What they assume

Nothing but the named assumptions on constants, which TLC evaluates on every
run:

- `DescriptorsAssumption`: descriptor numbers are natural (so -1 is none of
  them). `GuardsAssumption` of `FdGuard`: no guard is confused with the other
  parties.
- `ServerAssumption`, `StreamAssumption`: the default address is none that a
  program binds or connects to, and the uninitialised state is one the enum's
  storage can hold, `INIT` among them.
- `CapacityAssumption`: the kernel buffers at least a byte. `BufferAssumption`:
  sizes are natural numbers, and the faults are the ones named.
- `LinesAssumption`: see the modelling decisions above.
- `EndpointsAssumption`: the variables of the two classes are different ones,
  the names of clients are not the names of other hosts, the backlog is natural.
- `AddressesAssumption`: ports fit into 16 bits and include 0, the localhost
  address is one of the IPv4 addresses, and the two empty pointers are no
  implementations.

The theorems about `LineIO` have a hypothesis of their own, `NoRetries`: no
program calls `sendline` or `readline` again after an exception (`Retries = {}`).
The code does not promise more: an exception in the middle of a line forgets how
far the line was (divergence 6), on a blocking socket too, and the program that
calls again sends the beginning of a line twice or loses it. TLC finds a
counterexample to `LinesInOrder` when either program does. What remains true of a
sender that calls again is `RetrySpoilsOneMoreLine`, which TLC checks.

### Why they hold

`FdGuard`. `TypeOK` is inductive. `NoLeak` is inductive given `TypeOK`: an
action that frees or hands on a number changes the guard's member and the table
in the same step, and one that throws gives the number up in the table.
`HeldIsOwned` is inductive together with `TypeOK` (`OwnershipInv`): the branch
of an action in which `closeFd` throws leaves a stale number behind, but on a
number that is owned, hence open, it also sets `closeErred`, and `closeErred`
never becomes false again (`CloseErrStays`). `ExclusiveOwnership` follows from
`HeldIsOwned`, since a number has one owner; no run repeats it. `RightfulClose` is inductive
together with `OwnershipInv`, because a guard closes the number it holds, and
that is its own. The lemmas at the beginning say what `Vacated` and `Handed` do
to the table entry by entry; each preservation lemma has a step per action.

`ServerSocketFsm`. `bind()` is a move that closes what the member held and then
takes the new number over; `MovedInOwner` and `MovedInSocket` say once what that
does to the two tables, also when the member held a stale number that the kernel
has just given out again, and every invariant uses them. `NoLeak` is inductive
with the types: the number that was held is closed, whether the call returns or
throws, and the new one is in the guard or closed. `InitHoldsNothing` is
inductive by itself, its exception being the `"halfBound"` that the same step
records; `HeldAsStateSays` is it and `LiveHoldsSocket`. What the members say of
the kernel is proved of the state and the flag together (`Agrees`): both change
in the call that changes the kernel, and every other step, another party's
included, leaves the socket behind the guard alone or takes it away
(`AgreesKept`). `OthersUntouched` needs the ownership invariant: what a call
closes is the number the guard holds, and that is the object's own.

`StreamSocketFsm`. The same, with two more invariants. `HalvesMatchState` is
not inductive: an object constructed from an accepted descriptor says
`CONNECTED`, which is true only if nobody has shut down a half of it.
`ShutHalvesAreHeld` says so of every open descriptor: a half that this process
shut down belongs to the connection behind the member, and the state says
which. It is stated of the number and not of its owner, since a member may keep
a number that has become somebody else's, and the order checks must keep fatal
calls away from that one too; `OnlyThePeerBreaksIo` rests on it. `FreeIsClear`,
that nothing is behind a free number, is needed for `ThrowKeepsState`: a
socket that is opened and closed again in a call that throws leaves the kernel
as it was.

`BuffIO`. One inductive invariant, `Inv`, gives all five theorems. For each end
it says that what arrived is the beginning of a buffer and what is on the wire
follows it (`RightBytes`), that both together are what `sendBuff` counted as
long as nothing is lost (`Counted`), how far the two buffers are at each place
of the program (`Phase`), and who is to blame for an end of the stream
(`EofBlame`). `StuckOnlyTogether` follows by counting. Two ends that are both
in the middle of sending, over full wires, have each received less than the
other's buffer: each of them sends first, and more than the kernel holds. Two
that poll empty wires have each sent less than their buffer, and so receive
first. And one cannot wait for a full wire while the other finds the same wire
empty.

`LineIO`. The invariant puts all accepted lines and their delimiters in a row
(`Stream`): line `i` ends at byte `ends[i]`. What `sendline` does says how many
of these bytes were sent (`SentSoFar`), what `readline` does how many were read
(`ReadSoFar`), and the wire holds those between the two (`Flow`). The row and
the positions are rigid values under an existential quantifier: `BeginSendline`
extends them, all other steps keep them, so no recursive definition is needed.
`ReadPart` is where the delimiter matters: it occurs in the part of a line that
was read when all of the line was read, and not before, and without it the line
remains. From there `ReadByte` delivers the next line or stutters, which is the
step of `LineChannel`.

`Endpoints`. A call makes several system calls in a row, and its effect on
three tables is too much to look at in one piece. The invariant is therefore an
operator `Consistent(b, o, k)` of the objects, the owners and the kernel's
sockets, and lemmas without primes say what each system call does to it
(`CloseConsistent`, `OpenConsistent`, `MoveConsistent`, `RestateConsistent`);
an action is the chain of those that it makes. It says more than the
properties: only a listening socket has a queue, one socket at a time uses the
port, and a client is in one place at most (`Sorted`, `OnePort`, `OnePlace`).
`Inv` adds what is left of it after a `::close` that reported an error, and
that nothing is open once the process has ended. For the refinement,
`ServedAreConnected` shows that the clients served in `Reception` are those at
the other end of some descriptor, which the lemmas `ClosePromised`,
`ViewOpened` and `ViewPopped` then follow through the kernel's table alone;
`NextKeeps` says that every call that does not end the process does to the
queue and to those served what `Reception` allows (`Promised`): it takes at
most the head of the queue, and costs at most one client its connection. Which
connection that is follows from `Alone`: a step that keeps the peer behind every
number but that of one variable can lose only the client of that variable
(`OnlyItsHolder`), and every action is such a step, or keeps all peers
(`NextLoses`).

`Addresses`. `ToldAsMeant` is about what the kernel reads, and as it stands
would have to be taken apart at every copy. The inductive invariant `IInv` says
instead that each object is empty and means nothing, or is the implementation
made from what it means (`IpAgrees`, `SockAgrees`), which copies, moves and
swaps carry along. That such an object tells the kernel what it means is shown
once, in `KernelReads` and `StorageOfHost`, from the fact that exchanging the
bytes of a 16-bit number twice gives the number (`ExchangedTwice`).

### Model-checked only

The liveness properties `LinesArrive`, `BothFinish` and `WaitingIsMet` rest on
fairness and `ENABLED`, which the prover cannot treat. `RetrySpoilsOneMoreLine`
speaks of subsequences, which would have to be followed by induction over the
lines. The four runs that end with a counterexample are TLC's by nature.

## What is not modelled

- Name resolution and the text formats of addresses belong to the C library:
  in `Addresses` a text names an address of one family and is malformed for the
  other. `getIpString` is left out.
- `SnlException` and its kin: they carry text and an error number. The models
  keep how a call ended, which is what programs can tell apart.
- The member `backlog`, which is written and never read.
- Functions that are declared and never defined: `swap` for `FdGuard`,
  `ServerSocketFsm::resetCheck`, `ServerSocket::closeUpstream` and
  `closeDownstream`, `ServerSocket::bind(IpAddress, TcpPort)`.
- Messages written to `std::cout`, and most of `main.cpp`, which shows how
  addresses and exceptions are used.
