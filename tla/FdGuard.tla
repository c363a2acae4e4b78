------------------------------ MODULE FdGuard ------------------------------
(***************************************************************************)
(* snl::FdGuard: an object that owns one file descriptor and closes it     *)
(* when it dies.  Several guards live in one process, together with raw    *)
(* descriptors that the calling code holds itself (what release() returned *)
(* or a system call produced) and descriptors of code that does not use    *)
(* the library at all.                                                     *)
(***************************************************************************)
EXTENDS Descriptors

CONSTANT Guards    \* the places in memory where a guard can be constructed

Caller == "caller" \* code that uses guards and holds a raw descriptor
Other  == "other"  \* everything else in the process

Parties == Guards \cup {Caller, Other}

ASSUME GuardsAssumption == Guards \cap {Nobody, Caller, Other} = {}

VARIABLES
    alive,         \* the guards that are constructed and not yet destroyed
    fd,            \* fd[g] is the member FdGuard::fd of guard g
    terminated,    \* std::terminate was called, the process is gone
    lastClose,     \* history: who called ::close last, on whose number
    closeErred     \* history: ::close failed on an open descriptor

vars == <<owner, alive, fd, terminated, lastClose, closeErred>>

Init ==
    /\ owner = [f \in Fds |-> Nobody]
    /\ alive = {}
    /\ fd = [g \in Guards |-> NO_FD]
    /\ lastClose = [by |-> Nobody, of |-> Nobody]
    /\ terminated = FALSE
    /\ closeErred = FALSE

\* Party p issues ::close for number f, unless f is NO_FD.
RecordClose(p, f) ==
    lastClose' = IF f \in Fds THEN [by |-> p, of |-> owner[f]] ELSE lastClose

\* The descriptor table after f passed from one party to the next one, as far
\* as it belonged to the first.
Handed(table, f, from, to) ==
    IF f \in Fds /\ table[f] = from THEN [table EXCEPT ![f] = to] ELSE table

-----------------------------------------------------------------------------
(* Constructors.                                                           *)

\* The member starts at 0 where NO_FD is meant.
DefaultConstruct_zero(g) ==
    /\ ~terminated /\ g \notin alive
    /\ alive' = alive \cup {g}
    /\ fd' = [fd EXCEPT ![g] = 0]
    /\ UNCHANGED <<owner, terminated, lastClose, closeErred>>

DefaultConstruct(g) ==
    /\ ~terminated /\ g \notin alive
    /\ alive' = alive \cup {g}
    /\ UNCHANGED <<owner, fd, terminated, lastClose, closeErred>>

\* makeFdGuard with a system call that succeeds; when it fails nothing is
\* constructed and nothing changes.
MakeFdGuard(g, f) ==
    /\ ~terminated /\ g \notin alive
    /\ f \in FreeFds
    /\ alive' = alive \cup {g}
    /\ fd' = [fd EXCEPT ![g] = f]
    /\ owner' = [owner EXCEPT ![f] = g]
    /\ UNCHANGED <<terminated, lastClose, closeErred>>

\* FdGuard(Fd) with a raw descriptor the caller holds.
Adopt(g, f) ==
    /\ g \notin alive
    /\ f \in Fds /\ owner[f] = Caller
    /\ alive' = alive \cup {g}
    /\ fd' = [fd EXCEPT ![g] = f]
    /\ owner' = [owner EXCEPT ![f] = g]
    /\ UNCHANGED <<terminated, lastClose, closeErred>>

\* The source keeps its number: rhs.fd = NO_FD is forgotten.
MoveConstruct_copies(g, h) ==
    /\ g \notin alive /\ h \in alive
    /\ alive' = alive \cup {g}
    /\ fd' = [fd EXCEPT ![g] = fd[h]]
    /\ owner' = Handed(owner, fd[h], h, g)
    /\ UNCHANGED <<terminated, lastClose, closeErred>>

MoveConstruct(g, h) ==
    /\ g \notin alive /\ h \in alive
    /\ alive' = alive \cup {g}
    /\ fd' = [fd EXCEPT ![g] = fd[h], ![h] = NO_FD]
    /\ owner' = Handed(owner, fd[h], h, g)
    /\ UNCHANGED <<terminated, lastClose, closeErred>>

-----------------------------------------------------------------------------
(* Operations on a living guard.                                           *)

\* The current descriptor is overwritten without being closed.
MoveAssign_noClose(g, h) ==
    /\ {g, h} \subseteq alive /\ g # h
    /\ fd' = [fd EXCEPT ![g] = fd[h], ![h] = NO_FD]
    /\ owner' = Handed(owner, fd[h], h, g)
    /\ UNCHANGED <<alive, terminated, lastClose, closeErred>>

\* operator=(FdGuard&&); the assertion this != &rhs is its precondition.
MoveAssign(g, h) ==
    /\ {g, h} \subseteq alive /\ g # h
    /\ RecordClose(g, fd[g])
    /\ \/ /\ CloseReturns(fd[g])
          /\ fd' = [fd EXCEPT ![g] = fd[h], ![h] = NO_FD]
          /\ owner' = Handed(Vacated(owner, fd[g]), fd[h], h, g)
          /\ UNCHANGED closeErred
       \/ /\ CloseThrows(fd[g])
          /\ owner' = Vacated(owner, fd[g])
          /\ closeErred' = (closeErred \/ IsOpen(fd[g]))
          /\ UNCHANGED fd
    /\ UNCHANGED <<alive, terminated>>

\* The guard remembers the descriptor it gave away.
Release_keepsNumber(g) ==
    /\ g \in alive
    /\ owner' = Handed(owner, fd[g], g, Caller)
    /\ UNCHANGED <<alive, fd, terminated, lastClose, closeErred>>

Release(g) ==
    /\ g \in alive
    /\ fd' = [fd EXCEPT ![g] = NO_FD]
    /\ owner' = Handed(owner, fd[g], g, Caller)
    /\ UNCHANGED <<alive, terminated, lastClose, closeErred>>

\* reset(f): the caller hands over a raw descriptor, or NO_FD.
Reset(g, f) ==
    /\ g \in alive
    /\ f = NO_FD \/ (f \in Fds /\ owner[f] = Caller)
    /\ \/ /\ fd[g] = f
          /\ owner' = Handed(owner, f, Caller, g)
          /\ UNCHANGED <<fd, lastClose, closeErred>>
       \/ /\ fd[g] # f
          /\ RecordClose(g, fd[g])
          /\ \/ /\ CloseReturns(fd[g])
                /\ fd' = [fd EXCEPT ![g] = f]
                /\ owner' = Handed(Vacated(owner, fd[g]), f, Caller, g)
                /\ UNCHANGED closeErred
             \/ /\ CloseThrows(fd[g])
                /\ owner' = Vacated(owner, fd[g])
                /\ closeErred' = (closeErred \/ IsOpen(fd[g]))
                /\ UNCHANGED fd
    /\ UNCHANGED <<alive, terminated>>

Close(g) ==
    /\ g \in alive
    /\ RecordClose(g, fd[g])
    /\ owner' = Vacated(owner, fd[g])
    /\ \/ /\ CloseReturns(fd[g])
          /\ fd' = [fd EXCEPT ![g] = NO_FD]
          /\ UNCHANGED closeErred
       \/ /\ CloseThrows(fd[g])
          /\ closeErred' = (closeErred \/ IsOpen(fd[g]))
          /\ UNCHANGED fd
    /\ UNCHANGED <<alive, terminated>>

\* The destructor is noexcept, so a close() that throws ends the process, and
\* the kernel then closes whatever is open.
Destroy(g) ==
    /\ g \in alive
    /\ RecordClose(g, fd[g])
    /\ \/ /\ CloseReturns(fd[g])
          /\ alive' = alive \ {g}
          /\ fd' = [fd EXCEPT ![g] = NO_FD]
          /\ owner' = Vacated(owner, fd[g])
          /\ UNCHANGED <<terminated, closeErred>>
       \/ /\ CloseThrows(fd[g])
          /\ alive' = {}
          /\ fd' = [h \in Guards |-> NO_FD]
          /\ owner' = [f \in Fds |-> Nobody]
          /\ terminated' = TRUE
          /\ closeErred' = (closeErred \/ IsOpen(fd[g]))

-----------------------------------------------------------------------------
(* The rest of the process: raw descriptors of the calling code, such as   *)
(* the one ::accept returns, and descriptors the library never sees.       *)

Open(p, f) ==
    /\ ~terminated /\ f \in FreeFds
    /\ owner' = [owner EXCEPT ![f] = p]
    /\ UNCHANGED <<alive, fd, terminated, lastClose, closeErred>>

CloseOwn(p, f) ==
    /\ IsOpen(f) /\ owner[f] = p
    /\ RecordClose(p, f)
    /\ owner' = Vacated(owner, f)
    /\ UNCHANGED <<alive, fd, terminated, closeErred>>

GuardStep(g) ==
    \/ DefaultConstruct(g)
    \/ \E f \in Fds : MakeFdGuard(g, f)
    \/ \E f \in Fds : Adopt(g, f)
    \/ \E h \in Guards : MoveConstruct(g, h)
    \/ \E h \in Guards : MoveAssign(g, h)
    \/ Release(g)
    \/ \E f \in Fds \cup {NO_FD} : Reset(g, f)
    \/ Close(g)
    \/ Destroy(g)

EnvironmentStep ==
    \E p \in {Caller, Other}, f \in Fds : Open(p, f) \/ CloseOwn(p, f)

Next == (\E g \in Guards : GuardStep(g)) \/ EnvironmentStep

Spec == Init /\ [][Next]_vars

-----------------------------------------------------------------------------
(* Properties.                                                             *)

\* Every variable has its type, and a guard that is not alive holds nothing.
TypeOK ==
    /\ owner \in [Fds -> Parties \cup {Nobody}]
    /\ alive \subseteq Guards
    /\ fd \in [Guards -> Fds \cup {NO_FD}]
    /\ \A g \in Guards \ alive : fd[g] = NO_FD
    /\ lastClose \in [by : Parties \cup {Nobody}, of : Parties \cup {Nobody}]
    /\ terminated \in BOOLEAN
    /\ closeErred \in BOOLEAN

\* No leak: a descriptor that was given to a guard, and that no ::close has
\* freed, is the one that guard still holds.  It covers every path of every
\* operation, the ones that throw included.
NoLeak == \A f \in Fds, g \in Guards : owner[f] = g => fd[g] = f

\* get() tells the truth: a number other than -1 that a guard reports is a
\* descriptor that is open and belongs to that guard (FdGuard.h: "the file
\* descriptor that is currently owned, if there is no such fd, returns -1").
\* It is true as long as no ::close reports an error; a guard whose close()
\* threw keeps a number that is not its own any more.
HeldIsOwned ==
    ~closeErred => \A g \in Guards : fd[g] # NO_FD => owner[fd[g]] = g

\* Exclusive ownership: no two guards hold the same descriptor, whatever
\* sequence of moves, resets and releases went before, as long as no ::close
\* reports an error.
ExclusiveOwnership ==
    ~closeErred =>
        \A g, h \in Guards : g # h /\ fd[g] # NO_FD => fd[g] # fd[h]

\* A ::close that anybody issues hits the caller's own descriptor: never a
\* number that is free already (double close) and never one that the kernel
\* has meanwhile given to somebody else, as long as no ::close reports an error.
RightfulClose == ~closeErred => lastClose.by = lastClose.of
=============================================================================
