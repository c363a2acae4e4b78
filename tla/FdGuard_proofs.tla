--------------------------- MODULE FdGuard_proofs ---------------------------
(***************************************************************************)
(* Proofs about FdGuard for every set of guards and descriptor numbers:    *)
(* the types, NoLeak, and the three ownership properties.                  *)
(***************************************************************************)
EXTENDS FdGuard, TLAPS

USE DescriptorsAssumption, GuardsAssumption DEF NO_FD, Nobody, Caller, Other

-----------------------------------------------------------------------------
(* The descriptor table, entry by entry.                                   *)

Owners == Parties \cup {Nobody}

\* Closing f frees f and leaves every other entry alone (closeFd).
LEMMA VacatedEntries ==
    ASSUME NEW table \in [Fds -> Owners], NEW f
    PROVE  /\ Vacated(table, f) \in [Fds -> Owners]
           /\ \A x \in Fds :
                Vacated(table, f)[x] = IF x = f THEN Nobody ELSE table[x]
  BY DEF Vacated, Owners

\* Handing f over changes the entry of f, and only if it was the giver's.
LEMMA HandedEntries ==
    ASSUME NEW table \in [Fds -> Owners], NEW f, NEW from, NEW to \in Owners
    PROVE  /\ Handed(table, f, from, to) \in [Fds -> Owners]
           /\ \A x \in Fds :
                Handed(table, f, from, to)[x] =
                    IF x = f /\ table[x] = from THEN to ELSE table[x]
  BY DEF Handed

\* The two together, as in a move assignment: old is closed, then new changes
\* hands.
LEMMA ReplacedEntries ==
    ASSUME NEW table \in [Fds -> Owners], NEW old, NEW new, NEW from,
           NEW to \in Owners
    PROVE  /\ Handed(Vacated(table, old), new, from, to) \in [Fds -> Owners]
           /\ \A x \in Fds :
                Handed(Vacated(table, old), new, from, to)[x] =
                    IF x = new /\ Vacated(table, old)[x] = from THEN to
                    ELSE IF x = old THEN Nobody ELSE table[x]
  <1>1. /\ Vacated(table, old) \in [Fds -> Owners]
        /\ \A x \in Fds :
             Vacated(table, old)[x] = IF x = old THEN Nobody ELSE table[x]
    BY VacatedEntries
  <1>2. QED
    BY <1>1, HandedEntries

\* Whoever closes, the record of it names a party and the owner it hit.
LEMMA RecordedClose ==
    ASSUME TypeOK, NEW p \in Parties, NEW f, RecordClose(p, f)
    PROVE  lastClose' \in [by : Parties \cup {Nobody}, of : Parties \cup {Nobody}]
  BY DEF TypeOK, RecordClose

-----------------------------------------------------------------------------
(* Types.                                                                  *)

LEMMA InitTypeOK == Init => TypeOK
  <1> SUFFICES ASSUME Init PROVE TypeOK
    OBVIOUS
  <1>1. owner \in [Fds -> Parties \cup {Nobody}]
    BY DEF Init
  <1>2. fd \in [Guards -> Fds \cup {NO_FD}]
    BY DEF Init
  <1>3. alive \subseteq Guards /\ \A g \in Guards \ alive : fd[g] = NO_FD
    BY DEF Init
  <1>4. lastClose \in [by : Parties \cup {Nobody}, of : Parties \cup {Nobody}]
    BY DEF Init
  <1>5. terminated \in BOOLEAN /\ closeErred \in BOOLEAN
    BY DEF Init
  <1>6. QED
    BY <1>1, <1>2, <1>3, <1>4, <1>5 DEF TypeOK

LEMMA NextTypeOK == TypeOK /\ [Next]_vars => TypeOK'
  <1> SUFFICES ASSUME TypeOK, [Next]_vars PROVE TypeOK'
    OBVIOUS
  <1>0. /\ Nobody \in Owners /\ Caller \in Owners /\ Other \in Owners
        /\ Guards \subseteq Owners /\ Guards \subseteq Parties
        /\ {Caller, Other} \subseteq Parties
    BY DEF Parties, Owners
  <1>t. owner \in [Fds -> Owners]
    BY DEF TypeOK, Owners
  <1>1. ASSUME NEW g \in Guards, DefaultConstruct(g) PROVE TypeOK'
    BY <1>1 DEF TypeOK, DefaultConstruct
  <1>2. ASSUME NEW g \in Guards, NEW f \in Fds, MakeFdGuard(g, f) PROVE TypeOK'
    BY <1>2, <1>0 DEF TypeOK, MakeFdGuard, Owners, FreeFds
  <1>3. ASSUME NEW g \in Guards, NEW f \in Fds, Adopt(g, f) PROVE TypeOK'
    BY <1>3, <1>0 DEF TypeOK, Adopt, Owners
  <1>4. ASSUME NEW g \in Guards, NEW h \in Guards, MoveConstruct(g, h)
        PROVE  TypeOK'
    <2>1. owner' \in [Fds -> Owners]
      BY <1>4, <1>0, <1>t, HandedEntries DEF MoveConstruct
    <2>2. QED
      BY <2>1, <1>4 DEF TypeOK, MoveConstruct, Owners
  <1>5. ASSUME NEW g \in Guards, NEW h \in Guards, MoveAssign(g, h)
        PROVE  TypeOK'
    <2>1. owner' \in [Fds -> Owners]
      BY <1>5, <1>0, <1>t, ReplacedEntries, VacatedEntries DEF MoveAssign
    <2>2. lastClose' \in [by : Owners, of : Owners]
      BY <1>5, <1>0, RecordedClose DEF MoveAssign, Owners
    <2>3. QED
      BY <2>1, <2>2, <1>5 DEF TypeOK, MoveAssign, Owners
  <1>6. ASSUME NEW g \in Guards, Release(g) PROVE TypeOK'
    <2>1. owner' \in [Fds -> Owners]
      BY <1>6, <1>0, <1>t, HandedEntries DEF Release
    <2>2. QED
      BY <2>1, <1>6 DEF TypeOK, Release, Owners
  <1>7. ASSUME NEW g \in Guards, NEW f \in Fds \cup {NO_FD}, Reset(g, f)
        PROVE  TypeOK'
    <2>1. /\ Handed(owner, f, Caller, g) \in [Fds -> Owners]
          /\ Handed(Vacated(owner, fd[g]), f, Caller, g) \in [Fds -> Owners]
          /\ Vacated(owner, fd[g]) \in [Fds -> Owners]
      BY <1>0, <1>t, HandedEntries, VacatedEntries
    <2>2. owner' \in [Fds -> Owners]
      BY <1>7, <2>1 DEF Reset
    <2>3. lastClose' \in [by : Owners, of : Owners]
      BY <1>7, <1>0, RecordedClose DEF TypeOK, Reset, Owners
    <2>4. QED
      BY <2>2, <2>3, <1>7 DEF TypeOK, Reset, Owners
  <1>8. ASSUME NEW g \in Guards, Close(g) PROVE TypeOK'
    <2>1. owner' \in [Fds -> Owners]
      BY <1>8, <1>0, <1>t, VacatedEntries DEF Close
    <2>2. lastClose' \in [by : Owners, of : Owners]
      BY <1>8, <1>0, RecordedClose DEF Close, Owners
    <2>3. QED
      BY <2>1, <2>2, <1>8 DEF TypeOK, Close, Owners
  <1>9. ASSUME NEW g \in Guards, Destroy(g) PROVE TypeOK'
    <2>1. owner' \in [Fds -> Owners]
      BY <1>9, <1>0, <1>t, VacatedEntries DEF Destroy
    <2>2. lastClose' \in [by : Owners, of : Owners]
      BY <1>9, <1>0, RecordedClose DEF Destroy, Owners
    <2>3. QED
      BY <2>1, <2>2, <1>9 DEF TypeOK, Destroy, Owners
  <1>10. ASSUME NEW p \in {Caller, Other}, NEW f \in Fds, Open(p, f)
         PROVE  TypeOK'
    BY <1>10, <1>0 DEF TypeOK, Open, Owners
  <1>11. ASSUME NEW p \in {Caller, Other}, NEW f \in Fds, CloseOwn(p, f)
         PROVE  TypeOK'
    <2>1. owner' \in [Fds -> Owners]
      BY <1>11, <1>0, <1>t, VacatedEntries DEF CloseOwn
    <2>2. lastClose' \in [by : Owners, of : Owners]
      BY <1>11, <1>0, RecordedClose DEF CloseOwn, Owners
    <2>3. QED
      BY <2>1, <2>2, <1>11 DEF TypeOK, CloseOwn, Owners
  <1>12. CASE UNCHANGED vars
    BY <1>12 DEF TypeOK, vars
  <1>13. QED
    BY <1>1, <1>2, <1>3, <1>4, <1>5, <1>6, <1>7, <1>8, <1>9, <1>10, <1>11, <1>12
    DEF Next, GuardStep, EnvironmentStep

\* Every variable keeps its type, and a dead guard holds nothing.
THEOREM TypeCorrect == Spec => []TypeOK
  BY InitTypeOK, NextTypeOK, PTL DEF Spec

-----------------------------------------------------------------------------
(* No leak, whatever ::close reports.                                      *)

LEMMA InitNoLeak == Init => NoLeak
  BY DEF Init, NoLeak

LEMMA NextNoLeak == TypeOK /\ NoLeak /\ [Next]_vars => NoLeak'
  <1> SUFFICES ASSUME TypeOK, NoLeak, [Next]_vars,
                      NEW x \in Fds, NEW k \in Guards, owner'[x] = k
               PROVE  fd'[k] = x
    BY DEF NoLeak
  <1>0. /\ owner \in [Fds -> Owners]
        /\ Nobody \in Owners /\ Caller \in Owners /\ Guards \subseteq Owners
        /\ k \notin {Nobody, Caller, Other}
        /\ x # NO_FD
        /\ fd \in [Guards -> Fds \cup {NO_FD}]
    BY DEF TypeOK, Parties, Owners
  <1>held. owner[x] = k => fd[k] = x
    BY DEF NoLeak
  <1>dead. k \notin alive => owner[x] # k
    BY <1>0, <1>held DEF TypeOK
  <1>1. ASSUME NEW g \in Guards, DefaultConstruct(g) PROVE fd'[k] = x
    BY <1>1, <1>held DEF DefaultConstruct
  <1>2. ASSUME NEW g \in Guards, NEW f \in Fds, MakeFdGuard(g, f)
        PROVE  fd'[k] = x
    BY <1>2, <1>0, <1>held, <1>dead DEF MakeFdGuard
  <1>3. ASSUME NEW g \in Guards, NEW f \in Fds, Adopt(g, f) PROVE fd'[k] = x
    BY <1>3, <1>0, <1>held, <1>dead DEF Adopt
  <1>4. ASSUME NEW g \in Guards, NEW h \in Guards, MoveConstruct(g, h)
        PROVE  fd'[k] = x
    <2>1. owner'[x] = IF x = fd[h] /\ owner[x] = h THEN g ELSE owner[x]
      BY <1>4, <1>0, HandedEntries DEF MoveConstruct
    <2>2. QED
      BY <2>1, <1>4, <1>0, <1>held, <1>dead DEF MoveConstruct
  <1>5. ASSUME NEW g \in Guards, NEW h \in Guards, MoveAssign(g, h)
        PROVE  fd'[k] = x
    <2>1. Vacated(owner, fd[g])[x] = IF x = fd[g] THEN Nobody ELSE owner[x]
      BY <1>0, VacatedEntries
    <2>2. CASE CloseReturns(fd[g]) /\ fd' = [fd EXCEPT ![g] = fd[h], ![h] = NO_FD]
               /\ owner' = Handed(Vacated(owner, fd[g]), fd[h], h, g)
      <3>1. owner'[x] = IF x = fd[h] /\ Vacated(owner, fd[g])[x] = h THEN g
                        ELSE IF x = fd[g] THEN Nobody ELSE owner[x]
        BY <2>2, <1>0, ReplacedEntries
      <3>2. QED
        BY <2>1, <2>2, <3>1, <1>5, <1>0, <1>held DEF MoveAssign
    <2>3. CASE owner' = Vacated(owner, fd[g]) /\ fd' = fd
      BY <2>1, <2>3, <1>0, <1>held
    <2>4. QED
      BY <2>2, <2>3, <1>5 DEF MoveAssign
  <1>6. ASSUME NEW g \in Guards, Release(g) PROVE fd'[k] = x
    <2>1. owner'[x] = IF x = fd[g] /\ owner[x] = g THEN Caller ELSE owner[x]
      BY <1>6, <1>0, HandedEntries DEF Release
    <2>2. QED
      BY <2>1, <1>6, <1>0, <1>held DEF Release
  <1>7. ASSUME NEW g \in Guards, NEW f \in Fds \cup {NO_FD}, Reset(g, f)
        PROVE  fd'[k] = x
    <2>1. Vacated(owner, fd[g])[x] = IF x = fd[g] THEN Nobody ELSE owner[x]
      BY <1>0, VacatedEntries
    <2>2. CASE fd[g] = f /\ owner' = Handed(owner, f, Caller, g) /\ fd' = fd
      <3>1. owner'[x] = IF x = f /\ owner[x] = Caller THEN g ELSE owner[x]
        BY <2>2, <1>0, HandedEntries
      <3>2. QED
        BY <2>2, <3>1, <1>0, <1>held
    <2>3. CASE /\ fd[g] # f
               /\ fd' = [fd EXCEPT ![g] = f]
               /\ owner' = Handed(Vacated(owner, fd[g]), f, Caller, g)
      <3>1. owner'[x] = IF x = f /\ Vacated(owner, fd[g])[x] = Caller THEN g
                        ELSE IF x = fd[g] THEN Nobody ELSE owner[x]
        BY <2>3, <1>0, ReplacedEntries
      <3>2. QED
        BY <2>1, <2>3, <3>1, <1>0, <1>held
    <2>4. CASE owner' = Vacated(owner, fd[g]) /\ fd' = fd
      BY <2>1, <2>4, <1>0, <1>held
    <2>5. QED
      BY <2>2, <2>3, <2>4, <1>7 DEF Reset
  <1>8. ASSUME NEW g \in Guards, Close(g) PROVE fd'[k] = x
    <2>1. owner'[x] = IF x = fd[g] THEN Nobody ELSE owner[x]
      BY <1>8, <1>0, VacatedEntries DEF Close
    <2>2. QED
      BY <2>1, <1>8, <1>0, <1>held DEF Close
  <1>9. ASSUME NEW g \in Guards, Destroy(g) PROVE fd'[k] = x
    <2>1. Vacated(owner, fd[g])[x] = IF x = fd[g] THEN Nobody ELSE owner[x]
      BY <1>0, VacatedEntries
    <2>2. QED
      BY <2>1, <1>9, <1>0, <1>held DEF Destroy
  <1>10. ASSUME NEW p \in {Caller, Other}, NEW f \in Fds, Open(p, f)
         PROVE  fd'[k] = x
    BY <1>10, <1>0, <1>held DEF Open
  <1>11. ASSUME NEW p \in {Caller, Other}, NEW f \in Fds, CloseOwn(p, f)
         PROVE  fd'[k] = x
    <2>1. owner'[x] = IF x = f THEN Nobody ELSE owner[x]
      BY <1>11, <1>0, VacatedEntries DEF CloseOwn
    <2>2. QED
      BY <2>1, <1>11, <1>0, <1>held DEF CloseOwn
  <1>12. CASE UNCHANGED vars
    BY <1>12, <1>held DEF vars
  <1>13. QED
    BY <1>1, <1>2, <1>3, <1>4, <1>5, <1>6, <1>7, <1>8, <1>9, <1>10, <1>11, <1>12
    DEF Next, GuardStep, EnvironmentStep

\* A descriptor given to a guard stays with a guard that knows its number until
\* it is closed or released: on no path of FdGuard is one forgotten, not even
\* when ::close fails and an operation throws.
THEOREM NothingLeaks == Spec => []NoLeak
  BY InitTypeOK, NextTypeOK, InitNoLeak, NextNoLeak, PTL DEF Spec

-----------------------------------------------------------------------------
(* Ownership, as long as no ::close reports an error.                      *)

OwnershipInv == TypeOK /\ HeldIsOwned

\* An error of ::close is not forgotten.
LEMMA CloseErrStays == [Next]_vars /\ ~closeErred' => ~closeErred
  <1>1. ASSUME NEW g \in Guards, GuardStep(g), ~closeErred' PROVE ~closeErred
    BY <1>1 DEF GuardStep, DefaultConstruct, MakeFdGuard, Adopt, MoveConstruct,
                MoveAssign, Release, Reset, Close, Destroy
  <1>2. ASSUME EnvironmentStep, ~closeErred' PROVE ~closeErred
    BY <1>2 DEF EnvironmentStep, Open, CloseOwn
  <1>3. QED
    BY <1>1, <1>2 DEF Next, vars

LEMMA NextHeldIsOwned == OwnershipInv /\ [Next]_vars => HeldIsOwned'
  <1> SUFFICES ASSUME OwnershipInv, [Next]_vars, ~closeErred',
                      NEW k \in Guards, fd'[k] # NO_FD
               PROVE  owner'[fd'[k]] = k
    BY DEF HeldIsOwned
  <1>0. /\ owner \in [Fds -> Owners]
        /\ Nobody \in Owners /\ Caller \in Owners /\ Guards \subseteq Owners
        /\ k \notin {Nobody, Caller, Other}
        /\ Guards \cap {Nobody, Caller, Other} = {}
        /\ fd \in [Guards -> Fds \cup {NO_FD}]
    BY DEF OwnershipInv, TypeOK, Parties, Owners
  <1>owns. ASSUME NEW g \in Guards, fd[g] # NO_FD
           PROVE  fd[g] \in Fds /\ owner[fd[g]] = g
    BY <1>owns, <1>0, CloseErrStays DEF OwnershipInv, HeldIsOwned
  <1>quiet. ASSUME NEW g \in Guards, CloseThrows(fd[g]),
                   closeErred' = (closeErred \/ IsOpen(fd[g]))
            PROVE  FALSE
    <2>1. IsOpen(fd[g])
      BY <1>quiet, <1>owns, <1>0 DEF CloseThrows, IsOpen
    <2>2. QED
      BY <2>1, <1>quiet
  <1>1. ASSUME NEW g \in Guards, DefaultConstruct(g) PROVE owner'[fd'[k]] = k
    BY <1>1, <1>owns DEF DefaultConstruct
  <1>2. ASSUME NEW g \in Guards, NEW f \in Fds, MakeFdGuard(g, f)
        PROVE  owner'[fd'[k]] = k
    BY <1>2, <1>0, <1>owns DEF MakeFdGuard, FreeFds
  <1>3. ASSUME NEW g \in Guards, NEW f \in Fds, Adopt(g, f)
        PROVE  owner'[fd'[k]] = k
    BY <1>3, <1>0, <1>owns DEF Adopt
  <1>4. ASSUME NEW g \in Guards, NEW h \in Guards, MoveConstruct(g, h)
        PROVE  owner'[fd'[k]] = k
    <2>1. /\ g # h
          /\ fd' = [fd EXCEPT ![g] = fd[h], ![h] = NO_FD]
          /\ owner' = Handed(owner, fd[h], h, g)
      BY <1>4 DEF MoveConstruct
    <2>2. \A x \in Fds : owner'[x] = IF x = fd[h] /\ owner[x] = h THEN g
                                     ELSE owner[x]
      <3>1. g \in Owners
        BY <1>0
      <3>2. QED
        BY <2>1, <3>1, <1>0, HandedEntries
    <2>3. QED
      BY <2>1, <2>2, <1>0, <1>owns
  <1>5. ASSUME NEW g \in Guards, NEW h \in Guards, MoveAssign(g, h)
        PROVE  owner'[fd'[k]] = k
    <2>1. /\ g # h
          /\ fd' = [fd EXCEPT ![g] = fd[h], ![h] = NO_FD]
          /\ owner' = Handed(Vacated(owner, fd[g]), fd[h], h, g)
      BY <1>5, <1>quiet DEF MoveAssign
    <2>2. \A x \in Fds :
            owner'[x] = IF x = fd[h] /\ Vacated(owner, fd[g])[x] = h THEN g
                        ELSE IF x = fd[g] THEN Nobody ELSE owner[x]
      BY <2>1, <1>0, ReplacedEntries
    <2>3. \A x \in Fds :
            Vacated(owner, fd[g])[x] = IF x = fd[g] THEN Nobody ELSE owner[x]
      BY <1>0, VacatedEntries
    <2>4. CASE k = g
      BY <2>1, <2>2, <2>3, <2>4, <1>0, <1>owns
    <2>5. CASE k # g
      <3>1. k # h /\ fd'[k] = fd[k] /\ fd[k] # NO_FD
        BY <2>1, <2>5, <1>0
      <3>2. fd[k] \in Fds /\ owner[fd[k]] = k
        BY <3>1, <1>owns
      <3>3. fd[k] # fd[g]
        BY <2>5, <3>1, <3>2, <1>owns
      <3>4. fd[k] # fd[h]
        BY <3>1, <3>2, <1>owns
      <3>5. QED
        BY <2>2, <3>1, <3>2, <3>3, <3>4
    <2>6. QED
      BY <2>4, <2>5
  <1>6. ASSUME NEW g \in Guards, Release(g) PROVE owner'[fd'[k]] = k
    <2>1. \A x \in Fds : owner'[x] = IF x = fd[g] /\ owner[x] = g THEN Caller
                                     ELSE owner[x]
      BY <1>6, <1>0, HandedEntries DEF Release
    <2>2. QED
      BY <2>1, <1>6, <1>0, <1>owns DEF Release
  <1>7. ASSUME NEW g \in Guards, NEW f \in Fds \cup {NO_FD}, Reset(g, f)
        PROVE  owner'[fd'[k]] = k
    <2>1. CASE fd[g] = f /\ owner' = Handed(owner, f, Caller, g) /\ fd' = fd
      <3>1. \A x \in Fds : owner'[x] = IF x = f /\ owner[x] = Caller THEN g
                                       ELSE owner[x]
        BY <2>1, <1>0, HandedEntries
      <3>2. QED
        BY <2>1, <3>1, <1>0, <1>owns
    <2>2. CASE /\ fd[g] # f
               /\ fd' = [fd EXCEPT ![g] = f]
               /\ owner' = Handed(Vacated(owner, fd[g]), f, Caller, g)
      <3>1. \A x \in Fds :
              owner'[x] = IF x = f /\ Vacated(owner, fd[g])[x] = Caller THEN g
                          ELSE IF x = fd[g] THEN Nobody ELSE owner[x]
        BY <2>2, <1>0, ReplacedEntries
      <3>2. \A x \in Fds :
              Vacated(owner, fd[g])[x] = IF x = fd[g] THEN Nobody ELSE owner[x]
        BY <1>0, VacatedEntries
      <3>3. f # NO_FD => f \in Fds /\ owner[f] = Caller
        BY <1>7 DEF Reset
      <3>4. CASE k = g
        <4>1. fd'[k] = f /\ f # NO_FD
          BY <2>2, <3>4, <1>0
        <4>2. QED
          BY <2>2, <3>1, <3>2, <3>3, <3>4, <4>1
      <3>5. CASE k # g
        <4>1. fd'[k] = fd[k] /\ fd[k] # NO_FD
          BY <2>2, <3>5, <1>0
        <4>2. fd[k] \in Fds /\ owner[fd[k]] = k /\ fd[k] # fd[g]
          BY <3>5, <4>1, <1>owns
        <4>3. fd[k] # f
          BY <3>3, <4>1, <4>2, <1>0
        <4>4. QED
          BY <3>1, <4>1, <4>2, <4>3
      <3>6. QED
        BY <3>4, <3>5
    <2>3. QED
      BY <2>1, <2>2, <1>7, <1>quiet DEF Reset
  <1>8. ASSUME NEW g \in Guards, Close(g) PROVE owner'[fd'[k]] = k
    <2>1. \A x \in Fds : owner'[x] = IF x = fd[g] THEN Nobody ELSE owner[x]
      BY <1>8, <1>0, VacatedEntries DEF Close
    <2>2. fd' = [fd EXCEPT ![g] = NO_FD]
      BY <1>8, <1>quiet DEF Close
    <2>3. QED
      BY <2>1, <2>2, <1>0, <1>owns
  <1>9. ASSUME NEW g \in Guards, Destroy(g) PROVE owner'[fd'[k]] = k
    <2>1. fd' = [fd EXCEPT ![g] = NO_FD] /\ owner' = Vacated(owner, fd[g])
      BY <1>9, <1>quiet DEF Destroy
    <2>2. \A x \in Fds : owner'[x] = IF x = fd[g] THEN Nobody ELSE owner[x]
      BY <2>1, <1>0, VacatedEntries
    <2>3. QED
      BY <2>1, <2>2, <1>0, <1>owns
  <1>10. ASSUME NEW p \in {Caller, Other}, NEW f \in Fds, Open(p, f)
         PROVE  owner'[fd'[k]] = k
    BY <1>10, <1>0, <1>owns DEF Open, FreeFds
  <1>11. ASSUME NEW p \in {Caller, Other}, NEW f \in Fds, CloseOwn(p, f)
         PROVE  owner'[fd'[k]] = k
    <2>1. \A x \in Fds : owner'[x] = IF x = f THEN Nobody ELSE owner[x]
      BY <1>11, <1>0, VacatedEntries DEF CloseOwn
    <2>2. QED
      BY <2>1, <1>11, <1>0, <1>owns DEF CloseOwn
  <1>12. CASE UNCHANGED vars
    BY <1>12, <1>owns DEF vars
  <1>13. QED
    BY <1>1, <1>2, <1>3, <1>4, <1>5, <1>6, <1>7, <1>8, <1>9, <1>10, <1>11, <1>12
    DEF Next, GuardStep, EnvironmentStep

\* Every step that issues a ::close hits a descriptor of the party that
\* issued it.
LEMMA NextRightfulClose ==
    ASSUME OwnershipInv, RightfulClose, [Next]_vars
    PROVE  RightfulClose'
  <1> SUFFICES ASSUME ~closeErred' PROVE lastClose'.by = lastClose'.of
    BY DEF RightfulClose
  <1>0. ~closeErred
    BY CloseErrStays
  <1>1. ASSUME NEW p, NEW f, RecordClose(p, f), f \in Fds => owner[f] = p
        PROVE  lastClose'.by = lastClose'.of
    BY <1>0, <1>1 DEF RecordClose, RightfulClose
  <1>2. ASSUME NEW g \in Guards, RecordClose(g, fd[g])
        PROVE  lastClose'.by = lastClose'.of
    <2>1. fd[g] \in Fds => owner[fd[g]] = g
      BY <1>0 DEF OwnershipInv, HeldIsOwned
    <2>2. QED
      BY <2>1, <1>1, <1>2
  <1>3. ASSUME UNCHANGED lastClose PROVE lastClose'.by = lastClose'.of
    BY <1>0, <1>3 DEF RightfulClose
  <1>4. ASSUME NEW g \in Guards, GuardStep(g)
        PROVE  lastClose'.by = lastClose'.of
    BY <1>4, <1>2, <1>3
    DEF GuardStep, DefaultConstruct, MakeFdGuard, Adopt, MoveConstruct,
        MoveAssign, Release, Reset, Close, Destroy
  <1>5. ASSUME EnvironmentStep PROVE lastClose'.by = lastClose'.of
    BY <1>5, <1>1, <1>3 DEF EnvironmentStep, Open, CloseOwn
  <1>6. QED
    BY <1>3, <1>4, <1>5 DEF Next, vars

LEMMA InitOwnership == Init => HeldIsOwned /\ RightfulClose
  BY DEF Init, HeldIsOwned, RightfulClose

\* As long as no ::close reports an error, a guard never reports a number that
\* is not open and its own.
THEOREM HeldNumbersAreOwned == Spec => []HeldIsOwned
  <1>1. Init => OwnershipInv
    BY InitTypeOK, InitOwnership DEF OwnershipInv
  <1>2. OwnershipInv /\ [Next]_vars => OwnershipInv'
    BY NextTypeOK, NextHeldIsOwned DEF OwnershipInv
  <1>3. OwnershipInv => HeldIsOwned
    BY DEF OwnershipInv
  <1>4. QED
    BY <1>1, <1>2, <1>3, PTL DEF Spec

\* As long as no ::close reports an error, no two guards hold the same
\* descriptor: a number has one owner.
THEOREM GuardsAreExclusive == Spec => []ExclusiveOwnership
  <1>1. HeldIsOwned => ExclusiveOwnership
    BY DEF HeldIsOwned, ExclusiveOwnership
  <1>2. QED
    BY <1>1, HeldNumbersAreOwned, PTL

\* As long as no ::close reports an error, none hits a free number (a double
\* close) or one that belongs to somebody else.
THEOREM EveryCloseIsRightful == Spec => []RightfulClose
  <1> DEFINE Inv == OwnershipInv /\ RightfulClose
  <1>1. Init => Inv
    BY InitTypeOK, InitOwnership DEF OwnershipInv
  <1>2. Inv /\ [Next]_vars => Inv'
    BY NextTypeOK, NextHeldIsOwned, NextRightfulClose DEF OwnershipInv
  <1>3. QED
    BY <1>1, <1>2, PTL DEF Spec
=============================================================================
