--------------------------- MODULE Processes_steps ---------------------------
(***************************************************************************)
(* The inductive invariant of Processes and the lemmas about its steps,    *)
(* for tables of any length and any generation width.  LifeInv adds to the *)
(* invariants of Processes what makes them inductive: keys that are kept   *)
(* are keys that were issued, waits and handles agree, and vacant slots    *)
(* are clear.                                                              *)
(***************************************************************************)
EXTENDS Processes, FiniteSetTheorems, TLAPS

\* The incarnation k has existed: its slot has moved past it or holds it still.
Issued(k) ==
    \/ k[2] < gen[k[1]]
    \/ k[2] = gen[k[1]] /\ pstate[k[1]] # "Free"

WaitsAreOwn ==
    \A w \in Slots : waiting[w] # NoWait =>
        /\ Live(w)
        /\ waiting[w].child \in ProcessKey /\ Issued(waiting[w].child)
        /\ \A c \in Slots : Names(waiting[w].child, c) => parent[c] = KeyOf(w)
        /\ pstate[w] = "Running" => \E c \in Slots : Names(waiting[w].child, c)

ExecWait(w) ==
    /\ waiting[w].kind = "Exec" /\ waiting[w].handle = -1
    /\ \A h \in HandleSlots :
         ~handles[w][h].collected => handles[w][h].child # waiting[w].child

LifecycleWait(w) ==
    /\ waiting[w].kind = "Lifecycle" /\ waiting[w].handle \in HandleSlots
    /\ ~handles[w][waiting[w].handle].collected
    /\ handles[w][waiting[w].handle].child = waiting[w].child

WaitsAgree ==
    \A w \in Slots : pstate[w] = "Running" /\ waiting[w] # NoWait
                        => ExecWait(w) \/ LifecycleWait(w)

HandlesDistinct ==
    \A p \in Slots : pstate[p] = "Running" =>
        \A h, i \in HandleSlots :
            ~handles[p][h].collected /\ ~handles[p][i].collected /\ h # i
                => handles[p][h].child # handles[p][i].child

InExec(p, s) == waiting[p].kind = "Exec" /\ waiting[p].child = KeyOf(s)

ChildrenCollectable ==
    \A s, p \in Slots : ChildOf(s, p) => InExec(p, s) \/ EntriesFor(p, s) # {}

VacantIsClear ==
    \A s \in Slots : ~Live(s) =>
        waiting[s] = NoWait /\ \A h \in HandleSlots : handles[s][h].collected

\* A live process owns a stack and a trap extent.
LiveOwns == \A s \in Slots : Live(s) => stack[s] \in Extent /\ trap[s] \in Extent

TypeInv == TypeOK /\ LiveOwns

LifeInv ==
    /\ TypeInv
    /\ NoOrphans
    /\ HandlesNameChildren
    /\ WaitersWaitForRunningChildren
    /\ WaitsAreOwn
    /\ WaitsAgree
    /\ HandlesDistinct
    /\ ChildrenCollectable
    /\ VacantIsClear

-----------------------------------------------------------------------------
(* The operators *)

\* Two slots have the same key only if they are the same slot.
LEMMA KeyInjective == \A a, b \in Slots : KeyOf(a) = KeyOf(b) => a = b
  BY DEF KeyOf

\* No key of a slot is NoKey.
LEMMA KeyIsKey ==
  ASSUME TypeOK, NEW s \in Slots
  PROVE  KeyOf(s) \in ProcessKey /\ KeyOf(s) # NoKey
  BY SizesAssumption DEF TypeOK, KeyOf, ProcessKey, NoKey, Slots

\* Orphans(p) holds every child of p and of its own members.
LEMMA OrphansClosed ==
  ASSUME NEW p \in Slots, NEW d \in Orphans(p) \cup {p}, NEW c \in Slots, ChildOf(c, d)
  PROVE  c \in Orphans(p)
<1> SUFFICES ASSUME NEW D \in SUBSET Slots,
                    \A x \in Slots : (\E y \in D \cup {p} : ChildOf(x, y)) => x \in D
             PROVE  c \in D
  BY DEF Orphans
<1>1. d \in D \cup {p}
  BY DEF Orphans
<1> QED
  BY <1>1

\* Everyone in Orphans(p) is a live child of p or of somebody in it.
LEMMA OrphansHaveParents ==
  ASSUME NEW p \in Slots, NEW s \in Orphans(p)
  PROVE  \E d \in Orphans(p) \cup {p} : ChildOf(s, d)
<1> DEFINE D == {x \in Slots : \E d \in Orphans(p) \cup {p} : ChildOf(x, d)}
<1>1. ASSUME NEW x \in Slots, NEW y \in D \cup {p}, ChildOf(x, y)
      PROVE  x \in D
  <2>1. y \in Orphans(p) \cup {p}
    BY OrphansClosed
  <2> QED
    BY <1>1, <2>1
<1>2. D \in SUBSET Slots
  OBVIOUS
<1>3. s \in D
  BY Zenon, <1>1, <1>2 DEF Orphans
<1> QED
  BY <1>3

\* Orphans are live processes.
LEMMA OrphansLive ==
  ASSUME NEW p \in Slots
  PROVE  Orphans(p) \subseteq {s \in Slots : Live(s)}
  BY OrphansHaveParents DEF Orphans, ChildOf

-----------------------------------------------------------------------------
(* The pools *)

\* b is a bag of extents.
IsPool(b) == IsABag(b) /\ BagToSet(b) \subseteq Extent

\* What a set of slots holds is a bag: the slots are finitely many.
LEMMA HeldIsPool ==
  ASSUME NEW f, NEW R \in SUBSET Slots, \A s \in R : f[s] \in Extent
  PROVE  IsPool(Held(f, R))
<1>1. IsFiniteSet(R)
  <2>1. 0 \in Int /\ NumSlots - 1 \in Int
    BY SizesAssumption
  <2>2. IsFiniteSet(Slots)
    BY <2>1, FS_Interval, Zenon DEF Slots
  <2> QED
    BY <2>2, FS_Subset, Zenon
<1>2. ASSUME NEW e \in {f[s] : s \in R}
      PROVE  Cardinality({s \in R : f[s] = e}) \in {n \in Nat : n > 0}
  <2>1. IsFiniteSet({s \in R : f[s] = e})
    BY <1>1, FS_Subset
  <2>2. {s \in R : f[s] = e} # {}
    OBVIOUS
  <2> QED
    BY <2>1, <2>2, FS_CardinalityType, FS_EmptySet
<1> QED
  BY <1>2 DEF IsPool, IsABag, BagToSet, Held

\* Two pools make a pool ...
LEMMA UnionIsPool ==
  ASSUME NEW a, NEW b, IsPool(a), IsPool(b)
  PROVE  IsPool(a (+) b)
<1> DEFINE n(e) == (IF e \in DOMAIN a THEN a[e] ELSE 0) + (IF e \in DOMAIN b THEN b[e] ELSE 0)
<1>1. \A e \in DOMAIN a \cup DOMAIN b : n(e) \in {k \in Nat : k > 0}
  BY DEF IsPool, IsABag
<1>2. a (+) b = [e \in DOMAIN a \cup DOMAIN b |-> n(e)]
  BY DEF (+)
<1> HIDE DEF n
<1> QED
  BY <1>1, <1>2 DEF IsPool, IsABag, BagToSet

\* ... and so does a pool without one of its entries.
LEMMA RestIsPool ==
  ASSUME NEW b, NEW x, IsPool(b)
  PROVE  IsPool(b (-) SetToBag({x}))
<1> DEFINE n(e) == IF e = x THEN b[e] - 1 ELSE b[e]
           S == {e \in DOMAIN b : n(e) > 0}
<1>1. \A e \in S : n(e) \in {k \in Nat : k > 0}
  BY DEF IsPool, IsABag
<1>2. b (-) SetToBag({x}) = [e \in S |-> n(e)]
  BY DEF (-), SetToBag
<1>3. S \subseteq Extent
  BY DEF IsPool, BagToSet
<1> HIDE DEF n, S
<1> QED
  BY <1>1, <1>2, <1>3 DEF IsPool, IsABag, BagToSet

-----------------------------------------------------------------------------
(* Type correctness *)

\* Reclaiming live processes keeps the types.
LEMMA TypeReclaim ==
  ASSUME TypeInv, NEW R \in SUBSET Slots, \A s \in R : Live(s),
         NEW Z \in SUBSET Slots, \A s \in Z : Live(s),
         NEW h \in [Slots -> [HandleSlots -> LifecycleEntry]],
         NEW w \in [Slots -> WaitState],
         Reclaim(R, Z, h, w), booted' = booted, phase' \in {"run", "wake"}
  PROVE  TypeInv'
<1> USE DEF TypeInv
<1>1. pstate' \in [Slots -> {"Free", "Running", "Zombie", "Retired"}]
  BY DEF TypeOK, Reclaim, Vacated
<1>2. gen' \in [Slots -> 0 .. MaxGen]
  BY SizesAssumption DEF TypeOK, Reclaim, Advance
<1>3. parent' \in [Slots -> ProcessKey \cup {NoKey}]
  BY DEF TypeOK, Reclaim, Reset
<1>4. waiting' \in [Slots -> WaitState]
  BY DEF Reclaim, Reset, NoWait, WaitState
<1>5. handles' \in [Slots -> [HandleSlots -> LifecycleEntry]]
  BY DEF Reclaim, Reset, EmptyEntry, LifecycleEntry
<1>6. /\ stack' \in [Slots -> Extent \cup {NoExtent}]
      /\ trap' \in [Slots -> Extent \cup {NoExtent}]
      /\ nextPhys' \in Nat
  BY DEF TypeOK, Reclaim, ReturnResources, Reset
<1>8. IsPool(freeStacks)' /\ IsPool(freeTraps)'
  <2>1. \A s \in R : stack[s] \in Extent /\ trap[s] \in Extent
    BY DEF LiveOwns
  <2>2. IsPool(freeStacks) /\ IsPool(freeTraps)
    BY DEF TypeOK, IsPool
  <2>3. /\ freeStacks' = freeStacks (+) Held(stack, R)
        /\ freeTraps' = freeTraps (+) Held(trap, R)
    BY DEF Reclaim, ReturnResources
  <2>4. IsPool(freeStacks (+) Held(stack, R)) /\ IsPool(freeTraps (+) Held(trap, R))
    BY <2>1, <2>2, HeldIsPool, UnionIsPool
  <2> QED
    BY <2>3, <2>4 DEF IsPool
<1>7. LiveOwns'
  <2> SUFFICES ASSUME NEW s \in Slots, Live(s)'
               PROVE  stack'[s] \in Extent /\ trap'[s] \in Extent
    BY DEF LiveOwns
  <2>1. s \notin R /\ Live(s)
    BY DEF Reclaim, Vacated, Live
  <2> QED
    BY <2>1 DEF LiveOwns, Reclaim, ReturnResources, Reset
<1> QED
  BY <1>1, <1>2, <1>3, <1>4, <1>5, <1>6, <1>7, <1>8 DEF TypeOK, IsPool

\* So does making a process.
LEMMA TypePrepare ==
  ASSUME TypeInv, NEW s \in Slots, NEW size \in StackSizes, NEW ok \in BOOLEAN,
         NEW par \in ProcessKey \cup {NoKey}, prepare_process(s, size, ok, par),
         booted' \in BOOLEAN, phase' \in {"run", "wake"},
         waiting' \in [Slots -> WaitState],
         handles' \in [Slots -> [HandleSlots -> LifecycleEntry]]
  PROVE  TypeInv'
<1> USE DEF TypeInv
<1> PICK e \in StackExtents(size) : \E t \in TrapExtents(PhysAfter(e)) :
         /\ stack' = [stack EXCEPT ![s] = e]
         /\ trap' = [trap EXCEPT ![s] = t]
         /\ freeStacks' = freeStacks (-) SetToBag({e})
         /\ freeTraps' = freeTraps (-) SetToBag({t})
         /\ nextPhys' = IF BagIn(t, freeTraps) THEN PhysAfter(e)
                                              ELSE PhysAfter(e) + TrapSize
  BY Zenon DEF prepare_process
<1> PICK t \in TrapExtents(PhysAfter(e)) :
         /\ stack' = [stack EXCEPT ![s] = e]
         /\ trap' = [trap EXCEPT ![s] = t]
         /\ freeStacks' = freeStacks (-) SetToBag({e})
         /\ freeTraps' = freeTraps (-) SetToBag({t})
         /\ nextPhys' = IF BagIn(t, freeTraps) THEN PhysAfter(e)
                                              ELSE PhysAfter(e) + TrapSize
  BY Zenon
<1>1. e \in Extent
  BY SizesAssumption DEF TypeOK, StackExtents, Extent
<1>2. PhysAfter(e) \in Nat
  BY <1>1 DEF TypeOK, PhysAfter, Extent
<1>3. t \in Extent
  BY <1>2, SizesAssumption DEF TypeOK, TrapExtents, Extent
<1>4. nextPhys' \in Nat
  BY <1>2, SizesAssumption
<1>5. LiveOwns'
  <2> SUFFICES ASSUME NEW x \in Slots, Live(x)'
               PROVE  stack'[x] \in Extent /\ trap'[x] \in Extent
    BY DEF LiveOwns
  <2>1. x = s \/ Live(x)
    BY DEF prepare_process, Live, TypeOK
  <2> QED
    BY <1>1, <1>3, <2>1 DEF LiveOwns, TypeOK
<1>6. IsPool(freeStacks)' /\ IsPool(freeTraps)'
  <2>1. IsPool(freeStacks) /\ IsPool(freeTraps)
    BY DEF TypeOK, IsPool
  <2>2. IsPool(freeStacks (-) SetToBag({e})) /\ IsPool(freeTraps (-) SetToBag({t}))
    BY <2>1, RestIsPool
  <2> QED
    BY <2>2 DEF IsPool
<1> QED
  BY Zenon, <1>1, <1>3, <1>4, <1>5, <1>6 DEF TypeOK, prepare_process, IsPool

\* The handle table wake_waiters leaves.
WakeHandles(woken) ==
    [w \in Slots |-> [i \in HandleSlots |->
        [handles[w][i] EXCEPT !.collected =
            @ \/ (w \in woken /\ waiting[w].handle = i)]]]

\* Marking entries collected keeps the type of the tables.
LEMMA WakeHandlesType ==
  ASSUME TypeOK, NEW woken \in SUBSET Slots
  PROVE  WakeHandles(woken) \in [Slots -> [HandleSlots -> LifecycleEntry]]
<1> SUFFICES ASSUME NEW w \in Slots, NEW i \in HandleSlots
             PROVE  [handles[w][i] EXCEPT !.collected =
                       @ \/ (w \in woken /\ waiting[w].handle = i)] \in LifecycleEntry
  BY DEF WakeHandles
<1>1. handles[w][i] \in LifecycleEntry
  BY DEF TypeOK
<1> QED
  BY Zenon, <1>1 DEF LifecycleEntry

Woke == {w \in Slots : \E c \in Slots : Woken(w, c)}
Awaited == {c \in Slots : \E w \in Slots : Woken(w, c)}

\* wake_waiters in the names used below.
LEMMA WakeStep ==
  ASSUME wake_waiters
  PROVE  /\ phase = "wake" /\ phase' = "run" /\ booted' = booted
         /\ Reclaim(Awaited, {}, WakeHandles(Woke), Reset(waiting, Woke, NoWait))
  BY DEF wake_waiters, Woke, Awaited, WakeHandles

\* Every step keeps the types.
LEMMA TypeStep == TypeInv /\ [Next]_vars => TypeInv'
<1> SUFFICES ASSUME TypeInv, [Next]_vars PROVE TypeInv'
  OBVIOUS
<1> USE DEF TypeInv
<1>h. handles \in [Slots -> [HandleSlots -> LifecycleEntry]]
      /\ waiting \in [Slots -> WaitState] /\ booted \in BOOLEAN
      /\ phase \in {"run", "wake"}
  BY DEF TypeOK
<1>1. ASSUME NEW s \in Slots, NEW size \in StackSizes, NEW ok \in BOOLEAN,
             boot(s, size, ok)
      PROVE  TypeInv'
  BY <1>1, <1>h, TypePrepare DEF boot
<1>2. ASSUME NEW s \in Slots, NEW size \in StackSizes, NEW ok \in BOOLEAN,
             NEW p \in Slots, handle_exec(p, s, size, ok)
      PROVE  TypeInv'
  <2>1. waiting' \in [Slots -> WaitState]
    <3>1. [child |-> KeyOf(s), kind |-> "Exec", handle |-> -1] \in WaitState
      BY KeyIsKey DEF WaitState
    <3> QED
      BY <1>2, <1>h, <3>1 DEF handle_exec
  <2> QED
    BY <1>2, <1>h, <2>1, KeyIsKey, TypePrepare DEF handle_exec
<1>3. ASSUME NEW s \in Slots, NEW size \in StackSizes, NEW ok \in BOOLEAN,
             NEW p \in Slots, NEW h \in HandleSlots, handle_spawn(p, s, size, ok, h)
      PROVE  TypeInv'
  <2>1. handles' \in [Slots -> [HandleSlots -> LifecycleEntry]]
    <3>1. handles[p][h].gen \in (0 .. MaxHandleGen) \cup {-1}
      BY <1>h DEF LifecycleEntry
    <3>2. handles[p][h].gen + 1 \in 0 .. MaxHandleGen
      BY <1>3, <3>1, SizesAssumption DEF handle_spawn, NextHandle, Installable
    <3>3. [gen |-> handles[p][h].gen + 1, child |-> KeyOf(s), collected |-> FALSE]
             \in LifecycleEntry
      BY <3>2, KeyIsKey DEF LifecycleEntry
    <3> QED
      BY <1>3, <1>h, <3>3 DEF handle_spawn, install_lifecycle
  <2> QED
    BY <1>3, <1>h, <2>1, KeyIsKey, TypePrepare DEF handle_spawn
<1>4. ASSUME NEW p \in Slots, finish_process(p), Live(p), booted' = booted,
             phase' \in {"run", "wake"}
      PROVE  TypeInv'
  BY <1>4, <1>h, OrphansLive, TypeReclaim DEF finish_process
<1>5. ASSUME NEW p \in Slots, Exit(p) PROVE TypeInv'
  BY <1>4, <1>5 DEF Exit, is_schedulable, Live
<1>6. ASSUME NEW p \in Slots, HostFinish(p) PROVE TypeInv'
  BY <1>4, <1>6, <1>h DEF HostFinish, Live
<1>7. ASSUME NEW p \in Slots, HostReclaim(p) PROVE TypeInv'
  BY <1>7, <1>h, TypeReclaim DEF HostReclaim, Live
<1>8. ASSUME NEW p \in Slots, NEW h \in HandleSlots, NEW g \in 0 .. MaxHandleGen,
             handle_wait(p, h, g)
      PROVE  TypeInv'
  <2> PICK c \in Slots : WaitCollects(p, h, c) \/ WaitBlocks(p, h, c)
    BY <1>8 DEF handle_wait
  <2>1. CASE WaitCollects(p, h, c)
    <3>1. Collect(p, h) \in [Slots -> [HandleSlots -> LifecycleEntry]]
      <4>1. handles[p][h] \in LifecycleEntry
        BY <1>h
      <4>2. [handles[p][h] EXCEPT !.collected = TRUE] \in LifecycleEntry
        BY Zenon, <4>1 DEF LifecycleEntry
      <4>3. Collect(p, h) = [handles EXCEPT ![p] =
               [@ EXCEPT ![h] = [handles[p][h] EXCEPT !.collected = TRUE]]]
        BY <1>h DEF Collect
      <4> QED
        BY <1>h, <4>2, <4>3
    <3> QED
      BY <1>8, <1>h, <2>1, <3>1, TypeReclaim DEF WaitCollects, handle_wait, Names
  <2>2. CASE WaitBlocks(p, h, c)
    <3>1. [child |-> handles[p][h].child, kind |-> "Lifecycle", handle |-> h] \in WaitState
      BY <1>h DEF LifecycleEntry, WaitState
    <3>2. waiting' \in [Slots -> WaitState]
      BY <1>h, <2>2, <3>1 DEF WaitBlocks
    <3> QED
      BY <1>8, <2>2, <3>2
         DEF TypeOK, LiveOwns, Live, WaitBlocks, handle_wait, extentVars
  <2> QED
    BY <2>1, <2>2
<1>9. ASSUME wake_waiters PROVE TypeInv'
  <2>1. Reset(waiting, Woke, NoWait) \in [Slots -> WaitState]
    BY <1>h DEF Reset, NoWait, WaitState
  <2>2. Woke \in SUBSET Slots /\ Awaited \in SUBSET Slots
    BY DEF Woke, Awaited
  <2>3. \A c \in Awaited : Live(c)
    BY DEF Awaited, Woken, Wakeable, Live
  <2> QED
    BY <1>9, <1>h, <2>1, <2>2, <2>3, WakeStep, WakeHandlesType, TypeReclaim
<1>10. ASSUME UNCHANGED vars PROVE TypeInv'
  BY <1>10 DEF vars, extentVars, TypeOK, LiveOwns, Live
<1> QED
  BY <1>1, <1>2, <1>3, <1>5, <1>6, <1>7, <1>8, <1>9, <1>10 DEF Next

\* The initial state is well typed.
LEMMA TypeInit == Init => TypeInv
<1> SUFFICES ASSUME Init PROVE TypeInv
  OBVIOUS
<1>1. NoWait \in WaitState /\ EmptyEntry \in LifecycleEntry
  BY DEF NoWait, WaitState, EmptyEntry, LifecycleEntry
<1>2. TypeOK
  <2>1. gen \in [Slots -> 0 .. MaxGen]
    BY SizesAssumption DEF Init
  <2>2. /\ waiting \in [Slots -> WaitState]
        /\ handles \in [Slots -> [HandleSlots -> LifecycleEntry]]
    BY <1>1, Zenon DEF Init
  <2>3. IsPool(EmptyBag)
    BY DEF IsPool, IsABag, BagToSet, EmptyBag, SetToBag
  <2>4. nextPhys \in Nat
    BY DEF Init
  <2> QED
    BY Zenon, <2>1, <2>2, <2>3, <2>4 DEF Init, TypeOK, IsPool
<1>3. LiveOwns
  BY DEF Init, LiveOwns, Live
<1> QED
  BY <1>2, <1>3 DEF TypeInv

\* The process table keeps its type: generations never pass u32::MAX and every
\* extent that goes back to a pool is a real one.
THEOREM ProcessTypes == Spec => []TypeOK
<1>1. TypeInv => TypeOK
  BY DEF TypeInv
<1> QED
  BY <1>1, TypeInit, TypeStep, PTL DEF Spec

-----------------------------------------------------------------------------
(* The life invariant *)

\* What reclaim_process does to each slot: the slots of R are cleared and move
\* past their key, the others keep theirs, and an issued key stays issued.
LEMMA ReclaimFacts ==
  ASSUME TypeOK, NEW R \in SUBSET Slots, NEW Z \in SUBSET Slots,
         NEW h \in [Slots -> [HandleSlots -> LifecycleEntry]],
         NEW w \in [Slots -> WaitState], Reclaim(R, Z, h, w)
  PROVE  /\ \A s \in R : /\ ~Live(s)' /\ waiting'[s] = NoWait
                         /\ \A i \in HandleSlots : handles'[s][i].collected
         /\ \A s \in Slots \ R :
              /\ KeyOf(s)' = KeyOf(s) /\ parent'[s] = parent[s]
              /\ waiting'[s] = w[s] /\ handles'[s] = h[s]
              /\ pstate'[s] = (IF s \in Z THEN "Zombie" ELSE pstate[s])
         /\ \A k \in ProcessKey : Issued(k) => Issued(k)'
<1>1. ASSUME NEW s \in R
      PROVE  /\ ~Live(s)' /\ waiting'[s] = NoWait
             /\ \A i \in HandleSlots : handles'[s][i].collected
  <2>1. pstate'[s] = Vacated(s)
    BY DEF Reclaim
  <2>2. handles'[s] = [i \in HandleSlots |-> EmptyEntry]
    BY DEF Reclaim, Reset
  <2> QED
    BY <2>1, <2>2 DEF Reclaim, Reset, Vacated, Live, EmptyEntry
<1>2. ASSUME NEW s \in Slots \ R
      PROVE  /\ KeyOf(s)' = KeyOf(s) /\ parent'[s] = parent[s]
             /\ waiting'[s] = w[s] /\ handles'[s] = h[s]
             /\ pstate'[s] = (IF s \in Z THEN "Zombie" ELSE pstate[s])
  BY DEF Reclaim, Reset, Advance, KeyOf
<1>3. ASSUME NEW k \in ProcessKey, Issued(k)
      PROVE  Issued(k)'
  <2> DEFINE s == k[1]
  <2>1. s \in Slots /\ k[2] \in Int /\ gen[s] \in 0 .. MaxGen
    BY DEF ProcessKey, TypeOK
  <2>2. CASE s \in R
    BY <1>3, <2>1, <2>2, SizesAssumption DEF Reclaim, Advance, Vacated, Issued
  <2>3. CASE s \notin R
    BY <1>3, <2>1, <2>3 DEF Reclaim, Advance, Issued
  <2> QED
    BY <2>2, <2>3
<1> QED
  BY <1>1, <1>2, <1>3

\* The death of a running process p, with its orphans.  Either wake_waiters comes
\* next or nobody can be waiting for p, which has no parent.
LEMMA FinishStep ==
  ASSUME LifeInv, NEW p \in Slots, pstate[p] = "Running", finish_process(p), TypeInv',
         phase' = "wake" \/ (phase' = phase /\ parent[p] = NoKey)
  PROVE  LifeInv'
<1> DEFINE R == Orphans(p)
<1>t. TypeOK /\ R \in SUBSET Slots /\ {p} \in SUBSET Slots
      /\ handles \in [Slots -> [HandleSlots -> LifecycleEntry]]
      /\ waiting \in [Slots -> WaitState] /\ Reclaim(R, {p}, handles, waiting)
  BY DEF LifeInv, TypeInv, TypeOK, finish_process, Orphans
<1> HIDE DEF R
<1>f. /\ \A s \in R : /\ ~Live(s)' /\ waiting'[s] = NoWait
                     /\ \A i \in HandleSlots : handles'[s][i].collected
      /\ \A s \in Slots \ R :
           /\ KeyOf(s)' = KeyOf(s) /\ parent'[s] = parent[s]
           /\ waiting'[s] = waiting[s] /\ handles'[s] = handles[s]
           /\ pstate'[s] = (IF s \in {p} THEN "Zombie" ELSE pstate[s])
      /\ \A k \in ProcessKey : Issued(k) => Issued(k)'
  BY <1>t, ReclaimFacts, Zenon
<1>in. \A s \in R : /\ ~Live(s)' /\ waiting'[s] = NoWait
                     /\ \A i \in HandleSlots : handles'[s][i].collected
  BY Zenon, <1>f
<1>out. \A s \in Slots \ R :
           /\ KeyOf(s)' = KeyOf(s) /\ parent'[s] = parent[s]
           /\ waiting'[s] = waiting[s] /\ handles'[s] = handles[s]
           /\ pstate'[s] = (IF s = p THEN "Zombie" ELSE pstate[s])
  BY Zenon, <1>f
<1>k. \A k \in ProcessKey : Issued(k) => Issued(k)'
  BY <1>f
<1>1. \A s \in Slots : Live(s)' <=> s \notin R /\ Live(s)
  BY <1>in, <1>out DEF Live
<1>2. \A s \in Slots : pstate'[s] = "Running" <=> s \notin R /\ s # p /\ pstate[s] = "Running"
  BY <1>in, <1>out DEF Live
<1>3. \A s, q \in Slots : Live(s)' /\ ChildOf(s, q) => q \notin R /\ q # p
  BY <1>1, OrphansClosed DEF R
<1>4. \A s, q \in Slots : ChildOf(s, q) /\ q \notin R /\ q # p => s \notin R
  <2> SUFFICES ASSUME NEW s \in Slots, NEW q \in Slots, ChildOf(s, q), s \in R
               PROVE  q \in R \cup {p}
    OBVIOUS
  <2> PICK d \in R \cup {p} : ChildOf(s, d)
    BY OrphansHaveParents DEF R
  <2>1. d \in Slots /\ KeyOf(d) = KeyOf(q)
    BY <1>t DEF ChildOf
  <2> QED
    BY <2>1, KeyInjective
<1>5. \A s, q \in Slots : s \notin R /\ q \notin R => (ChildOf(s, q)' <=> ChildOf(s, q))
  BY <1>1, <1>out DEF ChildOf
<1>6. NoOrphans'
  <2> SUFFICES ASSUME NEW s \in Slots, Live(s)', parent'[s] # NoKey
               PROVE  \E q \in Slots : pstate'[q] = "Running" /\ parent'[s] = KeyOf(q)'
    BY DEF NoOrphans
  <2>1. s \notin R /\ Live(s) /\ parent'[s] = parent[s]
    BY <1>1, <1>out
  <2> PICK q \in Slots : pstate[q] = "Running" /\ parent[s] = KeyOf(q)
    BY <2>1 DEF LifeInv, NoOrphans
  <2>2. q \notin R /\ q # p
    BY <1>3, <2>1 DEF ChildOf
  <2> QED
    BY <1>2, <1>out, <2>1, <2>2
<1>7. HandlesNameChildren'
  <2> SUFFICES ASSUME NEW q \in Slots, NEW h \in HandleSlots,
                      pstate'[q] = "Running", ~handles'[q][h].collected
               PROVE  \E s \in Slots : ChildOf(s, q)' /\ handles'[q][h].child = KeyOf(s)'
    BY DEF HandlesNameChildren
  <2>1. q \notin R /\ q # p /\ pstate[q] = "Running" /\ handles'[q] = handles[q]
    BY <1>2, <1>out
  <2> PICK s \in Slots : ChildOf(s, q) /\ handles[q][h].child = KeyOf(s)
    BY <2>1 DEF LifeInv, HandlesNameChildren
  <2>2. s \notin R
    BY <1>4, <2>1
  <2> QED
    BY <1>5, <1>out, <2>1, <2>2
<1>8. WaitsAreOwn'
  <2> SUFFICES ASSUME NEW w \in Slots, waiting'[w] # NoWait
               PROVE  /\ Live(w)'
                      /\ waiting'[w].child \in ProcessKey /\ Issued(waiting[w].child)'
                      /\ \A c \in Slots :
                           Names(waiting[w].child, c)' => parent'[c] = KeyOf(w)'
                      /\ pstate'[w] = "Running" =>
                           \E c \in Slots : Names(waiting[w].child, c)'
    BY DEF WaitsAreOwn
  <2>1. w \notin R /\ waiting'[w] = waiting[w] /\ KeyOf(w)' = KeyOf(w)
    BY <1>in, <1>out
  <2>2. /\ Live(w)
        /\ waiting[w].child \in ProcessKey /\ Issued(waiting[w].child)
        /\ \A c \in Slots : Names(waiting[w].child, c) => parent[c] = KeyOf(w)
        /\ pstate[w] = "Running" => \E c \in Slots : Names(waiting[w].child, c)
    BY <2>1 DEF LifeInv, WaitsAreOwn
  <2>3. ASSUME NEW c \in Slots, Names(waiting[w].child, c)'
        PROVE  parent'[c] = KeyOf(w)'
    BY Zenon, <1>1, <1>out, <2>1, <2>2, <2>3 DEF Names
  <2>4. ASSUME pstate'[w] = "Running"
        PROVE  \E c \in Slots : Names(waiting[w].child, c)'
    <3>1. w # p /\ pstate[w] = "Running"
      BY <1>2, <2>4
    <3> PICK c \in Slots : Names(waiting[w].child, c)
      BY <2>2, <3>1
    <3>2. ChildOf(c, w)
      BY <2>2 DEF Names, ChildOf
    <3>3. c \notin R
      BY <1>4, <2>1, <3>1, <3>2
    <3> QED
      BY Zenon, <1>1, <1>out, <2>1, <3>3 DEF Names
  <2> QED
    BY Zenon, <1>1, <1>k, <2>1, <2>2, <2>3, <2>4
<1>9. WaitersWaitForRunningChildren'
  <2> SUFFICES ASSUME phase' = "run", NEW w \in Slots, pstate'[w] = "Running",
                      waiting'[w] # NoWait
               PROVE  \E s \in Slots : /\ pstate'[s] = "Running" /\ ChildOf(s, w)'
                                       /\ waiting'[w].child = KeyOf(s)'
    BY DEF WaitersWaitForRunningChildren
  <2>1. phase = "run" /\ parent[p] = NoKey
    OBVIOUS
  <2>2. w \notin R /\ w # p /\ pstate[w] = "Running" /\ waiting'[w] = waiting[w]
    BY <1>2, <1>out
  <2> PICK s \in Slots : /\ pstate[s] = "Running" /\ ChildOf(s, w)
                         /\ waiting[w].child = KeyOf(s)
    BY <2>1, <2>2 DEF LifeInv, WaitersWaitForRunningChildren
  <2>3. s \notin R /\ s # p
    BY <1>t, <1>4, <2>1, <2>2, KeyIsKey DEF ChildOf
  <2> QED
    BY <1>2, <1>5, <1>out, <2>2, <2>3
<1>10. WaitsAgree'
  <2> SUFFICES ASSUME NEW w \in Slots, pstate'[w] = "Running", waiting'[w] # NoWait
               PROVE  ExecWait(w)' \/ LifecycleWait(w)'
    BY DEF WaitsAgree
  <2>1. pstate[w] = "Running" /\ waiting'[w] = waiting[w] /\ handles'[w] = handles[w]
    BY <1>2, <1>out
  <2> QED
    BY Zenon, <2>1 DEF LifeInv, WaitsAgree, ExecWait, LifecycleWait
<1>11. HandlesDistinct'
  BY <1>2, <1>out DEF LifeInv, HandlesDistinct
<1>12. ChildrenCollectable'
  <2> SUFFICES ASSUME NEW s \in Slots, NEW q \in Slots, ChildOf(s, q)'
               PROVE  InExec(q, s)' \/ EntriesFor(q, s)' # {}
    BY DEF ChildrenCollectable
  <2>1. s \notin R /\ KeyOf(s)' = KeyOf(s) /\ Live(s)
    BY <1>1, <1>out DEF ChildOf
  <2>2. q \notin R /\ ChildOf(s, q)
    <3>1. Live(s)' /\ parent'[s] = KeyOf(q)' /\ parent'[s] # NoKey
      BY DEF ChildOf, KeyOf, NoKey, Slots
    <3> PICK d \in Slots : pstate'[d] = "Running" /\ parent'[s] = KeyOf(d)'
      BY <1>6, <3>1 DEF NoOrphans
    <3>2. d = q
      BY <3>1 DEF KeyOf
    <3> QED
      BY <1>2, <1>5, <2>1, <3>2
  <2> QED
    <3>1. /\ KeyOf(s)' = KeyOf(s) /\ waiting'[q] = waiting[q]
          /\ handles'[q] = handles[q]
      BY <1>out, <2>1, <2>2
    <3>2. InExec(q, s) \/ EntriesFor(q, s) # {}
      BY <2>2 DEF LifeInv, ChildrenCollectable
    <3> QED
      BY <3>1, <3>2 DEF InExec, EntriesFor
<1>13. VacantIsClear'
  BY <1>1, <1>in, <1>out DEF LifeInv, VacantIsClear
<1> QED
  BY <1>6, <1>7, <1>8, <1>9, <1>10, <1>11, <1>12, <1>13 DEF LifeInv

=============================================================================
