-------------------------- MODULE Processes_proofs --------------------------
(***************************************************************************)
(* The theorems about Processes.  LifeInvariant puts the lemmas of         *)
(* Processes_steps and Processes_calls together; the properties follow     *)
(* from it.                                                                *)
(***************************************************************************)
EXTENDS Processes_calls

\* A wait or a handle of a running process names only children of that process.
LEMMA NamedAreChildren ==
  ASSUME LifeInv, NEW q \in Slots, pstate[q] = "Running", NEW c \in Slots, Live(c)
  PROVE  /\ waiting[q].child = KeyOf(c) => ChildOf(c, q)
         /\ \A i \in HandleSlots :
              ~handles[q][i].collected /\ handles[q][i].child = KeyOf(c) => ChildOf(c, q)
<1>t. TypeOK
  BY DEF LifeInv, TypeInv
<1>1. ASSUME waiting[q].child = KeyOf(c) PROVE ChildOf(c, q)
  <2>1. waiting[q] # NoWait
    BY <1>1, <1>t, KeyIsKey DEF NoWait
  <2> QED
    BY Zenon, <1>1, <2>1 DEF LifeInv, WaitsAreOwn, Names, ChildOf
<1>2. ASSUME NEW i \in HandleSlots, ~handles[q][i].collected,
             handles[q][i].child = KeyOf(c)
      PROVE  ChildOf(c, q)
  <2> PICK x \in Slots : ChildOf(x, q) /\ handles[q][i].child = KeyOf(x)
    BY <1>2 DEF LifeInv, HandlesNameChildren
  <2> QED
    BY Zenon, <1>2, KeyInjective
<1> QED
  BY Zenon, <1>1, <1>2

\* A process is the child of one process only.
LEMMA OneParent ==
  ASSUME NEW c \in Slots, NEW p \in Slots, NEW q \in Slots, ChildOf(c, p), ChildOf(c, q)
  PROVE  p = q
  BY Zenon, KeyInjective DEF ChildOf

\* Taking the result of a zombie by SYS_WAIT keeps the invariant.
LEMMA CollectStep ==
  ASSUME LifeInv, TypeInv', NEW p \in Slots, is_schedulable(p), NEW i \in HandleSlots,
         ~handles[p][i].collected, NEW c \in Slots, WaitCollects(p, i, c), phase' = "wake"
  PROVE  LifeInv'
<1> DEFINE R == {c}
           W == {}
           h == Collect(p, i)
<1>t. TypeOK /\ pstate[p] = "Running" /\ waiting[p] = NoWait /\ Live(c)
      /\ handles \in [Slots -> [HandleSlots -> LifecycleEntry]]
      /\ waiting \in [Slots -> WaitState]
  BY Zenon DEF LifeInv, TypeInv, TypeOK, is_schedulable, WaitCollects, Names
<1>c. handles[p][i].child = KeyOf(c) /\ ChildOf(c, p)
  BY Zenon, <1>t, NamedAreChildren DEF WaitCollects, Names
<1>h. /\ h \in [Slots -> [HandleSlots -> LifecycleEntry]]
      /\ \A q \in Slots, j \in HandleSlots :
           /\ h[q][j].child = handles[q][j].child
           /\ h[q][j].collected <=> handles[q][j].collected \/ (q = p /\ j = i)
  <2> DEFINE e == [handles[p][i] EXCEPT !.collected = TRUE]
  <2>1. handles[p][i] \in LifecycleEntry
    BY <1>t
  <2>2. e \in LifecycleEntry /\ e.child = handles[p][i].child /\ e.collected
    BY Zenon, <2>1 DEF LifecycleEntry
  <2>3. h = [handles EXCEPT ![p] = [handles[p] EXCEPT ![i] = e]]
    BY <1>t DEF Collect
  <2> HIDE DEF e
  <2>4. h \in [Slots -> [HandleSlots -> LifecycleEntry]]
    BY <1>t, <2>2, <2>3
  <2>5. \A q \in Slots, j \in HandleSlots :
           h[q][j] = IF q = p /\ j = i THEN e ELSE handles[q][j]
    BY <1>t, <2>3
  <2> QED
    BY <2>2, <2>4, <2>5
<1>r. Reset(waiting, {}, NoWait) = waiting
  BY <1>t DEF Reset
<1>1. R \in SUBSET Slots /\ (\A x \in R : pstate[x] = "Zombie") /\ W \in SUBSET Slots
  BY DEF WaitCollects
<1>2. Reclaim(R, {}, h, Reset(waiting, W, NoWait))
  BY Zenon, <1>r DEF WaitCollects
<1>3. ASSUME NEW q \in Slots, NEW j \in HandleSlots,
             pstate[q] = "Running", ~handles[q][j].collected
      PROVE  h[q][j].collected <=> \E x \in R : handles[q][j].child = KeyOf(x)
  <2>1. handles[q][j].child = KeyOf(c) => q = p /\ j = i
    <3>1. handles[q][j].child = KeyOf(c) => q = p
      BY Zenon, <1>3, <1>c, <1>t, NamedAreChildren, OneParent
    <3> QED
      BY <1>3, <1>c, <1>t, <3>1 DEF LifeInv, HandlesDistinct
  <2> QED
    BY Zenon, <1>3, <1>c, <1>h, <2>1
<1>4. \A q \in Slots, x \in R : pstate[q] = "Running" /\ q \notin W
             => waiting[q].child # KeyOf(x)
  <2> SUFFICES ASSUME NEW q \in Slots, pstate[q] = "Running", waiting[q].child = KeyOf(c)
               PROVE  FALSE
    OBVIOUS
  <2>1. q = p
    BY Zenon, <1>c, <1>t, NamedAreChildren, OneParent
  <2> QED
    BY <1>t, <2>1, KeyIsKey DEF NoWait
<1>5. \A q \in Slots, j \in HandleSlots :
             /\ h[q][j].child = handles[q][j].child
             /\ handles[q][j].collected => h[q][j].collected
  BY <1>h
<1>6. \A q \in W : pstate[q] = "Running" /\ \E x \in R : waiting[q].child = KeyOf(x)
  OBVIOUS
<1>7. \A q \in Slots, j \in HandleSlots : pstate[q] = "Running" /\ ~handles[q][j].collected
             => (h[q][j].collected <=> \E x \in R : handles[q][j].child = KeyOf(x))
  BY <1>3
<1>8. phase' = "wake" \/
         \A q \in Slots : pstate[q] = "Running" /\ waiting[q] # NoWait /\ q \notin W =>
             \E x \in Slots : /\ pstate[x] = "Running" /\ ChildOf(x, q)
                              /\ waiting[q].child = KeyOf(x)
  OBVIOUS
<1>9. h \in [Slots -> [HandleSlots -> LifecycleEntry]]
  BY Zenon, <1>h
<1> HIDE DEF R, W, h
<1>10. Gathers(R, W, h)
  BY <1>1, <1>2, <1>4, <1>5, <1>6, <1>7, <1>8, Zenon DEF Gathers
<1> QED
  BY <1>1, <1>9, <1>10, GatherStep

\* Reclaiming a dead boot process keeps the invariant: nobody waits for it.
LEMMA HostReclaimStep ==
  ASSUME LifeInv, TypeInv', NEW p \in Slots, HostReclaim(p)
  PROVE  LifeInv'
<1> DEFINE R == {p}
           W == {}
<1>t. /\ TypeOK /\ pstate[p] = "Zombie" /\ Live(p) /\ parent[p] = NoKey /\ phase = "run"
      /\ handles \in [Slots -> [HandleSlots -> LifecycleEntry]]
      /\ waiting \in [Slots -> WaitState]
  BY DEF LifeInv, TypeInv, TypeOK, HostReclaim, Live
<1>r. Reset(waiting, W, NoWait) = waiting
  BY Zenon, <1>t DEF Reset
<1>1. R \in SUBSET Slots /\ W \in SUBSET Slots /\ \A c \in R : pstate[c] = "Zombie"
  BY <1>t
<1>2. Reclaim(R, {}, handles, Reset(waiting, W, NoWait))
  BY <1>r DEF HostReclaim
<1>3. \A q \in Slots : ~ChildOf(p, q)
  BY <1>t, KeyIsKey DEF ChildOf
<1>4. \A q \in Slots, i \in HandleSlots :
         pstate[q] = "Running" /\ ~handles[q][i].collected
            => (handles[q][i].collected <=> \E c \in R : handles[q][i].child = KeyOf(c))
  BY Zenon, <1>3, <1>t, NamedAreChildren
<1>5. \A q \in Slots, c \in R :
         pstate[q] = "Running" /\ q \notin W => waiting[q].child # KeyOf(c)
  BY Zenon, <1>3, <1>t, NamedAreChildren
<1>6. \A q \in W : pstate[q] = "Running" /\ \E c \in R : waiting[q].child = KeyOf(c)
  OBVIOUS
<1>7. \A q \in Slots : pstate[q] = "Running" /\ waiting[q] # NoWait /\ q \notin W =>
             \E s \in Slots : /\ pstate[s] = "Running" /\ ChildOf(s, q)
                              /\ waiting[q].child = KeyOf(s)
  BY Zenon, <1>t DEF LifeInv, WaitersWaitForRunningChildren
<1> HIDE DEF R, W
<1>8. Gathers(R, W, handles)
  BY <1>1, <1>2, <1>4, <1>5, <1>6, <1>7, Zenon DEF Gathers
<1> QED
  BY <1>1, <1>8, <1>t, GatherStep

\* Whoever waits for a zombie is its running parent.
LEMMA WaiterIsParent ==
  ASSUME LifeInv, NEW w \in Slots, NEW c \in Slots, Wakeable(w, c)
  PROVE  pstate[w] = "Running" /\ ChildOf(c, w) /\ waiting[w] # NoWait
<1>1. TypeOK /\ Live(c) /\ waiting[w].child = KeyOf(c)
  BY DEF LifeInv, TypeInv, Wakeable, Live
<1>2. waiting[w] # NoWait
  BY <1>1, KeyIsKey DEF NoWait
<1>3. parent[c] = KeyOf(w) /\ parent[c] # NoKey
  BY Zenon, <1>1, <1>2, KeyIsKey DEF LifeInv, WaitsAreOwn, Names
<1>4. PICK p \in Slots : pstate[p] = "Running" /\ parent[c] = KeyOf(p)
  BY Zenon, <1>1, <1>3 DEF LifeInv, NoOrphans
<1> QED
  BY Zenon, <1>1, <1>2, <1>3, <1>4, KeyInjective DEF ChildOf

\* Hence a zombie has one waiter at most, and wake_waiters wakes it.
LEMMA OneWaiter ==
  ASSUME LifeInv, NEW w \in Slots, NEW c \in Slots, Wakeable(w, c)
  PROVE  Woken(w, c)
<1> SUFFICES ASSUME NEW v \in 0 .. (w - 1), Wakeable(v, c) PROVE FALSE
  BY DEF Woken
<1>1. v \in Slots /\ v # w
  BY SizesAssumption DEF Slots
<1> QED
  BY <1>1, WaiterIsParent, OneParent

\* wake_waiters keeps the invariant, and leaves nobody blocked on a zombie.
LEMMA WakeWaitersStep ==
  ASSUME LifeInv, TypeInv', wake_waiters
  PROVE  LifeInv'
<1> DEFINE h == WakeHandles(Woke)
<1>t. /\ TypeOK /\ handles \in [Slots -> [HandleSlots -> LifecycleEntry]]
      /\ Woke \in SUBSET Slots /\ Awaited \in SUBSET Slots
  BY DEF LifeInv, TypeInv, TypeOK, Woke, Awaited
<1>h. h \in [Slots -> [HandleSlots -> LifecycleEntry]]
  BY <1>t, WakeHandlesType
<1>e. \A q \in Slots, i \in HandleSlots :
         /\ h[q][i].child = handles[q][i].child
         /\ h[q][i].collected <=>
              handles[q][i].collected \/ (q \in Woke /\ waiting[q].handle = i)
  <2> SUFFICES ASSUME NEW q \in Slots, NEW i \in HandleSlots
               PROVE  /\ h[q][i].child = handles[q][i].child
                      /\ h[q][i].collected <=>
                           handles[q][i].collected \/ (q \in Woke /\ waiting[q].handle = i)
    BY Zenon
  <2>1. handles[q][i] \in LifecycleEntry
    BY <1>t
  <2>2. h[q][i] = [handles[q][i] EXCEPT !.collected =
                     @ \/ (q \in Woke /\ waiting[q].handle = i)]
    BY DEF WakeHandles
  <2> QED
    BY Zenon, <2>1, <2>2 DEF LifecycleEntry
<1>a. \A c \in Awaited : pstate[c] = "Zombie" /\ \E w \in Woke : Wakeable(w, c)
  BY DEF Awaited, Woke, Woken, Wakeable
<1>w. \A w \in Woke : \E c \in Awaited : Wakeable(w, c)
  BY DEF Awaited, Woke, Woken
<1>o. \A w, c \in Slots : Wakeable(w, c) => w \in Woke /\ c \in Awaited
  BY OneWaiter DEF Woke, Awaited
<1>1. \A q \in Slots, c \in Awaited : pstate[q] = "Running" /\ ChildOf(c, q)
                                      => q \in Woke /\ waiting[q].child = KeyOf(c)
  <2> SUFFICES ASSUME NEW q \in Slots, NEW c \in Awaited, ChildOf(c, q)
               PROVE  q \in Woke /\ waiting[q].child = KeyOf(c)
    OBVIOUS
  <2> PICK w \in Woke : Wakeable(w, c)
    BY <1>a
  <2>1. w = q
    BY <1>t, WaiterIsParent, OneParent
  <2> QED
    BY <2>1 DEF Wakeable
<1>2. ASSUME NEW q \in Slots, NEW i \in HandleSlots,
             pstate[q] = "Running", ~handles[q][i].collected
      PROVE  h[q][i].collected <=> \E c \in Awaited : handles[q][i].child = KeyOf(c)
  <2>1. ASSUME q \in Woke, waiting[q].handle = i
        PROVE  \E c \in Awaited : handles[q][i].child = KeyOf(c)
    <3> PICK c \in Awaited : Wakeable(q, c)
      BY <1>w, <2>1
    <3>1. waiting[q] # NoWait
      BY <1>t, WaiterIsParent
    <3>2. ~ExecWait(q)
      BY <2>1, SizesAssumption DEF ExecWait, HandleSlots
    <3>3. LifecycleWait(q)
      BY <1>2, <3>1, <3>2 DEF LifeInv, WaitsAgree
    <3> QED
      BY <2>1, <3>3 DEF LifecycleWait, Wakeable
  <2>2. ASSUME NEW c \in Awaited, handles[q][i].child = KeyOf(c)
        PROVE  q \in Woke /\ waiting[q].handle = i
    <3>1. Live(c) /\ c \in Slots
      BY <1>a, <1>t DEF Live
    <3>2. ChildOf(c, q)
      BY Zenon, <1>2, <2>2, <3>1, NamedAreChildren
    <3>3. q \in Woke /\ waiting[q].child = KeyOf(c)
      BY <1>1, <1>2, <3>2
    <3>4. waiting[q] # NoWait
      BY <1>t, <3>1, <3>3, KeyIsKey DEF NoWait
    <3>5. ~ExecWait(q)
      BY <1>2, <2>2, <3>3 DEF ExecWait
    <3>6. LifecycleWait(q)
      BY <1>2, <3>4, <3>5 DEF LifeInv, WaitsAgree
    <3> QED
      BY <1>2, <2>2, <3>3, <3>6 DEF LifeInv, HandlesDistinct, LifecycleWait
  <2> QED
    BY Zenon, <1>2, <1>e, <2>1, <2>2
<1>3. \A q \in Slots, c \in Awaited :
         pstate[q] = "Running" /\ q \notin Woke => waiting[q].child # KeyOf(c)
  BY <1>a, <1>o, <1>t DEF Wakeable
<1>4. \A q \in Woke : /\ pstate[q] = "Running"
                      /\ \E c \in Awaited : waiting[q].child = KeyOf(c)
  BY Zenon, <1>t, <1>w, WaiterIsParent DEF Wakeable
<1>5. \A q \in Slots : pstate[q] = "Running" /\ waiting[q] # NoWait /\ q \notin Woke =>
             \E s \in Slots : /\ pstate[s] = "Running" /\ ChildOf(s, q)
                              /\ waiting[q].child = KeyOf(s)
  <2> SUFFICES ASSUME NEW q \in Slots, pstate[q] = "Running", waiting[q] # NoWait,
                      q \notin Woke
               PROVE  \E s \in Slots : /\ pstate[s] = "Running" /\ ChildOf(s, q)
                                       /\ waiting[q].child = KeyOf(s)
    OBVIOUS
  <2> PICK s \in Slots : Names(waiting[q].child, s)
    BY DEF LifeInv, WaitsAreOwn
  <2>1. ChildOf(s, q)
    BY DEF LifeInv, WaitsAreOwn, Names, ChildOf
  <2>2. pstate[s] # "Zombie"
    BY <1>o DEF Wakeable, Names
  <2> QED
    BY <2>1, <2>2 DEF Names, Live
<1>6. \A q \in Slots, i \in HandleSlots :
         pstate[q] = "Running" /\ ~handles[q][i].collected
            => (h[q][i].collected <=> \E c \in Awaited : handles[q][i].child = KeyOf(c))
  BY <1>2
<1>7. Reclaim(Awaited, {}, h, Reset(waiting, Woke, NoWait))
  BY WakeStep
<1>8. /\ \A c \in Awaited : pstate[c] = "Zombie"
      /\ \A q \in Slots, i \in HandleSlots :
           /\ h[q][i].child = handles[q][i].child
           /\ handles[q][i].collected => h[q][i].collected
  BY <1>a, <1>e
<1> HIDE DEF h
<1>9. Gathers(Awaited, Woke, h)
  BY <1>3, <1>4, <1>5, <1>6, <1>7, <1>8, Zenon DEF Gathers
<1> QED
  BY <1>9, <1>h, <1>t, GatherStep

-----------------------------------------------------------------------------
(* The inductive invariant and what follows from it *)

\* The empty process table satisfies the invariant.
LEMMA LifeInvInit == Init => LifeInv
<1> SUFFICES ASSUME Init PROVE LifeInv
  OBVIOUS
<1>1. TypeInv
  BY TypeInit
<1>2. /\ \A s \in Slots : pstate[s] = "Free" /\ waiting[s] = NoWait
      /\ \A s \in Slots, i \in HandleSlots : handles[s][i].collected
  BY DEF Init, EmptyEntry
<1>3. \A s \in Slots : ~Live(s) /\ pstate[s] # "Running"
  BY <1>2 DEF Live
<1> QED
  BY <1>1, <1>2, <1>3
     DEF LifeInv, NoOrphans, HandlesNameChildren, WaitersWaitForRunningChildren,
         WaitsAreOwn, WaitsAgree, HandlesDistinct, ChildrenCollectable, VacantIsClear, ChildOf

\* Every step of the kernel keeps the invariant.
LEMMA LifeInvStep == LifeInv /\ [Next]_vars => LifeInv'
<1> SUFFICES ASSUME LifeInv, [Next]_vars PROVE LifeInv'
  OBVIOUS
<1>t. TypeInv /\ TypeInv'
  BY TypeStep DEF LifeInv
<1>1. ASSUME NEW s \in Slots, NEW size \in StackSizes, NEW ok \in BOOLEAN,
             boot(s, size, ok)
      PROVE  LifeInv'
  <2>1. BootBirth(NoKey)
    BY <1>1 DEF boot, BootBirth
  <2> QED
    BY <1>1, <1>t, <2>1, BirthStep DEF boot
<1>2. ASSUME NEW s \in Slots, NEW size \in StackSizes, NEW ok \in BOOLEAN,
             NEW p \in Slots, handle_exec(p, s, size, ok)
      PROVE  LifeInv'
  <2>1. ExecBirth(p, s, KeyOf(p))
    BY <1>2 DEF handle_exec, is_schedulable, ExecBirth, ParentReady
  <2> QED
    BY <1>2, <1>t, <2>1, BirthStep DEF handle_exec
<1>3. ASSUME NEW s \in Slots, NEW size \in StackSizes, NEW ok \in BOOLEAN,
             NEW p \in Slots, NEW h \in HandleSlots, handle_spawn(p, s, size, ok, h)
      PROVE  LifeInv'
  <2>1. SpawnBirth(p, s, KeyOf(p), h)
    BY <1>3 DEF handle_spawn, is_schedulable, SpawnBirth, ParentReady
  <2> QED
    BY <1>3, <1>t, <2>1, BirthStep DEF handle_spawn
<1>4. ASSUME NEW p \in Slots, Exit(p) PROVE LifeInv'
  BY <1>4, <1>t, FinishStep DEF Exit, is_schedulable
<1>5. ASSUME NEW p \in Slots, HostFinish(p) PROVE LifeInv'
  BY <1>5, <1>t, FinishStep DEF HostFinish
<1>6. ASSUME NEW p \in Slots, HostReclaim(p) PROVE LifeInv'
  BY <1>6, <1>t, HostReclaimStep
<1>7. ASSUME NEW p \in Slots, NEW h \in HandleSlots, NEW g \in 0 .. MaxHandleGen,
             handle_wait(p, h, g)
      PROVE  LifeInv'
  <2>1. is_schedulable(p) /\ ~handles[p][h].collected /\ phase' = "wake"
    BY <1>7 DEF handle_wait, resolve_lifecycle
  <2> PICK c \in Slots : WaitCollects(p, h, c) \/ WaitBlocks(p, h, c)
    BY <1>7 DEF handle_wait
  <2> QED
    BY <1>t, <2>1, BlockStep, CollectStep
<1>8. ASSUME wake_waiters PROVE LifeInv'
  BY <1>8, <1>t, WakeWaitersStep
<1>9. ASSUME UNCHANGED vars PROVE LifeInv'
  <2>1. /\ phase' = phase /\ pstate' = pstate /\ gen' = gen /\ parent' = parent
        /\ waiting' = waiting /\ handles' = handles
    BY <1>9 DEF vars
  <2>2. /\ \A s \in Slots : (KeyOf(s)' = KeyOf(s)) /\ (Live(s)' <=> Live(s))
        /\ \A s, q \in Slots : ChildOf(s, q)' <=> ChildOf(s, q)
    BY <2>1 DEF KeyOf, Live, ChildOf
  <2>3. NoOrphans'
    BY <2>1, <2>2 DEF LifeInv, NoOrphans
  <2>4. HandlesNameChildren'
    BY <2>1, <2>2 DEF LifeInv, HandlesNameChildren
  <2>5. WaitersWaitForRunningChildren'
    BY <2>1, <2>2 DEF LifeInv, WaitersWaitForRunningChildren
  <2>6. WaitsAreOwn' /\ WaitsAgree'
    <3>1. WaitsAreOwn /\ WaitsAgree
      BY DEF LifeInv
    <3>2. WaitsAreOwn'
      BY <2>1, <3>1, Zenon DEF WaitsAreOwn, Issued, Names, Live, KeyOf
    <3>3. WaitsAgree'
      BY <2>1, <3>1, Zenon DEF WaitsAgree, ExecWait, LifecycleWait
    <3> QED
      BY <3>2, <3>3
  <2>7. HandlesDistinct'
    BY <2>1 DEF LifeInv, HandlesDistinct
  <2>8. ChildrenCollectable'
    <3>1. \A s, q \in Slots : (InExec(q, s)' <=> InExec(q, s))
                               /\ EntriesFor(q, s)' = EntriesFor(q, s)
      BY <2>1 DEF InExec, EntriesFor, KeyOf
    <3> QED
      BY <2>2, <3>1 DEF LifeInv, ChildrenCollectable
  <2>9. VacantIsClear'
    BY <2>1, <2>2 DEF LifeInv, VacantIsClear
  <2> QED
    BY <1>t, <2>3, <2>4, <2>5, <2>6, <2>7, <2>8, <2>9 DEF LifeInv
<1> QED
  BY <1>1, <1>2, <1>3, <1>4, <1>5, <1>6, <1>7, <1>8, <1>9 DEF Next

\* LifeInv holds throughout.
THEOREM LifeInvariant == Spec => []LifeInv
  BY LifeInvInit, LifeInvStep, PTL DEF Spec

\* terminate_orphans leaves no survivor, however deep the tree and however the
\* deaths, waits and reclamations interleave.
THEOREM NoOrphansHolds == Spec => []NoOrphans
<1>1. LifeInv => NoOrphans
  BY DEF LifeInv
<1> QED
  BY <1>1, LifeInvariant, PTL

\* A lifecycle handle SYS_WAIT accepts always names a live child of the caller.
THEOREM HandlesNameChildrenHolds == Spec => []HandlesNameChildren
<1>1. LifeInv => HandlesNameChildren
  BY DEF LifeInv
<1> QED
  BY <1>1, LifeInvariant, PTL

\* No lost wakeup: between quanta nobody is blocked on a process that is dead.
THEOREM WaitersHolds == Spec => []WaitersWaitForRunningChildren
<1>1. LifeInv => WaitersWaitForRunningChildren
  BY DEF LifeInv
<1> QED
  BY <1>1, LifeInvariant, PTL

\* Every child can be collected by its parent, in one way only.
THEOREM OneCollectorHolds == Spec => []EveryChildHasOneCollector
<1>1. LifeInv => EveryChildHasOneCollector
  <2> SUFFICES ASSUME LifeInv, NEW s \in Slots, NEW p \in Slots, ChildOf(s, p)
               PROVE  IF InExec(p, s)
                      THEN EntriesFor(p, s) = {}
                      ELSE \E h \in HandleSlots : EntriesFor(p, s) = {h}
    BY DEF EveryChildHasOneCollector, InExec
  <2>1. pstate[p] = "Running"
    <3>1. Live(s) /\ parent[s] = KeyOf(p) /\ parent[s] # NoKey
      BY KeyIsKey DEF ChildOf, LifeInv, TypeInv
    <3> PICK q \in Slots : pstate[q] = "Running" /\ parent[s] = KeyOf(q)
      BY <3>1 DEF LifeInv, NoOrphans
    <3> QED
      BY Zenon, <3>1, KeyInjective
  <2>2. CASE InExec(p, s)
    <3>1. waiting[p] # NoWait /\ ~LifecycleWait(p)
      BY <2>2 DEF InExec, NoWait, LifecycleWait
    <3>2. ExecWait(p)
      BY <2>1, <3>1 DEF LifeInv, WaitsAgree
    <3>3. EntriesFor(p, s) = {}
      BY <2>2, <3>2 DEF EntriesFor, ExecWait, InExec
    <3> QED
      BY <2>2, <3>3
  <2>3. CASE ~InExec(p, s)
    <3> PICK h \in EntriesFor(p, s) : TRUE
      BY <2>3 DEF LifeInv, ChildrenCollectable
    <3>1. EntriesFor(p, s) = {h}
      BY <2>1 DEF LifeInv, HandlesDistinct, EntriesFor
    <3> QED
      BY <2>3, <3>1 DEF EntriesFor
  <2> QED
    BY <2>2, <2>3
<1> QED
  BY <1>1, LifeInvariant, PTL

-----------------------------------------------------------------------------
(* What a step may do *)

\* h has the handles of the table with, perhaps, more of them collected.
Kept(h) ==
    \A q \in Slots, i \in HandleSlots :
        /\ h[q][i].gen = handles[q][i].gen /\ h[q][i].child = handles[q][i].child
        /\ handles[q][i].collected => h[q][i].collected

\* The parent of s dies, was blocked on s or gives up its handle for s.
Accounted(s, R, Z, h) ==
    \A p \in Slots : ChildOf(s, p) =>
        \/ p \in R \cup Z
        \/ waiting[p].child = KeyOf(s)
        \/ p \notin R /\ \E i \in EntriesFor(p, s) : h[p][i].collected

ABirth ==
    \E s \in Slots, size \in StackSizes, ok \in BOOLEAN, par \in ProcessKey \cup {NoKey} :
        /\ prepare_process(s, size, ok, par)
        /\ \/ handles' = handles
           \/ \E p \in Slots, h \in HandleSlots :
                NextHandle(p, h) /\ handles' = install_lifecycle(p, h, KeyOf(s))

ADeath ==
    \E R, Z \in SUBSET Slots, h \in [Slots -> [HandleSlots -> LifecycleEntry]],
       w \in [Slots -> WaitState] :
        /\ Reclaim(R, Z, h, w) /\ (\A s \in R \cup Z : Live(s)) /\ Kept(h)
        /\ \A s \in R : Accounted(s, R, Z, h)

\* Ending the running process p is a death of its descendants, all accounted for.
LEMMA FinishIsDeath ==
  ASSUME LifeInv, NEW p \in Slots, pstate[p] = "Running", finish_process(p)
  PROVE  ADeath
<1>1. /\ handles \in [Slots -> [HandleSlots -> LifecycleEntry]]
      /\ waiting \in [Slots -> WaitState]
      /\ Orphans(p) \in SUBSET Slots /\ {p} \in SUBSET Slots
      /\ \A s \in Orphans(p) \cup {p} : Live(s)
  BY OrphansLive DEF LifeInv, TypeInv, TypeOK, Live, Orphans
<1>2. \A s \in Orphans(p) : Accounted(s, Orphans(p), {p}, handles)
  BY <1>1, OrphansHaveParents, OneParent DEF Accounted
<1>3. Kept(handles)
  BY DEF Kept
<1> QED
  BY Zenon, <1>1, <1>2, <1>3 DEF ADeath, finish_process

\* Every step is a birth, a death or leaves processes and handles alone.
LEMMA StepShape ==
  ASSUME LifeInv, [Next]_vars
  PROVE  ABirth \/ ADeath \/ UNCHANGED <<pstate, gen, parent, handles>>
<1>t. /\ TypeOK /\ handles \in [Slots -> [HandleSlots -> LifecycleEntry]]
      /\ waiting \in [Slots -> WaitState] /\ {} \in SUBSET Slots
  BY DEF LifeInv, TypeInv, TypeOK
<1>1. ASSUME NEW s \in Slots, NEW size \in StackSizes, NEW ok \in BOOLEAN,
             boot(s, size, ok)
      PROVE  ABirth
  BY <1>1 DEF boot, ABirth
<1>2. ASSUME NEW s \in Slots, NEW size \in StackSizes, NEW ok \in BOOLEAN,
             NEW p \in Slots, handle_exec(p, s, size, ok)
      PROVE  ABirth
  BY <1>2, <1>t, KeyIsKey DEF handle_exec, ABirth
<1>3. ASSUME NEW s \in Slots, NEW size \in StackSizes, NEW ok \in BOOLEAN,
             NEW p \in Slots, NEW h \in HandleSlots, handle_spawn(p, s, size, ok, h)
      PROVE  ABirth
  BY <1>3, <1>t, KeyIsKey DEF handle_spawn, ABirth
<1>4. ASSUME NEW p \in Slots, Exit(p) \/ HostFinish(p) PROVE ADeath
  BY <1>4, FinishIsDeath DEF Exit, HostFinish, is_schedulable
<1>5. ASSUME NEW p \in Slots, HostReclaim(p) PROVE ADeath
  <2>1. Reclaim({p}, {}, handles, waiting) /\ Live(p) /\ {p} \in SUBSET Slots
        /\ parent[p] = NoKey
    BY <1>5 DEF HostReclaim, Live
  <2>2. \A s \in {p} : Accounted(s, {p}, {}, handles)
    BY <1>t, <2>1, KeyIsKey DEF Accounted, ChildOf
  <2>3. Kept(handles) /\ \A s \in {p} \cup {} : Live(s)
    BY <2>1 DEF Kept
  <2> QED
    BY <1>t, <2>1, <2>2, <2>3 DEF ADeath
<1>6. ASSUME NEW p \in Slots, NEW i \in HandleSlots, NEW c \in Slots, is_schedulable(p),
             ~handles[p][i].collected, WaitCollects(p, i, c)
      PROVE  ADeath
  <2> DEFINE h == Collect(p, i)
             e == [handles[p][i] EXCEPT !.collected = TRUE]
  <2>1. handles[p][i] \in LifecycleEntry
    BY <1>t
  <2>2. /\ e \in LifecycleEntry /\ e.child = handles[p][i].child
        /\ e.gen = handles[p][i].gen /\ e.collected
    BY Zenon, <2>1 DEF LifecycleEntry
  <2>3. h = [handles EXCEPT ![p] = [handles[p] EXCEPT ![i] = e]]
    BY <1>t DEF Collect
  <2> HIDE DEF e
  <2>4. h \in [Slots -> [HandleSlots -> LifecycleEntry]]
    BY <1>t, <2>2, <2>3
  <2>5. \A q \in Slots, j \in HandleSlots :
           h[q][j] = IF q = p /\ j = i THEN e ELSE handles[q][j]
    BY <1>t, <2>3
  <2>6. Kept(h) /\ h[p][i].collected
    BY <2>2, <2>5 DEF Kept
  <2>7. /\ Reclaim({c}, {}, h, waiting) /\ Live(c) /\ {c} \in SUBSET Slots
        /\ handles[p][i].child = KeyOf(c) /\ p # c /\ pstate[p] = "Running"
    BY <1>6 DEF WaitCollects, Names, is_schedulable
  <2>8. ChildOf(c, p) /\ i \in EntriesFor(p, c)
    BY <1>6, <2>7, NamedAreChildren DEF EntriesFor
  <2>9. \A s \in {c} : Accounted(s, {c}, {}, h)
    BY <2>6, <2>7, <2>8, OneParent DEF Accounted
  <2>10. \A s \in {c} \cup {} : Live(s)
    BY <2>7
  <2> HIDE DEF h
  <2> QED
    BY <1>t, <2>4, <2>6, <2>7, <2>9, <2>10 DEF ADeath
<1>7. ASSUME NEW p \in Slots, NEW h \in HandleSlots, NEW g \in 0 .. MaxHandleGen,
             handle_wait(p, h, g)
      PROVE  ADeath \/ UNCHANGED <<pstate, gen, parent, handles>>
  <2> PICK c \in Slots : WaitCollects(p, h, c) \/ WaitBlocks(p, h, c)
    BY <1>7 DEF handle_wait
  <2> QED
    BY <1>6, <1>7 DEF handle_wait, resolve_lifecycle, WaitBlocks
<1>8. ASSUME wake_waiters PROVE ADeath
  <2> DEFINE h == WakeHandles(Woke)
             w == Reset(waiting, Woke, NoWait)
  <2>1. /\ h \in [Slots -> [HandleSlots -> LifecycleEntry]]
        /\ Awaited \in SUBSET Slots /\ Woke \in SUBSET Slots
        /\ \A s \in Awaited \cup {} : Live(s)
    BY <1>t, WakeHandlesType DEF Woke, Awaited, Woken, Wakeable, Live
  <2>2. w \in [Slots -> WaitState]
    BY <1>t DEF Reset, NoWait, WaitState
  <2>3. Reclaim(Awaited, {}, h, w)
    BY <1>8, WakeStep
  <2>4. Kept(h)
    <3> SUFFICES ASSUME NEW q \in Slots, NEW i \in HandleSlots
                 PROVE  /\ h[q][i].gen = handles[q][i].gen
                        /\ h[q][i].child = handles[q][i].child
                        /\ handles[q][i].collected => h[q][i].collected
      BY DEF Kept
    <3>1. handles[q][i] \in LifecycleEntry
      BY <1>t
    <3>2. h[q][i] = [handles[q][i] EXCEPT !.collected =
                       @ \/ (q \in Woke /\ waiting[q].handle = i)]
      BY DEF WakeHandles
    <3> QED
      BY <3>1, <3>2 DEF LifecycleEntry
  <2>5. \A s \in Awaited : Accounted(s, Awaited, {}, h)
    <3> SUFFICES ASSUME NEW s \in Awaited, NEW p \in Slots, ChildOf(s, p)
                 PROVE  waiting[p].child = KeyOf(s)
      BY DEF Accounted
    <3> PICK v \in Slots : Wakeable(v, s)
      BY DEF Awaited, Woken
    <3>1. ChildOf(s, v)
      BY <2>1, WaiterIsParent
    <3> QED
      BY <2>1, <3>1, OneParent DEF Wakeable
  <2> HIDE DEF h, w
  <2> QED
    BY <1>t, <2>1, <2>2, <2>3, <2>4, <2>5 DEF ADeath
<1>9. ASSUME UNCHANGED vars PROVE UNCHANGED <<pstate, gen, parent, handles>>
  BY <1>9 DEF vars
<1> QED
  BY <1>1, <1>2, <1>3, <1>4, <1>5, <1>7, <1>8, <1>9 DEF Next

\* What a death does to each slot.
LEMMA DeathFacts ==
  ASSUME LifeInv, NEW R \in SUBSET Slots, NEW Z \in SUBSET Slots,
         NEW h \in [Slots -> [HandleSlots -> LifecycleEntry]],
         NEW w \in [Slots -> WaitState], Reclaim(R, Z, h, w), \A s \in R \cup Z : Live(s)
  PROVE  \A s \in Slots :
           /\ s \in R => ~Live(s)' /\ (gen'[s] > gen[s] \/ pstate'[s] = "Retired")
           /\ s \notin R => handles'[s] = h[s]
           /\ s \notin R => pstate'[s] = (IF s \in Z THEN "Zombie" ELSE pstate[s])
           /\ gen'[s] >= gen[s]
<1>1. \A s \in Slots : gen[s] \in 0 .. MaxGen
  BY DEF LifeInv, TypeInv, TypeOK
<1> QED
  BY <1>1, SizesAssumption DEF Reclaim, Reset, Advance, Vacated, Live

\* A birth takes a Free slot and leaves the generations and the other slots alone.
LEMMA BirthFacts ==
  ASSUME LifeInv, NEW s \in Slots, NEW size, NEW ok \in BOOLEAN, NEW par,
         prepare_process(s, size, ok, par)
  PROVE  /\ gen' = gen /\ pstate[s] = "Free" /\ Live(s)'
         /\ \A x \in Slots : x # s => pstate'[x] = pstate[x]
  BY DEF LifeInv, TypeInv, TypeOK, prepare_process, NextSlot, Live

\* The key of a dead process never names a live process again: reclaim_process
\* advances the generation by checked_add or retires the slot.
THEOREM KeysNeverReusedHolds == Spec => KeysNeverReused
<1>1. LifeInv /\ [Next]_vars =>
        [\A s \in Slots :
           /\ gen'[s] >= gen[s]
           /\ Live(s) /\ ~Live(s)' => gen'[s] > gen[s] \/ pstate'[s] = "Retired"
           /\ pstate[s] = "Retired" => pstate'[s] = "Retired"]_vars
  <2> SUFFICES ASSUME LifeInv, [Next]_vars, NEW s \in Slots
               PROVE  /\ gen'[s] >= gen[s]
                      /\ Live(s) /\ ~Live(s)' => gen'[s] > gen[s] \/ pstate'[s] = "Retired"
                      /\ pstate[s] = "Retired" => pstate'[s] = "Retired"
    OBVIOUS
  <2>g. gen[s] \in Int
    BY DEF LifeInv, TypeInv, TypeOK
  <2>1. CASE ABirth
    <3> PICK x \in Slots, size \in StackSizes, ok \in BOOLEAN,
             par \in ProcessKey \cup {NoKey} : prepare_process(x, size, ok, par)
      BY <2>1 DEF ABirth
    <3>1. /\ gen' = gen /\ pstate[x] = "Free" /\ Live(x)'
          /\ \A y \in Slots : y # x => pstate'[y] = pstate[y]
      BY BirthFacts
    <3> QED
      BY <2>g, <3>1 DEF Live
  <2>2. CASE ADeath
    <3> PICK R \in SUBSET Slots, Z \in SUBSET Slots,
             h \in [Slots -> [HandleSlots -> LifecycleEntry]], w \in [Slots -> WaitState] :
               Reclaim(R, Z, h, w) /\ \A x \in R \cup Z : Live(x)
      BY <2>2 DEF ADeath
    <3>1. /\ s \in R => ~Live(s)' /\ (gen'[s] > gen[s] \/ pstate'[s] = "Retired")
          /\ s \notin R => pstate'[s] = (IF s \in Z THEN "Zombie" ELSE pstate[s])
          /\ gen'[s] >= gen[s]
      BY Zenon, DeathFacts
    <3> QED
      BY <3>1 DEF Live
  <2>3. CASE UNCHANGED <<pstate, gen, parent, handles>>
    BY <2>3, <2>g DEF Live
  <2> QED
    BY <2>1, <2>2, <2>3, StepShape
<1> QED
  BY <1>1, LifeInvariant, PTL DEF Spec, KeysNeverReused

\* A child's result is kept until its parent takes it or dies.
THEOREM ZombiesKeptHolds == Spec => ZombiesKeptForParent
<1>1. LifeInv /\ [Next]_vars =>
        [\A s, p \in Slots : pstate[s] = "Zombie" /\ ChildOf(s, p) /\ ~Live(s)' =>
           \/ pstate'[p] # "Running"
           \/ waiting[p].child = KeyOf(s)
           \/ \E h \in EntriesFor(p, s) : handles'[p][h].collected]_vars
  <2> SUFFICES ASSUME LifeInv, [Next]_vars, NEW s \in Slots, NEW p \in Slots,
                      pstate[s] = "Zombie", ChildOf(s, p), ~Live(s)'
               PROVE  \/ pstate'[p] # "Running"
                      \/ waiting[p].child = KeyOf(s)
                      \/ \E h \in EntriesFor(p, s) : handles'[p][h].collected
    OBVIOUS
  <2>1. CASE ABirth
    <3> PICK x \in Slots, size \in StackSizes, ok \in BOOLEAN,
             par \in ProcessKey \cup {NoKey} : prepare_process(x, size, ok, par)
      BY <2>1 DEF ABirth
    <3> QED
      BY BirthFacts DEF Live
  <2>2. CASE ADeath
    <3> PICK R \in SUBSET Slots, Z \in SUBSET Slots,
             h \in [Slots -> [HandleSlots -> LifecycleEntry]], w \in [Slots -> WaitState] :
               /\ Reclaim(R, Z, h, w) /\ \A x \in R \cup Z : Live(x)
               /\ \A x \in R : Accounted(x, R, Z, h)
      BY <2>2 DEF ADeath
    <3>1. \A x \in Slots :
            /\ x \in R => ~Live(x)'
            /\ x \notin R => handles'[x] = h[x]
            /\ x \notin R => pstate'[x] = (IF x \in Z THEN "Zombie" ELSE pstate[x])
      BY DeathFacts
    <3>2. s \in R
      BY <3>1 DEF Live
    <3>3. \/ p \in R \cup Z
          \/ waiting[p].child = KeyOf(s)
          \/ p \notin R /\ \E i \in EntriesFor(p, s) : h[p][i].collected
      BY Zenon, <3>2 DEF Accounted
    <3> QED
      BY <3>1, <3>3 DEF Live
  <2>3. CASE UNCHANGED <<pstate, gen, parent, handles>>
    BY <2>3 DEF Live
  <2> QED
    BY <2>1, <2>2, <2>3, StepShape
<1> QED
  BY <1>1, LifeInvariant, PTL DEF Spec, ZombiesKeptForParent

\* What a lifecycle handle means never changes while its owner runs.
THEOREM HandleMeaningHolds == Spec => HandleMeaningFixed
<1>1. LifeInv /\ [Next]_vars =>
        [\A p \in Slots, h \in HandleSlots :
           pstate[p] = "Running" /\ pstate'[p] = "Running" =>
              \/ handles'[p][h].gen > handles[p][h].gen
              \/ /\ handles'[p][h].gen = handles[p][h].gen
                 /\ handles'[p][h].child = handles[p][h].child
                 /\ handles[p][h].collected => handles'[p][h].collected]_vars
  <2> SUFFICES ASSUME LifeInv, [Next]_vars, NEW p \in Slots, NEW h \in HandleSlots,
                      pstate'[p] = "Running"
               PROVE  \/ handles'[p][h].gen > handles[p][h].gen
                      \/ /\ handles'[p][h].gen = handles[p][h].gen
                         /\ handles'[p][h].child = handles[p][h].child
                         /\ handles[p][h].collected => handles'[p][h].collected
    OBVIOUS
  <2>t. /\ handles \in [Slots -> [HandleSlots -> LifecycleEntry]]
        /\ handles[p][h].gen \in Int
    BY DEF LifeInv, TypeInv, TypeOK, LifecycleEntry
  <2>1. CASE ABirth
    <3>1. CASE handles' = handles
      BY <3>1
    <3>2. ASSUME NEW q \in Slots, NEW i \in HandleSlots, NEW k,
                 handles' = install_lifecycle(q, i, k)
          PROVE  \/ handles'[p][h].gen > handles[p][h].gen
                 \/ handles'[p][h] = handles[p][h]
      <4>1. handles' = [handles EXCEPT ![q] = [@ EXCEPT ![i] =
               [gen |-> handles[q][i].gen + 1, child |-> k, collected |-> FALSE]]]
        BY <2>t, <3>2 DEF install_lifecycle
      <4> QED
        BY <2>t, <4>1
    <3> QED
      BY Zenon, <2>1, <3>1, <3>2 DEF ABirth
  <2>2. CASE ADeath
    <3> PICK R \in SUBSET Slots, Z \in SUBSET Slots,
             t \in [Slots -> [HandleSlots -> LifecycleEntry]], w \in [Slots -> WaitState] :
               Reclaim(R, Z, t, w) /\ (\A x \in R \cup Z : Live(x)) /\ Kept(t)
      BY <2>2 DEF ADeath
    <3>1. /\ p \in R => ~Live(p)'
          /\ p \notin R => handles'[p] = t[p]
      <4>1. Reclaim(R, Z, t, w) /\ \A x \in R \cup Z : Live(x)
        BY Zenon
      <4>2. \A x \in Slots :
              /\ x \in R => ~Live(x)' /\ (gen'[x] > gen[x] \/ pstate'[x] = "Retired")
              /\ x \notin R => handles'[x] = t[x]
              /\ x \notin R => pstate'[x] = (IF x \in Z THEN "Zombie" ELSE pstate[x])
              /\ gen'[x] >= gen[x]
        BY <4>1, DeathFacts, Zenon
      <4> QED
        BY <4>2, Zenon
    <3>2. handles'[p] = t[p]
      BY <3>1 DEF Live
    <3> QED
      BY <3>2 DEF Kept
  <2>3. CASE UNCHANGED <<pstate, gen, parent, handles>>
    BY <2>3
  <2> QED
    BY <2>1, <2>2, <2>3, StepShape
<1> QED
  BY <1>1, LifeInvariant, PTL DEF Spec, HandleMeaningFixed
=============================================================================
