----------------------------- MODULE Processes ------------------------------
(***************************************************************************)
(* The process table of the Anka64 kernel (src/anka64/os.rs): boot,        *)
(* SYS_EXEC, SYS_SPAWN, SYS_WAIT, exit and fault, the termination of       *)
(* orphans, the recycling of slots, lifecycle handles and stack and trap   *)
(* extents.                                                                *)
(*                                                                         *)
(* A process runs until its quantum ends, which every system call does;    *)
(* the scheduler then calls wake_waiters before it runs another process.   *)
(* The variable phase follows that alternation.                            *)
(*                                                                         *)
(* A slot that was never used is Free with generation 0: spawn appends to  *)
(* the table exactly when no earlier slot is Free, and an appended slot    *)
(* starts with generation 0.  Likewise a lifecycle entry that was never    *)
(* used is collected with generation -1, so that appending one and reusing *)
(* a collected one are the same step.                                      *)
(***************************************************************************)
EXTENDS Integers, FiniteSets, Bags

CONSTANTS
    NumSlots,        \* bound on the length of the process table
    MaxGen,          \* u32::MAX, for process generations
    NumHandles,      \* bound on the length of a lifecycle table
    MaxHandleGen,    \* u32::MAX, for lifecycle generations
    StackSizes,      \* the stack sizes callers ask for
    TrapSize

ASSUME SizesAssumption ==
    /\ NumSlots \in Nat \ {0}
    /\ NumHandles \in Nat
    /\ MaxGen \in Nat
    /\ MaxHandleGen \in Nat
    /\ StackSizes \subseteq Nat \ {0}
    /\ TrapSize \in Nat \ {0}

VARIABLES
    phase,         \* "run": between quanta; "wake": wake_waiters is next
    booted,
    pstate,        \* processes[s].state
    gen,           \* processes[s].generation
    parent,        \* processes[s].parent
    waiting,       \* processes[s].waiting_on
    handles,       \* lifecycle_tables[s]
    stack,         \* processes[s].resources.stack_extent
    trap,          \* processes[s].resources.trap_extent
    freeStacks,    \* free_stack_extents, as a bag
    freeTraps,     \* free_trap_extents, as a bag
    nextPhys       \* next_phys

extentVars == <<stack, trap, freeStacks, freeTraps, nextPhys>>
vars == <<phase, booted, pstate, gen, parent, waiting, handles, extentVars>>

Slots == 0 .. (NumSlots - 1)
HandleSlots == 0 .. (NumHandles - 1)
ProcessKey == Slots \X (0 .. MaxGen)
NoKey == <<-1, -1>>
NoWait == [child |-> NoKey, kind |-> "None", handle |-> -1]

LifecycleEntry ==
    [gen : (0 .. MaxHandleGen) \cup {-1}, child : ProcessKey \cup {NoKey},
     collected : BOOLEAN]

WaitState ==
    [child : ProcessKey \cup {NoKey}, kind : {"None", "Exec", "Lifecycle"},
     handle : HandleSlots \cup {-1}]

EmptyEntry == [gen |-> -1, child |-> NoKey, collected |-> TRUE]

Extent == [base : Nat, size : Nat \ {0}]
NoExtent == [base |-> -1, size |-> 0]

KeyOf(s) == <<s, gen[s]>>
Live(s) == pstate[s] \in {"Running", "Zombie"}

\* The live process s is the incarnation k names (validate_process_key).
Names(k, s) == Live(s) /\ KeyOf(s) = k

is_schedulable(s) == pstate[s] = "Running" /\ waiting[s] = NoWait

-----------------------------------------------------------------------------
(* Death *)

\* s is a live process whose parent is the incarnation now in slot p.
ChildOf(s, p) == Live(s) /\ parent[s] = KeyOf(p)

OrphansOneLevel(p) == {s \in Slots : ChildOf(s, p)}

\* The live descendants of p, which terminate_orphans finds depth first: the
\* least set that holds p's children and the children of its members.
Orphans(p) ==
    {s \in Slots :
        \A D \in SUBSET Slots :
            (\A c \in Slots : (\E d \in D \cup {p} : ChildOf(c, d)) => c \in D)
                => s \in D}

\* f with the value v for the slots of R
Reset(f, R, v) == [s \in Slots |-> IF s \in R THEN v ELSE f[s]]

AdvanceWrapping(R) ==
    [s \in Slots |-> IF s \in R THEN (gen[s] + 1) % (MaxGen + 1) ELSE gen[s]]

AdvanceUnchecked(R) == [s \in Slots |-> IF s \in R THEN gen[s] + 1 ELSE gen[s]]

\* checked_add(1) on the generations of the slots of R
Advance(R) == [s \in Slots |-> IF s \in R /\ gen[s] < MaxGen THEN gen[s] + 1 ELSE gen[s]]

\* The bag of what the slots of R hold in f
Held(f, R) == [e \in {f[s] : s \in R} |-> Cardinality({s \in R : f[s] = e})]

\* Each stack extent is pushed twice.
ReturnTwice(R) ==
    /\ freeStacks' = freeStacks (+) Held(stack, R) (+) Held(stack, R)
    /\ freeTraps' = freeTraps (+) Held(trap, R)
    /\ stack' = Reset(stack, R, NoExtent)
    /\ trap' = Reset(trap, R, NoExtent)
    /\ UNCHANGED nextPhys

\* The processes of R push what they own onto the pools.
ReturnResources(R) ==
    /\ freeStacks' = freeStacks (+) Held(stack, R)
    /\ freeTraps' = freeTraps (+) Held(trap, R)
    /\ stack' = Reset(stack, R, NoExtent)
    /\ trap' = Reset(trap, R, NoExtent)
    /\ UNCHANGED nextPhys

Vacated(s) == IF gen[s] < MaxGen THEN "Free" ELSE "Retired"

\* reclaim_process for every process of R; the processes of Z become zombies.
\* The handles of the others are those of h, their waits those of w.
Reclaim(R, Z, h, w) ==
    /\ pstate' = [s \in Slots |-> IF s \in R THEN Vacated(s)
                                  ELSE IF s \in Z THEN "Zombie" ELSE pstate[s]]
    /\ gen' = Advance(R)
    /\ parent' = Reset(parent, R, NoKey)
    /\ waiting' = Reset(w, R, NoWait)
    /\ handles' = Reset(h, R, [i \in HandleSlots |-> EmptyEntry])
    /\ ReturnResources(R)

finish_process(p) == Reclaim(Orphans(p), {p}, handles, waiting)

\* SYS_EXIT, a fault or a halt outside the trap gate ends the running process.
Exit(p) ==
    /\ phase = "run"
    /\ is_schedulable(p)
    /\ finish_process(p)
    /\ phase' = "wake"
    /\ UNCHANGED booted

\* The host ends a run: the boot process dies, blocked or not ...
HostFinish(p) ==
    /\ phase = "run"
    /\ pstate[p] = "Running" /\ parent[p] = NoKey
    /\ finish_process(p)
    /\ UNCHANGED <<phase, booted>>

\* ... and is reclaimed.
HostReclaim(p) ==
    /\ phase = "run"
    /\ pstate[p] = "Zombie" /\ parent[p] = NoKey
    /\ Reclaim({p}, {}, handles, waiting)
    /\ UNCHANGED <<phase, booted>>

-----------------------------------------------------------------------------
(* Birth *)

\* spawn takes the first Free slot, and appends one only if there is none.
NextSlot(s) == pstate[s] = "Free" /\ \A t \in 0 .. (s - 1) : pstate[t] # "Free"

\* alloc_stack_extent: a recycled extent of exactly this size, else a new one
StackExtents(size) ==
    LET recycled == {e \in BagToSet(freeStacks) : e.size = size}
    IN IF recycled # {} THEN recycled ELSE {[base |-> nextPhys, size |-> size]}

\* next_phys once e has been taken
PhysAfter(e) == IF BagIn(e, freeStacks) THEN nextPhys ELSE nextPhys + e.size

\* alloc_trap_extent
TrapExtents(base) ==
    IF freeTraps # EmptyBag THEN BagToSet(freeTraps) ELSE {[base |-> base, size |-> TrapSize]}

\* prepare_process and the assignment of the parent that follows it.  A protected
\* image that does not validate leaves a child that is already a zombie.
prepare_process(s, size, ok, par) ==
    /\ NextSlot(s)
    /\ pstate' = [pstate EXCEPT ![s] = IF ok THEN "Running" ELSE "Zombie"]
    /\ parent' = [parent EXCEPT ![s] = par]
    /\ \E e \in StackExtents(size) : \E t \in TrapExtents(PhysAfter(e)) :
         /\ stack' = [stack EXCEPT ![s] = e]
         /\ trap' = [trap EXCEPT ![s] = t]
         /\ freeStacks' = freeStacks (-) SetToBag({e})
         /\ freeTraps' = freeTraps (-) SetToBag({t})
         /\ nextPhys' = IF BagIn(t, freeTraps) THEN PhysAfter(e)
                                              ELSE PhysAfter(e) + TrapSize
    /\ UNCHANGED gen

boot(s, size, ok) ==
    /\ phase = "run"
    /\ ~booted
    /\ booted' = TRUE
    /\ prepare_process(s, size, ok, NoKey)
    /\ UNCHANGED <<phase, waiting, handles>>

handle_exec(p, s, size, ok) ==
    /\ phase = "run"
    /\ is_schedulable(p)
    /\ prepare_process(s, size, ok, KeyOf(p))
    /\ waiting' = [waiting EXCEPT ![p] =
                     [child |-> KeyOf(s), kind |-> "Exec", handle |-> -1]]
    /\ phase' = "wake"
    /\ UNCHANGED <<booted, handles>>

InstallableInUse(p, h) == handles[p][h].gen < MaxHandleGen

\* install_lifecycle takes the first collected entry it can still advance.
Installable(p, h) == handles[p][h].collected /\ handles[p][h].gen < MaxHandleGen

NextHandle(p, h) == Installable(p, h) /\ \A i \in 0 .. (h - 1) : ~Installable(p, i)

InstallOver(p, h, child) ==
    [handles EXCEPT ![p][h] = [gen |-> @.gen, child |-> child, collected |-> FALSE]]

install_lifecycle(p, h, child) ==
    [handles EXCEPT ![p][h] = [gen |-> @.gen + 1, child |-> child, collected |-> FALSE]]

handle_spawn(p, s, size, ok, h) ==
    /\ phase = "run"
    /\ is_schedulable(p)
    /\ prepare_process(s, size, ok, KeyOf(p))
    /\ NextHandle(p, h)
    /\ handles' = install_lifecycle(p, h, KeyOf(s))
    /\ phase' = "wake"
    /\ UNCHANGED <<booted, waiting>>

-----------------------------------------------------------------------------
(* Waiting *)

\* The handle (h, g) of p resolves.
resolve_lifecycle(p, h, g) == handles[p][h].gen = g /\ ~handles[p][h].collected

CollectNothing(p, h) == handles

Collect(p, h) == [handles EXCEPT ![p][h].collected = TRUE]

\* The child is a zombie: its result is read, the handle consumed, the child
\* reclaimed and the caller goes on.
WaitCollects(p, h, c) ==
    /\ Names(handles[p][h].child, c)
    /\ pstate[c] = "Zombie"
    /\ Reclaim({c}, {}, Collect(p, h), waiting)

\* The child is running: the caller blocks.
WaitBlocks(p, h, c) ==
    /\ Names(handles[p][h].child, c)
    /\ pstate[c] = "Running"
    /\ waiting' = [waiting EXCEPT ![p] =
                     [child |-> handles[p][h].child, kind |-> "Lifecycle", handle |-> h]]
    /\ UNCHANGED <<pstate, gen, parent, handles, extentVars>>

\* A handle that does not resolve, or whose child is not current, is an error
\* result and changes nothing.
handle_wait(p, h, g) ==
    /\ phase = "run"
    /\ is_schedulable(p)
    /\ resolve_lifecycle(p, h, g)
    /\ \E c \in Slots : WaitCollects(p, h, c) \/ WaitBlocks(p, h, c)
    /\ phase' = "wake"
    /\ UNCHANGED booted

WakeableByAnyZombie(w, c) == pstate[c] = "Zombie" /\ waiting[w] # NoWait

WakeableFromWaitOnly(w, c) ==
    pstate[c] = "Zombie" /\ waiting[w].child = KeyOf(c) /\ waiting[w].kind = "Lifecycle"

\* w waits for the zombie c.
Wakeable(w, c) == pstate[c] = "Zombie" /\ waiting[w].child = KeyOf(c)

\* Looks for the waiter only behind the child's slot.
WokenBehind(w, c) == c < w /\ Wakeable(w, c) /\ \A v \in 0 .. (w - 1) : ~Wakeable(v, c)

\* The first process that waits for the zombie c.
Woken(w, c) == Wakeable(w, c) /\ \A v \in 0 .. (w - 1) : ~Wakeable(v, c)

\* Every zombie somebody waits for is reclaimed and its first waiter resumed.
wake_waiters ==
    LET woken == {w \in Slots : \E c \in Slots : Woken(w, c)}
        awaited == {c \in Slots : \E w \in Slots : Woken(w, c)}
        h == [w \in Slots |-> [i \in HandleSlots |->
                [handles[w][i] EXCEPT !.collected =
                    @ \/ (w \in woken /\ waiting[w].handle = i)]]]
    IN /\ phase = "wake"
       /\ Reclaim(awaited, {}, h, Reset(waiting, woken, NoWait))
       /\ phase' = "run"
       /\ UNCHANGED booted

-----------------------------------------------------------------------------
Init ==
    /\ phase = "run"
    /\ booted = FALSE
    /\ pstate = [s \in Slots |-> "Free"]
    /\ gen = [s \in Slots |-> 0]
    /\ parent = [s \in Slots |-> NoKey]
    /\ waiting = [s \in Slots |-> NoWait]
    /\ handles = [s \in Slots |-> [i \in HandleSlots |-> EmptyEntry]]
    /\ stack = [s \in Slots |-> NoExtent]
    /\ trap = [s \in Slots |-> NoExtent]
    /\ freeStacks = EmptyBag
    /\ freeTraps = EmptyBag
    /\ nextPhys = 0

Next ==
    \/ \E s \in Slots, size \in StackSizes, ok \in BOOLEAN :
         \/ boot(s, size, ok)
         \/ \E p \in Slots : handle_exec(p, s, size, ok)
         \/ \E p \in Slots, h \in HandleSlots : handle_spawn(p, s, size, ok, h)
    \/ \E p \in Slots :
         \/ Exit(p)
         \/ HostFinish(p)
         \/ HostReclaim(p)
         \/ \E h \in HandleSlots, g \in 0 .. MaxHandleGen : handle_wait(p, h, g)
    \/ wake_waiters

Spec == Init /\ [][Next]_vars

-----------------------------------------------------------------------------
TypeOK ==
    /\ phase \in {"run", "wake"}
    /\ booted \in BOOLEAN
    /\ pstate \in [Slots -> {"Free", "Running", "Zombie", "Retired"}]
    /\ gen \in [Slots -> 0 .. MaxGen]
    /\ parent \in [Slots -> ProcessKey \cup {NoKey}]
    /\ waiting \in [Slots -> WaitState]
    /\ handles \in [Slots -> [HandleSlots -> LifecycleEntry]]
    /\ stack \in [Slots -> Extent \cup {NoExtent}]
    /\ trap \in [Slots -> Extent \cup {NoExtent}]
    /\ IsABag(freeStacks) /\ BagToSet(freeStacks) \subseteq Extent
    /\ IsABag(freeTraps) /\ BagToSet(freeTraps) \subseteq Extent
    /\ nextPhys \in Nat

\* terminate_orphans leaves no survivor: the parent of every live process is
\* the exact incarnation that made it, and that incarnation is running.
NoOrphans ==
    \A s \in Slots : Live(s) /\ parent[s] # NoKey =>
        \E p \in Slots : pstate[p] = "Running" /\ parent[s] = KeyOf(p)

\* The uncollected entries of p that stand for the live process s.
EntriesFor(p, s) ==
    {h \in HandleSlots : ~handles[p][h].collected /\ handles[p][h].child = KeyOf(s)}

\* No child is ever out of its parent's reach: the parent either sits in SYS_EXEC
\* on it or holds exactly one live lifecycle handle for it, never both.
EveryChildHasOneCollector ==
    \A s, p \in Slots : ChildOf(s, p) =>
        LET inExec == waiting[p].kind = "Exec" /\ waiting[p].child = KeyOf(s)
        IN IF inExec THEN EntriesFor(p, s) = {}
                     ELSE \E h \in HandleSlots : EntriesFor(p, s) = {h}

\* A lifecycle handle that SYS_WAIT accepts names a live child of the caller, so
\* the later validation of its ProcessKey in handle_wait cannot fail.
HandlesNameChildren ==
    \A p \in Slots, h \in HandleSlots :
        pstate[p] = "Running" /\ ~handles[p][h].collected =>
            \E s \in Slots : ChildOf(s, p) /\ handles[p][h].child = KeyOf(s)

\* No lost wakeup: when the scheduler picks the next process, whoever is blocked
\* on a child is blocked on a running child of its own.
WaitersWaitForRunningChildren ==
    phase = "run" =>
        \A p \in Slots : pstate[p] = "Running" /\ waiting[p] # NoWait =>
            \E s \in Slots : /\ pstate[s] = "Running" /\ ChildOf(s, p)
                             /\ waiting[p].child = KeyOf(s)

\* Processes that wait for children never wait in a circle: of any running processes,
\* one can run or waits for a running process outside of them.
WaitsAreWellFounded ==
    phase = "run" =>
        \A D \in SUBSET {s \in Slots : pstate[s] = "Running"} : D # {} =>
            \E p \in D :
                \/ is_schedulable(p)
                \/ \E s \in Slots \ D : pstate[s] = "Running" /\ waiting[p].child = KeyOf(s)

In(a, e) == e.base <= a /\ a < e.base + e.size

\* How many entries of a pool hold address a
Copies(a, pool) == BagCardinality([e \in {f \in BagToSet(pool) : In(a, f)} |-> pool[e]])

\* Stack and trap extents are neither leaked nor shared over any sequence of
\* births and deaths: every address handed out so far belongs to exactly one
\* live process or to exactly one entry of a pool.
ExtentsConserved ==
    \A a \in 0 .. (nextPhys - 1) :
        Cardinality({s \in Slots : In(a, stack[s])})
            + Cardinality({s \in Slots : In(a, trap[s])})
            + Copies(a, freeStacks) + Copies(a, freeTraps) = 1

\* The key of a dead process never names a live one again: generations only grow,
\* reclaim_process moves the slot past the dead one's, or retires it for good.
KeysNeverReused ==
    [][\A s \in Slots :
         /\ gen'[s] >= gen[s]
         /\ Live(s) /\ ~Live(s)' => gen'[s] > gen[s] \/ pstate'[s] = "Retired"
         /\ pstate[s] = "Retired" => pstate'[s] = "Retired"]_vars

\* A child's result is kept until its parent takes it: a zombie with a parent goes
\* away only when the parent was blocked on it, gives up the handle that
\* names it, or dies.
ZombiesKeptForParent ==
    [][\A s, p \in Slots : pstate[s] = "Zombie" /\ ChildOf(s, p) /\ ~Live(s)' =>
         \/ pstate'[p] # "Running"
         \/ waiting[p].child = KeyOf(s)
         \/ \E h \in EntriesFor(p, s) : handles'[p][h].collected]_vars

\* What a handle means never changes while its owner runs: the entry of a given
\* generation always names the same child, and once collected stays collected.
HandleMeaningFixed ==
    [][\A p \in Slots, h \in HandleSlots :
         pstate[p] = "Running" /\ pstate'[p] = "Running" =>
            \/ handles'[p][h].gen > handles[p][h].gen
            \/ /\ handles'[p][h].gen = handles[p][h].gen
               /\ handles'[p][h].child = handles[p][h].child
               /\ handles[p][h].collected => handles'[p][h].collected]_vars
=============================================================================
