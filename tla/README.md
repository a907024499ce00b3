# Anka64: a TLA+ verification of its authority fabric and kernel

Anka64 is a capability machine written in Rust. A *fabric* owns every object, its
place in memory, its generation and the capabilities that domains hold for it.
Every access, by a core or by a device, is a transaction the fabric authorizes,
translates and commits. A small *kernel* runs on top of it: processes, lifecycle
handles, capability transfer, messages, devices and interrupts.

The modules here model those parts, TLC checks them on small instances, and TLAPS
proves their main properties for every value of the constants. `PROJECT.json` maps
every definition to the lines it models.

## The parts of the system

| part | state | operations | how it meets the others |
|---|---|---|---|
| fabric (`fabric.rs`, `state.rs`) | objects, generations, placement, domains and their capabilities, transactions, faults | allocate, place, move, seal, revoke, destroy, roll back, grant, derive, delegate, remove; submit and the three phases | everything that touches memory goes through it |
| process table (`os.rs`) | slots with generation, state, parent, wait; lifecycle tables; stack and trap pools | boot, exec, spawn, wait, exit, finish, reclaim, wake | owns the fabric domains of its processes |
| capability tables (`os.rs`) | per process handles with generations, AuthorityIds | install, drop, seal, SYS_SEND_CAP | one fabric capability per handle |
| messages (`os.rs`) | mailboxes, receive waits | send, receive, exact-peer receive, PeerDied | waits for pair quiescence of the devices |
| block devices (`block.rs`, `os.rs`) | controller slots, DMA in flight, completion, ledgers | submit, tick, consume, SYS_DEV_WAIT | DMA phases interleave with the kernel |
| network device (`nic.rs`, `os.rs`) | rings, attention latch, event epoch | inject, receive, transmit, event wait | raises interrupts |
| core and interrupts (`core.rs`) | pending set, mask, event frame | deliver, return | preempts processes |
| placement manager (`placement.rs`) | free and allocated ranges | allocate, free, reserve | places fabric objects |
| scoped pointers, private heap | frames, cells, cleanup queues, worker leases | open, close, retire, lease, recover | cleanup runs between quanta |
| compiler retry service (`os/compiler_retry`) | attempts, quota, published result | admit, run, publish, consume | runs compilers as processes |
| authority persistence | record file, pending file, poison flag | load, select, reserve boot, recover | must survive a crash at any point |
| guest network stack (`userspace`) | TCP, socket, UDP, ARP tables | segments, timers, socket calls | runs in processes over the NIC |
| compilers, assembler, linker, image formats, 68k interpreter | none shared | translate, decode, interpret | data-path code |

What makes the system hard: capabilities outlive the objects they name; ids,
slots, handles and extents are recycled; generations have a width; a device
transaction takes three phases with arbitrary kernel steps between them; processes
die while others wait for them or while devices work for them; the host can end a
kernel at any time.

## Modules

| module | models | theorems |
|---|---|---|
| `Fabric` | `fabric.rs`: objects, capabilities, transactions | `Fabric_proofs` (types, authority), `Fabric_commits` (the rest) |
| `Processes` | `os.rs`: process table, waits, lifecycle handles, extents | `Processes_steps` (types, deaths), `Processes_calls` (collecting, births, blocking), `Processes_proofs` (the theorems) |
| `DeviceIo` | `os.rs`, `block.rs`: scheduler loop, block I/O, messages, PeerDied | |
| `MCFabric`, `MCProcesses`, `MCDeviceIo` | the constants of the runs | |

### Fabric

`objState`, `objGen`, `objSize` and `placement` are the columns of the fabric's
object table, `domState` says which domains exist, `caps[d]` holds the capabilities
of domain `d`, `tx` is the transaction trace, `faultLog` the objects its fault
records name, and `memory` the physical cells.
There is one action per public operation on these tables. The guard of an action is
the conjunction of the operation's early returns; an operation that returns an error changes
nothing and is no step. A core access runs `submit` and its three phases in one go
in the code; a device transaction does not. The model therefore lets every
transaction be interrupted between phases, which includes the atomic case.

Generations are counters modulo `GenMod` (`nextGen`), because `revoke` and
`seal_object` use `wrapping_add`. `Spec` has every operation. `StaticSpec` leaves out
`move_object`, which nothing but the replay of a recorded trace calls.

Two kinds of domain are told apart: those of processes and those of devices. A
device domain gets its one capability by `delegate_dma_span`.

Not in the module: pointer cells, typed pointer writes, device objects and the
permissions only they use, and the AuthorityId attached to a grant (it names the
entry `remove_by_authority_id` removes, which the model chooses directly). Three
operations write to memory without looking at any object and are left out, so what
the module says of contents is said of everything else. `zero_physical` clears
recycled extents before a process gets them, and the runner's dynamic region once its
processes are gone. `write_physical` and `try_write_physical` load programs at
bootstrap, mostly in tests.

### Processes

One record per slot, spread over `pstate`, `gen`, `parent`, `waiting`, `handles`,
`stack` and `trap`; the pools are `freeStacks`, `freeTraps` and `nextPhys`. Every
system call ends the caller's quantum and the scheduler calls `wake_waiters` before
it picks the next process; `phase` follows this alternation. The host's own calls
(`finish_process` and `reclaim_process` of the boot process, from `dev_runner.rs`)
come between quanta.

`terminate_orphans` walks the tree of descendants and reclaims bottom-up. The
action reclaims `Orphans(p)`, the least set that is closed under children.
`reclaim_process` advances the generation with `checked_add` and retires the slot
when it cannot; `Advance` and `Vacated` do the same.

An unused slot is `Free` at generation 0 and an unused lifecycle entry is collected
at generation -1, so that appending to a table and reusing an entry are one step.

Abstractions: register results, descriptor contents and the validation of spawn
descriptors (a rejected call changes nothing), the zeroing of extents, and the
order of the pools. A pool is a bag, in which an extent that was pushed twice is there
twice; the model takes any entry that fits. The waits for devices,
messages and events are other parts of the same record and belong to `DeviceIo`.
The heap service's workers, which are processes without extents, are
not in the module.

### DeviceIo

The kernel is sequential: `run` goes round its loop, and everything else happens
inside it. `pc`, `cursor`, `fuel` and `ran` say where it is, and the header of the
module lists the places. What interleaves is the order in which instructions of
different processes, device ticks, interrupts and drains follow each other.

* `slots`, `slotGen` and `order` are the controller: its two slots, their
  generations and the queue of completed slots. A slot goes through the phases of
  its fabric transaction one tick at a time, and each phase may fail.
* `ioWait`, `recvWait`, `eventWait`, `pending`, `ready` and `mailbox` are fields of a
  process and its mailbox. An event wait keeps only whether the epoch has moved
  since it began.
* `missed` holds the processes whose programs were last given an epoch that is past
  by now. A program passes that epoch to SYS_DEV_EVENT_WAIT, or 0 at first, and the
  call blocks (`EventWait`) or returns the current one at once (`EventSeen`).
  Programs that pass made-up epochs are not modelled: what they miss is their own
  doing.
* `lent` holds the DelegationIds of buffers a process was sent with SYS_SEND_CAP, as
  pairs of client and driver. `told` records every PeerDied result; the code has no
  such variable, the properties need it.
* `irq` holds the pending bits of the cores and `table` the slots there were when the
  round began, since the scan does not see a slot appended during it.

`Resolve`, `DeviceInterrupt` and the drain after an idle tick are the three places
that call `drain_completions` and look at the waits again. The idle tick is followed
at once by the resolve phase of the next round, which drains again, so the model
drains once.

A call that fails changes registers only (`NoEffect`); a send that finds the mailbox
full is an action of its own (`SendFull`), because a property is about it. A child
whose image does not validate is a zombie at birth. Which processes die together
and which zombies are collected is decided in `Processes`; here any may be. Left out:
waits for children, heap cleanup, the bound `max_rounds` (the host calls `run` again),
and the turn that arbitrates between two pending interrupts (either may be
first). `resume_from_trap` is taken to succeed, because nothing touches the event
frame of a blocked process. There is one controller, so a request handle names its
request by itself.

## Runs

| run | shows | bounds | result |
|---|---|---|---|
| `fabric_authority` | W xor X, staleness, confinement, DMA generation | one object, generations of width 1, one transaction | holds, 241 thousand states |
| `fabric_commit` | disjoint placements, commit provenance, sealed contents | two objects, two places | holds, 1.6 million states |
| `fabric_generation` | `g_commit = g_authorized` as the comment on `Transaction` has it | as `fabric_authority` | violated, see Findings |
| `fabric_move` | a commit touches only its own object, with `move_object` | two objects | violated, see Findings |
| `processes` | the seven invariants and three action properties of the process table | three slots, two generations, two handles, two stack sizes | holds, 60 thousand states |
| `device_io` | controller and waits agree, completions reach exactly their requester, the kernel stops only when nothing is left | two processes, two generations, two requests per slot and per ledger | holds, 1 million states |
| `peer_death` | PeerDied is final; a message of an awaited peer ends the wait and is never left in the mailbox; no stop on a client whose peer is gone | a client and a driver that borrows its memory, one request per slot, one message per mailbox, timer | holds, 1.6 million states |
| `device_waits` | waits for requests, events and dead peers end | a client and a driver, one request per slot | holds, 195 thousand states |
| `peer_replaced` | the wait for a dead peer ends also when its slot has a new tenant | three processes, no requests | holds, 52 thousand states |

The bounds are the smallest at which the cases of interest happen. In `Fabric` a
generation wraps after two steps, an id is handed out again after a rollback, and
two objects can compete for one place. In `Processes` three slots hold a
grandchild, a slot is reused once and then retired, an entry of a lifecycle table
is reused once and then exhausted. Four slots with one stack size, and three
generations, were run as well and gave the same answers.

In `DeviceIo` a process slot and a controller slot are both reused, both
controller slots can be completed at once, and a mailbox is full after one entry, a
ledger after one or two. In `device_io` the second process can submit a request, die
and have its slot filled again before the request completes. For `peer_replaced` a
third process is needed: while the client waits, only somebody else can fill the dead
peer's slot. `MCDeviceIo` gives each slot a program, the set of calls it may make in
any order; together the programs make every call. The timer multiplies the states by
five and does nothing but end turns, so one run has it.

`processes` does not check for deadlock because the machine does stop when the boot
process is gone; `WaitsAreWellFounded` says that it stops only then, because of any
running processes one can run or waits for another outside of them. The runs of `DeviceIo` do not either, because `run` returns; `StopIsJustified` says when.

`device_waits` and `peer_replaced` are the runs with fairness: weak fairness of the
whole next-state relation. The kernel is one loop that the host executes without pausing, so some
step is always taken; nothing is assumed about which process gets to do what.

Each property of a passing run is paired in `PROJECT.json` with a mutant, a
plausible bug in one mapped definition, for which TLC finds the property violated.

## Findings

Both are places where a comment promises more than the code does.

* `fabric_generation`: `validate_precommit` authorizes the request again and drops
  the generation it gets back. The comment on `Transaction` says "g_commit =
  g_authorized, or the transaction faults". A domain that is granted a fresh
  capability between the two checks commits at another generation than it was
  authorized at. The commit is covered by current authority all the same. For
  devices the comment does hold, because a device domain never has a second
  capability: `DmaCommitsAtAuthorizedGeneration` is checked and proved.
* `fabric_move`: the physical address of a prepared transaction is not computed
  again at commit, and `move_object` does not look at transactions in flight. A
  commit after a move lands in whatever was placed at the old address, against the
  provenance rule I9 quoted in `place_object`. Without `move_object` the rule is
  checked and proved (`CommitProvenance`).

## Proofs

All theorems hold for every value of the constants that satisfies the assumptions
`BoundsAssumption`, `DomainsAssumption` and `SizesAssumption`: sizes are naturals, a
generation has at least two values in `Fabric`, device and process domains differ.

**Fabric.** `WriteXorExecute` is not inductive: a stale writable capability would
become valid if its object's generation came back. The inductive invariant `AuthInv`
excludes that by tying generation to state. An active object is at generation 0 and
a sealed one at generation 1 (`GenOfState`), ids at or past `nextObject` are unused
(`IdsFresh`), and a capability at generation 0 never has EXECUTE while one at
generation 1 never has WRITE (`CapsMinted`). From it follow W xor X,
`StaleForever` (an object leaves each generation once, and
`rollback_unpublished_object` hands an id out again only if nothing names it) and
`AuthorityConfined`. `LivePlacementsDisjoint` is inductive by itself, given the types,
also with `move_object`. `CommitProvenance` and `SealedImmutable` need
`PreparedInPlace`: the address in a prepared transaction is where its object is.
That conjunct is what `move_object` breaks, so these two are theorems about
`StaticSpec`. `DmaInv` says that a device domain has one capability at most and that
it is the one its transactions were authorized by. `submit` looks at neither domain
nor object, so a request may name either before it exists; the invariants speak of
transactions that have passed `phase_authorize` (`Underway`).

**Processes.** `LifeInv` collects what makes the properties inductive:

* keys kept in waits were issued (`Issued`), so a birth cannot make one current;
* a wait names a child of the waiter (`WaitsAreOwn`), and agrees with the handle it
  came from (`WaitsAgree`): SYS_EXEC's child has no handle, SYS_WAIT's has that one;
* two uncollected handles name two children (`HandlesDistinct`), and every child is
  named by a handle or by an exec wait (`ChildrenCollectable`);
* a vacant slot has neither wait nor handles (`VacantIsClear`), so that its next
  tenant inherits none.

Three lemmas carry the proof: `BirthStep` (boot, exec, spawn), `FinishStep` (exit and
the host's finish) and `GatherStep` (every way to collect zombies). `GatherStep` is
stated once for a set of zombies and their waiters, and SYS_WAIT, `wake_waiters` and
the host's reclaim are instances of it. `StepShape` classifies every step as a birth,
a death or neither, and gives the three action properties.

That the pools stay bags of real extents (`IsPool`) is part of type correctness and
rests on the slots being finitely many.

Only model-checked: `WaitsAreWellFounded`, which needs an induction along a chain of
waiting parents, `ExtentsConserved`, which counts over intervals of addresses, and so
far everything about `DeviceIo`. Its three liveness properties will stay so, since
the prover does not reason about fairness.

## Not modelled

Data-path code stays out: instruction semantics, the compilers, assembler and
linker, image and record formats, command front ends. `PROJECT.json` lists every
part with its reason.

## Plan

In this order, each with its runs, and each written with recursive functions or
folds instead of RECURSIVE so that it can be proved about:

1. `DeviceIo_proofs`: the invariants of `DeviceIo`, from an inductive invariant that
   adds that ready handles are older than their slot's generation, vacant slots are
   clear, and keys held anywhere were issued.
2. `CapTransfer`: capability tables, AuthorityIds, SYS_SEND_CAP with every rollback
   path, SYS_CAP_DROP, SYS_SEAL; refinement of the authority part of `Fabric`.
3. `NicEvents`: receive ring, attention latch, event epoch; no lost wakeup.
4. `AuthorityRecord`: commit of the record file with a crash at every step, the
   request protocol with duplicated and lost requests, against an abstract register.
5. `Placement`: the allocator against the abstract promise of disjoint ranges.
6. Heap cleanup workers and scoped frames; compiler retry and publication.
7. Multicore schedules over `Fabric`; the TCP session of the guest stack; the
   protection monitor of the 68k machine.

Theorems to add: the invariants of 1, 2 and 4 and the refinements of 2 and 4.
