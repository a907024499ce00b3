------------------------------ MODULE DeviceIo ------------------------------
(***************************************************************************)
(* Block I/O, messages and the scheduler loop of the Anka64 kernel         *)
(* (src/anka64/os.rs, src/anka64/block.rs).                                *)
(*                                                                         *)
(* A process submits requests to a controller of two slots and blocks, or  *)
(* goes on and waits for the request later.  The controller advances at    *)
(* every committed instruction of whatever process runs, and at idle       *)
(* ticks.  Completions are drained when a round starts, at a device        *)
(* interrupt and after an idle tick.  A client that waits for a message of *)
(* an exact peer is told PeerDied when that incarnation is gone and no     *)
(* request it made with the client's memory can still write to it.         *)
(*                                                                         *)
(* The kernel is sequential, and pc says where its loop is:                *)
(*   "resolve"  run() starts a round                                       *)
(*   "scan"     run() looks for the next schedulable process               *)
(*   "fetch"    run_process is about to fetch an instruction of cursor     *)
(*   "commit"   the instruction has committed and the devices have ticked  *)
(*   "wake"     wake_waiters is next                                       *)
(*   "stopped"  run() has returned                                         *)
(*                                                                         *)
(* Which processes die with another and which zombies get collected is the *)
(* subject of Processes; here any of them may.                             *)
(***************************************************************************)
EXTENDS Integers, Sequences, FiniteSets

CONSTANTS
    NumProcs,        \* bound on the length of the process table
    MaxGen,          \* u32::MAX, for process generations
    MaxSlotGen,      \* bound on the requests one controller slot serves
    Latency,         \* ticks before a request's DMA starts
    MaxMailbox,      \* MAX_MAILBOX_SIZE
    MaxAsync,        \* MAX_ASYNC_REQUESTS
    Quantum,         \* instructions per turn
    HasTimer,        \* fabric.timer is present
    MayCall          \* the system calls that the program of each slot makes

ASSUME IoAssumption ==
    /\ NumProcs \in Nat \ {0}
    /\ MaxGen \in Nat
    /\ MaxSlotGen \in Nat
    /\ Latency \in Nat
    /\ MaxMailbox \in Nat
    /\ MaxAsync \in Nat
    /\ Quantum \in Nat \ {0}
    /\ HasTimer \in BOOLEAN
    /\ MayCall \in [0 .. (NumProcs - 1) -> SUBSET STRING]

VARIABLES
    pc, cursor, fuel, ran,   \* the scheduler loop
    table,                   \* the slots of the process table when the round began
    irq,                     \* pending interrupts, as <<process, source>>
    pstate, gen,             \* state and generation of a process slot
    ioWait,                  \* io_wait: the awaited request
    recvWait,                \* recv_wait: the awaited peer
    eventWait,               \* event_wait: has the epoch moved past the observed one?
    missed,                  \* processes that were last given an epoch of the past
    pending, ready,          \* async_requests without and with a completion
    mailbox,                 \* senders of the queued messages, oldest first
    lent,                    \* DelegationIds of the buffers a process holds
    told,                    \* PeerDied results given, as <<client, peer>>
    slots, slotGen, order    \* the controller: slots, their generations,
                             \* completion_order

schedVars == <<pc, cursor, fuel, ran, table, irq>>
procVars == <<pstate, gen>>
eventVars == <<eventWait, missed>>
ledgerVars == <<pending, ready>>
messageVars == <<recvWait, mailbox, lent, told>>
deviceVars == <<slots, slotGen, order>>
vars == <<schedVars, procVars, ioWait, eventVars, ledgerVars, messageVars, deviceVars>>

Procs == 0 .. (NumProcs - 1)
ProcessKey == Procs \X (0 .. MaxGen)
NoKey == <<-1, -1>>

DelegationId == ProcessKey \X ProcessKey
NoPair == <<NoKey, NoKey>>

BlockSlots == {0, 1}
RequestHandle == BlockSlots \X (0 .. MaxSlotGen)
NoHandle == <<-1, -1>>

\* DmaReady and a transaction in state Requested last no longer than a tick.
SlotState ==
    [state : {"Free", "Waiting", "Authorized", "Prepared", "Completed"},
     requester : ProcessKey \cup {NoKey},
     pair : DelegationId \cup {NoPair},
     left : Nat]

FreeSlot == [state |-> "Free", requester |-> NoKey, pair |-> NoPair, left |-> 0]

KeyOf(p) == <<p, gen[p]>>
HandleOf(i) == <<i, slotGen[i]>>
Members(seq) == {seq[n] : n \in 1 .. Len(seq)}

is_schedulable(p) ==
    /\ pstate[p] = "Running"
    /\ ioWait[p] = NoHandle
    /\ recvWait[p] = NoKey
    /\ eventWait[p] = "None"

-----------------------------------------------------------------------------
(* The controller *)

Nonterminal(s) == s.state \in {"Waiting", "Authorized", "Prepared"}

AutonomousInFlight == \E i \in BlockSlots : slots[i].state \in {"Authorized", "Prepared"}

has_autonomous_work == \E i \in BlockSlots : Nonterminal(slots[i])

\* nonterminal_pair_request_count(c, d) = 0, but a prepared transaction counts as done
QuietForgetsPrepared(c, d) ==
    \A i \in BlockSlots : slots[i].state \in {"Waiting", "Authorized"} => slots[i].pair # <<c, d>>

\* nonterminal_pair_request_count(c, d) = 0
Quiet(c, d) == \A i \in BlockSlots : Nonterminal(slots[i]) => slots[i].pair # <<c, d>>

\* The slot position(is_free) finds.
FirstFree(i) == slots[i].state = "Free" /\ \A j \in BlockSlots : j < i => slots[j].state # "Free"

\* submit: the request of process p, for a buffer with delegation d, enters slot i.
\* Validation and the DMA delegation may fail; the call then changes nothing.
submit(p, d, i) ==
    /\ FirstFree(i)
    /\ slotGen[i] < MaxSlotGen
    /\ slots' = [slots EXCEPT ![i] =
                    [state |-> "Waiting", requester |-> KeyOf(p), pair |-> d,
                     left |-> IF Latency > 1 THEN Latency ELSE 1]]
    /\ UNCHANGED <<slotGen, order>>

\* One slot at a tick, where ok says whether the fabric lets the transaction pass
\* its next phase.  The tick that ends the latency also submits and authorizes.
TickSlot(s, ok) ==
    CASE s.state = "Waiting" /\ s.left > 1 -> [s EXCEPT !.left = s.left - 1]
      [] s.state = "Waiting" /\ s.left <= 1 ->
            [s EXCEPT !.state = IF ok THEN "Authorized" ELSE "Completed", !.left = 0]
      [] s.state = "Authorized" ->
            [s EXCEPT !.state = IF ok THEN "Prepared" ELSE "Completed"]
      [] s.state = "Prepared" -> [s EXCEPT !.state = "Completed"]
      [] OTHER -> s

\* The completions of one tick enter completion_order by slot index.
InOrder(done) ==
    (IF 0 \in done THEN <<0>> ELSE <<>>) \o (IF 1 \in done THEN <<1>> ELSE <<>>)

CompletesAgain(i, ok) == TickSlot(slots[i], ok[i]).state = "Completed"

\* Slot i becomes Completed at this tick.
Completes(i, ok) == Nonterminal(slots[i]) /\ TickSlot(slots[i], ok[i]).state = "Completed"

\* The running processes whose programs wait for events
Watchers == {p \in Procs : pstate[p] = "Running" /\ "dev_event_wait" \in MayCall[p]}

\* Each completion advances the event sequence, and what was observed before is past.
AdvanceEpoch(done) ==
    IF done = {} THEN UNCHANGED eventVars
    ELSE /\ eventWait' = [p \in Procs |-> IF eventWait[p] = "Same" THEN "Advanced"
                                         ELSE eventWait[p]]
         /\ missed' = missed \cup Watchers

tick(ok) ==
    LET done == {i \in BlockSlots : Completes(i, ok)}
    IN  /\ slots' = [i \in BlockSlots |-> TickSlot(slots[i], ok[i])]
        /\ order' = order \o InOrder(done)
        /\ AdvanceEpoch(done)
        /\ UNCHANGED slotGen

-----------------------------------------------------------------------------
(* Draining completions and ending waits *)

\* Forgets that the requester may be a zombie.
DoneForDeadToo(p) ==
    {HandleOf(i) : i \in {j \in Members(order) : slots[j].requester = KeyOf(p)}}

\* The completed requests of the incarnation that runs in slot p.
DoneFor(p) ==
    {HandleOf(i) : i \in {j \in Members(order) : /\ pstate[p] = "Running"
                                                 /\ slots[j].requester = KeyOf(p)}}

\* consume_completion until none is left
ConsumeCompletions ==
    /\ slots' = [i \in BlockSlots |-> IF i \in Members(order) THEN FreeSlot ELSE slots[i]]
    /\ order' = <<>>
    /\ slotGen' = [i \in BlockSlots |-> IF i \in Members(order) THEN slotGen[i] + 1 ELSE slotGen[i]]

\* drain_completions: every completion frees its slot.  It wakes a requester that
\* is blocked on it, whose ledger entry goes; otherwise it fills the ledger entry.
drain_completions ==
    /\ ConsumeCompletions
    /\ ioWait' = [p \in Procs |-> IF ioWait[p] \in DoneFor(p) THEN NoHandle ELSE ioWait[p]]
    /\ pending' = [p \in Procs |-> pending[p] \ DoneFor(p)]
    /\ ready' = [p \in Procs |-> ready[p] \cup ((pending[p] \cap DoneFor(p)) \ {ioWait[p]})]

\* Overlooks that the slot may have a new tenant.
DeadBySlot(k) == pstate[k[1]] # "Running"

\* Overlooks that the slot may have been recycled.
DeadInPlace(k) == gen[k[1]] = k[2] /\ pstate[k[1]] \in {"Zombie", "Retired"}

\* The incarnation k is gone, recycled or not (peer_dead).
Dead(k) == gen[k[1]] # k[2] \/ pstate[k[1]] \in {"Zombie", "Retired"}

PeerGone(p) ==
    /\ pstate[p] = "Running"
    /\ recvWait[p] # NoKey
    /\ Dead(recvWait[p])
    /\ Quiet(KeyOf(p), recvWait[p])

\* Draining changes neither the nonterminal requests nor who is alive, so the
\* waits are judged by the same state before it and after it.
reevaluate_recv_waits ==
    /\ recvWait' = [p \in Procs |-> IF PeerGone(p) THEN NoKey ELSE recvWait[p]]
    /\ told' = told \cup {<<KeyOf(p), recvWait[p]>> : p \in {q \in Procs : PeerGone(q)}}
    /\ UNCHANGED <<mailbox, lent>>

\* A process that is woken is given the current epoch.
reevaluate_event_waits ==
    LET woken == {p \in Procs : pstate[p] = "Running" /\ eventWait[p] = "Advanced"}
    IN  /\ eventWait' = [p \in Procs |-> IF p \in woken THEN "None" ELSE eventWait[p]]
        /\ missed' = missed \ woken

Service == drain_completions /\ reevaluate_recv_waits /\ reevaluate_event_waits

-----------------------------------------------------------------------------
(* Births and deaths *)

GenerationUnchecked(p) == gen[p] + 1

\* checked_add on the generation; without a next one the slot is retired.
NextGeneration(p) == IF gen[p] < MaxGen THEN gen[p] + 1 ELSE gen[p]

LedgerKept(R) == pending

\* The requests of the processes of R go on, but nobody waits for them any more.
LedgerCleared(R) == [p \in Procs |-> IF p \in R THEN {} ELSE pending[p]]

\* reclaim_process for the processes of R; those of Z become zombies
\* (finish_process), which keep what they waited for.
Reclaim(R, Z) ==
    /\ pstate' = [p \in Procs |-> IF p \in R THEN IF gen[p] < MaxGen THEN "Free" ELSE "Retired"
                                  ELSE IF p \in Z THEN "Zombie" ELSE pstate[p]]
    /\ gen' = [p \in Procs |-> IF p \in R THEN NextGeneration(p) ELSE gen[p]]
    /\ ioWait' = [p \in Procs |-> IF p \in R THEN NoHandle ELSE ioWait[p]]
    /\ recvWait' = [p \in Procs |-> IF p \in R THEN NoKey ELSE recvWait[p]]
    /\ eventWait' = [p \in Procs |-> IF p \in R \cup Z THEN "None" ELSE eventWait[p]]
    /\ missed' = missed \ (R \cup Z)
    /\ pending' = LedgerCleared(R)
    /\ ready' = [p \in Procs |-> IF p \in R THEN {} ELSE ready[p]]
    /\ mailbox' = [p \in Procs |-> IF p \in R THEN <<>> ELSE mailbox[p]]
    /\ lent' = [p \in Procs |-> IF p \in R THEN {} ELSE lent[p]]
    /\ UNCHANGED <<told, deviceVars>>

Live(p) == pstate[p] \in {"Running", "Zombie"}

\* finish_process, with the descendants terminate_orphans reclaims
Finish(p) == \E D \in SUBSET {q \in Procs \ {p} : Live(q)} : Reclaim(D, {p})

-----------------------------------------------------------------------------
(* The scheduler loop *)

Goto(l) == pc' = l /\ UNCHANGED <<cursor, fuel, ran, table, irq>>

\* The resolve phase of run, up to wake_waiters.
Resolve ==
    /\ pc = "resolve"
    /\ Service
    /\ pc' = "wake"
    /\ cursor' = -1
    /\ ran' = FALSE
    /\ table' = {p \in Procs : pstate[p] # "Free" \/ gen[p] > 0}
    /\ UNCHANGED <<fuel, irq, procVars>>

\* wake_waiters collects zombies; the scan goes on behind cursor.
WakeWaiters ==
    /\ pc = "wake"
    /\ \E R \in SUBSET {q \in Procs : pstate[q] = "Zombie"} : Reclaim(R, {})
    /\ pc' = "scan"
    /\ cursor' = cursor + 1
    /\ UNCHANGED <<fuel, ran, table, irq>>

\* The scan has still to come to p.  It ends where the table ended when it began.
Ahead(p) == p \in table /\ p >= cursor

\* Process p is the next that can run.
Dispatch(p) ==
    /\ pc = "scan"
    /\ Ahead(p)
    /\ is_schedulable(p)
    /\ \A q \in Procs : Ahead(q) /\ q < p => ~is_schedulable(q)
    /\ pc' = "fetch"
    /\ cursor' = p
    /\ fuel' = Quantum
    /\ ran' = TRUE
    /\ UNCHANGED <<table, irq, procVars, ioWait, eventVars, ledgerVars, messageVars, deviceVars>>

ScanDone == pc = "scan" /\ \A p \in Procs : Ahead(p) => ~is_schedulable(p)

NextRound ==
    /\ ScanDone
    /\ ran
    /\ Goto("resolve")
    /\ UNCHANGED <<procVars, ioWait, eventVars, ledgerVars, messageVars, deviceVars>>

\* idle_progress_once; what it drains after the tick, the next round's resolve
\* phase drains here.
IdleProgress ==
    /\ ScanDone
    /\ ~ran
    /\ has_autonomous_work
    /\ \E ok \in [BlockSlots -> BOOLEAN] : tick(ok)
    /\ Goto("resolve")
    /\ UNCHANGED <<procVars, ioWait, ledgerVars, messageVars>>

Stop ==
    /\ ScanDone
    /\ ~ran
    /\ ~has_autonomous_work
    /\ Goto("stopped")
    /\ UNCHANGED <<procVars, ioWait, eventVars, ledgerVars, messageVars, deviceVars>>

\* run_process delivers a pending interrupt before the fetch, unless the process has
\* interrupts masked; which of two comes first is left open.  A device interrupt may
\* find nothing left to drain.
DeviceInterrupt ==
    /\ pc = "fetch"
    /\ fuel > 0
    /\ <<cursor, "device">> \in irq
    /\ Service
    /\ pc' = "wake"
    /\ irq' = irq \ {<<cursor, "device">>}
    /\ UNCHANGED <<cursor, fuel, ran, table, procVars>>

\* Likewise a timer interrupt, which does nothing but end the turn.
TimerInterrupt ==
    /\ pc = "fetch"
    /\ fuel > 0
    /\ <<cursor, "timer">> \in irq
    /\ pc' = "wake"
    /\ irq' = irq \ {<<cursor, "timer">>}
    /\ UNCHANGED <<cursor, fuel, ran, table, procVars, ioWait, eventVars, ledgerVars,
                   messageVars, deviceVars>>

\* The quantum is used up.
QuantumEnd ==
    /\ pc = "fetch"
    /\ fuel = 0
    /\ Goto("wake")
    /\ UNCHANGED <<procVars, ioWait, eventVars, ledgerVars, messageVars, deviceVars>>

\* The instruction faults: no tick.
Fault ==
    /\ pc = "fetch"
    /\ fuel > 0
    /\ Finish(cursor)
    /\ Goto("wake")

\* The instruction commits and tick_devices runs: the timer may fire, and a
\* controller with completions requires attention.
Commit(fired) ==
    /\ pc = "fetch"
    /\ fired => HasTimer
    /\ fuel > 0
    /\ \E ok \in [BlockSlots -> BOOLEAN] : tick(ok)
    /\ pc' = "commit"
    /\ fuel' = fuel - 1
    /\ irq' = irq \cup (IF fired THEN {<<cursor, "timer">>} ELSE {})
                  \cup (IF order' # <<>> THEN {<<cursor, "device">>} ELSE {})
    /\ UNCHANGED <<cursor, ran, table, procVars, ioWait, ledgerVars, messageVars>>

\* It was no HALT: on to the next fetch.
Continue ==
    /\ pc = "commit"
    /\ Goto("fetch")
    /\ UNCHANGED <<procVars, ioWait, eventVars, ledgerVars, messageVars, deviceVars>>

-----------------------------------------------------------------------------
(* System calls of the running process.  A call that fails changes nothing but *)
(* registers: NoEffect.                                                        *)

Syscall(p, call) ==
    /\ pc = "commit"
    /\ cursor = p
    /\ call \in MayCall[p]
    /\ Goto("wake")

NoEffect(p) ==
    /\ pc = "commit"
    /\ cursor = p
    /\ Goto("wake")
    /\ UNCHANGED <<procVars, ioWait, eventVars, ledgerVars, messageVars, deviceVars>>

\* SYS_EXIT, an unknown call, a halt in user mode or outside the trap gate
Exit(p) == Syscall(p, "exit") /\ Finish(p)

\* SYS_EXEC or SYS_SPAWN takes the first Free slot, whose tables reclaim_process
\* emptied, or appends one, and gives it a new core.  A child whose image does not
\* validate is a zombie at once.  A program starts from epoch 0, which is past when a
\* request has completed.
Spawn(p, q, ok) ==
    /\ pc = "commit"
    /\ cursor = p
    /\ "spawn" \in MayCall[p]
    /\ pstate[q] = "Free"
    /\ \A r \in Procs : r < q => pstate[r] # "Free"
    /\ pstate' = [pstate EXCEPT ![q] = IF ok THEN "Running" ELSE "Zombie"]
    /\ missed' = IF q \in Watchers' /\ (order # <<>> \/ \E i \in BlockSlots : slotGen[i] > 0)
                 THEN missed \cup {q} ELSE missed
    /\ pc' = "wake"
    /\ irq' = {i \in irq : i[1] # q}
    /\ UNCHANGED <<cursor, fuel, ran, table, gen, ioWait, eventWait, ledgerVars, messageVars,
                   deviceVars>>

\* preflight_dev_submit: a delegated buffer must have been lent to this incarnation.
MayUse(p, d) == d = NoPair \/ (d \in lent[p] /\ d[2] = KeyOf(p))

\* SYS_DEV_SUBMIT, and SYS_BLOCK_READ with d = NoPair
DevSubmit(p, d) ==
    /\ Syscall(p, "dev_submit")
    /\ MayUse(p, d)
    /\ \E i \in BlockSlots : submit(p, d, i) /\ ioWait' = [ioWait EXCEPT ![p] = HandleOf(i)]
    /\ UNCHANGED <<procVars, eventVars, ledgerVars, messageVars>>

\* SYS_DEV_SUBMIT_ASYNC; MaxAsync bounds the ledger, whose keys are distinct.
DevSubmitAsync(p, d) ==
    /\ Syscall(p, "dev_submit_async")
    /\ MayUse(p, d)
    /\ Cardinality(pending[p] \cup ready[p]) < MaxAsync
    /\ \E i \in BlockSlots : submit(p, d, i)
                             /\ pending' = [pending EXCEPT ![p] = pending[p] \cup {HandleOf(i)}]
    /\ UNCHANGED <<procVars, ioWait, eventVars, ready, messageVars>>

\* SYS_DEV_WAIT on a request that has completed
DevCollect(p, h) ==
    /\ Syscall(p, "dev_wait")
    /\ h \in ready[p]
    /\ ready' = [ready EXCEPT ![p] = ready[p] \ {h}]
    /\ UNCHANGED <<procVars, ioWait, eventVars, pending, messageVars, deviceVars>>

\* SYS_DEV_WAIT on a request that has not
DevWait(p, h) ==
    /\ Syscall(p, "dev_wait")
    /\ h \in pending[p]
    /\ ioWait' = [ioWait EXCEPT ![p] = h]
    /\ UNCHANGED <<procVars, eventVars, ledgerVars, messageVars, deviceVars>>

\* Waits for the next event, whatever the caller has observed.
EventWaitFromNow(p) ==
    /\ Syscall(p, "dev_event_wait")
    /\ eventWait' = [eventWait EXCEPT ![p] = "Same"]
    /\ UNCHANGED <<missed, procVars, ioWait, ledgerVars, messageVars, deviceVars>>

\* SYS_DEV_EVENT_WAIT.  A program passes the epoch it was given last.  If that is the
\* current one, the caller blocks ...
EventWait(p) ==
    /\ Syscall(p, "dev_event_wait")
    /\ p \notin missed
    /\ eventWait' = [eventWait EXCEPT ![p] = "Same"]
    /\ UNCHANGED <<missed, procVars, ioWait, ledgerVars, messageVars, deviceVars>>

\* ... and if not, it is given the current one at once.
EventSeen(p) ==
    /\ Syscall(p, "dev_event_wait")
    /\ p \in missed
    /\ missed' = missed \ {p}
    /\ UNCHANGED <<eventWait, procVars, ioWait, ledgerVars, messageVars, deviceVars>>

-----------------------------------------------------------------------------
(* Messages *)

RouteThroughMailbox(q, k) == IF Len(mailbox[q]) < MaxMailbox THEN "Enqueue" ELSE "Full"

\* A full mailbox turns everybody away.
RouteFullFirst(q, k) ==
    IF Len(mailbox[q]) >= MaxMailbox THEN "Full"
    ELSE IF recvWait[q] = k THEN "Direct" ELSE "Enqueue"

\* message_route for a message of incarnation k to process q
message_route(q, k) ==
    IF recvWait[q] = k THEN "Direct"
    ELSE IF Len(mailbox[q]) < MaxMailbox THEN "Enqueue" ELSE "Full"

\* deliver_message from p to q
deliver_message(p, q) ==
    \/ /\ message_route(q, KeyOf(p)) = "Direct"
       /\ recvWait' = [recvWait EXCEPT ![q] = NoKey]
       /\ UNCHANGED mailbox
    \/ /\ message_route(q, KeyOf(p)) = "Enqueue"
       /\ mailbox' = [mailbox EXCEPT ![q] = Append(mailbox[q], KeyOf(p))]
       /\ UNCHANGED recvWait

\* SYS_SEND and SYS_SEND_KEY to a running process
Send(p, q) ==
    /\ Syscall(p, "send")
    /\ pstate[q] = "Running"
    /\ deliver_message(p, q)
    /\ UNCHANGED <<procVars, ioWait, eventVars, ledgerVars, lent, told, deviceVars>>

\* Either call when the mailbox has no room: an error and no message
SendFull(p, q) ==
    /\ \E call \in {"send", "send_cap"} : Syscall(p, call)
    /\ pstate[q] = "Running"
    /\ message_route(q, KeyOf(p)) = "Full"
    /\ UNCHANGED <<procVars, ioWait, eventVars, ledgerVars, messageVars, deviceVars>>

\* SYS_SEND_CAP lends q memory of p.
SendCap(p, q) ==
    /\ Syscall(p, "send_cap")
    /\ pstate[q] = "Running"
    /\ deliver_message(p, q)
    /\ lent' = [lent EXCEPT ![q] = lent[q] \cup {<<KeyOf(p), KeyOf(q)>>}]
    /\ UNCHANGED <<procVars, ioWait, eventVars, ledgerVars, told, deviceVars>>

\* SYS_CAP_DROP
CapDrop(p, d) ==
    /\ Syscall(p, "cap_drop")
    /\ d \in lent[p]
    /\ lent' = [lent EXCEPT ![p] = lent[p] \ {d}]
    /\ UNCHANGED <<procVars, ioWait, eventVars, ledgerVars, recvWait, mailbox, told, deviceVars>>

RemoveIndex(seq, n) == [m \in 1 .. (Len(seq) - 1) |-> IF m < n THEN seq[m] ELSE seq[m + 1]]

\* The message at position n leaves the mailbox of p.
Take(p, n) ==
    /\ mailbox' = [mailbox EXCEPT ![p] = RemoveIndex(mailbox[p], n)]
    /\ UNCHANGED <<procVars, ioWait, eventVars, ledgerVars, recvWait, lent, told, deviceVars>>

\* SYS_RECV takes the newest message.
Recv(p) == Syscall(p, "recv") /\ mailbox[p] # <<>> /\ Take(p, Len(mailbox[p]))

\* SYS_RECV_WAIT when a message of k is queued: the newest of them
RecvQueued(p, k) ==
    /\ Syscall(p, "recv_wait")
    /\ \E n \in 1 .. Len(mailbox[p]) :
          /\ mailbox[p][n] = k
          /\ \A m \in 1 .. Len(mailbox[p]) : mailbox[p][m] = k => m <= n
          /\ Take(p, n)

\* SYS_RECV_WAIT when none is and the peer lives, or its requests do
RecvWait(p, k) ==
    /\ Syscall(p, "recv_wait")
    /\ k \notin Members(mailbox[p])
    /\ gen[k[1]] = k[2]
    /\ \/ pstate[k[1]] = "Running"
       \/ pstate[k[1]] = "Zombie" /\ ~Quiet(KeyOf(p), k)
    /\ recvWait' = [recvWait EXCEPT ![p] = k]
    /\ UNCHANGED <<procVars, ioWait, eventVars, ledgerVars, mailbox, lent, told, deviceVars>>

\* SYS_RECV_WAIT when the peer is a zombie without requests: PeerDied at once
RecvPeerDied(p, k) ==
    /\ Syscall(p, "recv_wait")
    /\ k \notin Members(mailbox[p])
    /\ gen[k[1]] = k[2]
    /\ pstate[k[1]] = "Zombie"
    /\ Quiet(KeyOf(p), k)
    /\ told' = told \cup {<<KeyOf(p), k>>}
    /\ UNCHANGED <<procVars, ioWait, eventVars, ledgerVars, recvWait, mailbox, lent, deviceVars>>

-----------------------------------------------------------------------------

Init ==
    /\ pc = "resolve" /\ cursor = -1 /\ fuel = 0 /\ ran = FALSE /\ table = {} /\ irq = {}
    /\ pstate = [p \in Procs |-> IF p = 0 THEN "Running" ELSE "Free"]
    /\ gen = [p \in Procs |-> 0]
    /\ ioWait = [p \in Procs |-> NoHandle]
    /\ recvWait = [p \in Procs |-> NoKey]
    /\ eventWait = [p \in Procs |-> "None"]
    /\ missed = {}
    /\ pending = [p \in Procs |-> {}]
    /\ ready = [p \in Procs |-> {}]
    /\ mailbox = [p \in Procs |-> <<>>]
    /\ lent = [p \in Procs |-> {}]
    /\ told = {}
    /\ slots = [i \in BlockSlots |-> FreeSlot]
    /\ slotGen = [i \in BlockSlots |-> 0]
    /\ order = <<>>

Kernel ==
    \/ Resolve \/ WakeWaiters \/ NextRound \/ IdleProgress \/ Stop
    \/ DeviceInterrupt \/ TimerInterrupt \/ QuantumEnd \/ Fault \/ Continue
    \/ \E fired \in BOOLEAN : Commit(fired)
    \/ \E p \in Procs : Dispatch(p)

Calls(p) ==
    \/ NoEffect(p) \/ Exit(p) \/ Recv(p) \/ EventWait(p) \/ EventSeen(p)
    \/ \E q \in Procs, ok \in BOOLEAN : Spawn(p, q, ok)
    \/ \E q \in Procs : Send(p, q) \/ SendFull(p, q) \/ SendCap(p, q)
    \/ \E d \in DelegationId \cup {NoPair} : DevSubmit(p, d) \/ DevSubmitAsync(p, d)
    \/ \E d \in DelegationId : CapDrop(p, d)
    \/ \E h \in RequestHandle : DevCollect(p, h) \/ DevWait(p, h)
    \/ \E k \in ProcessKey : RecvQueued(p, k) \/ RecvWait(p, k) \/ RecvPeerDied(p, k)

Next == Kernel \/ \E p \in Procs : Calls(p)

Spec == Init /\ [][Next]_vars

\* run() is a loop that the host executes; it does not pause.
FairSpec == Spec /\ WF_vars(Next)

-----------------------------------------------------------------------------
(* Properties *)

TypeOK ==
    /\ pc \in {"resolve", "scan", "fetch", "commit", "wake", "stopped"}
    /\ cursor \in Procs \cup {-1, NumProcs}
    /\ fuel \in 0 .. Quantum
    /\ ran \in BOOLEAN
    /\ table \subseteq Procs
    /\ irq \subseteq Procs \X {"timer", "device"}
    /\ pstate \in [Procs -> {"Free", "Running", "Zombie", "Retired"}]
    /\ gen \in [Procs -> 0 .. MaxGen]
    /\ ioWait \in [Procs -> RequestHandle \cup {NoHandle}]
    /\ recvWait \in [Procs -> ProcessKey \cup {NoKey}]
    /\ eventWait \in [Procs -> {"None", "Same", "Advanced"}]
    /\ missed \subseteq Procs
    /\ pending \in [Procs -> SUBSET RequestHandle]
    /\ ready \in [Procs -> SUBSET RequestHandle]
    /\ mailbox \in [Procs -> Seq(ProcessKey)]
    /\ lent \in [Procs -> SUBSET DelegationId]
    /\ told \subseteq DelegationId
    /\ slots \in [BlockSlots -> SlotState]
    /\ slotGen \in [BlockSlots -> 0 .. MaxSlotGen]
    /\ order \in Seq(BlockSlots)

\* The queue completion_order names every Completed slot once and no other slot,
\* which is what assert_conservation checks: a slot left out would never be freed.
CompletionOrderCoherent ==
    /\ Members(order) = {i \in BlockSlots : slots[i].state = "Completed"}
    /\ \A m, n \in 1 .. Len(order) : order[m] = order[n] => m = n

\* The controller has the request h of process p.
InController(p, h) ==
    \E i \in BlockSlots : /\ slots[i].state # "Free"
                          /\ h = HandleOf(i)
                          /\ slots[i].requester = KeyOf(p)

\* For every running process, the controller and the process agree on what is
\* outstanding.  What a process is blocked on, or has pending in its ledger, is in
\* the controller under the process's own key, so its completion will find it; what
\* the controller does for a running process is awaited or in its ledger, so no
\* completion is dropped; and a collected handle is never that of a request that
\* is still going on.
OutstandingAgree ==
    \A p \in Procs : pstate[p] = "Running" =>
        /\ \A h \in pending[p] \cup ({ioWait[p]} \ {NoHandle}) : InController(p, h)
        /\ \A h \in RequestHandle : InController(p, h) => h \in pending[p] \cup {ioWait[p]}
        /\ \A h \in ready[p] : ~InController(p, h) /\ h \notin pending[p]

\* Once a client has been told PeerDied, no request its peer made with the client's
\* memory can still write to it, and none will be made: nonterminal_pair_request_count
\* stays 0 for the pair ("PeerDied(C,D) requires count(C,D) == 0").
PeerDiedIsFinal == \A t \in told, i \in BlockSlots : Nonterminal(slots[i]) => slots[i].pair # t

\* A process blocked in SYS_RECV_WAIT has no message of that peer in its mailbox:
\* the peer's messages go past the mailbox, and none is left behind.
NothingQueuedFromAwaitedPeer ==
    \A p \in Procs : recvWait[p] # NoKey => recvWait[p] \notin Members(mailbox[p])

\* A message to a receiver that is blocked on exactly this sender ends the wait, also
\* when older messages of others fill the receiver's mailbox ("Returns Direct if the
\* destination is in RecvWait for this exact sender").
AwaitedSenderIsHeard ==
    [][\A p, q \in Procs :
        (Send(p, q) \/ SendFull(p, q) \/ SendCap(p, q)) /\ recvWait[q] = KeyOf(p)
            => recvWait'[q] = NoKey]_vars

\* The incarnation k does not run any more.
Gone(k) == ~(gen[k[1]] = k[2] /\ pstate[k[1]] = "Running")

\* run() returns only when no wait can end by itself: nobody is blocked on a
\* request, on a device event that has happened, or on a peer that is gone
\* ("nothing runnable, nothing resolvable, no autonomous I/O").
StopIsJustified ==
    pc = "stopped" =>
        \A p \in Procs : pstate[p] = "Running" =>
            /\ ioWait[p] = NoHandle
            /\ eventWait[p] # "None" => p \notin missed
            /\ recvWait[p] # NoKey => ~Gone(recvWait[p])

\* A step that ends the I/O wait of an incarnation, or hands it a completion, finds
\* that incarnation running and its very request Completed (drain_completions: "if
\* either is stale, the completion is consumed with no observable effect").
CompletionsAreExact ==
    [][\A p \in Procs :
        /\ gen'[p] = gen[p] /\ pstate'[p] \in {"Running", "Zombie"}
        /\ \/ ioWait[p] # NoHandle /\ ioWait'[p] # ioWait[p]
           \/ ~(ready'[p] \subseteq ready[p])
        => /\ pstate[p] = "Running"
           /\ \E i \in BlockSlots :
                 /\ slots[i].state = "Completed"
                 /\ slots[i].requester = KeyOf(p)
                 /\ HandleOf(i) \in {ioWait[p]} \cup (ready'[p] \ ready[p])]_vars

\* A process blocked on a request is resumed, or dies: SYS_DEV_SUBMIT, SYS_BLOCK_READ
\* and SYS_DEV_WAIT return, also when no process can run and only idle ticks are left.
IoWaitEnds ==
    \A p \in Procs : pstate[p] = "Running" /\ ioWait[p] # NoHandle
                        ~> ioWait[p] = NoHandle \/ pstate[p] # "Running"

\* A client that waits for a peer that is gone is told so, or dies, also when the
\* peer's slot has a new tenant by then (reevaluate_recv_waits).
PeerDeathIsReported ==
    \A p \in Procs : pstate[p] = "Running" /\ recvWait[p] # NoKey /\ Gone(recvWait[p])
                        ~> recvWait[p] = NoKey \/ pstate[p] # "Running"

\* No event is lost to SYS_DEV_EVENT_WAIT.  A process in the call is resumed, or dies,
\* if a request has completed since it was last given an epoch, be it before the call
\* or during it, and also if a request is going on: its completion will advance the
\* epoch and the wait will see it.
EventWaitEnds ==
    \A p \in Procs :
        /\ eventWait[p] # "None"
        /\ p \in missed \/ \E i \in BlockSlots : Nonterminal(slots[i])
        ~> eventWait[p] = "None" \/ pstate[p] # "Running"
=============================================================================
