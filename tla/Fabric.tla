------------------------------- MODULE Fabric -------------------------------
(***************************************************************************)
(* The capability fabric of Anka64 (src/anka64/fabric.rs): the object      *)
(* table, physical placement, protection domains and the phased memory     *)
(* transactions (Requested, Authorized, Prepared, Committed or Faulted)    *)
(* that every bus master goes through.  A device's transaction advances    *)
(* one phase per device tick, so allocation, sealing, revocation and other *)
(* transactions interleave with its phases.                                *)
(*                                                                         *)
(* Every object is of kind Memory, outside the private heap pool, and no   *)
(* object is a pointer stack: the branches on those are not taken here.    *)
(***************************************************************************)
EXTENDS Integers, FiniteSets

CONSTANTS
    NumObjects,    \* bound on the objects ever allocated
    MaxSize,       \* bound on an object's size, in memory cells
    Sizes,         \* the sizes callers ask for
    Windows,       \* the <<offset, length>> windows callers name
    Kinds,         \* the kinds of access callers make
    AddrMax,       \* u64::MAX
    MemSize,       \* cells of physical memory
    GenMod,        \* generations wrap modulo 2^32
    ProcDomains,   \* ids of domains made by create_domain
    DmaDomains,    \* ids of domains made by delegate_dma_span
    PermSets,      \* the permission sets used by callers
    MaxCaps,       \* bound on the capabilities a domain holds at once
    TxIds,         \* slots of the transaction trace
    Values,        \* what a memory cell may hold
    ZeroValue

Permissions == {"READ", "WRITE", "EXECUTE", "ATOMIC", "SEAL"}

ASSUME BoundsAssumption ==
    /\ NumObjects \in Nat \ {0}
    /\ MaxSize \in Nat
    /\ Sizes \subseteq 0 .. MaxSize
    /\ Windows \subseteq (0 .. MaxSize) \X (0 .. MaxSize)
    /\ Kinds \subseteq {"Fetch", "Read", "Write", "Atomic"}
    /\ AddrMax \in Nat
    /\ MemSize \in Nat
    /\ MemSize <= AddrMax
    /\ GenMod \in Nat
    /\ GenMod >= 2
    /\ PermSets \subseteq SUBSET Permissions
    /\ Values \subseteq Nat
    /\ ZeroValue \in Values

ASSUME DomainsAssumption == ProcDomains # {} /\ ProcDomains \cap DmaDomains = {}

VARIABLES
    nextObject,    \* next_object_id
    objState,      \* the state of each entry of `objects`, Absent if none
    objGen,        \* its generation
    objSize,       \* its size
    placement,     \* its physical base, NotPlaced if it has none
    domState,      \* Fresh: not created yet; Gone: destroyed, never reused
    caps,          \* the capabilities each domain holds
    tx,            \* the transaction trace
    faultLog,      \* the objects named by a record of fault_log
    memory

objVars == <<nextObject, objState, objGen, objSize>>
domVars == <<domState, caps>>
txVars == <<tx, faultLog>>
vars == <<objVars, placement, domVars, txVars, memory>>

ObjectIds == 0 .. (NumObjects - 1)
Domains == ProcDomains \cup DmaDomains
Span == 0 .. MaxSize
NotPlaced == -1
NoGen == -1
NoAddr == -1
Short == -1                \* a payload whose length is not the request's

Capability64 ==
    [object : ObjectIds, generation : 0 .. (GenMod - 1), offset : Span,
     length : Span, perms : SUBSET Permissions]

AccessKind == {"Fetch", "Read", "Write", "Atomic"}

TxState == {"None", "Requested", "Authorized", "Prepared", "Committed", "Faulted"}

FaultReason == {"NoFault", "NoCapability", "WrongPermission", "StaleGeneration",
                "TranslationFault", "InvalidSpan", "LengthMismatch"}

Transaction ==
    [state : TxState, domain : Domains, object : ObjectIds, offset : Span,
     length : Span, kind : AccessKind, data : Values \cup {Short},
     authGen : (0 .. (GenMod - 1)) \cup {NoGen},
     phys : (0 .. AddrMax) \cup {NoAddr}, fault : FaultReason]

EmptyTx ==
    [state |-> "None", domain |-> CHOOSE d \in Domains : TRUE, object |-> 0,
     offset |-> 0, length |-> 0, kind |-> "Read", data |-> Short,
     authGen |-> NoGen, phys |-> NoAddr, fault |-> "NoFault"]

required_permission(kind) ==
    CASE kind = "Fetch" -> "EXECUTE"
      [] kind = "Read" -> "READ"
      [] kind = "Write" -> "WRITE"
      [] kind = "Atomic" -> "ATOMIC"

-----------------------------------------------------------------------------
(* Objects and placement *)

Live(o) == objState[o] \in {"Active", "Sealed"}
Placed(o) == placement[o] # NotPlaced
End(o) == placement[o] + objSize[o]

nextGenUnwrapped(g) == g + 1

\* wrapping_add(1) on a generation
nextGen(g) == (g + 1) % GenMod

try_alloc_object(size) ==
    /\ nextObject < NumObjects
    /\ nextObject' = nextObject + 1
    /\ objState' = [objState EXCEPT ![nextObject] = "Active"]
    /\ objGen' = [objGen EXCEPT ![nextObject] = 0]
    /\ objSize' = [objSize EXCEPT ![nextObject] = size]
    /\ UNCHANGED <<placement, domVars, txVars, memory>>

ObstructsOnlyWhileActive(o, base, e) ==
    /\ e # o /\ Placed(e) /\ objState[e] = "Active"
    /\ base < End(e) /\ base + objSize[o] > placement[e]

\* The placed entry e stands in the way of placing o at base.
Obstructs(o, base, e) ==
    /\ e # o /\ Placed(e) /\ Live(e)
    /\ base < End(e) /\ base + objSize[o] > placement[e]

SetPlacement(o, base) ==
    /\ objState[o] # "Absent"
    /\ base + objSize[o] <= AddrMax
    /\ \A e \in ObjectIds : ~Obstructs(o, base, e)
    /\ placement' = [placement EXCEPT ![o] = base]
    /\ UNCHANGED <<objVars, domVars, txVars, memory>>

\* place_object on an object without a placement, which is how the kernel uses it ...
place_object(o, base) == ~Placed(o) /\ SetPlacement(o, base)

\* ... and on an object that has one.
move_object(o, base) == Placed(o) /\ SetPlacement(o, base)

revoke(o) ==
    /\ objState[o] # "Absent"
    /\ objGen' = [objGen EXCEPT ![o] = nextGen(objGen[o])]
    /\ objState' = [objState EXCEPT ![o] = "Revoked"]
    /\ UNCHANGED <<nextObject, objSize, placement, domVars, txVars, memory>>

seal_object(o) ==
    /\ objState[o] = "Active"
    /\ objGen' = [objGen EXCEPT ![o] = nextGen(objGen[o])]
    /\ objState' = [objState EXCEPT ![o] = "Sealed"]
    /\ UNCHANGED <<nextObject, objSize, placement, domVars, txVars, memory>>

\* The object's entries of `objects` and `placement` are gone.
RemoveEntry(o) ==
    /\ objState' = [objState EXCEPT ![o] = "Absent"]
    /\ objGen' = [objGen EXCEPT ![o] = 0]
    /\ objSize' = [objSize EXCEPT ![o] = 0]
    /\ placement' = [placement EXCEPT ![o] = NotPlaced]

destroy_object(o) ==
    /\ objState[o] # "Absent"
    /\ RemoveEntry(o)
    /\ UNCHANGED <<nextObject, domVars, txVars, memory>>

UnreferencedIgnoringCaps(o) ==
    /\ \A t \in TxIds : tx[t].state # "None" => tx[t].object # o
    /\ o \notin faultLog

Unreferenced(o) ==
    /\ \A d \in Domains : \A c \in caps[d] : c.object # o
    /\ \A t \in TxIds : tx[t].state # "None" => tx[t].object # o
    /\ o \notin faultLog

\* The object leaves the table and its id is handed out again.
rollback_unpublished_object(o) ==
    /\ o + 1 = nextObject
    /\ objState[o] = "Active"
    /\ Unreferenced(o)
    /\ RemoveEntry(o)
    /\ nextObject' = o
    /\ UNCHANGED <<domVars, txVars, memory>>

\* memory with the cells of [from, to) holding v
Fill(from, to, v) ==
    [a \in DOMAIN memory |-> IF from <= a /\ a < to THEN v ELSE memory[a]]

MutableAnyState(o) == Live(o)

Mutable(o) == objState[o] = "Active"

zero_object_extent(o) ==
    /\ Mutable(o)
    /\ Placed(o)
    /\ End(o) <= MemSize
    /\ memory' = Fill(placement[o], End(o), ZeroValue)
    /\ UNCHANGED <<objVars, placement, domVars, txVars>>

initialize_object(o, off, len, v) ==
    /\ Mutable(o)
    /\ len <= objSize[o]
    /\ off <= objSize[o] - len
    /\ Placed(o)
    /\ placement[o] + off + len <= MemSize
    /\ memory' = Fill(placement[o] + off, placement[o] + off + len, v)
    /\ UNCHANGED <<objVars, placement, domVars, txVars>>

-----------------------------------------------------------------------------
(* Domains and capabilities *)

validate(c) ==
    /\ Live(c.object)
    /\ c.generation = objGen[c.object]
    /\ c.length <= objSize[c.object]
    /\ c.offset <= objSize[c.object] - c.length

covers(c, object, offset, length, required) ==
    /\ c.object = object
    /\ length > 0
    /\ required \subseteq c.perms
    /\ c.offset <= offset
    /\ offset + length <= c.offset + c.length

create_domain(d) ==
    /\ domState[d] = "Fresh"
    /\ domState' = [domState EXCEPT ![d] = "Live"]
    /\ UNCHANGED <<objVars, placement, caps, txVars, memory>>

destroy_domain(d) ==
    /\ domState[d] = "Live"
    /\ domState' = [domState EXCEPT ![d] = "Gone"]
    /\ caps' = [caps EXCEPT ![d] = {}]
    /\ UNCHANGED <<objVars, placement, txVars, memory>>

MintableWhileLive(o, perms) == Live(o)

\* The W xor X gate of grant.
Mintable(o, perms) ==
    \/ objState[o] = "Active" /\ "EXECUTE" \notin perms
    \/ objState[o] = "Sealed" /\ perms \cap {"WRITE", "ATOMIC", "SEAL"} = {}

Cap(o, g, off, len, perms) ==
    [object |-> o, generation |-> g, offset |-> off, length |-> len, perms |-> perms]

grant(d, o, off, len, perms) ==
    /\ domState[d] = "Live"
    /\ Mintable(o, perms)
    /\ len <= objSize[o]
    /\ off <= objSize[o] - len
    /\ Cardinality(caps[d]) < MaxCaps
    /\ caps' = [caps EXCEPT ![d] = @ \cup {Cap(o, objGen[o], off, len, perms)}]
    /\ UNCHANGED <<objVars, placement, domState, txVars, memory>>

AttenuatesWindowOnly(parent, off, len, perms) ==
    /\ off >= parent.offset
    /\ len <= parent.length
    /\ off - parent.offset <= parent.length - len

Attenuates(parent, off, len, perms) ==
    /\ perms \subseteq parent.perms
    /\ off >= parent.offset
    /\ len <= parent.length
    /\ off - parent.offset <= parent.length - len

derive(d, parent, off, len, perms) ==
    /\ domState[d] = "Live"
    /\ validate(parent)
    /\ Attenuates(parent, off, len, perms)
    /\ Cardinality(caps[d]) < MaxCaps
    /\ caps' = [caps EXCEPT ![d] =
                  @ \cup {Cap(parent.object, parent.generation, off, len, perms)}]
    /\ UNCHANGED <<objVars, placement, domState, txVars, memory>>

remove_by_authority_id(d, c) ==
    /\ c \in caps[d]
    /\ caps' = [caps EXCEPT ![d] = @ \ {c}]
    /\ UNCHANGED <<objVars, placement, domState, txVars, memory>>

DelegateWithCurrentGeneration(d, parent, dma, off, len, perms) ==
    /\ domState[dma] \in {"Fresh", "Live"}
    /\ parent \in caps[d]
    /\ validate(parent)
    /\ covers(parent, parent.object, off, len, perms)
    /\ domState' = [domState EXCEPT ![dma] = "Live"]
    /\ caps' = [caps EXCEPT ![dma] =
                  @ \cup {Cap(parent.object, parent.generation, off, len, perms)}]
    /\ UNCHANGED <<objVars, placement, txVars, memory>>

\* A fresh domain holding exactly the span delegated to one device request.
delegate_dma_span(d, parent, dma, off, len, perms) ==
    /\ domState[dma] = "Fresh"
    /\ parent \in caps[d]
    /\ validate(parent)
    /\ covers(parent, parent.object, off, len, perms)
    /\ domState' = [domState EXCEPT ![dma] = "Live"]
    /\ caps' = [caps EXCEPT ![dma] =
                  {Cap(parent.object, parent.generation, off, len, perms)}]
    /\ UNCHANGED <<objVars, placement, txVars, memory>>

-----------------------------------------------------------------------------
(* Transactions *)

Mutates(r) == r.kind \in {"Write", "Atomic"}

\* A read carries no payload.
Payloads(kind) == IF kind \in {"Write", "Atomic"} THEN Values \cup {Short} ELSE {Short}

Covering(r) ==
    {c \in caps[r.domain] :
        covers(c, r.object, r.offset, r.length, {required_permission(r.kind)})}

AuthorizingIgnoringGeneration(r) == {c \in Covering(r) : Live(c.object)}

Authorizing(r) == {c \in Covering(r) : validate(c)}

\* The reason authorize gives when no capability authorizes r.
denial(r) ==
    IF Covering(r) # {} THEN "StaleGeneration"
    ELSE IF \E c \in caps[r.domain] : c.object = r.object /\ validate(c)
         THEN "WrongPermission"
         ELSE "NoCapability"

Authorized(r, g) == [r EXCEPT !.state = "Authorized", !.authGen = g]
Prepared(r, a) == [r EXCEPT !.state = "Prepared", !.phys = a]
Committed(r) == [r EXCEPT !.state = "Committed"]
Faulted(r, reason) == [r EXCEPT !.state = "Faulted", !.fault = reason]

fault_transaction(t, r, reason) ==
    /\ tx' = [tx EXCEPT ![t] = Faulted(r, reason)]
    /\ faultLog' = faultLog \cup {r.object}

\* Neither the domain nor the object is looked at before phase_authorize.
submit(t, d, o, off, len, kind, data) ==
    LET r == [state |-> "Requested", domain |-> d, object |-> o, offset |-> off,
              length |-> len, kind |-> kind, data |-> data, authGen |-> NoGen,
              phys |-> NoAddr, fault |-> "NoFault"]
    IN /\ tx[t].state = "None"
       /\ IF len = 0 \/ off + len > AddrMax
          THEN fault_transaction(t, r, "InvalidSpan")
          ELSE tx' = [tx EXCEPT ![t] = r] /\ UNCHANGED faultLog
       /\ UNCHANGED <<objVars, placement, domVars, memory>>

phase_authorize(t) ==
    /\ tx[t].state = "Requested"
    /\ \/ \E c \in Authorizing(tx[t]) :
             /\ tx' = [tx EXCEPT ![t] = Authorized(tx[t], c.generation)]
             /\ UNCHANGED faultLog
       \/ /\ Authorizing(tx[t]) = {}
          /\ fault_transaction(t, tx[t], denial(tx[t]))
    /\ UNCHANGED <<objVars, placement, domVars, memory>>

\* translate: None without a placement or when base + offset overflows
Translatable(o, off) == Placed(o) /\ placement[o] + off <= AddrMax

phase_translate(t) ==
    LET r == tx[t]
    IN /\ r.state = "Authorized"
       /\ IF Translatable(r.object, r.offset)
          THEN /\ tx' = [tx EXCEPT ![t] =
                           Prepared(r, placement[r.object] + r.offset)]
               /\ UNCHANGED faultLog
          ELSE fault_transaction(t, r, "TranslationFault")
       /\ UNCHANGED <<objVars, placement, domVars, memory>>

precommit_errorWithoutRevalidation(r) ==
    IF r.phys + r.length > MemSize THEN "InvalidSpan"
    ELSE IF Mutates(r) /\ r.data = Short THEN "LengthMismatch"
    ELSE "NoFault"

\* validate_precommit: the fault it raises, NoFault if the commit may go ahead
precommit_error(r) ==
    IF Authorizing(r) = {} THEN denial(r)
    ELSE IF r.phys + r.length > MemSize THEN "InvalidSpan"
    ELSE IF Mutates(r) /\ r.data = Short THEN "LengthMismatch"
    ELSE "NoFault"

phase_commit(t) ==
    LET r == tx[t]
    IN /\ r.state = "Prepared"
       /\ IF precommit_error(r) = "NoFault"
          THEN /\ tx' = [tx EXCEPT ![t] = Committed(r)]
               /\ memory' = IF Mutates(r) THEN Fill(r.phys, r.phys + r.length, r.data)
                                          ELSE memory
               /\ UNCHANGED faultLog
          ELSE /\ fault_transaction(t, r, precommit_error(r))
               /\ UNCHANGED memory
       /\ UNCHANGED <<objVars, placement, domVars>>

\* The trace is dropped only when every transaction in it is terminal; its
\* callers clear the fault log with it or keep it.
discard_completed_compiler_trace(dropFaults) ==
    /\ \A t \in TxIds : tx[t].state \in {"None", "Committed", "Faulted"}
    /\ tx' = [t \in TxIds |-> EmptyTx]
    /\ faultLog' = IF dropFaults THEN {} ELSE faultLog
    /\ UNCHANGED <<objVars, placement, domVars, memory>>

-----------------------------------------------------------------------------
Init ==
    /\ nextObject = 0
    /\ objState = [o \in ObjectIds |-> "Absent"]
    /\ objGen = [o \in ObjectIds |-> 0]
    /\ objSize = [o \in ObjectIds |-> 0]
    /\ placement = [o \in ObjectIds |-> NotPlaced]
    /\ domState = [d \in Domains |-> "Fresh"]
    /\ caps = [d \in Domains |-> {}]
    /\ tx = [t \in TxIds |-> EmptyTx]
    /\ faultLog = {}
    /\ memory = [a \in 0 .. (MemSize - 1) |-> ZeroValue]

ObjectStep ==
    \/ \E size \in Sizes : try_alloc_object(size)
    \/ \E o \in ObjectIds :
         \/ \E base \in 0 .. AddrMax : place_object(o, base)
         \/ revoke(o)
         \/ seal_object(o)
         \/ destroy_object(o)
         \/ rollback_unpublished_object(o)
         \/ zero_object_extent(o)
         \/ \E w \in Windows, v \in Values : initialize_object(o, w[1], w[2], v)

GrantStep ==
    \E d \in ProcDomains, o \in ObjectIds, w \in Windows, perms \in PermSets :
        grant(d, o, w[1], w[2], perms)

DomainStep ==
    \/ \E d \in ProcDomains : create_domain(d)
    \/ \E d \in Domains : destroy_domain(d)
    \/ GrantStep
    \/ \E d, e \in ProcDomains : \E parent \in caps[e] :
         \E w \in Windows, perms \in PermSets : derive(d, parent, w[1], w[2], perms)
    \/ \E d \in ProcDomains : \E c \in caps[d] : remove_by_authority_id(d, c)
    \/ \E d \in ProcDomains, dma \in DmaDomains : \E parent \in caps[d] :
         \E w \in Windows, p \in {"READ", "WRITE"} :
            delegate_dma_span(d, parent, dma, w[1], w[2], {p})

TxStep ==
    \/ \E t \in TxIds, d \in Domains, o \in ObjectIds, w \in Windows, kind \in Kinds :
         \E data \in Payloads(kind) : submit(t, d, o, w[1], w[2], kind, data)
    \/ \E t \in TxIds : phase_authorize(t)
    \/ \E t \in TxIds : phase_translate(t)
    \/ \E t \in TxIds : phase_commit(t)
    \/ \E drop \in BOOLEAN : discard_completed_compiler_trace(drop)

\* What the kernel and its devices do: an object is placed once.
StaticNext == ObjectStep \/ DomainStep \/ TxStep

\* What the interface of Fabric allows.
Next == StaticNext \/ \E o \in ObjectIds, base \in 0 .. AddrMax : move_object(o, base)

StaticSpec == Init /\ [][StaticNext]_vars
Spec == Init /\ [][Next]_vars

-----------------------------------------------------------------------------
TypeOK ==
    /\ nextObject \in 0 .. NumObjects
    /\ objState \in [ObjectIds -> {"Absent", "Active", "Sealed", "Revoked"}]
    /\ objGen \in [ObjectIds -> 0 .. (GenMod - 1)]
    /\ objSize \in [ObjectIds -> Span]
    /\ placement \in [ObjectIds -> (0 .. AddrMax) \cup {NotPlaced}]
    /\ domState \in [Domains -> {"Fresh", "Live", "Gone"}]
    /\ caps \in [Domains -> SUBSET Capability64]
    /\ tx \in [TxIds -> Transaction]
    /\ faultLog \in SUBSET ObjectIds
    /\ memory \in [0 .. (MemSize - 1) -> Values]

\* W xor X: no two capabilities in the system, in whatever domains, let one
\* holder change an object while another executes it.  grant's gate and the
\* generation bump of seal_object together give this; neither does alone.
WriteXorExecute ==
    \A d, e \in Domains : \A c \in caps[d], x \in caps[e] :
        c.object = x.object /\ validate(c) /\ validate(x) /\ "EXECUTE" \in x.perms
            => c.perms \cap {"WRITE", "ATOMIC", "SEAL"} = {}

\* I9, the reason place_object rejects overlaps: the extents of two live
\* objects never share a cell.
LivePlacementsDisjoint ==
    \A o, e \in ObjectIds :
        o # e /\ Live(o) /\ Live(e) /\ Placed(o) /\ Placed(e)
            => End(o) <= placement[e] \/ End(e) <= placement[o]

\* A transaction commits only inside the current extent of the live object its
\* request names, and outside every other live object, although its address
\* was computed in an earlier phase.
CommitProvenance ==
    [][\A t \in TxIds : tx[t].state = "Prepared" /\ tx'[t].state = "Committed" =>
         LET o == tx[t].object
             from == tx[t].phys
             to == tx[t].phys + tx[t].length
         IN /\ Live(o) /\ Placed(o) /\ placement[o] <= from /\ to <= End(o)
            /\ \A e \in ObjectIds : e # o /\ Live(e) /\ Placed(e) =>
                    to <= placement[e] \/ End(e) <= from]_vars

\* "Every physical memory effect has exactly one logical object provenance"
\* (place_object): a commit touches no cell of a live object it does not name.
CommitSparesOtherObjects ==
    [][\A t \in TxIds : tx[t].state = "Prepared" /\ tx'[t].state = "Committed" =>
         \A e \in ObjectIds : e # tx[t].object /\ Live(e) /\ Placed(e) =>
            tx[t].phys + tx[t].length <= placement[e] \/ End(e) <= tx[t].phys]_vars

\* Code cannot change under its executors: from seal_object on, the cells of a
\* sealed object keep their contents, whatever was in flight when it was sealed.
SealedImmutable ==
    [][\A o \in ObjectIds : objState[o] = "Sealed" /\ Placed(o) =>
         \A a \in 0 .. (MemSize - 1) :
            placement[o] <= a /\ a < End(o) => memory'[a] = memory[a]]_vars

\* I8: a capability that has stopped validating never validates again, not even
\* when its object's id is handed out a second time after a rollback.
StaleForever ==
    [][\A d \in Domains : \A c \in caps[d] \cap caps'[d] :
         validate(c)' => validate(c)]_vars

\* The (object, byte, permission) authority held in some domain.
Authority ==
    {a \in ObjectIds \X (0 .. MaxSize) \X Permissions :
        \E d \in Domains : \E c \in caps[d] :
            /\ validate(c) /\ c.object = a[1] /\ a[3] \in c.perms
            /\ c.offset <= a[2] /\ a[2] < c.offset + c.length}

\* I7: only grant brings authority into the system.  Deriving, delegating to a
\* device, sealing, moving and recycling an object id never amplify it.
AuthorityConfined == [][GrantStep \/ Authority' \subseteq Authority]_vars

\* "g_commit = g_authorized, or the transaction faults" (Transaction): the
\* generation that authorized a transaction is the object's when it commits.
CommitsAtAuthorizedGeneration(t) ==
    tx[t].state = "Prepared" /\ tx'[t].state = "Committed"
        => objGen[tx[t].object] = tx[t].authGen

\* It holds of a device's transaction: its domain never gets a second capability.
DmaCommitsAtAuthorizedGeneration ==
    [][\A t \in TxIds : tx[t].domain \in DmaDomains => CommitsAtAuthorizedGeneration(t)]_vars

\* The same of every transaction, as the comment on Transaction puts it.
CommitAtAuthorizedGeneration ==
    [][\A t \in TxIds : CommitsAtAuthorizedGeneration(t)]_vars
=============================================================================
