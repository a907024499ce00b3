--------------------------- MODULE Fabric_proofs ---------------------------
(***************************************************************************)
(* Proofs about the fabric's authority for every number of objects,        *)
(* domains and transactions, every memory size and every permission set:   *)
(* types, the inductive invariant AuthInv and W xor X.                     *)
(***************************************************************************)
EXTENDS Fabric, TLAPS

-----------------------------------------------------------------------------
\* A generation is advanced within its range.
LEMMA NextGenType == \A g \in 0 .. (GenMod - 1) : nextGen(g) \in 0 .. (GenMod - 1)
BY BoundsAssumption DEF nextGen

\* The first revocation or seal moves an object to generation 1.
LEMMA NextGenOfZero == nextGen(0) = 1
BY BoundsAssumption DEF nextGen

\* EmptyTx, the unused entry of the trace, is a transaction record.
LEMMA EmptyTxType == EmptyTx \in Transaction
<1>1. (CHOOSE d \in Domains : TRUE) \in Domains
  BY DomainsAssumption DEF Domains
<1>2. 0 \in ObjectIds /\ 0 \in Span
  BY BoundsAssumption DEF ObjectIds, Span
<1> QED
  BY <1>1, <1>2 DEF EmptyTx, Transaction, TxState, AccessKind, FaultReason

\* s is a transaction record with the request of r.
SameRequest(s, r) ==
    /\ s \in Transaction
    /\ s.domain = r.domain /\ s.object = r.object
    /\ s.offset = r.offset /\ s.length = r.length /\ s.kind = r.kind

\* phase_authorize keeps the request and records the generation.
LEMMA AuthorizedRecord ==
    \A r \in Transaction : \A g \in 0 .. (GenMod - 1) :
        /\ SameRequest(Authorized(r, g), r)
        /\ Authorized(r, g).state = "Authorized"
        /\ Authorized(r, g).authGen = g
BY ZenonT(60) DEF Authorized, SameRequest, Transaction, TxState

\* phase_translate keeps the request and the generation and records the address.
LEMMA PreparedRecord ==
    \A r \in Transaction : \A a \in 0 .. AddrMax :
        /\ SameRequest(Prepared(r, a), r)
        /\ Prepared(r, a).state = "Prepared"
        /\ Prepared(r, a).authGen = r.authGen
        /\ Prepared(r, a).phys = a
BY ZenonT(60) DEF Prepared, SameRequest, Transaction, TxState

\* phase_commit keeps the request.
LEMMA CommittedRecord ==
    \A r \in Transaction :
        /\ SameRequest(Committed(r), r)
        /\ Committed(r).state = "Committed"
BY DEF Committed, SameRequest, Transaction, TxState

\* fault_transaction keeps the request.
LEMMA FaultedRecord ==
    \A r \in Transaction : \A reason \in FaultReason :
        /\ SameRequest(Faulted(r, reason), r)
        /\ Faulted(r, reason).state = "Faulted"
BY ZenonT(60) DEF Faulted, SameRequest, Transaction, TxState

\* The reasons validate_precommit and authorize give are fault reasons.
LEMMA ReasonType ==
    ASSUME NEW r
    PROVE  denial(r) \in FaultReason /\ precommit_error(r) \in FaultReason
BY DEF denial, precommit_error, FaultReason

-----------------------------------------------------------------------------
\* What one advance of a transaction does to the trace.
PhaseOutcome(t, s) ==
    /\ tx' = [tx EXCEPT ![t] = s]
    /\ SameRequest(s, tx[t])
    /\ faultLog' \in {faultLog, faultLog \cup {tx[t].object}}
    /\ \/ /\ tx[t].state = "Requested" /\ s.state = "Authorized"
          /\ \E c \in Authorizing(tx[t]) : s.authGen = c.generation
       \/ /\ tx[t].state = "Authorized" /\ s.state = "Prepared"
          /\ s.authGen = tx[t].authGen
          /\ Placed(tx[t].object)
          /\ s.phys = placement[tx[t].object] + tx[t].offset
       \/ /\ tx[t].state = "Prepared" /\ s.state = "Committed"
          /\ precommit_error(tx[t]) = "NoFault"
          /\ memory' = IF Mutates(tx[t])
                       THEN Fill(tx[t].phys, tx[t].phys + tx[t].length, tx[t].data)
                       ELSE memory
       \/ tx[t].state # "None" /\ s.state = "Faulted"
    /\ s.state # "Committed" => UNCHANGED memory
    /\ UNCHANGED <<objVars, placement, domVars>>

\* Each phase function of fabric.rs has one of these outcomes.
LEMMA PhaseStep ==
    ASSUME TypeOK, NEW t \in TxIds,
           phase_authorize(t) \/ phase_translate(t) \/ phase_commit(t)
    PROVE  \E s : PhaseOutcome(t, s)
<1>1. tx[t] \in Transaction /\ tx[t].object \in ObjectIds /\ tx[t].domain \in Domains
      /\ tx[t].offset \in Span
  BY DEF TypeOK, Transaction
<1>2. ASSUME NEW reason \in FaultReason, fault_transaction(t, tx[t], reason),
             tx[t].state # "None", UNCHANGED <<objVars, placement, domVars, memory>>
      PROVE  PhaseOutcome(t, Faulted(tx[t], reason))
  BY <1>1, <1>2, FaultedRecord DEF PhaseOutcome, fault_transaction
<1>3. CASE phase_authorize(t)
  <2>1. CASE Authorizing(tx[t]) = {} /\ fault_transaction(t, tx[t], denial(tx[t]))
    BY <1>2, <1>3, <2>1, ReasonType DEF phase_authorize
  <2>2. ASSUME NEW c \in Authorizing(tx[t]), UNCHANGED faultLog,
               tx' = [tx EXCEPT ![t] = Authorized(tx[t], c.generation)]
        PROVE  PhaseOutcome(t, Authorized(tx[t], c.generation))
    <3>1. c.generation \in 0 .. (GenMod - 1)
      BY <1>1 DEF Authorizing, Covering, TypeOK, Capability64
    <3> QED
      BY <1>1, <1>3, <2>2, <3>1, AuthorizedRecord DEF PhaseOutcome, phase_authorize
  <2> QED
    BY <1>3, <2>1, <2>2 DEF phase_authorize
<1>4. CASE phase_translate(t)
  <2>1. CASE ~Translatable(tx[t].object, tx[t].offset)
    BY <1>2, <1>4, <2>1 DEF phase_translate, FaultReason
  <2>2. CASE Translatable(tx[t].object, tx[t].offset)
    <3> DEFINE a == placement[tx[t].object] + tx[t].offset
    <3>1. a \in 0 .. AddrMax
      BY <1>1, <2>2, BoundsAssumption
         DEF Translatable, Placed, NotPlaced, Span, TypeOK
    <3>2. PhaseOutcome(t, Prepared(tx[t], a))
      <4> HIDE DEF a
      <4>1. tx' = [tx EXCEPT ![t] = Prepared(tx[t], a)] /\ tx[t].state = "Authorized"
            /\ UNCHANGED <<faultLog, memory, objVars, placement, domVars>>
        BY <1>4, <2>2 DEF phase_translate, a
      <4>2. Placed(tx[t].object) /\ a = placement[tx[t].object] + tx[t].offset
        BY <2>2 DEF Translatable, a
      <4> QED
        BY <1>1, <3>1, <4>1, <4>2, PreparedRecord DEF PhaseOutcome
    <3> QED
      BY <3>2
  <2> QED
    BY <2>1, <2>2
<1>5. CASE phase_commit(t)
  <2>1. CASE precommit_error(tx[t]) # "NoFault"
    BY <1>2, <1>5, <2>1, ReasonType DEF phase_commit
  <2>2. CASE precommit_error(tx[t]) = "NoFault"
    <3>1. PhaseOutcome(t, Committed(tx[t]))
      BY <1>1, <1>5, <2>2, CommittedRecord DEF PhaseOutcome, phase_commit
    <3> QED
      BY <3>1
  <2> QED
    BY <2>1, <2>2
<1> QED
  BY <1>3, <1>4, <1>5

\* submit puts the request in the trace, Requested or already Faulted.
SubmitOutcome(t, d, o, s) ==
    /\ tx' = [tx EXCEPT ![t] = s]
    /\ s \in Transaction
    /\ s.domain = d /\ s.object = o /\ s.state \in {"Requested", "Faulted"}
    /\ faultLog' \in {faultLog, faultLog \cup {o}}
    /\ UNCHANGED <<objVars, placement, domVars, memory>>

\* submit puts one well-typed transaction in an unused entry of the trace.
LEMMA SubmitStep ==
    ASSUME TypeOK, NEW t \in TxIds, NEW d \in Domains, NEW o \in ObjectIds,
           NEW w \in Windows, NEW kind \in Kinds, NEW data \in Payloads(kind),
           submit(t, d, o, w[1], w[2], kind, data)
    PROVE  \E s : SubmitOutcome(t, d, o, s)
<1> DEFINE r == [state |-> "Requested", domain |-> d, object |-> o,
                 offset |-> w[1], length |-> w[2], kind |-> kind,
                 data |-> data, authGen |-> NoGen, phys |-> NoAddr,
                 fault |-> "NoFault"]
<1>1. r \in Transaction
  BY BoundsAssumption DEF Transaction, TxState, AccessKind, FaultReason, Span, Payloads
<1>2. r.domain = d /\ r.object = o /\ r.state = "Requested"
  OBVIOUS
<1>3. /\ UNCHANGED <<objVars, placement, domVars, memory>>
      /\ \/ fault_transaction(t, r, "InvalidSpan")
         \/ tx' = [tx EXCEPT ![t] = r] /\ UNCHANGED faultLog
  BY DEF submit
<1> HIDE DEF r
<1>4. CASE tx' = [tx EXCEPT ![t] = r] /\ UNCHANGED faultLog
  BY Zenon, <1>1, <1>2, <1>3, <1>4 DEF SubmitOutcome
<1>5. CASE fault_transaction(t, r, "InvalidSpan")
  <2>1. SubmitOutcome(t, d, o, Faulted(r, "InvalidSpan"))
    BY <1>1, <1>2, <1>3, <1>5, FaultedRecord
       DEF SubmitOutcome, fault_transaction, SameRequest, FaultReason
  <2> QED
    BY <2>1
<1> QED
  BY <1>3, <1>4, <1>5

\* The types of what a transaction record says about its request.
LEMMA TxFields ==
    ASSUME TypeOK, NEW t \in TxIds
    PROVE  /\ tx[t].object \in ObjectIds /\ tx[t].domain \in Domains
           /\ tx[t].offset \in Nat /\ tx[t].length \in Nat
           /\ tx[t].phys \in Int
<1>1. tx[t] \in Transaction
  BY DEF TypeOK
<1>2. tx[t].object \in ObjectIds /\ tx[t].domain \in Domains
      /\ tx[t].offset \in Span /\ tx[t].length \in Span
      /\ tx[t].phys \in (0 .. AddrMax) \cup {NoAddr}
  BY <1>1 DEF Transaction
<1> QED
  BY <1>2, BoundsAssumption DEF Span, NoAddr

\* Every operation, moves included, keeps every table's type.
LEMMA TypeStep == TypeOK /\ [Next]_vars => TypeOK'
<1> SUFFICES ASSUME TypeOK, [Next]_vars PROVE TypeOK'
  OBVIOUS
<1> USE BoundsAssumption
<1>1. ASSUME NEW size \in Sizes, try_alloc_object(size) PROVE TypeOK'
  <2>1. nextObject \in ObjectIds /\ size \in Span /\ 0 \in 0 .. (GenMod - 1)
    BY <1>1 DEF TypeOK, try_alloc_object, ObjectIds, Span
  <2>2. nextObject' \in 0 .. NumObjects
    BY <1>1 DEF TypeOK, try_alloc_object
  <2>3. /\ objState' \in [ObjectIds -> {"Absent", "Active", "Sealed", "Revoked"}]
        /\ objGen' \in [ObjectIds -> 0 .. (GenMod - 1)]
        /\ objSize' \in [ObjectIds -> Span]
    BY <1>1, <2>1 DEF TypeOK, try_alloc_object
  <2> QED
    BY <1>1, <2>2, <2>3 DEF TypeOK, try_alloc_object, domVars, txVars
<1>2. ASSUME NEW o \in ObjectIds, NEW base \in 0 .. AddrMax, SetPlacement(o, base)
      PROVE  TypeOK'
  BY <1>2 DEF TypeOK, SetPlacement, objVars, domVars, txVars
<1>3. ASSUME NEW o \in ObjectIds, revoke(o) \/ seal_object(o) PROVE TypeOK'
  <2>1. objGen[o] \in 0 .. (GenMod - 1)
    BY DEF TypeOK
  <2>2. nextGen(objGen[o]) \in 0 .. (GenMod - 1)
    BY <2>1, NextGenType
  <2>3. CASE revoke(o)
    BY <2>2, <2>3 DEF TypeOK, revoke, domVars, txVars
  <2>4. CASE seal_object(o)
    BY <2>2, <2>4 DEF TypeOK, seal_object, domVars, txVars
  <2> QED
    BY <1>3, <2>3, <2>4
<1>4. ASSUME NEW o \in ObjectIds, destroy_object(o) \/ rollback_unpublished_object(o)
      PROVE  TypeOK'
  <2>1. RemoveEntry(o) /\ UNCHANGED <<domVars, txVars, memory>>
    BY <1>4 DEF destroy_object, rollback_unpublished_object
  <2>2. nextObject' \in 0 .. NumObjects
    BY <1>4 DEF TypeOK, destroy_object, rollback_unpublished_object, ObjectIds
  <2> QED
    BY <2>1, <2>2 DEF TypeOK, RemoveEntry, domVars, txVars, Span
<1>5. ASSUME NEW o \in ObjectIds, zero_object_extent(o) PROVE TypeOK'
  BY <1>5 DEF TypeOK, zero_object_extent, Fill, objVars, domVars, txVars
<1>6. ASSUME NEW o \in ObjectIds, NEW w \in Windows, NEW v \in Values,
             initialize_object(o, w[1], w[2], v)
      PROVE  TypeOK'
  BY <1>6 DEF TypeOK, initialize_object, Fill, objVars, domVars, txVars
<1>7. ASSUME NEW d \in Domains, create_domain(d) \/ destroy_domain(d) PROVE TypeOK'
  BY Zenon, <1>7 DEF TypeOK, create_domain, destroy_domain, objVars, txVars
<1>8. ASSUME NEW d \in Domains, NEW o \in ObjectIds, NEW w \in Windows,
             NEW perms \in PermSets, grant(d, o, w[1], w[2], perms)
      PROVE  TypeOK'
  <2>1. Cap(o, objGen[o], w[1], w[2], perms) \in Capability64
    BY DEF TypeOK, Cap, Capability64, Span
  <2> QED
    BY <1>8, <2>1 DEF TypeOK, grant, objVars, txVars
<1>9. ASSUME NEW d \in Domains, NEW e \in Domains, NEW parent \in caps[e],
             NEW w \in Windows, NEW perms \in PermSets,
             derive(d, parent, w[1], w[2], perms)
      PROVE  TypeOK'
  <2>1. Cap(parent.object, parent.generation, w[1], w[2], perms) \in Capability64
    BY DEF TypeOK, Cap, Capability64, Span
  <2> QED
    BY <1>9, <2>1 DEF TypeOK, derive, objVars, txVars
<1>10. ASSUME NEW d \in Domains, NEW c \in caps[d], remove_by_authority_id(d, c)
       PROVE  TypeOK'
  BY <1>10 DEF TypeOK, remove_by_authority_id, objVars, txVars
<1>11. ASSUME NEW d \in Domains, NEW dma \in Domains, NEW parent \in caps[d],
              NEW w \in Windows, NEW p \in {"READ", "WRITE"},
              delegate_dma_span(d, parent, dma, w[1], w[2], {p})
       PROVE  TypeOK'
  <2>1. Cap(parent.object, parent.generation, w[1], w[2], {p}) \in Capability64
    BY DEF TypeOK, Cap, Capability64, Span, Permissions
  <2> QED
    BY <1>11, <2>1 DEF TypeOK, delegate_dma_span, objVars, txVars
<1>12. ASSUME NEW t \in TxIds, NEW d \in Domains, NEW o \in ObjectIds,
              NEW w \in Windows, NEW kind \in Kinds, NEW data \in Payloads(kind),
              submit(t, d, o, w[1], w[2], kind, data)
       PROVE  TypeOK'
  <2>1. PICK s : SubmitOutcome(t, d, o, s)
    BY <1>12, SubmitStep
  <2> QED
    BY <2>1 DEF TypeOK, SubmitOutcome, objVars, domVars
<1>13. ASSUME NEW t \in TxIds,
              phase_authorize(t) \/ phase_translate(t) \/ phase_commit(t)
       PROVE  TypeOK'
  <2>1. PICK s : PhaseOutcome(t, s)
    BY <1>13, PhaseStep
  <2>2. tx[t] \in Transaction /\ tx[t].object \in ObjectIds
        /\ tx[t].data \in Values \cup {Short}
    BY DEF TypeOK, Transaction
  <2>3. tx' \in [TxIds -> Transaction] /\ faultLog' \in SUBSET ObjectIds
    BY <2>1, <2>2 DEF PhaseOutcome, SameRequest, TypeOK
  <2>4. precommit_error(tx[t]) = "NoFault" /\ Mutates(tx[t]) => tx[t].data \in Values
    BY <2>2 DEF precommit_error, denial
  <2>5. memory' \in [0 .. (MemSize - 1) -> Values]
    BY Zenon, <2>1, <2>4 DEF PhaseOutcome, Fill, TypeOK
  <2> QED
    BY <2>1, <2>3, <2>5 DEF PhaseOutcome, TypeOK, objVars, domVars
<1>16. ASSUME NEW drop \in BOOLEAN, discard_completed_compiler_trace(drop)
       PROVE  TypeOK'
  BY <1>16, EmptyTxType DEF TypeOK, discard_completed_compiler_trace, objVars, domVars
<1>17. CASE UNCHANGED vars
  BY <1>17 DEF TypeOK, vars, objVars, domVars, txVars
<1> HIDE BoundsAssumption
<1>18. CASE ObjectStep
  BY <1>18, <1>1, <1>2, <1>3, <1>4, <1>5, <1>6 DEF ObjectStep, place_object
<1>19. CASE DomainStep
  BY Zenon, <1>19, <1>7, <1>8, <1>9, <1>10, <1>11 DEF DomainStep, GrantStep, Domains
<1>20. CASE TxStep
  BY <1>20, <1>12, <1>13, <1>16 DEF TxStep
<1> QED
  BY <1>2, <1>17, <1>18, <1>19, <1>20 DEF Next, StaticNext, move_object

\* The tables start with their types.
LEMMA TypeInit == Init => TypeOK
<1> SUFFICES ASSUME Init PROVE TypeOK
  OBVIOUS
<1> QED
  BY BoundsAssumption, EmptyTxType DEF Init, TypeOK, Span, ObjectIds

\* The fabric's tables keep their types under every operation, moves included:
\* no offset, address or generation leaves its range.
THEOREM TypeCorrect == Spec => []TypeOK
BY TypeInit, TypeStep, PTL DEF Spec

-----------------------------------------------------------------------------
(* The inductive invariant *)

\* The transaction has been authorized and has not ended.
Underway(r) == r.state \in {"Authorized", "Prepared"}

\* An id that next_object_id has not reached is in no table, no capability and no
\* authorized transaction, so handing it out again is invisible.  A request may name
\* such an id: submit does not look at the object.
IdsFresh ==
    \A o \in ObjectIds : o >= nextObject =>
        /\ objState[o] = "Absent"
        /\ \A d \in Domains : \A c \in caps[d] : c.object # o
        /\ \A t \in TxIds : Underway(tx[t]) => tx[t].object # o

\* Only seal_object and revoke advance a generation, and both leave Active.
GenOfState ==
    \A o \in ObjectIds :
        /\ objState[o] = "Active" => objGen[o] = 0
        /\ objState[o] = "Sealed" => objGen[o] = 1
        /\ objState[o] = "Absent" => placement[o] = NotPlaced

\* The generation of a capability tells which side of W xor X it is on.
CapsMinted ==
    \A d \in Domains : \A c \in caps[d] :
        /\ "EXECUTE" \in c.perms => c.generation = 1
        /\ c.perms \cap {"WRITE", "ATOMIC", "SEAL"} # {} => c.generation = 0
        /\ objState[c.object] = "Active" => c.generation = 0

AuthInv == TypeOK /\ IdsFresh /\ GenOfState /\ CapsMinted

\* The authority invariant holds initially.
LEMMA AuthInvInit == Init => AuthInv
<1> SUFFICES ASSUME Init PROVE AuthInv
  OBVIOUS
<1>1. TypeOK
  BY TypeInit
<1>2. IdsFresh
  BY DEF Init, IdsFresh, EmptyTx, Underway
<1>3. GenOfState
  BY DEF Init, GenOfState
<1>4. CapsMinted
  BY DEF Init, CapsMinted
<1> QED
  BY <1>1, <1>2, <1>3, <1>4 DEF AuthInv

\* A step that touches neither the object table nor the capabilities, and that
\* authorizes no transaction for an id yet to come, keeps the authority invariant.
LEMMA AuthInvFrame ==
    ASSUME AuthInv,
           UNCHANGED <<nextObject, objState, objGen, caps>>,
           \A o \in ObjectIds : objState[o] = "Absent" => placement'[o] = NotPlaced,
           \A t \in TxIds : Underway(tx'[t]) =>
                \/ Underway(tx[t]) /\ tx'[t].object = tx[t].object
                \/ ~(tx'[t].object >= nextObject)
    PROVE  IdsFresh' /\ GenOfState' /\ CapsMinted'
<1>1. IdsFresh'
  BY DEF AuthInv, IdsFresh
<1>2. GenOfState'
  BY DEF AuthInv, GenOfState
<1>3. CapsMinted'
  BY DEF AuthInv, CapsMinted
<1> QED
  BY <1>1, <1>2, <1>3

\* A step that only adds capabilities to one domain keeps the authority
\* invariant if each new capability names an allocated object and stands on the
\* side of W xor X that its generation says.
LEMMA AuthInvNewCap ==
    ASSUME AuthInv, NEW d \in Domains, NEW c \in Capability64,
           caps'[d] \subseteq caps[d] \cup {c},
           \A e \in Domains \ {d} : caps'[e] = caps[e],
           UNCHANGED <<nextObject, objState, objGen, placement, tx>>,
           Live(c.object),
           "EXECUTE" \in c.perms => c.generation = 1,
           c.perms \cap {"WRITE", "ATOMIC", "SEAL"} # {} => c.generation = 0,
           c.generation = objGen[c.object]
    PROVE  IdsFresh' /\ GenOfState' /\ CapsMinted'
<1>1. c.object \in ObjectIds
  BY DEF Capability64
<1>2. ~(c.object >= nextObject)
  BY <1>1 DEF AuthInv, IdsFresh, Live
<1>3. IdsFresh'
  BY <1>2 DEF AuthInv, IdsFresh
<1>4. GenOfState'
  BY DEF AuthInv, GenOfState
<1>5. CapsMinted'
  BY <1>1 DEF AuthInv, CapsMinted, GenOfState
<1> QED
  BY <1>3, <1>4, <1>5

\* Every operation keeps the authority invariant.
LEMMA AuthInvStep == AuthInv /\ [Next]_vars => AuthInv'
<1> SUFFICES ASSUME AuthInv, [Next]_vars PROVE IdsFresh' /\ GenOfState' /\ CapsMinted'
  BY TypeStep DEF AuthInv
<1>0. TypeOK
  BY DEF AuthInv
<1> DEFINE Goal == IdsFresh' /\ GenOfState' /\ CapsMinted'
<1>1. ASSUME NEW size \in Sizes, try_alloc_object(size) PROVE Goal
  <2>1. nextObject \in ObjectIds /\ objState[nextObject] = "Absent"
        /\ placement[nextObject] = NotPlaced
    BY <1>0, <1>1, BoundsAssumption
       DEF try_alloc_object, ObjectIds, TypeOK, AuthInv, IdsFresh, GenOfState
  <2>2. \A o \in ObjectIds : o >= nextObject' => o >= nextObject /\ o # nextObject
    BY <1>0, <1>1 DEF try_alloc_object, ObjectIds, TypeOK
  <2>3. IdsFresh'
    BY <1>0, <1>1, <2>1, <2>2
       DEF try_alloc_object, AuthInv, IdsFresh, TypeOK, domVars, txVars
  <2>4. GenOfState'
    BY <1>0, <1>1, <2>1 DEF try_alloc_object, AuthInv, GenOfState, TypeOK
  <2>5. \A d \in Domains : \A c \in caps[d] : c.object # nextObject
    BY <1>0, <2>1 DEF AuthInv, IdsFresh, TypeOK
  <2>6. CapsMinted'
    BY <1>0, <1>1, <2>5 DEF try_alloc_object, AuthInv, CapsMinted, TypeOK, domVars
  <2> QED
    BY <2>3, <2>4, <2>6
<1>2. ASSUME NEW o \in ObjectIds, NEW base \in 0 .. AddrMax, SetPlacement(o, base)
      PROVE  Goal
  <2>1. \A e \in ObjectIds : objState[e] = "Absent" => placement'[e] = NotPlaced
    BY Zenon, <1>0, <1>2 DEF SetPlacement, AuthInv, GenOfState, TypeOK
  <2> QED
    BY <1>2, <2>1, AuthInvFrame DEF SetPlacement, objVars, domVars, txVars
<1>3. ASSUME NEW o \in ObjectIds, revoke(o) PROVE Goal
  <2>1. IdsFresh'
    BY <1>0, <1>3 DEF revoke, AuthInv, IdsFresh, TypeOK, domVars, txVars
  <2>2. GenOfState'
    BY <1>0, <1>3 DEF revoke, AuthInv, GenOfState, TypeOK
  <2>3. CapsMinted'
    BY <1>0, <1>3 DEF revoke, AuthInv, CapsMinted, TypeOK, domVars
  <2> QED
    BY <2>1, <2>2, <2>3
<1>4. ASSUME NEW o \in ObjectIds, seal_object(o) PROVE Goal
  <2>1. IdsFresh'
    BY <1>0, <1>4 DEF seal_object, AuthInv, IdsFresh, TypeOK, domVars, txVars
  <2>2. GenOfState'
    BY <1>0, <1>4, NextGenOfZero DEF seal_object, AuthInv, GenOfState, TypeOK
  <2>3. CapsMinted'
    BY <1>0, <1>4 DEF seal_object, AuthInv, CapsMinted, TypeOK, domVars
  <2> QED
    BY <2>1, <2>2, <2>3
<1>5. ASSUME NEW o \in ObjectIds, destroy_object(o) PROVE Goal
  <2>1. IdsFresh'
    BY <1>0, <1>5 DEF destroy_object, RemoveEntry, AuthInv, IdsFresh, TypeOK, domVars, txVars
  <2>2. GenOfState'
    BY <1>0, <1>5 DEF destroy_object, RemoveEntry, AuthInv, GenOfState, TypeOK
  <2>3. CapsMinted'
    BY <1>0, <1>5 DEF destroy_object, RemoveEntry, AuthInv, CapsMinted, TypeOK, domVars
  <2> QED
    BY <2>1, <2>2, <2>3
<1>6. ASSUME NEW o \in ObjectIds, rollback_unpublished_object(o) PROVE Goal
  <2>1. \A e \in ObjectIds : e >= nextObject' => e = o \/ e >= nextObject
    BY <1>6 DEF rollback_unpublished_object, ObjectIds
  <2>2. IdsFresh'
    BY <1>0, <1>6, <2>1
       DEF rollback_unpublished_object, RemoveEntry, Unreferenced, AuthInv, IdsFresh,
           Underway, TypeOK, domVars, txVars
  <2>3. GenOfState'
    BY <1>0, <1>6 DEF rollback_unpublished_object, RemoveEntry, AuthInv, GenOfState, TypeOK
  <2>4. CapsMinted'
    BY <1>0, <1>6
       DEF rollback_unpublished_object, RemoveEntry, AuthInv, CapsMinted, TypeOK, domVars
  <2> QED
    BY <2>2, <2>3, <2>4
<1>7. ASSUME UNCHANGED <<objVars, placement, domVars, txVars>> PROVE Goal
  BY <1>7, AuthInvFrame DEF objVars, domVars, txVars, AuthInv, GenOfState
<1>8. ASSUME NEW d \in Domains, create_domain(d) PROVE Goal
  BY <1>8, AuthInvFrame DEF create_domain, objVars, txVars, AuthInv, GenOfState
<1>9. ASSUME NEW d \in Domains,
             destroy_domain(d) \/ \E c \in caps[d] : remove_by_authority_id(d, c)
      PROVE  Goal
  <2>1. \A e \in Domains : caps'[e] \subseteq caps[e]
    BY <1>0, <1>9 DEF destroy_domain, remove_by_authority_id, TypeOK
  <2>2. UNCHANGED <<objVars, placement, txVars>>
    BY <1>9 DEF destroy_domain, remove_by_authority_id
  <2>3. IdsFresh'
    BY <2>1, <2>2 DEF AuthInv, IdsFresh, objVars, txVars
  <2>4. GenOfState'
    BY <2>2 DEF AuthInv, GenOfState, objVars
  <2>5. CapsMinted'
    BY <2>1, <2>2 DEF AuthInv, CapsMinted, objVars
  <2> QED
    BY <2>3, <2>4, <2>5
<1>10. ASSUME NEW d \in Domains, NEW o \in ObjectIds, NEW w \in Windows,
              NEW perms \in PermSets, grant(d, o, w[1], w[2], perms)
       PROVE  Goal
  <2> DEFINE c == Cap(o, objGen[o], w[1], w[2], perms)
  <2>1. c \in Capability64 /\ c.object = o /\ c.generation = objGen[o] /\ c.perms = perms
    BY <1>0, BoundsAssumption DEF Cap, Capability64, TypeOK, Span
  <2>2. Live(o)
    BY <1>10 DEF grant, Mintable, Live
  <2>3. /\ "EXECUTE" \in perms => objGen[o] = 1
        /\ perms \cap {"WRITE", "ATOMIC", "SEAL"} # {} => objGen[o] = 0
    BY <1>10 DEF grant, Mintable, AuthInv, GenOfState
  <2>4. caps' = [caps EXCEPT ![d] = @ \cup {c}]
        /\ UNCHANGED <<nextObject, objState, objGen, placement, tx>>
    BY Zenon, <1>10 DEF grant, objVars, txVars
  <2> HIDE DEF c
  <2>5. caps'[d] \subseteq caps[d] \cup {c} /\ \A e \in Domains \ {d} : caps'[e] = caps[e]
    BY <1>0, <2>4 DEF TypeOK
  <2> QED
    BY <2>1, <2>2, <2>3, <2>4, <2>5, AuthInvNewCap
<1>11. ASSUME NEW d \in Domains, NEW e \in Domains, NEW parent \in caps[e],
              NEW w \in Windows, NEW perms \in SUBSET Permissions,
              caps'[d] \subseteq
                caps[d] \cup {Cap(parent.object, parent.generation, w[1], w[2], perms)},
              \A x \in Domains \ {d} : caps'[x] = caps[x],
              perms \subseteq parent.perms, validate(parent),
              UNCHANGED <<objVars, placement, txVars>>
       PROVE  Goal
  <2> DEFINE c == Cap(parent.object, parent.generation, w[1], w[2], perms)
  <2>1. parent \in Capability64
    BY <1>0 DEF TypeOK
  <2>2. c \in Capability64 /\ c.object = parent.object
        /\ c.generation = parent.generation /\ c.perms = perms
    BY <2>1, BoundsAssumption DEF Cap, Capability64, Span
  <2>3. Live(parent.object) /\ parent.generation = objGen[parent.object]
    BY <1>11 DEF validate
  <2>4. /\ "EXECUTE" \in perms => parent.generation = 1
        /\ perms \cap {"WRITE", "ATOMIC", "SEAL"} # {} => parent.generation = 0
    BY <1>11 DEF AuthInv, CapsMinted
  <2>5. caps'[d] \subseteq caps[d] \cup {c}
        /\ UNCHANGED <<nextObject, objState, objGen, placement, tx>>
    BY <1>11 DEF objVars, txVars
  <2> HIDE DEF c
  <2> QED
    BY Zenon, <1>11, <2>2, <2>3, <2>4, <2>5, AuthInvNewCap
<1>12. ASSUME NEW d \in Domains, NEW e \in Domains, NEW parent \in caps[e],
              NEW w \in Windows, NEW perms \in PermSets,
              derive(d, parent, w[1], w[2], perms)
       PROVE  Goal
  <2>1. /\ perms \in SUBSET Permissions /\ perms \subseteq parent.perms
        /\ validate(parent) /\ UNCHANGED <<objVars, placement, txVars>>
    BY <1>12, BoundsAssumption DEF derive, Attenuates
  <2>2. /\ caps'[d] \subseteq
             caps[d] \cup {Cap(parent.object, parent.generation, w[1], w[2], perms)}
        /\ \A x \in Domains \ {d} : caps'[x] = caps[x]
    BY <1>0, <1>12 DEF derive, TypeOK
  <2> QED
    BY <1>11, <2>1, <2>2
<1>13. ASSUME NEW d \in Domains, NEW dma \in Domains, NEW parent \in caps[d],
              NEW w \in Windows, NEW p \in {"READ", "WRITE"},
              delegate_dma_span(d, parent, dma, w[1], w[2], {p})
       PROVE  Goal
  <2>1. {p} \in SUBSET Permissions /\ {p} \subseteq parent.perms
    BY Zenon, <1>13 DEF delegate_dma_span, covers, Permissions
  <2>2. /\ caps'[dma] \subseteq
             caps[dma] \cup {Cap(parent.object, parent.generation, w[1], w[2], {p})}
        /\ \A x \in Domains \ {dma} : caps'[x] = caps[x]
    BY <1>0, <1>13 DEF delegate_dma_span, TypeOK
  <2>3. validate(parent) /\ UNCHANGED <<objVars, placement, txVars>>
    BY <1>13 DEF delegate_dma_span
  <2> QED
    BY Zenon, <1>11, <2>1, <2>2, <2>3
<1>14. ASSUME NEW t \in TxIds, NEW d \in Domains, NEW o \in ObjectIds,
              NEW w \in Windows, NEW kind \in Kinds, NEW data \in Payloads(kind),
              submit(t, d, o, w[1], w[2], kind, data)
       PROVE  Goal
  <2>1. /\ ~Underway(tx'[t])
        /\ \A u \in TxIds \ {t} : tx'[u] = tx[u]
        /\ UNCHANGED <<objVars, placement, domVars>>
    <3>1. PICK s : SubmitOutcome(t, d, o, s)
      BY <1>0, <1>14, SubmitStep
    <3> QED
      BY <1>0, <3>1 DEF SubmitOutcome, TypeOK, Underway
  <2>2. IdsFresh'
    BY <1>0, <2>1 DEF AuthInv, IdsFresh, objVars, domVars, TypeOK, ObjectIds
  <2>3. GenOfState'
    BY Zenon, <2>1 DEF AuthInv, GenOfState, objVars
  <2>4. CapsMinted'
    BY <2>1 DEF AuthInv, CapsMinted, objVars, domVars
  <2> QED
    BY <2>2, <2>3, <2>4
<1>15. ASSUME NEW t \in TxIds,
              phase_authorize(t) \/ phase_translate(t) \/ phase_commit(t)
       PROVE  Goal
  <2>1. PICK s : PhaseOutcome(t, s)
    BY <1>0, <1>15, PhaseStep
  <2>2. tx' = [tx EXCEPT ![t] = s] /\ s.object = tx[t].object
        /\ UNCHANGED <<nextObject, objState, objGen, placement, caps>>
    BY Zenon, <2>1 DEF PhaseOutcome, SameRequest, objVars, domVars
  <2>3. ASSUME NEW c \in Authorizing(tx[t]) PROVE ~(tx[t].object >= nextObject)
    <3>1. Live(tx[t].object) /\ tx[t].object \in ObjectIds
      BY <1>0, <2>3, TxFields DEF Authorizing, Covering, covers, validate
    <3> QED
      BY <3>1 DEF AuthInv, IdsFresh, Live
  <2>4. Underway(s) => \/ Underway(tx[t])
                       \/ ~(tx[t].object >= nextObject)
    BY Zenon, <2>1, <2>3 DEF PhaseOutcome, Underway
  <2>5. \A u \in TxIds : Underway(tx'[u]) =>
            \/ Underway(tx[u]) /\ tx'[u].object = tx[u].object
            \/ ~(tx'[u].object >= nextObject)
    BY Zenon, <1>0, <2>2, <2>4 DEF TypeOK
  <2> QED
    BY <2>2, <2>5, AuthInvFrame DEF AuthInv, GenOfState
<1>16. ASSUME NEW drop \in BOOLEAN, discard_completed_compiler_trace(drop) PROVE Goal
  <2>1. \A u \in TxIds : ~Underway(tx'[u])
    BY <1>16 DEF discard_completed_compiler_trace, EmptyTx, Underway
  <2>2. UNCHANGED <<nextObject, objState, objGen, placement, caps>>
    BY <1>16 DEF discard_completed_compiler_trace, objVars, domVars
  <2> QED
    BY <2>1, <2>2, AuthInvFrame DEF AuthInv, GenOfState
<1>17. CASE ObjectStep
  BY Zenon, <1>17, <1>1, <1>2, <1>3, <1>4, <1>5, <1>6, <1>7
     DEF ObjectStep, place_object, zero_object_extent, initialize_object
<1>18. CASE DomainStep
  BY Zenon, <1>18, <1>8, <1>9, <1>10, <1>12, <1>13 DEF DomainStep, GrantStep, Domains
<1>19. CASE TxStep
  BY <1>19, <1>14, <1>15, <1>16 DEF TxStep
<1>20. CASE UNCHANGED vars
  BY <1>20, <1>7 DEF vars
<1> QED
  BY <1>2, <1>17, <1>18, <1>19, <1>20 DEF Next, StaticNext, move_object

\* Whatever is in the tables, authority keeps its shape.
THEOREM AuthorityInvariant == Spec => []AuthInv
BY AuthInvInit, AuthInvStep, PTL DEF Spec

\* W xor X for every number of objects, domains and capabilities, with moves:
\* no live object has a valid writing and a valid executing capability at once.
THEOREM WriteXorExecuteHolds == Spec => []WriteXorExecute
<1>1. AuthInv => WriteXorExecute
  <2> SUFFICES ASSUME AuthInv, NEW d \in Domains, NEW e \in Domains,
                      NEW c \in caps[d], NEW x \in caps[e],
                      c.object = x.object, validate(c), validate(x),
                      "EXECUTE" \in x.perms
               PROVE  c.perms \cap {"WRITE", "ATOMIC", "SEAL"} = {}
    BY DEF WriteXorExecute
  <2>1. c.generation = x.generation /\ x.generation = 1
    BY DEF validate, AuthInv, CapsMinted
  <2> QED
    BY <2>1 DEF AuthInv, CapsMinted
<1> QED
  BY <1>1, AuthorityInvariant, PTL

=============================================================================
