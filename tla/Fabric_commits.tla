--------------------------- MODULE Fabric_commits ---------------------------
(***************************************************************************)
(* Proofs about what a step of the fabric may do: stale capabilities stay  *)
(* stale, authority is not made from nothing, placements stay disjoint, a  *)
(* commit touches only its own object, sealed contents do not change, and  *)
(* a device's transaction commits at the generation that authorized it.    *)
(***************************************************************************)
EXTENDS Fabric_proofs

-----------------------------------------------------------------------------
(* Staleness and confinement *)

\* Transactions change neither objects nor domains.
LEMMA TxStepFrame ==
    ASSUME TxStep
    PROVE  UNCHANGED <<objVars, placement, domVars>>
<1>1. ASSUME NEW t \in TxIds,
             phase_authorize(t) \/ phase_translate(t) \/ phase_commit(t)
      PROVE  UNCHANGED <<objVars, placement, domVars>>
  BY Zenon, <1>1 DEF phase_authorize, phase_translate, phase_commit
<1>2. ASSUME NEW t \in TxIds, NEW d \in Domains, NEW o \in ObjectIds,
             NEW w \in Windows, NEW kind \in Kinds, NEW data \in Payloads(kind),
             submit(t, d, o, w[1], w[2], kind, data)
      PROVE  UNCHANGED <<objVars, placement, domVars>>
  BY Zenon, <1>2 DEF submit
<1>3. ASSUME NEW drop \in BOOLEAN, discard_completed_compiler_trace(drop)
      PROVE  UNCHANGED <<objVars, placement, domVars>>
  BY <1>3 DEF discard_completed_compiler_trace
<1> QED
  BY <1>1, <1>2, <1>3 DEF TxStep

\* What a step may do to the table entry of an object.
LEMMA ObjectFate ==
    ASSUME AuthInv, [Next]_vars, NEW o \in ObjectIds
    PROVE  \/ objState'[o] = objState[o] /\ objGen'[o] = objGen[o] /\ objSize'[o] = objSize[o]
           \/ objState'[o] = "Absent"
           \/ objState'[o] = "Revoked" /\ objState[o] # "Absent"
           \/ /\ objState[o] = "Active" /\ objState'[o] = "Sealed"
              /\ objGen'[o] = 1 /\ objSize'[o] = objSize[o]
           \/ o = nextObject /\ objState[o] = "Absent"
<1>0. TypeOK
  BY DEF AuthInv
<1>1. ASSUME NEW size \in Sizes, try_alloc_object(size)
      PROVE  o # nextObject => objState'[o] = objState[o] /\ objGen'[o] = objGen[o]
                               /\ objSize'[o] = objSize[o]
  BY <1>0, <1>1 DEF try_alloc_object, TypeOK
<1>2. o = nextObject => objState[o] = "Absent"
  BY <1>0 DEF AuthInv, IdsFresh, TypeOK
<1>3. ASSUME NEW e \in ObjectIds,
             \/ revoke(e) \/ destroy_object(e) \/ rollback_unpublished_object(e)
      PROVE  IF e = o THEN \/ objState'[o] = "Absent"
                           \/ objState'[o] = "Revoked" /\ objState[o] # "Absent"
                      ELSE objState'[o] = objState[o] /\ objGen'[o] = objGen[o]
                           /\ objSize'[o] = objSize[o]
  BY <1>0, <1>3
     DEF revoke, destroy_object, rollback_unpublished_object, RemoveEntry, TypeOK
<1>4. ASSUME NEW e \in ObjectIds, seal_object(e)
      PROVE  IF e = o THEN /\ objState[o] = "Active" /\ objState'[o] = "Sealed"
                           /\ objGen'[o] = 1 /\ objSize'[o] = objSize[o]
                      ELSE objState'[o] = objState[o] /\ objGen'[o] = objGen[o]
                           /\ objSize'[o] = objSize[o]
  BY <1>0, <1>4, NextGenOfZero DEF seal_object, AuthInv, GenOfState, TypeOK
<1>5. CASE UNCHANGED objVars
  BY <1>5 DEF objVars
<1>6. CASE ObjectStep
  BY Zenon, <1>1, <1>2, <1>3, <1>4, <1>5, <1>6
     DEF ObjectStep, place_object, SetPlacement, zero_object_extent, initialize_object
<1>7. CASE DomainStep
  BY Zenon, <1>5, <1>7 DEF DomainStep, GrantStep, create_domain, destroy_domain, grant, derive,
                    remove_by_authority_id, delegate_dma_span
<1>8. CASE TxStep
  BY Zenon, <1>5, <1>8, TxStepFrame
<1>9. CASE \E e \in ObjectIds, base \in 0 .. AddrMax : move_object(e, base)
  BY Zenon, <1>5, <1>9 DEF move_object, SetPlacement
<1>10. CASE UNCHANGED vars
  BY Zenon, <1>5, <1>10 DEF vars
<1> QED
  BY Zenon, <1>6, <1>7, <1>8, <1>9, <1>10 DEF Next, StaticNext

\* One step never revives a capability.
LEMMA StaleStep ==
    ASSUME AuthInv, [Next]_vars, NEW d \in Domains, NEW c \in caps[d],
           validate(c)'
    PROVE  validate(c)
<1>1. c.object \in ObjectIds
  BY DEF AuthInv, TypeOK, Capability64
<1>2. c.object # nextObject
  <2>1. nextObject \in Nat
    BY DEF AuthInv, TypeOK
  <2>2. \A o \in ObjectIds : o >= nextObject => c.object # o
    BY DEF AuthInv, IdsFresh
  <2> QED
    BY <1>1, <2>1, <2>2
<1>3. ~(objState[c.object] = "Active" /\ objState'[c.object] = "Sealed"
        /\ objGen'[c.object] = 1)
  BY DEF validate, AuthInv, CapsMinted
<1>4. /\ objState'[c.object] = objState[c.object]
      /\ objGen'[c.object] = objGen[c.object]
      /\ objSize'[c.object] = objSize[c.object]
  BY <1>1, <1>2, <1>3, ObjectFate DEF validate, Live
<1> QED
  BY Zenon, <1>4 DEF validate, Live

\* I8 for every history: revoke, seal_object, destroy_object and the reuse of an
\* id by rollback_unpublished_object never let a stale capability validate again.
THEOREM StaleForeverHolds == Spec => StaleForever
<1>1. AuthInv /\ [Next]_vars =>
        [\A d \in Domains : \A c \in caps[d] \cap caps'[d] :
            validate(c)' => validate(c)]_vars
  BY StaleStep
<1> QED
  BY <1>1, AuthorityInvariant, PTL DEF Spec, StaleForever

\* A capability that appears without a grant is an attenuated copy of a valid one.
LEMMA NewCapHasParent ==
    ASSUME AuthInv, [Next]_vars, ~GrantStep, NEW d \in Domains,
           NEW c \in caps'[d], c \notin caps[d]
    PROVE  \E e \in Domains : \E p \in caps[e] :
             /\ validate(p) /\ p.object = c.object /\ c.perms \subseteq p.perms
             /\ p.offset <= c.offset /\ c.offset + c.length <= p.offset + p.length
<1>0. TypeOK
  BY DEF AuthInv
<1>1. ASSUME NEW x \in Domains, NEW e \in Domains, NEW parent \in caps[e],
             NEW w \in Windows, NEW perms \in PermSets,
             derive(x, parent, w[1], w[2], perms)
      PROVE  \E p \in caps[e] :
             /\ validate(p) /\ p.object = c.object /\ c.perms \subseteq p.perms
             /\ p.offset <= c.offset /\ c.offset + c.length <= p.offset + p.length
  <2>1. c = Cap(parent.object, parent.generation, w[1], w[2], perms)
    BY <1>0, <1>1 DEF derive, TypeOK
  <2>2. parent \in Capability64
    BY Zenon, <1>0 DEF TypeOK
  <2>3. w[1] \in Nat /\ w[2] \in Nat /\ parent.offset \in Nat /\ parent.length \in Nat
    BY <2>2, BoundsAssumption DEF Capability64, Span
  <2>4. parent.offset <= w[1] /\ w[1] + w[2] <= parent.offset + parent.length
    <3>1. /\ w[1] >= parent.offset /\ w[2] <= parent.length
          /\ w[1] - parent.offset <= parent.length - w[2]
      BY <1>1, Zenon DEF derive, Attenuates
    <3> QED
      BY <2>3, <3>1
  <2> QED
    BY <1>1, <2>1, <2>4 DEF derive, Attenuates, Cap
<1>2. ASSUME NEW e \in Domains, NEW dma \in Domains, NEW parent \in caps[e],
             NEW w \in Windows, NEW q \in {"READ", "WRITE"},
             delegate_dma_span(e, parent, dma, w[1], w[2], {q})
      PROVE  \E p \in caps[e] :
             /\ validate(p) /\ p.object = c.object /\ c.perms \subseteq p.perms
             /\ p.offset <= c.offset /\ c.offset + c.length <= p.offset + p.length
  <2>1. c = Cap(parent.object, parent.generation, w[1], w[2], {q})
    BY <1>0, <1>2 DEF delegate_dma_span, TypeOK
  <2> QED
    BY <1>2, <2>1 DEF delegate_dma_span, covers, Cap
<1>3. CASE \A x \in Domains : caps'[x] \subseteq caps[x]
  BY <1>3
<1>4. CASE UNCHANGED caps
  BY <1>4
<1>5. CASE ObjectStep
  BY Zenon, <1>4, <1>5
     DEF ObjectStep, place_object, SetPlacement, zero_object_extent, initialize_object,
         try_alloc_object, revoke, seal_object, destroy_object,
         rollback_unpublished_object, domVars
<1>6. CASE TxStep
  BY <1>4, <1>6, TxStepFrame DEF domVars
<1>7. CASE DomainStep
  <2>1. ASSUME NEW x \in Domains, destroy_domain(x) PROVE \A y \in Domains : caps'[y] \subseteq caps[y]
    BY <1>0, <2>1 DEF destroy_domain, TypeOK
  <2>2. ASSUME NEW x \in Domains, NEW r \in caps[x], remove_by_authority_id(x, r)
        PROVE  \A y \in Domains : caps'[y] \subseteq caps[y]
    BY <1>0, <2>2 DEF remove_by_authority_id, TypeOK
  <2>3. ASSUME NEW x \in Domains, create_domain(x) PROVE UNCHANGED caps
    BY <2>3 DEF create_domain
  <2> QED
    BY Zenon, <1>1, <1>2, <1>3, <1>4, <1>7, <2>1, <2>2, <2>3 DEF DomainStep, Domains
<1>8. CASE \E e \in ObjectIds, base \in 0 .. AddrMax : move_object(e, base)
  BY <1>4, <1>8 DEF move_object, SetPlacement, domVars
<1>9. CASE UNCHANGED vars
  BY <1>4, <1>9 DEF vars, domVars
<1> QED
  BY Zenon, <1>5, <1>6, <1>7, <1>8, <1>9 DEF Next, StaticNext

\* I7 for every history: no operation but grant adds to the authority in the
\* system, whatever the derivation chains and however ids are recycled.
THEOREM AuthorityConfinedHolds == Spec => AuthorityConfined
<1>1. AuthInv /\ [Next]_vars => [GrantStep \/ Authority' \subseteq Authority]_vars
  <2> SUFFICES ASSUME AuthInv, [Next]_vars, ~GrantStep, NEW a \in Authority'
               PROVE  a \in Authority
    OBVIOUS
  <2>1. a \in ObjectIds \X (0 .. MaxSize) \X Permissions
    BY DEF Authority
  <2> PICK d \in Domains : \E c \in caps'[d] :
            /\ validate(c)' /\ c.object = a[1] /\ a[3] \in c.perms
            /\ c.offset <= a[2] /\ a[2] < c.offset + c.length
    BY DEF Authority
  <2>2. PICK c \in caps'[d] :
            /\ validate(c)' /\ c.object = a[1] /\ a[3] \in c.perms
            /\ c.offset <= a[2] /\ a[2] < c.offset + c.length
    OBVIOUS
  <2>3. CASE c \in caps[d]
    BY <2>1, <2>2, <2>3, StaleStep DEF Authority
  <2>4. CASE c \notin caps[d]
    <3> PICK e \in Domains : \E p \in caps[e] :
             /\ validate(p) /\ p.object = c.object /\ c.perms \subseteq p.perms
             /\ p.offset <= c.offset /\ c.offset + c.length <= p.offset + p.length
      BY <2>2, <2>4, NewCapHasParent
    <3>1. PICK p \in caps[e] :
             /\ validate(p) /\ p.object = c.object /\ c.perms \subseteq p.perms
             /\ p.offset <= c.offset /\ c.offset + c.length <= p.offset + p.length
      OBVIOUS
    <3>2. TypeOK /\ TypeOK'
      BY TypeStep DEF AuthInv
    <3>3. p \in Capability64 /\ c \in Capability64
      BY <3>2 DEF TypeOK
    <3>4. p.offset <= a[2] /\ a[2] < p.offset + p.length
      <4>1. /\ p.offset \in Nat /\ p.length \in Nat /\ c.offset \in Nat /\ c.length \in Nat
            /\ a[2] \in Nat
        BY <2>1, <3>3, BoundsAssumption DEF Capability64, Span
      <4>2. /\ c.offset <= a[2] /\ a[2] < c.offset + c.length
            /\ p.offset <= c.offset /\ c.offset + c.length <= p.offset + p.length
        BY <2>2, <3>1, Zenon
      <4> QED
        BY <4>1, <4>2
    <3> QED
      BY <2>1, <2>2, <3>1, <3>4 DEF Authority
  <2> QED
    BY <2>3, <2>4
<1> QED
  BY <1>1, AuthorityInvariant, PTL DEF Spec, AuthorityConfined

-----------------------------------------------------------------------------
(* Placement, provenance and sealed contents *)

\* An object that is live after a step and was not before has no placement yet.
LEMMA LiveBefore ==
    ASSUME AuthInv, [Next]_vars, NEW o \in ObjectIds, Live(o)', Placed(o)
    PROVE  Live(o) /\ objSize'[o] = objSize[o]
BY Zenon, ObjectFate DEF Live, Placed, AuthInv, GenOfState

\* What a step may do to placements.
LEMMA PlacementFate ==
    ASSUME AuthInv, [Next]_vars
    PROVE  \/ \E o \in ObjectIds, base \in 0 .. AddrMax : SetPlacement(o, base)
           \/ \A o \in ObjectIds : placement'[o] \in {placement[o], NotPlaced}
<1>0. TypeOK
  BY DEF AuthInv
<1>1. CASE UNCHANGED placement
  BY <1>1
<1>2. ASSUME NEW e \in ObjectIds, destroy_object(e) \/ rollback_unpublished_object(e)
      PROVE  \A o \in ObjectIds : placement'[o] \in {placement[o], NotPlaced}
  BY <1>0, <1>2 DEF destroy_object, rollback_unpublished_object, RemoveEntry, TypeOK
<1>3. CASE ObjectStep
  BY <1>1, <1>2, <1>3
     DEF ObjectStep, place_object, try_alloc_object, revoke, seal_object,
         zero_object_extent, initialize_object
<1>4. CASE DomainStep
  BY Zenon, <1>1, <1>4 DEF DomainStep, GrantStep, create_domain, destroy_domain, grant, derive,
                    remove_by_authority_id, delegate_dma_span
<1>5. CASE TxStep
  BY <1>1, <1>5, TxStepFrame
<1>6. CASE \E o \in ObjectIds, base \in 0 .. AddrMax : move_object(o, base)
  BY <1>6 DEF move_object
<1>7. CASE UNCHANGED vars
  BY <1>1, <1>7 DEF vars
<1> QED
  BY <1>3, <1>4, <1>5, <1>6, <1>7 DEF Next, StaticNext

\* One step keeps the extents of live objects apart.
LEMMA DisjointStep ==
    AuthInv /\ LivePlacementsDisjoint /\ [Next]_vars => LivePlacementsDisjoint'
<1> SUFFICES ASSUME AuthInv, LivePlacementsDisjoint, [Next]_vars,
                    NEW o \in ObjectIds, NEW e \in ObjectIds, o # e,
                    Live(o)', Live(e)', Placed(o)', Placed(e)'
             PROVE  End(o)' <= placement'[e] \/ End(e)' <= placement'[o]
  BY Zenon DEF LivePlacementsDisjoint
<1>0. TypeOK /\ TypeOK'
  BY TypeStep DEF AuthInv
<1>1. CASE \A x \in ObjectIds : placement'[x] \in {placement[x], NotPlaced}
  <2>1. placement'[o] = placement[o] /\ placement'[e] = placement[e] /\ Placed(o) /\ Placed(e)
    BY <1>1 DEF Placed
  <2>2. Live(o) /\ Live(e) /\ objSize'[o] = objSize[o] /\ objSize'[e] = objSize[e]
    BY <2>1, LiveBefore
  <2> QED
    BY <2>1, <2>2 DEF LivePlacementsDisjoint, End
<1>2. ASSUME NEW x \in ObjectIds, NEW base \in 0 .. AddrMax, SetPlacement(x, base)
      PROVE  End(o)' <= placement'[e] \/ End(e)' <= placement'[o]
  <2>1. UNCHANGED <<objState, objGen, objSize>> /\ placement' = [placement EXCEPT ![x] = base]
    BY Zenon, <1>2 DEF SetPlacement, objVars
  <2>2. Live(o) /\ Live(e)
    BY <2>1 DEF Live
  <2>3. ASSUME NEW y \in ObjectIds, y # x, Live(y), Placed(y)'
        PROVE  Placed(y) /\ (End(y) <= base \/ base + objSize[x] <= placement[y])
    <3>1. Placed(y) /\ ~Obstructs(x, base, y)
      BY Zenon, <1>0, <1>2, <2>1, <2>3 DEF SetPlacement, Placed, TypeOK
    <3>2. placement[y] \in Nat /\ objSize[y] \in Nat /\ objSize[x] \in Nat
      BY <1>0, <3>1, BoundsAssumption DEF TypeOK, Placed, NotPlaced, Span
    <3> QED
      BY <2>3, <3>1, <3>2 DEF Obstructs, End
  <2>4. CASE o = x
    BY Zenon, <1>0, <2>1, <2>2, <2>3, <2>4 DEF End, TypeOK
  <2>5. CASE e = x
    BY Zenon, <1>0, <2>1, <2>2, <2>3, <2>5 DEF End, TypeOK
  <2>6. CASE o # x /\ e # x
    BY Zenon, <1>0, <2>1, <2>2, <2>6 DEF LivePlacementsDisjoint, End, Placed, TypeOK
  <2> QED
    BY <2>4, <2>5, <2>6
<1> QED
  BY Zenon, <1>1, <1>2, PlacementFate

\* I9 for every history, moves included: live objects never share a cell.
THEOREM PlacementsStayDisjoint == Spec => []LivePlacementsDisjoint
<1>1. Init => LivePlacementsDisjoint
  BY DEF Init, LivePlacementsDisjoint, Placed
<1> QED
  BY <1>1, DisjointStep, AuthorityInvariant, PTL DEF Spec

\* What a step may do to a transaction.
LEMMA TxFate ==
    ASSUME AuthInv, [Next]_vars, NEW t \in TxIds
    PROVE  \/ tx'[t] = tx[t]
           \/ PhaseOutcome(t, tx'[t])
           \/ tx'[t].state = "None"
           \/ tx'[t].state \in {"Requested", "Faulted"}
<1>0. TypeOK
  BY DEF AuthInv
<1>1. CASE UNCHANGED tx
  BY <1>1
<1>2. ASSUME NEW u \in TxIds,
             phase_authorize(u) \/ phase_translate(u) \/ phase_commit(u)
      PROVE  tx'[t] = tx[t] \/ PhaseOutcome(t, tx'[t])
  <2>1. PICK s : PhaseOutcome(u, s)
    BY <1>0, <1>2, PhaseStep
  <2>2. tx' = [tx EXCEPT ![u] = s]
    BY Zenon, <2>1 DEF PhaseOutcome
  <2>3. IF u = t THEN tx'[t] = s ELSE tx'[t] = tx[t]
    BY <1>0, <2>2 DEF TypeOK
  <2> QED
    BY <2>1, <2>3
<1>3. ASSUME NEW u \in TxIds, NEW d \in Domains, NEW o \in ObjectIds,
             NEW w \in Windows, NEW kind \in Kinds, NEW data \in Payloads(kind),
             submit(u, d, o, w[1], w[2], kind, data)
      PROVE  \/ tx'[t] = tx[t]
             \/ tx'[t].state \in {"Requested", "Faulted"}
  <2>1. PICK s : SubmitOutcome(u, d, o, s)
    BY <1>0, <1>3, SubmitStep
  <2>2. IF u = t THEN tx'[t] = s ELSE tx'[t] = tx[t]
    BY <1>0, <2>1 DEF TypeOK, SubmitOutcome
  <2> QED
    BY <2>1, <2>2 DEF SubmitOutcome
<1>4. ASSUME NEW drop \in BOOLEAN, discard_completed_compiler_trace(drop)
      PROVE  tx'[t].state = "None"
  BY <1>4 DEF discard_completed_compiler_trace, EmptyTx
<1>5. CASE ObjectStep
  BY Zenon, <1>1, <1>5
     DEF ObjectStep, place_object, SetPlacement, try_alloc_object, revoke, seal_object,
         destroy_object, rollback_unpublished_object, zero_object_extent,
         initialize_object, txVars
<1>6. CASE DomainStep
  BY Zenon, <1>1, <1>6 DEF DomainStep, GrantStep, create_domain, destroy_domain, grant, derive,
                    remove_by_authority_id, delegate_dma_span, txVars
<1>7. CASE TxStep
  BY Zenon, <1>2, <1>3, <1>4, <1>7 DEF TxStep
<1>8. CASE \E o \in ObjectIds, base \in 0 .. AddrMax : move_object(o, base)
  BY Zenon, <1>1, <1>8 DEF move_object, SetPlacement, txVars
<1>9. CASE UNCHANGED vars
  BY Zenon, <1>1, <1>9 DEF vars, txVars
<1> QED
  BY <1>5, <1>6, <1>7, <1>8, <1>9 DEF Next, StaticNext

\* A commit has passed the precommit gate: some capability of its domain is
\* valid and covers the request, and the cells are inside the memory.
LEMMA CommitGate ==
    ASSUME AuthInv, [Next]_vars, NEW t \in TxIds,
           tx[t].state = "Prepared", tx'[t].state = "Committed"
    PROVE  /\ PhaseOutcome(t, tx'[t])
           /\ tx[t].phys + tx[t].length <= MemSize
           /\ Mutates(tx[t]) => tx[t].data # Short
           /\ \E c \in caps[tx[t].domain] :
                validate(c) /\ covers(c, tx[t].object, tx[t].offset, tx[t].length,
                                      {required_permission(tx[t].kind)})
<1>1. PhaseOutcome(t, tx'[t])
  BY TxFate
<1>2. precommit_error(tx[t]) = "NoFault"
  BY Zenon, <1>1 DEF PhaseOutcome
<1>3. denial(tx[t]) # "NoFault"
  BY DEF denial
<1>4. Authorizing(tx[t]) # {} /\ ~(tx[t].phys + tx[t].length > MemSize)
      /\ ~(Mutates(tx[t]) /\ tx[t].data = Short)
  BY <1>2, <1>3 DEF precommit_error
<1>5. tx[t].phys \in Int /\ tx[t].length \in Int
  BY TxFields DEF AuthInv
<1>6. tx[t].phys + tx[t].length <= MemSize
  BY <1>4, <1>5, BoundsAssumption
<1> QED
  BY Zenon, <1>1, <1>4, <1>6 DEF Authorizing, Covering

\* The address a prepared transaction carries is still where its object is: the
\* conjunct that holds only while placed objects stay where they are.
PreparedInPlace ==
    \A t \in TxIds : tx[t].state = "Prepared" /\ objState[tx[t].object] # "Absent" =>
        Placed(tx[t].object) /\ tx[t].phys = placement[tx[t].object] + tx[t].offset

\* Without moves, a placed object stays put as long as it exists.
LEMMA StaticPlacement ==
    ASSUME AuthInv, [StaticNext]_vars, NEW o \in ObjectIds, Placed(o),
           objState'[o] # "Absent"
    PROVE  placement'[o] = placement[o]
<1>0. TypeOK
  BY DEF AuthInv
<1>1. CASE UNCHANGED placement
  BY <1>1
<1>2. ASSUME NEW e \in ObjectIds, destroy_object(e) \/ rollback_unpublished_object(e)
      PROVE  placement'[o] = placement[o]
  BY <1>0, <1>2 DEF destroy_object, rollback_unpublished_object, RemoveEntry, TypeOK
<1>3. ASSUME NEW e \in ObjectIds, NEW base \in 0 .. AddrMax, place_object(e, base)
      PROVE  placement'[o] = placement[o]
  BY <1>0, <1>3 DEF place_object, SetPlacement, TypeOK
<1>4. CASE ObjectStep
  BY <1>1, <1>2, <1>3, <1>4
     DEF ObjectStep, try_alloc_object, revoke, seal_object,
         zero_object_extent, initialize_object
<1>5. CASE DomainStep
  BY Zenon, <1>1, <1>5 DEF DomainStep, GrantStep, create_domain, destroy_domain, grant, derive,
                    remove_by_authority_id, delegate_dma_span
<1>6. CASE TxStep
  BY <1>1, <1>6, TxStepFrame
<1>7. CASE UNCHANGED vars
  BY <1>1, <1>7 DEF vars
<1> QED
  BY <1>4, <1>5, <1>6, <1>7 DEF StaticNext

\* One step without a move keeps prepared addresses current.
LEMMA PreparedStep ==
    AuthInv /\ PreparedInPlace /\ [StaticNext]_vars => PreparedInPlace'
<1> SUFFICES ASSUME AuthInv, PreparedInPlace, [StaticNext]_vars, NEW t \in TxIds,
                    tx'[t].state = "Prepared", objState'[tx'[t].object] # "Absent"
             PROVE  /\ placement'[tx'[t].object] # NotPlaced
                    /\ tx'[t].phys = placement'[tx'[t].object] + tx'[t].offset
  BY Zenon DEF PreparedInPlace, Placed
<1>0. TypeOK /\ [Next]_vars
  BY Zenon DEF AuthInv, Next
<1>1. tx[t].object \in ObjectIds
  BY Zenon, <1>0 DEF TypeOK, Transaction
<1>2. CASE tx'[t] = tx[t]
  <2>1. tx[t].object # nextObject
    BY <1>0, <1>1, <1>2 DEF AuthInv, IdsFresh, Underway, TypeOK
  <2>2. objState[tx[t].object] # "Absent"
    BY Zenon, <1>0, <1>1, <1>2, <2>1, ObjectFate DEF AuthInv, GenOfState, TypeOK
  <2>3. Placed(tx[t].object) /\ tx[t].phys = placement[tx[t].object] + tx[t].offset
    BY <1>2, <2>2 DEF PreparedInPlace
  <2>4. placement'[tx[t].object] = placement[tx[t].object]
    BY <1>1, <1>2, <2>3, StaticPlacement
  <2> QED
    BY <1>2, <2>3, <2>4 DEF Placed
<1>3. CASE PhaseOutcome(t, tx'[t])
  <2>1. tx'[t].object = tx[t].object /\ tx'[t].offset = tx[t].offset
        /\ placement' = placement
    BY Zenon, <1>3 DEF PhaseOutcome, SameRequest
  <2>2. Placed(tx[t].object) /\ tx'[t].phys = placement[tx[t].object] + tx[t].offset
    BY Zenon, <1>3 DEF PhaseOutcome
  <2> QED
    BY <2>1, <2>2 DEF Placed
<1> QED
  BY Zenon, <1>0, <1>2, <1>3, TxFate

StaticInv == AuthInv /\ LivePlacementsDisjoint /\ PreparedInPlace

\* Without moves all three parts of the invariant hold together.
LEMMA StaticInvariant == StaticSpec => []StaticInv
<1>1. Init => StaticInv
  <2>1. Init => LivePlacementsDisjoint /\ PreparedInPlace
    BY DEF Init, LivePlacementsDisjoint, PreparedInPlace, Placed, EmptyTx
  <2> QED
    BY <2>1, AuthInvInit DEF StaticInv
<1>2. StaticInv /\ [StaticNext]_vars => StaticInv'
  <2>1. [StaticNext]_vars => [Next]_vars
    BY DEF Next
  <2> QED
    BY <2>1, AuthInvStep, DisjointStep, PreparedStep DEF StaticInv
<1> QED
  BY <1>1, <1>2, PTL DEF StaticSpec

\* The cells a commit touches, related to the extents in place at the commit.
LEMMA ProvenanceStep ==
    ASSUME StaticInv, [StaticNext]_vars, NEW t \in TxIds,
           tx[t].state = "Prepared", tx'[t].state = "Committed"
    PROVE  LET o == tx[t].object
               from == tx[t].phys
               to == tx[t].phys + tx[t].length
           IN /\ Live(o) /\ Placed(o) /\ placement[o] <= from /\ to <= End(o)
              /\ \A e \in ObjectIds : e # o /\ Live(e) /\ Placed(e) =>
                    to <= placement[e] \/ End(e) <= from
<1> DEFINE o == tx[t].object
<1>0. AuthInv /\ TypeOK /\ [Next]_vars
  BY Zenon DEF StaticInv, AuthInv, Next
<1>1. o \in ObjectIds /\ tx[t].domain \in Domains
      /\ tx[t].offset \in Nat /\ tx[t].length \in Nat
  BY <1>0, TxFields
<1>2. PICK c \in caps[tx[t].domain] :
        validate(c) /\ covers(c, o, tx[t].offset, tx[t].length,
                              {required_permission(tx[t].kind)})
  BY <1>0, CommitGate
<1>3. c \in Capability64
  BY <1>0, <1>1 DEF TypeOK
<1>4. Live(o) /\ tx[t].offset + tx[t].length <= objSize[o] /\ objSize[o] \in Nat
  <2>1. /\ c.object = o /\ tx[t].offset + tx[t].length <= c.offset + c.length
        /\ Live(o) /\ c.length <= objSize[o] /\ c.offset <= objSize[o] - c.length
    BY <1>2 DEF validate, covers
  <2>2. c.offset \in Nat /\ c.length \in Nat /\ objSize[o] \in Nat
    BY <1>0, <1>1, <1>3, BoundsAssumption DEF Capability64, Span, TypeOK
  <2> QED
    BY <1>1, <2>1, <2>2
<1>5. Placed(o) /\ tx[t].phys = placement[o] + tx[t].offset
  BY <1>4 DEF StaticInv, PreparedInPlace, Live
<1>6. placement[o] \in Nat
  BY <1>0, <1>1, <1>5, BoundsAssumption DEF TypeOK, Placed, NotPlaced
<1>7. placement[o] <= tx[t].phys /\ tx[t].phys + tx[t].length <= End(o)
  BY <1>1, <1>4, <1>5, <1>6 DEF End
<1>8. ASSUME NEW e \in ObjectIds, e # o, Live(e), Placed(e)
      PROVE  tx[t].phys + tx[t].length <= placement[e] \/ End(e) <= tx[t].phys
  <2>1. placement[e] \in Nat /\ objSize[e] \in Nat
    BY <1>0, <1>8, BoundsAssumption DEF TypeOK, Placed, NotPlaced, Span
  <2>2. End(o) <= placement[e] \/ End(e) <= placement[o]
    BY Zenon, <1>1, <1>4, <1>5, <1>8 DEF StaticInv, LivePlacementsDisjoint
  <2>3. End(o) \in Nat /\ End(e) \in Nat /\ tx[t].phys \in Nat
    BY <1>1, <1>4, <1>5, <1>6, <2>1 DEF End
  <2> QED
    BY <1>1, <1>6, <1>7, <2>1, <2>2, <2>3
<1> QED
  BY Zenon, <1>4, <1>5, <1>7, <1>8

\* The effect of every transaction of every bus master lands in the object its
\* request names, whatever happened between its translation and its commit,
\* as long as no placed object is moved.
THEOREM CommitProvenanceHolds == StaticSpec => CommitProvenance
<1>1. StaticInv /\ [StaticNext]_vars =>
        [\A t \in TxIds : tx[t].state = "Prepared" /\ tx'[t].state = "Committed" =>
           LET o == tx[t].object
               from == tx[t].phys
               to == tx[t].phys + tx[t].length
           IN /\ Live(o) /\ Placed(o) /\ placement[o] <= from /\ to <= End(o)
              /\ \A e \in ObjectIds : e # o /\ Live(e) /\ Placed(e) =>
                    to <= placement[e] \/ End(e) <= from]_vars
  BY Zenon, ProvenanceStep
<1> QED
  BY <1>1, StaticInvariant, PTL DEF StaticSpec, CommitProvenance

\* What a step may do to a cell of a sealed object: nothing.
LEMMA SealedStep ==
    ASSUME StaticInv, [StaticNext]_vars, NEW o \in ObjectIds, objState[o] = "Sealed",
           Placed(o), NEW a \in 0 .. (MemSize - 1), placement[o] <= a, a < End(o)
    PROVE  memory'[a] = memory[a]
<1>0. AuthInv /\ TypeOK /\ [Next]_vars
  BY DEF StaticInv, AuthInv, Next
<1>1. placement[o] \in Nat /\ objSize[o] \in Nat /\ a \in Nat /\ Live(o)
  BY <1>0, BoundsAssumption DEF TypeOK, Placed, NotPlaced, Span, Live
<1>2. CASE UNCHANGED memory
  BY Zenon, <1>2
<1>3. ASSUME NEW e \in ObjectIds, Live(e), Placed(e), e # o
      PROVE  /\ placement[e] \in Nat /\ objSize[e] \in Nat
             /\ ~(placement[e] <= a /\ a < End(e))
  <2>1. placement[e] \in Nat /\ objSize[e] \in Nat
    BY <1>0, <1>3, BoundsAssumption DEF TypeOK, Placed, NotPlaced, Span
  <2>2. End(o) <= placement[e] \/ End(e) <= placement[o]
    BY <1>1, <1>3 DEF StaticInv, LivePlacementsDisjoint
  <2> QED
    BY <1>1, <2>1, <2>2 DEF End
<1>4. ASSUME NEW e \in ObjectIds, zero_object_extent(e) PROVE memory'[a] = memory[a]
  <2>1. e # o /\ Live(e) /\ Placed(e)
    BY Zenon, <1>4 DEF zero_object_extent, Mutable, Live
  <2>2. ~(placement[e] <= a /\ a < End(e))
    BY <1>3, <2>1
  <2> QED
    BY <1>0, <1>4, <2>2 DEF zero_object_extent, Fill, TypeOK
<1>5. ASSUME NEW e \in ObjectIds, NEW w \in Windows, NEW v \in Values,
             initialize_object(e, w[1], w[2], v)
      PROVE  memory'[a] = memory[a]
  <2>1. e # o /\ Live(e) /\ Placed(e)
    BY <1>5 DEF initialize_object, Mutable, Live
  <2>2. placement[e] \in Nat /\ objSize[e] \in Nat /\ ~(placement[e] <= a /\ a < End(e))
    BY <1>3, <2>1
  <2>3. w[1] \in Nat /\ w[2] \in Nat /\ w[2] <= objSize[e] /\ w[1] <= objSize[e] - w[2]
    BY <1>5, BoundsAssumption DEF initialize_object
  <2>4. ~(placement[e] + w[1] <= a /\ a < placement[e] + w[1] + w[2])
    BY <1>1, <2>2, <2>3 DEF End
  <2> QED
    BY <1>0, <1>5, <2>4 DEF initialize_object, Fill, TypeOK
<1>6. ASSUME NEW t \in TxIds,
             phase_authorize(t) \/ phase_translate(t) \/ phase_commit(t)
      PROVE  memory'[a] = memory[a]
  <2>1. PICK s : PhaseOutcome(t, s)
    BY Zenon, <1>0, <1>6, PhaseStep
  <2>2. tx'[t] = s
    BY Zenon, <1>0, <2>1 DEF PhaseOutcome, TypeOK
  <2>3. CASE s.state # "Committed"
    BY Zenon, <1>2, <2>1, <2>3 DEF PhaseOutcome
  <2>4. CASE s.state = "Committed" /\ ~Mutates(tx[t])
    BY Zenon, <1>2, <2>1, <2>4 DEF PhaseOutcome
  <2>5. CASE s.state = "Committed" /\ Mutates(tx[t])
    <3>1. tx[t].state = "Prepared" /\ tx'[t].state = "Committed"
      BY Zenon, <2>1, <2>2, <2>5 DEF PhaseOutcome
    <3>2. memory' = Fill(tx[t].phys, tx[t].phys + tx[t].length, tx[t].data)
      BY Zenon, <2>1, <2>5 DEF PhaseOutcome
    <3>3. tx[t].object \in ObjectIds /\ tx[t].domain \in Domains
          /\ tx[t].phys \in Int /\ tx[t].length \in Int
      BY <1>0, TxFields
    <3>4. tx[t].object # o
      <4>1. PICK c \in caps[tx[t].domain] :
              validate(c) /\ covers(c, tx[t].object, tx[t].offset, tx[t].length,
                                    {required_permission(tx[t].kind)})
        BY Zenon, <1>0, <3>1, CommitGate
      <4>2. required_permission(tx[t].kind) \in {"WRITE", "ATOMIC"}
        BY <2>5 DEF Mutates, required_permission
      <4>3. c.perms \cap {"WRITE", "ATOMIC", "SEAL"} # {}
        BY Zenon, <4>1, <4>2 DEF covers
      <4>4. c.generation = 0
        BY <1>0, <3>3, <4>3 DEF AuthInv, CapsMinted
      <4>5. objGen[o] = 1
        BY <1>0 DEF AuthInv, GenOfState
      <4> QED
        BY <4>1, <4>4, <4>5 DEF validate, covers
    <3>5. tx[t].phys + tx[t].length <= placement[o] \/ End(o) <= tx[t].phys
      BY <1>1, <3>1, <3>4, ProvenanceStep
    <3>6. ~(tx[t].phys <= a /\ a < tx[t].phys + tx[t].length)
      BY <1>1, <3>3, <3>5 DEF End
    <3> QED
      BY <1>0, <3>2, <3>6 DEF Fill, TypeOK
  <2> QED
    BY <2>3, <2>4, <2>5
<1>7. CASE ObjectStep
  BY <1>2, <1>4, <1>5, <1>7
     DEF ObjectStep, place_object, SetPlacement, try_alloc_object, revoke, seal_object,
         destroy_object, rollback_unpublished_object
<1>8. CASE DomainStep
  BY Zenon, <1>2, <1>8 DEF DomainStep, GrantStep, create_domain, destroy_domain, grant, derive,
                    remove_by_authority_id, delegate_dma_span
<1>9. CASE TxStep
  <2>1. ASSUME NEW t \in TxIds, NEW d \in Domains, NEW e \in ObjectIds,
               NEW w \in Windows, NEW kind \in Kinds, NEW data \in Payloads(kind),
               submit(t, d, e, w[1], w[2], kind, data)
        PROVE  UNCHANGED memory
    BY Zenon, <2>1 DEF submit
  <2>2. ASSUME NEW drop \in BOOLEAN, discard_completed_compiler_trace(drop)
        PROVE  UNCHANGED memory
    BY Zenon, <2>2 DEF discard_completed_compiler_trace
  <2> QED
    BY Zenon, <1>2, <1>6, <1>9, <2>1, <2>2 DEF TxStep
<1>10. CASE UNCHANGED vars
  BY <1>2, <1>10 DEF vars
<1> QED
  BY <1>7, <1>8, <1>9, <1>10 DEF StaticNext

\* A sealed object's cells never change: not by a write authorized before the
\* seal, not by another object's traffic, not by initialization.
THEOREM SealedImmutableHolds == StaticSpec => SealedImmutable
<1>1. StaticInv /\ [StaticNext]_vars =>
        [\A o \in ObjectIds : objState[o] = "Sealed" /\ Placed(o) =>
           \A a \in 0 .. (MemSize - 1) :
              placement[o] <= a /\ a < End(o) => memory'[a] = memory[a]]_vars
  BY SealedStep
<1> QED
  BY <1>1, StaticInvariant, PTL DEF StaticSpec, SealedImmutable

-----------------------------------------------------------------------------
(* A device's transaction and the generation that authorized it *)

\* A DMA domain never holds two capabilities, gets its one when it is created,
\* and its transactions carry that capability's generation.
DmaInv ==
    /\ \A d \in DmaDomains :
         /\ domState[d] = "Fresh" => caps[d] = {}
         /\ \A b, c \in caps[d] : b = c
    /\ \A t \in TxIds : Underway(tx[t]) /\ tx[t].domain \in DmaDomains =>
         /\ domState[tx[t].domain] # "Fresh"
         /\ \A c \in caps[tx[t].domain] : c.generation = tx[t].authGen

\* What a step may do to a domain.
LEMMA DomainFate ==
    ASSUME TypeOK, [Next]_vars, NEW d \in Domains
    PROVE  /\ domState'[d] = "Fresh" => domState[d] = "Fresh"
           /\ d \in DmaDomains =>
                \/ caps'[d] \subseteq caps[d]
                \/ domState[d] = "Fresh" /\ domState'[d] = "Live" /\ \E c : caps'[d] = {c}
<1> DEFINE Goal == /\ domState'[d] = "Fresh" => domState[d] = "Fresh"
                   /\ d \in DmaDomains =>
                        \/ caps'[d] \subseteq caps[d]
                        \/ domState[d] = "Fresh" /\ domState'[d] = "Live" /\ \E c : caps'[d] = {c}
<1>1. CASE UNCHANGED domVars
  BY <1>1 DEF domVars
<1>2. ASSUME NEW x \in ProcDomains, create_domain(x) PROVE Goal
  BY <1>2 DEF create_domain, TypeOK
<1>3. ASSUME NEW x \in Domains, destroy_domain(x) PROVE Goal
  BY <1>3 DEF destroy_domain, TypeOK
<1>4. ASSUME NEW x \in ProcDomains, NEW S, domState[x] = "Live",
             caps' = [caps EXCEPT ![x] = S], UNCHANGED domState
      PROVE  Goal
  BY <1>4, DomainsAssumption DEF TypeOK
<1>5. ASSUME NEW x \in ProcDomains, NEW o \in ObjectIds, NEW w \in Windows,
             NEW perms \in PermSets, grant(x, o, w[1], w[2], perms)
      PROVE  Goal
  <2>1. domState[x] = "Live" /\ UNCHANGED domState /\ \E S : caps' = [caps EXCEPT ![x] = S]
    BY Zenon, <1>5 DEF grant
  <2> QED
    BY Zenon, <1>4, <2>1
<1>6. ASSUME NEW x \in ProcDomains, NEW e \in ProcDomains, NEW parent \in caps[e],
             NEW w \in Windows, NEW perms \in PermSets,
             derive(x, parent, w[1], w[2], perms)
      PROVE  Goal
  <2>1. domState[x] = "Live" /\ UNCHANGED domState /\ \E S : caps' = [caps EXCEPT ![x] = S]
    BY Zenon, <1>6 DEF derive
  <2> QED
    BY Zenon, <1>4, <2>1
<1>7. ASSUME NEW x \in ProcDomains, NEW r \in caps[x], remove_by_authority_id(x, r)
      PROVE  Goal
  BY <1>7, DomainsAssumption DEF remove_by_authority_id, TypeOK
<1>8. ASSUME NEW x \in ProcDomains, NEW dma \in DmaDomains, NEW parent \in caps[x],
             NEW w \in Windows, NEW p \in {"READ", "WRITE"},
             delegate_dma_span(x, parent, dma, w[1], w[2], {p})
      PROVE  Goal
  <2>1. caps' = [caps EXCEPT ![dma] = {Cap(parent.object, parent.generation, w[1], w[2], {p})}]
        /\ domState' = [domState EXCEPT ![dma] = "Live"] /\ domState[dma] = "Fresh"
    BY <1>8 DEF delegate_dma_span
  <2>2. CASE d = dma
    BY Zenon, <2>1, <2>2 DEF TypeOK
  <2>3. CASE d # dma
    BY <2>1, <2>3 DEF TypeOK
  <2> QED
    BY Zenon, <2>2, <2>3
<1>9. CASE ObjectStep
  BY Zenon, <1>1, <1>9
     DEF ObjectStep, place_object, SetPlacement, try_alloc_object, revoke, seal_object,
         destroy_object, rollback_unpublished_object, zero_object_extent,
         initialize_object
<1>10. CASE DomainStep
  BY Zenon, <1>2, <1>3, <1>5, <1>6, <1>7, <1>8, <1>10 DEF DomainStep, GrantStep
<1>11. CASE TxStep
  BY <1>1, <1>11, TxStepFrame
<1>12. CASE \E o \in ObjectIds, base \in 0 .. AddrMax : move_object(o, base)
  BY <1>1, <1>12 DEF move_object, SetPlacement
<1>13. CASE UNCHANGED vars
  BY <1>1, <1>13 DEF vars
<1> QED
  BY Zenon, <1>9, <1>10, <1>11, <1>12, <1>13 DEF Next, StaticNext

\* One step keeps the DMA invariant.
LEMMA DmaStep == AuthInv /\ DmaInv /\ [Next]_vars => DmaInv'
<1> SUFFICES ASSUME AuthInv, DmaInv, [Next]_vars PROVE DmaInv'
  OBVIOUS
<1>0. TypeOK /\ TypeOK'
  BY TypeStep DEF AuthInv
<1>1. ASSUME NEW d \in DmaDomains
      PROVE  /\ domState'[d] = "Fresh" => caps'[d] = {}
             /\ \A b, c \in caps'[d] : b = c
  <2>1. d \in Domains
    BY DEF Domains
  <2> QED
    BY Zenon, <1>0, <2>1, DomainFate DEF DmaInv
<1>2. ASSUME NEW t \in TxIds, Underway(tx'[t]), tx'[t].domain \in DmaDomains
      PROVE  domState'[tx'[t].domain] # "Fresh"
  <2>1. tx'[t].domain \in Domains
    BY <1>2 DEF Domains
  <2>2. domState[tx'[t].domain] # "Fresh"
    <3>1. CASE tx'[t] = tx[t]
      BY <1>2, <3>1 DEF DmaInv
    <3>2. CASE PhaseOutcome(t, tx'[t])
      <4>1. tx'[t].domain = tx[t].domain
        BY Zenon, <3>2 DEF PhaseOutcome, SameRequest
      <4>2. Underway(tx[t]) \/ \E c : c \in caps[tx[t].domain]
        BY Zenon, <1>2, <3>2 DEF PhaseOutcome, Underway, Authorizing, Covering
      <4> QED
        BY <1>2, <4>1, <4>2 DEF DmaInv
    <3> QED
      BY <1>2, <3>1, <3>2, TxFate DEF Underway
  <2> QED
    BY <1>0, <2>1, <2>2, DomainFate
<1>3. ASSUME NEW t \in TxIds, Underway(tx'[t]),
             tx'[t].domain \in DmaDomains, NEW c \in caps'[tx'[t].domain]
      PROVE  c.generation = tx'[t].authGen
  <2> DEFINE d == tx'[t].domain
  <2>1. d \in Domains
    BY <1>3 DEF Domains
  <2>2. CASE tx'[t] = tx[t]
    <3>1. domState[d] # "Fresh"
      BY <1>3, <2>2 DEF DmaInv
    <3>2. c \in caps[d]
      BY <1>0, <1>3, <2>1, <3>1, DomainFate
    <3> QED
      BY <1>3, <2>2, <3>2 DEF DmaInv
  <2>3. CASE PhaseOutcome(t, tx'[t])
    <3>1. tx[t].domain = d /\ caps' = caps
      BY Zenon, <2>3 DEF PhaseOutcome, SameRequest, domVars
    <3>2. CASE tx[t].state = "Requested" /\ \E b \in Authorizing(tx[t]) : tx'[t].authGen = b.generation
      <4>1. PICK b \in Authorizing(tx[t]) : tx'[t].authGen = b.generation
        BY <3>2
      <4>2. b \in caps[d]
        BY <3>1, <4>1 DEF Authorizing, Covering
      <4>3. b = c
        BY <1>3, <3>1, <4>2 DEF DmaInv
      <4> QED
        BY <4>1, <4>3
    <3>3. CASE tx[t].state = "Authorized" /\ tx'[t].authGen = tx[t].authGen
      BY <1>3, <3>1, <3>3 DEF DmaInv, Underway
    <3> QED
      BY Zenon, <1>3, <2>3, <3>2, <3>3 DEF PhaseOutcome, Underway
  <2> QED
    BY <1>3, <2>2, <2>3, TxFate DEF Underway
<1> QED
  BY <1>1, <1>2, <1>3 DEF DmaInv

\* Rule 22 for devices: a transaction of a DMA domain commits only at the
\* generation that authorized it, so no revocation or seal falls in between.
THEOREM DmaGenerationHolds == Spec => DmaCommitsAtAuthorizedGeneration
<1>1. Init => DmaInv
  BY DEF Init, DmaInv, EmptyTx, Underway, Domains
<1>2. AuthInv /\ DmaInv /\ [Next]_vars =>
        [\A t \in TxIds : tx[t].domain \in DmaDomains => CommitsAtAuthorizedGeneration(t)]_vars
  <2> SUFFICES ASSUME AuthInv, DmaInv, [Next]_vars, NEW t \in TxIds,
                      tx[t].domain \in DmaDomains,
                      tx[t].state = "Prepared", tx'[t].state = "Committed"
               PROVE  objGen[tx[t].object] = tx[t].authGen
    BY DEF CommitsAtAuthorizedGeneration
  <2>1. PICK c \in caps[tx[t].domain] :
          validate(c) /\ covers(c, tx[t].object, tx[t].offset, tx[t].length,
                                {required_permission(tx[t].kind)})
    BY Zenon, CommitGate
  <2>2. c.generation = tx[t].authGen
    BY Zenon DEF DmaInv, Underway
  <2> QED
    BY Zenon, <2>1, <2>2 DEF validate, covers
<1> QED
  BY <1>1, <1>2, DmaStep, AuthorityInvariant, PTL DEF Spec, DmaCommitsAtAuthorizedGeneration
=============================================================================
