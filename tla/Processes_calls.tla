--------------------------- MODULE Processes_calls ---------------------------
(***************************************************************************)
(* What gathering zombies, the birth of a process and a blocking SYS_WAIT  *)
(* do to the invariant LifeInv of Processes_steps.                         *)
(***************************************************************************)
EXTENDS Processes_steps

\* The zombies of R are gathered: the running processes of W end their waits on
\* them, nobody else waits for one, and exactly the handles that name one are
\* collected in h.
Gathers(R, W, h) ==
    /\ Reclaim(R, {}, h, Reset(waiting, W, NoWait))
    /\ \A c \in R : pstate[c] = "Zombie"
    /\ \A q \in Slots, i \in HandleSlots :
         /\ h[q][i].child = handles[q][i].child
         /\ handles[q][i].collected => h[q][i].collected
    /\ \A q \in Slots, i \in HandleSlots :
         pstate[q] = "Running" /\ ~handles[q][i].collected
            => (h[q][i].collected <=> \E c \in R : handles[q][i].child = KeyOf(c))
    /\ \A q \in Slots, c \in R :
         pstate[q] = "Running" /\ q \notin W => waiting[q].child # KeyOf(c)
    /\ \A q \in W : pstate[q] = "Running" /\ \E c \in R : waiting[q].child = KeyOf(c)
    /\ phase' = "wake" \/
         \A q \in Slots : pstate[q] = "Running" /\ waiting[q] # NoWait /\ q \notin W =>
             \E s \in Slots : /\ pstate[s] = "Running" /\ ChildOf(s, q)
                              /\ waiting[q].child = KeyOf(s)

\* Reclaiming a set R of zombies.  The waits of W end, each of them on a zombie of
\* R; the handles that become collected are exactly those that name one.
LEMMA GatherStep ==
  ASSUME LifeInv, TypeInv', NEW R \in SUBSET Slots, NEW W \in SUBSET Slots,
         NEW h \in [Slots -> [HandleSlots -> LifecycleEntry]], Gathers(R, W, h)
  PROVE  LifeInv'
<1>g. /\ Reclaim(R, {}, h, Reset(waiting, W, NoWait))
      /\ \A c \in R : pstate[c] = "Zombie"
  BY DEF Gathers
<1>h. \A q \in Slots, i \in HandleSlots :
        /\ h[q][i].child = handles[q][i].child
        /\ handles[q][i].collected => h[q][i].collected
  BY DEF Gathers
<1>c. \A q \in Slots, i \in HandleSlots :
        pstate[q] = "Running" /\ ~handles[q][i].collected
           => (h[q][i].collected <=> \E c \in R : handles[q][i].child = KeyOf(c))
  BY DEF Gathers
<1>a. \A q \in Slots, c \in R :
        pstate[q] = "Running" /\ q \notin W => waiting[q].child # KeyOf(c)
  BY DEF Gathers
<1>b. \A q \in W : pstate[q] = "Running" /\ \E c \in R : waiting[q].child = KeyOf(c)
  BY DEF Gathers
<1>p. phase' = "wake" \/
        \A q \in Slots : pstate[q] = "Running" /\ waiting[q] # NoWait /\ q \notin W =>
            \E s \in Slots : /\ pstate[s] = "Running" /\ ChildOf(s, q)
                             /\ waiting[q].child = KeyOf(s)
  BY DEF Gathers
<1> DEFINE v == Reset(waiting, W, NoWait)
<1>t. TypeOK /\ {} \in SUBSET Slots /\ waiting \in [Slots -> WaitState]
  BY DEF LifeInv, TypeInv, TypeOK
<1>v. v \in [Slots -> WaitState]
  BY <1>t DEF Reset, NoWait, WaitState
<1>w. \A q \in Slots : v[q] = IF q \in W THEN NoWait ELSE waiting[q]
  BY DEF Reset
<1> HIDE DEF v
<1>f. /\ \A s \in R : /\ ~Live(s)' /\ waiting'[s] = NoWait
                     /\ \A i \in HandleSlots : handles'[s][i].collected
      /\ \A s \in Slots \ R :
           /\ KeyOf(s)' = KeyOf(s) /\ parent'[s] = parent[s]
           /\ waiting'[s] = v[s] /\ handles'[s] = h[s]
           /\ pstate'[s] = (IF s \in {} THEN "Zombie" ELSE pstate[s])
      /\ \A k \in ProcessKey : Issued(k) => Issued(k)'
  <2>1. Reclaim(R, {}, h, v)
    BY <1>g DEF v
  <2> QED
    BY <1>t, <1>v, <2>1, ReclaimFacts, Zenon
<1>in. \A s \in R : /\ ~Live(s)' /\ waiting'[s] = NoWait
                     /\ \A i \in HandleSlots : handles'[s][i].collected
  BY Zenon, <1>f
<1>out. \A s \in Slots \ R :
           /\ KeyOf(s)' = KeyOf(s) /\ parent'[s] = parent[s]
           /\ waiting'[s] = (IF s \in W THEN NoWait ELSE waiting[s])
           /\ handles'[s] = h[s] /\ pstate'[s] = pstate[s]
  BY <1>f, <1>w
<1>k. \A k \in ProcessKey : Issued(k) => Issued(k)'
  BY <1>f
<1>1. \A s \in Slots : Live(s)' <=> s \notin R /\ Live(s)
  BY <1>in, <1>out DEF Live
<1>2. \A s \in Slots : pstate'[s] = "Running" <=> pstate[s] = "Running"
  BY <1>g, <1>in, <1>out DEF Live
<1>3. \A s, q \in Slots : s \notin R /\ q \notin R => (ChildOf(s, q)' <=> ChildOf(s, q))
  BY <1>1, <1>out DEF ChildOf
<1>4. \A q \in Slots : pstate[q] = "Running" => q \notin R
  BY <1>g
<1>6. NoOrphans'
  <2> SUFFICES ASSUME NEW s \in Slots, Live(s)', parent'[s] # NoKey
               PROVE  \E q \in Slots : pstate'[q] = "Running" /\ parent'[s] = KeyOf(q)'
    BY DEF NoOrphans
  <2>1. s \notin R /\ Live(s) /\ parent'[s] = parent[s]
    BY <1>1, <1>out
  <2> PICK q \in Slots : pstate[q] = "Running" /\ parent[s] = KeyOf(q)
    BY <2>1 DEF LifeInv, NoOrphans
  <2> QED
    BY <1>2, <1>4, <1>out, <2>1
<1>7. HandlesNameChildren'
  <2> SUFFICES ASSUME NEW q \in Slots, NEW i \in HandleSlots,
                      pstate'[q] = "Running", ~handles'[q][i].collected
               PROVE  \E s \in Slots : ChildOf(s, q)' /\ handles'[q][i].child = KeyOf(s)'
    BY DEF HandlesNameChildren
  <2>1. q \notin R /\ pstate[q] = "Running" /\ handles'[q] = h[q]
    BY <1>2, <1>4, <1>out
  <2>2. ~handles[q][i].collected /\ handles'[q][i].child = handles[q][i].child
    BY <1>h, <2>1
  <2> PICK s \in Slots : ChildOf(s, q) /\ handles[q][i].child = KeyOf(s)
    BY <2>1, <2>2 DEF LifeInv, HandlesNameChildren
  <2>3. s \notin R
    BY <1>c, <2>1, <2>2
  <2> QED
    BY <1>3, <1>out, <2>1, <2>2, <2>3
<1>8. WaitsAreOwn'
  <2> SUFFICES ASSUME NEW w \in Slots, waiting'[w] # NoWait
               PROVE  /\ Live(w)'
                      /\ waiting'[w].child \in ProcessKey /\ Issued(waiting[w].child)'
                      /\ \A c \in Slots :
                           Names(waiting[w].child, c)' => parent'[c] = KeyOf(w)'
                      /\ pstate'[w] = "Running" =>
                           \E c \in Slots : Names(waiting[w].child, c)'
    BY DEF WaitsAreOwn
  <2>1. w \notin R /\ w \notin W /\ waiting'[w] = waiting[w] /\ KeyOf(w)' = KeyOf(w)
    BY <1>in, <1>out
  <2>2. /\ Live(w)
        /\ waiting[w].child \in ProcessKey /\ Issued(waiting[w].child)
        /\ \A c \in Slots : Names(waiting[w].child, c) => parent[c] = KeyOf(w)
        /\ pstate[w] = "Running" => \E c \in Slots : Names(waiting[w].child, c)
    BY <2>1 DEF LifeInv, WaitsAreOwn
  <2>3. ASSUME NEW c \in Slots, Names(waiting[w].child, c)'
        PROVE  parent'[c] = KeyOf(w)'
    BY <1>1, <1>out, <2>1, <2>2, <2>3 DEF Names
  <2>4. ASSUME pstate'[w] = "Running"
        PROVE  \E c \in Slots : Names(waiting[w].child, c)'
    <3>1. pstate[w] = "Running"
      BY <1>2, <2>4
    <3> PICK c \in Slots : Names(waiting[w].child, c)
      BY <2>2, <3>1
    <3>2. c \notin R
      BY <1>a, <2>1, <3>1 DEF Names
    <3> QED
      BY <1>1, <1>out, <2>1, <3>2 DEF Names
  <2>5. Issued(waiting[w].child)'
    BY Zenon, <1>k, <2>1, <2>2 DEF Issued
  <2> QED
    BY Zenon, <1>1, <2>1, <2>2, <2>3, <2>4, <2>5
<1>9. WaitersWaitForRunningChildren'
  <2> SUFFICES ASSUME phase' = "run", NEW w \in Slots, pstate'[w] = "Running",
                      waiting'[w] # NoWait
               PROVE  \E s \in Slots : /\ pstate'[s] = "Running" /\ ChildOf(s, w)'
                                       /\ waiting'[w].child = KeyOf(s)'
    BY DEF WaitersWaitForRunningChildren
  <2>1. pstate[w] = "Running" /\ w \notin R /\ w \notin W /\ waiting'[w] = waiting[w]
    BY <1>2, <1>4, <1>out
  <2> PICK s \in Slots : /\ pstate[s] = "Running" /\ ChildOf(s, w)
                         /\ waiting[w].child = KeyOf(s)
    BY <1>p, <2>1
  <2> QED
    BY Zenon, <1>2, <1>3, <1>4, <1>out, <2>1
<1>10. WaitsAgree'
  <2> SUFFICES ASSUME NEW w \in Slots, pstate'[w] = "Running", waiting'[w] # NoWait
               PROVE  ExecWait(w)' \/ LifecycleWait(w)'
    BY DEF WaitsAgree
  <2>1. /\ pstate[w] = "Running" /\ w \notin W /\ waiting'[w] = waiting[w]
        /\ handles'[w] = h[w] /\ waiting[w] # NoWait
    BY <1>2, <1>4, <1>out
  <2>2. CASE ExecWait(w)
    BY <1>h, <2>1, <2>2 DEF ExecWait
  <2>3. CASE LifecycleWait(w)
    <3> DEFINE i == waiting[w].handle
    <3>1. /\ waiting[w].kind = "Lifecycle" /\ i \in HandleSlots
          /\ ~handles[w][i].collected /\ waiting[w].child = handles[w][i].child
      BY <2>3 DEF LifecycleWait
    <3>2. \A c \in R : handles[w][i].child # KeyOf(c)
      BY <1>a, <2>1, <3>1
    <3>3. ~h[w][i].collected /\ h[w][i].child = handles[w][i].child
      BY <1>c, <1>h, <2>1, <3>1, <3>2
    <3> QED
      BY <2>1, <3>1, <3>3 DEF LifecycleWait
  <2> QED
    BY <2>1, <2>2, <2>3 DEF LifeInv, WaitsAgree
<1>11. HandlesDistinct'
  <2> SUFFICES ASSUME NEW q \in Slots, pstate'[q] = "Running",
                      NEW i \in HandleSlots, NEW j \in HandleSlots, i # j,
                      ~handles'[q][i].collected, ~handles'[q][j].collected
               PROVE  handles'[q][i].child # handles'[q][j].child
    BY Zenon DEF HandlesDistinct
  <2>1. pstate[q] = "Running" /\ handles'[q] = h[q]
    BY <1>2, <1>4, <1>out
  <2> QED
    BY <1>h, <2>1 DEF LifeInv, HandlesDistinct
<1>12. ChildrenCollectable'
  <2> SUFFICES ASSUME NEW s \in Slots, NEW q \in Slots, ChildOf(s, q)'
               PROVE  InExec(q, s)' \/ EntriesFor(q, s)' # {}
    BY DEF ChildrenCollectable
  <2>1. s \notin R /\ KeyOf(s)' = KeyOf(s) /\ Live(s)
    BY <1>1, <1>out DEF ChildOf
  <2>2. pstate[q] = "Running" /\ q \notin R /\ ChildOf(s, q) /\ handles'[q] = h[q]
    <3>1. Live(s)' /\ parent'[s] = KeyOf(q)' /\ parent'[s] # NoKey
      BY DEF ChildOf, KeyOf, NoKey, Slots
    <3> PICK d \in Slots : pstate'[d] = "Running" /\ parent'[s] = KeyOf(d)'
      BY <1>6, <3>1 DEF NoOrphans
    <3>2. d = q
      BY <3>1 DEF KeyOf
    <3> QED
      BY <1>2, <1>3, <1>4, <1>out, <2>1, <3>2
  <2>3. \A c \in R : KeyOf(c) # KeyOf(s)
    BY <2>1, KeyInjective
  <2>4. CASE InExec(q, s)
    <3>1. q \notin W
      BY <1>b, <2>3, <2>4 DEF InExec
    <3> QED
      BY Zenon, <1>out, <2>1, <2>2, <2>4, <3>1 DEF InExec
  <2>5. ASSUME NEW i \in EntriesFor(q, s) PROVE i \in EntriesFor(q, s)'
    BY <1>c, <1>h, <2>1, <2>2, <2>3 DEF EntriesFor
  <2> QED
    BY <2>2, <2>4, <2>5 DEF LifeInv, ChildrenCollectable
<1>13. VacantIsClear'
  <2> SUFFICES ASSUME NEW s \in Slots, ~Live(s)'
               PROVE  waiting'[s] = NoWait /\ \A i \in HandleSlots : handles'[s][i].collected
    BY DEF VacantIsClear
  <2>1. CASE s \in R
    BY <1>in, <2>1
  <2>2. CASE s \notin R
    BY <1>1, <1>h, <1>out, <2>2 DEF LifeInv, VacantIsClear
  <2> QED
    BY <2>1, <2>2
<1> QED
  BY <1>6, <1>7, <1>8, <1>9, <1>10, <1>11, <1>12, <1>13 DEF LifeInv

\* How boot, SYS_EXEC and SYS_SPAWN leave the waits and handles of the process p
\* that makes the process in slot s.
BootBirth(par) == par = NoKey /\ phase' = phase /\ waiting' = waiting /\ handles' = handles

ParentReady(p, par) == par = KeyOf(p) /\ pstate[p] = "Running" /\ waiting[p] = NoWait
                         /\ phase' = "wake"

ExecBirth(p, s, par) ==
    /\ ParentReady(p, par) /\ handles' = handles
    /\ waiting' = [waiting EXCEPT ![p] =
                     [child |-> KeyOf(s), kind |-> "Exec", handle |-> -1]]

SpawnBirth(p, s, par, h) ==
    /\ ParentReady(p, par) /\ waiting' = waiting
    /\ h \in HandleSlots /\ NextHandle(p, h)
    /\ handles' = install_lifecycle(p, h, KeyOf(s))

\* The birth of a process keeps the invariant: its slot was vacant and its key new.
LEMMA BirthStep ==
  ASSUME LifeInv, TypeInv', NEW s \in Slots, NEW size \in StackSizes, NEW ok \in BOOLEAN,
         NEW par, prepare_process(s, size, ok, par), NEW p \in Slots, NEW h,
         BootBirth(par) \/ ExecBirth(p, s, par) \/ SpawnBirth(p, s, par, h)
  PROVE  LifeInv'
<1>t. TypeOK /\ TypeOK'
  BY DEF LifeInv, TypeInv
<1>s. /\ pstate[s] = "Free" /\ ~Live(s) /\ waiting[s] = NoWait
      /\ \A i \in HandleSlots : handles[s][i].collected
  BY DEF prepare_process, NextSlot, Live, LifeInv, VacantIsClear
<1>g. gen' = gen /\ \A x \in Slots : KeyOf(x)' = KeyOf(x)
  BY DEF prepare_process, KeyOf
<1>n. Live(s)' /\ parent'[s] = par
  BY <1>t DEF prepare_process, Live, TypeOK
<1>o. \A x \in Slots : x # s => pstate'[x] = pstate[x] /\ parent'[x] = parent[x]
  BY <1>t DEF prepare_process, TypeOK
<1>k. \A k \in ProcessKey : Issued(k) => Issued(k)' /\ k # KeyOf(s)
  <2> SUFFICES ASSUME NEW k \in ProcessKey, Issued(k) PROVE Issued(k)' /\ k # KeyOf(s)
    OBVIOUS
  <2>1. k[1] \in Slots /\ k[2] \in Int /\ gen[s] \in Int
    BY <1>t DEF ProcessKey, TypeOK
  <2>2. k[1] # s => pstate'[k[1]] = pstate[k[1]]
    BY <1>o, <2>1
  <2>3. pstate'[s] # "Free"
    BY <1>n DEF Live
  <2>4. k # KeyOf(s)
    BY <1>s, <2>1 DEF Issued, KeyOf
  <2> QED
    BY <1>g, <2>1, <2>2, <2>3, <2>4 DEF Issued
<1>c. \A q \in Slots, i \in HandleSlots :
         pstate[q] = "Running" /\ ~handles[q][i].collected => handles[q][i].child # KeyOf(s)
  BY <1>s, KeyInjective DEF LifeInv, HandlesNameChildren, ChildOf
<1>p. (ExecBirth(p, s, par) \/ SpawnBirth(p, s, par, h)) =>
         p # s /\ par = KeyOf(p) /\ pstate[p] = "Running" /\ waiting[p] = NoWait
         /\ phase' = "wake"
  BY Zenon, <1>s DEF ExecBirth, SpawnBirth, ParentReady
<1>w. \A x \in Slots : \/ waiting'[x] = waiting[x]
                       \/ /\ x = p /\ ExecBirth(p, s, par)
                          /\ waiting'[x] = [child |-> KeyOf(s), kind |-> "Exec",
                                            handle |-> -1]
  BY <1>t DEF BootBirth, ExecBirth, SpawnBirth, TypeOK
<1>h. \A x \in Slots, i \in HandleSlots :
         \/ handles'[x][i] = handles[x][i]
         \/ /\ x = p /\ i = h /\ SpawnBirth(p, s, par, h)
            /\ handles[x][i].collected
            /\ ~handles'[x][i].collected /\ handles'[x][i].child = KeyOf(s)
  <2>1. CASE SpawnBirth(p, s, par, h)
    <3>1. h \in HandleSlots /\ handles' = [handles EXCEPT ![p] = [@ EXCEPT ![h] =
             [gen |-> handles[p][h].gen + 1, child |-> KeyOf(s), collected |-> FALSE]]]
      BY <1>t, <2>1 DEF SpawnBirth, install_lifecycle, TypeOK
    <3>2. handles[p][h].collected
      BY Zenon, <2>1 DEF SpawnBirth, NextHandle, Installable
    <3>3. handles \in [Slots -> [HandleSlots -> LifecycleEntry]]
      BY <1>t DEF TypeOK
    <3> QED
      BY <2>1, <3>1, <3>2, <3>3
  <2> QED
    BY Zenon, <2>1 DEF BootBirth, ExecBirth
<1>1. \A x \in Slots : Live(x)' <=> x = s \/ Live(x)
  BY Zenon, <1>n, <1>o, <1>s DEF Live
<1>2. \A x, q \in Slots : ChildOf(x, q) => ChildOf(x, q)' /\ x # s
  BY Zenon, <1>1, <1>g, <1>o, <1>s DEF ChildOf
<1>6. NoOrphans'
  <2> SUFFICES ASSUME NEW x \in Slots, Live(x)', parent'[x] # NoKey
               PROVE  \E q \in Slots : pstate'[q] = "Running" /\ parent'[x] = KeyOf(q)'
    BY DEF NoOrphans
  <2>1. CASE x = s
    <3>1. ~BootBirth(par)
      BY <1>n, <2>1 DEF BootBirth
    <3> QED
      BY <1>g, <1>n, <1>o, <1>p, <2>1, <3>1
  <2>2. CASE x # s
    <3>1. Live(x) /\ parent'[x] = parent[x]
      BY <1>1, <1>o, <2>2
    <3> PICK q \in Slots : pstate[q] = "Running" /\ parent[x] = KeyOf(q)
      BY <3>1 DEF LifeInv, NoOrphans
    <3> QED
      BY <1>g, <1>o, <1>s, <3>1
  <2> QED
    BY <2>1, <2>2
<1>7. HandlesNameChildren'
  <2> SUFFICES ASSUME NEW q \in Slots, NEW i \in HandleSlots,
                      pstate'[q] = "Running", ~handles'[q][i].collected
               PROVE  \E x \in Slots : ChildOf(x, q)' /\ handles'[q][i].child = KeyOf(x)'
    BY Zenon DEF HandlesNameChildren
  <2>1. CASE handles'[q][i] = handles[q][i]
    <3>1. q # s /\ pstate[q] = "Running"
      BY <1>o, <1>s, <2>1
    <3> PICK x \in Slots : ChildOf(x, q) /\ handles[q][i].child = KeyOf(x)
      BY Zenon, <2>1, <3>1 DEF LifeInv, HandlesNameChildren
    <3> QED
      BY <1>2, <1>g, <2>1
  <2>2. CASE q = p /\ SpawnBirth(p, s, par, h) /\ handles'[q][i].child = KeyOf(s)
    <3>1. ChildOf(s, p)'
      BY Zenon, <1>n, <1>p, <1>g, <2>2 DEF ChildOf
    <3> QED
      BY Zenon, <1>g, <2>2, <3>1
  <2> QED
    BY Zenon, <1>h, <2>1, <2>2
<1>8. WaitsAreOwn'
  <2> SUFFICES ASSUME NEW w \in Slots, waiting'[w] # NoWait
               PROVE  /\ Live(w)'
                      /\ waiting'[w].child \in ProcessKey /\ Issued(waiting[w].child)'
                      /\ \A c \in Slots :
                           Names(waiting[w].child, c)' => parent'[c] = KeyOf(w)'
                      /\ pstate'[w] = "Running" =>
                           \E c \in Slots : Names(waiting[w].child, c)'
    BY Zenon DEF WaitsAreOwn
  <2>1. CASE waiting'[w] = waiting[w]
    <3>1. /\ Live(w)
          /\ waiting[w].child \in ProcessKey /\ Issued(waiting[w].child)
          /\ \A c \in Slots : Names(waiting[w].child, c) => parent[c] = KeyOf(w)
          /\ pstate[w] = "Running" => \E c \in Slots : Names(waiting[w].child, c)
      BY Zenon, <2>1 DEF LifeInv, WaitsAreOwn
    <3>2. waiting[w].child # KeyOf(s) /\ Issued(waiting[w].child)'
      BY Zenon, <1>k, <2>1, <3>1 DEF Issued
    <3>3. \A c \in Slots : Names(waiting[w].child, c)' <=> Names(waiting[w].child, c)
      BY Zenon, <1>1, <1>g, <1>s, <2>1, <3>2 DEF Names
    <3>4. w # s
      BY Zenon, <1>s, <3>1
    <3>5. Live(w)' /\ pstate'[w] = pstate[w] /\ KeyOf(w)' = KeyOf(w)
      BY Zenon, <1>1, <1>g, <1>o, <3>1, <3>4
    <3>6. \A c \in Slots : Names(waiting[w].child, c)' => parent'[c] = KeyOf(w)'
      <4> SUFFICES ASSUME NEW c \in Slots, Names(waiting[w].child, c)'
                   PROVE  parent'[c] = KeyOf(w)'
        OBVIOUS
      <4>1. Names(waiting[w].child, c)
        BY <3>3
      <4>2. c # s
        BY Zenon, <3>2, <4>1 DEF Names
      <4> QED
        BY Zenon, <1>o, <3>1, <3>5, <4>1, <4>2
    <3> QED
      BY <2>1, <3>1, <3>2, <3>3, <3>5, <3>6, Zenon
  <2>2. CASE w = p /\ ExecBirth(p, s, par) /\ waiting'[w].child = KeyOf(s)
    <3>1. Live(w)'
      BY Zenon, <1>1, <1>p, <2>2 DEF Live
    <3>2. waiting'[w].child \in ProcessKey
      BY <1>t, <2>2, KeyIsKey
    <3>3. Issued(waiting[w].child)'
      BY <1>g, <1>n, <2>2 DEF Issued, KeyOf, Live
    <3>4. \A c \in Slots : Names(waiting[w].child, c)' => c = s
      BY <1>g, <2>2, KeyInjective DEF Names
    <3>5. Names(waiting[w].child, s)'
      BY <1>g, <1>n, <2>2 DEF Names
    <3> QED
      BY Zenon, <1>g, <1>n, <1>p, <2>2, <3>1, <3>2, <3>3, <3>4, <3>5
  <2>3. \/ waiting'[w] = waiting[w]
        \/ w = p /\ ExecBirth(p, s, par) /\ waiting'[w].child = KeyOf(s)
    BY <1>w
  <2> QED
    BY <2>1, <2>2, <2>3, Zenon
<1>9. WaitersWaitForRunningChildren'
  <2> SUFFICES ASSUME phase' = "run", NEW w \in Slots, pstate'[w] = "Running",
                      waiting'[w] # NoWait
               PROVE  \E x \in Slots : /\ pstate'[x] = "Running" /\ ChildOf(x, w)'
                                       /\ waiting'[w].child = KeyOf(x)'
    BY DEF WaitersWaitForRunningChildren
  <2>1. phase = "run" /\ waiting' = waiting
    BY <1>p DEF BootBirth
  <2>2. w # s /\ pstate[w] = "Running"
    BY <1>o, <1>s, <2>1
  <2> PICK x \in Slots : /\ pstate[x] = "Running" /\ ChildOf(x, w)
                         /\ waiting[w].child = KeyOf(x)
    BY Zenon, <2>1, <2>2 DEF LifeInv, WaitersWaitForRunningChildren
  <2> QED
    BY Zenon, <1>2, <1>g, <1>o, <2>1
<1>10. WaitsAgree'
  <2> SUFFICES ASSUME NEW w \in Slots, pstate'[w] = "Running", waiting'[w] # NoWait
               PROVE  ExecWait(w)' \/ LifecycleWait(w)'
    BY DEF WaitsAgree
  <2>1. CASE waiting'[w] = waiting[w]
    <3>1. w # s /\ pstate[w] = "Running" /\ waiting[w] # NoWait
      BY Zenon, <1>o, <1>s, <2>1
    <3>2. \A i \in HandleSlots : handles'[w][i] = handles[w][i]
      BY Zenon, <1>h, <1>p, <3>1
    <3>3. ExecWait(w) \/ LifecycleWait(w)
      BY Zenon, <3>1 DEF LifeInv, WaitsAgree
    <3> QED
      BY Zenon, <2>1, <3>2, <3>3 DEF ExecWait, LifecycleWait
  <2>2. CASE w = p /\ ExecBirth(p, s, par)
             /\ waiting'[w] = [child |-> KeyOf(s), kind |-> "Exec", handle |-> -1]
    <3>1. handles' = handles /\ pstate[w] = "Running"
      BY <1>p, <2>2, Zenon DEF ExecBirth
    <3>2. /\ waiting'[w].kind = "Exec" /\ waiting'[w].handle = -1
          /\ waiting'[w].child = KeyOf(s)
      BY <2>2
    <3> QED
      BY <1>c, <3>1, <3>2, Zenon DEF ExecWait
  <2> QED
    BY Zenon, <1>w, <2>1, <2>2
<1>11. HandlesDistinct'
  <2> SUFFICES ASSUME NEW q \in Slots, pstate'[q] = "Running",
                      NEW i \in HandleSlots, NEW j \in HandleSlots, i # j,
                      ~handles'[q][i].collected, ~handles'[q][j].collected
               PROVE  handles'[q][i].child # handles'[q][j].child
    BY Zenon DEF HandlesDistinct
  <2>1. q # s
    <3> SUFFICES ASSUME q = s PROVE FALSE
      OBVIOUS
    <3>1. handles'[q][i] # handles[q][i]
      BY <1>s, Zenon
    <3>2. q = p /\ SpawnBirth(p, s, par, h)
      BY <1>h, <3>1, Zenon
    <3> QED
      BY <1>p, <3>2, Zenon
  <2>2. pstate[q] = "Running"
    BY Zenon, <1>o, <2>1
  <2>3. \A e \in HandleSlots :
           \/ handles'[q][e] = handles[q][e]
           \/ e = h /\ handles'[q][e].child = KeyOf(s)
    BY <1>h
  <2>4. \A e \in HandleSlots : ~handles[q][e].collected => handles[q][e].child # KeyOf(s)
    BY <1>c, <2>2
  <2>5. CASE handles'[q][i] = handles[q][i] /\ handles'[q][j] = handles[q][j]
    BY <2>2, <2>5 DEF LifeInv, HandlesDistinct
  <2> QED
    BY <2>3, <2>4, <2>5, Zenon
<1>12. ChildrenCollectable'
  <2> SUFFICES ASSUME NEW x \in Slots, NEW q \in Slots, ChildOf(x, q)'
               PROVE  InExec(q, x)' \/ EntriesFor(q, x)' # {}
    BY DEF ChildrenCollectable
  <2>1. CASE x = s
    <3>1. par = KeyOf(q) /\ par # NoKey
      BY <1>g, <1>n, <1>t, <2>1, KeyIsKey DEF ChildOf
    <3>2. q = p
      BY <1>p, <3>1, KeyInjective DEF BootBirth
    <3>3. CASE ExecBirth(p, s, par)
      BY <1>g, <1>t, <2>1, <3>2, <3>3 DEF ExecBirth, InExec, TypeOK
    <3>4. CASE SpawnBirth(p, s, par, h)
      <4>1. h \in HandleSlots /\ handles' = [handles EXCEPT ![p] = [@ EXCEPT ![h] =
               [gen |-> handles[p][h].gen + 1, child |-> KeyOf(s), collected |-> FALSE]]]
        BY Zenon, <1>t, <3>4 DEF SpawnBirth, install_lifecycle, TypeOK
      <4>2. ~handles'[p][h].collected /\ handles'[p][h].child = KeyOf(s)
        BY Zenon, <1>t, <4>1 DEF TypeOK
      <4> QED
        BY <1>g, <2>1, <3>2, <4>1, <4>2 DEF EntriesFor
    <3> QED
      BY <3>1, <3>3, <3>4 DEF BootBirth
  <2>2. CASE x # s
    <3>1. ChildOf(x, q)
      BY Zenon, <1>1, <1>g, <1>o, <2>2 DEF ChildOf
    <3>2. InExec(q, x) => InExec(q, x)'
      BY <1>g, <1>p, <1>w DEF InExec, NoWait
    <3>3. \A i \in EntriesFor(q, x) : i \in EntriesFor(q, x)'
      BY Zenon, <1>g, <1>h DEF EntriesFor
    <3> QED
      BY <3>1, <3>2, <3>3 DEF LifeInv, ChildrenCollectable
  <2> QED
    BY <2>1, <2>2
<1>13. VacantIsClear'
  <2> SUFFICES ASSUME NEW x \in Slots, ~Live(x)'
               PROVE  waiting'[x] = NoWait /\ \A i \in HandleSlots : handles'[x][i].collected
    BY Zenon DEF VacantIsClear
  <2>1. ~Live(x)
    BY <1>1
  <2>2. (ExecBirth(p, s, par) \/ SpawnBirth(p, s, par, h)) => x # p
    BY <1>p, <2>1 DEF Live
  <2> QED
    BY Zenon, <1>h, <1>w, <2>1, <2>2 DEF LifeInv, VacantIsClear
<1> QED
  BY <1>6, <1>7, <1>8, <1>9, <1>10, <1>11, <1>12, <1>13 DEF LifeInv

\* SYS_WAIT on a running child keeps the invariant.
LEMMA BlockStep ==
  ASSUME LifeInv, TypeInv', NEW p \in Slots, is_schedulable(p), NEW i \in HandleSlots,
         ~handles[p][i].collected, NEW c \in Slots, WaitBlocks(p, i, c), phase' = "wake"
  PROVE  LifeInv'
<1>t. TypeOK /\ pstate[p] = "Running" /\ waiting[p] = NoWait
  BY DEF LifeInv, TypeInv, is_schedulable
<1>u. pstate' = pstate /\ gen' = gen /\ parent' = parent /\ handles' = handles
  BY DEF WaitBlocks
<1>k. /\ \A x \in Slots : (KeyOf(x)' = KeyOf(x)) /\ (Live(x)' <=> Live(x))
      /\ \A x, q \in Slots : ChildOf(x, q)' <=> ChildOf(x, q)
      /\ \A k \in ProcessKey : Issued(k)' <=> Issued(k)
  BY <1>u DEF KeyOf, Live, ChildOf, Issued
<1>w. /\ \A x \in Slots : x # p => waiting'[x] = waiting[x]
      /\ waiting'[p] = [child |-> handles[p][i].child, kind |-> "Lifecycle", handle |-> i]
  BY <1>t DEF WaitBlocks, TypeOK
<1>c. handles[p][i].child = KeyOf(c) /\ ChildOf(c, p)
  <2> PICK x \in Slots : ChildOf(x, p) /\ handles[p][i].child = KeyOf(x)
    BY <1>t DEF LifeInv, HandlesNameChildren
  <2> QED
    BY Zenon, KeyInjective DEF WaitBlocks, Names
<1>1. NoOrphans'
  BY Zenon, <1>k, <1>u DEF LifeInv, NoOrphans
<1>2. HandlesNameChildren'
  <2>1. HandlesNameChildren
    BY DEF LifeInv
  <2> QED
    BY <1>k, <1>u, <2>1, SMTT(20) DEF HandlesNameChildren
<1>3. WaitersWaitForRunningChildren'
  BY DEF WaitersWaitForRunningChildren
<1>4. WaitsAreOwn'
  <2> SUFFICES ASSUME NEW w \in Slots, waiting'[w] # NoWait
               PROVE  /\ Live(w)'
                      /\ waiting'[w].child \in ProcessKey /\ Issued(waiting[w].child)'
                      /\ \A x \in Slots :
                           Names(waiting[w].child, x)' => parent'[x] = KeyOf(w)'
                      /\ pstate'[w] = "Running" =>
                           \E x \in Slots : Names(waiting[w].child, x)'
    BY DEF WaitsAreOwn
  <2>1. CASE w # p
    <3>1. waiting'[w] = waiting[w]
      BY Zenon, <1>w, <2>1
    <3>2. /\ Live(w)
          /\ waiting[w].child \in ProcessKey /\ Issued(waiting[w].child)
          /\ \A x \in Slots : Names(waiting[w].child, x) => parent[x] = KeyOf(w)
          /\ pstate[w] = "Running" => \E x \in Slots : Names(waiting[w].child, x)
      BY Zenon, <3>1 DEF LifeInv, WaitsAreOwn
    <3>3. Issued(waiting[w].child)'
      BY Zenon, <1>u, <3>1, <3>2 DEF Issued
    <3>4. \A x \in Slots : Names(waiting[w].child, x)' <=> Names(waiting[w].child, x)
      BY Zenon, <1>k, <3>1 DEF Names
    <3> QED
      BY Zenon, <1>k, <1>u, <3>1, <3>2, <3>3, <3>4
  <2>2. CASE w = p
    <3>1. waiting'[w].child = KeyOf(c)
      BY <1>c, <1>w, <2>2
    <3>2. waiting'[w].child \in ProcessKey
      BY <1>t, <3>1, KeyIsKey
    <3>3. Live(c) /\ Live(p)
      BY <1>c, <1>t DEF ChildOf, Live
    <3>4. Issued(waiting[w].child)'
      BY <1>u, <3>1, <3>3 DEF Issued, KeyOf, Live
    <3>5. \A x \in Slots : Names(waiting[w].child, x)' <=> x = c
      BY Zenon, <1>k, <3>1, <3>3, KeyInjective DEF Names
    <3> QED
      BY Zenon, <1>c, <1>k, <1>u, <2>2, <3>2, <3>3, <3>4, <3>5 DEF ChildOf
  <2> QED
    BY Zenon, <2>1, <2>2
<1>5. WaitsAgree'
  <2> SUFFICES ASSUME NEW w \in Slots, pstate'[w] = "Running", waiting'[w] # NoWait
               PROVE  ExecWait(w)' \/ LifecycleWait(w)'
    BY DEF WaitsAgree
  <2>1. CASE w # p
    <3>1. waiting'[w] = waiting[w] /\ pstate[w] = "Running" /\ waiting[w] # NoWait
      BY <1>u, <1>w, <2>1
    <3>2. ExecWait(w) \/ LifecycleWait(w)
      BY <3>1 DEF LifeInv, WaitsAgree
    <3> QED
      BY <1>u, <3>1, <3>2, Zenon DEF ExecWait, LifecycleWait
  <2>2. CASE w = p
    BY <1>u, <1>w, <2>2 DEF LifecycleWait
  <2> QED
    BY <2>1, <2>2
<1>6. HandlesDistinct'
  BY Zenon, <1>u DEF LifeInv, HandlesDistinct
<1>7. ChildrenCollectable'
  <2> SUFFICES ASSUME NEW x \in Slots, NEW q \in Slots, ChildOf(x, q)'
               PROVE  InExec(q, x)' \/ EntriesFor(q, x)' # {}
    BY DEF ChildrenCollectable
  <2>1. InExec(q, x) => InExec(q, x)'
    BY <1>k, <1>t, <1>w DEF InExec, NoWait
  <2>2. EntriesFor(q, x)' = EntriesFor(q, x)
    BY <1>k, <1>u DEF EntriesFor
  <2> QED
    BY <1>k, <2>1, <2>2 DEF LifeInv, ChildrenCollectable
<1>8. VacantIsClear'
  BY Zenon, <1>k, <1>t, <1>u, <1>w DEF LifeInv, VacantIsClear, Live
<1> QED
  BY <1>1, <1>2, <1>3, <1>4, <1>5, <1>6, <1>7, <1>8 DEF LifeInv

=============================================================================
