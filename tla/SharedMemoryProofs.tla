------------------------- MODULE SharedMemoryProofs -------------------------
(***************************************************************************)
(* Proofs about the programs of MCSharedMemory, in their composition.  For *)
(* any number of processes, batches, deaths and SIGINTs, the memory that   *)
(* the processes of MonteCarlo share is sound; for any number of           *)
(* iterations and any death, what the parent of Dying prints is exact.     *)
(***************************************************************************)
EXTENDS MCSharedMemory, FiniteSetTheorems, TLAPS

Inside == {"fix", "fixed", "total", "hits"}

Here(g) == {p \in Procs : shm[p] = g}
Workers(g) == {p \in Here(g) : pc[p] \in Working}
Hitting(g) == {p \in Here(g) : pc[p] = "hits"}

-----------------------------------------------------------------------------
(* What holds of every state.                                              *)

\* How far a process is says what it has opened and counted.
Stage ==
    \A p \in Procs :
        /\ shm[p] = 0 <=> pc[p] = "start"
        /\ sem[p] = 0 <=> pc[p] \in {"start", "sem"}
        /\ pc[p] \in Opening \cup Arriving \cup Inside \cup {"start", "lock", "check"}
             => done[p] < BATCHES

\* A process makes one object of each kind at most.
MadeInv == /\ shmMade <= Cardinality({p \in Procs : shm[p] # 0})
           /\ semMade <= Cardinality({p \in Procs : sem[p] # 0})
           /\ kills + ints <= MaxFaults

\* A batch is in the total and not in the hits, or somebody died.
HitsInv == \A g \in Objs : total[g] - total_hit[g] <= kills + Cardinality(Hitting(g))

Base == TypeOK /\ Stage /\ MadeInv

-----------------------------------------------------------------------------
(* What holds until an arrival meets a departure or a repair.              *)

\* Those who arrive are attached to the objects that the names stand for.
NameInv == \A p \in Procs :
               /\ pc[p] \in Opening \cup Arriving => shm[p] = shmName
               /\ pc[p] \in {"semwait"} \cup Arriving => sem[p] = semName

\* One of them at most has passed the semaphore.
SemInv == \A p \in Procs : pc[p] \in Arriving =>
              sval[semName] = 0 /\ \A q \in Procs : pc[q] \in Arriving => q = p

\* Whoever is inside owns the mutex; its owner is inside or was killed there.
OwnerInv == /\ \A g \in Objs : mtx[g] \in Procs =>
                 shm[mtx[g]] = g /\ pc[mtx[g]] \in Inside \cup {"killed"}
            /\ \A p \in Procs : pc[p] \in Inside => mtx[shm[p]] = p

\* There is a mutex where somebody is counted, or is about to be.
MutexInv == /\ \A g \in Objs : mtx[g] \in {"none", "gone"} => cnt_active[g] = 0
            /\ \A p \in Procs : pc[p] \in {"arrive", "arrived"} =>
                 mtx[shm[p]] \notin {"none", "gone"}

\* A dead owner is counted until the one who took the mutex over has repaired
\* the count.
Debt(g) == IF mtx[g] \in Procs /\ pc[mtx[g]] \in {"killed", "fix", "fixed"} THEN 1 ELSE 0
Cost(g) == Cardinality(Workers(g)) + Debt(g)

(* cnt_active, and every value of it that somebody has read to write it    *)
(* decremented, is at least what must be counted: decrements that race     *)
(* with each other are lost, none is made twice.                           *)
CountInv ==
    \A g \in Objs :
        /\ cnt_active[g] >= Cost(g)
        /\ \A p \in Here(g) : /\ pc[p] \in {"dec", "fixed"} => seen[p] >= Cost(g)
                              /\ pc[p] = "arrived" => seen[p] = cnt_active[g]
                              /\ pc[p] \in Removing => cnt_active[g] = 0

Sound == ~Overlapping /\ NameInv /\ SemInv /\ OwnerInv /\ MutexInv /\ CountInv

Inv == Base /\ HitsInv /\ (~overlap => Sound)

-----------------------------------------------------------------------------
(* Types.                                                                  *)

Stages == Opening \cup Arriving \cup Working \cup Removing \cup Over
              \cup {"start", "last", "end"}

LEMMA InitBase == Init => Base
  <1> SUFFICES ASSUME Init PROVE Base
    OBVIOUS
  <1>1. Cardinality(Procs) \in Nat
    BY FS_CardinalityType, MonteCarloAssumption
  <1>2. TypeOK
    <2>1. pc \in [Procs -> Opening \cup Arriving \cup Working \cup Removing
                            \cup Over \cup {"start", "last", "end"}]
      BY DEF Init
    <2>2. sig \in [Procs -> {"wait", "locked", "ended"}] /\ running \in [Procs -> BOOLEAN]
      BY DEF Init
    <2>3. mtx \in [Objs -> {"none", "free", "gone"} \cup Procs]
      BY DEF Init
    <2>4. /\ sval \in [Objs -> {0, 1}] /\ cnt_active \in [Objs -> Int]
          /\ total \in [Objs -> Nat] /\ total_hit \in [Objs -> Nat]
      BY DEF Init
    <2>5. /\ shm \in [Procs -> 0 .. shmMade] /\ sem \in [Procs -> 0 .. semMade]
          /\ seen \in [Procs -> Int] /\ done \in [Procs -> 0 .. BATCHES]
      BY MonteCarloAssumption DEF Init
    <2>6. /\ shmName \in 0 .. shmMade /\ semName \in 0 .. semMade
          /\ shmMade \in Objs \cup {0} /\ semMade \in Objs \cup {0}
          /\ kills \in 0 .. MaxFaults /\ ints \in 0 .. MaxFaults
      BY MonteCarloAssumption DEF Init
    <2>7. semlost \in BOOLEAN /\ overlap \in BOOLEAN
      BY Zenon DEF Init
    <2> QED BY <2>1, <2>2, <2>3, <2>4, <2>5, <2>6, <2>7 DEF TypeOK
  <1>3. Stage
    BY MonteCarloAssumption DEF Init, Stage
  <1>4. MadeInv
    <2>1. {p \in Procs : shm[p] # 0} = {} /\ {p \in Procs : sem[p] # 0} = {}
      BY DEF Init
    <2> QED BY <2>1, FS_EmptySet, MonteCarloAssumption DEF Init, MadeInv
  <1> QED BY <1>2, <1>3, <1>4 DEF Base

(* A process that opens an object for the first time is one more that has. *)
LEMMA OpenedOneMore ==
    ASSUME NEW f, NEW k, f \in [Procs -> Nat], k \in Nat, k # 0,
           NEW p \in Procs, f[p] = 0
    PROVE  LET opened == {r \in Procs : f[r] # 0}
               now == {r \in Procs : [f EXCEPT ![p] = k][r] # 0}
           IN /\ Cardinality(opened) \in Nat /\ Cardinality(now) = Cardinality(opened) + 1
              /\ Cardinality(now) \in 1 .. Cardinality(Procs)
  <1> DEFINE opened == {r \in Procs : f[r] # 0}
             now == {r \in Procs : [f EXCEPT ![p] = k][r] # 0}
  <1>1. IsFiniteSet(opened)
    BY FS_Subset, MonteCarloAssumption
  <1>2. now = opened \cup {p} /\ p \notin opened
    OBVIOUS
  <1>3. Cardinality(now) = Cardinality(opened) + 1 /\ Cardinality(opened) \in Nat
    BY <1>1, <1>2, FS_AddElement, FS_CardinalityType
  <1>4. Cardinality(now) <= Cardinality(Procs) /\ Cardinality(Procs) \in Nat
    BY FS_Subset, FS_CardinalityType, MonteCarloAssumption
  <1> QED BY <1>3, <1>4

Deed(p) == Step(p) \/ Interrupt(p) \/ StopRunning(p) \/ Kill(p)

\* The control of the processes.
ControlTypes == /\ pc \in [Procs -> Stages]
                /\ running \in [Procs -> BOOLEAN]
                /\ sig \in [Procs -> {"wait", "locked", "ended"}]
                /\ semlost \in BOOLEAN /\ overlap \in BOOLEAN

LEMMA ControlStep ==
    ASSUME ControlTypes, NEW p \in Procs, Deed(p), overlap' = (overlap \/ Overlapping')
    PROVE  ControlTypes'
  <1>1. overlap' \in BOOLEAN
    BY Zenon
  <1> QED
    BY <1>1
    DEF Deed, Step, ShmOpen, SemOpen, SemWait, InitMutex, ReadCount, Arrive, Lock, Fix,
        AddTotal, AddHits, Check, Leave, TestLast, Destroy, ShmUnlink, SemUnlink, End,
        Interrupt, StopRunning, Kill, ControlTypes, Stages, Goto, signals, attached,
        counters, names, Opening, Arriving, Working, Removing, Over

\* The numbers and the objects.
NumberTypes == /\ shmName \in 0 .. shmMade /\ semName \in 0 .. semMade
               /\ shmMade \in Objs \cup {0} /\ semMade \in Objs \cup {0}
               /\ sval \in [Objs -> {0, 1}]
               /\ mtx \in [Objs -> {"none", "free", "gone"} \cup Procs]
               /\ cnt_active \in [Objs -> Int]
               /\ total \in [Objs -> Nat] /\ total_hit \in [Objs -> Nat]
               /\ shm \in [Procs -> 0 .. shmMade] /\ sem \in [Procs -> 0 .. semMade]
               /\ seen \in [Procs -> Int] /\ done \in [Procs -> 0 .. BATCHES]
               /\ kills \in 0 .. MaxFaults /\ ints \in 0 .. MaxFaults

LEMMA TypesSplit == TypeOK <=> ControlTypes /\ NumberTypes
  BY DEF TypeOK, ControlTypes, NumberTypes, Stages

\* Whoever is past its start is attached to memory.
LEMMA Attached ==
    ASSUME Base, NEW p \in Procs
    PROVE  /\ shm[p] \in Nat /\ sem[p] \in Nat
           /\ shm[p] # 0 => shm[p] \in Objs
           /\ sem[p] # 0 => sem[p] \in Objs
  <1>1. Cardinality(Procs) \in Nat
    BY FS_CardinalityType, MonteCarloAssumption
  <1> QED BY <1>1 DEF Base, TypeOK, Objs

LEMMA ShmOpenBase ==
    ASSUME Base, NEW p \in Procs, ShmOpen(p)
    PROVE  NumberTypes' /\ Stage' /\ MadeInv'
  <1>1. Cardinality(Procs) \in Nat
    BY FS_CardinalityType, MonteCarloAssumption
  <1>2. pc[p] = "start" /\ shm[p] = 0 /\ shmMade \in Nat /\ shm \in [Procs -> Nat]
    BY <1>1 DEF ShmOpen, Base, TypeOK, Stage, Objs
  <1>3. /\ shmName' \in Nat \ {0} /\ shmName' <= shmMade'
        /\ shmMade' \in {shmMade, shmMade + 1}
    BY <1>1, <1>2 DEF ShmOpen, Base, TypeOK, Objs
  <1>4. shm' = [shm EXCEPT ![p] = shmName']
    BY DEF ShmOpen
  <1> DEFINE opened == {r \in Procs : shm[r] # 0}
  <1>5. /\ Cardinality(opened) \in Nat /\ Cardinality(opened') = Cardinality(opened) + 1
        /\ Cardinality(opened') \in 1 .. Cardinality(Procs)
    BY <1>2, <1>3, <1>4, OpenedOneMore
  <1>6. shmMade' <= Cardinality(opened') /\ shmMade' \in Objs
    BY <1>1, <1>2, <1>3, <1>5 DEF Base, MadeInv, Objs
  <1>7. NumberTypes'
    BY <1>2, <1>3, <1>4, <1>6 DEF ShmOpen, Base, TypeOK, NumberTypes, names, counters, signals
  <1>8. Stage'
    BY <1>2, <1>3, <1>4 DEF ShmOpen, Goto, signals, Base, TypeOK, Stage, Opening, Arriving,
       Inside, Working, Removing, Over
  <1>9. MadeInv'
    BY <1>6 DEF ShmOpen, signals, Base, MadeInv
  <1> QED BY <1>7, <1>8, <1>9

LEMMA SemOpenBase ==
    ASSUME Base, NEW p \in Procs, SemOpen(p)
    PROVE  NumberTypes' /\ Stage' /\ MadeInv'
  <1>1. Cardinality(Procs) \in Nat
    BY FS_CardinalityType, MonteCarloAssumption
  <1>2. pc[p] = "sem" /\ sem[p] = 0 /\ semMade \in Nat /\ sem \in [Procs -> Nat]
    BY <1>1 DEF SemOpen, Base, TypeOK, Stage, Objs
  <1>3. /\ semName' \in Nat \ {0} /\ semName' <= semMade'
        /\ semMade' \in {semMade, semMade + 1}
    BY <1>1, <1>2 DEF SemOpen, Base, TypeOK, Objs
  <1>4. sem' = [sem EXCEPT ![p] = semName']
    BY DEF SemOpen
  <1> DEFINE opened == {r \in Procs : sem[r] # 0}
  <1>5. /\ Cardinality(opened) \in Nat /\ Cardinality(opened') = Cardinality(opened) + 1
        /\ Cardinality(opened') \in 1 .. Cardinality(Procs)
    BY <1>2, <1>3, <1>4, OpenedOneMore
  <1>6. semMade' <= Cardinality(opened') /\ semMade' \in Objs
    BY <1>1, <1>2, <1>3, <1>5 DEF Base, MadeInv, Objs
  <1>7. NumberTypes'
    BY <1>2, <1>3, <1>4, <1>6 DEF SemOpen, Base, TypeOK, NumberTypes, names, counters, signals
  <1>8. Stage'
    BY <1>2, <1>3, <1>4 DEF SemOpen, Goto, signals, Base, TypeOK, Stage, Opening, Arriving,
       Inside, Working, Removing, Over
  <1>9. MadeInv'
    BY <1>6 DEF SemOpen, signals, Base, MadeInv
  <1> QED BY <1>7, <1>8, <1>9

LEMMA Updated ==
    ASSUME NEW S, NEW T, NEW f \in [S -> T], NEW x, NEW v \in T
    PROVE  [f EXCEPT ![x] = v] \in [S -> T]
  OBVIOUS

\* Nothing else is opened.
LEMMA WorkBase ==
    ASSUME Base, NEW p \in Procs, Deed(p), ~ShmOpen(p), ~SemOpen(p)
    PROVE  NumberTypes' /\ Stage' /\ MadeInv'
  <1> USE DEF Deed, Step, SemWait, InitMutex, ReadCount, Arrive, Lock, Fix, AddTotal, AddHits,
              Check, Leave, TestLast, Destroy, ShmUnlink, SemUnlink, End, Interrupt,
              StopRunning, Kill, names, counters, attached, signals, Goto, Posted, Dead
  <1>1. UNCHANGED <<shm, sem, shmMade, semMade>>
    OBVIOUS
  <1>2. /\ NumberTypes
        /\ seen[p] \in Int /\ seen[p] + 1 \in Int /\ seen[p] - 1 \in Int
        /\ shmMade \in Nat /\ semMade \in Nat
        /\ pc[p] \notin {"start", "sem"} =>
             /\ cnt_active[shm[p]] \in Int
             /\ total[shm[p]] + 1 \in Nat /\ total_hit[shm[p]] + 1 \in Nat
    <2>1. Cardinality(Procs) \in Nat
      BY FS_CardinalityType, MonteCarloAssumption
    <2>2. NumberTypes
      BY TypesSplit DEF Base
    <2>3. pc[p] # "start" => shm[p] \in Objs
      BY Attached DEF Base, Stage
    <2>4. shmMade \in Nat /\ semMade \in Nat
      BY <2>1, <2>2 DEF NumberTypes, Objs
    <2> QED BY <2>2, <2>3, <2>4 DEF NumberTypes
  <1>3. cnt_active \in [Objs -> Int] /\ seen \in [Procs -> Int]
    BY <1>2 DEF NumberTypes
  <1>4. sval' \in [Objs -> {0, 1}] /\ mtx' \in [Objs -> {"none", "free", "gone"} \cup Procs]
    BY <1>2 DEF NumberTypes
  <1>5. cnt_active' \in [Objs -> Int]
    BY <1>2, <1>3, Updated
  <1>6. seen' \in [Procs -> Int]
    BY <1>2, <1>3, Updated
  <1>7. total' \in [Objs -> Nat] /\ total_hit' \in [Objs -> Nat]
    BY <1>2 DEF NumberTypes
  <1>8. /\ shmName' \in 0 .. shmMade /\ semName' \in 0 .. semMade
        /\ kills' \in 0 .. MaxFaults /\ ints' \in 0 .. MaxFaults
        /\ kills' + ints' <= MaxFaults
    BY <1>2, MonteCarloAssumption DEF NumberTypes, Base, MadeInv
  <1>9. done' \in [Procs -> 0 .. BATCHES]
    BY <1>2, MonteCarloAssumption DEF NumberTypes, Base, Stage, MoreBatches
  <1>10. Stage'
    BY <1>1, MonteCarloAssumption DEF Base, TypeOK, Stage, Opening, Arriving,
                                      Inside, Working, Removing, Over, MoreBatches
  <1> QED BY <1>1, <1>2, <1>4, <1>5, <1>6, <1>7, <1>8, <1>9, <1>10 DEF NumberTypes, Base, MadeInv

LEMMA BaseStep ==
    ASSUME Base, NEW p \in Procs, Deed(p), overlap' = (overlap \/ Overlapping')
    PROVE  Base'
  <1>1. ControlTypes'
    BY ControlStep, TypesSplit DEF Base
  <1>2. NumberTypes' /\ Stage' /\ MadeInv'
    BY ShmOpenBase, SemOpenBase, WorkBase
  <1>3. TypeOK'
    BY <1>1, <1>2 DEF TypeOK, ControlTypes, NumberTypes, Stages
  <1> QED BY <1>2, <1>3 DEF Base

-----------------------------------------------------------------------------
(* The totals.                                                             *)

LEMMA HittingFinite ==
    ASSUME NEW g PROVE IsFiniteSet(Hitting(g)) /\ Cardinality(Hitting(g)) \in Nat
  <1>1. Hitting(g) \subseteq Procs
    BY DEF Hitting, Here
  <1> QED BY <1>1, FS_Subset, FS_CardinalityType, MonteCarloAssumption

\* Who does not begin or end an update of the totals leaves them alone.
LEMMA OthersHit ==
    ASSUME Base, NEW p \in Procs, Deed(p), ~AddTotal(p), ~AddHits(p), ~Kill(p)
    PROVE  /\ UNCHANGED <<total, total_hit, kills>>
           /\ \A g \in Objs : Hitting(g)' = Hitting(g)
  <1>1. UNCHANGED <<total, total_hit, kills>>
    BY DEF Deed, Step, ShmOpen, SemOpen, SemWait, InitMutex, ReadCount, Arrive, Lock, Fix,
           Check, Leave, TestLast, Destroy, ShmUnlink, SemUnlink, End, Interrupt,
           StopRunning, counters
  <1>2. /\ pc[p] # "hits" \/ pc' = pc
        /\ \E l \in Stages \ {"hits"} : pc' = pc \/ pc' = [pc EXCEPT ![p] = l]
    BY DEF Deed, Step, ShmOpen, SemOpen, SemWait, InitMutex, ReadCount, Arrive, Lock, Fix,
           Check, Leave, TestLast, Destroy, ShmUnlink, SemUnlink, End, Interrupt,
           StopRunning, Goto, Stages, Opening, Arriving, Working, Removing, Over
  <1>3. \A q \in Procs : shm'[q] = shm[q] \/ (q = p /\ ShmOpen(p))
    BY DEF Deed, Step, ShmOpen, SemOpen, SemWait, InitMutex, ReadCount, Arrive, Lock, Fix,
           Check, Leave, TestLast, Destroy, ShmUnlink, SemUnlink, End, Interrupt,
           StopRunning, attached, Base, TypeOK
  <1>4. \A q \in Procs : pc'[q] = "hits" <=> pc[q] = "hits"
    BY <1>2 DEF Base, TypeOK
  <1>5. ShmOpen(p) => pc[p] # "hits"
    BY DEF ShmOpen
  <1> QED BY <1>1, <1>3, <1>4, <1>5 DEF Hitting, Here

LEMMA HitsStep ==
    ASSUME Base, HitsInv, NEW p \in Procs, Deed(p), Base'
    PROVE  HitsInv'
  <1>1. \A g \in Objs : /\ total[g] - total_hit[g] <= kills + Cardinality(Hitting(g))
                        /\ total[g] \in Nat /\ total_hit[g] \in Nat
                        /\ kills \in Nat
    BY MonteCarloAssumption DEF Base, TypeOK, HitsInv
  <1>2. CASE AddTotal(p)
    <2>1. /\ UNCHANGED <<total_hit, kills, shm>> /\ pc' = [pc EXCEPT ![p] = "hits"]
          /\ total' = [total EXCEPT ![shm[p]] = @ + 1] /\ pc[p] = "total"
      BY <1>2 DEF AddTotal, Goto, attached
    <2>2. ASSUME NEW g \in Objs
          PROVE  total'[g] - total_hit[g] <= kills + Cardinality(Hitting(g)')
      <3>1. CASE g = shm[p]
        <4>1. Hitting(g)' = Hitting(g) \cup {p} /\ p \notin Hitting(g)
          BY <2>1, <3>1 DEF Hitting, Here, Base, TypeOK
        <4>2. Cardinality(Hitting(g)') = Cardinality(Hitting(g)) + 1
          BY <4>1, HittingFinite, FS_AddElement
        <4>3. total'[g] = total[g] + 1
          BY <2>1, <3>1 DEF Base, TypeOK
        <4> QED BY <1>1, <4>2, <4>3, HittingFinite
      <3>2. CASE g # shm[p]
        <4>1. Hitting(g)' = Hitting(g) /\ total'[g] = total[g]
          BY <2>1, <3>2 DEF Hitting, Here, Base, TypeOK
        <4> QED BY <1>1, <4>1
      <3> QED BY <3>1, <3>2
    <2> QED BY <2>1, <2>2 DEF HitsInv
  <1>3. CASE AddHits(p)
    <2>1. /\ UNCHANGED <<total, kills, shm>> /\ pc' = [pc EXCEPT ![p] = "check"]
          /\ total_hit' = [total_hit EXCEPT ![shm[p]] = @ + 1] /\ pc[p] = "hits"
      BY <1>3 DEF AddHits, Goto, attached
    <2>2. ASSUME NEW g \in Objs
          PROVE  total[g] - total_hit'[g] <= kills + Cardinality(Hitting(g)')
      <3>1. CASE g = shm[p]
        <4>1. Hitting(g)' = Hitting(g) \ {p} /\ p \in Hitting(g)
          BY <2>1, <3>1 DEF Hitting, Here, Base, TypeOK
        <4>2. Cardinality(Hitting(g)') = Cardinality(Hitting(g)) - 1
          BY <4>1, HittingFinite, FS_RemoveElement
        <4>3. total_hit'[g] = total_hit[g] + 1
          BY <2>1, <3>1 DEF Base, TypeOK
        <4> QED BY <1>1, <4>2, <4>3, HittingFinite
      <3>2. CASE g # shm[p]
        <4>1. Hitting(g)' = Hitting(g) /\ total_hit'[g] = total_hit[g]
          BY <2>1, <3>2 DEF Hitting, Here, Base, TypeOK
        <4> QED BY <1>1, <4>1
      <3> QED BY <3>1, <3>2
    <2> QED BY <2>1, <2>2 DEF HitsInv
  <1>4. CASE Kill(p)
    <2>1. /\ UNCHANGED <<total, total_hit, shm>> /\ pc' = [pc EXCEPT ![p] = "killed"]
          /\ kills' = kills + 1
      BY <1>4 DEF Kill, Goto, attached, counters
    <2>2. ASSUME NEW g \in Objs
          PROVE  total[g] - total_hit[g] <= kills' + Cardinality(Hitting(g)')
      <3>1. Hitting(g)' = Hitting(g) \ {p}
        BY <2>1 DEF Hitting, Here, Base, TypeOK
      <3>2. Cardinality(Hitting(g)) <= Cardinality(Hitting(g) \ {p}) + 1
        <4>1. CASE p \in Hitting(g)
          BY <4>1, HittingFinite, FS_RemoveElement
        <4>2. CASE p \notin Hitting(g)
          <5>1. Hitting(g) \ {p} = Hitting(g)
            BY <4>2
          <5> QED BY <5>1, HittingFinite
        <4> QED BY <4>1, <4>2
      <3>3. Cardinality(Hitting(g) \ {p}) \in Nat
        BY HittingFinite, FS_Subset, FS_CardinalityType
      <3> QED BY <1>1, <2>1, <3>1, <3>2, <3>3, HittingFinite
    <2> QED BY <2>1, <2>2 DEF HitsInv
  <1>5. CASE ~AddTotal(p) /\ ~AddHits(p) /\ ~Kill(p)
    <2>1. /\ UNCHANGED <<total, total_hit, kills>>
          /\ \A g \in Objs : Hitting(g)' = Hitting(g)
      BY <1>5, OthersHit
    <2> QED BY <1>1, <2>1 DEF HitsInv
  <1> QED BY <1>2, <1>3, <1>4, <1>5

-----------------------------------------------------------------------------
(* Arrivals.                                                               *)

LEMMA NameStep ==
    ASSUME Base, NameInv, SemInv, ~Overlapping, NEW p \in Procs, Deed(p), ~Overlapping'
    PROVE  NameInv' /\ SemInv'
  <1> USE DEF Base, TypeOK, Stage, NameInv, SemInv, Opening, Arriving
  <1>1. CASE ShmOpen(p)
    BY <1>1 DEF ShmOpen, Goto, signals
  <1>2. CASE SemOpen(p)
    BY <1>2 DEF SemOpen, Goto, signals
  <1>3. CASE SemWait(p)
    <2>1. sem[p] = semName /\ sem[p] \in Objs /\ sval[sem[p]] = 1
      BY <1>3, Attached DEF SemWait
    <2>2. \A q \in Procs : pc[q] \notin Arriving
      BY <2>1
    <2>3. NameInv'
      BY <1>3 DEF SemWait, Goto, names, attached
    <2>4. sval' = [sval EXCEPT ![semName] = 0] /\ semName' = semName
      BY <1>3, <2>1 DEF SemWait, names
    <2>5. sval'[semName'] = 0
      BY <2>1, <2>4
    <2>6. \A q \in Procs : pc'[q] \in Arriving => q = p
      BY <1>3, <2>2 DEF SemWait, Goto
    <2> QED BY <2>3, <2>5, <2>6
  <1>4. CASE InitMutex(p)
    BY <1>4 DEF InitMutex, Goto, names, attached
  <1>5. CASE ReadCount(p)
    BY <1>5 DEF ReadCount, Goto, names, attached
  <1>6. CASE Arrive(p)
    BY <1>6 DEF Arrive, Goto, Posted, names, attached
  <1>7. CASE ShmUnlink(p) \/ SemUnlink(p)
    BY <1>7 DEF ShmUnlink, SemUnlink, Goto, Overlapping, Removing, attached
  <1>8. CASE \/ Lock(p) \/ Fix(p) \/ AddTotal(p) \/ AddHits(p) \/ Check(p) \/ Leave(p)
             \/ TestLast(p) \/ Destroy(p) \/ End(p) \/ Interrupt(p) \/ StopRunning(p)
             \/ Kill(p)
    BY <1>8 DEF Lock, Fix, AddTotal, AddHits, Check, Leave, TestLast, Destroy, End, Interrupt,
                StopRunning, Kill, Goto, names, attached
  <1> QED BY <1>1, <1>2, <1>3, <1>4, <1>5, <1>6, <1>7, <1>8 DEF Deed, Step

-----------------------------------------------------------------------------
(* The mutex.                                                              *)

LEMMA WorkersFinite ==
    ASSUME NEW g PROVE IsFiniteSet(Workers(g)) /\ Cardinality(Workers(g)) \in Nat
  <1>1. Workers(g) \subseteq Procs
    BY DEF Workers, Here
  <1> QED BY <1>1, FS_Subset, FS_CardinalityType, MonteCarloAssumption

\* Who works is counted, and there is a mutex.
LEMMA CountedWork ==
    ASSUME Base, CountInv, NEW p \in Procs, pc[p] \in Working
    PROVE  shm[p] \in Objs /\ cnt_active[shm[p]] >= 1
  <1>1. shm[p] \in Objs
    BY Attached DEF Base, Stage, Working
  <1>2. p \in Workers(shm[p])
    BY DEF Workers, Here
  <1>3. Cardinality(Workers(shm[p])) >= 1
    BY <1>2, WorkersFinite, FS_EmptySet
  <1>4. Debt(shm[p]) \in {0, 1} /\ cnt_active[shm[p]] \in Int
    BY <1>1 DEF Debt, Base, TypeOK
  <1>5. cnt_active[shm[p]] >= Cardinality(Workers(shm[p])) + Debt(shm[p])
    BY <1>1 DEF CountInv, Cost
  <1> QED BY <1>1, <1>3, <1>4, <1>5, WorkersFinite

LEMMA MutexThere ==
    ASSUME Base, CountInv, MutexInv, NEW p \in Procs, pc[p] \in Working
    PROVE  mtx[shm[p]] \notin {"none", "gone"}
  BY CountedWork DEF MutexInv

LEMMA OwnerStep ==
    ASSUME Base, CountInv, MutexInv, OwnerInv, NEW p \in Procs, Deed(p)
    PROVE  OwnerInv'
  <1>1. \A q \in Procs : pc[q] \in Inside => shm[q] \in Objs /\ cnt_active[shm[q]] >= 1
    BY CountedWork DEF Inside, Working
  <1>2. \A q \in Procs : pc[q] # "start" => shm[q] \in Objs
    BY Attached DEF Base, Stage
  <1>3. CASE InitMutex(p) \/ Destroy(p)
    <2>1. /\ UNCHANGED shm /\ pc[p] \notin Inside \cup {"killed"} /\ shm[p] \in Objs
          /\ \E l \in {"arrive", "unlink"} : pc' = [pc EXCEPT ![p] = l]
          /\ mtx' = mtx \/ \E m \in {"free", "gone"} : mtx' = [mtx EXCEPT ![shm[p]] = m]
      BY <1>2, <1>3 DEF InitMutex, Destroy, Goto, attached, Inside
    <2>2. mtx' = mtx \/ cnt_active[shm[p]] = 0
      BY <1>3, <2>1 DEF InitMutex, Destroy, CountInv, Here, Removing
    <2>3. \A q \in Procs : pc'[q] \in Inside => pc[q] \in Inside /\ mtx'[shm[q]] = q
      BY <1>1, <2>1, <2>2 DEF OwnerInv, Inside, Base, TypeOK
    <2>4. \A g \in Objs : mtx'[g] \in Procs => mtx'[g] = mtx[g] /\ mtx[g] # p
      BY <2>1, MonteCarloAssumption DEF OwnerInv, Base, TypeOK
    <2> QED BY <2>1, <2>3, <2>4 DEF OwnerInv, Base, TypeOK
  <1>4. CASE Lock(p)
    <2>1. mtx[shm[p]] \notin {"none", "gone"} /\ shm[p] \in Objs /\ pc[p] = "lock"
      BY <1>2, <1>4, MutexThere DEF Lock, Working
    <2>2. /\ UNCHANGED shm /\ mtx' = [mtx EXCEPT ![shm[p]] = p]
          /\ \E l \in {"total", "fix"} : pc' = [pc EXCEPT ![p] = l]
      BY <1>4, <2>1 DEF Lock, Goto, attached
    <2>3. mtx[shm[p]] = "free" \/ pc[mtx[shm[p]]] \notin Inside
      BY <1>4, <2>1 DEF Lock, OwnerDead, Dead, Over, Inside
    <2>4. \A q \in Procs : pc[q] \in Inside => shm[q] # shm[p]
      BY <2>1, <2>3, MonteCarloAssumption DEF OwnerInv
    <2> QED BY <1>2, <2>1, <2>2, <2>4 DEF OwnerInv, Inside, Base, TypeOK
  <1>5. CASE AddHits(p)
    <2>1. /\ mtx[shm[p]] = p /\ shm[p] \in Objs /\ UNCHANGED shm
          /\ pc' = [pc EXCEPT ![p] = "check"] /\ mtx' = [mtx EXCEPT ![shm[p]] = "free"]
      BY <1>2, <1>5 DEF AddHits, Goto, attached, OwnerInv, Inside
    <2>2. \A q \in Procs : pc'[q] \in Inside => pc[q] \in Inside /\ mtx'[shm[q]] = q
      BY <1>1, <2>1 DEF OwnerInv, Inside, Base, TypeOK
    <2>3. \A g \in Objs : mtx'[g] \in Procs => mtx'[g] = mtx[g] /\ mtx[g] # p
      BY <1>5, <2>1, MonteCarloAssumption DEF AddHits, OwnerInv, Base, TypeOK
    <2> QED BY <2>1, <2>2, <2>3 DEF OwnerInv, Base, TypeOK
  <1>6. CASE Kill(p)
    BY <1>6 DEF Kill, Goto, attached, Inside, OwnerInv, Base, TypeOK
  <1>7. CASE \/ ShmOpen(p) \/ SemOpen(p) \/ SemWait(p) \/ ReadCount(p) \/ Arrive(p) \/ Fix(p)
             \/ AddTotal(p) \/ Check(p) \/ Leave(p) \/ TestLast(p) \/ ShmUnlink(p)
             \/ SemUnlink(p) \/ End(p) \/ Interrupt(p) \/ StopRunning(p)
    BY <1>7 DEF ShmOpen, SemOpen, SemWait, ReadCount, Arrive, Fix, AddTotal, Check, Leave,
       TestLast, ShmUnlink, SemUnlink, End, Interrupt, StopRunning, Goto, attached, Inside,
       OwnerInv, Base, TypeOK
  <1> QED BY <1>3, <1>4, <1>5, <1>6, <1>7 DEF Deed, Step

LEMMA MutexStep ==
    ASSUME Base, CountInv, MutexInv, ~Overlapping, NEW p \in Procs, Deed(p)
    PROVE  MutexInv'
  <1>1. pc[p] # "start" => shm[p] \in Objs
    BY Attached DEF Base, Stage
  <1>2. \A q \in Procs : pc[q] \in {"arrive", "arrived"} => shm[q] \in Objs
    BY Attached DEF Base, Stage
  <1>3. pc[p] \in Working => mtx[shm[p]] \notin {"none", "gone"}
    BY MutexThere
  <1> USE DEF MutexInv, Base, TypeOK
  <1>4. CASE InitMutex(p)
    BY <1>1, <1>2, <1>4 DEF InitMutex, Goto, attached
  <1>5. CASE Destroy(p)
    <2>1. shm[p] \in Objs /\ cnt_active[shm[p]] = 0
      BY <1>1, <1>5 DEF Destroy, CountInv, Here, Removing
    <2>2. \A q \in Procs : pc[q] \notin Arriving
      BY <1>5 DEF Destroy, Overlapping, Removing
    <2> QED BY <1>5, <2>1, <2>2 DEF Destroy, Goto, attached, Arriving
  <1>6. CASE Lock(p)
    BY <1>1, <1>2, <1>6, MonteCarloAssumption DEF Lock, Goto, attached
  <1>7. CASE Arrive(p)
    BY <1>1, <1>2, <1>7 DEF Arrive, Goto, attached
  <1>8. CASE Fix(p) \/ Leave(p)
    BY <1>1, <1>2, <1>3, <1>8 DEF Fix, Leave, Goto, attached, Working
  <1>9. CASE AddHits(p)
    BY <1>1, <1>2, <1>9 DEF AddHits, Goto, attached
  <1>10. CASE \/ ShmOpen(p) \/ SemOpen(p) \/ SemWait(p) \/ ReadCount(p) \/ AddTotal(p)
              \/ Check(p) \/ TestLast(p) \/ ShmUnlink(p) \/ SemUnlink(p) \/ End(p)
              \/ Interrupt(p) \/ StopRunning(p) \/ Kill(p)
    BY <1>10 DEF ShmOpen, SemOpen, SemWait, ReadCount, AddTotal, Check, TestLast, ShmUnlink,
       SemUnlink, End, Interrupt, StopRunning, Kill, Goto, attached
  <1> QED BY <1>4, <1>5, <1>6, <1>7, <1>8, <1>9, <1>10 DEF Deed, Step

-----------------------------------------------------------------------------
(* The count.                                                              *)

\* A process that begins or ceases to work is one more, or one less.
LEMMA WorkersMove ==
    ASSUME Base, NEW p \in Procs, NEW l, pc' = [pc EXCEPT ![p] = l], UNCHANGED shm, NEW g
    PROVE  /\ (shm[p] # g \/ (pc[p] \in Working <=> l \in Working)) =>
                Workers(g)' = Workers(g)
           /\ shm[p] = g /\ pc[p] \notin Working /\ l \in Working =>
                Cardinality(Workers(g)') = Cardinality(Workers(g)) + 1
           /\ shm[p] = g /\ pc[p] \in Working /\ l \notin Working =>
                Cardinality(Workers(g)') = Cardinality(Workers(g)) - 1
  <1>1. (shm[p] # g \/ (pc[p] \in Working <=> l \in Working)) => Workers(g)' = Workers(g)
    BY DEF Workers, Here, Base, TypeOK
  <1>2. CASE shm[p] = g /\ pc[p] \notin Working /\ l \in Working
    <2>1. Workers(g)' = Workers(g) \cup {p} /\ p \notin Workers(g)
      BY <1>2 DEF Workers, Here, Base, TypeOK
    <2> QED BY <1>1, <1>2, <2>1, WorkersFinite, FS_AddElement
  <1>3. CASE shm[p] = g /\ pc[p] \in Working /\ l \notin Working
    <2>1. Workers(g)' = Workers(g) \ {p} /\ p \in Workers(g)
      BY <1>3 DEF Workers, Here, Base, TypeOK
    <2> QED BY <1>1, <1>3, <2>1, WorkersFinite, FS_RemoveElement
  <1> QED BY <1>1, <1>2, <1>3

LEMMA DebtValue == ASSUME NEW g PROVE Debt(g) \in {0, 1} /\ Debt(g)' \in {0, 1}
  BY DEF Debt

\* A debt arises with a death and is paid with a repair.
LEMMA DebtStep ==
    ASSUME Base, OwnerInv, MutexInv, CountInv, NEW p \in Procs, Deed(p), NEW g \in Objs
    PROVE  /\ Fix(p) /\ g = shm[p] => Debt(g) = 1 /\ Debt(g)' = 0
           /\ ~(Kill(p) /\ pc[p] \in Working /\ g = shm[p]) => Debt(g)' <= Debt(g)
  <1>0. /\ pc[p] \in Inside => mtx[shm[p]] = p
        /\ mtx[g] = p => shm[p] = g /\ pc[p] \in Inside \cup {"killed"}
        /\ pc[p] # "start" => shm[p] \in Objs
    BY Attached DEF OwnerInv, Base, Stage
  <1>1. CASE InitMutex(p) \/ Destroy(p)
    <2>1. /\ pc' = [pc EXCEPT ![p] = IF InitMutex(p) THEN "arrive" ELSE "unlink"]
          /\ mtx'[g] = mtx[g] \/ mtx'[g] \in {"free", "gone"}
          /\ mtx[g] # p
      BY <1>0, <1>1 DEF InitMutex, Destroy, Goto, Inside, Base, TypeOK
    <2>2. ~Fix(p)
      BY <1>1 DEF InitMutex, Destroy, Fix
    <2> QED BY <2>1, <2>2, MonteCarloAssumption DEF Debt, Base, TypeOK
  <1>2. CASE Lock(p)
    <2>1. /\ mtx[shm[p]] \notin {"none", "gone"} /\ shm[p] \in Objs /\ pc[p] = "lock"
      BY <1>0, <1>2, MutexThere DEF Lock, Working
    <2>2. /\ mtx' = [mtx EXCEPT ![shm[p]] = p] /\ mtx[g] # p
          /\ pc' = [pc EXCEPT ![p] = IF mtx[shm[p]] = "free" THEN "total" ELSE "fix"]
      BY <1>0, <1>2, <2>1 DEF Lock, Goto, Inside
    <2>3. mtx[shm[p]] = "free" \/ (mtx[shm[p]] \in Procs /\ pc[mtx[shm[p]]] = "killed")
      <3>1. mtx[shm[p]] = "free" \/ (mtx[shm[p]] \in Procs /\ pc[mtx[shm[p]]] \in Over)
        BY <1>2, <2>1 DEF Lock, OwnerDead, Dead
      <3>2. mtx[shm[p]] \in Procs => pc[mtx[shm[p]]] \in Inside \cup {"killed"}
        BY <2>1 DEF OwnerInv
      <3> QED BY <3>1, <3>2 DEF Over, Inside
    <2>4. ~Fix(p)
      BY <2>1 DEF Fix
    <2>5. CASE g = shm[p]
      BY <2>1, <2>2, <2>3, <2>4, <2>5, MonteCarloAssumption DEF Debt, Base, TypeOK
    <2>6. CASE g # shm[p]
      BY <2>1, <2>2, <2>4, <2>6, MonteCarloAssumption DEF Debt, Base, TypeOK
    <2> QED BY <2>5, <2>6
  <1>3. CASE Fix(p)
    BY <1>0, <1>3 DEF Fix, Goto, Debt, Inside, Base, TypeOK
  <1>4. CASE AddHits(p)
    BY <1>0, <1>4, MonteCarloAssumption
       DEF AddHits, Fix, Goto, Debt, Inside, Base, TypeOK
  <1>5. CASE Kill(p)
    <2>1. ~(pc[p] \in Working /\ g = shm[p]) => mtx[g] # p
      BY <1>0, <1>5 DEF Kill, Inside, Working, Arriving, Removing
    <2>2. ~Fix(p) /\ UNCHANGED mtx /\ pc' = [pc EXCEPT ![p] = "killed"]
      BY <1>5 DEF Fix, Kill, Goto, Base, TypeOK
    <2> QED BY <1>5, <2>1, <2>2 DEF Debt, Base, TypeOK
  <1>6. CASE \/ ShmOpen(p) \/ SemOpen(p) \/ SemWait(p) \/ ReadCount(p) \/ Arrive(p)
             \/ AddTotal(p) \/ Check(p) \/ Leave(p) \/ TestLast(p) \/ ShmUnlink(p)
             \/ SemUnlink(p) \/ End(p) \/ Interrupt(p) \/ StopRunning(p)
    BY <1>0, <1>6
    DEF ShmOpen, SemOpen, SemWait, ReadCount, Arrive, AddTotal, Check, Leave, TestLast,
        ShmUnlink, SemUnlink, End, Interrupt, StopRunning, Goto, Fix, Debt, Inside, Base,
        TypeOK
  <1> QED BY <1>1, <1>2, <1>3, <1>4, <1>5, <1>6 DEF Deed, Step

LEMMA CostValue == ASSUME NEW g PROVE Cost(g) \in Nat /\ Cost(g)' \in Nat
  <1>1. Workers(g)' \subseteq Procs
    BY DEF Workers, Here
  <1>2. Cardinality(Workers(g)') \in Nat
    BY <1>1, FS_Subset, FS_CardinalityType, MonteCarloAssumption
  <1> QED BY <1>2, WorkersFinite, DebtValue DEF Cost

\* Who arrives costs one more; who leaves or repairs, one less; a death nothing.
LEMMA CostStep ==
    ASSUME Base, OwnerInv, MutexInv, CountInv, NEW p \in Procs, Deed(p), NEW g \in Objs
    PROVE  /\ Arrive(p) /\ g = shm[p] => Cost(g)' <= Cost(g) + 1
           /\ (Fix(p) \/ Leave(p)) /\ g = shm[p] => Cost(g)' <= Cost(g) - 1
           /\ ~(Arrive(p) /\ g = shm[p]) => Cost(g)' <= Cost(g)
  <1>0. /\ Cardinality(Workers(g)) \in Nat /\ Cardinality(Workers(g)') \in Nat
        /\ Debt(g) \in {0, 1} /\ Debt(g)' \in {0, 1}
        /\ Cost(g) = Cardinality(Workers(g)) + Debt(g)
        /\ Cost(g)' = Cardinality(Workers(g)') + Debt(g)'
    <2>1. Workers(g)' \subseteq Procs
      BY DEF Workers, Here
    <2> QED BY <2>1, FS_Subset, FS_CardinalityType, MonteCarloAssumption, WorkersFinite,
               DebtValue DEF Cost
  <1>1. CASE Arrive(p)
    <2>1. /\ pc[p] \notin Working /\ pc' = [pc EXCEPT ![p] = "lock"] /\ UNCHANGED shm
          /\ "lock" \in Working /\ ~Fix(p) /\ ~Leave(p) /\ ~Kill(p)
      BY <1>1 DEF Arrive, Fix, Leave, Kill, Goto, attached, Working, Base, TypeOK
    <2>2. /\ shm[p] = g => Cardinality(Workers(g)') = Cardinality(Workers(g)) + 1
          /\ shm[p] # g => Workers(g)' = Workers(g)
      BY <2>1, WorkersMove
    <2>3. Debt(g)' <= Debt(g)
      BY <2>1, DebtStep
    <2> QED BY <1>0, <1>1, <2>1, <2>2, <2>3
  <1>2. CASE Leave(p) \/ Kill(p)
    <2>1. /\ \E l \in {"last", "killed"} : pc' = [pc EXCEPT ![p] = l] /\ l \notin Working
          /\ UNCHANGED shm
          /\ Leave(p) => pc[p] \in Working /\ ~Kill(p)
          /\ ~Fix(p) /\ ~Arrive(p)
      BY <1>2 DEF Arrive, Fix, Leave, Kill, Goto, attached, Working, Base, TypeOK
    <2>2. PICK l \in {"last", "killed"} : pc' = [pc EXCEPT ![p] = l] /\ l \notin Working
      BY <2>1
    <2>3. CASE shm[p] = g /\ pc[p] \in Working
      <3>1. Cardinality(Workers(g)') = Cardinality(Workers(g)) - 1
        BY <2>1, <2>2, <2>3, WorkersMove
      <3>2. Leave(p) => Debt(g)' <= Debt(g)
        BY <2>1, DebtStep
      <3> QED BY <1>0, <1>2, <2>1, <3>1, <3>2
    <2>4. CASE ~(shm[p] = g /\ pc[p] \in Working)
      <3>1. Workers(g)' = Workers(g)
        BY <2>1, <2>2, <2>4, WorkersMove
      <3>2. Debt(g)' <= Debt(g)
        BY <2>4, DebtStep
      <3> QED BY <1>0, <2>1, <2>4, <3>1, <3>2
    <2> QED BY <2>3, <2>4
  <1>3. CASE ~Arrive(p) /\ ~Leave(p) /\ ~Kill(p)
    <2>1. pc[p] \in Working => mtx[shm[p]] # "gone"
      BY MutexThere
    <2>2. \A q \in Procs : /\ shm'[q] = shm[q] \/ pc[q] \notin Working
                           /\ pc'[q] \in Working <=> pc[q] \in Working
      BY <1>3, <2>1
      DEF Deed, Step, ShmOpen, SemOpen, SemWait, InitMutex, ReadCount, Lock, Fix, AddTotal,
          AddHits, Check, TestLast, Destroy, ShmUnlink, SemUnlink, End, Interrupt,
          StopRunning, Goto, attached, Working, Base, TypeOK
    <2>3. Workers(g)' = Workers(g)
      BY <2>2 DEF Workers, Here
    <2> QED BY <1>0, <1>3, <2>3, DebtStep
  <1> QED BY <1>1, <1>2, <1>3

LEMMA CountStep ==
    ASSUME Base, Sound, NEW p \in Procs, Deed(p), ~Overlapping'
    PROVE  CountInv'
  <1> SUFFICES ASSUME NEW g \in Objs
               PROVE  /\ cnt_active'[g] >= Cost(g)'
                      /\ \A q \in Procs : shm'[q] = g =>
                           /\ pc'[q] \in {"dec", "fixed"} => seen'[q] >= Cost(g)'
                           /\ pc'[q] = "arrived" => seen'[q] = cnt_active'[g]
                           /\ pc'[q] \in Removing => cnt_active'[g] = 0
    BY DEF CountInv, Here
  <1>0. /\ Cost(g) \in Nat /\ Cost(g)' \in Nat
        /\ cnt_active[g] >= Cost(g) /\ cnt_active[g] \in Int
        /\ \A q \in Procs : shm[q] = g =>
             /\ pc[q] \in {"dec", "fixed"} => seen[q] >= Cost(g)
             /\ pc[q] = "arrived" => seen[q] = cnt_active[g]
             /\ pc[q] \in Removing => cnt_active[g] = 0
        /\ \A q \in Procs : seen[q] \in Int
    BY CostValue DEF Sound, CountInv, Here, Base, TypeOK
  <1>1. CASE Arrive(p)
    <2>1. /\ pc[p] = "arrived" /\ pc' = [pc EXCEPT ![p] = "lock"] /\ UNCHANGED shm
          /\ cnt_active' = [cnt_active EXCEPT ![shm[p]] = seen[p] + 1]
          /\ seen' = [seen EXCEPT ![p] = 0]
      BY <1>1 DEF Arrive, Goto, attached
    <2>2. \A q \in Procs : /\ pc[q] \notin Removing \cup {"dec", "fixed"}
                           /\ pc[q] = "arrived" => q = p
      BY <2>1 DEF Sound, SemInv, Overlapping, Arriving
    <2>3. CASE g = shm[p]
      <3>1. Cost(g)' <= Cost(g) + 1
        BY <1>1, <2>3, CostStep DEF Sound
      <3>2. cnt_active'[g] = cnt_active[g] + 1
        BY <1>0, <2>1, <2>3 DEF Base, TypeOK
      <3> QED BY <1>0, <2>1, <2>2, <3>1, <3>2 DEF Removing, Base, TypeOK
    <2>4. CASE g # shm[p]
      <3>1. Cost(g)' <= Cost(g)
        BY <2>4, CostStep DEF Sound
      <3>2. cnt_active'[g] = cnt_active[g]
        BY <2>1, <2>4 DEF Base, TypeOK
      <3> QED BY <1>0, <2>1, <2>2, <3>1, <3>2 DEF Removing, Base, TypeOK
    <2> QED BY <2>3, <2>4
  <1>2. CASE Fix(p) \/ Leave(p)
    <2>1. /\ pc[p] \in {"dec", "fixed"} /\ UNCHANGED shm
          /\ \E l \in {"last", "total"} : pc' = [pc EXCEPT ![p] = l]
          /\ cnt_active' = [cnt_active EXCEPT ![shm[p]] = seen[p] - 1]
          /\ seen' = [seen EXCEPT ![p] = 0]
      BY <1>2 DEF Fix, Leave, Goto, attached
    <2>2. \A q \in Procs : pc[q] # "arrived"
      BY <2>1 DEF Sound, Overlapping, Arriving
    <2>3. ~Arrive(p)
      BY <2>1 DEF Arrive
    <2>4. CASE g = shm[p]
      <3>1. Cost(g)' <= Cost(g) - 1
        BY <1>2, <2>4, CostStep DEF Sound
      <3>2. cnt_active'[g] = seen[p] - 1 /\ seen[p] >= Cost(g)
        BY <1>0, <2>1, <2>4 DEF Base, TypeOK
      <3>3. \A q \in Procs : shm[q] = g => pc[q] \notin Removing
        BY <1>0, <2>1, <2>4, CountedWork DEF Sound, Working
      <3> QED BY <1>0, <2>1, <2>2, <3>1, <3>2, <3>3 DEF Removing, Base, TypeOK
    <2>5. CASE g # shm[p]
      <3>1. Cost(g)' <= Cost(g)
        BY <2>3, CostStep DEF Sound
      <3>2. cnt_active'[g] = cnt_active[g]
        BY <2>1, <2>5 DEF Base, TypeOK
      <3> QED BY <1>0, <2>1, <2>2, <2>5, <3>1, <3>2 DEF Removing, Base, TypeOK
    <2> QED BY <2>4, <2>5
  <1>3. CASE ReadCount(p)
    <2>1. /\ UNCHANGED <<shm, cnt_active>>
          /\ \E l \in {"arrived", "fixed", "dec"} : pc' = [pc EXCEPT ![p] = l]
          /\ seen' = [seen EXCEPT ![p] = cnt_active[shm[p]]]
      BY <1>3 DEF ReadCount, Goto, attached
    <2>2. Cost(g)' <= Cost(g)
      <3>1. ~Arrive(p)
        BY <1>3 DEF Arrive, ReadCount
      <3> QED BY <3>1, CostStep DEF Sound
    <2> QED BY <1>0, <2>1, <2>2 DEF Removing, Base, TypeOK
  <1>4. CASE ~Arrive(p) /\ ~Fix(p) /\ ~Leave(p) /\ ~ReadCount(p)
    <2>1. Cost(g)' <= Cost(g)
      BY <1>4, CostStep DEF Sound
    <2>2. UNCHANGED <<cnt_active, seen>>
      BY <1>4
      DEF Deed, Step, ShmOpen, SemOpen, SemWait, InitMutex, Lock, AddTotal, AddHits, Check,
          TestLast, Destroy, ShmUnlink, SemUnlink, End, Interrupt, StopRunning, Kill
    <2>3. \A q \in Procs :
             /\ shm'[q] = shm[q] \/ pc'[q] = "sem"
             /\ pc'[q] \in {"dec", "fixed", "arrived"} => pc'[q] = pc[q]
             /\ pc'[q] \in Removing =>
                  pc[q] \in Removing \/ cnt_active[shm[q]] = 0
      BY <1>4
      DEF Deed, Step, ShmOpen, SemOpen, SemWait, InitMutex, Lock, AddTotal, AddHits, Check,
          TestLast, LastOne, Destroy, ShmUnlink, SemUnlink, End, Interrupt, StopRunning,
          Kill, Goto, attached, Removing, Base, TypeOK
    <2> QED BY <1>0, <2>1, <2>2, <2>3 DEF Removing
  <1> QED BY <1>1, <1>2, <1>3, <1>4

-----------------------------------------------------------------------------
(* The invariant and the theorem.                                          *)

LEMMA InitInv == Init => Inv
  <1> SUFFICES ASSUME Init PROVE Inv
    OBVIOUS
  <1>1. Base
    BY InitBase
  <1>2. ASSUME NEW g \in Objs
        PROVE  Hitting(g) = {} /\ Workers(g) = {} /\ Debt(g) = 0
    BY MonteCarloAssumption DEF Init, Hitting, Workers, Here, Working, Debt
  <1>3. HitsInv
    BY <1>2, FS_EmptySet DEF Init, HitsInv
  <1>4. ~Overlapping /\ NameInv /\ SemInv
    BY DEF Init, Overlapping, NameInv, SemInv, Opening, Arriving
  <1>5. OwnerInv /\ MutexInv
    BY MonteCarloAssumption DEF Init, OwnerInv, MutexInv, Inside
  <1>6. CountInv
    BY <1>2, FS_EmptySet DEF Init, CountInv, Cost, Here, Removing
  <1> QED BY <1>1, <1>3, <1>4, <1>5, <1>6 DEF Inv, Sound

LEMMA NextInv == ASSUME Inv, [Next]_vars PROVE Inv'
  <1>1. CASE UNCHANGED vars
    <2> USE <1>1 DEF vars, names, counters, attached, signals
    <2>1. TypeOK' <=> TypeOK
      BY DEF TypeOK
    <2>2. (Stage' <=> Stage) /\ (MadeInv' <=> MadeInv)
      BY DEF Stage, MadeInv
    <2>3. HitsInv' <=> HitsInv
      BY DEF HitsInv, Hitting, Here
    <2>4. /\ Overlapping' <=> Overlapping
          /\ NameInv' <=> NameInv
          /\ SemInv' <=> SemInv
      BY DEF Overlapping, NameInv, SemInv
    <2>5. (OwnerInv' <=> OwnerInv) /\ (MutexInv' <=> MutexInv)
      BY DEF OwnerInv, MutexInv
    <2>6. CountInv' <=> CountInv
      BY DEF CountInv, Cost, Workers, Debt, Here
    <2>7. overlap' = overlap
      OBVIOUS
    <2> HIDE <1>1
    <2> QED BY <2>1, <2>2, <2>3, <2>4, <2>5, <2>6, <2>7 DEF Inv, Base, Sound
  <1>2. CASE Next
    <2>1. PICK p \in Procs : Deed(p)
      BY <1>2 DEF Next, Deed
    <2>2. overlap' = (overlap \/ Overlapping')
      BY <1>2 DEF Next
    <2>3. Base' /\ HitsInv'
      BY <2>1, <2>2, BaseStep, HitsStep DEF Inv
    <2>4. ASSUME ~overlap' PROVE Sound'
      <3>1. ~overlap /\ ~Overlapping'
        BY <2>2, <2>4
      <3>2. Base /\ Sound
        BY <3>1 DEF Inv
      <3> QED BY <2>1, <3>1, <3>2, NameStep, OwnerStep, MutexStep, CountStep DEF Sound
    <2> QED BY <2>3, <2>4 DEF Inv
  <1> QED BY <1>1, <1>2

LEMMA InvSound == Inv => SharedStateSound
  <1> SUFFICES ASSUME Inv PROVE SharedStateSound
    OBVIOUS
  <1> SUFFICES ASSUME ~overlap, NEW g \in Objs
               PROVE  LET here == {p \in Procs : shm[p] = g}
                          inside == {p \in here : pc[p] \in {"fix", "fixed", "total", "hits"}}
                      IN /\ cnt_active[g] >= Cardinality({p \in here : pc[p] \in Working})
                         /\ \A p \in here : pc[p] \in Working => mtx[g] \notin {"none", "gone"}
                         /\ Cardinality(inside) <= 1
                         /\ total[g] - total_hit[g] <= kills + Cardinality(inside)
    BY DEF SharedStateSound, Inv, Base
  <1> DEFINE inside == {p \in Here(g) : pc[p] \in {"fix", "fixed", "total", "hits"}}
  <1>1. Base /\ HitsInv /\ Sound
    BY DEF Inv
  <1>2. cnt_active[g] >= Cardinality(Workers(g))
    <2>1. cnt_active[g] >= Cost(g) /\ cnt_active[g] \in Int
      BY <1>1 DEF Sound, CountInv, Base, TypeOK
    <2> QED BY <2>1, WorkersFinite, DebtValue DEF Cost
  <1>3. \A p \in Here(g) : pc[p] \in Working => mtx[g] \notin {"none", "gone"}
    BY <1>1, MutexThere DEF Sound, Here
  <1>4. Cardinality(inside) <= 1 /\ Cardinality(inside) \in Nat
    <2>1. CASE inside = {}
      BY <2>1, FS_EmptySet
    <2>2. ASSUME NEW p \in inside PROVE inside = {p}
      BY <1>1 DEF Sound, OwnerInv, Inside, Here
    <2> QED BY <2>1, <2>2, FS_Singleton
  <1>5. Cardinality(Hitting(g)) <= Cardinality(inside)
    <2>1. Hitting(g) \subseteq inside /\ inside \subseteq Procs
      BY DEF Hitting, Here
    <2> QED BY <2>1, FS_Subset, MonteCarloAssumption
  <1>6. total[g] - total_hit[g] <= kills + Cardinality(inside)
    <2>1. /\ total[g] - total_hit[g] <= kills + Cardinality(Hitting(g))
          /\ total[g] \in Nat /\ total_hit[g] \in Nat /\ kills \in Nat
      BY <1>1, MonteCarloAssumption DEF HitsInv, Base, TypeOK
    <2> QED BY <1>4, <1>5, <2>1, HittingFinite
  <1> QED BY <1>2, <1>3, <1>4, <1>6 DEF Workers, Here

(* Whichever program of MCSharedMemory is started, with any number of      *)
(* processes and batches and however many of them are killed: as long as   *)
(* no arrival meets a departure or a repair, nobody works in a memory that *)
(* is not counted or whose mutex is destroyed, one process at most is      *)
(* inside, and a death costs the hits of one batch at most (main of        *)
(* zad02.c).                                                               *)
THEOREM MemoryStaysSound == LabSpec => []SharedStateSound
  <1>1. LabInit => Inv
    BY InitInv DEF LabInit
  <1>2. Inv /\ [LabNext]_labVars => Inv'
    BY NextInv DEF LabNext, Estimate, Dying, labVars
  <1>3. Inv => SharedStateSound
    BY InvSound
  <1> QED BY <1>1, <1>2, <1>3, PTL DEF LabSpec

-----------------------------------------------------------------------------
(* Dying: the invariant.                                                   *)

\* The iterations of p whose update of the counter is made.
Updates(p) == IF dpc[p] \in {"unlock", "die", "dead"} THEN it[p] + 1 ELSE it[p]

Owns(p) == dpc[p] \in {"read", "write", "unlock", "die"}

DyTypes == /\ dpc \in [Dy!Both -> {"fork", "unborn", "lock", "read", "write", "unlock",
                                   "die", "dead", "wait", "print", "done"}]
           /\ it \in [Dy!Both -> Nat] /\ copy \in [Dy!Both -> Int] /\ counter \in Int

(* The owner of the mutex alone touches the counter, and what it has read  *)
(* is what the counter still is: so every update made counts.              *)
CounterInv == /\ \A p \in Dy!Both : Owns(p) => dmtx = p
              /\ \A p \in Dy!Both : dpc[p] = "write" => copy[p] = counter
              /\ counter = Updates("producer") - Updates("consumer")

\* How the two processes come to their ends.
EndInv == /\ dpc["producer"] \notin {"unborn", "die", "dead"}
          /\ dpc["consumer"] \notin {"fork", "wait", "print", "done"}
          /\ dpc["producer"] = "fork" => dpc["consumer"] = "unborn"
          /\ dpc["consumer"] \in {"die", "dead"} => it["consumer"] = DEATH
          /\ dpc["producer"] \in {"wait", "print", "done"} => it["producer"] = ITERATIONS
          /\ dpc["producer"] \in {"print", "done"} => dpc["consumer"] = "dead"

\* The parent prints one number, the exact count.
ExactCount == printed \subseteq {ITERATIONS - (DEATH + 1)}

DyingInv == DyTypes /\ CounterInv /\ EndInv /\ ExactCount

LEMMA DyingInit == Dy!Init => DyingInv
  <1> SUFFICES ASSUME Dy!Init PROVE DyingInv
    OBVIOUS
  <1>1. /\ dpc = [p \in Dy!Both |-> IF p = "producer" THEN "fork" ELSE "unborn"]
        /\ it = [p \in Dy!Both |-> 0] /\ copy = [p \in Dy!Both |-> 0]
        /\ counter = 0 /\ printed = {}
    BY DEF Dy!Init
  <1>2. DyTypes
    BY <1>1 DEF DyTypes, Dy!Both
  <1>3. dpc["producer"] = "fork" /\ dpc["consumer"] = "unborn"
        /\ it["producer"] = 0 /\ it["consumer"] = 0
    BY <1>1 DEF Dy!Both
  <1>4. CounterInv
    BY <1>1, <1>3 DEF CounterInv, Owns, Updates, Dy!Both
  <1>5. EndInv
    BY <1>3 DEF EndInv
  <1>6. ExactCount
    BY <1>1 DEF ExactCount
  <1> QED BY <1>2, <1>4, <1>5, <1>6 DEF DyingInv

LEMMA DyingStep == ASSUME DyingInv, Dy!Next PROVE DyingInv'
  <1> USE DEF DyingInv, DyTypes, CounterInv, EndInv, ExactCount, Owns, Updates, Dy!Both, Dy!Goto
  <1>1. CASE Dy!Fork
    BY <1>1 DEF Dy!Fork
  <1>2. ASSUME NEW p \in Dy!Both, Dy!Lock(p) PROVE DyingInv'
    BY <1>2 DEF Dy!Lock, Dy!OwnerDead
  <1>3. ASSUME NEW p \in Dy!Both, Dy!Read(p) PROVE DyingInv'
    BY <1>3 DEF Dy!Read
  <1>4. ASSUME NEW p \in Dy!Both, Dy!Write(p) PROVE DyingInv'
    BY <1>4 DEF Dy!Write, Dy!Dies
  <1>5. ASSUME NEW p \in Dy!Both, Dy!Unlock(p) PROVE DyingInv'
    BY <1>5 DEF Dy!Unlock
  <1>6. CASE Dy!Die
    BY <1>6 DEF Dy!Die
  <1>7. CASE Dy!ProducerDone \/ Dy!Wait
    BY <1>7 DEF Dy!ProducerDone, Dy!Wait
  <1>8. CASE Dy!Report
    BY <1>8 DEF Dy!Report
  <1> QED BY <1>1, <1>2, <1>3, <1>4, <1>5, <1>6, <1>7, <1>8
          DEF Dy!Next, Dy!Parent, Dy!Child, Dy!Step

(* Whatever the parent of dying.c prints is the exact count, although the  *)
(* child dies with the mutex: no update is lost and the decrement of the   *)
(* dead child counts, for any number of iterations and any iteration in    *)
(* which it dies.                                                          *)
THEOREM CountIsExact == LabSpec => []ExactCount
  <1>1. LabInit => DyingInv
    BY DyingInit DEF LabInit
  <1>2. DyingInv /\ [LabNext]_labVars => DyingInv'
    <2> SUFFICES ASSUME DyingInv, [LabNext]_labVars PROVE DyingInv'
      OBVIOUS
    <2>1. CASE UNCHANGED dyingVars
      BY <2>1 DEF dyingVars, DyingInv, DyTypes, CounterInv, EndInv, ExactCount, Owns, Updates
    <2>2. Dy!Next \/ UNCHANGED dyingVars
      BY DEF LabNext, Estimate, Dying, labVars
    <2> QED BY <2>1, <2>2, DyingStep
  <1>3. DyingInv => ExactCount
    BY DEF DyingInv
  <1> QED BY <1>1, <1>2, <1>3, PTL DEF LabSpec
=============================================================================
