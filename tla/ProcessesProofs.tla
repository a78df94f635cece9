--------------------------- MODULE ProcessesProofs ---------------------------
(***************************************************************************)
(* Proofs about the programs of MCProcesses.  The safety properties of     *)
(* ProdCons hold for every buffer size and every number of iterations.     *)
(* None of them is inductive: that the consumer reads the right item       *)
(* depends on what the ring holds, and that depends on the mutex and on    *)
(* how many items each process has handled.  Bingo comes after it.         *)
(***************************************************************************)
EXTENDS MCProcesses, FiniteSetTheorems, TLAPS

\* The index of the j-th oldest item of the ring.
Slot(j) == IF out + j < BUFFER_SIZE THEN out + j ELSE out + j - BUFFER_SIZE

\* The mutex is held exactly by the process between lock and unlock.
MutexInv == \A p \in Proc : pc[p] \in {"check", "signal", "unlock"} <=> mtx = p

\* A process is in its loop exactly while it has items left to handle.
LoopInv == \A p \in Proc : pc[p] \in {"end", "exited"} <=> i[p] = ITERATIONS

\* The ring holds the items stored and not yet removed, in order.
RingInv == /\ Len(taken) = Done("C")
           /\ Done("P") = Done("C") + size
           /\ in = Slot(size)
           /\ \A j \in 0 .. size - 1 : items[Slot(j)] = Done("C") + j

\* The parent destroys the mutex only after the child has exited.
ExitInv == /\ ~alive => pc["P"] = "exited"
           /\ pc["P"] = "exited" => pc["C"] = "exited"

Inv == /\ TypeOK /\ MutexInv /\ LoopInv /\ RingInv /\ ExitInv
       /\ TakenInOrder /\ NoLostWakeup

-----------------------------------------------------------------------------
\* The next index of the ring, without the modulus.
LEMMA NextIndex ==
    ASSUME NEW n \in Nat \ {0}, NEW x \in 0 .. n - 1
    PROVE  (x + 1) % n = IF x + 1 = n THEN 0 ELSE x + 1
  OBVIOUS

\* The state after memset and fork satisfies the invariant.
LEMMA InitInv == Init => Inv
  BY ProdConsAssumption
     DEF Init, Inv, TypeOK, MutexInv, LoopInv, RingInv, ExitInv, TakenInOrder,
         NoLostWakeup, Done, Slot, Proc, Index, Label

\* Steps that leave the ring and the counts alone.
LEMMA QuietStep ==
    ASSUME Inv, UNCHANGED <<ring, taken>>,
           \A p \in Proc : Done(p)' = Done(p)
    PROVE  RingInv' /\ TakenInOrder'
  BY DEF Inv, RingInv, TakenInOrder, Slot, ring, Proc

LEMMA LockStep == ASSUME NEW p \in Proc, Inv, Lock(p) PROVE Inv'
  <1>1. \A q \in Proc : Done(q)' = Done(q)
    BY DEF Lock, Goto, Done, Inv, TypeOK, Proc
  <1>2. RingInv' /\ TakenInOrder'
    BY <1>1, QuietStep DEF Lock
  <1>3. TypeOK' /\ MutexInv' /\ LoopInv' /\ ExitInv' /\ NoLostWakeup'
    BY DEF Inv, Lock, Goto, ring, TypeOK, MutexInv, LoopInv, ExitInv, NoLostWakeup,
           Proc, Label
  <1> QED BY <1>2, <1>3 DEF Inv

LEMMA WaitStep == ASSUME NEW p \in Proc, Inv, Wait(p) PROVE Inv'
  <1>1. \A q \in Proc : Done(q)' = Done(q)
    BY DEF Wait, Goto, Done, Inv, TypeOK, Proc
  <1>2. RingInv' /\ TakenInOrder'
    BY <1>1, QuietStep DEF Wait
  <1>3. TypeOK' /\ MutexInv' /\ LoopInv' /\ ExitInv'
    BY DEF Inv, Wait, Goto, ring, TypeOK, MutexInv, LoopInv, ExitInv, Proc, Label
  <1>4. NoLostWakeup'
    <2>1. CASE p = "C"
      BY <2>1 DEF Inv, Wait, Goto, MustWait, Empty, ring, TypeOK, MutexInv, NoLostWakeup, Proc
    <2>2. CASE p = "P"
      <3>1. size = BUFFER_SIZE
        BY <2>2, ProdConsAssumption DEF Inv, Wait, MustWait, Full, TypeOK
      <3> QED BY <2>2, <3>1 DEF Inv, Wait, Goto, ring, TypeOK, MutexInv, NoLostWakeup, Proc
    <2> QED BY <2>1, <2>2 DEF Proc
  <1> QED BY <1>2, <1>3, <1>4 DEF Inv

LEMMA SignalStep == ASSUME NEW p \in Proc, Inv, Signal(p) PROVE Inv'
  <1>1. \A q \in Proc : Done(q)' = Done(q)
    BY DEF Signal, Awaken, Other, Done, Inv, TypeOK, Proc
  <1>2. RingInv' /\ TakenInOrder'
    BY <1>1, QuietStep DEF Signal
  <1>3. TypeOK' /\ MutexInv' /\ LoopInv' /\ ExitInv'
    BY DEF Inv, Signal, Awaken, Other, ring, TypeOK, MutexInv, LoopInv, ExitInv,
           Proc, Label
  <1>4. NoLostWakeup'
    BY DEF Inv, Signal, Awaken, Other, ring, TypeOK, MutexInv, NoLostWakeup, Proc
  <1> QED BY <1>2, <1>3, <1>4 DEF Inv

LEMMA UnlockStep == ASSUME NEW p \in Proc, Inv, Unlock(p) PROVE Inv'
  <1>1. \A q \in Proc : Done(q)' = Done(q)
    BY DEF Unlock, Goto, Done, Inv, TypeOK, Proc
  <1>2. RingInv' /\ TakenInOrder'
    BY <1>1, QuietStep DEF Unlock
  <1>3. TypeOK' /\ LoopInv'
    BY ProdConsAssumption
       DEF Inv, Unlock, Goto, ring, TypeOK, LoopInv, Proc, Label
  <1>4. MutexInv' /\ ExitInv' /\ NoLostWakeup'
    BY DEF Inv, Unlock, Goto, ring, TypeOK, MutexInv, ExitInv, NoLostWakeup, Proc
  <1> QED BY <1>2, <1>3, <1>4 DEF Inv

LEMMA SpuriousStep == ASSUME NEW p \in Proc, Inv, SpuriousWakeup(p) PROVE Inv'
  <1>1. \A q \in Proc : Done(q)' = Done(q)
    BY DEF SpuriousWakeup, Goto, Done, Inv, TypeOK, Proc
  <1>2. RingInv' /\ TakenInOrder'
    BY <1>1, QuietStep DEF SpuriousWakeup
  <1>3. TypeOK' /\ MutexInv' /\ LoopInv' /\ ExitInv' /\ NoLostWakeup'
    BY ProdConsAssumption
       DEF Inv, SpuriousWakeup, Goto, ring, TypeOK, MutexInv, LoopInv, ExitInv,
           NoLostWakeup, Proc, Label
  <1> QED BY <1>2, <1>3 DEF Inv

\* The producer writes the free slot behind the newest item.
LEMMA ProduceStep == ASSUME Inv, Produce PROVE Inv'
  <1>1. /\ size < BUFFER_SIZE /\ size \in Nat /\ out \in Index /\ in \in Index
        /\ BUFFER_SIZE \in Nat \ {0}
    BY ProdConsAssumption DEF Inv, Produce, MustWait, Full, TypeOK
  <1>2. in' = (IF in + 1 = BUFFER_SIZE THEN 0 ELSE in + 1) /\ in' \in Index
    <2>1. (in + 1) % BUFFER_SIZE = IF in + 1 = BUFFER_SIZE THEN 0 ELSE in + 1
      BY <1>1, NextIndex DEF Index
    <2>2. in' = IF in + 1 = BUFFER_SIZE THEN 0 ELSE in + 1
      BY <2>1 DEF Produce
    <2> QED BY <1>1, <2>2 DEF Index
  <1>3. i["P"] < ITERATIONS /\ i["P"] \in Nat
    BY ProdConsAssumption DEF Inv, Produce, TypeOK, LoopInv, Proc
  <1>4. TypeOK'
    BY <1>1, <1>2, <1>3 DEF Inv, Produce, Goto, TypeOK, Proc, Label, Index
  <1>5. MutexInv' /\ LoopInv' /\ ExitInv' /\ TakenInOrder' /\ NoLostWakeup'
    BY <1>1 DEF Inv, Produce, Goto, TypeOK, MutexInv, LoopInv, ExitInv, TakenInOrder,
                NoLostWakeup, Proc
  <1>6. Done("P")' = Done("P") + 1 /\ Done("C")' = Done("C") /\ Done("P") = i["P"]
    BY <1>3 DEF Inv, Produce, Goto, TypeOK, Done, Proc
  <1>7. Done("P") \in Nat /\ Done("C") \in Nat
    BY DEF Inv, TypeOK, Done, Proc
  <1>8. RingInv'
    <2>1. Len(taken)' = Done("C")' /\ Done("P")' = Done("C")' + size'
      BY <1>1, <1>6, <1>7 DEF Inv, RingInv, Produce
    <2>2. in' = Slot(size)'
      BY <1>1, <1>2 DEF Inv, RingInv, Produce, Slot, Index
    <2>3. \A j \in 0 .. size' - 1 : items'[Slot(j)'] = Done("C")' + j
      <3> SUFFICES ASSUME NEW j \in 0 .. size
                   PROVE  items'[Slot(j)] = Done("C") + j
        BY <1>1, <1>6 DEF Produce, Slot
      <3>1. Slot(j) \in Index
        BY <1>1 DEF Slot, Index
      <3>2. CASE j = size
        BY <1>1, <1>6, <1>7, <3>2 DEF Inv, RingInv, Produce, TypeOK
      <3>3. CASE j < size
        <4>1. Slot(j) # in
          BY <1>1, <3>3 DEF Inv, RingInv, Slot, Index
        <4> QED BY <1>1, <3>1, <3>3, <4>1 DEF Inv, RingInv, Produce, TypeOK
      <3> QED BY <1>1, <3>2, <3>3
    <2> QED BY <2>1, <2>2, <2>3 DEF RingInv
  <1> QED BY <1>4, <1>5, <1>8 DEF Inv

\* The consumer removes the oldest item, which is the one it expects.
LEMMA ConsumeStep == ASSUME Inv, Consume PROVE Inv'
  <1>1. /\ size > 0 /\ size \in 0 .. BUFFER_SIZE /\ out \in Index /\ in \in Index
        /\ BUFFER_SIZE \in Nat \ {0}
    BY ProdConsAssumption DEF Inv, Consume, MustWait, Empty, TypeOK
  <1>2. out' = (IF out + 1 = BUFFER_SIZE THEN 0 ELSE out + 1) /\ out' \in Index
    <2>1. (out + 1) % BUFFER_SIZE = IF out + 1 = BUFFER_SIZE THEN 0 ELSE out + 1
      BY <1>1, NextIndex DEF Index
    <2>2. out' = IF out + 1 = BUFFER_SIZE THEN 0 ELSE out + 1
      BY <2>1 DEF Consume
    <2> QED BY <1>1, <2>2 DEF Index
  <1>3. /\ Done("C")' = Done("C") + 1 /\ Done("P")' = Done("P")
        /\ Done("C") \in Nat /\ Done("P") \in Nat
    BY DEF Inv, Consume, Goto, TypeOK, Done, Proc
  <1>4. items[out] = Done("C")
    BY <1>1, <1>3 DEF Inv, RingInv, Slot, Index
  <1>5. taken' = Append(taken, Done("C")) /\ taken \in Seq(Nat)
    BY <1>4 DEF Inv, Consume, TypeOK
  <1>6. TypeOK'
    BY <1>1, <1>2, <1>3, <1>5 DEF Inv, Consume, Goto, TypeOK, Proc, Label, Index
  <1>7. MutexInv' /\ LoopInv' /\ ExitInv' /\ NoLostWakeup'
    BY <1>1 DEF Inv, Consume, Goto, TypeOK, MutexInv, LoopInv, ExitInv,
                NoLostWakeup, Proc
  <1>8. TakenInOrder'
    BY <1>3, <1>5 DEF Inv, RingInv, TakenInOrder
  <1>9. RingInv'
    <2>1. Len(taken)' = Done("C")' /\ Done("P")' = Done("C")' + size'
      BY <1>1, <1>3, <1>5 DEF Inv, RingInv, Consume
    <2>2. in' = Slot(size)'
      <3>1. in' = in /\ size' = size - 1 /\ in = Slot(size)
        BY DEF Inv, RingInv, Consume
      <3> QED BY <1>1, <1>2, <3>1 DEF Slot, Index
    <2>3. \A j \in 0 .. size' - 1 : items'[Slot(j)'] = Done("C")' + j
      <3> SUFFICES ASSUME NEW j \in 0 .. size - 2
                   PROVE  items[Slot(j)'] = Done("C") + 1 + j
        BY <1>1, <1>3 DEF Consume
      <3>1. Slot(j)' = Slot(j + 1)
        BY <1>1, <1>2 DEF Slot, Index
      <3> QED BY <1>1, <1>3, <3>1 DEF Inv, RingInv
    <2> QED BY <2>1, <2>2, <2>3 DEF RingInv
  <1> QED BY <1>6, <1>7, <1>8, <1>9 DEF Inv

LEMMA ExitStep == ASSUME Inv, ChildExit \/ Destroy PROVE Inv'
  <1>1. \A q \in Proc : Done(q)' = Done(q)
    BY DEF ChildExit, Destroy, Goto, Done, Inv, TypeOK, Proc
  <1>2. RingInv' /\ TakenInOrder'
    BY <1>1, QuietStep DEF ChildExit, Destroy
  <1>3. TypeOK' /\ MutexInv' /\ LoopInv' /\ ExitInv' /\ NoLostWakeup'
    BY DEF Inv, ChildExit, Destroy, ChildrenGone, Goto, ring, TypeOK, MutexInv,
           LoopInv, ExitInv, NoLostWakeup, Proc, Label
  <1> QED BY <1>2, <1>3 DEF Inv

LEMMA StutterStep == ASSUME Inv, UNCHANGED vars PROVE Inv'
  <1>1. \A q \in Proc : Done(q)' = Done(q)
    BY DEF vars, Done
  <1>2. RingInv' /\ TakenInOrder'
    BY <1>1, QuietStep DEF vars
  <1>3. TypeOK' /\ MutexInv' /\ LoopInv' /\ ExitInv' /\ NoLostWakeup'
    BY DEF Inv, vars, ring, TypeOK, MutexInv, LoopInv, ExitInv, NoLostWakeup
  <1> QED BY <1>2, <1>3 DEF Inv

\* The invariant holds in every reachable state.
THEOREM Invariance == Spec => []Inv
  <1>1. Inv /\ [Next]_vars => Inv'
    BY LockStep, WaitStep, SignalStep, UnlockStep, SpuriousStep, ProduceStep,
       ConsumeStep, ExitStep, StutterStep DEF Next, Step, Finished
  <1> QED BY <1>1, InitInv, PTL DEF Spec

(* producer and consumer keep in, out and size inside the array, for every *)
(* BUFFER_SIZE.                                                            *)
THEOREM TypeCorrect == Spec => []TypeOK
  <1>1. Inv => TypeOK
    BY DEF Inv
  <1> QED BY <1>1, Invariance, PTL

(* What consumer prints is what producer stored, in order, each item once. *)
THEOREM InOrder == Spec => []TakenInOrder
  <1>1. Inv => TakenInOrder
    BY DEF Inv
  <1> QED BY <1>1, Invariance, PTL

(* A process blocked in pthread_cond_wait has a reason to wait, or the     *)
(* other one is about to signal it.                                        *)
THEOREM WakeupsKept == Spec => []NoLostWakeup
  <1>1. Inv => NoLostWakeup
    BY DEF Inv
  <1> QED BY <1>1, Invariance, PTL

(* The parent destroys the mutex and the condition variables only when     *)
(* neither process can use them any more.                                  *)
THEOREM SafeDestroy == Spec => []DestroyedUnused
  <1>1. Inv => DestroyedUnused
    BY DEF Inv, MutexInv, ExitInv, DestroyedUnused, TypeOK, Proc
  <1> QED BY <1>1, Invariance, PTL

-----------------------------------------------------------------------------
(* The ring implements the abstract queue.                                 *)

\* The modulus of an index that has run at most once past the end.
LEMMA WrappedIndex ==
    ASSUME NEW n \in Nat \ {0}, NEW x \in 0 .. n - 1, NEW j \in 0 .. n - 1
    PROVE  (x + j) % n = IF x + j < n THEN x + j ELSE x + j - n
  OBVIOUS

\* The numbers a, a + 1, ... as a queue of length n.
Run(a, n) == [k \in 1 .. n |-> a + k - 1]

LEMMA SameItems ==
    ASSUME NEW S, NEW s \in Seq(S), NEW t \in Seq(S), Len(s) = Len(t),
           \A k \in 1 .. Len(s) : s[k] = t[k]
    PROVE  s = t
  OBVIOUS

LEMMA RunFacts ==
    ASSUME NEW a \in Nat, NEW n \in Nat
    PROVE  /\ Run(a, n) \in Seq(Nat) /\ Len(Run(a, n)) = n
           /\ Append(Run(a, n), a + n) = Run(a, n + 1)
           /\ n > 0 => Head(Run(a, n)) = a /\ Tail(Run(a, n)) = Run(a + 1, n - 1)
           /\ n = 0 <=> Run(a, n) = <<>>
  <1>1. Run(a, n) \in Seq(Nat) /\ Len(Run(a, n)) = n
    BY DEF Run
  <1>2. Append(Run(a, n), a + n) = Run(a, n + 1)
    <2>1. /\ Append(Run(a, n), a + n) \in Seq(Nat)
          /\ Len(Append(Run(a, n), a + n)) = n + 1
      BY <1>1
    <2>2. Run(a, n + 1) \in Seq(Nat) /\ Len(Run(a, n + 1)) = n + 1
      BY DEF Run
    <2>3. ASSUME NEW k \in 1 .. n + 1
          PROVE  Append(Run(a, n), a + n)[k] = Run(a, n + 1)[k]
      BY <1>1 DEF Run
    <2> QED BY <2>1, <2>2, <2>3, SameItems
  <1>3. ASSUME n > 0
        PROVE  Head(Run(a, n)) = a /\ Tail(Run(a, n)) = Run(a + 1, n - 1)
    <2>1. Head(Run(a, n)) = a
      BY <1>1, <1>3 DEF Run
    <2>2. Tail(Run(a, n)) \in Seq(Nat) /\ Len(Tail(Run(a, n))) = n - 1
      BY <1>1, <1>3
    <2>3. Run(a + 1, n - 1) \in Seq(Nat) /\ Len(Run(a + 1, n - 1)) = n - 1
      BY <1>3 DEF Run
    <2>4. ASSUME NEW k \in 1 .. n - 1
          PROVE  Tail(Run(a, n))[k] = Run(a + 1, n - 1)[k]
      BY <1>1, <1>3 DEF Run
    <2>5. Tail(Run(a, n)) = Run(a + 1, n - 1)
      BY <2>2, <2>3, <2>4, SameItems
    <2> QED BY <2>1, <2>5
  <1>4. n = 0 <=> Run(a, n) = <<>>
    BY <1>1
  <1> QED BY <1>1, <1>2, <1>3, <1>4

\* What the ring holds between the indices of RingInv, as a queue.
LEMMA RingContent ==
    ASSUME NEW o \in Index, NEW n \in 0 .. BUFFER_SIZE, NEW d \in Nat, NEW its,
           \A j \in 0 .. n - 1 :
              its[IF o + j < BUFFER_SIZE THEN o + j ELSE o + j - BUFFER_SIZE] = d + j
    PROVE  [k \in 1 .. n |-> its[(o + k - 1) % BUFFER_SIZE]] = Run(d, n)
  <1>1. BUFFER_SIZE \in Nat \ {0} /\ o \in 0 .. BUFFER_SIZE - 1
    BY ProdConsAssumption DEF Index
  <1>2. ASSUME NEW k \in 1 .. n
        PROVE  its[(o + k - 1) % BUFFER_SIZE] = d + k - 1
    <2>1. k - 1 \in 0 .. n - 1 /\ k - 1 \in 0 .. BUFFER_SIZE - 1 /\ o + k - 1 = o + (k - 1)
      BY <1>1
    <2>2. (o + (k - 1)) % BUFFER_SIZE
             = IF o + (k - 1) < BUFFER_SIZE THEN o + (k - 1) ELSE o + (k - 1) - BUFFER_SIZE
      BY <1>1, <2>1, WrappedIndex
    <2>3. its[(o + (k - 1)) % BUFFER_SIZE] = d + (k - 1)
      BY <2>1, <2>2
    <2> QED BY <2>1, <2>3
  <1> QED BY <1>2 DEF Run

\* The queue of the mapping holds the items between the two counters.
LEMMA ContentIsRun == Inv => Content = Run(Done("C"), size) /\ Done("C") \in Nat
  <1> SUFFICES ASSUME Inv PROVE Content = Run(Done("C"), size) /\ Done("C") \in Nat
    OBVIOUS
  <1>1. size \in 0 .. BUFFER_SIZE /\ out \in Index /\ Done("C") \in Nat
    BY ProdConsAssumption DEF Inv, TypeOK, Done, Proc
  <1>2. \A j \in 0 .. size - 1 :
           items[IF out + j < BUFFER_SIZE THEN out + j ELSE out + j - BUFFER_SIZE] = Done("C") + j
    BY DEF Inv, RingInv, Slot
  <1> QED BY <1>1, <1>2, RingContent DEF Content

(* Every step of a process is a step of the queue or leaves it as it is:   *)
(* Produce puts the next number, Consume takes the oldest one.             *)
LEMMA FifoStep ==
    ASSUME Inv, Inv', [Next]_vars
    PROVE  [Fifo!Put \/ Fifo!Get]_(Fifo!fvars)
  <1>1. /\ Content = Run(Done("C"), size) /\ Done("C") \in Nat
        /\ Content' = Run(Done("C")', size') /\ Done("C")' \in Nat
        /\ size \in Nat /\ size' \in Nat
    <2>1. Inv' => (Content = Run(Done("C"), size) /\ Done("C") \in Nat)'
      BY ContentIsRun, PTL
    <2>2. size \in Nat /\ size' \in Nat
      BY ProdConsAssumption DEF Inv, TypeOK
    <2> QED BY <2>1, <2>2, ContentIsRun DEF Run
  <1>2. Done("P") = Done("C") + size /\ Done("P")' = Done("C")' + size'
    BY DEF Inv, RingInv
  <1>3. CASE Produce
    <2>1. /\ size < BUFFER_SIZE /\ size' = size + 1 /\ taken' = taken
          /\ Done("P")' = Done("P") + 1 /\ Done("C")' = Done("C") /\ Done("P") < ITERATIONS
      <3>1. i["P"] \in 0 .. ITERATIONS /\ i["P"] # ITERATIONS
        BY <1>3, ProdConsAssumption DEF Inv, TypeOK, LoopInv, Produce, Proc
      <3> QED BY <1>3, <3>1, ProdConsAssumption
              DEF Produce, MustWait, Full, Goto, Done, Inv, TypeOK, Proc
    <2>2. Content' = Append(Content, Done("P")) /\ Len(Content) = size
      <3>1. /\ Append(Run(Done("C"), size), Done("C") + size) = Run(Done("C"), size + 1)
            /\ Len(Run(Done("C"), size)) = size
        BY <1>1, RunFacts
      <3>2. Content' = Run(Done("C"), size + 1)
        BY <1>1, <2>1, Zenon
      <3>3. Append(Content, Done("P")) = Append(Run(Done("C"), size), Done("C") + size)
        BY <1>1, <1>2, Zenon
      <3>4. Len(Content) = size
        BY <1>1, <3>1, Zenon
      <3> QED BY <3>1, <3>2, <3>3, <3>4, Zenon
    <2> QED BY <2>1, <2>2 DEF Fifo!Put
  <1>4. CASE Consume
    <2>1. /\ size > 0 /\ size' = size - 1 /\ taken' = Append(taken, items[out])
          /\ Done("C")' = Done("C") + 1
      BY <1>4 DEF Consume, MustWait, Empty, Goto, Done, Inv, TypeOK, Proc
    <2>2. Done("P")' = Done("P")
      BY <1>1, <1>2, <2>1
    <2>3. items[out] = Done("C")
      BY <1>1, <2>1, ProdConsAssumption DEF Inv, RingInv, Slot, TypeOK, Index
    <2>4. Content # <<>> /\ Head(Content) = Done("C") /\ Content' = Tail(Content)
      <3>1. /\ Head(Run(Done("C"), size)) = Done("C")
            /\ Tail(Run(Done("C"), size)) = Run(Done("C") + 1, size - 1)
            /\ Run(Done("C"), size) # <<>>
        <4>1. /\ size > 0 =>
                    /\ Head(Run(Done("C"), size)) = Done("C")
                    /\ Tail(Run(Done("C"), size)) = Run(Done("C") + 1, size - 1)
              /\ size = 0 <=> Run(Done("C"), size) = <<>>
          BY <1>1, RunFacts, Zenon
        <4>2. size > 0 /\ size # 0
          BY <1>1, <2>1
        <4> QED BY <4>1, <4>2, Zenon
      <3>2. Content' = Run(Done("C") + 1, size - 1)
        BY <1>1, <2>1, Zenon
      <3> QED BY <1>1, <3>1, <3>2, Zenon
    <2> QED BY <2>1, <2>2, <2>3, <2>4 DEF Fifo!Get
  <1>5. CASE ~(Produce \/ Consume)
    <2>1. UNCHANGED <<size, taken>> /\ \A p \in Proc : Done(p)' = Done(p)
      <3>1. CASE \E p \in Proc : Step(p) \/ SpuriousWakeup(p)
        BY <3>1 DEF Step, Lock, Wait, Signal, Unlock, SpuriousWakeup, Awaken, Other, Goto,
                    ring, Done, Inv, TypeOK, Proc
      <3>2. CASE ChildExit \/ Destroy
        BY <3>2 DEF ChildExit, Destroy, Goto, ring, Done, Inv, TypeOK, Proc
      <3>3. CASE UNCHANGED vars
        BY <3>3 DEF vars, ring, Done
      <3> QED BY <1>5, <3>1, <3>2, <3>3 DEF Next, Finished
    <2> QED BY <1>1, <2>1 DEF Fifo!fvars, Proc
  <1> QED BY <1>3, <1>4, <1>5

(* The ring buffer of prod_cons.c, with its mutex and its condition        *)
(* variables, is a bounded queue through which the numbers of the producer *)
(* pass in order, each of them once.                                       *)
THEOREM RingIsFifo == Spec => FifoSpec
  <1>1. Init => Fifo!FInit
    <2> SUFFICES ASSUME Init PROVE Fifo!FInit
      OBVIOUS
    <2>1. Content = Run(Done("C"), 0) /\ Done("C") \in Nat
      BY InitInv, ContentIsRun DEF Init
    <2> QED BY <2>1, RunFacts DEF Init, Fifo!FInit, Done, Proc
  <1>2. Inv /\ Inv' /\ [Next]_vars => [Fifo!Put \/ Fifo!Get]_(Fifo!fvars)
    BY FifoStep
  <1> QED BY <1>1, <1>2, Invariance, PTL DEF Spec, FifoSpec, Fifo!FSpec

-----------------------------------------------------------------------------
(* Bingo.                                                                  *)

BingoSizes == Bingos \in Nat \ {0} /\ LIFESPAN \in Nat /\ BINGO_MSG_COUNT \in Nat

\* The children that have reported, and those the parent has not reaped.
Reported == {c \in Bg!Child : bcpc[c] \in {"exit", "zombie", "reaped"}}
Left == {c \in Bg!Child : bcpc[c] \notin {"unborn", "reaped"}}

\* Until the parent has its notification nobody gets a number or a signal.
ForkInv ==
    /\ bpc \in {"fork", "notify"} =>
         /\ \A c \in Bg!Child : bcpc[c] = IF c <= children_left THEN "receive" ELSE "unborn"
         /\ rng = 0 /\ end = 0 /\ reports = 0 /\ hpc = "off" /\ ~rtPending /\ ~chldPending
    /\ bpc = "fork" => children_left < Bingos
    /\ bpc # "fork" => \A c \in Bg!Child : bcpc[c] # "unborn"

\* Every report is in the queue or printed; every child counts until it is reaped.
ReportInv == /\ reports + end = Cardinality(Reported)
             /\ children_left = Cardinality(Left)
             /\ \A c \in Bg!Child : bcpc[c] \in {"unborn", "receive"} => life[c] >= 1

(* A report in the queue has its signal or a handler that will look again, *)
(* and after the last child no signal is left to be handled.               *)
NotifyInv ==
    /\ bpc \notin {"fork", "notify"} => bregistered \/ rtPending
    /\ end > 0 => rtPending \/ hpc = "receive"
    /\ (\A c \in Bg!Child : bcpc[c] = "reaped") /\ hpc = "off" => ~rtPending
    /\ bpc = "done" => end = 0 /\ \A c \in Bg!Child : bcpc[c] = "reaped"

BingoInv == Bg!TypeOK /\ ForkInv /\ ReportInv /\ NotifyInv

LEMMA ChildSets ==
    ASSUME BingoSizes
    PROVE  /\ IsFiniteSet(Bg!Child) /\ Cardinality(Bg!Child) = Bingos
           /\ IsFiniteSet(Reported) /\ Cardinality(Reported) \in Nat
           /\ IsFiniteSet(Left) /\ Cardinality(Left) \in Nat
  <1>1. IsFiniteSet(Bg!Child) /\ Cardinality(Bg!Child) = Bingos
    BY FS_Interval DEF BingoSizes, Bg!Child
  <1> QED BY <1>1, FS_Subset, FS_CardinalityType DEF Reported, Left

LEMMA BingoInit == ASSUME BingoSizes, Bg!Init PROVE BingoInv
  <1>1. Reported = {} /\ Left = {}
    BY DEF Bg!Init, Reported, Left
  <1>2. Bg!TypeOK
    <2>1. {bregistered, rtPending, chldPending} \subseteq BOOLEAN
      BY DEF Bg!Init
    <2>2. bcpc \in [Bg!Child -> {"unborn", "receive", "report", "exit", "zombie", "reaped"}]
      BY DEF Bg!Init
    <2>3. life \in [Bg!Child -> 0 .. LIFESPAN]
      BY DEF BingoSizes, Bg!Init
    <2> QED BY <2>1, <2>2, <2>3 DEF BingoSizes, Bg!Init, Bg!TypeOK
  <1>3. ForkInv /\ NotifyInv
    BY DEF BingoSizes, Bg!Init, ForkInv, NotifyInv, Bg!Child
  <1>4. ReportInv
    BY <1>1, FS_EmptySet DEF BingoSizes, Bg!Init, ReportInv
  <1> QED BY <1>2, <1>3, <1>4 DEF BingoInv

\* What main does after the forks touches no child and no report.
LEMMA BingoMain == ASSUME BingoSizes, BingoInv, Bg!MainStep, ~Bg!Fork PROVE BingoInv'
  <1> USE DEF BingoSizes, Bg!MainStep, Bg!Notify, Bg!Test, Bg!Send, Bg!Block, Bg!WakeUp,
              Bg!SetErrno, Bg!Retry, Bg!MainRuns, Bg!HasRoom, Bg!queues, Bg!handlers,
              Bg!children
  <1>1. UNCHANGED <<children_left, end, hpc, rtPending, chldPending, reports, bcpc, life>>
    OBVIOUS
  <1>2. Reported' = Reported /\ Left' = Left
    BY <1>1 DEF Reported, Left
  <1>3. ReportInv'
    BY <1>1, <1>2 DEF BingoInv, ReportInv
  <1>4. Bg!TypeOK'
    <2>1. {bregistered', rtPending', chldPending'} \subseteq BOOLEAN
      BY DEF BingoInv, Bg!TypeOK
    <2>2. rng' \in 0 .. BINGO_MSG_COUNT
      BY DEF BingoInv, Bg!TypeOK
    <2>3. errno' \in {"none", "EINTR", "EAGAIN", "ECHILD"}
      BY DEF BingoInv, Bg!TypeOK
    <2>4. bpc' \in {"fork", "notify", "test", "send", "full", "sleep", "done", "killed",
                    "sendEnded", "sleepEnded", "sendFailed", "sleepFailed"}
      OBVIOUS
    <2> QED BY <1>1, <2>1, <2>2, <2>3, <2>4 DEF BingoInv, Bg!TypeOK
  <1>5. ForkInv'
    BY DEF BingoInv, ForkInv
  <1>6. children_left = 0 => Left = {}
    BY ChildSets, FS_EmptySet DEF BingoInv, ReportInv
  <1>7. NotifyInv'
    BY <1>6 DEF BingoInv, ForkInv, NotifyInv, Left, Bg!TypeOK
  <1> QED BY <1>3, <1>4, <1>5, <1>7 DEF BingoInv

LEMMA BingoFork == ASSUME BingoSizes, BingoInv, Bg!Fork PROVE BingoInv'
  <1> DEFINE c == children_left + 1
  <1>1. /\ c \in Bg!Child /\ bcpc[c] = "unborn"
        /\ children_left' = c /\ bcpc' = [bcpc EXCEPT ![c] = "receive"]
        /\ bpc = "fork" /\ bpc' = IF c = Bingos THEN "notify" ELSE "fork"
        /\ UNCHANGED <<errno, rng, end, bregistered, hpc, rtPending, chldPending, reports, life>>
    BY DEF Bg!Fork, Bg!MainRuns, Bg!queues, Bg!handlers, BingoSizes, BingoInv, Bg!TypeOK,
           ForkInv, Bg!Child
  <1>2. Bg!TypeOK'
    BY <1>1 DEF BingoInv, Bg!TypeOK, BingoSizes, ForkInv
  <1>3. ForkInv'
    BY <1>1 DEF BingoInv, Bg!TypeOK, BingoSizes, ForkInv, Bg!Child
  <1>4. Left' = Left \cup {c} /\ c \notin Left /\ Reported' = Reported
    BY <1>1 DEF BingoInv, Bg!TypeOK, Left, Reported
  <1>5. Cardinality(Left') = Cardinality(Left) + 1
    BY <1>4, ChildSets, FS_AddElement
  <1>6. ReportInv'
    BY <1>1, <1>4, <1>5 DEF BingoInv, Bg!TypeOK, ReportInv
  <1>7. NotifyInv'
    BY <1>1 DEF BingoInv, Bg!TypeOK, ForkInv, NotifyInv
  <1> QED BY <1>2, <1>3, <1>6, <1>7 DEF BingoInv

(* mq_handler registers before it reads, and reads until the queue is      *)
(* empty.                                                                  *)
LEMMA BingoHandler == ASSUME BingoSizes, BingoInv, Bg!MqHandlerStep PROVE BingoInv'
  <1> USE DEF BingoSizes, Bg!MqHandlerStep, Bg!Notified, Bg!Receive, Bg!Return, Bg!Alive,
              Bg!Interrupted, Bg!Reinstalled, Bg!children
  <1>1. UNCHANGED <<children_left, rng, chldPending, bcpc, life>>
    OBVIOUS
  <1>2. bpc \notin {"fork", "notify"} /\ bpc' \notin {"fork", "notify", "done"}
    BY DEF BingoInv, ForkInv
  <1>3. /\ reports' + end' = reports + end /\ reports' \in Nat
        /\ end' \in 0 .. BINGO_MSG_COUNT
    <2>1. reports \in Nat /\ end \in 0 .. BINGO_MSG_COUNT
      BY DEF BingoInv, Bg!TypeOK
    <2>2. \/ UNCHANGED <<reports, end>>
          \/ end > 0 /\ reports' = reports + 1 /\ end' = end - 1
      OBVIOUS
    <2> QED BY <2>1, <2>2
  <1>4. Reported' = Reported /\ Left' = Left
    BY <1>1 DEF Reported, Left
  <1>5. ReportInv'
    BY <1>1, <1>3, <1>4 DEF BingoInv, ReportInv
  <1>6. reports' \in 0 .. Bingos /\ end' \in 0 .. BINGO_MSG_COUNT
    <2>1. Cardinality(Reported) <= Bingos
      BY ChildSets, FS_Subset DEF Reported
    <2>2. reports + end = Cardinality(Reported) /\ Cardinality(Reported) \in Nat
      BY ChildSets DEF BingoInv, ReportInv
    <2> QED BY <1>3, <2>1, <2>2
  <1>7. {bregistered', rtPending', chldPending'} \subseteq BOOLEAN
    BY DEF BingoInv, Bg!TypeOK
  <1>8. Bg!TypeOK'
    BY <1>1, <1>6, <1>7 DEF BingoInv, Bg!TypeOK
  <1>9. ForkInv'
    BY <1>1, <1>2 DEF BingoInv, ForkInv
  <1>10. NotifyInv'
    BY <1>1, <1>2 DEF BingoInv, Bg!TypeOK, NotifyInv
  <1> QED BY <1>5, <1>8, <1>9, <1>10 DEF BingoInv

\* One SIGCHLD reaps all the zombies there are.
LEMMA BingoReap == ASSUME BingoSizes, BingoInv, Bg!OnSigchld PROVE BingoInv'
  <1>0. Bg!Cardinality(Bg!Reaped) = Cardinality(Bg!Reaped)
    BY DEF Bg!Cardinality, Cardinality
  <1>1. /\ bpc \notin {"fork", "notify", "done"} /\ bpc' \notin {"fork", "notify", "done"}
        /\ rtPending => hpc # "off"
        /\ UNCHANGED <<rng, end, bregistered, hpc, rtPending, reports, life>>
    BY DEF Bg!OnSigchld, Bg!Alive, Bg!Interrupted, Bg!queues, BingoInv, ForkInv
  <1>2. Bg!Zombies \subseteq Left
    BY DEF Bg!Zombies, Left
  <1>3. bcpc' = [c \in Bg!Child |-> IF c \in Bg!Zombies THEN "reaped" ELSE bcpc[c]]
    BY DEF Bg!OnSigchld, Bg!Reaped
  <1>4. Left' = Left \ Bg!Zombies /\ Reported' = Reported
    BY <1>3 DEF Left, Reported, Bg!Zombies
  <1>5. Cardinality(Left') = Cardinality(Left) - Cardinality(Bg!Zombies)
    <2>1. Left \cap Bg!Zombies = Bg!Zombies
      BY <1>2
    <2>2. Cardinality(Left \ Bg!Zombies) = Cardinality(Left) - Cardinality(Left \cap Bg!Zombies)
      BY ChildSets, FS_Difference
    <2> QED BY <1>4, <2>1, <2>2
  <1>6. children_left' = Cardinality(Left')
    <2>1. children_left' = children_left - Cardinality(Bg!Reaped)
      BY <1>0, Zenon DEF Bg!OnSigchld
    <2>2. Bg!Reaped = Bg!Zombies
      BY DEF Bg!Reaped
    <2> QED BY <1>5, <2>1, <2>2 DEF BingoInv, ReportInv
  <1>7. children_left' \in 0 .. Bingos
    <2>1. Left' \subseteq Bg!Child
      BY DEF Left
    <2> QED BY <1>6, <2>1, ChildSets, FS_Subset, FS_CardinalityType DEF BingoSizes
  <1>8. ReportInv'
    BY <1>1, <1>3, <1>4, <1>6 DEF BingoInv, ReportInv, Bg!Zombies
  <1>9. Bg!TypeOK'
    <2>1. bcpc' \in [Bg!Child -> {"unborn", "receive", "report", "exit", "zombie", "reaped"}]
      BY <1>3 DEF BingoInv, Bg!TypeOK
    <2>2. errno' \in {"none", "EINTR", "EAGAIN", "ECHILD"}
      BY DEF Bg!OnSigchld, BingoInv, Bg!TypeOK
    <2>3. {bregistered', rtPending', chldPending'} \subseteq BOOLEAN
      BY <1>1 DEF Bg!OnSigchld, BingoInv, Bg!TypeOK
    <2>4. bpc' \in {"fork", "notify", "test", "send", "full", "sleep", "done", "killed",
                    "sendEnded", "sleepEnded", "sendFailed", "sleepFailed"}
      BY DEF Bg!OnSigchld, Bg!Interrupted, BingoInv, Bg!TypeOK
    <2> QED BY <1>1, <1>7, <2>1, <2>2, <2>3, <2>4 DEF BingoInv, Bg!TypeOK
  <1>10. ForkInv'
    BY <1>1, <1>3 DEF BingoInv, ForkInv
  <1>11. NotifyInv'
    BY <1>1 DEF BingoInv, NotifyInv
  <1> QED BY <1>8, <1>9, <1>10, <1>11 DEF BingoInv

\* A child takes a number, reports or exits.
LEMMA BingoChild ==
    ASSUME BingoSizes, BingoInv, NEW c \in Bg!Child, Bg!ChildStep(c)
    PROVE  BingoInv'
  <1>0. bpc \notin {"fork", "notify"}
    BY DEF Bg!ChildStep, Bg!Take, Bg!Report, Bg!Exit, BingoInv, ForkInv
  <1>1. CASE Bg!Take(c)
    <2>1. /\ UNCHANGED <<bpc, errno, children_left, end, bregistered, hpc, rtPending,
                         chldPending, reports>>
          /\ bcpc[c] = "receive" /\ rng > 0 /\ rng' = rng - 1
          /\ life' = [life EXCEPT ![c] = @ - 1]
          /\ \E l \in {"report", "receive"} : /\ bcpc' = [bcpc EXCEPT ![c] = l]
                                              /\ l = "receive" => life'[c] # 0
      BY <1>1 DEF Bg!Take, Bg!handlers
    <2>2. Left' = Left /\ Reported' = Reported
      BY <2>1 DEF Left, Reported, BingoInv, Bg!TypeOK
    <2>3. Bg!TypeOK' /\ ReportInv'
      BY <2>1, <2>2 DEF BingoSizes, BingoInv, ReportInv, Bg!TypeOK
    <2>4. ForkInv' /\ NotifyInv'
      BY <1>0, <2>1 DEF BingoInv, ForkInv, NotifyInv, Bg!TypeOK
    <2> QED BY <2>3, <2>4 DEF BingoInv
  <1>2. CASE Bg!Report(c)
    <2>1. CASE end = BINGO_MSG_COUNT
      <3>1. /\ bpc' = "killed"
            /\ UNCHANGED <<errno, children_left, rng, end, bregistered, hpc, rtPending,
                           chldPending, reports, bcpc, life>>
        BY <1>2, <2>1 DEF Bg!Report
      <3>2. Left' = Left /\ Reported' = Reported
        BY <3>1 DEF Left, Reported
      <3> QED BY <1>0, <3>1, <3>2
              DEF BingoInv, Bg!TypeOK, ForkInv, NotifyInv, ReportInv
    <2>2. CASE end # BINGO_MSG_COUNT
      <3>1. /\ bcpc[c] = "report" /\ bcpc' = [bcpc EXCEPT ![c] = "exit"] /\ end' = end + 1
            /\ rtPending' = (rtPending \/ (end = 0 /\ bregistered))
            /\ bregistered' = (bregistered /\ end # 0)
            /\ UNCHANGED <<bpc, errno, children_left, rng, hpc, chldPending, reports, life>>
        BY <1>2, <2>2 DEF Bg!Report
      <3>2. /\ Left' = Left
            /\ Reported' = Reported \cup {c} /\ c \notin Reported
        BY <3>1 DEF Left, Reported, BingoInv, Bg!TypeOK
      <3>3. Cardinality(Reported') = Cardinality(Reported) + 1
        BY <3>2, ChildSets, FS_AddElement
      <3>4. ReportInv'
        BY <3>1, <3>2, <3>3 DEF BingoInv, ReportInv, Bg!TypeOK
      <3>5. Bg!TypeOK'
        BY <2>2, <3>1 DEF BingoSizes, BingoInv, Bg!TypeOK
      <3>6. ForkInv' /\ NotifyInv'
        BY <1>0, <3>1 DEF BingoInv, ForkInv, NotifyInv, Bg!TypeOK
      <3> QED BY <3>4, <3>5, <3>6 DEF BingoInv
    <2> QED BY <2>1, <2>2
  <1>3. CASE Bg!Exit(c)
    <2>1. /\ bcpc[c] = "exit" /\ bcpc' = [bcpc EXCEPT ![c] = "zombie"] /\ chldPending' = TRUE
          /\ UNCHANGED <<bpc, errno, children_left, rng, end, bregistered, hpc, rtPending,
                         reports, life>>
      BY <1>3 DEF Bg!Exit, Bg!queues
    <2>2. Left' = Left /\ Reported' = Reported
      BY <2>1 DEF Left, Reported, BingoInv, Bg!TypeOK
    <2>3. Bg!TypeOK' /\ ReportInv'
      BY <2>1, <2>2 DEF BingoInv, ReportInv, Bg!TypeOK
    <2>4. ForkInv' /\ NotifyInv'
      BY <1>0, <2>1 DEF BingoInv, ForkInv, NotifyInv, Bg!TypeOK
    <2> QED BY <2>3, <2>4 DEF BingoInv
  <1> QED BY <1>1, <1>2, <1>3 DEF Bg!ChildStep

LEMMA BingoNext == ASSUME BingoSizes, BingoInv, [Bg!Next]_(Bg!vars) PROVE BingoInv'
  <1>1. CASE Bg!MainStep
    BY <1>1, BingoMain, BingoFork
  <1>2. CASE Bg!MqHandlerStep \/ Bg!OnSigchld
    BY <1>2, BingoHandler, BingoReap
  <1>3. CASE \E c \in Bg!Child : Bg!ChildStep(c)
    BY <1>3, BingoChild
  <1>4. CASE UNCHANGED Bg!vars
    <2>1. UNCHANGED <<bpc, errno, children_left, rng, end, bregistered, hpc, rtPending,
                      chldPending, reports, bcpc, life>>
      BY <1>4 DEF Bg!vars, Bg!queues, Bg!handlers, Bg!children
    <2>2. Left' = Left /\ Reported' = Reported
      BY <2>1 DEF Left, Reported
    <2> QED BY <2>1, <2>2 DEF BingoInv, Bg!TypeOK, ForkInv, ReportInv, NotifyInv
  <1> QED BY <1>1, <1>2, <1>3, <1>4 DEF Bg!Next

(* The parent of mq_test1 ends with the report of every child printed: a   *)
(* report that met a queue that was not empty, or that came while          *)
(* mq_handler emptied it, is read before the last child is reaped.         *)
THEOREM AllReportsPrinted == ASSUME BingoSizes PROVE LabSpec => []ReportsComplete
  <1>1. LabInit => BingoInv
    BY BingoInit DEF LabInit
  <1>2. BingoInv /\ [LabNext]_labVars => BingoInv'
    <2>1. CASE [Bg!Next]_(Bg!vars)
      BY <2>1, BingoNext
    <2>2. CASE UNCHANGED bingoVars
      <3>1. UNCHANGED Bg!vars
        BY <2>2 DEF bingoVars, Bg!vars, Bg!queues, Bg!handlers, Bg!children
      <3> QED BY <3>1, BingoNext
    <2> QED BY <2>1, <2>2 DEF LabNext, Shared, Teams, Kindergarten, Bingo, labVars
  <1>3. BingoInv => ReportsComplete
    <2> SUFFICES ASSUME BingoInv, bpc = "done" PROVE reports = Bingos /\ end = 0
      BY DEF ReportsComplete, Bg!ReportsComplete, BingoInv
    <2>1. end = 0 /\ Reported = Bg!Child
      BY DEF BingoInv, NotifyInv, Reported
    <2>2. reports + end = Bingos
      BY <2>1, ChildSets DEF BingoInv, ReportInv
    <2> QED BY <2>1, <2>2 DEF BingoInv, Bg!TypeOK
  <1> QED BY <1>1, <1>2, <1>3, PTL DEF LabSpec
=============================================================================
