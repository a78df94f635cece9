----------------------------- MODULE FilesProofs -----------------------------
(***************************************************************************)
(* Proofs about the three programs of MCFiles.  LetterCount, for every     *)
(* number of worker threads, tree of files and size of the circular        *)
(* buffer: the buffer is a bounded queue of the files and every letter is  *)
(* counted.  Editor, for every text: a command does to the lines what it   *)
(* says.  Venv, for any environments and packages: "requirements" is the   *)
(* list of the packages installed.  Between the first and the other two    *)
(* stand the facts about the lines of a text that both need.               *)
(***************************************************************************)
EXTENDS MCFiles, Sequences, FiniteSetTheorems, WellFoundedInduction, TLAPS

\* The index of the j-th oldest file of the buffer.
Slot(j) == IF tail + j < CIRC_BUF_SIZE THEN tail + j ELSE tail + j - CIRC_BUF_SIZE

\* Files taken out of the buffer so far.
Taken == walked - len

\* The buffer holds the files met and not yet taken, in the order of the walk.
RingInv == /\ Taken \in Nat /\ Len(popped) = Taken
           /\ \A k \in 1 .. Taken : popped[k] = k
           /\ head = Slot(len)
           /\ \A j \in 0 .. len - 1 : buf[Slot(j)] = Taken + j + 1

Busy == {"read", "quit?", "count"}
Holds(w, f) == pc[w] \in Busy /\ file[w] = f

\* No file is open in two workers, and no worker reads past its end.
WorkerInv ==
    /\ \A v, w \in Workers :
          pc[v] \in Busy /\ pc[w] \in Busy /\ file[v] = file[w] => v = w
    /\ \A w \in Workers : pc[w] \in Busy => /\ file[w] \in 1 .. Taken
                                            /\ left[w] <= Letters[file[w]]
    /\ \A w \in Workers : pc[w] \in {"quit?", "count"} => left[w] < Letters[file[w]]

\* Threads run only after the walk; one that ends by itself met an empty buffer.
PhaseInv ==
    /\ mpc = "walk" => \A w \in Workers : pc[w] = "idle"
    /\ mpc # "walk" => walked = Len(Letters) /\ \A w \in Workers : pc[w] # "idle"
    /\ ~quit => \A w \in Workers : pc[w] = "ended" => len = 0 /\ mpc # "walk"

\* Letters of the file of worker w that it has counted.
CountedBy(w) == IF pc[w] = "read" THEN Letters[file[w]] - left[w]
                ELSE Letters[file[w]] - left[w] - 1

\* The letters counted: all those of the files taken, less what workers have left.
IsCounted(x) == /\ x[1] <= Taken
                /\ \A w \in Workers : Holds(w, x[1]) => x[2] <= CountedBy(w)
Counted == {x \in AllLetters : IsCounted(x)}

CountInv == ~quit => IsFiniteSet(Counted) /\ freq = Cardinality(Counted)

Inv == TypeOK /\ RingInv /\ WorkerInv /\ PhaseInv /\ CountInv

-----------------------------------------------------------------------------
LEMMA Sizes == /\ CIRC_BUF_SIZE \in Nat \ {0} /\ Len(Letters) \in Nat
               /\ Files = 1 .. Len(Letters)
               /\ \A f \in Files : Letters[f] \in Nat
  BY LetterAssumption DEF Files

LEMMA LetterFacts ==
    /\ \A x \in AllLetters : /\ x[1] \in Files /\ x[2] \in 1 .. Letters[x[1]]
                             /\ x = <<x[1], x[2]>>
    /\ \A f \in Files : \A k \in 1 .. Letters[f] : <<f, k>> \in AllLetters
  <1>1. ASSUME NEW x \in AllLetters
        PROVE  x[1] \in Files /\ x[2] \in 1 .. Letters[x[1]] /\ x = <<x[1], x[2]>>
    <2>1. PICK f \in Files : x \in {f} \X (1 .. Letters[f])
      BY DEF AllLetters
    <2> QED BY <2>1
  <1>2. ASSUME NEW f \in Files, NEW k \in 1 .. Letters[f]
        PROVE  <<f, k>> \in AllLetters
    <2>1. <<f, k>> \in {f} \X (1 .. Letters[f])
      OBVIOUS
    <2> QED BY <2>1 DEF AllLetters
  <1> QED BY <1>1, <1>2

LEMMA InitInv == Init => Inv
  <1> SUFFICES ASSUME Init PROVE Inv
    OBVIOUS
  <1>1. TypeOK /\ RingInv /\ WorkerInv /\ PhaseInv
    BY Sizes DEF Init, TypeOK, Index, RingInv, Taken, Slot, WorkerInv, Busy, PhaseInv
  <1>2. Counted = {}
    <2>1. ASSUME NEW x \in AllLetters PROVE ~(x[1] <= Taken)
      BY <2>1, LetterFacts, Sizes DEF Taken, Init
    <2> QED BY <2>1 DEF Counted, IsCounted
  <1> QED BY <1>1, <1>2, FS_EmptySet DEF Inv, CountInv, Init

\* Steps that count no letter.
LEMMA SameCount ==
    ASSUME Inv, freq' = freq, quit => quit',
           \A x \in AllLetters : IsCounted(x)' <=> IsCounted(x)
    PROVE  CountInv'
  <1>1. Counted' = Counted
    BY DEF Counted
  <1> QED BY <1>1 DEF Inv, CountInv

\* Steps that leave the buffer and the workers alone.
LEMMA QuietStep ==
    ASSUME Inv, UNCHANGED <<ring, walked, freq, work, popped>>, quit => quit',
           TypeOK', PhaseInv'
    PROVE  Inv'
  <1>1. \A x \in AllLetters : IsCounted(x)' <=> IsCounted(x)
    BY DEF IsCounted, Taken, Holds, CountedBy, ring, work
  <1>2. CountInv'
    BY <1>1, SameCount
  <1> QED BY <1>2 DEF Inv, RingInv, Taken, Slot, WorkerInv, Holds, ring, work

LEMMA MainInv ==
    ASSUME Inv, Tick \/ Exit \/ Interrupt \/ OnSigint \/ OnSigusr1
    PROVE  Inv'
  <1>1. UNCHANGED <<ring, walked, freq, work, popped>> /\ (quit => quit')
    BY DEF Tick, Exit, Interrupt, OnSigint, OnSigusr1, Inv, TypeOK
  <1>2. TypeOK'
    <2>1. /\ quit' \in BOOLEAN /\ sig' \in {"wait", "ended"}
          /\ mpc' \in {"walk", "loop", "join", "exited"}
      BY DEF Tick, Exit, Interrupt, OnSigint, OnSigusr1, Inv, TypeOK
    <2>2. pending' \subseteq {"SIGINT", "SIGUSR1"}
      BY DEF Tick, Exit, Interrupt, OnSigint, OnSigusr1, Inv, TypeOK
    <2> QED BY <1>1, <2>1, <2>2 DEF Inv, TypeOK, ring, work
  <1>3. PhaseInv'
    <2>1. (mpc' = "walk") = (mpc = "walk") /\ (~quit' => ~quit)
      BY <1>1 DEF Tick, Exit, Interrupt, OnSigint, OnSigusr1
    <2> QED BY <1>1, <2>1 DEF Inv, PhaseInv, ring, work
  <1> QED BY <1>1, <1>2, <1>3, QuietStep

LEMMA StartInv == ASSUME Inv, StartThreads PROVE Inv'
  <1>1. \A w \in Workers : pc[w] = "idle" /\ pc'[w] = "test"
    BY DEF StartThreads, Inv, PhaseInv
  <1>2. TypeOK' /\ PhaseInv'
    BY <1>1 DEF StartThreads, ring, Inv, TypeOK, PhaseInv
  <1>3. RingInv' /\ WorkerInv'
    BY <1>1 DEF StartThreads, ring, Inv, RingInv, Taken, Slot, WorkerInv, Busy
  <1>4. \A x \in AllLetters : IsCounted(x)' <=> IsCounted(x)
    BY <1>1 DEF StartThreads, ring, IsCounted, Taken, Holds, Busy
  <1>5. CountInv'
    BY <1>4, SameCount DEF StartThreads
  <1> QED BY <1>2, <1>3, <1>5 DEF Inv

\* main writes the free slot behind the newest file.
LEMMA PushInv == ASSUME Inv, Push PROVE Inv'
  <1>1. /\ len \in 0 .. CIRC_BUF_SIZE - 1 /\ len' = len + 1 /\ walked' = walked + 1
        /\ walked \in 0 .. Len(Letters) - 1 /\ Taken' = Taken
        /\ UNCHANGED <<tail, freq, quit, pending, sig, mpc, work, popped>>
    BY Sizes DEF Push, Full, Inv, TypeOK, Taken
  <1>2. head' = Slot(len + 1) /\ head' \in Index
    BY <1>1, Sizes DEF Push, Wrap, Inv, TypeOK, RingInv, Slot, Index
  <1>3. TypeOK'
    <2>1. buf' \in [Index -> 0 .. Len(Letters)]
      BY <1>1, Sizes DEF Push, Inv, TypeOK
    <2> QED BY <1>1, <1>2, <2>1, Sizes DEF Inv, TypeOK, work
  <1>4. RingInv'
    <2>1. head' = Slot(len)'
      BY <1>1, <1>2 DEF Slot
    <2>2. ASSUME NEW j \in 0 .. len' - 1
          PROVE  buf'[Slot(j)'] = Taken' + j + 1
      <3>1. Slot(j)' = Slot(j) /\ j \in 0 .. len
        BY <1>1, <2>2, Sizes DEF Slot, Inv, TypeOK
      <3>2. CASE j = len
        BY <1>1, <3>1, <3>2 DEF Push, Inv, TypeOK, RingInv, Taken
      <3>3. CASE j # len
        <4>1. Slot(j) # head
          BY <1>1, <2>2, <3>3, Sizes DEF Inv, TypeOK, RingInv, Slot, Index
        <4>2. j \in 0 .. len - 1
          BY <1>1, <2>2, <3>3 DEF Inv, TypeOK
        <4>3. buf'[Slot(j)] = buf[Slot(j)]
          BY <4>1 DEF Push, Inv, TypeOK
        <4> QED BY <1>1, <3>1, <4>2, <4>3 DEF Inv, RingInv
      <3> QED BY <3>2, <3>3
    <2> QED BY <1>1, <2>1, <2>2 DEF Inv, RingInv
  <1>5. WorkerInv' /\ PhaseInv'
    BY <1>1 DEF Push, Inv, WorkerInv, PhaseInv, Holds, work
  <1>6. \A x \in AllLetters : IsCounted(x)' <=> IsCounted(x)
    BY <1>1 DEF IsCounted, Holds, CountedBy, work
  <1>7. CountInv'
    BY <1>1, <1>6, SameCount
  <1> QED BY <1>3, <1>4, <1>5, <1>7 DEF Inv

\* Steps of a worker on its own file.
LEMMA ReadingInv ==
    ASSUME Inv, NEW w \in Workers, Test(w) \/ Read(w) \/ TestQuit(w)
    PROVE  Inv'
  <1>1. /\ UNCHANGED <<ring, walked, freq, quit, pending, sig, mpc, file, popped>>
        /\ mpc # "walk" /\ walked = Len(Letters)
    <2>1. pc[w] # "idle"
      BY DEF Test, Read, TestQuit
    <2>2. mpc # "walk" /\ walked = Len(Letters)
      BY <2>1 DEF Inv, PhaseInv
    <2> QED BY <2>2 DEF Test, Read, TestQuit
  <1>2. /\ \A v \in Workers \ {w} : pc'[v] = pc[v] /\ left'[v] = left[v]
        /\ pc'[w] \in {"pop", "ended", "quit?", "test", "count"}
        /\ left' \in [Workers -> Nat]
        /\ pc' \in [Workers -> {"idle", "test", "pop", "read", "quit?", "count", "ended"}]
    <2>1. CASE Test(w)
      BY <2>1 DEF Test, Goto, Inv, TypeOK
    <2>2. CASE Read(w)
      <3>1. left' \in [Workers -> Nat] /\ \A v \in Workers \ {w} : left'[v] = left[v]
        <4>1. CASE left[w] > 0
          <5>1. left' = [left EXCEPT ![w] = left[w] - 1] /\ left[w] - 1 \in Nat
            BY <2>2, <4>1 DEF Read, Inv, TypeOK
          <5> QED BY <5>1 DEF Inv, TypeOK
        <4>2. CASE ~(left[w] > 0)
          BY <2>2, <4>2 DEF Read, Inv, TypeOK
        <4> QED BY <4>1, <4>2
      <3> QED BY <2>2, <3>1 DEF Read, Goto, Inv, TypeOK
    <2>3. CASE TestQuit(w)
      BY <2>3 DEF TestQuit, AfterQuitTest, Goto, Inv, TypeOK
    <2> QED BY <2>1, <2>2, <2>3
  <1>3. TypeOK' /\ RingInv' /\ PhaseInv'
    <2>1. TypeOK'
      BY <1>1, <1>2 DEF Inv, TypeOK, ring
    <2>2. RingInv'
      BY <1>1 DEF Inv, RingInv, Taken, Slot, ring
    <2>3. pc'[w] = "ended" => quit \/ len = 0
      BY Sizes DEF Test, Read, TestQuit, AfterQuitTest, Goto, Inv, TypeOK
    <2>4. PhaseInv'
      BY <1>1, <1>2, <2>3 DEF Inv, PhaseInv, ring
    <2> QED BY <2>1, <2>2, <2>4
  <1>4. CASE pc'[w] \in {"quit?", "count"}
    <2>1. /\ pc[w] \in {"read", "quit?"} /\ left'[w] \in Nat /\ left[w] \in Nat
          /\ pc[w] = "read" => left[w] > 0 /\ left'[w] = left[w] - 1
          /\ pc[w] = "quit?" => left'[w] = left[w]
      BY <1>4 DEF Test, Read, TestQuit, AfterQuitTest, Goto, Inv, TypeOK
    <2>2. Letters[file[w]] \in Nat /\ Taken' = Taken
      <3>1. file[w] \in 1 .. Taken
        BY <2>1 DEF Inv, WorkerInv, Busy
      <3> QED BY <1>1, <3>1, Sizes DEF Inv, TypeOK, Taken, ring
    <2>3. WorkerInv'
      <3>1. \A v \in Workers : pc'[v] \in Busy <=> pc[v] \in Busy
        BY <1>2, <1>4, <2>1 DEF Busy
      <3>2. left[w] <= Letters[file[w]] /\ (pc[w] = "quit?" => left[w] < Letters[file[w]])
        BY <2>1 DEF Inv, WorkerInv, Busy
      <3>3. left'[w] < Letters[file[w]]
        BY <2>1, <2>2, <3>2
      <3>4. left'[w] <= Letters[file[w]]
        BY <2>1, <2>2, <3>3
      <3>5. \A u, v \in Workers :
               pc'[u] \in Busy /\ pc'[v] \in Busy /\ file'[u] = file'[v] => u = v
        BY <1>1, <3>1 DEF Inv, WorkerInv, Holds
      <3>6. \A v \in Workers : pc'[v] \in Busy => /\ file'[v] \in 1 .. Taken'
                                                  /\ left'[v] <= Letters[file'[v]]
        BY <1>1, <1>2, <2>2, <3>1, <3>4 DEF Inv, WorkerInv
      <3>7. \A v \in Workers : pc'[v] \in {"quit?", "count"} => left'[v] < Letters[file'[v]]
        BY <1>1, <1>2, <3>3 DEF Inv, WorkerInv
      <3> QED BY <3>5, <3>6, <3>7 DEF WorkerInv
    <2>4. \A x \in AllLetters : IsCounted(x)' <=> IsCounted(x)
      <3>1. CountedBy(w)' = CountedBy(w) /\ \A f : Holds(w, f)' <=> Holds(w, f)
        BY <1>1, <1>4, <2>1, <2>2 DEF CountedBy, Holds, Busy
      <3>2. \A v \in Workers \ {w} :
              CountedBy(v)' = CountedBy(v) /\ \A f : Holds(v, f)' <=> Holds(v, f)
        BY <1>1, <1>2 DEF CountedBy, Holds
      <3> QED BY <2>2, <3>1, <3>2 DEF IsCounted
    <2> QED BY <1>1, <1>3, <2>3, <2>4, SameCount DEF Inv
  <1>5. CASE pc'[w] \notin {"quit?", "count"}
    <2>1. Taken' = Taken /\ \A v \in Workers \ {w} :
              CountedBy(v)' = CountedBy(v) /\ \A f : Holds(v, f)' <=> Holds(v, f)
      BY <1>1, <1>2 DEF CountedBy, Holds, Taken, ring
    <2>2. WorkerInv'
      BY <1>1, <1>2, <1>5, <2>1 DEF Inv, WorkerInv, Busy, Holds
    <2>3. CountInv'
      <3>1. CASE quit
        BY <1>1, <3>1 DEF CountInv
      <3>2. CASE ~quit
        <4>1. ASSUME NEW x \in AllLetters, Holds(w, x[1])
              PROVE  x[2] <= CountedBy(w)
          <5>1. pc[w] = "read" /\ left[w] = 0 /\ file[w] = x[1]
            BY <1>5, <3>2, <4>1
               DEF Holds, Busy, Test, Read, TestQuit, AfterQuitTest, Goto, Inv, TypeOK
          <5> QED BY <5>1, LetterFacts, Sizes DEF CountedBy
        <4>2. \A f : ~Holds(w, f)'
          BY <1>2, <1>5 DEF Holds, Busy
        <4>3. \A x \in AllLetters : IsCounted(x)' <=> IsCounted(x)
          BY <2>1, <4>1, <4>2 DEF IsCounted
        <4> QED BY <1>1, <4>3, SameCount
      <3> QED BY <3>1, <3>2
    <2> QED BY <1>3, <2>2, <2>3 DEF Inv
  <1> QED BY <1>4, <1>5

\* The oldest file goes to one worker, none of its letters counted yet.
LEMMA PopInv == ASSUME Inv, NEW w \in Workers, Pop(w) PROVE Inv'
  <1>1. /\ len \in 1 .. CIRC_BUF_SIZE /\ len' = len - 1 /\ Taken' = Taken + 1
        /\ Taken \in Nat /\ walked \in 0 .. Len(Letters) /\ tail \in Index
        /\ UNCHANGED <<buf, head, walked, freq, quit, pending, sig, mpc>>
    BY Sizes DEF Pop, CanPop, Inv, TypeOK, RingInv, Taken
  <1>2. buf[tail] = Taken + 1 /\ Taken + 1 \in Files
    <2>1. Slot(0) = tail /\ 0 \in 0 .. len - 1
      BY <1>1, Sizes DEF Slot, Index
    <2> QED BY <1>1, <2>1, Sizes DEF Inv, RingInv, Taken
  <1>3. /\ pc[w] = "pop" /\ pc' = [pc EXCEPT ![w] = "read"]
        /\ file' = [file EXCEPT ![w] = Taken + 1]
        /\ left' = [left EXCEPT ![w] = Letters[Taken + 1]]
        /\ popped' = Append(popped, Taken + 1) /\ tail' = Wrap(tail)
    BY <1>2 DEF Pop, Goto
  <1>4. tail' = (IF tail + 1 = CIRC_BUF_SIZE THEN 0 ELSE tail + 1) /\ tail' \in Index
    BY <1>1, <1>3, Sizes DEF Wrap, Index
  <1>5. TypeOK'
    <2>1. /\ file' \in [Workers -> 0 .. Len(Letters)] /\ left' \in [Workers -> Nat]
          /\ pc' \in [Workers -> {"idle", "test", "pop", "read", "quit?", "count", "ended"}]
      BY <1>2, <1>3, Sizes DEF Inv, TypeOK
    <2>2. popped' \in Seq(Files)
      BY <1>2, <1>3 DEF Inv, TypeOK
    <2> QED BY <1>1, <1>4, <2>1, <2>2, Sizes DEF Inv, TypeOK
  <1>6. RingInv'
    <2>1. Len(popped') = Taken' /\ \A k \in 1 .. Taken' : popped'[k] = k
      BY <1>1, <1>3 DEF Inv, TypeOK, RingInv
    <2>2. \A j \in 0 .. len' : Slot(j)' = Slot(j + 1)
      BY <1>1, <1>4, Sizes DEF Slot, Index
    <2>3. head' = Slot(len)'
      <3>1. Slot(len)' = Slot(len' + 1)
        BY <1>1, <2>2 DEF Slot
      <3> QED BY <1>1, <3>1 DEF Inv, RingInv
    <2>4. ASSUME NEW j \in 0 .. len' - 1
          PROVE  buf'[Slot(j)'] = Taken' + j + 1
      BY <1>1, <2>2 DEF Inv, RingInv
    <2> QED BY <1>1, <2>1, <2>3, <2>4 DEF RingInv
  <1>7. /\ \A v \in Workers \ {w} : /\ pc'[v] = pc[v] /\ file'[v] = file[v] /\ left'[v] = left[v]
                                    /\ CountedBy(v)' = CountedBy(v)
        /\ pc'[w] = "read" /\ file'[w] = Taken + 1 /\ left'[w] = Letters[Taken + 1]
        /\ \A v \in Workers : pc[v] \in Busy => file[v] \in 1 .. Taken
    BY <1>3 DEF Inv, TypeOK, WorkerInv, CountedBy
  <1>8. WorkerInv'
    <2>1. \A u, v \in Workers :
               pc'[u] \in Busy /\ pc'[v] \in Busy /\ file'[u] = file'[v] => u = v
      BY <1>1, <1>7 DEF Inv, WorkerInv, Holds
    <2>2. \A v \in Workers : pc'[v] \in Busy => /\ file'[v] \in 1 .. Taken'
                                                /\ left'[v] <= Letters[file'[v]]
      BY <1>1, <1>2, <1>7, Sizes DEF Inv, WorkerInv
    <2>3. \A v \in Workers : pc'[v] \in {"quit?", "count"} => left'[v] < Letters[file'[v]]
      BY <1>7 DEF Inv, WorkerInv
    <2> QED BY <2>1, <2>2, <2>3 DEF WorkerInv
  <1>9. PhaseInv'
    BY <1>1, <1>3, <1>7 DEF Inv, PhaseInv
  <1>10. \A x \in AllLetters : IsCounted(x)' <=> IsCounted(x)
    <2> SUFFICES ASSUME NEW x \in AllLetters PROVE IsCounted(x)' <=> IsCounted(x)
      OBVIOUS
    <2>1. x[1] \in Nat /\ x[2] \in Nat \ {0}
      BY LetterFacts, Sizes
    <2>2. CASE x[1] = Taken + 1
      <3>1. CountedBy(w)' = 0 /\ Holds(w, x[1])'
        BY <1>2, <1>7, <2>2, Sizes DEF CountedBy, Holds, Busy
      <3> QED BY <1>1, <2>1, <2>2, <3>1 DEF IsCounted
    <2>3. CASE x[1] # Taken + 1
      <3>1. ~Holds(w, x[1]) /\ ~Holds(w, x[1])'
        BY <1>3, <1>7, <2>3 DEF Holds, Busy
      <3>2. \A v \in Workers \ {w} : Holds(v, x[1])' <=> Holds(v, x[1])
        BY <1>7 DEF Holds
      <3> QED BY <1>1, <1>7, <2>1, <2>3, <3>1, <3>2 DEF IsCounted
    <2> QED BY <2>2, <2>3
  <1>11. CountInv'
    BY <1>1, <1>10, SameCount
  <1> QED BY <1>5, <1>6, <1>8, <1>9, <1>11 DEF Inv

\* One letter more: the next of that worker's file.
LEMMA CountingInv == ASSUME Inv, NEW w \in Workers, Count(w) PROVE Inv'
  <1> DEFINE new == <<file[w], Letters[file[w]] - left[w]>>
  <1>1. /\ pc[w] = "count" /\ pc' = [pc EXCEPT ![w] = "read"] /\ freq' = freq + 1
        /\ UNCHANGED <<ring, walked, quit, pending, sig, mpc, file, left, popped>>
        /\ freq \in Nat /\ Taken' = Taken /\ mpc # "walk"
    BY DEF Count, Goto, Inv, TypeOK, PhaseInv, Taken, ring
  <1>2. /\ file[w] \in 1 .. Taken /\ file[w] \in Files /\ left[w] \in Nat
        /\ Letters[file[w]] \in Nat /\ left[w] < Letters[file[w]]
    <2>1. file[w] \in 1 .. Taken /\ left[w] < Letters[file[w]] /\ left[w] \in Nat
      BY <1>1 DEF Inv, WorkerInv, Busy, TypeOK
    <2> QED BY <2>1, Sizes DEF Inv, TypeOK, Taken
  <1>3. TypeOK' /\ RingInv' /\ PhaseInv'
    BY <1>1 DEF Inv, TypeOK, RingInv, PhaseInv, Taken, Slot, ring
  <1>4. \A v \in Workers : pc'[v] = IF v = w THEN "read" ELSE pc[v]
    BY <1>1 DEF Inv, TypeOK
  <1>5. \A v \in Workers : \A f : Holds(v, f)' <=> Holds(v, f)
    BY <1>1, <1>4 DEF Holds, Busy
  <1>6. WorkerInv'
    BY <1>1, <1>4, <1>5 DEF Inv, WorkerInv, Busy
  <1>7. /\ \A v \in Workers \ {w} : CountedBy(v)' = CountedBy(v)
        /\ CountedBy(w)' = Letters[file[w]] - left[w]
        /\ CountedBy(w) = Letters[file[w]] - left[w] - 1
    BY <1>1, <1>4 DEF CountedBy
  <1>8. new \in AllLetters /\ ~IsCounted(new) /\ new[1] = file[w]
        /\ new[2] = Letters[file[w]] - left[w]
    <2>1. new \in AllLetters
      BY <1>2, LetterFacts
    <2>2. Holds(w, file[w])
      BY <1>1 DEF Holds, Busy
    <2> QED BY <1>2, <1>7, <2>1, <2>2 DEF IsCounted
  <1>9. ASSUME NEW x \in AllLetters
        PROVE  IsCounted(x)' <=> IsCounted(x) \/ x = new
    <2>1. x = <<x[1], x[2]>> /\ x[2] \in Nat
      BY LetterFacts
    <2>2. CASE x[1] # file[w]
      BY <1>1, <1>5, <1>7, <1>8, <2>2 DEF IsCounted, Holds
    <2>3. CASE x[1] = file[w]
      <3>1. \A v \in Workers : Holds(v, x[1]) <=> v = w
        BY <1>1, <2>3 DEF Holds, Busy, Inv, WorkerInv
      <3>2. IsCounted(x)' <=> x[2] <= CountedBy(w)'
        BY <1>1, <1>2, <1>5, <2>3, <3>1 DEF IsCounted
      <3>3. IsCounted(x) <=> x[2] <= CountedBy(w)
        BY <1>2, <2>3, <3>1 DEF IsCounted
      <3>4. x = new <=> x[2] = Letters[file[w]] - left[w]
        BY <2>1, <2>3
      <3> QED BY <1>2, <1>7, <2>1, <3>2, <3>3, <3>4
    <2> QED BY <2>2, <2>3
  <1>10. CountInv'
    <2> HIDE DEF new
    <2>1. Counted' = Counted \cup {new} /\ new \notin Counted
      BY <1>8, <1>9 DEF Counted
    <2>2. ASSUME IsFiniteSet(Counted)
          PROVE  /\ IsFiniteSet(Counted')
                 /\ Cardinality(Counted') = Cardinality(Counted) + 1
      BY <2>1, <2>2, FS_AddElement
    <2> QED BY <1>1, <2>2 DEF Inv, CountInv
  <1> QED BY <1>3, <1>6, <1>10 DEF Inv

LEMMA NextInv == ASSUME Inv, [Next]_vars PROVE Inv'
  <1>1. CASE UNCHANGED vars
    BY <1>1, QuietStep DEF vars, work, Inv, TypeOK, PhaseInv, ring
  <1>2. CASE Next
    BY <1>2, MainInv, StartInv, PushInv, ReadingInv, PopInv, CountingInv
       DEF Next, Work
  <1> QED BY <1>1, <1>2

\* Whichever program is started, the letter count keeps its invariant.
LEMMA Invariance == LabSpec => []Inv
  <1>1. LabInit => Inv
    BY InitInv DEF LabInit
  <1>2. Inv /\ [LabNext]_labVars => Inv'
    BY NextInv DEF LabNext, Counter, Editor, Venv, labVars
  <1> QED BY <1>1, <1>2, PTL DEF LabSpec

(* However many workers count however many files, a program that was not   *)
(* interrupted has counted every letter once when its workers have ended   *)
(* (thread_work of prelab.c).                                              *)
THEOREM EveryLetterCounted == LabSpec => []CountsComplete
  <1>1. ASSUME Inv, ~quit, mpc # "walk", \A w \in Workers : pc[w] = "ended"
        PROVE  freq = Cardinality(AllLetters)
    <2>1. PICK w \in Workers : pc[w] = "ended"
      BY <1>1, LetterAssumption
    <2>2. len = 0 /\ Taken = Len(Letters)
      BY <1>1, <2>1, Sizes DEF Inv, PhaseInv, Taken
    <2>3. \A x \in AllLetters : IsCounted(x)
      BY <1>1, <2>2, LetterFacts, Sizes DEF IsCounted, Holds, Busy
    <2>4. Counted = AllLetters
      BY <2>3 DEF Counted
    <2> QED BY <1>1, <2>4 DEF Inv, CountInv
  <1>2. Inv => CountsComplete
    BY <1>1 DEF CountsComplete, Inv
  <1> QED BY <1>2, Invariance, PTL

-----------------------------------------------------------------------------
\* The modulus of an index that has run at most once past the end.
LEMMA WrappedIndex ==
    ASSUME NEW n \in Nat \ {0}, NEW x \in 0 .. n - 1, NEW j \in 0 .. n - 1
    PROVE  (x + j) % n = IF x + j < n THEN x + j ELSE x + j - n
  OBVIOUS

\* The numbers a, a + 1, ... as a queue of length n.
Run(a, n) == [k \in 1 .. n |-> a + k - 1]

LEMMA RunFacts ==
    ASSUME NEW a \in Nat, NEW n \in Nat
    PROVE  /\ Run(a, n) \in Seq(Nat) /\ Len(Run(a, n)) = n
           /\ Append(Run(a, n), a + n) = Run(a, n + 1)
           /\ n > 0 => Head(Run(a, n)) = a /\ Tail(Run(a, n)) = Run(a + 1, n - 1)
           /\ n = 0 <=> Run(a, n) = <<>>
  <1>1. Run(a, n) \in Seq(Nat) /\ Len(Run(a, n)) = n
    BY DEF Run
  <1>2. Append(Run(a, n), a + n) = Run(a, n + 1)
    <2>1. /\ Append(Run(a, n), a + n) \in Seq(Nat)
          /\ Len(Append(Run(a, n), a + n)) = n + 1
      BY <1>1
    <2>2. Run(a, n + 1) \in Seq(Nat) /\ Len(Run(a, n + 1)) = n + 1
      BY DEF Run
    <2>3. ASSUME NEW k \in 1 .. n + 1
          PROVE  Append(Run(a, n), a + n)[k] = Run(a, n + 1)[k]
      BY <1>1 DEF Run
    <2> QED BY <2>1, <2>2, <2>3
  <1>3. ASSUME n > 0
        PROVE  Head(Run(a, n)) = a /\ Tail(Run(a, n)) = Run(a + 1, n - 1)
    <2>1. Head(Run(a, n)) = a
      BY <1>1, <1>3 DEF Run
    <2>2. Tail(Run(a, n)) \in Seq(Nat) /\ Len(Tail(Run(a, n))) = n - 1
      BY <1>1, <1>3
    <2>3. Run(a + 1, n - 1) \in Seq(Nat) /\ Len(Run(a + 1, n - 1)) = n - 1
      BY <1>3 DEF Run
    <2>4. ASSUME NEW k \in 1 .. n - 1
          PROVE  Tail(Run(a, n))[k] = Run(a + 1, n - 1)[k]
      BY <1>1, <1>3 DEF Run
    <2>5. Tail(Run(a, n)) = Run(a + 1, n - 1)
      <3>1. \A s, t \in Seq(Nat) :
              Len(s) = Len(t) /\ (\A k \in 1 .. Len(s) : s[k] = t[k]) => s = t
        OBVIOUS
      <3> QED BY <2>2, <2>3, <2>4, <3>1, Zenon
    <2> QED BY <2>1, <2>5
  <1>4. n = 0 <=> Run(a, n) = <<>>
    BY <1>1
  <1> QED BY <1>1, <1>2, <1>3, <1>4

\* The queue of the mapping holds the files between the two counters.
LEMMA ContentIsRun == Inv => Content = Run(Taken, len)
  <1> SUFFICES ASSUME Inv PROVE Content = Run(Taken, len)
    OBVIOUS
  <1>1. /\ len \in 0 .. CIRC_BUF_SIZE /\ tail \in 0 .. CIRC_BUF_SIZE - 1
        /\ Taken \in Nat /\ CIRC_BUF_SIZE \in Nat \ {0}
    BY Sizes DEF Inv, TypeOK, RingInv, Index
  <1>2. ASSUME NEW k \in 1 .. len
        PROVE  buf[(tail + k - 1) % CIRC_BUF_SIZE] - 1 = Taken + k - 1
    <2>1. k - 1 \in 0 .. len - 1 /\ k - 1 \in 0 .. CIRC_BUF_SIZE - 1
          /\ tail + k - 1 = tail + (k - 1)
      BY <1>1
    <2>2. (tail + (k - 1)) % CIRC_BUF_SIZE = Slot(k - 1)
      BY <1>1, <2>1, WrappedIndex DEF Slot
    <2>3. buf[Slot(k - 1)] = Taken + (k - 1) + 1
      BY <2>1 DEF Inv, RingInv
    <2> QED BY <1>1, <2>1, <2>2, <2>3
  <1> QED BY <1>2 DEF Run, Content

\* The files popped, numbered from 0 as in the mapping.
Popped == [k \in 1 .. Len(popped) |-> popped[k] - 1]

LEMMA PoppedIsRun == Inv => Popped = Run(0, Taken)
  BY DEF Inv, RingInv, Popped, Run

(* Every step of a thread is a step of the queue or leaves it as it is:    *)
(* Push puts the next file, Pop takes the oldest one.                      *)
LEMMA FifoStep ==
    ASSUME Inv, Inv', [Next]_vars
    PROVE  [Fifo!Put \/ Fifo!Get]_(Fifo!fvars)
  <1>1. /\ Content = Run(Taken, len) /\ Content' = Run(Taken', len')
        /\ Taken \in Nat /\ Taken' \in Nat /\ len \in Nat /\ len' \in Nat
        /\ walked = Taken + len /\ walked \in Nat
    <2>1. Inv' => (Content = Run(Taken, len))'
      BY ContentIsRun, PTL
    <2>2. /\ Taken \in Nat /\ Taken' \in Nat /\ len \in Nat /\ len' \in Nat
          /\ walked \in Nat
      BY Sizes DEF Inv, TypeOK, RingInv
    <2> QED BY <2>1, <2>2, ContentIsRun DEF Run, Taken
  <1>2. CASE Push
    <2>1. /\ len < CIRC_BUF_SIZE /\ len' = len + 1 /\ walked < Len(Letters)
          /\ walked' = walked + 1 /\ popped' = popped /\ Taken' = Taken
      BY <1>2, Sizes DEF Push, Full, Inv, TypeOK, Taken
    <2>2. Content' = Append(Content, walked) /\ Len(Content) = len
      <3>1. /\ Append(Run(Taken, len), Taken + len) = Run(Taken, len + 1)
            /\ Len(Run(Taken, len)) = len
        BY <1>1, RunFacts
      <3>2. Content' = Run(Taken, len + 1)
        BY <1>1, <2>1, Zenon
      <3> QED BY <1>1, <3>1, <3>2, Zenon
    <2> QED BY <2>1, <2>2 DEF Fifo!Put
  <1>3. ASSUME NEW w \in Workers, Pop(w) PROVE Fifo!Get
    <2>1. /\ len > 0 /\ len' = len - 1 /\ walked' = walked /\ Taken' = Taken + 1
          /\ popped' = Append(popped, buf[tail])
      BY <1>1, <1>3 DEF Pop, CanPop, Taken
    <2>2. buf[tail] = Taken + 1
      <3>1. Slot(0) = tail /\ 0 \in 0 .. len - 1
        BY <1>1, <2>1, Sizes DEF Slot, Inv, TypeOK, Index
      <3> QED BY <1>1, <3>1 DEF Inv, RingInv
    <2>3. Content # <<>> /\ Head(Content) = Taken /\ Content' = Tail(Content)
      <3>1. /\ len > 0 =>
                  /\ Head(Run(Taken, len)) = Taken
                  /\ Tail(Run(Taken, len)) = Run(Taken + 1, len - 1)
            /\ len = 0 <=> Run(Taken, len) = <<>>
        BY <1>1, RunFacts, Zenon
      <3>2. len > 0 /\ len # 0
        BY <1>1, <2>1
      <3>3. Content' = Run(Taken + 1, len - 1)
        BY <1>1, <2>1, Zenon
      <3> QED BY <1>1, <3>1, <3>2, <3>3, Zenon
    <2>4. Popped' = Append(Popped, Taken)
      <3>1. Popped = Run(0, Taken) /\ Popped' = Run(0, Taken')
        <4>1. Inv' => (Popped = Run(0, Taken))'
          BY PoppedIsRun, PTL
        <4> QED BY <4>1, PoppedIsRun DEF Run
      <3>2. Append(Run(0, Taken), 0 + Taken) = Run(0, Taken + 1)
        BY <1>1, RunFacts
      <3>3. 0 + Taken = Taken
        BY <1>1
      <3> QED BY <2>1, <3>1, <3>2, <3>3, Zenon
    <2> QED BY <2>1, <2>3, <2>4 DEF Fifo!Get, Popped
  <1>4. CASE ~(Push \/ \E w \in Workers : Pop(w))
    <2>1. UNCHANGED <<walked, len, popped>>
      BY <1>4 DEF Next, Work, StartThreads, Tick, Exit, Interrupt, OnSigint, OnSigusr1,
                  Test, Read, TestQuit, Count, ring, vars
    <2> QED BY <1>1, <2>1 DEF Fifo!fvars, Taken
  <1> QED BY <1>2, <1>3, <1>4

(* The circular buffer of prelab.c, filled by main and emptied by any      *)
(* number of workers, is a bounded queue through which the files pass in   *)
(* the order of the walk, each of them to one worker.                      *)
THEOREM BufferIsFifo == LabSpec => FifoSpec
  <1>1. LabInit => Fifo!FInit
    <2> SUFFICES ASSUME Init PROVE Fifo!FInit
      BY DEF LabInit
    <2>1. Content = Run(Taken, 0) /\ Taken \in Nat
      BY InitInv, ContentIsRun DEF Init, Taken
    <2> QED BY <2>1, RunFacts DEF Init, Fifo!FInit
  <1>2. Inv /\ Inv' /\ [LabNext]_labVars => [Fifo!Put \/ Fifo!Get]_(Fifo!fvars)
    <2> SUFFICES ASSUME Inv, Inv', [LabNext]_labVars PROVE [Next]_vars
      BY FifoStep
    <2> QED BY DEF LabNext, Counter, Editor, Venv, labVars
  <1> QED BY <1>1, <1>2, Invariance, PTL DEF LabSpec, FifoSpec, Fifo!FSpec

-----------------------------------------------------------------------------
(* Sequences, and the lines of a text.                                     *)

LEMMA SameElements ==
    ASSUME NEW S, NEW s \in Seq(S), NEW t \in Seq(S), Len(s) = Len(t),
           \A k \in 1 .. Len(s) : s[k] = t[k]
    PROVE  s = t
  OBVIOUS

\* A set of natural numbers that is not empty has a least element.
LEMMA Least ==
    ASSUME NEW T, T \subseteq Nat, T # {}
    PROVE  \E x \in T : \A y \in T : x <= y
  <1> DEFINE R == OpToRel(<, Nat)
  <1>1. IsWellFoundedOn(R, Nat)
    BY NatLessThanWellFounded
  <1> HIDE DEF R
  <1>2. PICK x \in T : \A y \in T : ~(<<y, x>> \in R)
    BY <1>1, WFMin, Zenon
  <1>3. ASSUME NEW y \in T PROVE x <= y
    <2>1. ~(<<y, x>> \in R)
      BY <1>2
    <2>2. x \in Nat /\ y \in Nat
      OBVIOUS
    <2> QED BY <2>1, <2>2 DEF R, OpToRel
  <1> QED BY <1>3

\* Induction over 0 .. n, for a set of those that satisfy the claim.
LEMMA Climb ==
    ASSUME NEW n \in Nat, NEW S, 0 \in S, \A k \in 0 .. n - 1 : k \in S => k + 1 \in S
    PROVE  \A k \in 0 .. n : k \in S
  <1> DEFINE T == {k \in 0 .. n : k \notin S}
  <1>1. T = {}
    <2> SUFFICES ASSUME T # {} PROVE FALSE
      OBVIOUS
    <2>1. T \subseteq Nat
      OBVIOUS
    <2>2. PICK x \in T : \A y \in T : x <= y
      BY <2>1, Least
    <2>3. x \in 1 .. n /\ x \notin S
      BY <2>2
    <2>4. x - 1 \in 0 .. n - 1 /\ (x - 1) + 1 = x
      BY <2>3
    <2>5. x - 1 \notin T
      <3> SUFFICES ASSUME x - 1 \in T PROVE FALSE
        OBVIOUS
      <3>1. x <= x - 1
        BY <2>2
      <3> QED BY <2>3, <3>1
    <2>6. x - 1 \in S
      BY <2>4, <2>5
    <2>7. x \in S
      BY <2>4, <2>6
    <2> QED BY <2>3, <2>7
  <1> QED BY <1>1

-----------------------------------------------------------------------------
(* Editor and Venv: texts, which FlattenSeq makes of sequences of lines.   *)

LEMMA JoinFacts ==
    ASSUME NEW A, NEW s \in Seq(A), NEW t \in Seq(A)
    PROVE  /\ s \o t \in Seq(A) /\ Len(s \o t) = Len(s) + Len(t)
           /\ \A i \in 1 .. Len(s) : (s \o t)[i] = s[i]
           /\ \A i \in 1 .. Len(t) : (s \o t)[Len(s) + i] = t[i]
           /\ s \o <<>> = s /\ <<>> \o s = s
  <1>1. s \o t \in Seq(A) /\ Len(s \o t) = Len(s) + Len(t)
    OBVIOUS
  <1>2. \A i \in 1 .. Len(s) : (s \o t)[i] = s[i]
    OBVIOUS
  <1>3. \A i \in 1 .. Len(t) : (s \o t)[Len(s) + i] = t[i]
    OBVIOUS
  <1>4. s \o <<>> = s /\ <<>> \o s = s
    OBVIOUS
  <1> QED BY <1>1, <1>2, <1>3, <1>4

LEMMA JoinAssociates ==
    ASSUME NEW A, NEW s \in Seq(A), NEW t \in Seq(A), NEW u \in Seq(A)
    PROVE  (s \o t) \o u = s \o (t \o u)
  OBVIOUS

LEMMA CutFacts ==
    ASSUME NEW A, NEW s \in Seq(A), NEW a \in Nat, NEW b \in Nat, a <= b, b <= Len(s)
    PROVE  /\ SubSeq(s, a + 1, b) \in Seq(A) /\ Len(SubSeq(s, a + 1, b)) = b - a
           /\ \A i \in 1 .. b - a : SubSeq(s, a + 1, b)[i] = s[a + i]
  OBVIOUS

LEMMA PrefixFacts ==
    ASSUME NEW A, NEW s \in Seq(A), NEW k \in 0 .. Len(s)
    PROVE  /\ SubSeq(s, 1, k) \in Seq(A) /\ Len(SubSeq(s, 1, k)) = k
           /\ \A i \in 1 .. k : SubSeq(s, 1, k)[i] = s[i]
  OBVIOUS

\* A text in two parts: the parts are cut out of the whole.
LEMMA TwoParts ==
    ASSUME NEW A, NEW s \in Seq(A), NEW t \in Seq(A)
    PROVE  /\ SubSeq(s \o t, 1, Len(s)) = s
           /\ SubSeq(s \o t, Len(s) + 1, Len(s \o t)) = t
  <1>1. SubSeq(s \o t, 1, Len(s)) = s
    <2>1. /\ SubSeq(s \o t, 1, Len(s)) \in Seq(A)
          /\ Len(SubSeq(s \o t, 1, Len(s))) = Len(s)
          /\ \A i \in 1 .. Len(s) : SubSeq(s \o t, 1, Len(s))[i] = s[i]
      BY JoinFacts
    <2> QED BY <2>1, SameElements
  <1>2. SubSeq(s \o t, Len(s) + 1, Len(s \o t)) = t
    <2>1. s \o t \in Seq(A) /\ Len(s \o t) = Len(s) + Len(t) /\ Len(s) \in Nat /\ Len(t) \in Nat
      BY JoinFacts
    <2>2. /\ SubSeq(s \o t, Len(s) + 1, Len(s \o t)) \in Seq(A)
          /\ Len(SubSeq(s \o t, Len(s) + 1, Len(s \o t))) = Len(t)
          /\ \A i \in 1 .. Len(t) :
                SubSeq(s \o t, Len(s) + 1, Len(s \o t))[i] = (s \o t)[Len(s) + i]
      BY <2>1, CutFacts
    <2>3. \A i \in 1 .. Len(t) : SubSeq(s \o t, Len(s) + 1, Len(s \o t))[i] = t[i]
      BY <2>2, JoinFacts
    <2> QED BY <2>2, <2>3, SameElements
  <1> QED BY <1>1, <1>2

LEMMA CutAndJoin ==
    ASSUME NEW A, NEW s \in Seq(A), NEW k \in 0 .. Len(s)
    PROVE  /\ SubSeq(s, 1, k) \in Seq(A) /\ SubSeq(s, k + 1, Len(s)) \in Seq(A)
           /\ Len(SubSeq(s, 1, k)) = k /\ Len(SubSeq(s, k + 1, Len(s))) = Len(s) - k
           /\ SubSeq(s, 1, k) \o SubSeq(s, k + 1, Len(s)) = s
  <1> DEFINE a == SubSeq(s, 1, k)
             b == SubSeq(s, k + 1, Len(s))
  <1>1. a \in Seq(A) /\ Len(a) = k /\ \A i \in 1 .. k : a[i] = s[i]
    OBVIOUS
  <1>2. /\ b \in Seq(A) /\ Len(b) = Len(s) - k
        /\ \A i \in 1 .. Len(s) - k : b[i] = s[k + i]
    BY CutFacts
  <1> HIDE DEF a, b
  <1>3. a \o b \in Seq(A) /\ Len(a \o b) = Len(s)
    BY <1>1, <1>2, JoinFacts
  <1>4. ASSUME NEW i \in 1 .. Len(s) PROVE (a \o b)[i] = s[i]
    <2>1. CASE i <= k
      BY <1>1, <1>2, <2>1, JoinFacts
    <2>2. CASE i > k
      <3>1. i - k \in 1 .. Len(b) /\ i = Len(a) + (i - k) /\ k + (i - k) = i
        BY <1>1, <1>2, <2>2
      <3>2. (a \o b)[Len(a) + (i - k)] = b[i - k]
        BY <1>1, <1>2, <3>1, JoinFacts
      <3> QED BY <1>2, <3>1, <3>2
    <2>3. i <= k \/ i > k
      OBVIOUS
    <2> QED BY <2>1, <2>2, <2>3
  <1>5. a \o b = s
    BY <1>3, <1>4, SameElements
  <1> QED BY <1>1, <1>2, <1>5 DEF a, b

\* The equation FlattenSeq puts on its recursive function, for n elements of s.
Joins(g, s, n) == g = [i \in 1 .. n |-> IF i = 1 THEN s[i] ELSE g[i - 1] \o s[i]]

LEMMA JoinsAt ==
    ASSUME NEW n \in Nat, NEW s, NEW g, Joins(g, s, n)
    PROVE  /\ n # 0 => g[1] = s[1]
           /\ \A k \in 1 .. n - 1 : g[k + 1] = g[k] \o s[k + 1]
  <1>1. \A i \in 1 .. n : g[i] = IF i = 1 THEN s[i] ELSE g[i - 1] \o s[i]
    BY Zenon DEF Joins
  <1>2. n # 0 => g[1] = s[1]
    <2>1. n # 0 => 1 \in 1 .. n
      OBVIOUS
    <2> QED BY <1>1, <2>1
  <1>3. ASSUME NEW k \in 1 .. n - 1 PROVE g[k + 1] = g[k] \o s[k + 1]
    <2>1. k + 1 \in 1 .. n /\ k + 1 # 1 /\ (k + 1) - 1 = k
      OBVIOUS
    <2>2. g[k + 1] = g[(k + 1) - 1] \o s[k + 1]
      BY <1>1, <2>1
    <2> QED BY <2>1, <2>2
  <1> QED BY <1>2, <1>3

LEMMA JoinsUnique ==
    ASSUME NEW n \in Nat, NEW s, NEW f, NEW g, Joins(f, s, n), Joins(g, s, n)
    PROVE  \A i \in 1 .. n : f[i] = g[i]
  <1>1. /\ n # 0 => f[1] = s[1]
        /\ \A k \in 1 .. n - 1 : f[k + 1] = f[k] \o s[k + 1]
    BY JoinsAt, Zenon
  <1>a. /\ n # 0 => g[1] = s[1]
        /\ \A k \in 1 .. n - 1 : g[k + 1] = g[k] \o s[k + 1]
    BY JoinsAt, Zenon
  <1> DEFINE S == {i \in 0 .. n : i = 0 \/ f[i] = g[i]}
  <1>2. 0 \in S
    OBVIOUS
  <1>3. ASSUME NEW k \in 0 .. n - 1, k \in S PROVE k + 1 \in S
    <2>1. k + 1 \in 0 .. n
      OBVIOUS
    <2>2. f[k + 1] = g[k + 1]
      <3>1. CASE k = 0
        <4>1. f[1] = s[1] /\ g[1] = s[1] /\ k + 1 = 1
          BY <1>1, <1>a, <3>1
        <4> QED BY <4>1
      <3>2. CASE k # 0
        <4>1. f[k] = g[k] /\ k \in 1 .. n - 1
          BY <1>3, <3>2
        <4>2. f[k + 1] = f[k] \o s[k + 1] /\ g[k + 1] = g[k] \o s[k + 1]
          BY <1>1, <1>a, <4>1
        <4> QED BY <4>1, <4>2
      <3> QED BY <3>1, <3>2
    <2> QED BY <2>1, <2>2
  <1> HIDE DEF S
  <1>4. \A k \in 0 .. n : k \in S
    BY <1>2, <1>3, Climb
  <1> QED BY <1>4 DEF S

\* What FlattenSeq returns is any function that satisfies its equation.
LEMMA Joined ==
    ASSUME NEW n \in Nat \ {0}, NEW s, Len(s) = n, NEW g, Joins(g, s, n)
    PROVE  Ed!FlattenSeq(s) = g[n]
  <1> DEFINE Good(f) == f = [i \in 1 .. n |-> IF i = 1 THEN s[i] ELSE f[i - 1] \o s[i]]
             f == CHOOSE h : Good(h)
  <1>1. Good(f)
    BY Zenon DEF Joins
  <1>2. Ed!FlattenSeq(s) = f[n]
    BY Zenon DEF Ed!FlattenSeq
  <1> HIDE DEF f
  <1>3. Joins(f, s, n)
    BY <1>1 DEF Joins
  <1>4. \A i \in 1 .. n : f[i] = g[i]
    BY <1>3, JoinsUnique
  <1> QED BY <1>2, <1>4

\* Sequences of texts, and what FlattenSeq makes of them.
Texts(A) == Seq(Seq(A))

LEMMA JoinsExists ==
    ASSUME NEW A, NEW s \in Texts(A), NEW n \in Nat, n <= Len(s)
    PROVE  \E g : Joins(g, s, n) /\ \A i \in 1 .. n : g[i] \in Seq(A)
  <1> DEFINE Fine(g, m) == Joins(g, s, m) /\ \A i \in 1 .. m : g[i] \in Seq(A)
             S == {m \in 0 .. n : \E g : Fine(g, m)}
  <1>1. \A i \in 1 .. n : s[i] \in Seq(A)
    BY DEF Texts
  <1>2. 0 \in S
    <2>1. Joins(<<>>, s, 0)
      BY DEF Joins
    <2>2. Fine(<<>>, 0)
      BY <2>1
    <2> QED BY <2>2
  <1>3. ASSUME NEW k \in 0 .. n - 1, k \in S PROVE k + 1 \in S
    <2>1. PICK g : Joins(g, s, k) /\ \A i \in 1 .. k : g[i] \in Seq(A)
      BY <1>3
    <2>a. /\ k # 0 => g[1] = s[1]
          /\ \A i \in 1 .. k - 1 : g[i + 1] = g[i] \o s[i + 1]
      <3>1. k \in Nat
        OBVIOUS
      <3> QED BY <2>1, <3>1, JoinsAt, Zenon
    <2> DEFINE e == IF k = 0 THEN s[1] ELSE g[k] \o s[k + 1]
               h == [i \in 1 .. k + 1 |-> IF i <= k THEN g[i] ELSE e]
    <2>2. e \in Seq(A)
      <3>1. CASE k = 0
        BY <1>1, <3>1
      <3>2. CASE k # 0
        <4>1. g[k] \in Seq(A) /\ s[k + 1] \in Seq(A)
          BY <1>1, <2>1, <3>2
        <4> QED BY <3>2, <4>1, JoinFacts
      <3> QED BY <3>1, <3>2
    <2>3. ASSUME NEW i \in 1 .. k + 1
          PROVE  /\ h[i] = IF i = 1 THEN s[i] ELSE h[i - 1] \o s[i]
                 /\ h[i] \in Seq(A)
      <3>1. CASE i <= k
        <4>1. h[i] = g[i] /\ g[i] \in Seq(A)
          BY <2>1, <3>1
        <4>2. CASE i = 1
          BY <2>a, <3>1, <4>1, <4>2
        <4>3. CASE i # 1
          <5>1. i - 1 \in 1 .. k - 1 /\ (i - 1) + 1 = i /\ h[i - 1] = g[i - 1]
            BY <3>1, <4>3
          <5>2. g[(i - 1) + 1] = g[i - 1] \o s[(i - 1) + 1]
            BY <2>a, <5>1
          <5> HIDE DEF h
          <5> QED BY <4>1, <4>3, <5>1, <5>2
        <4> QED BY <4>2, <4>3
      <3>2. CASE i = k + 1
        <4>1. h[i] = e /\ (k # 0 => h[i - 1] = g[k]) /\ (i = 1 <=> k = 0)
          BY <3>2
        <4> HIDE DEF h
        <4> QED BY <2>2, <3>2, <4>1
      <3>3. i <= k \/ i = k + 1
        OBVIOUS
      <3> QED BY <3>1, <3>2, <3>3
    <2>4. h = [i \in 1 .. k + 1 |-> h[i]]
      OBVIOUS
    <2> HIDE DEF h
    <2>5. Joins(h, s, k + 1)
      <3>1. [i \in 1 .. k + 1 |-> h[i]]
              = [i \in 1 .. k + 1 |-> IF i = 1 THEN s[i] ELSE h[i - 1] \o s[i]]
        BY <2>3, Zenon
      <3> QED BY <2>4, <3>1, Zenon DEF Joins
    <2>6. Fine(h, k + 1)
      BY <2>3, <2>5
    <2> QED BY <2>6
  <1> HIDE DEF S
  <1>4. \A k \in 0 .. n : k \in S
    BY <1>2, <1>3, Climb
  <1> QED BY <1>4 DEF S

LEMMA FlatFacts ==
    ASSUME NEW A, NEW s \in Texts(A), NEW l \in Seq(A)
    PROVE  /\ Ed!FlattenSeq(s) \in Seq(A)
           /\ Ed!FlattenSeq(Append(s, l)) = Ed!FlattenSeq(s) \o l
  <1> DEFINE n == Len(s)
             t == Append(s, l)
  <1>1. n \in Nat /\ t \in Texts(A) /\ Len(t) = n + 1 /\ t[n + 1] = l
        /\ \A i \in 1 .. n : t[i] = s[i]
    BY DEF Texts
  <1> HIDE DEF t
  <1>2. PICK g : Joins(g, t, n + 1) /\ \A i \in 1 .. n + 1 : g[i] \in Seq(A)
    BY <1>1, JoinsExists
  <1>3. Ed!FlattenSeq(t) = g[n + 1]
    BY <1>1, <1>2, Joined
  <1>a. /\ n + 1 # 0 => g[1] = t[1]
        /\ \A i \in 1 .. (n + 1) - 1 : g[i + 1] = g[i] \o t[i + 1]
    <2>1. n + 1 \in Nat
      BY <1>1
    <2> QED BY <1>2, <2>1, JoinsAt, Zenon
  <1>4. g[n + 1] = IF n = 0 THEN l ELSE g[n] \o l
    <2>1. CASE n = 0
      <3>1. n + 1 = 1 /\ n + 1 \in Nat /\ n + 1 # 0
        BY <2>1
      <3>2. g[1] = t[1]
        BY <1>a, <3>1
      <3> QED BY <1>1, <2>1, <3>1, <3>2
    <2>2. CASE n # 0
      <3>1. n \in 1 .. (n + 1) - 1 /\ n + 1 \in Nat
        BY <1>1, <2>2
      <3>2. g[n + 1] = g[n] \o t[n + 1]
        BY <1>a, <3>1
      <3> QED BY <1>1, <2>2, <3>2
    <2> QED BY <2>1, <2>2
  <1>5. CASE n = 0
    <2>1. s = <<>> /\ Ed!FlattenSeq(s) = <<>>
      BY <1>5 DEF Ed!FlattenSeq, Texts
    <2>2. <<>> \o l = l /\ <<>> \in Seq(A)
      OBVIOUS
    <2> QED BY <1>3, <1>4, <1>5, <2>1, <2>2 DEF t
  <1>6. CASE n # 0
    <2>1. PICK h : Joins(h, s, n) /\ \A i \in 1 .. n : h[i] \in Seq(A)
      BY <1>1, JoinsExists
    <2>2. Ed!FlattenSeq(s) = h[n]
      BY <1>1, <1>6, <2>1, Joined
    <2> DEFINE r == [i \in 1 .. n |-> g[i]]
    <2>3. Joins(r, s, n)
      <3>1. ASSUME NEW i \in 1 .. n
            PROVE  g[i] = IF i = 1 THEN s[i] ELSE r[i - 1] \o s[i]
        <4>1. CASE i = 1
          <5>1. n + 1 # 0 /\ i = 1
            BY <1>1, <4>1
          <5> QED BY <1>1, <1>a, <5>1
        <4>2. CASE i # 1
          <5>1. i - 1 \in 1 .. (n + 1) - 1 /\ (i - 1) + 1 = i /\ r[i - 1] = g[i - 1]
            BY <1>1, <4>2
          <5>2. g[(i - 1) + 1] = g[i - 1] \o t[(i - 1) + 1]
            BY <1>1, <1>a, <5>1
          <5> HIDE DEF r
          <5> QED BY <1>1, <4>2, <5>1, <5>2
        <4> QED BY <4>1, <4>2
      <3> QED BY <3>1 DEF Joins
    <2>4. h[n] = g[n]
      <3>1. \A i \in 1 .. n : h[i] = r[i]
        BY <1>1, <2>1, <2>3, JoinsUnique
      <3> QED BY <1>1, <1>6, <3>1
    <2>5. n \in 1 .. n
      BY <1>1, <1>6
    <2> HIDE DEF n, r
    <2> QED BY <1>3, <1>4, <1>6, <2>1, <2>2, <2>4, <2>5 DEF t
  <1> QED BY <1>5, <1>6

LEMMA FlatEmpty == Ed!FlattenSeq(<<>>) = <<>>
  BY DEF Ed!FlattenSeq

LEMMA FlatSingle ==
    ASSUME NEW A, NEW l \in Seq(A)
    PROVE  Ed!FlattenSeq(<<l>>) = l /\ <<l>> \in Texts(A)
  <1>1. <<>> \in Texts(A) /\ Append(<<>>, l) = <<l>> /\ <<l>> \in Texts(A)
    BY DEF Texts
  <1>2. Ed!FlattenSeq(<<l>>) = <<>> \o l
    BY <1>1, FlatEmpty, FlatFacts
  <1> QED BY <1>1, <1>2, JoinFacts

LEMMA LastOne ==
    ASSUME NEW B, NEW s \in Seq(B), s # <<>>
    PROVE  \E r \in Seq(B), l \in B : /\ s = Append(r, l) /\ Len(s) = Len(r) + 1
                                      /\ Len(r) \in Nat
  <1> DEFINE n == Len(s)
             r == SubSeq(s, 1, n - 1)
  <1>1. n \in Nat \ {0} /\ s[n] \in B /\ n - 1 \in 0 .. n
    OBVIOUS
  <1>2. r \in Seq(B) /\ Len(r) = n - 1 /\ \A i \in 1 .. n - 1 : r[i] = s[i]
    <2>1. /\ SubSeq(s, 1, n - 1) \in Seq(B) /\ Len(SubSeq(s, 1, n - 1)) = n - 1
          /\ \A i \in 1 .. n - 1 : SubSeq(s, 1, n - 1)[i] = s[i]
      BY <1>1, PrefixFacts
    <2> QED BY <2>1
  <1> HIDE DEF r
  <1>3. Append(r, s[n]) \in Seq(B) /\ Len(Append(r, s[n])) = n
    BY <1>1, <1>2
  <1>4. \A i \in 1 .. n : Append(r, s[n])[i] = s[i]
    BY <1>1, <1>2
  <1>5. Append(r, s[n]) = s
    BY <1>3, <1>4, SameElements
  <1> QED BY <1>1, <1>2, <1>5

LEMMA JoinAppend ==
    ASSUME NEW B, NEW s \in Seq(B), NEW r \in Seq(B), NEW e \in B
    PROVE  s \o r \in Seq(B) /\ s \o Append(r, e) = Append(s \o r, e)
  OBVIOUS

LEMMA FlatJoin ==
    ASSUME NEW A, NEW s \in Texts(A), NEW t \in Texts(A)
    PROVE  Ed!FlattenSeq(s \o t) = Ed!FlattenSeq(s) \o Ed!FlattenSeq(t)
  <1> DEFINE P(u) == Ed!FlattenSeq(s \o u) = Ed!FlattenSeq(s) \o Ed!FlattenSeq(u)
             S == {k \in 0 .. Len(t) : \A u \in Texts(A) : Len(u) = k => P(u)}
  <1>1. Ed!FlattenSeq(s) \in Seq(A)
    BY FlatFacts, <<>> \in Seq(A)
  <1>2. 0 \in S
    <2>1. ASSUME NEW u \in Texts(A), Len(u) = 0 PROVE P(u)
      <3>1. u = <<>> /\ s \o u = s
        BY <2>1 DEF Texts
      <3>2. Ed!FlattenSeq(u) = <<>>
        BY <3>1, FlatEmpty
      <3> QED BY <1>1, <3>1, <3>2, JoinFacts
    <2>2. 0 \in 0 .. Len(t)
      BY DEF Texts
    <2> QED BY <2>1, <2>2
  <1>3. ASSUME NEW k \in 0 .. Len(t) - 1, k \in S PROVE k + 1 \in S
    <2>1. ASSUME NEW u \in Texts(A), Len(u) = k + 1 PROVE P(u)
      <3>1. u # <<>>
        BY <2>1
      <3>2. PICK r \in Texts(A), l \in Seq(A) : u = Append(r, l) /\ Len(u) = Len(r) + 1
        BY <3>1, LastOne DEF Texts
      <3>3. Len(r) = k /\ Len(r) \in Nat
        BY <2>1, <3>2
      <3>4. P(r)
        BY <1>3, <3>3
      <3>5. s \o r \in Texts(A) /\ s \o Append(r, l) = Append(s \o r, l)
        BY JoinAppend DEF Texts
      <3>6. /\ Ed!FlattenSeq(s \o u) = Ed!FlattenSeq(s \o r) \o l
            /\ Ed!FlattenSeq(u) = Ed!FlattenSeq(r) \o l /\ Ed!FlattenSeq(r) \in Seq(A)
        BY <3>2, <3>5, FlatFacts
      <3>7. (Ed!FlattenSeq(s) \o Ed!FlattenSeq(r)) \o l
              = Ed!FlattenSeq(s) \o (Ed!FlattenSeq(r) \o l)
        BY <1>1, <3>6, JoinAssociates, SMTT(30)
      <3> QED BY <3>4, <3>6, <3>7
    <2>2. k + 1 \in 0 .. Len(t)
      BY DEF Texts
    <2> QED BY <2>1, <2>2
  <1> HIDE DEF S
  <1>4. Len(t) \in Nat /\ Len(t) \in 0 .. Len(t)
    BY DEF Texts
  <1>5. Len(t) \in S
    <2>1. \A k \in 0 .. Len(t) : k \in S
      BY <1>2, <1>3, <1>4, Climb
    <2> QED BY <1>4, <2>1
  <1> QED BY <1>5 DEF S

-----------------------------------------------------------------------------
(* Editor and Venv: where a text is cut into lines.                        *)

Cuts(f) == {0, Len(f)} \cup {i \in 1 .. Len(f) : f[i] = Ed!NL}
UpTo(S, x) == {y \in S : y <= x}
Rank(S, x) == Cardinality(UpTo(S, x))

\* Both instances of the library say the same.
LEMMA SameCardinality == \A S : Ed!Cardinality(S) = Cardinality(S)
  BY Zenon DEF Ed!Cardinality, Cardinality

LEMMA LinesByCuts ==
    ASSUME NEW f
    PROVE  Ed!Lines(f) = [j \in 1 .. Cardinality(Cuts(f)) - 1 |->
                 SubSeq(f, Ed!Nth(Cuts(f), j) + 1, Ed!Nth(Cuts(f), j + 1))]
  BY SameCardinality, Zenon DEF Ed!Lines, Cuts

LEMMA UpToFinite ==
    ASSUME NEW S, IsFiniteSet(S), NEW x
    PROVE  /\ IsFiniteSet(UpTo(S, x)) /\ Rank(S, x) \in Nat
           /\ Rank(S, x) <= Cardinality(S) /\ Cardinality(S) \in Nat
  <1>1. UpTo(S, x) \subseteq S
    BY DEF UpTo
  <1> QED BY <1>1, FS_Subset, FS_CardinalityType DEF Rank

\* Of two elements the greater one has the greater rank.
LEMMA RankGrows ==
    ASSUME NEW S, S \subseteq Nat, IsFiniteSet(S), NEW x \in S, NEW z \in S, x < z
    PROVE  Rank(S, x) < Rank(S, z)
  <1>1. UpTo(S, x) \subseteq UpTo(S, z) /\ z \in UpTo(S, z) /\ z \notin UpTo(S, x)
    <2>1. z <= z /\ ~(z <= x) /\ \A y \in S : y <= x => y <= z
      OBVIOUS
    <2> QED BY <2>1, Zenon DEF UpTo
  <1>2. IsFiniteSet(UpTo(S, z)) /\ Rank(S, x) \in Nat /\ Rank(S, z) \in Nat
    BY UpToFinite
  <1>3. Rank(S, x) <= Rank(S, z) /\ Rank(S, x) # Rank(S, z)
    BY <1>1, <1>2, FS_Subset DEF Rank
  <1> QED BY <1>2, <1>3

LEMMA NthIs ==
    ASSUME NEW S, S \subseteq Nat, IsFiniteSet(S), NEW x \in S
    PROVE  Ed!Nth(S, Rank(S, x)) = x
  <1> DEFINE j == Rank(S, x)
             z == Ed!Nth(S, j)
  <1> DEFINE P(y) == y \in S /\ Ed!Cardinality({v \in S : v <= y}) = j
  <1>1. P(x)
    BY SameCardinality DEF Rank, UpTo
  <1>2. z \in S /\ Rank(S, z) = j
    <2>1. z = CHOOSE y : P(y)
      BY Zenon DEF Ed!Nth
    <2> HIDE DEF z
    <2>2. P(z)
      BY <1>1, <2>1, Zenon
    <2> QED BY <2>2, SameCardinality DEF Rank, UpTo
  <1> HIDE DEF z
  <1>3. ~(x < z) /\ ~(z < x)
    <2>1. x < z => Rank(S, x) < Rank(S, z)
      BY <1>2, RankGrows
    <2>2. z < x => Rank(S, z) < Rank(S, x)
      BY <1>2, RankGrows
    <2>3. Rank(S, x) \in Nat
      BY UpToFinite
    <2> QED BY <1>2, <2>1, <2>2, <2>3
  <1>4. z = x
    BY <1>2, <1>3
  <1> QED BY <1>4 DEF z

\* Every number from 1 to the size of the set is the rank of an element.
LEMMA NthExists ==
    ASSUME NEW n \in Nat, NEW S, S \subseteq 0 .. n, IsFiniteSet(S),
           NEW j \in 1 .. Cardinality(S)
    PROVE  \E x \in S : Rank(S, x) = j
  <1> DEFINE P(m) == \A i \in 1 .. Rank(S, m) : \E x \in S : Rank(S, x) = i
             T == {m \in 0 .. n : P(m)}
  <1>0. \A y \in S : y \in 0 .. n
    OBVIOUS
  <1>1. 0 \in T
    <2>1. \A y \in S : y <= 0 <=> y = 0
      BY <1>0
    <2>2. CASE 0 \in S
      <3>1. UpTo(S, 0) = {0}
        BY <2>1, <2>2 DEF UpTo
      <3>2. Rank(S, 0) = 1
        BY <3>1, FS_Singleton DEF Rank
      <3>3. \A i \in 1 .. 1 : i = 1
        OBVIOUS
      <3> QED BY <2>2, <3>2, <3>3
    <2>3. CASE 0 \notin S
      <3>1. UpTo(S, 0) = {}
        BY <2>1, <2>3 DEF UpTo
      <3>2. Rank(S, 0) = 0
        BY <3>1, FS_EmptySet DEF Rank
      <3> QED BY <3>2
    <2> QED BY <2>2, <2>3
  <1>2. ASSUME NEW k \in 0 .. n - 1, k \in T PROVE k + 1 \in T
    <2>1. k + 1 \in 0 .. n /\ P(k)
      BY <1>2
    <2>2. IsFiniteSet(UpTo(S, k)) /\ Rank(S, k) \in Nat
      BY UpToFinite
    <2>a. \A y \in S : (y <= k + 1 <=> (y <= k \/ y = k + 1)) /\ ~(k + 1 <= k)
      BY <1>0
    <2>3. CASE k + 1 \in S
      <3>1. UpTo(S, k + 1) = UpTo(S, k) \cup {k + 1} /\ k + 1 \notin UpTo(S, k)
        BY <2>a, <2>3, Zenon DEF UpTo
      <3>2. Rank(S, k + 1) = Rank(S, k) + 1
        BY <2>2, <3>1, FS_AddElement DEF Rank
      <3>3. ASSUME NEW i \in 1 .. Rank(S, k + 1) PROVE \E x \in S : Rank(S, x) = i
        <4>1. i \in 1 .. Rank(S, k) \/ i = Rank(S, k + 1)
          BY <2>2, <3>2
        <4> QED BY <2>1, <2>3, <4>1
      <3> QED BY <2>1, <3>3
    <2>4. CASE k + 1 \notin S
      <3>1. UpTo(S, k + 1) = UpTo(S, k)
        BY <2>a, <2>4, Zenon DEF UpTo
      <3>2. Rank(S, k + 1) = Rank(S, k)
        BY <3>1 DEF Rank
      <3> QED BY <2>1, <3>2
    <2> QED BY <2>3, <2>4
  <1> HIDE DEF T
  <1>3. n \in T
    <2>1. \A m \in 0 .. n : m \in T
      BY <1>1, <1>2, Climb
    <2> QED BY <2>1
  <1>4. Rank(S, n) = Cardinality(S)
    <2>0. \A y \in S : y <= n
      BY <1>0
    <2>1. UpTo(S, n) = S
      BY <2>0, Zenon DEF UpTo
    <2> QED BY <2>1 DEF Rank
  <1> QED BY <1>3, <1>4 DEF T

LEMMA CutsFinite ==
    ASSUME NEW A, NEW f \in Seq(A)
    PROVE  /\ Cuts(f) \subseteq 0 .. Len(f) /\ Cuts(f) \subseteq Nat
           /\ IsFiniteSet(Cuts(f)) /\ Cardinality(Cuts(f)) \in Nat
           /\ Rank(Cuts(f), Len(f)) = Cardinality(Cuts(f))
  <1>1. Cuts(f) \subseteq 0 .. Len(f) /\ Len(f) \in Nat
    BY DEF Cuts
  <1>2. IsFiniteSet(0 .. Len(f))
    BY <1>1, FS_Interval
  <1>3. IsFiniteSet(Cuts(f)) /\ Cardinality(Cuts(f)) \in Nat
    BY <1>1, <1>2, FS_Subset, FS_CardinalityType
  <1>4. UpTo(Cuts(f), Len(f)) = Cuts(f)
    BY <1>1 DEF UpTo
  <1> QED BY <1>1, <1>3, <1>4 DEF Rank

\* A line: not empty, and no newline but at its end.
IsLine(l) == l # <<>> /\ \A i \in 1 .. Len(l) - 1 : l[i] # Ed!NL
\* A text whose lines all have their newline.
Whole(f) == f = <<>> \/ f[Len(f)] = Ed!NL

LEMMA CutsGrow ==
    ASSUME NEW A, NEW f \in Seq(A), NEW l \in Seq(A), Whole(f), IsLine(l)
    PROVE  /\ Cuts(f \o l) = Cuts(f) \cup {Len(f) + Len(l)}
           /\ Cardinality(Cuts(f \o l)) = Cardinality(Cuts(f)) + 1
           /\ \A x \in Cuts(f) : x < Len(f) + Len(l) /\ Rank(Cuts(f \o l), x) = Rank(Cuts(f), x)
  <1> DEFINE C == Cuts(f)
             D == Cuts(f \o l)
             m == Len(f)
             k == Len(l)
             w == f \o l
  <1>1. /\ m \in Nat /\ k \in Nat \ {0} /\ w \in Seq(A) /\ Len(w) = m + k
        /\ \A i \in 1 .. m : w[i] = f[i]
        /\ \A i \in 1 .. k : w[m + i] = l[i]
    BY JoinFacts DEF IsLine
  <1>2. \A i \in 1 .. k - 1 : l[i] # Ed!NL
    BY DEF IsLine
  <1>3. m = 0 \/ (m \in 1 .. m /\ f[m] = Ed!NL)
    BY <1>1 DEF Whole
  <1> HIDE DEF m, k, w
  <1>4. D = {0, m + k} \cup {i \in 1 .. m + k : w[i] = Ed!NL}
    BY <1>1 DEF Cuts, w
  <1>5. C = {0, m} \cup {i \in 1 .. m : f[i] = Ed!NL}
    BY DEF Cuts, m
  <1> HIDE DEF C, D
  <1>6. ASSUME NEW i PROVE i \in D <=> i \in C \cup {m + k}
    <2>1. CASE i \in 1 .. m
      BY <1>1, <1>3, <1>4, <1>5, <2>1
    <2>2. CASE i \in m + 1 .. m + k - 1
      <3>1. i - m \in 1 .. k - 1 /\ i = m + (i - m) /\ i - m \in 1 .. k
        BY <1>1, <2>2
      <3>2. w[i] = l[i - m] /\ l[i - m] # Ed!NL
        <4>1. w[m + (i - m)] = l[i - m]
          <5> DEFINE h == i - m
          <5>1. h \in 1 .. k
            BY <3>1
          <5> HIDE DEF h
          <5>2. w[m + h] = l[h]
            BY <1>1, <5>1, Zenon
          <5> QED BY <5>2 DEF h
        <4> QED BY <1>2, <3>1, <4>1
      <3>3. i \notin {0, m, m + k} /\ i \notin 1 .. m
        BY <1>1, <2>2
      <3> QED BY <1>4, <1>5, <3>2, <3>3
    <2>3. CASE i = 0 \/ i = m + k
      BY <1>4, <1>5, <2>3
    <2>4. CASE i \notin 0 .. m + k
      BY <1>1, <1>4, <1>5, <2>4
    <2>5. ASSUME i \in 0 .. m + k
          PROVE  i = 0 \/ i \in 1 .. m \/ i \in m + 1 .. m + k - 1 \/ i = m + k
      <3>1. i \in Int
        BY <2>5
      <3> QED BY <1>1, <2>5, <3>1
    <2> QED BY <2>1, <2>2, <2>3, <2>4, <2>5
  <1>7. D = C \cup {m + k}
    BY <1>6
  <1>8. C \subseteq 0 .. m /\ IsFiniteSet(C) /\ m + k \notin C
    BY <1>1, CutsFinite DEF C, m
  <1>9. Cardinality(D) = Cardinality(C) + 1
    BY <1>7, <1>8, FS_AddElement
  <1>10. ASSUME NEW x \in C PROVE x < m + k /\ Rank(D, x) = Rank(C, x)
    <2>1. x < m + k /\ UpTo(D, x) = UpTo(C, x)
      BY <1>1, <1>7, <1>8 DEF UpTo
    <2> QED BY <2>1 DEF Rank
  <1> QED BY <1>7, <1>9, <1>10 DEF C, D, m, k, w

\* A line more at the end of a text of whole lines.
LEMMA LinesGrow ==
    ASSUME NEW A, NEW f \in Seq(A), NEW l \in Seq(A), Whole(f), IsLine(l),
           Ed!Lines(f) \in Texts(A)
    PROVE  Ed!Lines(f \o l) = Append(Ed!Lines(f), l)
  <1> DEFINE C == Cuts(f)
             D == Cuts(f \o l)
             c == Cardinality(C)
             w == f \o l
             L == Ed!Lines(f)
             M == Ed!Lines(w)
  <1>1. /\ D = C \cup {Len(f) + Len(l)} /\ Cardinality(D) = c + 1
        /\ \A x \in C : x < Len(f) + Len(l) /\ Rank(D, x) = Rank(C, x)
    BY CutsGrow
  <1>2. /\ C \subseteq 0 .. Len(f) /\ C \subseteq Nat /\ IsFiniteSet(C) /\ c \in Nat
        /\ Rank(C, Len(f)) = c /\ Len(f) \in C
    BY CutsFinite DEF Cuts
  <1>3. w \in Seq(A) /\ Len(w) = Len(f) + Len(l) /\ Len(f) \in Nat /\ Len(l) \in Nat \ {0}
    BY JoinFacts DEF IsLine
  <1>4. D \subseteq Nat /\ IsFiniteSet(D) /\ Rank(D, Len(w)) = c + 1 /\ Len(w) \in D
    BY <1>1, <1>3, CutsFinite, ZenonT(30) DEF Cuts
  <1>5. c \in Nat \ {0}
    BY <1>2, FS_EmptySet
  <1>6. /\ L = [j \in 1 .. c - 1 |-> SubSeq(f, Ed!Nth(C, j) + 1, Ed!Nth(C, j + 1))]
        /\ M = [j \in 1 .. (c + 1) - 1 |-> SubSeq(w, Ed!Nth(D, j) + 1, Ed!Nth(D, j + 1))]
    BY <1>1, LinesByCuts
  <1> HIDE DEF C, D, c, w, L, M
  <1>7. ASSUME NEW j \in 1 .. c PROVE Ed!Nth(D, j) = Ed!Nth(C, j) /\ Ed!Nth(C, j) \in C
    <2>1. PICK x \in C : Rank(C, x) = j
      BY <1>2, <1>3, NthExists, ZenonT(30) DEF c
    <2>2. Ed!Nth(C, j) = x
      BY <1>2, <2>1, NthIs
    <2>3. Ed!Nth(D, j) = x
      <3>1. Rank(D, x) = j /\ x \in D
        BY <1>1, <2>1
      <3> QED BY <1>4, <3>1, NthIs
    <2> QED BY <2>2, <2>3
  <1>8. Ed!Nth(D, c) = Len(f) /\ Ed!Nth(D, c + 1) = Len(w)
    <2>1. Ed!Nth(D, c + 1) = Len(w)
      BY <1>4, NthIs
    <2>2. Ed!Nth(C, c) = Len(f)
      BY <1>2, NthIs
    <2> QED BY <1>5, <1>7, <2>1, <2>2
  <1>9. ASSUME NEW j \in 1 .. c - 1 PROVE M[j] = L[j]
    <2>1. j \in 1 .. c /\ j + 1 \in 1 .. c /\ j \in 1 .. (c + 1) - 1
      BY <1>5
    <2> DEFINE a == Ed!Nth(C, j)
               b == Ed!Nth(C, j + 1)
    <2>2. Ed!Nth(D, j) = a /\ Ed!Nth(D, j + 1) = b /\ a \in 0 .. Len(f) /\ b \in 0 .. Len(f)
      BY <1>2, <1>7, <2>1
    <2>3. M[j] = SubSeq(w, a + 1, b) /\ L[j] = SubSeq(f, a + 1, b)
      BY <1>6, <2>1, <2>2
    <2> HIDE DEF a, b
    <2>4. SubSeq(w, a + 1, b) = SubSeq(f, a + 1, b)
      <3>1. CASE a <= b
        <4>1. /\ SubSeq(f, a + 1, b) \in Seq(A) /\ Len(SubSeq(f, a + 1, b)) = b - a
              /\ \A i \in 1 .. b - a : SubSeq(f, a + 1, b)[i] = f[a + i]
          BY <2>2, <3>1, CutFacts
        <4>2. /\ SubSeq(w, a + 1, b) \in Seq(A) /\ Len(SubSeq(w, a + 1, b)) = b - a
              /\ \A i \in 1 .. b - a : SubSeq(w, a + 1, b)[i] = w[a + i]
          <5>1. a \in Nat /\ b \in Nat /\ b <= Len(w)
            BY <1>3, <2>2
          <5> QED BY <1>3, <3>1, <5>1, CutFacts
        <4>3. \A i \in 1 .. b - a : w[a + i] = f[a + i]
          <5>1. \A i \in 1 .. Len(f) : w[i] = f[i]
            BY JoinFacts DEF w
          <5> QED BY <2>2, <3>1, <5>1
        <4> QED BY <4>1, <4>2, <4>3, SameElements
      <3>2. CASE b < a
        <4>1. SubSeq(w, a + 1, b) = <<>> /\ SubSeq(f, a + 1, b) = <<>>
          BY <1>3, <2>2, <3>2
        <4> QED BY <4>1
      <3>3. a <= b \/ b < a
        BY <2>2
      <3> QED BY <3>1, <3>2, <3>3
    <2> QED BY <2>3, <2>4
  <1>10. M[c] = l
    <2>1. c \in 1 .. (c + 1) - 1
      BY <1>5
    <2>2. M[c] = SubSeq(w, Len(f) + 1, Len(w))
      BY <1>6, <1>8, <2>1
    <2> QED BY <2>2, TwoParts DEF w
  <1>11. Len(L) = c - 1 /\ L \in Seq(Seq(A))
    <2>1. L \in Seq(Seq(A))
      BY DEF Texts, L
    <2>2. DOMAIN L = 1 .. c - 1
      BY <1>6
    <2>3. DOMAIN L = 1 .. Len(L) /\ Len(L) \in Nat
      BY <2>1
    <2> QED BY <1>5, <2>1, <2>2, <2>3
  <1>12. Append(L, l) \in Seq(Seq(A)) /\ Len(Append(L, l)) = c
         /\ Append(L, l)[c] = l /\ \A j \in 1 .. c - 1 : Append(L, l)[j] = L[j]
    BY <1>5, <1>11
  <1>13. \A j \in 1 .. c : j \in 1 .. c - 1 \/ j = c
    BY <1>5
  <1>14. \A j \in 1 .. c : M[j] = Append(L, l)[j]
    BY <1>9, <1>10, <1>12, <1>13
  <1>15. M \in Seq(Seq(A)) /\ Len(M) = c
    <2>1. (c + 1) - 1 = c
      BY <1>5
    <2>2. M = [j \in 1 .. c |-> M[j]]
      BY <1>6, <2>1
    <2>3. \A j \in 1 .. c : M[j] \in Seq(A)
      BY <1>12, <1>14
    <2> QED BY <1>5, <2>2, <2>3, SMTT(30)
  <1>16. M = Append(L, l)
    BY <1>12, <1>14, <1>15, SameElements
  <1> QED BY <1>16 DEF L, M, w

AllWhole(s) == \A j \in 1 .. Len(s) : Whole(s[j])
\* What Lines returns: lines, of which only the last may lack its newline.
WellFormed(s) == \A j \in 1 .. Len(s) : IsLine(s[j]) /\ (j < Len(s) => Whole(s[j]))

LEMMA LinesEmpty == Ed!Lines(<<>>) = <<>>
  <1>1. Cuts(<<>>) = {0}
    BY DEF Cuts
  <1>2. Cardinality(Cuts(<<>>)) = 1
    BY <1>1, FS_Singleton
  <1>3. 1 .. Cardinality(Cuts(<<>>)) - 1 = {}
    BY <1>2
  <1> DEFINE L == Ed!Lines(<<>>)
  <1>4. L = [j \in {} |-> SubSeq(<<>>, Ed!Nth(Cuts(<<>>), j) + 1, Ed!Nth(Cuts(<<>>), j + 1))]
    BY <1>3, LinesByCuts, Zenon
  <1>5. L = <<>>
    BY <1>4
  <1> QED BY <1>5

\* A text ends with a line, which begins behind the last newline before it.
LEMMA LastLine ==
    ASSUME NEW A, NEW f \in Seq(A), f # <<>>
    PROVE  \E g \in Seq(A), l \in Seq(A) :
              f = g \o l /\ Whole(g) /\ IsLine(l) /\ Len(g) < Len(f)
  <1> DEFINE n == Len(f)
             T == {k \in 1 .. n : k = n \/ f[n - k] = Ed!NL}
  <1>1. n \in Nat \ {0}
    OBVIOUS
  <1>2. PICK k \in T : \A j \in T : k <= j
    <2>1. T \subseteq Nat /\ n \in T
      BY <1>1
    <2> HIDE DEF T
    <2> QED BY <2>1, Least
  <1>3. k \in 1 .. n /\ (k = n \/ f[n - k] = Ed!NL) /\ n - k \in 0 .. n
    BY <1>1, <1>2
  <1> DEFINE g == SubSeq(f, 1, n - k)
             l == SubSeq(f, (n - k) + 1, n)
  <1>4. g \in Seq(A) /\ l \in Seq(A) /\ Len(g) = n - k /\ Len(l) = k /\ g \o l = f
    <2>1. n - (n - k) = k
      BY <1>1, <1>3
    <2> QED BY <1>3, <2>1, CutAndJoin
  <1>a. /\ \A i \in 1 .. n - k : g[i] = f[i]
        /\ \A h \in 1 .. n - (n - k) : l[h] = f[(n - k) + h]
    <2>1. \A i \in 1 .. n - k : g[i] = f[i]
      BY <1>3, PrefixFacts
    <2>2. n - k \in Nat /\ n \in Nat /\ n - k <= n /\ n <= Len(f)
      BY <1>1, <1>3
    <2>3. \A h \in 1 .. n - (n - k) : l[h] = f[(n - k) + h]
      BY <2>2, CutFacts
    <2> QED BY <2>1, <2>3
  <1>b. ASSUME NEW j \in 1 .. n - 1, f[n - j] = Ed!NL PROVE k <= j
    <2>1. j \in 1 .. n
      BY <1>1
    <2>2. j \in T
      BY <1>b, <2>1
    <2> QED BY <1>2, <2>2
  <1> HIDE DEF n, T, g, l
  <1>5. Whole(g)
    <2>1. CASE k = n
      BY <1>1, <1>3, <1>4, <2>1 DEF Whole
    <2>2. CASE k # n
      <3>1. n - k \in 1 .. n - k /\ f[n - k] = Ed!NL
        BY <1>1, <1>3, <2>2
      <3>3. g[n - k] = f[n - k]
        BY <1>a, <3>1
      <3> QED BY <1>4, <3>1, <3>3 DEF Whole
    <2> QED BY <2>1, <2>2
  <1>6. IsLine(l)
    <2>1. l # <<>>
      BY <1>1, <1>3, <1>4
    <2>2. ASSUME NEW i \in 1 .. Len(l) - 1 PROVE l[i] # Ed!NL
      <3>1. /\ k - i \in 1 .. n - 1 /\ ~(k <= k - i) /\ n - (k - i) = (n - k) + i
            /\ i \in 1 .. n - (n - k)
        BY <1>1, <1>3, <1>4, <2>2
      <3>2. f[n - (k - i)] # Ed!NL
        BY <1>b, <3>1
      <3>3. l[i] = f[(n - k) + i]
        BY <1>a, <3>1
      <3> QED BY <3>1, <3>2, <3>3
    <2> QED BY <2>1, <2>2 DEF IsLine
  <1>7. Len(g) < Len(f)
    BY <1>1, <1>3, <1>4 DEF n
  <1> QED BY <1>4, <1>5, <1>6, <1>7

LEMMA WholeJoin ==
    ASSUME NEW A, NEW f \in Seq(A), NEW l \in Seq(A), l # <<>>
    PROVE  f \o l # <<>> /\ (Whole(f \o l) <=> Whole(l))
  <1>1. f \o l \in Seq(A) /\ Len(f \o l) = Len(f) + Len(l)
    BY JoinFacts
  <1>2. Len(f) \in Nat /\ Len(l) \in Nat \ {0} /\ Len(l) \in 1 .. Len(l)
    OBVIOUS
  <1>3. (f \o l)[Len(f) + Len(l)] = l[Len(l)]
    <2>1. \A i \in 1 .. Len(l) : (f \o l)[Len(f) + i] = l[i]
      BY JoinFacts
    <2> QED BY <1>2, <2>1
  <1>4. f \o l # <<>>
    BY <1>1, <1>2
  <1> QED BY <1>1, <1>3, <1>4 DEF Whole

LEMMA WellFormedAppend ==
    ASSUME NEW A, NEW s \in Texts(A), NEW l \in Seq(A)
    PROVE  /\ Append(s, l) \in Texts(A)
           /\ WellFormed(Append(s, l)) <=> (WellFormed(s) /\ AllWhole(s) /\ IsLine(l))
           /\ AllWhole(Append(s, l)) <=> (AllWhole(s) /\ Whole(l))
  <1> DEFINE n == Len(s)
             t == Append(s, l)
  <1>1. /\ n \in Nat /\ t \in Texts(A) /\ Len(t) = n + 1 /\ t[n + 1] = l
        /\ \A j \in 1 .. n : t[j] = s[j]
    BY DEF Texts
  <1> HIDE DEF n, t
  <1>2. \A j \in 1 .. n + 1 : j \in 1 .. n \/ j = n + 1
    BY <1>1
  <1>3. n + 1 \in 1 .. n + 1 /\ \A j \in 1 .. n : j \in 1 .. n + 1 /\ j < n + 1
    BY <1>1
  <1>4. AllWhole(t) <=> (AllWhole(s) /\ Whole(l))
    <2>1. AllWhole(s) <=> \A j \in 1 .. n : Whole(s[j])
      BY DEF AllWhole, n
    <2>2. AllWhole(t) <=> \A j \in 1 .. n + 1 : Whole(t[j])
      BY <1>1 DEF AllWhole
    <2>3. (\A j \in 1 .. n : Whole(s[j])) <=> \A j \in 1 .. n : Whole(t[j])
      BY <1>1
    <2>4. (\A j \in 1 .. n + 1 : Whole(t[j])) <=> ((\A j \in 1 .. n : Whole(t[j])) /\ Whole(t[n + 1]))
      BY <1>2, <1>3
    <2> QED BY <1>1, <2>1, <2>2, <2>3, <2>4
  <1>5. WellFormed(t) <=> (WellFormed(s) /\ AllWhole(s) /\ IsLine(l))
    <2>1. WellFormed(t) <=> \A j \in 1 .. n + 1 : IsLine(t[j]) /\ (j < n + 1 => Whole(t[j]))
      BY <1>1 DEF WellFormed
    <2>2. (WellFormed(s) /\ AllWhole(s)) <=> \A j \in 1 .. n : IsLine(s[j]) /\ Whole(s[j])
      BY DEF WellFormed, AllWhole, n
    <2>3. (\A j \in 1 .. n : IsLine(s[j]) /\ Whole(s[j]))
             <=> \A j \in 1 .. n : IsLine(t[j]) /\ Whole(t[j])
      BY <1>1
    <2>4. ~(n + 1 < n + 1)
      BY <1>1
    <2>5. (\A j \in 1 .. n + 1 : IsLine(t[j]) /\ (j < n + 1 => Whole(t[j])))
             <=> ((\A j \in 1 .. n : IsLine(t[j]) /\ Whole(t[j])) /\ IsLine(t[n + 1]))
      BY <1>2, <1>3, <2>4
    <2> QED BY <1>1, <2>1, <2>2, <2>3, <2>5
  <1> QED BY <1>1, <1>4, <1>5 DEF t

LEMMA FlatWhole ==
    ASSUME NEW A, NEW s \in Texts(A), WellFormed(s)
    PROVE  Whole(Ed!FlattenSeq(s)) <=> AllWhole(s)
  <1>1. CASE s = <<>>
    <2>1. AllWhole(s)
      BY <1>1 DEF AllWhole
    <2> QED BY <1>1, <2>1, FlatEmpty DEF Whole
  <1>2. CASE s # <<>>
    <2>1. PICK r \in Texts(A), l \in Seq(A) : s = Append(r, l)
      BY <1>2, LastOne DEF Texts
    <2>2. AllWhole(r) /\ IsLine(l) /\ (AllWhole(s) <=> (AllWhole(r) /\ Whole(l)))
      BY <2>1, WellFormedAppend
    <2>3. Ed!FlattenSeq(s) = Ed!FlattenSeq(r) \o l /\ Ed!FlattenSeq(r) \in Seq(A)
      BY <2>1, FlatFacts
    <2>4. Whole(Ed!FlattenSeq(s)) <=> Whole(l)
      BY <2>2, <2>3, WholeJoin DEF IsLine
    <2> QED BY <2>2, <2>4
  <1> QED BY <1>1, <1>2

LEMMA NoLines ==
    ASSUME NEW A
    PROVE  /\ Ed!Lines(<<>>) \in Texts(A) /\ WellFormed(Ed!Lines(<<>>))
           /\ Ed!FlattenSeq(Ed!Lines(<<>>)) = <<>>
  <1>1. <<>> \in Texts(A)
    BY DEF Texts
  <1>2. WellFormed(<<>>)
    <2>1. 1 .. Len(<<>>) = {}
      OBVIOUS
    <2> QED BY <2>1 DEF WellFormed
  <1> QED BY <1>1, <1>2, LinesEmpty, FlatEmpty

\* The lines of a text are lines, and make up the text.
LEMMA LinesFacts ==
    ASSUME NEW A, NEW f \in Seq(A)
    PROVE  /\ Ed!Lines(f) \in Texts(A) /\ WellFormed(Ed!Lines(f))
           /\ Ed!FlattenSeq(Ed!Lines(f)) = f
  <1> DEFINE P(g) == /\ Ed!Lines(g) \in Texts(A) /\ WellFormed(Ed!Lines(g))
                     /\ Ed!FlattenSeq(Ed!Lines(g)) = g
             S == {m \in 0 .. Len(f) : \A g \in Seq(A) : Len(g) <= m => P(g)}
  <1>1. 0 \in S
    <2>1. P(<<>>)
      BY NoLines
    <2>2. \A g \in Seq(A) : Len(g) <= 0 => g = <<>>
      OBVIOUS
    <2>3. 0 \in 0 .. Len(f)
      OBVIOUS
    <2> QED BY <2>1, <2>2, <2>3
  <1>2. ASSUME NEW k \in 0 .. Len(f) - 1, k \in S PROVE k + 1 \in S
    <2>1. ASSUME NEW h \in Seq(A), Len(h) <= k + 1, h # <<>> PROVE P(h)
      <3>1. PICK g \in Seq(A), l \in Seq(A) :
               h = g \o l /\ Whole(g) /\ IsLine(l) /\ Len(g) < Len(h)
        BY <2>1, LastLine
      <3>2. Len(g) <= k
        BY <2>1, <3>1
      <3>3. P(g)
        BY <1>2, <3>2
      <3>4. Ed!Lines(h) = Append(Ed!Lines(g), l)
        BY <3>1, <3>3, LinesGrow
      <3>5. AllWhole(Ed!Lines(g))
        BY <3>1, <3>3, FlatWhole
      <3>6. Ed!Lines(h) \in Texts(A) /\ WellFormed(Ed!Lines(h))
        BY <3>1, <3>3, <3>4, <3>5, WellFormedAppend
      <3>7. Ed!FlattenSeq(Ed!Lines(h)) = Ed!FlattenSeq(Ed!Lines(g)) \o l
        BY <3>3, <3>4, FlatFacts
      <3> QED BY <3>1, <3>3, <3>6, <3>7
    <2>2. P(<<>>)
      BY NoLines
    <2>3. \A h \in Seq(A) : Len(h) <= k + 1 => P(h)
      BY <2>1, <2>2
    <2>4. k + 1 \in 0 .. Len(f)
      OBVIOUS
    <2> QED BY <2>3, <2>4
  <1> HIDE DEF S
  <1>3. Len(f) \in S
    <2>1. Len(f) \in Nat /\ Len(f) \in 0 .. Len(f)
      OBVIOUS
    <2>2. \A k \in 0 .. Len(f) : k \in S
      BY <1>1, <1>2, <2>1, Climb
    <2> QED BY <2>1, <2>2
  <1>4. Len(f) <= Len(f)
    OBVIOUS
  <1> QED BY <1>3, <1>4 DEF S

\* Lines put together are found again.
LEMMA LinesOfFlat ==
    ASSUME NEW A, NEW s \in Texts(A), WellFormed(s)
    PROVE  Ed!Lines(Ed!FlattenSeq(s)) = s
  <1> DEFINE S == {m \in 0 .. Len(s) : \A t \in Texts(A) :
                      Len(t) = m /\ WellFormed(t) => Ed!Lines(Ed!FlattenSeq(t)) = t}
  <1>0. Len(s) \in Nat /\ Len(s) \in 0 .. Len(s)
    BY DEF Texts
  <1>1. 0 \in S
    <2>1. \A t \in Texts(A) : Len(t) = 0 => t = <<>>
      BY DEF Texts
    <2> QED BY <1>0, <2>1, LinesEmpty, FlatEmpty
  <1>2. ASSUME NEW k \in 0 .. Len(s) - 1, k \in S PROVE k + 1 \in S
    <2>1. ASSUME NEW t \in Texts(A), Len(t) = k + 1, WellFormed(t)
          PROVE  Ed!Lines(Ed!FlattenSeq(t)) = t
      <3>1. t # <<>>
        BY <2>1
      <3>2. PICK r \in Texts(A), l \in Seq(A) :
               t = Append(r, l) /\ Len(t) = Len(r) + 1 /\ Len(r) \in Nat
        BY <3>1, LastOne DEF Texts
      <3>3. WellFormed(r) /\ AllWhole(r) /\ IsLine(l)
        BY <2>1, <3>2, WellFormedAppend
      <3>4. Len(r) = k
        BY <2>1, <3>2
      <3>5. Ed!Lines(Ed!FlattenSeq(r)) = r
        BY <1>2, <3>3, <3>4
      <3>6. Ed!FlattenSeq(t) = Ed!FlattenSeq(r) \o l /\ Ed!FlattenSeq(r) \in Seq(A)
        BY <3>2, FlatFacts
      <3>7. Whole(Ed!FlattenSeq(r))
        BY <3>3, FlatWhole
      <3> QED BY <3>2, <3>3, <3>5, <3>6, <3>7, LinesGrow
    <2>2. k + 1 \in 0 .. Len(s)
      BY <1>0
    <2> QED BY <2>1, <2>2
  <1> HIDE DEF S
  <1>3. Len(s) \in S
    <2>1. \A k \in 0 .. Len(s) : k \in S
      BY <1>0, <1>1, <1>2, Climb
    <2> QED BY <1>0, <2>1
  <1> QED BY <1>3 DEF S

-----------------------------------------------------------------------------
(* Editor: what SkipLines skips.                                           *)

NewlinesIn(f, i) == {j \in 1 .. i : f[j] = Ed!NL}

LEMMA NewlinesFacts ==
    ASSUME NEW f, NEW i \in Nat
    PROVE  /\ Ed!Newlines(f, i) = Cardinality(NewlinesIn(f, i))
           /\ IsFiniteSet(NewlinesIn(f, i)) /\ Ed!Newlines(f, i) \in Nat
  <1>1. Ed!Newlines(f, i) = Cardinality(NewlinesIn(f, i))
    BY SameCardinality, Zenon DEF Ed!Newlines, NewlinesIn
  <1>2. IsFiniteSet(1 .. i) /\ NewlinesIn(f, i) \subseteq 1 .. i
    BY FS_Interval DEF NewlinesIn
  <1> QED BY <1>1, <1>2, FS_Subset, FS_CardinalityType

LEMMA NewlinesGrow ==
    ASSUME NEW f, NEW i \in Nat, NEW k \in Nat, i < k
    PROVE  /\ Ed!Newlines(f, i) <= Ed!Newlines(f, k)
           /\ f[k] = Ed!NL => Ed!Newlines(f, i) < Ed!Newlines(f, k)
  <1>1. NewlinesIn(f, i) \subseteq NewlinesIn(f, k) /\ k \notin NewlinesIn(f, i)
    BY DEF NewlinesIn
  <1>2. f[k] = Ed!NL => k \in NewlinesIn(f, k)
    BY DEF NewlinesIn
  <1>3. /\ Ed!Newlines(f, i) = Cardinality(NewlinesIn(f, i)) /\ Ed!Newlines(f, i) \in Nat
        /\ Ed!Newlines(f, k) = Cardinality(NewlinesIn(f, k)) /\ Ed!Newlines(f, k) \in Nat
        /\ IsFiniteSet(NewlinesIn(f, k))
    BY NewlinesFacts
  <1>4. /\ Cardinality(NewlinesIn(f, i)) <= Cardinality(NewlinesIn(f, k))
        /\ Cardinality(NewlinesIn(f, k)) = Cardinality(NewlinesIn(f, i))
             => NewlinesIn(f, k) = NewlinesIn(f, i)
    BY <1>1, <1>3, FS_Subset
  <1>5. f[k] = Ed!NL => Cardinality(NewlinesIn(f, k)) # Cardinality(NewlinesIn(f, i))
    BY <1>1, <1>2, <1>4
  <1> QED BY <1>3, <1>4, <1>5

LEMMA NewlinesPrefix ==
    ASSUME NEW A, NEW f \in Seq(A), NEW g \in Seq(A), NEW i \in 0 .. Len(f)
    PROVE  Ed!Newlines(f \o g, i) = Ed!Newlines(f, i)
  <1>1. \A j \in 1 .. i : j \in 1 .. Len(f)
    OBVIOUS
  <1>2. \A j \in 1 .. i : (f \o g)[j] = f[j]
    BY <1>1, JoinFacts
  <1>3. NewlinesIn(f \o g, i) = NewlinesIn(f, i)
    BY <1>2, Zenon DEF NewlinesIn
  <1> QED BY <1>3, NewlinesFacts

LEMMA NewlinesLine ==
    ASSUME NEW A, NEW f \in Seq(A), NEW l \in Seq(A), IsLine(l)
    PROVE  Ed!Newlines(f \o l, Len(f \o l))
             = IF Whole(l) THEN Ed!Newlines(f, Len(f)) + 1 ELSE Ed!Newlines(f, Len(f))
  <1> DEFINE m == Len(f)
             k == Len(l)
             w == f \o l
             E == IF l[k] = Ed!NL THEN {m + k} ELSE {}
  <1>1. /\ m \in Nat /\ k \in Nat \ {0} /\ Len(w) = m + k
        /\ \A i \in 1 .. m : w[i] = f[i]
        /\ \A i \in 1 .. k : w[m + i] = l[i]
    BY JoinFacts DEF IsLine
  <1>2. (\A i \in 1 .. k - 1 : l[i] # Ed!NL) /\ (Whole(l) <=> l[k] = Ed!NL)
    BY DEF IsLine, Whole
  <1> HIDE DEF m, k, w
  <1>3. ASSUME NEW i \in 1 .. m + k
        PROVE  w[i] = Ed!NL <=> i \in NewlinesIn(f, m) \cup E
    <2>1. CASE i \in 1 .. m
      BY <1>1, <2>1 DEF NewlinesIn
    <2>2. CASE i \in m + 1 .. m + k
      <3>1. PICK h \in 1 .. k : i = m + h
        <4>1. i - m \in 1 .. k /\ i = m + (i - m)
          BY <1>1, <2>2
        <4> QED BY <4>1
      <3>2. w[i] = l[h]
        BY <1>1, <3>1
      <3>3. i \notin 1 .. m
        BY <1>1, <3>1
      <3>4. h \in 1 .. k - 1 \/ h = k
        BY <1>1
      <3>5. CASE h = k
        BY <1>1, <3>1, <3>2, <3>3, <3>5 DEF NewlinesIn
      <3>6. CASE h \in 1 .. k - 1
        <4>1. l[h] # Ed!NL /\ i # m + k
          BY <1>1, <1>2, <3>1, <3>6
        <4> QED BY <3>2, <3>3, <4>1 DEF NewlinesIn
      <3> QED BY <3>4, <3>5, <3>6
    <2>3. i \in 1 .. m \/ i \in m + 1 .. m + k
      BY <1>1
    <2> QED BY <2>1, <2>2, <2>3
  <1>4. \A i \in NewlinesIn(f, m) \cup E : i \in 1 .. m + k
    BY <1>1 DEF NewlinesIn
  <1>5. NewlinesIn(w, m + k) = NewlinesIn(f, m) \cup E
    BY <1>3, <1>4, Zenon DEF NewlinesIn
  <1>6. /\ Ed!Newlines(w, m + k) = Cardinality(NewlinesIn(w, m + k))
        /\ Ed!Newlines(f, m) = Cardinality(NewlinesIn(f, m)) /\ IsFiniteSet(NewlinesIn(f, m))
    <2>1. m + k \in Nat
      BY <1>1
    <2> QED BY <1>1, <2>1, NewlinesFacts
  <1>7. CASE l[k] = Ed!NL
    <2>1. m + k \notin NewlinesIn(f, m) /\ E = {m + k}
      BY <1>1, <1>7 DEF NewlinesIn
    <2>2. Cardinality(NewlinesIn(f, m) \cup {m + k}) = Cardinality(NewlinesIn(f, m)) + 1
      BY <1>6, <2>1, FS_AddElement
    <2> QED BY <1>1, <1>2, <1>5, <1>6, <1>7, <2>1, <2>2 DEF w, m
  <1>8. CASE l[k] # Ed!NL
    <2>1. NewlinesIn(f, m) \cup E = NewlinesIn(f, m)
      BY <1>8
    <2> QED BY <1>1, <1>2, <1>5, <1>6, <1>8, <2>1 DEF w, m
  <1> QED BY <1>7, <1>8

LEMMA FlatNewlines ==
    ASSUME NEW A, NEW s \in Texts(A), WellFormed(s)
    PROVE  Ed!Newlines(Ed!FlattenSeq(s), Len(Ed!FlattenSeq(s)))
             = IF AllWhole(s) THEN Len(s) ELSE Len(s) - 1
  <1> DEFINE Breaks(t) == Ed!Newlines(Ed!FlattenSeq(t), Len(Ed!FlattenSeq(t)))
             P(t) == Breaks(t) = IF AllWhole(t) THEN Len(t) ELSE Len(t) - 1
             S == {m \in 0 .. Len(s) : \A t \in Texts(A) :
                      Len(t) = m /\ WellFormed(t) => P(t)}
  <1>0. Len(s) \in Nat /\ Len(s) \in 0 .. Len(s)
    BY DEF Texts
  <1>1. 0 \in S
    <2>1. \A t \in Texts(A) : Len(t) = 0 => t = <<>>
      BY DEF Texts
    <2>2. AllWhole(<<>>) /\ Len(<<>>) = 0
      BY DEF AllWhole
    <2>3. Breaks(<<>>) = 0
      <3>1. NewlinesIn(<<>>, 0) = {}
        BY DEF NewlinesIn
      <3>2. Ed!Newlines(<<>>, 0) = 0
        BY <3>1, NewlinesFacts, FS_EmptySet
      <3> QED BY <2>2, <3>2, FlatEmpty
    <2> QED BY <1>0, <2>1, <2>2, <2>3
  <1>2. ASSUME NEW k \in 0 .. Len(s) - 1, k \in S PROVE k + 1 \in S
    <2>1. ASSUME NEW t \in Texts(A), Len(t) = k + 1, WellFormed(t) PROVE P(t)
      <3>1. t # <<>>
        BY <2>1
      <3>2. PICK r \in Texts(A), l \in Seq(A) :
               t = Append(r, l) /\ Len(t) = Len(r) + 1 /\ Len(r) \in Nat
        BY <3>1, LastOne DEF Texts
      <3>3. /\ WellFormed(r) /\ AllWhole(r) /\ IsLine(l)
            /\ (AllWhole(t) <=> Whole(l))
        BY <2>1, <3>2, WellFormedAppend
      <3>4. Len(r) = k
        BY <2>1, <3>2
      <3>5. Breaks(r) = k
        BY <1>2, <3>3, <3>4
      <3>6. Ed!FlattenSeq(t) = Ed!FlattenSeq(r) \o l /\ Ed!FlattenSeq(r) \in Seq(A)
        BY <3>2, FlatFacts
      <3>7. Breaks(t) = IF Whole(l) THEN Breaks(r) + 1 ELSE Breaks(r)
        BY <3>3, <3>6, NewlinesLine
      <3> HIDE DEF Breaks
      <3> QED BY <2>1, <3>3, <3>5, <3>7
    <2>2. k + 1 \in 0 .. Len(s)
      BY <1>0
    <2> HIDE DEF P
    <2> QED BY <2>1, <2>2
  <1> HIDE DEF S
  <1>3. Len(s) \in S
    <2>1. \A k \in 0 .. Len(s) : k \in S
      BY <1>0, <1>1, <1>2, Climb
    <2> QED BY <1>0, <2>1
  <1> QED BY <1>3 DEF S

LEMMA MinIs ==
    ASSUME NEW S, S \subseteq Int, NEW x \in S, \A y \in S : x <= y
    PROVE  Ed!Min(S) = x
  <1> DEFINE P(z) == z \in S /\ \A y \in S : z <= y
             z == Ed!Min(S)
  <1>1. z = CHOOSE v : P(v)
    BY Zenon DEF Ed!Min
  <1> HIDE DEF z
  <1>2. P(z)
    BY <1>1, Zenon
  <1>3. z = x
    BY <1>2
  <1> QED BY <1>3 DEF z

\* Whole lines at the beginning of a text are what their number skips.
LEMMA SkipFound ==
    ASSUME NEW A, NEW p \in Seq(A), NEW q \in Seq(A), Whole(p)
    PROVE  LET m == Ed!Newlines(p, Len(p))
           IN  Ed!HasLines(p \o q, m) /\ Ed!SkipLines(p \o q, m) = Len(p)
  <1> DEFINE m == Ed!Newlines(p, Len(p))
             f == p \o q
             S == {i \in 1 .. Len(f) : Ed!Newlines(f, i) = m}
  <1>1. /\ f \in Seq(A) /\ Len(f) = Len(p) + Len(q) /\ Len(p) \in Nat /\ Len(q) \in Nat
        /\ Len(p) \in 0 .. Len(p)
    BY JoinFacts
  <1>2. m \in Nat
    BY <1>1, NewlinesFacts
  <1>3. \A i \in 0 .. Len(p) : Ed!Newlines(f, i) = Ed!Newlines(p, i)
    BY NewlinesPrefix
  <1>4. Ed!Newlines(f, Len(p)) = m
    BY <1>1, <1>3
  <1> HIDE DEF f, m
  <1>5. Ed!HasLines(f, m)
    <2>1. CASE Len(p) = Len(f)
      BY <1>2, <1>4, <2>1 DEF Ed!HasLines
    <2>2. CASE Len(p) < Len(f)
      <3>1. Ed!Newlines(f, Len(p)) <= Ed!Newlines(f, Len(f)) /\ Ed!Newlines(f, Len(f)) \in Nat
        BY <1>1, <2>2, NewlinesGrow, NewlinesFacts
      <3> QED BY <1>2, <1>4, <3>1 DEF Ed!HasLines
    <2> QED BY <1>1, <2>1, <2>2
  <1>6. CASE p = <<>>
    <2>1. Len(p) = 0 /\ NewlinesIn(p, 0) = {}
      BY <1>6 DEF NewlinesIn
    <2>2. m = 0
      BY <2>1, NewlinesFacts, FS_EmptySet DEF m
    <2>3. Ed!SkipLines(f, m) = 0
      BY <2>2 DEF Ed!SkipLines
    <2> QED BY <1>5, <2>1, <2>3 DEF f, m
  <1>7. CASE p # <<>>
    <2>1. Len(p) \in 1 .. Len(f) /\ p[Len(p)] = Ed!NL
      BY <1>1, <1>7 DEF Whole
    <2>2. ASSUME NEW i \in 0 .. Len(p) - 1 PROVE Ed!Newlines(f, i) < m
      <3>1. i \in 0 .. Len(p) /\ i \in Nat /\ i < Len(p)
        BY <1>1
      <3>2. Ed!Newlines(p, i) < Ed!Newlines(p, Len(p))
        BY <1>1, <2>1, <3>1, NewlinesGrow
      <3> QED BY <1>3, <3>1, <3>2 DEF m
    <2>3. ~(m <= 0)
      <3>1. Ed!Newlines(f, 0) < m /\ Ed!Newlines(f, 0) \in Nat
        BY <1>1, <2>1, <2>2, NewlinesFacts
      <3> QED BY <1>2, <3>1
    <2>4. S \subseteq Int /\ Len(p) \in S
      BY <1>4, <2>1
    <2>5. ASSUME NEW y \in S PROVE Len(p) <= y
      <3>1. y \in 1 .. Len(f) /\ Ed!Newlines(f, y) = m
        OBVIOUS
      <3>2. ~(m < m)
        BY <1>2
      <3>3. y \notin 0 .. Len(p) - 1
        BY <2>2, <3>1, <3>2
      <3> QED BY <1>1, <3>1, <3>3
    <2> HIDE DEF S
    <2>6. Ed!Min(S) = Len(p)
      BY <2>4, <2>5, MinIs
    <2>7. Ed!SkipLines(f, m) = Ed!Min(S)
      BY <1>5, <2>3, Zenon DEF Ed!SkipLines, S
    <2> QED BY <1>5, <2>6, <2>7 DEF f, m
  <1> QED BY <1>6, <1>7

LEMMA WellFormedParts ==
    ASSUME NEW A, NEW s \in Texts(A), WellFormed(s), NEW k \in 0 .. Len(s)
    PROVE  /\ SubSeq(s, 1, k) \in Texts(A) /\ SubSeq(s, k + 1, Len(s)) \in Texts(A)
           /\ WellFormed(SubSeq(s, 1, k)) /\ WellFormed(SubSeq(s, k + 1, Len(s)))
           /\ k < Len(s) => AllWhole(SubSeq(s, 1, k))
           /\ Len(SubSeq(s, 1, k)) = k /\ Len(SubSeq(s, k + 1, Len(s))) = Len(s) - k
           /\ Ed!FlattenSeq(s)
                = Ed!FlattenSeq(SubSeq(s, 1, k)) \o Ed!FlattenSeq(SubSeq(s, k + 1, Len(s)))
  <1> DEFINE n == Len(s)
             u == SubSeq(s, 1, k)
             v == SubSeq(s, k + 1, Len(s))
  <1>0. s \in Seq(Seq(A)) /\ n \in Nat /\ k \in 0 .. n
    BY DEF Texts
  <1>1. u \in Texts(A) /\ v \in Texts(A) /\ Len(u) = k /\ Len(v) = n - k /\ u \o v = s
    BY <1>0, CutAndJoin DEF Texts
  <1>2. \A i \in 1 .. k : u[i] = s[i]
    BY <1>0, PrefixFacts
  <1>3. \A i \in 1 .. n - k : v[i] = s[k + i]
    <2>1. k \in Nat /\ k <= n
      BY <1>0
    <2> QED BY <1>0, <2>1, CutFacts
  <1>4. \A i \in 1 .. n : IsLine(s[i]) /\ (i < n => Whole(s[i]))
    BY DEF WellFormed
  <1> HIDE DEF n, u, v
  <1>5. ASSUME NEW i \in 1 .. k PROVE IsLine(u[i]) /\ (i < n => Whole(u[i]))
    BY <1>0, <1>2, <1>4
  <1>6. ASSUME NEW i \in 1 .. n - k PROVE IsLine(v[i]) /\ (i < n - k => Whole(v[i]))
    <2>1. k + i \in 1 .. n /\ (i < n - k => k + i < n) /\ v[i] = s[k + i]
      BY <1>0, <1>3
    <2> QED BY <1>4, <2>1
  <1>7. WellFormed(u) /\ (k < n => AllWhole(u))
    <2>1. \A i \in 1 .. k : (i < k => i < n) /\ (k < n => i < n)
      BY <1>0
    <2> QED BY <1>1, <1>5, <2>1 DEF WellFormed, AllWhole
  <1>8. WellFormed(v)
    BY <1>1, <1>6 DEF WellFormed
  <1>9. Ed!FlattenSeq(s) = Ed!FlattenSeq(u) \o Ed!FlattenSeq(v)
    BY <1>1, FlatJoin
  <1> QED BY <1>1, <1>7, <1>8, <1>9 DEF n, u, v

LEMMA Prefix ==
    ASSUME NEW B, NEW s \in Seq(B)
    PROVE  /\ SubSeq(s, 1, Len(s)) = s /\ SubSeq(s, 1, 0) = <<>>
           /\ SubSeq(s, Len(s) + 1, Len(s)) = <<>>
  <1>1. SubSeq(s, 1, Len(s)) = s
    OBVIOUS
  <1>2. SubSeq(s, 1, 0) = <<>> /\ SubSeq(s, Len(s) + 1, Len(s)) = <<>>
    OBVIOUS
  <1> QED BY <1>1, <1>2

\* m lines are skipped up to the end of the m-th, or to the end of the text.
LEMMA SkipFacts ==
    ASSUME NEW A, NEW s \in Texts(A), WellFormed(s), NEW m \in Nat
    PROVE  /\ m < Len(s) => Ed!HasLines(Ed!FlattenSeq(s), m)
           /\ m <= Len(s) => Ed!SkipLines(Ed!FlattenSeq(s), m)
                               = Len(Ed!FlattenSeq(SubSeq(s, 1, m)))
           /\ m > Len(s) => /\ ~Ed!HasLines(Ed!FlattenSeq(s), m)
                            /\ Ed!SkipLines(Ed!FlattenSeq(s), m) = Len(Ed!FlattenSeq(s))
  <1> DEFINE n == Len(s)
             f == Ed!FlattenSeq(s)
             u == SubSeq(s, 1, m)
             v == SubSeq(s, m + 1, Len(s))
  <1>0. s \in Seq(Seq(A)) /\ n \in Nat /\ <<>> \in Seq(A)
    BY DEF Texts
  <1>1. f \in Seq(A) /\ Len(f) \in Nat
    BY <1>0, FlatFacts
  <1>2. Ed!Newlines(f, Len(f)) = IF AllWhole(s) THEN n ELSE n - 1
    BY FlatNewlines
  <1>3. CASE m < n
    <2>1. m \in 0 .. Len(s)
      BY <1>0, <1>3
    <2>2. /\ u \in Texts(A) /\ v \in Texts(A) /\ WellFormed(u) /\ AllWhole(u) /\ Len(u) = m
          /\ f = Ed!FlattenSeq(u) \o Ed!FlattenSeq(v)
      BY <1>3, <2>1, WellFormedParts
    <2> HIDE DEF f, u, v
    <2>3. Ed!FlattenSeq(u) \in Seq(A) /\ Ed!FlattenSeq(v) \in Seq(A)
      BY <1>0, <2>2, FlatFacts
    <2>4. Whole(Ed!FlattenSeq(u))
      BY <2>2, FlatWhole
    <2>5. Ed!Newlines(Ed!FlattenSeq(u), Len(Ed!FlattenSeq(u))) = m
      BY <2>2, FlatNewlines
    <2>6. Ed!HasLines(f, m) /\ Ed!SkipLines(f, m) = Len(Ed!FlattenSeq(u))
      BY <2>2, <2>3, <2>4, <2>5, SkipFound
    <2> QED BY <1>0, <1>3, <2>6 DEF n, f, u
  <1>4. CASE m = n
    <2>1. u = s
      BY <1>0, <1>4, Prefix
    <2>a. ~(m < Len(s)) /\ ~(m > Len(s))
      BY <1>0, <1>4
    <2>2. CASE AllWhole(s)
      <3>1. Whole(f) /\ Ed!Newlines(f, Len(f)) = m
        BY <1>2, <1>4, <2>2, FlatWhole
      <3>2. f \o <<>> = f
        BY <1>0, <1>1, JoinFacts
      <3> HIDE DEF f
      <3>3. Ed!SkipLines(f, m) = Len(f)
        BY <1>0, <1>1, <3>1, <3>2, SkipFound
      <3>4. Ed!SkipLines(Ed!FlattenSeq(s), m) = Len(Ed!FlattenSeq(SubSeq(s, 1, m)))
        BY <2>1, <3>3 DEF f, u
      <3> QED BY <2>a, <3>4
    <2>3. CASE ~AllWhole(s)
      <3>1. n # 0
        BY <1>0, <2>3 DEF AllWhole
      <3>2. ~(m <= 0) /\ ~Ed!HasLines(f, m)
        BY <1>0, <1>2, <1>4, <2>3, <3>1 DEF Ed!HasLines
      <3>3. Ed!SkipLines(f, m) = Len(f)
        BY <3>2 DEF Ed!SkipLines
      <3>4. Ed!SkipLines(Ed!FlattenSeq(s), m) = Len(Ed!FlattenSeq(SubSeq(s, 1, m)))
        BY <2>1, <3>3
      <3> QED BY <2>a, <3>4
    <2> QED BY <2>2, <2>3
  <1>5. CASE m > n
    <2>1. ~(m <= 0) /\ ~Ed!HasLines(f, m)
      BY <1>0, <1>2, <1>5 DEF Ed!HasLines
    <2>2. Ed!SkipLines(f, m) = Len(f)
      BY <2>1 DEF Ed!SkipLines
    <2> QED BY <1>0, <1>5, <2>1, <2>2
  <1> QED BY <1>0, <1>3, <1>4, <1>5

\* A part of what is left when a beginning goes.
LEMMA CutTwice ==
    ASSUME NEW B, NEW s \in Seq(B), NEW a \in Nat, NEW b \in Nat, NEW c \in Nat,
           b <= c, a + c <= Len(s)
    PROVE  SubSeq(SubSeq(s, a + 1, Len(s)), b + 1, c) = SubSeq(s, a + b + 1, a + c)
  <1> DEFINE r == SubSeq(s, a + 1, Len(s))
             x == SubSeq(r, b + 1, c)
             y == SubSeq(s, (a + b) + 1, a + c)
  <1>0. Len(s) \in Nat /\ a <= Len(s) /\ a + b \in Nat /\ a + c \in Nat /\ a + b <= a + c
    OBVIOUS
  <1>1. r \in Seq(B) /\ Len(r) = Len(s) - a /\ \A i \in 1 .. Len(s) - a : r[i] = s[a + i]
    BY <1>0, CutFacts
  <1>2. y \in Seq(B) /\ Len(y) = c - b /\ \A i \in 1 .. c - b : y[i] = s[(a + b) + i]
    <2>1. (a + c) - (a + b) = c - b
      BY <1>0
    <2> QED BY <1>0, <2>1, CutFacts
  <1> HIDE DEF r, y
  <1>3. x \in Seq(B) /\ Len(x) = c - b /\ \A i \in 1 .. c - b : x[i] = r[b + i]
    <2>1. c <= Len(r) /\ r \in Seq(B) /\ b <= c
      BY <1>0, <1>1
    <2>2. /\ SubSeq(r, b + 1, c) \in Seq(B) /\ Len(SubSeq(r, b + 1, c)) = c - b
          /\ \A i \in 1 .. c - b : SubSeq(r, b + 1, c)[i] = r[b + i]
      BY <2>1, CutFacts
    <2> QED BY <2>2
  <1> HIDE DEF x
  <1>4. ASSUME NEW i \in 1 .. c - b PROVE x[i] = y[i]
    <2>1. b + i \in 1 .. Len(s) - a /\ a + (b + i) = (a + b) + i
      BY <1>0
    <2>2. r[b + i] = s[a + (b + i)]
      BY <1>1, <2>1
    <2>3. x[i] = r[b + i] /\ y[i] = s[(a + b) + i]
      BY <1>2, <1>3
    <2> QED BY <2>1, <2>2, <2>3
  <1>5. x = y
    BY <1>2, <1>3, <1>4, SameElements
  <1> QED BY <1>5 DEF x, y, r

-----------------------------------------------------------------------------
(* Editor: a deletion takes one line out, read_limits cuts lines out.      *)

\* The k-th line out of a text of lines, in two cuts.
LEMMA OneLineOut ==
    ASSUME NEW A, NEW s \in Texts(A), WellFormed(s), NEW h \in 1 .. Len(s)
    PROVE  LET f == Ed!FlattenSeq(s)
               a == Ed!SkipLines(f, h - 1)
               rest == SubSeq(f, a + 1, Len(f))
               b == Ed!SkipLines(rest, 1)
           IN  SubSeq(f, 1, a) \o SubSeq(rest, b + 1, Len(rest))
                 = Ed!FlattenSeq(SubSeq(s, 1, h - 1) \o SubSeq(s, h + 1, Len(s)))
  <1> DEFINE n == Len(s)
             f == Ed!FlattenSeq(s)
             a == Ed!SkipLines(f, h - 1)
             rest == SubSeq(f, a + 1, Len(f))
             b == Ed!SkipLines(rest, 1)
             u == SubSeq(s, 1, h - 1)
             v == SubSeq(s, (h - 1) + 1, Len(s))
             w == SubSeq(v, 1 + 1, Len(v))
             x == SubSeq(v, 1, 1)
  <1>0. /\ s \in Seq(Seq(A)) /\ n \in Nat /\ h - 1 \in 0 .. n /\ h - 1 \in Nat
        /\ h - 1 <= n /\ (h - 1) + 1 = h /\ <<>> \in Seq(A)
    BY DEF Texts
  <1>1. /\ u \in Texts(A) /\ v \in Texts(A) /\ WellFormed(v) /\ Len(v) = n - (h - 1)
        /\ f = Ed!FlattenSeq(u) \o Ed!FlattenSeq(v)
    BY <1>0, WellFormedParts
  <1>2. a = Len(Ed!FlattenSeq(u))
    BY <1>0, SkipFacts
  <1>3. Ed!FlattenSeq(u) \in Seq(A) /\ Ed!FlattenSeq(v) \in Seq(A)
    BY <1>0, <1>1, FlatFacts
  <1> HIDE DEF f, a, u, v
  <1>4. SubSeq(f, 1, a) = Ed!FlattenSeq(u) /\ rest = Ed!FlattenSeq(v)
    BY <1>1, <1>2, <1>3, TwoParts
  <1> HIDE DEF rest
  <1>5. /\ Len(v) \in Nat \ {0} /\ 1 \in 0 .. Len(v) /\ 1 <= Len(v) /\ v \in Seq(Seq(A))
        /\ Len(v) = (n - h) + 1
    BY <1>0, <1>1 DEF Texts
  <1>6. /\ x \in Texts(A) /\ w \in Texts(A)
        /\ Ed!FlattenSeq(v) = Ed!FlattenSeq(x) \o Ed!FlattenSeq(w)
    BY <1>1, <1>5, WellFormedParts
  <1>7. b = Len(Ed!FlattenSeq(x))
    BY <1>1, <1>4, <1>5, SkipFacts
  <1> HIDE DEF b, x, w
  <1>8. Ed!FlattenSeq(x) \in Seq(A) /\ Ed!FlattenSeq(w) \in Seq(A)
    BY <1>0, <1>6, FlatFacts
  <1>9. SubSeq(rest, b + 1, Len(rest)) = Ed!FlattenSeq(w)
    BY <1>4, <1>6, <1>7, <1>8, TwoParts
  <1>10. w = SubSeq(s, h + 1, n)
    <2>1. 1 \in Nat /\ (h - 1) + Len(v) = n /\ ((h - 1) + 1) + 1 = h + 1 /\ Len(v) \in Nat
      BY <1>0, <1>5
    <2>2. SubSeq(SubSeq(s, (h - 1) + 1, Len(s)), 1 + 1, Len(v))
             = SubSeq(s, ((h - 1) + 1) + 1, (h - 1) + Len(v))
      BY <1>0, <1>5, <2>1, CutTwice DEF n
    <2> QED BY <2>1, <2>2 DEF w, v, n
  <1>11. Ed!FlattenSeq(u \o w) = Ed!FlattenSeq(u) \o Ed!FlattenSeq(w)
    BY <1>1, <1>6, FlatJoin
  <1> QED BY <1>4, <1>9, <1>10, <1>11 DEF f, a, rest, b, u, n

LEMMA DeletedFacts ==
    ASSUME NEW A, NEW f \in Seq(A), NEW k \in Int, ~Ed!NotInFile(f, k)
    PROVE  /\ k <= Len(Ed!Lines(f)) =>
                /\ IF k < 1 THEN 1 \in 1 .. Len(Ed!Lines(f)) ELSE k \in 1 .. Len(Ed!Lines(f))
                /\ Ed!Deleted(f, k)
                     = Ed!FlattenSeq(Ed!RemoveAt(Ed!Lines(f), IF k < 1 THEN 1 ELSE k))
           /\ k > Len(Ed!Lines(f)) => Ed!Deleted(f, k) = f
           /\ Ed!Lines(f) # <<>> /\ Ed!Deleted(f, k) \in Seq(A)
           /\ Len(Ed!Deleted(f, k)) \in Nat
  <1> DEFINE s == Ed!Lines(f)
             n == Len(s)
             h == IF k < 1 THEN 1 ELSE k
             a == Ed!SkipLines(f, k - 1)
             rest == SubSeq(f, a + 1, Len(f))
             b == Ed!SkipLines(rest, 1)
  <1>1. s \in Texts(A) /\ WellFormed(s) /\ Ed!FlattenSeq(s) = f /\ n \in Nat
        /\ s \in Seq(Seq(A)) /\ <<>> \in Seq(A)
    BY LinesFacts DEF Texts
  <1>2. f # <<>> /\ Ed!HasLines(f, k - 1)
    BY DEF Ed!NotInFile, Ed!LinesBefore
  <1>3. s # <<>> /\ n # 0
    BY <1>1, <1>2, FlatEmpty
  <1>4. Ed!Deleted(f, k) = SubSeq(f, 1, a) \o SubSeq(rest, b + 1, Len(rest))
    BY DEF Ed!Deleted, Ed!LinesBefore
  <1>5. a = Ed!SkipLines(f, h - 1)
    <2>1. CASE k < 1
      <3>1. k - 1 <= 0 /\ h - 1 <= 0
        BY <2>1
      <3> QED BY <3>1 DEF Ed!SkipLines
    <2>2. CASE ~(k < 1)
      BY <2>2
    <2> QED BY <2>1, <2>2
  <1>6. h \in Nat \ {0} /\ (k <= n => h \in 1 .. n)
    BY <1>1, <1>3
  <1>7. CASE k <= n
    <2>1. Ed!Deleted(f, k) = Ed!FlattenSeq(SubSeq(s, 1, h - 1) \o SubSeq(s, h + 1, Len(s)))
      BY <1>1, <1>4, <1>5, <1>6, <1>7, OneLineOut
    <2>2. Ed!Deleted(f, k) = Ed!FlattenSeq(Ed!RemoveAt(s, h))
      BY <2>1 DEF Ed!RemoveAt
    <2>3. SubSeq(s, 1, h - 1) \o SubSeq(s, h + 1, Len(s)) \in Texts(A)
      <3>1. /\ h - 1 \in 0 .. n /\ h \in Nat /\ h <= n /\ n \in Nat
        BY <1>1, <1>6, <1>7
      <3>2. SubSeq(s, 1, h - 1) \in Seq(Seq(A)) /\ SubSeq(s, h + 1, n) \in Seq(Seq(A))
        BY <1>1, <3>1, PrefixFacts, CutFacts
      <3> QED BY <3>2, JoinFacts DEF Texts
    <2>4. Ed!Deleted(f, k) \in Seq(A)
      BY <1>1, <2>1, <2>3, FlatFacts
    <2>5. Len(Ed!Deleted(f, k)) \in Nat
      BY <2>4
    <2>6. ~(k > n)
      BY <1>1, <1>7
    <2> HIDE DEF s, n, h
    <2> QED BY <1>3, <1>6, <1>7, <2>2, <2>4, <2>5, <2>6 DEF s, n, h
  <1>8. CASE k > n
    <2>0. k - 1 \in Nat /\ k - 1 >= n /\ ~(k <= n)
      BY <1>1, <1>8
    <2>1. k - 1 = n
      <3>1. ~(k - 1 > n)
        BY <1>1, <1>2, <2>0, SkipFacts
      <3> QED BY <1>1, <2>0, <3>1
    <2>2. a = Len(f)
      <3>1. SubSeq(s, 1, k - 1) = s
        BY <1>1, <2>1, Prefix
      <3>2. k - 1 <= n
        BY <2>0, <2>1
      <3> QED BY <1>1, <2>0, <3>1, <3>2, SkipFacts
    <2>3. rest = <<>>
      BY <2>2, Prefix
    <2>4. b = 0
      <3>1. ~Ed!HasLines(<<>>, 1)
        <4>1. NewlinesIn(<<>>, 0) = {} /\ Len(<<>>) = 0
          BY DEF NewlinesIn
        <4>2. Ed!Newlines(<<>>, 0) = 0
          BY <4>1, NewlinesFacts, FS_EmptySet
        <4> QED BY <4>1, <4>2 DEF Ed!HasLines
      <3>2. Ed!SkipLines(<<>>, 1) = 0
        BY <3>1 DEF Ed!SkipLines
      <3> QED BY <2>3, <3>2
    <2>5. SubSeq(rest, b + 1, Len(rest)) = <<>>
      BY <2>3, <2>4
    <2>6. SubSeq(f, 1, a) = f
      BY <2>2, Prefix
    <2>7. Ed!Deleted(f, k) = f
      BY <1>4, <2>5, <2>6, JoinFacts, <<>> \in Seq(A)
    <2>8. Len(f) \in Nat
      OBVIOUS
    <2> HIDE DEF s, n
    <2> QED BY <1>3, <2>0, <2>7, <2>8 DEF s, n
  <1>9. k <= n \/ k > n
    BY <1>1
  <1> QED BY <1>7, <1>8, <1>9

-----------------------------------------------------------------------------
(* Editor: the invariant.                                                  *)

Char == Chars \cup {Ed!NL}
TextIn(s) == s \in Seq(Char)

\* The last command as delete_line understands it, and what it makes of the file.
Meant == IF Ed!BelowOne THEN [op |-> "delete", no |-> 1] ELSE cmd
Wanted == Ed!FlattenSeq(Ed!Applied(Meant, Ed!Lines(old)))
\* The new text written over the old one.
Doubled == Wanted \o SubSeq(old, Len(Wanted) + 1, Len(old))

(* Between two commands the file is what it should be; before ftruncate,  *)
(* and after a kill, it is the new text over the old one.                  *)
EditInv == /\ TextIn(text) /\ TextIn(old)
           /\ epc \in {"command", "truncate", "ended"}
           /\ epc # "truncate" => text = Ed!Left(Meant)
           /\ epc = "truncate" => /\ text = Doubled /\ cut = FALSE
                                  /\ keep \in 0 .. Len(text)
                                  /\ SubSeq(text, 1, keep) = Wanted

\* Ed!Left in terms of the two texts.
LEMMA LeftIs == Ed!Left(Meant) = IF cut THEN Doubled ELSE Wanted
  BY DEF Ed!Left, Doubled, Wanted

\* A deletion of a number below 1 is understood as one of the first line.
LEMMA MeantDelete ==
    ASSUME NEW k \in Int, cmd' = [op |-> "delete", no |-> k]
    PROVE  Meant' = [op |-> "delete", no |-> IF k < 1 THEN 1 ELSE k]
  <1>1. cmd'.op = "delete" /\ cmd'.no = k
    OBVIOUS
  <1> QED BY <1>1 DEF Meant, Ed!BelowOne

LEMMA TextSeq ==
    ASSUME NEW n \in Nat, NEW s \in Ed!Text(n)
    PROVE  TextIn(s)
  <1>1. PICK k \in 0 .. n : s \in [1 .. k -> Char]
    BY DEF Ed!Text, Char
  <1>2. k \in Nat
    OBVIOUS
  <1> QED BY <1>1, <1>2 DEF TextIn

LEMMA FlatLines == ASSUME NEW f, TextIn(f) PROVE Ed!FlattenSeq(Ed!Lines(f)) = f
  BY LinesFacts DEF TextIn

LEMMA EditInit == LabInit => EditInv
  <1> SUFFICES ASSUME LabInit PROVE EditInv
    OBVIOUS
  <1>1. TextIn(text) /\ old = text /\ epc = "command" /\ cmd = Ed!None
    BY TextSeq, BoundAssumption DEF LabInit, Ed!Init
  <1>2. cut = FALSE /\ Wanted = Ed!FlattenSeq(Ed!Lines(old))
    BY <1>1 DEF LabInit, Ed!Init, Wanted, Meant, Ed!BelowOne, Ed!Applied, Ed!None
  <1> QED BY <1>1, <1>2, FlatLines, LeftIs DEF EditInv

\* A deletion writes the new text over the old one.
LEMMA Overwritten ==
    ASSUME NEW A, NEW s \in Seq(A), NEW t \in Seq(A)
    PROVE  LET w == s \o SubSeq(t, Len(s) + 1, Len(t))
           IN  w \in Seq(A) /\ Len(s) \in 0 .. Len(w) /\ SubSeq(w, 1, Len(s)) = s
  <1> DEFINE r == SubSeq(t, Len(s) + 1, Len(t))
  <1>1. r \in Seq(A) /\ Len(s) \in Nat /\ Len(r) \in Nat
    OBVIOUS
  <1> HIDE DEF r
  <1>2. s \o r \in Seq(A) /\ Len(s \o r) = Len(s) + Len(r) /\ SubSeq(s \o r, 1, Len(s)) = s
    BY <1>1, JoinFacts, TwoParts
  <1>3. Len(s) \in 0 .. Len(s \o r)
    BY <1>1, <1>2
  <1> QED BY <1>2, <1>3 DEF r

LEMMA AppendLineInv ==
    ASSUME EditInv, NEW s \in Ed!InputLine(2), Ed!AppendLine(s)
    PROVE  EditInv'
  <1>1. TextIn(s)
    BY TextSeq DEF Ed!InputLine
  <1>2. /\ text' = text \o s /\ old' = text /\ epc' = "command" /\ epc = "command"
        /\ cmd' = [op |-> "append", line |-> s] /\ cut' = FALSE /\ TextIn(text)
    BY DEF Ed!AppendLine, EditInv
  <1>3. Wanted' = Ed!FlattenSeq(Ed!Lines(text) \o <<s>>)
    BY <1>2 DEF Wanted, Meant, Ed!BelowOne, Ed!Applied
  <1>4. Ed!Lines(text) \in Texts(Char) /\ Ed!FlattenSeq(Ed!Lines(text)) = text
    BY <1>2, LinesFacts DEF TextIn
  <1>5. <<s>> \in Texts(Char) /\ Ed!FlattenSeq(<<s>>) = s
    BY <1>1, FlatSingle DEF TextIn
  <1>6. Wanted' = text \o s
    BY <1>3, <1>4, <1>5, FlatJoin
  <1>7. TextIn(text \o s)
    BY <1>1, <1>2, JoinFacts DEF TextIn
  <1>8. Ed!Left(Meant)' = Wanted'
    BY <1>2 DEF Ed!Left, Wanted
  <1> QED BY <1>2, <1>6, <1>7, <1>8 DEF EditInv

\* A deletion takes out one of the lines there are.
LEMMA WantedDelete ==
    ASSUME NEW k \in Int, NEW f, Len(Ed!Lines(f)) \in Nat,
           Ed!Lines(f) = <<>> <=> Len(Ed!Lines(f)) = 0,
           old' = f, Meant' = [op |-> "delete", no |-> IF k < 1 THEN 1 ELSE k]
    PROVE  LET s == Ed!Lines(f)
           IN  Wanted' = Ed!FlattenSeq(IF s # <<>> /\ k <= Len(s)
                                         THEN Ed!RemoveAt(s, IF k < 1 THEN 1 ELSE k) ELSE s)
  <1> DEFINE s == Ed!Lines(f)
             m == IF k < 1 THEN 1 ELSE k
  <1>1. Wanted' = Ed!FlattenSeq(Ed!Applied(Meant', s))
    BY DEF Wanted
  <1>2. Meant'.op = "delete" /\ Meant'.no = m
    OBVIOUS
  <1>3. m \in 1 .. Len(s) <=> s # <<>> /\ k <= Len(s)
    <2> HIDE DEF s
    <2> QED OBVIOUS
  <1>4. Ed!Applied(Meant', s) = IF s # <<>> /\ k <= Len(s) THEN Ed!RemoveAt(s, m) ELSE s
    BY <1>2, <1>3 DEF Ed!Applied
  <1> QED BY <1>1, <1>4

LEMMA DeleteLineInv ==
    ASSUME EditInv, NEW k \in -1 .. MaxLineNo, Ed!DeleteLine(k)
    PROVE  EditInv'
  <1> DEFINE new == Ed!Deleted(text, k)
             s == Ed!Lines(text)
  <1>1. /\ text' = new \o SubSeq(text, Len(new) + 1, Len(text)) /\ old' = text
        /\ keep' = Len(new) /\ epc' = "truncate" /\ TextIn(text)
        /\ cmd' = [op |-> "delete", no |-> k] /\ cut' = FALSE /\ ~Ed!NotInFile(text, k)
    BY DEF Ed!DeleteLine, EditInv
  <1>2. k \in Int
    BY BoundAssumption
  <1>3. /\ k <= Len(s) => new = Ed!FlattenSeq(Ed!RemoveAt(s, IF k < 1 THEN 1 ELSE k))
        /\ k > Len(s) => new = text
        /\ s # <<>> /\ new \in Seq(Char)
    BY <1>1, <1>2, DeletedFacts DEF TextIn
  <1>4. Len(s) \in Nat /\ Ed!FlattenSeq(s) = text
    BY <1>1, LinesFacts DEF TextIn, Texts
  <1>5. Wanted' = Ed!FlattenSeq(IF s # <<>> /\ k <= Len(s)
                                  THEN Ed!RemoveAt(s, IF k < 1 THEN 1 ELSE k) ELSE s)
    BY <1>1, <1>2, <1>3, <1>4, MeantDelete, WantedDelete
  <1> HIDE DEF new, s
  <1>6. Wanted' = new
    <2>1. k <= Len(s) \/ k > Len(s)
      BY <1>2, <1>4
    <2>2. k > Len(s) => ~(k <= Len(s))
      BY <1>2, <1>4
    <2> QED BY <1>3, <1>4, <1>5, <2>1, <2>2
  <1>7. TextIn(text') /\ keep' \in 0 .. Len(text') /\ SubSeq(text', 1, keep') = new
    BY <1>1, <1>3, Overwritten DEF TextIn
  <1>8. text' = Doubled'
    BY <1>1, <1>6 DEF Doubled
  <1> QED BY <1>1, <1>6, <1>7, <1>8 DEF EditInv

LEMMA NoSuchLineInv ==
    ASSUME EditInv, NEW k \in -1 .. MaxLineNo, Ed!NoSuchLine(k)
    PROVE  EditInv'
  <1> DEFINE s == Ed!Lines(text)
  <1>1. /\ text' = text /\ old' = text /\ epc' = "command" /\ TextIn(text)
        /\ cmd' = [op |-> "delete", no |-> k] /\ cut' = FALSE /\ Ed!NotInFile(text, k)
    BY DEF Ed!NoSuchLine, EditInv
  <1>2. k \in Int
    BY BoundAssumption
  <1>3. /\ s \in Texts(Char) /\ WellFormed(s) /\ Ed!FlattenSeq(s) = text
        /\ Len(s) \in Nat /\ s \in Seq(Seq(Char))
    BY <1>1, LinesFacts DEF TextIn, Texts
  <1>4. Wanted' = Ed!FlattenSeq(IF s # <<>> /\ k <= Len(s)
                                  THEN Ed!RemoveAt(s, IF k < 1 THEN 1 ELSE k) ELSE s)
    BY <1>1, <1>2, <1>3, MeantDelete, WantedDelete
  <1> HIDE DEF s
  <1>5. s = <<>> \/ k > Len(s)
    <2>1. CASE text = <<>>
      BY <2>1, LinesEmpty DEF s
    <2>2. CASE ~Ed!HasLines(text, k - 1)
      <3> SUFFICES ASSUME ~(k > Len(s)) PROVE s = <<>>
        OBVIOUS
      <3>1. CASE k >= 1
        <4>1. k - 1 \in Nat /\ k - 1 < Len(s)
          BY <1>2, <1>3, <3>1
        <4>2. Ed!HasLines(text, k - 1)
          BY <1>3, <4>1, SkipFacts
        <4> QED BY <2>2, <4>2
      <3>2. CASE ~(k >= 1)
        <4>1. Len(text) \in Nat
          BY <1>1 DEF TextIn
        <4>2. Ed!Newlines(text, Len(text)) \in Nat
          BY <4>1, NewlinesFacts
        <4>3. Ed!HasLines(text, k - 1)
          BY <1>2, <3>2, <4>2 DEF Ed!HasLines
        <4> QED BY <2>2, <4>3
      <3> QED BY <3>1, <3>2
    <2> QED BY <1>1, <2>1, <2>2 DEF Ed!NotInFile, Ed!LinesBefore
  <1>6. Wanted' = text
    <2>1. k > Len(s) => ~(k <= Len(s))
      BY <1>2, <1>3
    <2> QED BY <1>3, <1>4, <1>5, <2>1
  <1>7. Ed!Left(Meant)' = Wanted'
    BY <1>1 DEF Ed!Left, Wanted
  <1> QED BY <1>1, <1>6, <1>7 DEF EditInv

\* The invariant speaks of these variables.
LEMMA EditSame ==
    ASSUME UNCHANGED <<old, cmd>>
    PROVE  Wanted' = Wanted /\ Doubled' = Doubled /\ Meant' = Meant
  <1>1. Meant' = Meant
    BY DEF Meant, Ed!BelowOne
  <1>2. Wanted' = Wanted
    BY <1>1 DEF Wanted
  <1> QED BY <1>1, <1>2 DEF Doubled

LEMMA EditStep == ASSUME EditInv, [LabNext]_labVars PROVE EditInv'
  <1>1. CASE UNCHANGED editorVars
    <2>1. UNCHANGED <<epc, text, keep, cmd, old, cut>>
      BY <1>1 DEF editorVars
    <2>2. Ed!Left(Meant)' = Ed!Left(Meant)
      BY <2>1, EditSame DEF Ed!Left
    <2> QED BY <2>1, <2>2, EditSame DEF EditInv, TextIn
  <1>2. CASE Ed!Truncate
    <2>1. /\ text' = SubSeq(text, 1, keep) /\ UNCHANGED <<cmd, old, cut>> /\ epc' = "command"
          /\ keep \in 0 .. Len(text) /\ SubSeq(text, 1, keep) = Wanted /\ cut = FALSE
      BY <1>2 DEF Ed!Truncate, EditInv
    <2>2. Wanted' = Wanted
      BY <2>1, EditSame
    <2>3. Ed!Left(Meant)' = Wanted'
      BY <2>1 DEF Ed!Left, Wanted
    <2>4. TextIn(text')
      BY <2>1, PrefixFacts DEF TextIn, EditInv
    <2> QED BY <2>1, <2>2, <2>3, <2>4 DEF EditInv, TextIn
  <1>3. CASE Ed!Quit \/ Ed!Restart
    <2>1. /\ UNCHANGED <<text, keep, cmd, old, cut>> /\ epc # "truncate"
          /\ epc' \in {"command", "ended"}
      BY <1>3 DEF Ed!Quit, Ed!Restart
    <2>2. Ed!Left(Meant)' = Ed!Left(Meant)
      BY <2>1, EditSame DEF Ed!Left
    <2> QED BY <2>1, <2>2 DEF EditInv, TextIn
  <1>4. CASE Ed!Killed
    <2>1. /\ UNCHANGED <<text, cmd, old>> /\ cut' = TRUE /\ epc = "truncate"
          /\ epc' = "ended"
      BY <1>4 DEF Ed!Killed
    <2>2. Ed!Left(Meant)' = Doubled'
      BY <2>1 DEF Ed!Left, Doubled, Wanted
    <2> QED BY <2>1, <2>2, EditSame DEF EditInv, TextIn
  <1>5. CASE \E s \in Ed!InputLine(2) : Ed!AppendLine(s)
    BY <1>5, AppendLineInv
  <1>6. CASE \E k \in -1 .. MaxLineNo : Ed!DeleteLine(k) \/ Ed!NoSuchLine(k)
    BY <1>6, DeleteLineInv, NoSuchLineInv
  <1>7. Ed!Next \/ UNCHANGED editorVars
    BY DEF LabNext, Counter, Editor, Venv, labVars
  <1> QED BY <1>1, <1>2, <1>3, <1>4, <1>5, <1>6, <1>7 DEF Ed!Next

\* What read_limits cuts out of a text of lines.
LEMMA LimitsFacts ==
    ASSUME NEW A, NEW f \in Seq(A), NEW l \in Int, NEW r \in Int,
           Ed!ReadLimits(f, l, r).ok, l <= Len(Ed!Lines(f))
    PROVE  LET s == Ed!Lines(f)
               last == IF r = -1 \/ r > Len(s) THEN Len(s) ELSE r
           IN  Ed!ReadLimits(f, l, r).text = Ed!FlattenSeq(SubSeq(s, l, last))
  <1> DEFINE s == Ed!Lines(f)
             n == Len(s)
             last == IF r = -1 \/ r > n THEN n ELSE r
             a == Ed!SkipLines(f, l - 1)
             rest == SubSeq(f, a + 1, Len(f))
             b == IF r = -1 THEN Len(rest) ELSE Ed!SkipLines(rest, r - l + 1)
             u == SubSeq(s, 1, l - 1)
             v == SubSeq(s, (l - 1) + 1, Len(s))
  <1>1. ~(l < 1 \/ (r # -1 /\ r < l))
    BY DEF Ed!ReadLimits, Ed!Invalid
  <1>2. Ed!ReadLimits(f, l, r).text = SubSeq(rest, 1, b)
    BY DEF Ed!ReadLimits, Ed!Invalid
  <1>3. /\ s \in Texts(A) /\ WellFormed(s) /\ Ed!FlattenSeq(s) = f /\ n \in Nat
        /\ s \in Seq(Seq(A)) /\ <<>> \in Seq(A)
    BY LinesFacts DEF Texts
  <1>4. l - 1 \in 0 .. n /\ l - 1 \in Nat /\ l - 1 <= n /\ (l - 1) + 1 = l /\ l <= n /\ l >= 1
    BY <1>1, <1>3
  <1> HIDE DEF s
  <1>5. /\ u \in Texts(A) /\ v \in Texts(A) /\ WellFormed(v) /\ Len(v) = n - (l - 1)
        /\ f = Ed!FlattenSeq(u) \o Ed!FlattenSeq(v)
    BY <1>3, <1>4, WellFormedParts
  <1>6. a = Len(Ed!FlattenSeq(u))
    BY <1>3, <1>4, SkipFacts
  <1>7. Ed!FlattenSeq(u) \in Seq(A) /\ Ed!FlattenSeq(v) \in Seq(A) /\ v \in Seq(Seq(A))
    BY <1>3, <1>5, FlatFacts DEF Texts
  <1> HIDE DEF a, u, v
  <1>8. rest = Ed!FlattenSeq(v)
    BY <1>5, <1>6, <1>7, TwoParts
  <1> HIDE DEF rest
  <1>9. rest \in Seq(A)
    BY <1>7, <1>8
  <1>10. CASE r = -1 \/ r > n
    <2>1. b = Len(rest)
      <3>1. CASE r = -1
        BY <3>1
      <3>2. CASE r # -1 /\ r > n
        <4>1. r - l + 1 \in Nat /\ r - l + 1 > Len(v)
          BY <1>3, <1>4, <1>5, <3>2
        <4> QED BY <1>5, <1>8, <3>2, <4>1, SkipFacts
      <3> QED BY <1>10, <3>1, <3>2
    <2>2. SubSeq(rest, 1, b) = rest
      BY <1>9, <2>1, Prefix
    <2>3. v = SubSeq(s, l, last)
      BY <1>4, <1>10 DEF v
    <2> QED BY <1>2, <1>8, <2>2, <2>3 DEF s
  <1>11. CASE ~(r = -1 \/ r > n)
    <2> DEFINE m == r - l + 1
               x == SubSeq(v, 1, m)
               y == SubSeq(v, m + 1, Len(v))
    <2>1. m \in Nat /\ m \in 0 .. Len(v) /\ m <= Len(v) /\ (l - 1) + m = r /\ last = r
      BY <1>1, <1>3, <1>4, <1>5, <1>11
    <2>2. /\ x \in Texts(A) /\ y \in Texts(A)
          /\ Ed!FlattenSeq(v) = Ed!FlattenSeq(x) \o Ed!FlattenSeq(y)
      BY <1>5, <2>1, WellFormedParts
    <2>3. b = Ed!SkipLines(rest, m)
      BY <1>11
    <2>4. Ed!SkipLines(rest, m) = Len(Ed!FlattenSeq(x))
      BY <1>5, <1>8, <2>1, SkipFacts
    <2> HIDE DEF b, m, x, y, last
    <2>5. Ed!FlattenSeq(x) \in Seq(A) /\ Ed!FlattenSeq(y) \in Seq(A)
      BY <1>3, <2>2, FlatFacts
    <2>6. SubSeq(rest, 1, b) = Ed!FlattenSeq(x)
      BY <1>8, <2>2, <2>3, <2>4, <2>5, TwoParts
    <2>7. x = SubSeq(s, l, r)
      <3>1. 0 \in Nat /\ 0 <= m /\ (l - 1) + m <= Len(s) /\ 0 + 1 = 1
            /\ ((l - 1) + 0) + 1 = l
        BY <1>1, <1>3, <1>4, <1>11, <2>1
      <3>2. SubSeq(SubSeq(s, (l - 1) + 1, Len(s)), 0 + 1, m)
               = SubSeq(s, ((l - 1) + 0) + 1, (l - 1) + m)
        BY <1>3, <1>4, <2>1, <3>1, CutTwice
      <3> QED BY <2>1, <3>1, <3>2 DEF x, v
    <2>8. Ed!ReadLimits(f, l, r).text = Ed!FlattenSeq(SubSeq(s, l, last))
      BY <1>2, <2>1, <2>6, <2>7
    <2> QED BY <2>8 DEF last, s
  <1> QED BY <1>10, <1>11

(* For every text, however its last line ends, a command of sop-ed.c does  *)
(* to the lines of the file what the comment at line 152 says, except that *)
(* a number below 1 deletes the first line; a kill between write and       *)
(* ftruncate leaves the end of the old text behind the new one and loses   *)
(* nothing; and read_limits prints the lines asked for.                    *)
THEOREM LinesEdited == LabSpec => []EditsLines
  <1>1. LabInit => EditInv
    BY EditInit
  <1>2. EditInv /\ [LabNext]_labVars => EditInv'
    BY EditStep
  <1>3. EditInv => EditsLines
    <2> SUFFICES ASSUME EditInv, epc = "command" PROVE EditsLines
      BY DEF EditsLines, Ed!EditsLines
    <2>1. TextIn(text) /\ text = Ed!Left(Meant)
      BY DEF EditInv
    <2>2. ASSUME NEW l \in -1 .. MaxLineNo, NEW r \in -1 .. MaxLineNo,
                 Ed!ReadLimits(text, l, r).ok, l <= Len(Ed!Lines(text))
          PROVE  LET s == Ed!Lines(text)
                     last == IF r = -1 \/ r > Len(s) THEN Len(s) ELSE r
                 IN  Ed!ReadLimits(text, l, r).text = Ed!FlattenSeq(SubSeq(s, l, last))
      <3>1. l \in Int /\ r \in Int
        BY BoundAssumption
      <3> QED BY <2>1, <2>2, <3>1, LimitsFacts DEF TextIn
    <2> QED BY <2>1, <2>2, Zenon DEF EditsLines, Ed!EditsLines, Meant
  <1> QED BY <1>1, <1>2, <1>3, PTL DEF LabSpec

-----------------------------------------------------------------------------
(* Venv: the invariant.                                                    *)

Token == Pkgs \cup {Ve!SP, Version, Ve!NL}

\* Lines that begin with different names, each followed by a space or cut off.
Named(s) == \A j \in 1 .. Len(s) :
               /\ s[j][1] \in Pkgs /\ (Len(s[j]) >= 2 => s[j][2] = Ve!SP)
               /\ \A k \in 1 .. Len(s) : j # k => s[j][1] # s[k][1]

\* The last line has more than a name.
LongEnd(f) == Len(Ed!Lines(f)[Len(Ed!Lines(f))]) >= 2

\* The content of "requirements" for a list of packages.
LinesFor(q) == [j \in DOMAIN q |-> Ve!LineOf(q[j])]
Body(q) == Ed!FlattenSeq(LinesFor(q))

\* A function of main that the command line asks for.
Due(p, a) == \/ p = "mkdir" /\ a.create
             \/ p = "check" /\ a.install # Ve!None
             \/ p = "load" /\ a.remove # Ve!None

\* The function that the step vpc belongs to.
Caller == IF vpc = "open" THEN "mkdir"
          ELSE IF vpc \in {"write", "file"} THEN "check"
          ELSE IF vpc = "flush" THEN "load" ELSE vpc

ControlInv == \/ vpc = "idle"
              \/ /\ vpc \in {"mkdir", "open", "check", "write", "file", "load", "flush"}
                 /\ env \in Seq(Envs) /\ env # <<>>
                 /\ args \in Ve!Args /\ Due(Caller, args)

DiskInv == /\ req \in [Envs -> Seq(Token)] /\ list \in [Envs -> Seq(Pkgs)]
           /\ dirs \subseteq Envs /\ files \in [Envs -> SUBSET Pkgs]
           /\ \A e \in Envs : \A j \in 1 .. Len(list[e]) : list[e][j] \in files[e]
           /\ \A e \in dirs \ torn : e \in has \/ (vpc = "open" /\ e = Ve!E)

\* No file ever names a package on two lines, not even a torn one.
NamesInv == /\ \A e \in Envs : Named(Ed!Lines(req[e]))
            /\ vpc = "flush" => out \in Seq(Token) /\ Named(Ed!Lines(out))

\* write_line: what is left of the line, and what has become of the file.
WriteInv ==
    vpc = "write" =>
        /\ Len(out) \in 1 .. 4 /\ out = SubSeq(Ve!LineOf(args.install), 5 - Len(out), 4)
        /\ Len(out) = 4 => /\ Ve!Readable("check", req[Ve!E])
                           /\ Ve!Free(req[Ve!E], args.install)
        /\ Len(out) < 4 => ~Whole(req[Ve!E])
        /\ Len(out) < 3 => LongEnd(req[Ve!E])

\* What the file of an environment without a torn line contains.
Expected(e) == IF vpc \notin {"write", "file", "flush"} \/ e # Ve!E THEN Body(list[e])
               ELSE IF vpc = "flush" THEN <<>>
               ELSE Body(list[e]) \o SubSeq(Ve!LineOf(args.install), 1,
                                            IF vpc = "file" THEN 4 ELSE 4 - Len(out))

ListInv == /\ \A e \in Envs \ torn : req[e] = Expected(e)
           /\ vpc = "flush" /\ Ve!E \notin torn =>
                out = Body(Ve!RemoveFirst(list[Ve!E], args.remove))

VenvInv == ControlInv /\ DiskInv /\ NamesInv /\ WriteInv /\ ListInv

LEMMA Tokens == /\ Ve!SP \notin Pkgs /\ Ve!NL \notin Pkgs /\ Version # Ve!NL
                /\ Ve!SP # Ve!NL /\ Ve!NL = Ed!NL
  BY TokenAssumption DEF Ve!SP, Ve!NL, Ed!NL

\* The two modules mean the same by a line and by joining texts.
LEMMA SameLines ==
    /\ \A f : Ve!Lines(f) = Ed!Lines(f)
    /\ \A s : Ve!FlattenSeq(s) = Ed!FlattenSeq(s)
  <1>1. \A S, j : Ve!Nth(S, j) = Ed!Nth(S, j)
    BY Zenon DEF Ve!Nth, Ed!Nth, Ve!Cardinality, Ed!Cardinality
  <1>2. \A S : Ve!Cardinality(S) = Ed!Cardinality(S)
    BY Zenon DEF Ve!Cardinality, Ed!Cardinality
  <1>3. \A f : Ve!Lines(f) = Ed!Lines(f)
    BY <1>1, <1>2, Tokens, Zenon DEF Ve!Lines, Ed!Lines
  <1>4. \A s : Ve!FlattenSeq(s) = Ed!FlattenSeq(s)
    BY Zenon DEF Ve!FlattenSeq, Ed!FlattenSeq
  <1> QED BY <1>3, <1>4

LEMMA LineOfFacts ==
    ASSUME NEW q \in Pkgs
    PROVE  /\ Ve!LineOf(q) \in Seq(Token) /\ Len(Ve!LineOf(q)) = 4
           /\ Ve!LineOf(q)[1] = q /\ Ve!LineOf(q)[2] = Ve!SP
           /\ Ve!LineOf(q)[3] = Version /\ Ve!LineOf(q)[4] = Ed!NL
           /\ IsLine(Ve!LineOf(q)) /\ Whole(Ve!LineOf(q))
  <1> DEFINE l == Ve!LineOf(q)
  <1>1. l \in Seq(Token)
    BY DEF Ve!LineOf, Token
  <1>2. /\ Len(l) = 4 /\ l[1] = q /\ l[2] = Ve!SP /\ l[3] = Version /\ l[4] = Ed!NL
        /\ l # <<>>
    BY Tokens DEF Ve!LineOf
  <1> HIDE DEF l
  <1>3. \A i \in 1 .. Len(l) - 1 : i = 1 \/ i = 2 \/ i = 3
    BY <1>2
  <1>4. IsLine(l) /\ Whole(l)
    BY <1>2, <1>3, Tokens DEF IsLine, Whole
  <1> QED BY <1>1, <1>2, <1>4 DEF l

LEMMA LinesForFacts ==
    ASSUME NEW q \in Seq(Pkgs)
    PROVE  /\ LinesFor(q) \in Texts(Token) /\ Len(LinesFor(q)) = Len(q)
           /\ \A j \in 1 .. Len(q) : LinesFor(q)[j] = Ve!LineOf(q[j])
           /\ WellFormed(LinesFor(q)) /\ AllWhole(LinesFor(q))
           /\ Body(q) \in Seq(Token) /\ Ed!Lines(Body(q)) = LinesFor(q) /\ Whole(Body(q))
  <1> DEFINE s == LinesFor(q)
  <1>1. \A j \in 1 .. Len(q) : q[j] \in Pkgs
    OBVIOUS
  <1>2. Len(q) \in Nat /\ s = [j \in 1 .. Len(q) |-> Ve!LineOf(q[j])]
    BY DEF LinesFor
  <1>3. \A j \in 1 .. Len(q) : s[j] = Ve!LineOf(q[j])
    BY <1>2
  <1>4. \A j \in 1 .. Len(q) : s[j] \in Seq(Token) /\ IsLine(s[j]) /\ Whole(s[j])
    BY <1>1, <1>3, LineOfFacts
  <1>5. s \in Seq(Seq(Token)) /\ Len(s) = Len(q)
    <2>1. s = [j \in 1 .. Len(q) |-> s[j]]
      BY <1>2
    <2> HIDE DEF s
    <2> QED BY <1>2, <1>4, <2>1
  <1> HIDE DEF s
  <1>6. WellFormed(s) /\ AllWhole(s)
    BY <1>4, <1>5 DEF WellFormed, AllWhole
  <1>7. s \in Texts(Token) /\ <<>> \in Seq(Token)
    BY <1>5 DEF Texts
  <1>8. Ed!FlattenSeq(s) \in Seq(Token) /\ Ed!Lines(Ed!FlattenSeq(s)) = s
        /\ Whole(Ed!FlattenSeq(s))
    BY <1>6, <1>7, FlatFacts, LinesOfFlat, FlatWhole
  <1> QED BY <1>3, <1>5, <1>6, <1>7, <1>8 DEF s, Body

\* A package more is a line more.
LEMMA BodyAppend ==
    ASSUME NEW q \in Seq(Pkgs), NEW p \in Pkgs
    PROVE  Append(q, p) \in Seq(Pkgs) /\ Body(Append(q, p)) = Body(q) \o Ve!LineOf(p)
  <1> DEFINE r == Append(q, p)
             n == Len(q)
  <1>1. r \in Seq(Pkgs) /\ Len(r) = n + 1 /\ n \in Nat /\ r[n + 1] = p
        /\ \A j \in 1 .. n : r[j] = q[j]
    OBVIOUS
  <1> HIDE DEF r
  <1>2. /\ LinesFor(r) \in Texts(Token) /\ Len(LinesFor(r)) = n + 1
        /\ \A j \in 1 .. n + 1 : LinesFor(r)[j] = Ve!LineOf(r[j])
    BY <1>1, LinesForFacts
  <1>3. /\ LinesFor(q) \in Texts(Token) /\ Len(LinesFor(q)) = n
        /\ \A j \in 1 .. n : LinesFor(q)[j] = Ve!LineOf(q[j])
    BY LinesForFacts
  <1>4. Ve!LineOf(p) \in Seq(Token)
    BY LineOfFacts
  <1>5. LinesFor(r) = Append(LinesFor(q), Ve!LineOf(p))
    <2> DEFINE a == LinesFor(r)
               b == LinesFor(q)
               c == Append(b, Ve!LineOf(p))
    <2> HIDE DEF a, b
    <2>1. a \in Seq(Seq(Token)) /\ Len(a) = n + 1 /\ \A j \in 1 .. n + 1 : a[j] = Ve!LineOf(r[j])
      BY <1>2 DEF a, Texts
    <2>2. b \in Seq(Seq(Token)) /\ Len(b) = n /\ \A j \in 1 .. n : b[j] = Ve!LineOf(q[j])
      BY <1>3 DEF b, Texts
    <2>3. /\ c \in Seq(Seq(Token)) /\ Len(c) = n + 1 /\ c[n + 1] = Ve!LineOf(p)
          /\ \A j \in 1 .. n : c[j] = b[j]
      BY <1>1, <1>4, <2>2
    <2> HIDE DEF c
    <2>4. ASSUME NEW j \in 1 .. n + 1 PROVE a[j] = c[j]
      <3>1. j \in 1 .. n \/ j = n + 1
        BY <1>1
      <3> QED BY <1>1, <2>1, <2>2, <2>3, <3>1
    <2>5. a = c
      BY <2>1, <2>3, <2>4, SameElements
    <2> QED BY <2>5 DEF a, b, c
  <1>6. Ed!FlattenSeq(LinesFor(r)) = Ed!FlattenSeq(LinesFor(q)) \o Ve!LineOf(p)
    BY <1>3, <1>4, <1>5, FlatFacts
  <1> QED BY <1>1, <1>6 DEF r, Body

LEMMA FirstOnly ==
    ASSUME NEW A, NEW l \in Seq(A), l # <<>>
    PROVE  SubSeq(l, 1, 1) = <<l[1]>>
  <1> DEFINE a == SubSeq(l, 1, 1)
             b == <<l[1]>>
  <1>1. 1 \in 0 .. Len(l) /\ l[1] \in A
    OBVIOUS
  <1>2. a \in Seq(A) /\ Len(a) = 1 /\ \A i \in 1 .. 1 : a[i] = l[i]
    BY <1>1, PrefixFacts
  <1>3. b \in Seq(A) /\ Len(b) = 1 /\ b[1] = l[1]
    BY <1>1
  <1> HIDE DEF a, b
  <1>4. \A i \in 1 .. Len(a) : a[i] = b[i]
    BY <1>2, <1>3
  <1>5. a = b
    BY <1>2, <1>3, <1>4, SameElements
  <1> QED BY <1>5 DEF a, b

\* The name on a line: empty when the line is cut off behind the name.
LEMMA NameFacts ==
    ASSUME NEW l \in Seq(Token), l # <<>>, l[1] \in Pkgs, Len(l) >= 2 => l[2] = Ve!SP
    PROVE  /\ Len(l) >= 2 => Ve!NameIn(l) = <<l[1]>>
           /\ Len(l) < 2 => Ve!NameIn(l) = <<>> /\ ~Ve!HasSpace(l)
           /\ Ve!ReadableBy("check", l) \/ Ve!ReadableBy("load", l) => Len(l) >= 2
  <1>1. Len(l) \in Nat \ {0} /\ l[1] # Ve!SP
    BY Tokens
  <1>a. \A n \in Nat \ {0} : n < 2 => n = 1
    OBVIOUS
  <1>b. Len(l) < 2 => Len(l) = 1
    BY <1>1, <1>a, Zenon
  <1> DEFINE I == {i \in 1 .. Len(l) : l[i] = Ve!SP}
             k == Ve!SelectInSeq(l, LAMBDA t : t = Ve!SP)
  <1>2. k = IF I # {} THEN Ve!Min(I) ELSE 0
    BY DEF Ve!SelectInSeq
  <1>3. Ve!NameIn(l) = SubSeq(l, 1, k - 1)
    BY DEF Ve!NameIn
  <1>4. ASSUME Len(l) >= 2 PROVE Ve!NameIn(l) = <<l[1]>>
    <2>1. I \subseteq Int /\ 2 \in I
      BY <1>1, <1>4
    <2>2. \A i \in I : 2 <= i
      BY <1>1
    <2>3. Ve!Min(I) = Ed!Min(I)
      BY Zenon DEF Ve!Min, Ed!Min
    <2>4. Ed!Min(I) = 2
      <3> HIDE DEF I
      <3> QED BY <2>1, <2>2, MinIs
    <2>5. k = 2
      <3> HIDE DEF k
      <3> QED BY <1>2, <2>1, <2>3, <2>4
    <2> HIDE DEF k, I
    <2>6. Ve!NameIn(l) = SubSeq(l, 1, 1)
      BY <1>3, <2>5
    <2> QED BY <2>6, FirstOnly
  <1>5. ASSUME Len(l) < 2 PROVE Ve!NameIn(l) = <<>> /\ ~Ve!HasSpace(l)
    <2>1. Len(l) = 1
      BY <1>b, <1>5
    <2>2. \A i \in 1 .. 1 : i = 1
      OBVIOUS
    <2>3. I = {} /\ ~Ve!HasSpace(l)
      BY <1>1, <2>1, <2>2 DEF Ve!HasSpace
    <2>4. k = 0
      <3> HIDE DEF I, k
      <3> QED BY <1>2, <2>3
    <2> HIDE DEF k, I
    <2>5. Ve!NameIn(l) = SubSeq(l, 1, -1)
      BY <1>3, <2>4
    <2> QED BY <2>3, <2>5
  <1>6. ASSUME Len(l) < 2 PROVE ~Ve!ReadableBy("check", l) /\ ~Ve!ReadableBy("load", l)
    <2>1. Len(l) = 1
      BY <1>b, <1>6
    <2>2. Ve!Front(l) = <<>>
      BY <2>1 DEF Ve!Front
    <2>3. ~Ve!HasSpace(<<>>)
      BY DEF Ve!HasSpace
    <2> QED BY <1>5, <1>6, <2>2, <2>3 DEF Ve!ReadableBy
  <1>7. Len(l) >= 2 \/ Len(l) < 2
    BY <1>1
  <1> QED BY <1>4, <1>5, <1>6, <1>7

\* A sequence without its h-th element.
LEMMA RemovedFacts ==
    ASSUME NEW B, NEW s \in Seq(B), NEW h \in 1 .. Len(s)
    PROVE  /\ Ed!RemoveAt(s, h) \in Seq(B) /\ Len(Ed!RemoveAt(s, h)) = Len(s) - 1
           /\ \A i \in 1 .. Len(s) - 1 : Ed!RemoveAt(s, h)[i] = s[IF i < h THEN i ELSE i + 1]
  <1> DEFINE n == Len(s)
             u == SubSeq(s, 1, h - 1)
             v == SubSeq(s, h + 1, n)
  <1>1. n \in Nat /\ h - 1 \in Nat /\ h \in Nat /\ h <= n /\ h - 1 <= n /\ n <= Len(s)
    OBVIOUS
  <1>2. /\ u \in Seq(B) /\ Len(u) = h - 1 /\ \A i \in 1 .. h - 1 : u[i] = s[i]
    <2>1. h - 1 \in 0 .. Len(s)
      BY <1>1
    <2> QED BY <2>1, PrefixFacts
  <1>3. /\ v \in Seq(B) /\ Len(v) = n - h /\ \A i \in 1 .. n - h : v[i] = s[h + i]
    BY <1>1, CutFacts
  <1>4. Ed!RemoveAt(s, h) = u \o v
    BY DEF Ed!RemoveAt
  <1> HIDE DEF u, v
  <1>5. /\ u \o v \in Seq(B) /\ Len(u \o v) = Len(u) + Len(v)
        /\ \A i \in 1 .. Len(u) : (u \o v)[i] = u[i]
        /\ \A i \in 1 .. Len(v) : (u \o v)[Len(u) + i] = v[i]
    <2>1. u \in Seq(B) /\ v \in Seq(B)
      BY <1>2, <1>3
    <2> QED BY <2>1, JoinFacts
  <1> DEFINE w == u \o v
  <1> HIDE DEF w, n
  <1>6. /\ w \in Seq(B) /\ Len(w) = n - 1
    BY <1>1, <1>2, <1>3, <1>5 DEF w
  <1>7. ASSUME NEW i \in 1 .. n - 1 PROVE w[i] = s[IF i < h THEN i ELSE i + 1]
    <2>1. CASE i < h
      <3>1. i \in 1 .. h - 1
        BY <1>1, <2>1
      <3> QED BY <1>2, <1>5, <2>1, <3>1 DEF w
    <2>2. CASE ~(i < h)
      <3> DEFINE j == i - (h - 1)
      <3>1. j \in 1 .. n - h /\ i = (h - 1) + j /\ h + j = i + 1
        BY <1>1, <2>2
      <3> HIDE DEF j
      <3>2. w[i] = v[j]
        BY <1>2, <1>3, <1>5, <3>1 DEF w
      <3> QED BY <1>3, <2>2, <3>1, <3>2
    <2> QED BY <2>1, <2>2
  <1> QED BY <1>4, <1>6, <1>7 DEF w, n

\* Without one of its lines a text is a text of lines.
LEMMA WellFormedRemoved ==
    ASSUME NEW A, NEW s \in Texts(A), WellFormed(s), NEW h \in 1 .. Len(s)
    PROVE  Ed!RemoveAt(s, h) \in Texts(A) /\ WellFormed(Ed!RemoveAt(s, h))
  <1> DEFINE r == Ed!RemoveAt(s, h)
  <1>1. s \in Seq(Seq(A)) /\ Len(s) \in Nat
    BY DEF Texts
  <1>2. /\ r \in Seq(Seq(A)) /\ Len(r) = Len(s) - 1
        /\ \A i \in 1 .. Len(s) - 1 : r[i] = s[IF i < h THEN i ELSE i + 1]
    BY <1>1, RemovedFacts
  <1> HIDE DEF r
  <1>3. ASSUME NEW j \in 1 .. Len(r) PROVE IsLine(r[j]) /\ (j < Len(r) => Whole(r[j]))
    <2> DEFINE m == IF j < h THEN j ELSE j + 1
    <2>1. Len(s) \in Nat /\ Len(r) = Len(s) - 1 /\ j \in 1 .. Len(s) - 1
      BY <1>1, <1>2
    <2>2. r[j] = s[m]
      BY <1>2, <2>1
    <2>3. m \in 1 .. Len(s) /\ (j < Len(r) => m < Len(s))
      BY <2>1
    <2> HIDE DEF m
    <2> QED BY <2>2, <2>3 DEF WellFormed
  <1> QED BY <1>2, <1>3 DEF r, Texts, WellFormed

\* A sequence with e in the place of its h-th element.
LEMMA Replaced ==
    ASSUME NEW B, NEW s \in Seq(B), NEW e \in B, NEW h \in 1 .. Len(s)
    PROVE  /\ SubSeq(s, 1, h - 1) \in Seq(B) /\ SubSeq(s, h + 1, Len(s)) \in Seq(B)
           /\ [j \in DOMAIN s |-> IF j = h THEN e ELSE s[j]]
                = Append(SubSeq(s, 1, h - 1), e) \o SubSeq(s, h + 1, Len(s))
  <1> DEFINE n == Len(s)
             u == SubSeq(s, 1, h - 1)
             v == SubSeq(s, h + 1, n)
             g == [j \in DOMAIN s |-> IF j = h THEN e ELSE s[j]]
             w == Append(u, e)
  <1>1. n \in Nat /\ h - 1 \in Nat /\ h \in Nat /\ h <= n /\ h - 1 <= n /\ n <= Len(s)
        /\ DOMAIN s = 1 .. n
    OBVIOUS
  <1>2. /\ u \in Seq(B) /\ Len(u) = h - 1 /\ \A i \in 1 .. h - 1 : u[i] = s[i]
    <2>1. h - 1 \in 0 .. Len(s)
      BY <1>1
    <2> QED BY <2>1, PrefixFacts
  <1>3. /\ v \in Seq(B) /\ Len(v) = n - h /\ \A i \in 1 .. n - h : v[i] = s[h + i]
    BY <1>1, CutFacts
  <1>5. g = [j \in 1 .. n |-> g[j]] /\ \A j \in 1 .. n : g[j] = IF j = h THEN e ELSE s[j]
    BY <1>1
  <1> HIDE DEF u, v, g
  <1>6. /\ w \in Seq(B) /\ Len(w) = h /\ w[h] = e
        /\ \A i \in 1 .. h - 1 : w[i] = u[i]
    BY <1>1, <1>2
  <1> HIDE DEF w
  <1>7. /\ w \o v \in Seq(B) /\ Len(w \o v) = Len(w) + Len(v)
        /\ \A i \in 1 .. Len(w) : (w \o v)[i] = w[i]
        /\ \A i \in 1 .. Len(v) : (w \o v)[Len(w) + i] = v[i]
    <2>1. w \in Seq(B) /\ v \in Seq(B)
      BY <1>3, <1>6
    <2> QED BY <2>1, JoinFacts
  <1>9. \A j \in 1 .. n : g[j] \in B
    BY <1>1, <1>5
  <1> DEFINE x == w \o v
  <1> HIDE DEF x, n
  <1>8. x \in Seq(B) /\ Len(x) = n
    BY <1>1, <1>3, <1>6, <1>7 DEF x
  <1>10. g \in Seq(B) /\ Len(g) = n
    BY <1>1, <1>5, <1>9
  <1>11. ASSUME NEW i \in 1 .. n PROVE g[i] = x[i]
    <2>1. CASE i < h
      <3>1. i \in 1 .. h - 1 /\ i \in 1 .. h /\ i # h
        BY <1>1, <2>1
      <3> QED BY <1>2, <1>5, <1>6, <1>7, <3>1 DEF x
    <2>2. CASE i = h
      <3>1. h \in 1 .. h
        BY <1>1
      <3> QED BY <1>5, <1>6, <1>7, <2>2, <3>1 DEF x
    <2>3. CASE i > h
      <3> DEFINE j == i - h
      <3>1. j \in 1 .. n - h /\ i = h + j /\ i # h
        BY <1>1, <2>3
      <3> HIDE DEF j
      <3>2. x[i] = v[j]
        BY <1>3, <1>6, <1>7, <3>1 DEF x
      <3> QED BY <1>3, <1>5, <3>1, <3>2
    <2>4. i < h \/ i = h \/ i > h
      BY <1>1
    <2> QED BY <2>1, <2>2, <2>3, <2>4
  <1>12. g = x
    BY <1>8, <1>10, <1>11, SameElements
  <1> QED BY <1>2, <1>3, <1>12 DEF g, x, w, u, v, n

\* Writing nothing for the h-th line is leaving it out.
LEMMA LeftOut ==
    ASSUME NEW A, NEW s \in Texts(A), NEW h \in 1 .. Len(s)
    PROVE  Ed!FlattenSeq([j \in DOMAIN s |-> IF j = h THEN <<>> ELSE s[j]])
             = Ed!FlattenSeq(Ed!RemoveAt(s, h))
  <1> DEFINE u == SubSeq(s, 1, h - 1)
             v == SubSeq(s, h + 1, Len(s))
             g == [j \in DOMAIN s |-> IF j = h THEN <<>> ELSE s[j]]
             w == Append(u, <<>>)
  <1>1. <<>> \in Seq(A)
    OBVIOUS
  <1>2. u \in Seq(Seq(A)) /\ v \in Seq(Seq(A)) /\ g = w \o v
    <2> DEFINE B == Seq(A)
    <2>1. s \in Seq(B) /\ <<>> \in B
      BY <1>1 DEF Texts
    <2> HIDE DEF B
    <2>2. u \in Seq(B) /\ v \in Seq(B) /\ g = w \o v
      BY <2>1, Replaced, ZenonT(30)
    <2> QED BY <2>2 DEF B
  <1>3. Ed!RemoveAt(s, h) = u \o v
    BY DEF Ed!RemoveAt
  <1> HIDE DEF u, v, g
  <1>4. u \in Texts(A) /\ v \in Texts(A) /\ w \in Texts(A)
    BY <1>1, <1>2 DEF Texts
  <1>5. /\ Ed!FlattenSeq(w) = Ed!FlattenSeq(u) \o <<>> /\ Ed!FlattenSeq(u) \in Seq(A)
    BY <1>1, <1>4, FlatFacts
  <1>6. Ed!FlattenSeq(w) = Ed!FlattenSeq(u)
    BY <1>5, JoinFacts
  <1> HIDE DEF w
  <1>7. Ed!FlattenSeq(w \o v) = Ed!FlattenSeq(w) \o Ed!FlattenSeq(v)
    BY <1>4, FlatJoin
  <1>8. Ed!FlattenSeq(u \o v) = Ed!FlattenSeq(u) \o Ed!FlattenSeq(v)
    BY <1>4, FlatJoin
  <1> QED BY <1>2, <1>3, <1>6, <1>7, <1>8 DEF g

\* Without one of its lines no two lines begin with the same name.
LEMMA NamedRemoved ==
    ASSUME NEW s \in Texts(Token), Named(s), NEW h \in 1 .. Len(s)
    PROVE  Named(Ed!RemoveAt(s, h))
  <1> DEFINE r == Ed!RemoveAt(s, h)
             At(j) == IF j < h THEN j ELSE j + 1
  <1>1. s \in Seq(Seq(Token)) /\ Len(s) \in Nat
    BY DEF Texts
  <1>2. /\ r \in Seq(Seq(Token)) /\ Len(r) = Len(s) - 1
        /\ \A i \in 1 .. Len(s) - 1 : r[i] = s[At(i)]
    BY <1>1, RemovedFacts
  <1>3. \A j \in 1 .. Len(s) - 1 : At(j) \in 1 .. Len(s)
    BY <1>1
  <1>4. \A j \in 1 .. Len(s) - 1 : \A k \in 1 .. Len(s) - 1 : j # k => At(j) # At(k)
    BY <1>1
  <1> HIDE DEF r, At
  <1>5. \A j \in 1 .. Len(s) - 1 :
           r[j] = s[At(j)] /\ r[j][1] \in Pkgs /\ (Len(r[j]) >= 2 => r[j][2] = Ve!SP)
    <2> TAKE j \in 1 .. Len(s) - 1
    <2>1. At(j) \in 1 .. Len(s) /\ r[j] = s[At(j)]
      BY <1>2, <1>3, Zenon
    <2>2. s[At(j)][1] \in Pkgs /\ (Len(s[At(j)]) >= 2 => s[At(j)][2] = Ve!SP)
      BY <2>1, Zenon DEF Named
    <2> QED BY <2>1, <2>2, Zenon
  <1>6. ASSUME NEW j \in 1 .. Len(s) - 1, NEW k \in 1 .. Len(s) - 1, j # k
        PROVE  r[j][1] # r[k][1]
    <2>1. At(j) \in 1 .. Len(s) /\ At(k) \in 1 .. Len(s) /\ At(j) # At(k)
      BY <1>3, <1>4, <1>6, Zenon
    <2>2. s[At(j)][1] # s[At(k)][1]
      BY <2>1, Zenon DEF Named
    <2> QED BY <1>5, <2>2, Zenon
  <1>7. \A j \in 1 .. Len(r) : /\ r[j][1] \in Pkgs /\ (Len(r[j]) >= 2 => r[j][2] = Ve!SP)
                               /\ \A k \in 1 .. Len(r) : j # k => r[j][1] # r[k][1]
    BY <1>2, <1>5, <1>6, Zenon
  <1> QED BY <1>7, Zenon DEF r, Named

\* What a line of a file says, when names are followed by spaces.
LEMMA NamedLine ==
    ASSUME NEW f \in Seq(Token), Named(Ed!Lines(f)), NEW j \in 1 .. Len(Ed!Lines(f))
    PROVE  LET l == Ed!Lines(f)[j]
           IN  /\ l \in Seq(Token) /\ l # <<>> /\ l[1] \in Pkgs
               /\ Len(l) >= 2 => Ve!NameIn(l) = <<l[1]>>
               /\ Len(l) < 2 => Ve!NameIn(l) = <<>> /\ ~Ve!HasSpace(l)
               /\ Ve!ReadableBy("check", l) \/ Ve!ReadableBy("load", l) => Len(l) >= 2
  <1> DEFINE s == Ed!Lines(f)
             l == s[j]
  <1>1. s \in Seq(Seq(Token)) /\ WellFormed(s)
    BY LinesFacts DEF Texts
  <1> HIDE DEF s
  <1>2. j \in 1 .. Len(s)
    BY DEF s
  <1>3. l \in Seq(Token) /\ l # <<>>
    BY <1>1, <1>2 DEF WellFormed, IsLine
  <1>4. l[1] \in Pkgs /\ (Len(l) >= 2 => l[2] = Ve!SP)
    BY <1>2, Zenon DEF Named, s
  <1> HIDE DEF l
  <1> QED BY <1>3, <1>4, NameFacts DEF l, s

\* A file that can be read: each of its lines has more than a name.
LEMMA ReadableLines ==
    ASSUME NEW f \in Seq(Token), Named(Ed!Lines(f)),
           Ve!Readable("check", f) \/ Ve!Readable("load", f)
    PROVE  \A j \in 1 .. Len(Ed!Lines(f)) :
              Len(Ed!Lines(f)[j]) >= 2 /\ Ve!NameIn(Ed!Lines(f)[j]) = <<Ed!Lines(f)[j][1]>>
  <1> DEFINE s == Ed!Lines(f)
  <1>1. s \in Seq(Seq(Token)) /\ DOMAIN s = 1 .. Len(s)
    BY LinesFacts DEF Texts
  <1> HIDE DEF s
  <1>2. ASSUME NEW j \in 1 .. Len(s)
        PROVE  Ve!ReadableBy("check", s[j]) \/ Ve!ReadableBy("load", s[j])
    BY <1>1, SameLines, Zenon DEF Ve!Readable, s
  <1> QED BY <1>2, NamedLine, Zenon DEF s

\* The package's line, and the file without it.
LEMMA KeptFacts ==
    ASSUME NEW f \in Seq(Token), Named(Ed!Lines(f)), Ve!Readable("load", f),
           NEW p, Ve!Listed(f, p)
    PROVE  \E h \in 1 .. Len(Ed!Lines(f)) :
              /\ Ed!Lines(f)[h][1] = p
              /\ Ve!Kept(f, p) = Ed!FlattenSeq(Ed!RemoveAt(Ed!Lines(f), h))
              /\ Ve!Kept(f, p) \in Seq(Token)
              /\ Ed!Lines(Ve!Kept(f, p)) = Ed!RemoveAt(Ed!Lines(f), h)
              /\ Named(Ed!Lines(Ve!Kept(f, p)))
  <1> DEFINE s == Ed!Lines(f)
  <1>1. /\ s \in Seq(Seq(Token)) /\ DOMAIN s = 1 .. Len(s)
        /\ s \in Texts(Token) /\ WellFormed(s)
    BY LinesFacts DEF Texts
  <1>2. \A j \in 1 .. Len(s) : Ve!NameIn(s[j]) = <<s[j][1]>>
    BY ReadableLines, Zenon
  <1>3. Ve!Lines(f) = s
    BY SameLines, Zenon
  <1> HIDE DEF s
  <1>4. PICK h \in 1 .. Len(s) : Ve!NameIn(s[h]) = <<p>>
    BY <1>1, <1>3, Zenon DEF Ve!Listed
  <1>5. \A x, y : <<x>> = <<y>> => x = y
    OBVIOUS
  <1>6. s[h][1] = p
    BY <1>2, <1>4, <1>5, Zenon
  <1>7. \A j \in 1 .. Len(s) : Ve!NameIn(s[j]) = <<p>> <=> j = h
    <2>1. \A j \in 1 .. Len(s) : j # h => s[j][1] # p
      BY <1>6, Zenon DEF Named, s
    <2> QED BY <1>2, <1>4, <1>5, <2>1, Zenon
  <1> DEFINE g == [j \in DOMAIN s |-> IF Ve!NameIn(s[j]) = <<p>> THEN <<>> ELSE s[j]]
             k == [j \in DOMAIN s |-> IF j = h THEN <<>> ELSE s[j]]
             r == Ed!RemoveAt(s, h)
  <1>8. \A j \in DOMAIN s : (IF Ve!NameIn(s[j]) = <<p>> THEN <<>> ELSE s[j])
                               = (IF j = h THEN <<>> ELSE s[j])
    BY <1>1, <1>7, Zenon
  <1>9. g = k
    BY <1>8
  <1>10. Ve!Kept(f, p) = Ed!FlattenSeq(g)
    BY <1>3, SameLines, Zenon DEF Ve!Kept
  <1>11. Ed!FlattenSeq(k) = Ed!FlattenSeq(r)
    BY <1>1, LeftOut
  <1> HIDE DEF g, k, r
  <1>12. r \in Texts(Token) /\ WellFormed(r) /\ Named(r)
    BY <1>1, WellFormedRemoved, NamedRemoved DEF r, s
  <1>13. Ed!FlattenSeq(r) \in Seq(Token) /\ Ed!Lines(Ed!FlattenSeq(r)) = r
    <2>1. <<>> \in Seq(Token)
      OBVIOUS
    <2> QED BY <1>12, <2>1, FlatFacts, LinesOfFlat
  <1>14. Ve!Kept(f, p) = Ed!FlattenSeq(r)
    BY <1>9, <1>10, <1>11
  <1> HIDE DEF s
  <1>15. /\ s[h][1] = p /\ Ve!Kept(f, p) = Ed!FlattenSeq(r) /\ Ve!Kept(f, p) \in Seq(Token)
         /\ Ed!Lines(Ve!Kept(f, p)) = r /\ Named(Ed!Lines(Ve!Kept(f, p)))
    BY <1>6, <1>12, <1>13, <1>14, Zenon
  <1>16. \E i \in 1 .. Len(s) :
            /\ s[i][1] = p /\ Ve!Kept(f, p) = Ed!FlattenSeq(Ed!RemoveAt(s, i))
            /\ Ve!Kept(f, p) \in Seq(Token)
            /\ Ed!Lines(Ve!Kept(f, p)) = Ed!RemoveAt(s, i) /\ Named(Ed!Lines(Ve!Kept(f, p)))
    BY <1>15, Zenon DEF r
  <1> QED BY <1>16, Zenon DEF s

\* RemoveFirst takes out one element, or none.
LEMMA RemoveFirstFacts ==
    ASSUME NEW B, NEW s \in Seq(B), NEW e
    PROVE  \/ (\A i \in 1 .. Len(s) : s[i] # e) /\ Ve!RemoveFirst(s, e) = s
           \/ \E h \in 1 .. Len(s) : s[h] = e /\ Ve!RemoveFirst(s, e) = Ed!RemoveAt(s, h)
  <1> DEFINE I == {i \in 1 .. Len(s) : s[i] = e}
             h == Ve!SelectInSeq(s, LAMBDA v : v = e)
  <1>1. h = IF I # {} THEN Ve!Min(I) ELSE 0
    BY DEF Ve!SelectInSeq
  <1>2. Ve!RemoveFirst(s, e) = IF \E i \in 1 .. Len(s) : s[i] = e
                                 THEN Ve!RemoveAt(s, h) ELSE s
    BY DEF Ve!RemoveFirst
  <1>3. \A j : Ve!RemoveAt(s, j) = Ed!RemoveAt(s, j)
    BY Zenon DEF Ve!RemoveAt, Ed!RemoveAt
  <1>4. \A S : Ve!Min(S) = Ed!Min(S)
    BY Zenon DEF Ve!Min, Ed!Min
  <1> HIDE DEF h
  <1>5. ASSUME I # {} PROVE h \in I
    <2>1. I \subseteq Nat /\ I \subseteq Int
      OBVIOUS
    <2> HIDE DEF I
    <2>2. PICK x \in I : \A y \in I : x <= y
      BY <1>5, <2>1, Least
    <2>3. Ed!Min(I) = x
      BY <2>1, <2>2, MinIs
    <2>4. h = Ed!Min(I)
      BY <1>1, <1>4, <1>5, Zenon
    <2> QED BY <2>2, <2>3, <2>4
  <1>6. \A i \in 1 .. Len(s) : s[i] = e <=> i \in I
    BY Zenon
  <1>7. I \subseteq 1 .. Len(s)
    BY Zenon
  <1> HIDE DEF I
  <1> QED BY <1>2, <1>3, <1>5, <1>6, <1>7, Zenon

\* What is left of a list of packages.
LEMMA StillListed ==
    ASSUME NEW q \in Seq(Pkgs), NEW e
    PROVE  /\ Ve!RemoveFirst(q, e) \in Seq(Pkgs)
           /\ \A j \in 1 .. Len(Ve!RemoveFirst(q, e)) :
                 \E i \in 1 .. Len(q) : Ve!RemoveFirst(q, e)[j] = q[i]
  <1>1. CASE Ve!RemoveFirst(q, e) = q
    BY <1>1, Zenon
  <1>2. CASE \E h \in 1 .. Len(q) : Ve!RemoveFirst(q, e) = Ed!RemoveAt(q, h)
    <2>1. PICK h \in 1 .. Len(q) : Ve!RemoveFirst(q, e) = Ed!RemoveAt(q, h)
      BY <1>2
    <2> DEFINE r == Ed!RemoveAt(q, h)
    <2>2. /\ r \in Seq(Pkgs) /\ Len(r) = Len(q) - 1
          /\ \A i \in 1 .. Len(q) - 1 : r[i] = q[IF i < h THEN i ELSE i + 1]
      BY RemovedFacts
    <2>3. \A i \in 1 .. Len(q) - 1 : (IF i < h THEN i ELSE i + 1) \in 1 .. Len(q)
      OBVIOUS
    <2> HIDE DEF r
    <2>4. \A j \in 1 .. Len(r) : \E i \in 1 .. Len(q) : r[j] = q[i]
      BY <2>2, <2>3, Zenon
    <2> QED BY <2>1, <2>2, <2>4, Zenon DEF r
  <1> QED BY <1>1, <1>2, RemoveFirstFacts, Zenon

\* Leaving out the package's line is leaving the package out of the list.
LEMMA KeptBody ==
    ASSUME NEW q \in Seq(Pkgs), Named(LinesFor(q)), NEW p,
           Ve!Readable("load", Body(q)), Ve!Listed(Body(q), p)
    PROVE  Ve!Kept(Body(q), p) = Body(Ve!RemoveFirst(q, p))
  <1> DEFINE s == LinesFor(q)
             f == Body(q)
             n == Len(q)
  <1>1. /\ s \in Texts(Token) /\ Len(s) = n /\ \A j \in 1 .. n : s[j] = Ve!LineOf(q[j])
        /\ f \in Seq(Token) /\ Ed!Lines(f) = s
    BY LinesForFacts, Zenon
  <1>2. \A j \in 1 .. n : s[j][1] = q[j]
    <2>1. \A j \in 1 .. n : q[j] \in Pkgs
      OBVIOUS
    <2> QED BY <1>1, <2>1, LineOfFacts, Zenon
  <1> HIDE DEF s, f
  <1>3. PICK h \in 1 .. n : /\ s[h][1] = p
                            /\ Ve!Kept(f, p) = Ed!FlattenSeq(Ed!RemoveAt(s, h))
    <2>1. Ve!Readable("load", f) /\ Ve!Listed(f, p) /\ Named(Ed!Lines(f))
      BY <1>1, Zenon DEF f, s
    <2>2. \E h \in 1 .. Len(Ed!Lines(f)) :
             /\ Ed!Lines(f)[h][1] = p
             /\ Ve!Kept(f, p) = Ed!FlattenSeq(Ed!RemoveAt(Ed!Lines(f), h))
      BY <1>1, <2>1, KeptFacts, Zenon
    <2> QED BY <1>1, <2>2, Zenon
  <1>4. Ve!RemoveFirst(q, p) = Ed!RemoveAt(q, h)
    <2>0. \A i \in 1 .. n : \A k \in 1 .. n : i # k => s[i][1] # s[k][1]
      BY <1>1, Zenon DEF Named, s
    <2>1. \A i \in 1 .. n : q[i] = p => i = h
      BY <1>2, <1>3, <2>0, Zenon
    <2>2. q[h] = p
      BY <1>2, <1>3, Zenon
    <2> QED BY <2>1, <2>2, RemoveFirstFacts, Zenon
  <1> DEFINE r == Ed!RemoveAt(q, h)
             x == Ed!RemoveAt(s, h)
             y == LinesFor(r)
  <1>5. /\ r \in Seq(Pkgs) /\ Len(r) = n - 1 /\ n \in Nat
        /\ \A i \in 1 .. n - 1 : r[i] = q[IF i < h THEN i ELSE i + 1]
    BY RemovedFacts
  <1>6. /\ x \in Seq(Seq(Token)) /\ Len(x) = n - 1
        /\ \A i \in 1 .. n - 1 : x[i] = s[IF i < h THEN i ELSE i + 1]
    <2> DEFINE B == Seq(Token)
    <2>1. s \in Seq(B) /\ h \in 1 .. Len(s)
      BY <1>1 DEF Texts
    <2> HIDE DEF B
    <2>2. /\ x \in Seq(B) /\ Len(x) = Len(s) - 1
          /\ \A i \in 1 .. Len(s) - 1 : x[i] = s[IF i < h THEN i ELSE i + 1]
      BY <2>1, RemovedFacts
    <2> QED BY <1>1, <2>2, Zenon DEF B
  <1> HIDE DEF r
  <1>7. /\ y \in Seq(Seq(Token)) /\ Len(y) = Len(r)
        /\ \A j \in 1 .. Len(r) : y[j] = Ve!LineOf(r[j])
    BY <1>5, LinesForFacts DEF Texts
  <1> HIDE DEF x, y, n
  <1>8. ASSUME NEW i \in 1 .. n - 1 PROVE x[i] = y[i]
    <2> DEFINE m == IF i < h THEN i ELSE i + 1
    <2>1. m \in 1 .. n
      BY <1>5
    <2>2. x[i] = s[m] /\ r[i] = q[m]
      BY <1>5, <1>6, Zenon
    <2> HIDE DEF m
    <2>3. s[m] = Ve!LineOf(q[m]) /\ y[i] = Ve!LineOf(r[i])
      BY <1>1, <1>5, <1>7, <2>1, Zenon
    <2> QED BY <2>2, <2>3, Zenon
  <1>9. x = y
    <2>1. Len(x) = Len(y) /\ \A i \in 1 .. Len(x) : x[i] = y[i]
      BY <1>5, <1>6, <1>7, <1>8, Zenon
    <2> DEFINE B == Seq(Token)
    <2>2. x \in Seq(B) /\ y \in Seq(B)
      BY <1>6, <1>7
    <2> HIDE DEF B
    <2> QED BY <2>1, <2>2, SameElements
  <1> QED BY <1>3, <1>4, <1>9, Zenon DEF x, y, r, f, Body

\* What follows a text without a newline at its end goes on its last line.
LEMMA LastLineGrows ==
    ASSUME NEW f \in Seq(Token), ~Whole(f), NEW t \in Token
    PROVE  \E r \in Texts(Token), l \in Seq(Token) :
              /\ Ed!Lines(f) = Append(r, l) /\ Ed!Lines(Append(f, t)) = Append(r, Append(l, t))
              /\ l # <<>>
  <1>1. /\ Ed!Lines(f) \in Texts(Token) /\ WellFormed(Ed!Lines(f))
        /\ Ed!FlattenSeq(Ed!Lines(f)) = f
    BY LinesFacts
  <1>2. f # <<>> /\ <<>> \in Seq(Token)
    BY DEF Whole
  <1>3. Ed!Lines(f) # <<>>
    BY <1>1, <1>2, FlatEmpty, Zenon
  <1>4. PICK r \in Texts(Token), l \in Seq(Token) : Ed!Lines(f) = Append(r, l)
    <2> DEFINE B == Seq(Token)
    <2>1. Ed!Lines(f) \in Seq(B)
      BY <1>1 DEF Texts
    <2> HIDE DEF B
    <2>2. \E r \in Seq(B), l \in B : Ed!Lines(f) = Append(r, l)
      <3> DEFINE s == Ed!Lines(f)
      <3>1. s \in Seq(B) /\ s # <<>>
        BY <1>3, <2>1
      <3> HIDE DEF s
      <3>2. \E r \in Seq(B), l \in B : s = Append(r, l)
        BY <3>1, LastOne
      <3> QED BY <3>2 DEF s
    <2> QED BY <2>2, Zenon DEF B, Texts
  <1>5. WellFormed(r) /\ AllWhole(r) /\ IsLine(l)
    BY <1>1, <1>4, WellFormedAppend
  <1>6. Ed!FlattenSeq(r) \in Seq(Token) /\ f = Ed!FlattenSeq(r) \o l
    BY <1>1, <1>2, <1>4, FlatFacts
  <1>7. l # <<>> /\ ~Whole(l)
    BY <1>5, <1>6, WholeJoin DEF IsLine
  <1> DEFINE m == Append(l, t)
             g == Ed!FlattenSeq(r)
  <1>8. /\ m \in Seq(Token) /\ m # <<>> /\ Len(m) = Len(l) + 1 /\ Len(l) \in Nat \ {0}
        /\ \A i \in 1 .. Len(l) : m[i] = l[i]
    BY <1>7
  <1>9. IsLine(m)
    <2>1. \A i \in 1 .. Len(l) : i \in 1 .. Len(l) - 1 \/ i = Len(l)
      BY <1>8
    <2>2. Len(m) - 1 = Len(l)
      BY <1>8
    <2> HIDE DEF m
    <2>3. l[Len(l)] # Ed!NL
      BY <1>7 DEF Whole
    <2> QED BY <1>5, <1>8, <2>1, <2>2, <2>3, Zenon DEF IsLine
  <1>10. Append(f, t) = g \o m
    <2>1. <<t>> \in Seq(Token) /\ Append(f, t) = f \o <<t>> /\ m = l \o <<t>>
      OBVIOUS
    <2> HIDE DEF m, g
    <2> QED BY <1>6, <2>1, JoinAssociates DEF g
  <1> HIDE DEF m
  <1>11. Ed!Lines(g \o m) = Append(r, m)
    <2>1. Whole(g)
      BY <1>5, FlatWhole
    <2>2. Ed!Lines(g) = r
      BY <1>5, LinesOfFlat
    <2>3. Ed!Lines(g) \in Texts(Token) /\ g \in Seq(Token)
      BY <1>6, <2>2
    <2> HIDE DEF g
    <2> QED BY <1>8, <1>9, <2>1, <2>2, <2>3, LinesGrow
  <1>12. Ed!Lines(Append(f, t)) = Append(r, m)
    BY <1>10, <1>11, Zenon
  <1> QED BY <1>4, <1>7, <1>12, Zenon DEF m

\* A token is a newline or leaves the file without one at its end.
LEMMA WholeToken ==
    ASSUME NEW f \in Seq(Token), NEW t \in Token
    PROVE  Append(f, t) \in Seq(Token) /\ (Whole(Append(f, t)) <=> t = Ed!NL)
  <1>1. /\ Append(f, t) \in Seq(Token) /\ Append(f, t) # <<>>
        /\ Append(f, t)[Len(Append(f, t))] = t
    OBVIOUS
  <1> QED BY <1>1, Zenon DEF Whole

\* A space behind the name, and anything behind that.
LEMMA NamedGrows ==
    ASSUME NEW f \in Seq(Token), Named(Ed!Lines(f)), ~Whole(f), NEW t \in Token,
           t = Ve!SP \/ LongEnd(f)
    PROVE  Named(Ed!Lines(Append(f, t))) /\ LongEnd(Append(f, t))
  <1>1. PICK r \in Texts(Token), l \in Seq(Token) :
              /\ Ed!Lines(f) = Append(r, l) /\ Ed!Lines(Append(f, t)) = Append(r, Append(l, t))
              /\ l # <<>>
    BY LastLineGrows
  <1> DEFINE m == Append(l, t)
             a == Append(r, l)
             b == Append(r, m)
             n == Len(r) + 1
  <1>2. /\ m \in Seq(Token) /\ Len(m) = Len(l) + 1 /\ Len(l) \in Nat \ {0} /\ Len(m) >= 2
        /\ m[Len(l) + 1] = t /\ \A i \in 1 .. Len(l) : m[i] = l[i]
    BY <1>1
  <1>3. r \in Seq(Seq(Token)) /\ Len(r) \in Nat
    BY DEF Texts
  <1>4. /\ Len(a) = n /\ a[n] = l /\ \A j \in 1 .. Len(r) : a[j] = r[j]
    BY <1>3
  <1> HIDE DEF m
  <1>5. /\ Len(b) = n /\ b[n] = m /\ \A j \in 1 .. Len(r) : b[j] = r[j]
    BY <1>2, <1>3
  <1>6. LongEnd(f) => Len(l) >= 2
    <2>1. Ed!Lines(f) = a
      BY <1>1
    <2> HIDE DEF a
    <2> QED BY <1>4, <2>1, Zenon DEF LongEnd
  <1>7. m[1] = l[1]
    <2>1. 1 \in 1 .. Len(l)
      BY <1>2
    <2> QED BY <1>2, <2>1
  <1>8. Named(a)
    BY <1>1, Zenon
  <1>9. \A j \in 1 .. n : j \in 1 .. Len(r) \/ j = n
    BY <1>3
  <1>a. n \in 1 .. n
    BY <1>3
  <1> HIDE DEF a, b, n
  <1>10. m[2] = Ve!SP
    <2>1. CASE Len(l) >= 2
      <3>1. 2 \in 1 .. Len(l)
        BY <1>2, <2>1
      <3>2. l[2] = Ve!SP
        BY <1>4, <1>8, <1>a, <2>1, Zenon DEF Named
      <3> QED BY <1>2, <3>1, <3>2
    <2>2. CASE ~(Len(l) >= 2)
      <3>1. \A i \in Nat \ {0} : ~(i >= 2) => i + 1 = 2
        OBVIOUS
      <3>2. Len(l) + 1 = 2
        BY <1>2, <2>2, <3>1, Zenon
      <3>3. t = Ve!SP
        BY <1>6, <2>2, Zenon
      <3> QED BY <1>2, <3>2, <3>3, Zenon
    <2> QED BY <2>1, <2>2
  <1>11. \A j \in 1 .. n : b[j][1] = a[j][1]
    BY <1>4, <1>5, <1>7, <1>9, Zenon
  <1>12. \A j \in 1 .. n : Len(b[j]) >= 2 => b[j][2] = Ve!SP
    <2>1. \A j \in 1 .. n : Len(a[j]) >= 2 => a[j][2] = Ve!SP
      BY <1>4, <1>8, Zenon DEF Named
    <2> QED BY <1>4, <1>5, <1>9, <1>10, <2>1, Zenon
  <1>13. Named(b)
    <2>1. \A j \in 1 .. n : /\ a[j][1] \in Pkgs
                            /\ \A k \in 1 .. n : j # k => a[j][1] # a[k][1]
      BY <1>4, <1>8, Zenon DEF Named
    <2>2. \A j \in 1 .. n : /\ b[j][1] \in Pkgs
                            /\ \A k \in 1 .. n : j # k => b[j][1] # b[k][1]
      BY <1>11, <2>1, Zenon
    <2> QED BY <1>5, <1>12, <2>2, Zenon DEF Named
  <1>14. Ed!Lines(Append(f, t)) = b
    BY <1>1, Zenon DEF b, m
  <1>15. LongEnd(Append(f, t))
    BY <1>2, <1>5, <1>14, Zenon DEF LongEnd
  <1> QED BY <1>13, <1>14, <1>15, Zenon

\* The name of a package that the file does not list yet.
LEMMA NamedBegins ==
    ASSUME NEW f \in Seq(Token), Named(Ed!Lines(f)), NEW q \in Pkgs,
           Ve!Readable("check", f), Ve!Free(f, q)
    PROVE  Named(Ed!Lines(Append(f, q)))
  <1> DEFINE s == Ed!Lines(f)
             n == Len(s)
  <1>1. s \in Texts(Token) /\ s \in Seq(Seq(Token)) /\ n \in Nat /\ DOMAIN s = 1 .. n
    BY LinesFacts DEF Texts
  <1>2. q \in Token /\ q # Ed!NL
    BY Tokens DEF Token
  <1>3. \A j \in 1 .. n : Len(s[j]) >= 2 /\ Ve!NameIn(s[j]) = <<s[j][1]>>
    BY ReadableLines, Zenon
  <1>4. \A j \in 1 .. n : s[j][1] # q
    BY <1>1, <1>3, SameLines, Zenon DEF Ve!Free, Ve!Listed
  <1>5. CASE Whole(f)
    <2> DEFINE l == <<q>>
               b == Append(s, l)
    <2>1. l \in Seq(Token) /\ Len(l) = 1 /\ l[1] = q /\ Append(f, q) = f \o l /\ l # <<>>
      BY <1>2
    <2>2. IsLine(l)
      BY <2>1 DEF IsLine
    <2> HIDE DEF l
    <2>3. Ed!Lines(f \o l) = Append(Ed!Lines(f), l)
      BY <1>1, <1>5, <2>1, <2>2, LinesGrow
    <2> HIDE DEF s
    <2>4. /\ Len(b) = n + 1 /\ b[n + 1] = l /\ \A j \in 1 .. n : b[j] = s[j]
      BY <1>1, <2>1
    <2>5. \A j \in 1 .. n + 1 : j \in 1 .. n \/ j = n + 1
      BY <1>1
    <2>6. ~(1 >= 2)
      OBVIOUS
    <2> DEFINE m == n + 1
    <2> HIDE DEF b, m, n
    <2>11. \A j \in 1 .. n : s[j][1] \in Pkgs /\ (Len(s[j]) >= 2 => s[j][2] = Ve!SP)
      BY Zenon DEF Named, n, s
    <2>7. \A j \in 1 .. m : b[j][1] \in Pkgs /\ (Len(b[j]) >= 2 => b[j][2] = Ve!SP)
      BY <2>1, <2>4, <2>5, <2>6, <2>11, Zenon DEF m
    <2>8. \A j \in 1 .. n : \A k \in 1 .. n : j # k => s[j][1] # s[k][1]
      BY Zenon DEF Named, n, s
    <2>9. \A j \in 1 .. m : \A k \in 1 .. m : j # k => b[j][1] # b[k][1]
      BY <1>4, <2>1, <2>4, <2>5, <2>8, Zenon DEF m
    <2>10. Named(b)
      BY <2>4, <2>7, <2>9, Zenon DEF Named, m
    <2> QED BY <2>1, <2>3, <2>10, Zenon DEF b, s
  <1>6. CASE ~Whole(f)
    <2>1. PICK r \in Texts(Token), l \in Seq(Token) : s = Append(r, l)
      BY <1>2, <1>6, LastLineGrows, Zenon
    <2>2. n \in 1 .. n
      <3>1. r \in Seq(Seq(Token))
        BY DEF Texts
      <3> HIDE DEF s
      <3>2. Len(s) # 0
        BY <2>1, <3>1
      <3> QED BY <1>1, <3>2
    <2>3. LongEnd(f)
      BY <1>3, <2>2, Zenon DEF LongEnd
    <2> QED BY <1>2, <1>6, <2>3, NamedGrows
  <1> QED BY <1>5, <1>6

-----------------------------------------------------------------------------
(* Venv: main goes from function to function.                              *)

Between == {"idle", "mkdir", "check", "load"}

LEMMA ArgsFacts ==
    ASSUME NEW a \in Ve!Args
    PROVE  /\ a.install # Ve!None => a.install \in Pkgs
           /\ a.names \in Seq(Envs) /\ a.names # <<>>
           /\ a.create \in BOOLEAN
           /\ a.create \/ a.install # Ve!None \/ a.remove # Ve!None
  <1>1. /\ a.install \in Pkgs \cup {Ve!None} /\ a.names \in Ve!SeqOf(Envs, 2)
        /\ a.names # <<>> /\ a.create \in BOOLEAN
        /\ a.create \/ a.install # Ve!None \/ a.remove # Ve!None
    BY DEF Ve!Args
  <1>2. PICK m \in 0 .. 2 : a.names \in [1 .. m -> Envs]
    BY <1>1 DEF Ve!SeqOf
  <1>3. m \in Nat
    OBVIOUS
  <1>4. a.names \in Seq(Envs)
    BY <1>2, <1>3
  <1> QED BY <1>1, <1>4

LEMMA AtMostOne ==
    ASSUME NEW S, NEW e \in S, NEW C
    PROVE  LET x == IF C THEN <<e>> ELSE <<>>
           IN  x \in Seq(S) /\ Len(x) = (IF C THEN 1 ELSE 0) /\ (C => x[1] = e)
  <1>1. CASE C
    BY <1>1
  <1>2. CASE ~C
    BY <1>2
  <1> QED BY <1>1, <1>2

LEMMA PhasesFacts ==
    ASSUME NEW a \in Ve!Args
    PROVE  /\ Ve!Phases(a) \in Seq({"mkdir", "check", "load"}) /\ Ve!Phases(a) # <<>>
           /\ \A j \in 1 .. Len(Ve!Phases(a)) : Due(Ve!Phases(a)[j], a)
           /\ \A p \in {"mkdir", "check", "load"} :
                 Due(p, a) => \E j \in 1 .. Len(Ve!Phases(a)) : Ve!Phases(a)[j] = p
  <1> DEFINE C == a.create
             I == a.install # Ve!None
             R == a.remove # Ve!None
             S == {"mkdir", "check", "load"}
             x == IF C THEN <<"mkdir">> ELSE <<>>
             y == IF I THEN <<"check">> ELSE <<>>
             z == IF R THEN <<"load">> ELSE <<>>
             q == x \o y
             w == q \o z
  <1>1. C \/ I \/ R
    BY ArgsFacts
  <1>2. Ve!Phases(a) = w
    BY Zenon DEF Ve!Phases
  <1>3. Due("mkdir", a) = C /\ Due("check", a) = I /\ Due("load", a) = R
    BY ArgsFacts DEF Due
  <1>4. /\ x \in Seq(S) /\ Len(x) = (IF C THEN 1 ELSE 0) /\ (C => x[1] = "mkdir")
        /\ y \in Seq(S) /\ Len(y) = (IF I THEN 1 ELSE 0) /\ (I => y[1] = "check")
        /\ z \in Seq(S) /\ Len(z) = (IF R THEN 1 ELSE 0) /\ (R => z[1] = "load")
    <2>1. "mkdir" \in S /\ "check" \in S /\ "load" \in S
      OBVIOUS
    <2> HIDE DEF C, I, R, S
    <2> QED BY <2>1, AtMostOne
  <1> HIDE DEF x, y, z, C, I, R, S
  <1>5. /\ q \in Seq(S) /\ Len(q) = Len(x) + Len(y)
        /\ \A i \in 1 .. Len(x) : q[i] = x[i]
        /\ \A i \in 1 .. Len(y) : q[Len(x) + i] = y[i]
    <2>1. x \in Seq(S) /\ y \in Seq(S)
      BY <1>4
    <2> QED BY <2>1, JoinFacts
  <1> HIDE DEF q
  <1>6. /\ w \in Seq(S) /\ Len(w) = Len(q) + Len(z)
        /\ \A i \in 1 .. Len(q) : w[i] = q[i]
        /\ \A i \in 1 .. Len(z) : w[Len(q) + i] = z[i]
    <2>1. q \in Seq(S) /\ z \in Seq(S)
      BY <1>4, <1>5
    <2> QED BY <2>1, JoinFacts
  <1> HIDE DEF w
  <1>7. C => w[1] = "mkdir" /\ 1 \in 1 .. Len(w)
    BY <1>4, <1>5, <1>6
  <1>8. I => w[Len(x) + 1] = "check" /\ Len(x) + 1 \in 1 .. Len(w)
    BY <1>4, <1>5, <1>6
  <1>9. R => w[Len(q) + 1] = "load" /\ Len(q) + 1 \in 1 .. Len(w)
    BY <1>4, <1>5, <1>6
  <1>10. \A j \in 1 .. Len(w) : \/ C /\ j = 1
                                \/ I /\ j = Len(x) + 1
                                \/ R /\ j = Len(q) + 1
    BY <1>4, <1>5, <1>6
  <1>11. \A j \in 1 .. Len(w) : Due(w[j], a)
    BY <1>3, <1>7, <1>8, <1>9, <1>10, Zenon
  <1>12. \A p \in S : Due(p, a) => \E j \in 1 .. Len(w) : w[j] = p
    BY <1>3, <1>7, <1>8, <1>9, Zenon DEF S
  <1>13. w # <<>>
    BY <1>1, <1>7, <1>8, <1>9
  <1> QED BY <1>2, <1>6, <1>11, <1>12, <1>13, Zenon DEF S

\* main calls functions that the command line asks for, or ends.
LEMMA CallInv ==
    ASSUME NEW a \in Ve!Args, NEW ps \in Seq({"mkdir", "check", "load"}),
           \A j \in 1 .. Len(ps) : Due(ps[j], a), Ve!Call(a, ps)
    PROVE  ControlInv' /\ vpc' \in Between
  <1>1. CASE ps = <<>>
    BY <1>1 DEF Ve!Call, Ve!End, ControlInv, Between
  <1>2. CASE ps # <<>>
    <2>1. /\ Head(ps) \in {"mkdir", "check", "load"} /\ Due(Head(ps), a)
      BY <1>2
    <2>2. vpc' = Head(ps) /\ args' = a /\ env' = a.names
      BY <1>2 DEF Ve!Call
    <2>3. vpc' \in {"mkdir", "check", "load"} /\ Due(vpc', a)
      BY <2>1, <2>2, Zenon
    <2>4. Caller' = vpc'
      BY <2>3 DEF Caller
    <2>5. Due(Caller', args')
      BY <2>2, <2>3, <2>4, Zenon
    <2>6. env' \in Seq(Envs) /\ env' # <<>>
      BY <2>2, ArgsFacts
    <2> QED BY <2>2, <2>3, <2>5, <2>6 DEF ControlInv, Between, Due
  <1> QED BY <1>1, <1>2

LEMMA LoopInv ==
    ASSUME ControlInv, vpc # "idle", Ve!Loop(Caller)
    PROVE  ControlInv' /\ vpc' \in Between
  <1> DEFINE S == {"mkdir", "check", "load"}
  <1>1. /\ Caller \in S /\ env \in Seq(Envs) /\ env # <<>>
        /\ args \in Ve!Args /\ Due(Caller, args)
    BY DEF ControlInv, Caller
  <1>2. CASE Len(env) > 1
    <2>1. vpc' = Caller /\ env' = Tail(env) /\ args' = args
      BY <1>2 DEF Ve!Loop
    <2>2. env' \in Seq(Envs) /\ env' # <<>>
      <3>1. \A s \in Seq(Envs) : Len(s) > 1 => Tail(s) \in Seq(Envs) /\ Tail(s) # <<>>
        OBVIOUS
      <3> QED BY <1>1, <1>2, <2>1, <3>1, Zenon
    <2>3. Caller' = vpc'
      BY <1>1, <2>1 DEF Caller
    <2>4. Due(Caller', args') /\ vpc' \in S
      BY <1>1, <2>1, <2>3, Zenon
    <2> QED BY <1>1, <2>1, <2>2, <2>4 DEF ControlInv, Between, Due
  <1>3. CASE ~(Len(env) > 1)
    <2> DEFINE ps == Ve!Phases(args)
               k == CHOOSE j \in 1 .. Len(ps) : ps[j] = Caller
               qs == SubSeq(ps, k + 1, Len(ps))
    <2>1. Ve!Call(args, qs)
      BY <1>3 DEF Ve!Loop
    <2>2. /\ ps \in Seq(S) /\ \A j \in 1 .. Len(ps) : Due(ps[j], args)
          /\ \E j \in 1 .. Len(ps) : ps[j] = Caller
      BY <1>1, PhasesFacts
    <2> HIDE DEF ps
    <2>3. k \in 1 .. Len(ps)
      BY <2>2
    <2> HIDE DEF k, S
    <2>4. k \in Nat /\ Len(ps) \in Nat /\ k <= Len(ps) /\ Len(ps) <= Len(ps)
      BY <2>2, <2>3
    <2>5. /\ qs \in Seq(S) /\ Len(qs) = Len(ps) - k
          /\ \A i \in 1 .. Len(ps) - k : qs[i] = ps[k + i]
      BY <2>2, <2>4, CutFacts
    <2> HIDE DEF qs
    <2>6. \A i \in 1 .. Len(qs) : Due(qs[i], args)
      <3>1. \A i \in 1 .. Len(ps) - k : k + i \in 1 .. Len(ps)
        BY <2>4
      <3> QED BY <2>2, <2>5, <3>1, Zenon
    <2>7. qs \in Seq({"mkdir", "check", "load"})
      BY <2>5 DEF S
    <2> QED BY <1>1, <2>1, <2>6, <2>7, CallInv, Zenon
  <1> QED BY <1>2, <1>3

-----------------------------------------------------------------------------
(* Venv: every action keeps the invariant.                                 *)

\* What write_line has written and what it has still to write.
LEMMA LineParts ==
    ASSUME NEW q \in Pkgs, NEW n \in 1 .. 4
    PROVE  LET l == Ve!LineOf(q)
               o == SubSeq(l, 5 - n, 4)
           IN  /\ o \in Seq(Token) /\ Len(o) = n /\ Head(o) = l[5 - n]
               /\ l[5 - n] \in Token /\ SubSeq(l, 1, 4 - n) \in Seq(Token)
               /\ Tail(o) = SubSeq(l, 5 - (n - 1), 4)
               /\ SubSeq(l, 1, 4 - (n - 1)) = Append(SubSeq(l, 1, 4 - n), l[5 - n])
  <1> DEFINE l == Ve!LineOf(q)
             m == 4 - n
             k == 5 - n
             o == SubSeq(l, m + 1, 4)
             u == SubSeq(l, 1, m)
             v == SubSeq(l, 1, k)
             t == SubSeq(l, k + 1, 4)
             w == Append(u, l[k])
             x == Tail(o)
  <1>1. l \in Seq(Token) /\ Len(l) = 4
    BY LineOfFacts
  <1>2. /\ m \in Nat /\ k \in Nat /\ 4 \in Nat /\ m <= 4 /\ k <= 4 /\ 4 <= Len(l)
        /\ k = m + 1 /\ 4 - m = n /\ 4 - k = n - 1 /\ 5 - (n - 1) = k + 1
        /\ 4 - (n - 1) = k /\ k \in 1 .. 4 /\ n \in Nat /\ n >= 1
        /\ m \in 0 .. Len(l) /\ k \in 0 .. Len(l) /\ k \in 1 .. Len(l)
    BY <1>1
  <1> HIDE DEF l, m, k
  <1>3. /\ o \in Seq(Token) /\ Len(o) = n /\ \A i \in 1 .. n : o[i] = l[m + i]
    <2>1. m \in Nat /\ 4 \in Nat /\ m <= 4 /\ 4 <= Len(l)
      BY <1>2
    <2>2. /\ o \in Seq(Token) /\ Len(o) = 4 - m
          /\ \A i \in 1 .. 4 - m : o[i] = l[m + i]
      BY <1>1, <2>1, CutFacts
    <2> HIDE DEF o
    <2> QED BY <1>2, <2>2, Zenon
  <1>4. /\ t \in Seq(Token) /\ Len(t) = n - 1 /\ \A i \in 1 .. n - 1 : t[i] = l[k + i]
    <2>1. k \in Nat /\ 4 \in Nat /\ k <= 4 /\ 4 <= Len(l)
      BY <1>2
    <2>2. /\ t \in Seq(Token) /\ Len(t) = 4 - k
          /\ \A i \in 1 .. 4 - k : t[i] = l[k + i]
      BY <1>1, <2>1, CutFacts
    <2> HIDE DEF t
    <2> QED BY <1>2, <2>2, Zenon
  <1>5. u \in Seq(Token) /\ Len(u) = m /\ \A i \in 1 .. m : u[i] = l[i]
    BY <1>1, <1>2, PrefixFacts
  <1>6. v \in Seq(Token) /\ Len(v) = k /\ \A i \in 1 .. k : v[i] = l[i]
    BY <1>1, <1>2, PrefixFacts
  <1>7. l[k] \in Token
    BY <1>1, <1>2
  <1> HIDE DEF o, t, u, v
  <1>8. /\ w \in Seq(Token) /\ Len(w) = k /\ w[k] = l[k]
        /\ \A i \in 1 .. m : w[i] = u[i]
    BY <1>2, <1>5, <1>7
  <1> HIDE DEF w
  <1>9. v = w
    <2>1. \A i \in 1 .. k : i \in 1 .. m \/ i = k
      BY <1>2
    <2>2. \A i \in 1 .. Len(v) : v[i] = w[i]
      BY <1>5, <1>6, <1>8, <2>1, Zenon
    <2> QED BY <1>6, <1>8, <2>2, SameElements
  <1>10. Head(o) = l[k]
    <2>1. 1 \in 1 .. n /\ Head(o) = o[1]
      BY <1>2, <1>3
    <2> QED BY <1>2, <1>3, <2>1
  <1>11. x \in Seq(Token) /\ Len(x) = n - 1 /\ \A i \in 1 .. n - 1 : x[i] = o[i + 1]
    BY <1>2, <1>3
  <1> HIDE DEF x
  <1>12. x = t
    <2>1. ASSUME NEW i \in 1 .. n - 1 PROVE x[i] = t[i]
      <3>1. i + 1 \in 1 .. n /\ m + (i + 1) = k + i
        BY <1>2
      <3>2. o[i + 1] = l[m + (i + 1)]
        BY <1>3, <3>1, Zenon
      <3> QED BY <1>4, <1>11, <3>1, <3>2
    <2> QED BY <1>4, <1>11, <2>1, SameElements
  <1>13. /\ o = SubSeq(l, 5 - n, 4) /\ t = SubSeq(l, 5 - (n - 1), 4)
         /\ u = SubSeq(l, 1, 4 - n) /\ v = SubSeq(l, 1, 4 - (n - 1)) /\ k = 5 - n
         /\ w = Append(SubSeq(l, 1, 4 - n), l[5 - n])
    BY <1>2 DEF o, t, u, v, w, m, k
  <1>14. /\ o \in Seq(Token) /\ Len(o) = n /\ Head(o) = l[5 - n]
         /\ l[5 - n] \in Token /\ u \in Seq(Token) /\ Tail(o) = t /\ v = w
    BY <1>3, <1>5, <1>7, <1>9, <1>10, <1>12, <1>13, Zenon DEF x
  <1> QED BY <1>13, <1>14, Zenon DEF l

\* The environment at hand, and the package to install.
LEMMA AtHand ==
    ASSUME ControlInv, vpc # "idle"
    PROVE  /\ Ve!E \in Envs
           /\ vpc \in {"check", "write", "file"} => args.install \in Pkgs
  <1>1. env \in Seq(Envs) /\ env # <<>> /\ args \in Ve!Args /\ Due(Caller, args)
    BY DEF ControlInv
  <1>2. Ve!E \in Envs
    BY <1>1 DEF Ve!E
  <1>3. ASSUME vpc \in {"check", "write", "file"} PROVE args.install \in Pkgs
    <2>1. Caller = "check"
      BY <1>3 DEF Caller
    <2>2. args.install # Ve!None
      BY <1>1, <2>1 DEF Due
    <2> QED BY <1>1, <2>2, ArgsFacts
  <1> QED BY <1>2, <1>3

\* Between two functions the files are what the lists say.
LEMMA Settled ==
    ASSUME ControlInv', vpc' \in Between, DiskInv', \A e \in Envs : Named(Ed!Lines(req'[e])),
           \A e \in Envs \ torn' : req'[e] = Body(list'[e])
    PROVE  VenvInv'
  <1>1. vpc' \notin {"write", "file", "flush"}
    BY DEF Between
  <1>2. NamesInv' /\ WriteInv'
    BY <1>1 DEF NamesInv, WriteInv
  <1>3. ListInv'
    <2>1. \A e \in Envs : Expected(e)' = Body(list'[e])
      BY <1>1 DEF Expected
    <2> QED BY <1>1, <2>1 DEF ListInv
  <1> QED BY <1>2, <1>3 DEF VenvInv

LEMMA SettledNow ==
    ASSUME VenvInv, vpc \notin {"write", "file", "flush"}
    PROVE  \A e \in Envs \ torn : req[e] = Body(list[e])
  BY DEF VenvInv, ListInv, Expected

\* A step of main that leaves the files alone.
LEMMA QuietInv ==
    ASSUME VenvInv, ControlInv', vpc' \in Between, vpc \in Between,
           UNCHANGED <<dirs, has, req, files, list, torn>>
    PROVE  VenvInv'
  <1>1. vpc \notin {"write", "file", "flush", "open"}
    BY DEF Between
  <1>2. \A e \in Envs \ torn : req[e] = Body(list[e])
    BY <1>1, SettledNow
  <1>3. DiskInv'
    BY <1>1 DEF VenvInv, DiskInv
  <1>4. \A e \in Envs : Named(Ed!Lines(req[e]))
    BY DEF VenvInv, NamesInv
  <1> QED BY <1>2, <1>3, <1>4, Settled

LEMMA RunInv == ASSUME VenvInv, NEW a \in Ve!Args, Ve!Run(a) PROVE VenvInv'
  <1>1. ControlInv' /\ vpc' \in Between
    <2>1. Ve!Call(a, Ve!Phases(a))
      BY DEF Ve!Run
    <2> QED BY <2>1, PhasesFacts, CallInv
  <1>2. vpc \in Between /\ UNCHANGED <<dirs, has, req, files, list, torn>>
    BY DEF Ve!Run, Ve!disk, Between
  <1> QED BY <1>1, <1>2, QuietInv

\* A function that fails ends the run.
LEMMA ErrInv ==
    ASSUME VenvInv, Ve!MkdirFails \/ Ve!CheckFails \/ Ve!LoadFails
    PROVE  VenvInv'
  <1>1. vpc \in Between /\ vpc' = "idle" /\ UNCHANGED <<dirs, has, req, files, list, torn>>
    BY DEF Ve!MkdirFails, Ve!CheckFails, Ve!LoadFails, Ve!Err, Ve!End, Ve!disk, Between
  <1>2. ControlInv' /\ vpc' \in Between
    BY <1>1 DEF ControlInv, Between
  <1> QED BY <1>1, <1>2, QuietInv

LEMMA MkdirInv == ASSUME VenvInv, Ve!Mkdir PROVE VenvInv'
  <1>1. /\ vpc = "mkdir" /\ vpc' = "open" /\ dirs' = dirs \cup {Ve!E}
        /\ UNCHANGED <<args, env, has, req, files, list, torn>>
    BY DEF Ve!Mkdir
  <1>2. Ve!E \in Envs /\ Ve!E' = Ve!E
    BY <1>1, AtHand DEF VenvInv, Ve!E
  <1>3. ControlInv'
    BY <1>1 DEF VenvInv, ControlInv, Caller, Due
  <1>4. DiskInv'
    BY <1>1, <1>2 DEF VenvInv, DiskInv
  <1>5. NamesInv' /\ WriteInv'
    BY <1>1 DEF VenvInv, NamesInv, WriteInv
  <1>6. ListInv'
    BY <1>1 DEF VenvInv, ListInv, Expected
  <1> QED BY <1>3, <1>4, <1>5, <1>6 DEF VenvInv

LEMMA OpenInv == ASSUME VenvInv, Ve!OpenRequirements PROVE VenvInv'
  <1>1. /\ vpc = "open" /\ has' = has \cup {Ve!E} /\ Ve!Loop("mkdir")
        /\ UNCHANGED <<dirs, req, files, list, torn>>
    BY DEF Ve!OpenRequirements
  <1>2. Caller = "mkdir" /\ ControlInv
    BY <1>1 DEF Caller, VenvInv
  <1>3. ControlInv' /\ vpc' \in Between
    BY <1>1, <1>2, LoopInv
  <1>4. DiskInv'
    BY <1>1 DEF VenvInv, DiskInv
  <1>5. \A e \in Envs \ torn : req[e] = Body(list[e])
    BY <1>1, SettledNow
  <1>6. \A e \in Envs : Named(Ed!Lines(req[e]))
    BY DEF VenvInv, NamesInv
  <1> QED BY <1>1, <1>3, <1>4, <1>5, <1>6, Settled

LEMMA CheckInv == ASSUME VenvInv, Ve!Check PROVE VenvInv'
  <1> DEFINE l == Ve!LineOf(args.install)
  <1>1. /\ vpc = "check" /\ vpc' = "write" /\ out' = l
        /\ Ve!Readable("check", req[Ve!E]) /\ Ve!Free(req[Ve!E], args.install)
        /\ UNCHANGED <<args, env, dirs, has, req, files, list, torn>>
    BY DEF Ve!Check, Ve!CanInstall, Ve!disk, Ve!LineOf
  <1>2. args.install \in Pkgs /\ Ve!E \in Envs /\ Ve!E' = Ve!E
    BY <1>1, AtHand DEF VenvInv, Ve!E
  <1>3. Len(l) = 4 /\ l \in Seq(Token)
    BY <1>2, LineOfFacts
  <1>4. SubSeq(l, 1, 4) = l /\ SubSeq(l, 1, 0) = <<>>
    <2> HIDE DEF l
    <2> QED BY <1>3, Prefix
  <1>5. ControlInv'
    BY <1>1 DEF VenvInv, ControlInv, Caller, Due
  <1>6. DiskInv'
    BY <1>1, <1>2 DEF VenvInv, DiskInv
  <1>7. NamesInv'
    BY <1>1 DEF VenvInv, NamesInv
  <1> HIDE DEF l
  <1>8. WriteInv'
    <2>1. Len(out') \in 1 .. 4 /\ 5 - Len(out') = 1 /\ ~(Len(out') < 4) /\ ~(Len(out') < 3)
      BY <1>1, <1>3
    <2>2. Ve!LineOf(args'.install) = l
      BY <1>1 DEF l
    <2>3. out' = SubSeq(Ve!LineOf(args'.install), 5 - Len(out'), 4)
      BY <1>1, <1>4, <2>1, <2>2
    <2>4. Ve!Readable("check", req'[Ve!E']) /\ Ve!Free(req'[Ve!E'], args'.install)
      BY <1>1, <1>2
    <2> QED BY <2>1, <2>3, <2>4 DEF WriteInv
  <1>9. ListInv'
    <2>1. \A e \in Envs \ torn : req[e] = Body(list[e])
      BY <1>1, SettledNow
    <2>2. 4 - Len(out') = 0
      BY <1>1, <1>3
    <2>3. \A e \in Envs : Expected(e)' = IF e = Ve!E THEN Body(list[e]) \o <<>> ELSE Body(list[e])
      BY <1>1, <1>2, <1>4, <2>2 DEF Expected, l
    <2>4. \A e \in Envs : Body(list[e]) \o <<>> = Body(list[e])
      <3>1. \A e \in Envs : list[e] \in Seq(Pkgs)
        BY DEF VenvInv, DiskInv
      <3>2. \A e \in Envs : Body(list[e]) \in Seq(Token)
        BY <3>1, LinesForFacts
      <3> QED BY <3>2, JoinFacts
    <2>5. \A e \in Envs : Expected(e)' = Body(list[e])
      BY <2>3, <2>4, Zenon
    <2> QED BY <1>1, <2>1, <2>5 DEF ListInv
  <1> QED BY <1>5, <1>6, <1>7, <1>8, <1>9 DEF VenvInv

\* write_line appends the next of the four tokens.
LEMMA WriteTokenInv == ASSUME VenvInv, Ve!WriteToken PROVE VenvInv'
  <1>0. PICK e \in Envs : e = Ve!E
    BY AtHand DEF VenvInv, Ve!WriteToken
  <1> DEFINE q == args.install
             l == Ve!LineOf(q)
             f == req[e]
             n == Len(out)
             t == l[5 - n]
             g == Append(f, t)
  <1>1. /\ vpc = "write" /\ vpc' = IF n = 1 THEN "file" ELSE "write"
        /\ req' = [req EXCEPT ![e] = Append(f, Head(out))] /\ out' = Tail(out)
        /\ UNCHANGED <<args, env, dirs, has, files, list, torn>>
    BY <1>0 DEF Ve!WriteToken
  <1>2. q \in Pkgs /\ Ve!E = e /\ Ve!E' = e
    BY <1>0, <1>1, AtHand DEF VenvInv, Ve!E
  <1>3. /\ n \in 1 .. 4 /\ out = SubSeq(l, 5 - n, 4)
        /\ n = 4 => Ve!Readable("check", f) /\ Ve!Free(f, q)
        /\ n < 4 => ~Whole(f)
        /\ n < 3 => LongEnd(f)
    BY <1>0, <1>1, Zenon DEF VenvInv, WriteInv
  <1>4. /\ l[1] = q /\ l[2] = Ve!SP /\ l[3] = Version /\ l[4] = Ed!NL
    BY <1>2, LineOfFacts
  <1>5. /\ Head(out) = t /\ t \in Token /\ SubSeq(l, 1, 4 - n) \in Seq(Token)
        /\ Tail(out) = SubSeq(l, 5 - (n - 1), 4)
        /\ SubSeq(l, 1, 4 - (n - 1)) = Append(SubSeq(l, 1, 4 - n), t)
    BY <1>2, <1>3, LineParts, Zenon
  <1>6. /\ f \in Seq(Token) /\ Named(Ed!Lines(f)) /\ list[e] \in Seq(Pkgs)
        /\ req \in [Envs -> Seq(Token)]
    BY <1>2 DEF VenvInv, DiskInv, NamesInv
  <1>7. n > 1 => Len(out') = n - 1
    <2>1. n > 1 => n - 1 \in 1 .. 4
      BY <1>3
    <2> QED BY <1>1, <1>2, <1>5, <2>1, LineParts, Zenon
  <1>8. req' = [req EXCEPT ![e] = g]
    BY <1>1, <1>5
  <1>9. /\ n = 4 => t = q
        /\ n = 3 => t = Ve!SP
        /\ n = 2 => t = Version
        /\ n = 1 => t = Ed!NL
    <2>1. 5 - 4 = 1 /\ 5 - 3 = 2 /\ 5 - 2 = 3 /\ 5 - 1 = 4
      OBVIOUS
    <2> QED BY <1>4, <2>1, Zenon
  <1>10. n = 4 \/ n = 3 \/ n = 2 \/ n = 1
    BY <1>3
  <1> HIDE DEF q, l, f, n, t
  <1>11. g \in Seq(Token) /\ (Whole(g) <=> t = Ed!NL)
    BY <1>5, <1>6, WholeToken
  <1>12. n > 1 => t # Ed!NL
    <2>1. q # Ed!NL /\ Ve!SP # Ed!NL /\ Version # Ed!NL
      BY <1>2, Tokens
    <2>2. n = 1 => ~(n > 1)
      OBVIOUS
    <2> QED BY <1>9, <1>10, <2>1, <2>2, Zenon
  <1>13. Named(Ed!Lines(g)) /\ (n < 4 => LongEnd(g))
    <2>1. CASE n = 4
      <3>1. Named(Ed!Lines(Append(f, q)))
        BY <1>2, <1>3, <1>6, <2>1, NamedBegins
      <3> QED BY <1>9, <2>1, <3>1
    <2>2. CASE n = 3
      <3>1. ~Whole(f) /\ t = Ve!SP
        BY <1>3, <1>9, <2>2
      <3> QED BY <1>5, <1>6, <3>1, NamedGrows
    <2>3. CASE n = 2 \/ n = 1
      <3>1. ~Whole(f) /\ LongEnd(f)
        BY <1>3, <2>3
      <3> QED BY <1>5, <1>6, <3>1, NamedGrows
    <2> QED BY <1>10, <2>1, <2>2, <2>3
  <1> HIDE DEF g
  <1>14. /\ req' \in [Envs -> Seq(Token)] /\ req'[e] = g
         /\ \A x \in Envs : x # e => req'[x] = req[x]
    BY <1>2, <1>6, <1>8, <1>11
  <1>15. ControlInv'
    BY <1>1 DEF VenvInv, ControlInv, Caller, Due
  <1>16. DiskInv'
    BY <1>1, <1>14 DEF VenvInv, DiskInv
  <1>17. NamesInv'
    <2>1. vpc' # "flush"
      BY <1>1
    <2>2. \A x \in Envs : Named(Ed!Lines(req'[x]))
      BY <1>13, <1>14, Zenon DEF VenvInv, NamesInv
    <2> QED BY <2>1, <2>2 DEF NamesInv
  <1>18. WriteInv'
    <2> SUFFICES ASSUME vpc' = "write" PROVE WriteInv'
      BY DEF WriteInv
    <2>1. n > 1
      BY <1>1, <1>10
    <2>2. Len(out') = n - 1
      BY <1>7, <2>1
    <2>3. /\ Len(out') \in 1 .. 4 /\ Len(out') # 4 /\ (Len(out') < 3 => n < 4)
      BY <1>10, <2>1, <2>2
    <2>4. args'.install = q /\ Ve!E' = e
      BY <1>1, <1>2 DEF q
    <2>5. out' = SubSeq(Ve!LineOf(args'.install), 5 - Len(out'), 4)
      BY <1>1, <1>5, <2>2, <2>4 DEF l
    <2>6. ~Whole(req'[Ve!E'])
      BY <1>11, <1>12, <1>14, <2>1, <2>4
    <2>7. Len(out') < 3 => LongEnd(req'[Ve!E'])
      BY <1>13, <1>14, <2>3, <2>4
    <2> QED BY <2>3, <2>5, <2>6, <2>7 DEF WriteInv
  <1>19. ListInv'
    <2> DEFINE s == SubSeq(l, 1, 4 - n)
               b == Body(list[e])
    <2>1. \A x \in Envs \ torn : x # e => req[x] = Body(list[x])
      BY <1>1, <1>2 DEF VenvInv, ListInv, Expected
    <2>2. e \notin torn => f = b \o s
      BY <1>1, <1>2 DEF VenvInv, ListInv, Expected, f, l, q, n
    <2>3. b \in Seq(Token) /\ s \in Seq(Token)
      BY <1>5, <1>6, LinesForFacts
    <2> HIDE DEF b, s
    <2>4. e \notin torn => g = b \o Append(s, t)
      <3>1. b \o Append(s, t) = Append(b \o s, t)
        BY <1>5, <2>3, JoinAppend, SMTT(30)
      <3> QED BY <2>2, <3>1, Zenon DEF g
    <2>5. Append(s, t) = SubSeq(l, 1, 4 - (n - 1))
      BY <1>5 DEF s
    <2>6. vpc' = "file" => n = 1 /\ 4 - (n - 1) = 4
      BY <1>1
    <2>7. vpc' = "write" => 4 - Len(out') = 4 - (n - 1)
      <3>1. vpc' = "write" => n > 1
        BY <1>1, <1>10
      <3> QED BY <1>7, <3>1
    <2>8. vpc' = "write" \/ vpc' = "file"
      BY <1>1
    <2>9. args'.install = q /\ Ve!E' = e /\ list' = list
      BY <1>1, <1>2 DEF q
    <2>10. Expected(e)' = b \o SubSeq(l, 1, 4 - (n - 1))
      <3>1. CASE vpc' = "file"
        <4>1. Expected(e)' = b \o SubSeq(l, 1, 4)
          BY <2>9, <3>1 DEF Expected, b, l
        <4> QED BY <2>6, <3>1, <4>1
      <3>2. CASE vpc' = "write"
        <4>1. Expected(e)' = b \o SubSeq(l, 1, 4 - Len(out'))
          BY <2>9, <3>2 DEF Expected, b, l
        <4> QED BY <2>7, <3>2, <4>1
      <3> QED BY <2>8, <3>1, <3>2
    <2>11. \A x \in Envs : x # e => Expected(x)' = Body(list[x])
      BY <2>9 DEF Expected
    <2>12. \A x \in Envs \ torn' : req'[x] = Expected(x)'
      BY <1>1, <1>14, <2>1, <2>4, <2>5, <2>10, <2>11
    <2>13. vpc' # "flush"
      BY <2>8
    <2> QED BY <2>12, <2>13 DEF ListInv
  <1> QED BY <1>15, <1>16, <1>17, <1>18, <1>19 DEF VenvInv

LEMMA PackageFileInv == ASSUME VenvInv, Ve!PackageFile PROVE VenvInv'
  <1> DEFINE e == Ve!E
             q == args.install
             r == Append(list[e], q)
  <1>1. /\ vpc = "file" /\ files' = [files EXCEPT ![e] = @ \cup {q}]
        /\ list' = [list EXCEPT ![e] = r] /\ Ve!Loop("check")
        /\ UNCHANGED <<dirs, has, req, torn>>
    BY DEF Ve!PackageFile
  <1>2. q \in Pkgs /\ e \in Envs
    BY <1>1, AtHand DEF VenvInv
  <1>3. /\ req \in [Envs -> Seq(Token)] /\ list \in [Envs -> Seq(Pkgs)]
        /\ dirs \subseteq Envs /\ files \in [Envs -> SUBSET Pkgs]
        /\ \A x \in Envs : \A j \in 1 .. Len(list[x]) : list[x][j] \in files[x]
        /\ \A x \in dirs \ torn : x \in has
    BY <1>1 DEF VenvInv, DiskInv
  <1>4. Caller = "check" /\ ControlInv
    BY <1>1 DEF Caller, VenvInv
  <1>5. ControlInv' /\ vpc' \in Between
    BY <1>1, <1>4, LoopInv
  <1>6. /\ r \in Seq(Pkgs) /\ \A j \in 1 .. Len(r) : r[j] \in files[e] \cup {q}
    BY <1>2, <1>3
  <1>7. Body(r) = Body(list[e]) \o Ve!LineOf(q)
    BY <1>2, <1>3, BodyAppend
  <1>8. e \notin torn => req[e] = Body(list[e]) \o SubSeq(Ve!LineOf(q), 1, 4)
    BY <1>1, <1>2 DEF VenvInv, ListInv, Expected
  <1>9. \A x \in Envs \ torn : x # e => req[x] = Body(list[x])
    BY <1>1 DEF VenvInv, ListInv, Expected
  <1>10. SubSeq(Ve!LineOf(q), 1, 4) = Ve!LineOf(q)
    BY <1>2, LineOfFacts, Prefix
  <1>11. \A x \in Envs : Named(Ed!Lines(req[x]))
    BY DEF VenvInv, NamesInv
  <1> HIDE DEF e, q, r
  <1>12. /\ list' \in [Envs -> Seq(Pkgs)] /\ list'[e] = r
         /\ \A x \in Envs : x # e => list'[x] = list[x]
    BY <1>1, <1>2, <1>3, <1>6
  <1>13. /\ files' \in [Envs -> SUBSET Pkgs] /\ files'[e] = files[e] \cup {q}
         /\ \A x \in Envs : x # e => files'[x] = files[x]
    BY <1>1, <1>2, <1>3
  <1>14. \A x \in Envs : \A j \in 1 .. Len(list'[x]) : list'[x][j] \in files'[x]
    BY <1>3, <1>6, <1>12, <1>13, Zenon
  <1>15. DiskInv'
    BY <1>1, <1>3, <1>12, <1>13, <1>14 DEF DiskInv
  <1>16. \A x \in Envs \ torn : req[x] = Body(list'[x])
    BY <1>7, <1>8, <1>9, <1>10, <1>12, Zenon
  <1> QED BY <1>1, <1>5, <1>11, <1>15, <1>16, Settled

LEMMA LoadInv == ASSUME VenvInv, Ve!Load PROVE VenvInv'
  <1>0. PICK e \in Envs : e = Ve!E
    BY AtHand DEF VenvInv, Ve!Load
  <1> DEFINE p == args.remove
             f == req[e]
             g == Ve!Kept(f, p)
  <1>1. /\ vpc = "load" /\ vpc' = "flush" /\ out' = g /\ req' = [req EXCEPT ![e] = <<>>]
        /\ Ve!Readable("load", f) /\ Ve!Listed(f, p)
        /\ UNCHANGED <<args, env, dirs, has, files, list, torn>>
    BY <1>0 DEF Ve!Load, Ve!CanRemove
  <1>2. Ve!E = e /\ Ve!E' = e
    BY <1>0, <1>1 DEF Ve!E
  <1>3. /\ f \in Seq(Token) /\ Named(Ed!Lines(f)) /\ list[e] \in Seq(Pkgs)
        /\ req \in [Envs -> Seq(Token)]
    BY <1>2 DEF VenvInv, DiskInv, NamesInv
  <1>4. g \in Seq(Token) /\ Named(Ed!Lines(g))
    <2> HIDE DEF f, p
    <2> QED BY <1>1, <1>3, KeptFacts
  <1>5. \A x \in Envs \ torn : req[x] = Body(list[x])
    BY <1>1, SettledNow
  <1>6. e \notin torn => g = Body(Ve!RemoveFirst(list[e], p))
    <2> SUFFICES ASSUME e \notin torn PROVE g = Body(Ve!RemoveFirst(list[e], p))
      OBVIOUS
    <2>1. f = Body(list[e])
      BY <1>2, <1>5
    <2> DEFINE s == list[e]
    <2>2. s \in Seq(Pkgs) /\ f = Body(s)
      BY <1>3, <2>1
    <2> HIDE DEF f, p, s
    <2>3. Ed!Lines(f) = LinesFor(s)
      BY <2>2, LinesForFacts
    <2>4. Named(LinesFor(s)) /\ Ve!Readable("load", Body(s)) /\ Ve!Listed(Body(s), p)
      BY <1>1, <1>3, <2>2, <2>3, Zenon
    <2>5. Ve!Kept(Body(s), p) = Body(Ve!RemoveFirst(s, p))
      BY <2>2, <2>4, KeptBody
    <2> QED BY <2>2, <2>5, Zenon DEF s
  <1>7. <<>> \in Seq(Token) /\ Named(Ed!Lines(<<>>))
    BY LinesEmpty DEF Named
  <1> HIDE DEF f, g, p
  <1>8. /\ req' \in [Envs -> Seq(Token)] /\ req'[e] = <<>>
        /\ \A x \in Envs : x # e => req'[x] = req[x]
    BY <1>1, <1>2, <1>3, <1>7
  <1>9. ControlInv'
    BY <1>1 DEF VenvInv, ControlInv, Caller, Due
  <1>10. DiskInv'
    BY <1>1, <1>8 DEF VenvInv, DiskInv
  <1>11. NamesInv'
    <2>1. \A x \in Envs : Named(Ed!Lines(req'[x]))
      BY <1>7, <1>8, Zenon DEF VenvInv, NamesInv
    <2>2. out' \in Seq(Token) /\ Named(Ed!Lines(out'))
      BY <1>1, <1>4
    <2> QED BY <2>1, <2>2 DEF NamesInv
  <1>12. WriteInv'
    BY <1>1 DEF WriteInv
  <1>13. ListInv'
    <2>1. args'.remove = p /\ Ve!E' = e /\ list' = list /\ torn' = torn
      BY <1>1, <1>2 DEF p
    <2>2. /\ Expected(e)' = <<>>
          /\ \A x \in Envs : x # e => Expected(x)' = Body(list[x])
      BY <1>1, <2>1 DEF Expected
    <2>3. \A x \in Envs \ torn' : req'[x] = Expected(x)'
      BY <1>5, <1>8, <2>1, <2>2
    <2>4. Ve!E' \notin torn' => out' = Body(Ve!RemoveFirst(list'[Ve!E'], args'.remove))
      BY <1>1, <1>6, <2>1
    <2> QED BY <2>3, <2>4 DEF ListInv
  <1> QED BY <1>9, <1>10, <1>11, <1>12, <1>13 DEF VenvInv

LEMMA FlushInv == ASSUME VenvInv, Ve!Flush PROVE VenvInv'
  <1> DEFINE e == Ve!E
             p == args.remove
             r == Ve!RemoveFirst(list[e], p)
  <1>1. /\ vpc = "flush" /\ req' = [req EXCEPT ![e] = out]
        /\ list' = [list EXCEPT ![e] = r] /\ Ve!Loop("load")
        /\ UNCHANGED <<dirs, has, files, torn>>
    BY DEF Ve!Flush
  <1>2. e \in Envs
    BY <1>1, AtHand DEF VenvInv
  <1>3. /\ req \in [Envs -> Seq(Token)] /\ list \in [Envs -> Seq(Pkgs)]
        /\ dirs \subseteq Envs /\ files \in [Envs -> SUBSET Pkgs]
        /\ \A x \in Envs : \A j \in 1 .. Len(list[x]) : list[x][j] \in files[x]
        /\ \A x \in dirs \ torn : x \in has
    BY <1>1 DEF VenvInv, DiskInv
  <1>4. Caller = "load" /\ ControlInv
    BY <1>1 DEF Caller, VenvInv
  <1>5. ControlInv' /\ vpc' \in Between
    BY <1>1, <1>4, LoopInv
  <1>6. /\ r \in Seq(Pkgs)
        /\ \A j \in 1 .. Len(r) : \E i \in 1 .. Len(list[e]) : r[j] = list[e][i]
    <2> DEFINE s == list[e]
    <2>1. s \in Seq(Pkgs)
      BY <1>2, <1>3
    <2> HIDE DEF s, p
    <2>2. /\ Ve!RemoveFirst(s, p) \in Seq(Pkgs)
          /\ \A j \in 1 .. Len(Ve!RemoveFirst(s, p)) :
                \E i \in 1 .. Len(s) : Ve!RemoveFirst(s, p)[j] = s[i]
      BY <2>1, StillListed
    <2> QED BY <2>2, Zenon DEF s
  <1>7. out \in Seq(Token) /\ Named(Ed!Lines(out))
    BY <1>1 DEF VenvInv, NamesInv
  <1>8. e \notin torn => out = Body(r)
    BY <1>1 DEF VenvInv, ListInv
  <1>9. \A x \in Envs \ torn : x # e => req[x] = Body(list[x])
    BY <1>1 DEF VenvInv, ListInv, Expected
  <1>10. \A x \in Envs : Named(Ed!Lines(req[x]))
    BY DEF VenvInv, NamesInv
  <1> HIDE DEF e, p, r
  <1>11. /\ list' \in [Envs -> Seq(Pkgs)] /\ list'[e] = r
         /\ \A x \in Envs : x # e => list'[x] = list[x]
    BY <1>1, <1>2, <1>3, <1>6
  <1>12. /\ req' \in [Envs -> Seq(Token)] /\ req'[e] = out
         /\ \A x \in Envs : x # e => req'[x] = req[x]
    BY <1>1, <1>2, <1>3, <1>7
  <1>13. \A x \in Envs : \A j \in 1 .. Len(list'[x]) : list'[x][j] \in files[x]
    <2>1. \A j \in 1 .. Len(r) : r[j] \in files[e]
      BY <1>2, <1>3, <1>6, Zenon
    <2>2. ASSUME NEW x \in Envs, NEW j \in 1 .. Len(list'[x]) PROVE list'[x][j] \in files[x]
      <3>1. CASE x = e
        BY <1>11, <2>1, <3>1
      <3>2. CASE x # e
        BY <1>3, <1>11, <3>2
      <3> QED BY <3>1, <3>2
    <2> QED BY <2>2
  <1>14. DiskInv'
    BY <1>1, <1>3, <1>11, <1>12, <1>13 DEF DiskInv
  <1>15. \A x \in Envs \ torn' : req'[x] = Body(list'[x])
    BY <1>1, <1>8, <1>9, <1>11, <1>12, Zenon
  <1>16. \A x \in Envs : Named(Ed!Lines(req'[x]))
    BY <1>7, <1>10, <1>12, Zenon
  <1> QED BY <1>5, <1>14, <1>15, <1>16, Settled

LEMMA KilledInv == ASSUME VenvInv, Ve!Killed PROVE VenvInv'
  <1>1. /\ vpc' = "idle" /\ torn' = torn \cup {Ve!E}
        /\ UNCHANGED <<dirs, has, req, files, list>>
    BY DEF Ve!Killed, Ve!End, Ve!disk
  <1>2. ControlInv' /\ vpc' \in Between
    BY <1>1 DEF ControlInv, Between
  <1>3. DiskInv'
    BY <1>1 DEF VenvInv, DiskInv
  <1>4. \A e \in Envs \ torn' : req[e] = Body(list[e])
    BY <1>1 DEF VenvInv, ListInv, Expected
  <1>5. \A e \in Envs : Named(Ed!Lines(req[e]))
    BY DEF VenvInv, NamesInv
  <1> QED BY <1>1, <1>2, <1>3, <1>4, <1>5, Settled

LEMMA VenvInit == LabInit => VenvInv
  <1> SUFFICES ASSUME LabInit PROVE VenvInv
    OBVIOUS
  <1>1. /\ vpc = "idle" /\ dirs = {} /\ req = [e \in Envs |-> <<>>]
        /\ files = [e \in Envs |-> {}] /\ list = [e \in Envs |-> <<>>]
    BY DEF LabInit, Ve!Init
  <1>2. Body(<<>>) = <<>>
    <2>1. LinesFor(<<>>) = <<>>
      BY DEF LinesFor
    <2> QED BY <2>1, FlatEmpty, Zenon DEF Body
  <1>3. Named(Ed!Lines(<<>>))
    BY LinesEmpty DEF Named
  <1>4. ControlInv /\ WriteInv
    BY <1>1 DEF ControlInv, WriteInv
  <1>5. DiskInv
    <2>1. <<>> \in Seq(Token) /\ <<>> \in Seq(Pkgs) /\ Len(<<>>) = 0
      OBVIOUS
    <2> QED BY <1>1, <2>1 DEF DiskInv
  <1>6. NamesInv
    BY <1>1, <1>3 DEF NamesInv
  <1>7. ListInv
    BY <1>1, <1>2 DEF ListInv, Expected
  <1> QED BY <1>4, <1>5, <1>6, <1>7 DEF VenvInv

LEMMA VenvStep == ASSUME VenvInv, [LabNext]_labVars PROVE VenvInv'
  <1>1. CASE UNCHANGED venvVars
    <2>1. ControlInv' /\ DiskInv' /\ NamesInv'
      BY <1>1 DEF venvVars, VenvInv, ControlInv, Caller, Due, DiskInv, NamesInv, Ve!E
    <2>2. WriteInv'
      BY <1>1 DEF venvVars, VenvInv, WriteInv, Ve!E
    <2>3. ListInv'
      <3>1. Ve!E' = Ve!E /\ UNCHANGED <<vpc, args, out, list, req, torn>>
        BY <1>1 DEF venvVars, Ve!E
      <3>2. \A e \in Envs : Expected(e)' = Expected(e)
        BY <3>1 DEF Expected
      <3>3. ListInv
        BY DEF VenvInv
      <3> QED BY <3>1, <3>2, <3>3 DEF ListInv
    <2> QED BY <2>1, <2>2, <2>3 DEF VenvInv
  <1>2. CASE \E a \in Ve!Args : Ve!Run(a)
    BY <1>2, RunInv
  <1>3. CASE Ve!Mkdir
    BY <1>3, MkdirInv
  <1>4. CASE Ve!MkdirFails \/ Ve!CheckFails \/ Ve!LoadFails
    BY <1>4, ErrInv
  <1>5. CASE Ve!OpenRequirements
    BY <1>5, OpenInv
  <1>6. CASE Ve!Check
    BY <1>6, CheckInv
  <1>7. CASE Ve!WriteToken
    BY <1>7, WriteTokenInv
  <1>8. CASE Ve!PackageFile
    BY <1>8, PackageFileInv
  <1>9. CASE Ve!Load
    BY <1>9, LoadInv
  <1>10. CASE Ve!Flush
    BY <1>10, FlushInv
  <1>11. CASE Ve!Killed
    BY <1>11, KilledInv
  <1>12. Ve!Next \/ UNCHANGED venvVars
    BY DEF LabNext, Counter, Editor, Venv, labVars
  <1> QED BY <1>1, <1>2, <1>3, <1>4, <1>5, <1>6, <1>7, <1>8, <1>9, <1>10, <1>11, <1>12 DEF Ve!Next

\* A line that is only a name is the last one of its file.
LEMMA OnceNamed ==
    ASSUME NEW f \in Seq(Token), Named(Ed!Lines(f)),
           NEW j \in 1 .. Len(Ed!Lines(f)), NEW k \in 1 .. Len(Ed!Lines(f)), j < k
    PROVE  Ve!NameIn(Ed!Lines(f)[j]) # Ve!NameIn(Ed!Lines(f)[k])
  <1> DEFINE s == Ed!Lines(f)
             l == s[j]
             m == s[k]
  <1>1. s \in Seq(Seq(Token)) /\ WellFormed(s) /\ Len(s) \in Nat
    BY LinesFacts DEF Texts
  <1>2. /\ l \in Seq(Token) /\ l # <<>> /\ l[1] \in Pkgs
        /\ Len(l) >= 2 => Ve!NameIn(l) = <<l[1]>>
    BY NamedLine, Zenon
  <1>3. /\ m \in Seq(Token)
        /\ Len(m) >= 2 => Ve!NameIn(m) = <<m[1]>>
        /\ Len(m) < 2 => Ve!NameIn(m) = <<>>
    BY NamedLine, Zenon
  <1>4. l[1] # m[1]
    <2>1. j # k
      OBVIOUS
    <2> QED BY <2>1, Zenon DEF Named
  <1> HIDE DEF s
  <1>5. Whole(l)
    <2>1. j \in 1 .. Len(s) /\ j < Len(s)
      BY <1>1 DEF s
    <2> QED BY <1>1, <2>1 DEF WellFormed
  <1> HIDE DEF l, m
  <1>6. Len(l) >= 2
    <2>1. \A n \in Nat \ {0} : n >= 2 \/ n = 1
      OBVIOUS
    <2>2. Len(l) \in Nat \ {0}
      BY <1>2
    <2>3. Len(l) # 1
      <3> SUFFICES ASSUME Len(l) = 1 PROVE FALSE
        OBVIOUS
      <3>1. l[1] = Ed!NL
        BY <1>2, <1>5 DEF Whole
      <3> QED BY <1>2, <3>1, Tokens
    <2> QED BY <2>1, <2>2, <2>3, Zenon
  <1>7. Len(m) >= 2 \/ Len(m) < 2
    BY <1>3
  <1>8. \A x, y : <<x>> # <<>> /\ (<<x>> = <<y>> => x = y)
    OBVIOUS
  <1>9. Ve!NameIn(l) # Ve!NameIn(m)
    BY <1>2, <1>3, <1>4, <1>6, <1>7, <1>8, Zenon
  <1> QED BY <1>9 DEF l, m, s

(* Between two runs of sop-venv.c, an environment without a torn line      *)
(* lists exactly the packages installed and not removed, each with its     *)
(* file, and no environment names a package on two lines: for any number   *)
(* of environments, packages, runs and kills.                              *)
THEOREM RequirementsKept == LabSpec => []RequirementsSound
  <1>1. LabInit => VenvInv
    BY VenvInit
  <1>2. VenvInv /\ [LabNext]_labVars => VenvInv'
    BY VenvStep
  <1>3. VenvInv => RequirementsSound
    <2> SUFFICES ASSUME VenvInv, vpc = "idle", NEW e \in dirs
                 PROVE  /\ e \notin torn =>
                             /\ e \in has
                             /\ req[e] = Ve!FlattenSeq([j \in DOMAIN list[e] |->
                                                           Ve!LineOf(list[e][j])])
                             /\ Ve!Range(list[e]) \subseteq files[e]
                        /\ \A j, k \in DOMAIN Ve!Lines(req[e]) :
                             j # k => Ve!NameIn(Ve!Lines(req[e])[j])
                                        # Ve!NameIn(Ve!Lines(req[e])[k])
      BY Zenon DEF RequirementsSound, Ve!RequirementsSound
    <2>1. /\ e \in Envs /\ list[e] \in Seq(Pkgs) /\ req[e] \in Seq(Token)
          /\ \A j \in 1 .. Len(list[e]) : list[e][j] \in files[e]
          /\ e \notin torn => e \in has
      BY DEF VenvInv, DiskInv
    <2>2. e \notin torn => req[e] = Body(list[e])
      BY <2>1, SettledNow
    <2>3. Body(list[e]) = Ve!FlattenSeq([j \in DOMAIN list[e] |-> Ve!LineOf(list[e][j])])
      BY SameLines, Zenon DEF Body, LinesFor
    <2>4. Ve!Range(list[e]) \subseteq files[e]
      <3>1. DOMAIN list[e] = 1 .. Len(list[e])
        BY <2>1
      <3> QED BY <2>1, <3>1, Zenon DEF Ve!Range
    <2>5. ASSUME NEW j \in DOMAIN Ve!Lines(req[e]), NEW k \in DOMAIN Ve!Lines(req[e]), j # k
          PROVE  Ve!NameIn(Ve!Lines(req[e])[j]) # Ve!NameIn(Ve!Lines(req[e])[k])
      <3> DEFINE f == req[e]
                 s == Ed!Lines(f)
      <3>1. f \in Seq(Token) /\ Named(s)
        BY <2>1 DEF VenvInv, NamesInv
      <3>2. Ve!Lines(f) = s
        BY SameLines, Zenon
      <3> HIDE DEF f
      <3>3. s \in Seq(Seq(Token)) /\ DOMAIN s = 1 .. Len(s)
        BY <3>1, LinesFacts DEF Texts
      <3> HIDE DEF s
      <3>4. j \in 1 .. Len(s) /\ k \in 1 .. Len(s)
        BY <2>5, <3>2, <3>3, Zenon DEF f
      <3>5. j < k \/ k < j
        BY <2>5, <3>3, <3>4
      <3>6. Ve!NameIn(s[j]) # Ve!NameIn(s[k])
        BY <3>1, <3>4, <3>5, OnceNamed, Zenon DEF s
      <3> QED BY <3>2, <3>6, Zenon DEF f
    <2> QED BY <2>1, <2>2, <2>3, <2>4, <2>5, Zenon
  <1> QED BY <1>1, <1>2, <1>3, PTL DEF LabSpec
=============================================================================
