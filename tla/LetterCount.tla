---------------------------- MODULE LetterCount ----------------------------
(***************************************************************************)
(* sop1/lab03/prelab/prelab.c: main puts the .txt files of a directory     *)
(* tree into a circular buffer, worker threads take them out and count     *)
(* their letters, one thread waits for signals.  Main sends SIGUSR1 to its *)
(* process group until the program is interrupted, then joins all threads. *)
(* A step is one critical section, one unlocked read of a shared variable, *)
(* or one blocking call.  A file is its position in the directory walk,    *)
(* with the number of letters it holds; all letters are counted together.  *)
(***************************************************************************)
EXTENDS Naturals, Sequences, FiniteSets

CONSTANTS Workers,        \* worker threads
          Letters,        \* sequence: letters in each .txt file of the tree
          CIRC_BUF_SIZE   \* slots of the circular buffer

ASSUME LetterAssumption == /\ Workers # {} /\ Letters \in Seq(Nat)
                           /\ CIRC_BUF_SIZE \in Nat \ {0}

VARIABLES buf, head, tail, len,   \* circ_buf
          walked,     \* files walk_dir has met so far
          freq,       \* letters counted
          quit,       \* the flag quit
          pending,    \* signals pending for the process
          sig,        \* the signal thread: "wait" in sigwait, or "ended"
          mpc,        \* main: "walk", "loop", "join", "exited"
          pc,         \* workers: "idle" (not created), "test", "pop", "read",
                      \*   "quit?", "count", "ended"
          file,       \* the file a worker has open
          left,       \* letters of that file not yet read
          popped      \* history: files taken out of the buffer, in order

ring == <<buf, head, tail, len>>
work == <<pc, file, left>>
vars == <<ring, walked, freq, quit, pending, sig, mpc, work, popped>>

Index == 0 .. CIRC_BUF_SIZE - 1
Files == 1 .. Len(Letters)

\* circ_buf_create has run.
Init == /\ buf = [k \in Index |-> 0] /\ head = 0 /\ tail = 0 /\ len = 0
        /\ walked = 0 /\ freq = 0 /\ quit = FALSE /\ pending = {}
        /\ sig = "wait" /\ mpc = "walk"
        /\ pc = [w \in Workers |-> "idle"]
        /\ file = [w \in Workers |-> 0] /\ left = [w \in Workers |-> 0]
        /\ popped = <<>>

Wrap(k) == IF k + 1 = CIRC_BUF_SIZE THEN 0 ELSE k + 1

-----------------------------------------------------------------------------
(* main                                                                    *)

Full == len = CIRC_BUF_SIZE

\* circ_buf_push of the next file; the loop on a full buffer is no step.
Push == /\ mpc = "walk" /\ walked < Len(Letters) /\ ~Full
        /\ buf' = [buf EXCEPT ![head] = walked + 1]
        /\ len' = len + 1
        /\ head' = Wrap(head)
        /\ walked' = walked + 1
        /\ UNCHANGED <<tail, freq, quit, pending, sig, mpc, work, popped>>

\* The walk is over: signals are blocked and all threads created.
StartThreads == /\ mpc = "walk" /\ walked = Len(Letters)
                /\ mpc' = "loop"
                /\ pc' = [w \in Workers |-> "test"]
                /\ UNCHANGED <<ring, walked, freq, quit, pending, sig, file, left, popped>>

\* Mutant: main never looks at the flag.
QuitSeenNever == FALSE
QuitSeen == quit

\* Every 100 ms: SIGUSR1 to the group, or, once quit is set, the joins.
Tick == /\ mpc = "loop"
        /\ IF QuitSeen THEN mpc' = "join" /\ UNCHANGED pending
                   ELSE pending' = pending \cup {"SIGUSR1"} /\ UNCHANGED mpc
        /\ UNCHANGED <<ring, walked, freq, quit, sig, work, popped>>

\* pthread_join has returned for every thread.
AllJoined == sig = "ended" /\ \A w \in Workers : pc[w] = "ended"

\* All threads are joined, everything is freed, the program exits.
Exit == /\ mpc = "join" /\ AllJoined
        /\ mpc' = "exited"
        /\ UNCHANGED <<ring, walked, freq, quit, pending, sig, work, popped>>

-----------------------------------------------------------------------------
(* signal_handling and its environment                                     *)

\* The user interrupts the program (SIGINT is blocked, so it stays pending).
Interrupt == /\ mpc = "loop" /\ sig = "wait"
             /\ pending' = pending \cup {"SIGINT"}
             /\ UNCHANGED <<ring, walked, freq, quit, sig, mpc, work, popped>>

\* sigwait returns SIGINT, which has the lower number, first.
OnSigint == /\ sig = "wait" /\ "SIGINT" \in pending
            /\ pending' = pending \ {"SIGINT"}
            /\ quit' = TRUE
            /\ sig' = "ended"
            /\ UNCHANGED <<ring, walked, freq, mpc, work, popped>>

\* The letter counts are printed.
OnSigusr1 == /\ sig = "wait" /\ pending = {"SIGUSR1"}
             /\ pending' = {}
             /\ UNCHANGED <<ring, walked, freq, quit, sig, mpc, work, popped>>

-----------------------------------------------------------------------------
(* thread_work                                                             *)

Goto(w, l) == pc' = [pc EXCEPT ![w] = l]

\* while (cb->len > 0), read without the mutex.
Test(w) == /\ pc[w] = "test"
           /\ Goto(w, IF len > 0 THEN "pop" ELSE "ended")
           /\ UNCHANGED <<ring, walked, freq, quit, pending, sig, mpc, file, left, popped>>

\* Mutant: the length is not tested again under the mutex.
CanPopAlways == TRUE
CanPop == len > 0

(* circ_buf_pop under its mutex; on an empty buffer it sleeps and tries    *)
(* again, which is no step.                                                *)
Pop(w) == /\ pc[w] = "pop" /\ CanPop
          /\ file' = [file EXCEPT ![w] = buf[tail]]
          /\ left' = [left EXCEPT ![w] = Letters[buf[tail]]]
          /\ popped' = Append(popped, buf[tail])
          /\ len' = len - 1
          /\ tail' = Wrap(tail)
          /\ Goto(w, "read")
          /\ UNCHANGED <<buf, head, walked, freq, quit, pending, sig, mpc>>

\* bulk_read of one letter; at the end of the file it is closed.
Read(w) == /\ pc[w] = "read"
           /\ IF left[w] > 0
                THEN Goto(w, "quit?") /\ left' = [left EXCEPT ![w] = @ - 1]
                ELSE Goto(w, "test") /\ UNCHANGED left
           /\ UNCHANGED <<ring, walked, freq, quit, pending, sig, mpc, file, popped>>

AfterQuitTest == IF quit THEN "ended" ELSE "count"

\* Under mx_quit: leave when the program was interrupted.
TestQuit(w) == /\ pc[w] = "quit?"
               /\ Goto(w, AfterQuitTest)
               /\ UNCHANGED <<ring, walked, freq, quit, pending, sig, mpc, file, left, popped>>

\* Under mx_freq: count the letter.
Count(w) == /\ pc[w] = "count"
            /\ freq' = freq + 1
            /\ Goto(w, "read")
            /\ UNCHANGED <<ring, walked, quit, pending, sig, mpc, file, left, popped>>

Work(w) == Test(w) \/ Pop(w) \/ Read(w) \/ TestQuit(w) \/ Count(w)
Signals == OnSigint \/ OnSigusr1

Next == \/ Push \/ StartThreads \/ Tick \/ Exit
        \/ Interrupt \/ OnSigint \/ OnSigusr1
        \/ \E w \in Workers : Work(w)

(* Every thread that can take a step does; the user need not interrupt.    *)
Fairness == /\ WF_vars(Push) /\ WF_vars(StartThreads) /\ WF_vars(Tick) /\ WF_vars(Exit)
            /\ WF_vars(Signals)
            /\ \A w \in Workers : WF_vars(Work(w))

Spec == Init /\ [][Next]_vars
FairSpec == Spec /\ Fairness

-----------------------------------------------------------------------------
(* Properties.                                                             *)

\* The indices and the length of circ_buf stay in range; every variable has its type.
TypeOK == /\ buf \in [Index -> 0 .. Len(Letters)]
          /\ head \in Index /\ tail \in Index /\ len \in 0 .. CIRC_BUF_SIZE
          /\ walked \in 0 .. Len(Letters) /\ freq \in Nat /\ quit \in BOOLEAN
          /\ pending \subseteq {"SIGINT", "SIGUSR1"}
          /\ sig \in {"wait", "ended"}
          /\ mpc \in {"walk", "loop", "join", "exited"}
          /\ pc \in [Workers -> {"idle", "test", "pop", "read", "quit?", "count", "ended"}]
          /\ file \in [Workers -> 0 .. Len(Letters)]
          /\ left \in [Workers -> Nat]
          /\ popped \in Seq(Files)

\* The letters of the tree, the k-th of file f being <<f, k>>.
AllLetters == UNION {{f} \X (1 .. Letters[f]) : f \in Files}

(* However the workers interleave, a program that was not interrupted has  *)
(* counted every letter of every file once when its workers have ended.    *)
CountsComplete ==
    /\ TypeOK
    /\ ~quit /\ mpc # "walk" /\ (\A w \in Workers : pc[w] = "ended")
        => freq = Cardinality(AllLetters)

\* A worker overtaken between its test of cb->len and its pop.
Overtaken(w) == pc[w] = "pop" /\ len = 0

(* After SIGINT the program ends, unless a worker was overtaken: that one  *)
(* spins in circ_buf_pop and main never joins it.                          *)
EndsUnlessOvertaken ==
    "SIGINT" \in pending ~> mpc = "exited" \/ \E w \in Workers : Overtaken(w)

\* The content of the circular buffer, oldest file first, numbered from 0.
Content == [k \in 1 .. len |-> buf[(tail + k - 1) % CIRC_BUF_SIZE] - 1]

(* The buffer implements the abstract bounded queue for many consumers:    *)
(* files are taken in the order of the walk, each exactly once.            *)
Fifo == INSTANCE BoundedFifo WITH
    Capacity <- CIRC_BUF_SIZE, Total <- Len(Letters), queue <- Content,
    put <- walked, taken <- [k \in 1 .. Len(popped) |-> popped[k] - 1]
FifoSpec == Fifo!FSpec
=============================================================================
