------------------------------ MODULE ProdCons ------------------------------
(***************************************************************************)
(* sop2/lab03/prod_cons: a producer (the parent) and a consumer (the       *)
(* forked child) share a ring buffer in shared memory, with one process-   *)
(* shared mutex and two condition variables.  Each step of a process is    *)
(* one call on the mutex or on a condition variable, or the code it runs   *)
(* between two of them while it holds the mutex.                           *)
(***************************************************************************)
EXTENDS Naturals, Sequences

CONSTANTS BUFFER_SIZE,   \* slots of the ring buffer (10 in the code)
          ITERATIONS,    \* items produced and consumed (20 in the code)
          MaxSpurious    \* bound on wakeups without a signal, of both processes

ASSUME ProdConsAssumption == /\ BUFFER_SIZE \in Nat \ {0}
                             /\ ITERATIONS \in Nat \ {0}
                             /\ MaxSpurious \in Nat

VARIABLES items, in, out, size,   \* context_t
          mtx,                    \* owner of ctx->mtx, or "none"
          alive,                  \* mutex and condition variables exist
          pc,                     \* where each process is
          i,                      \* the loop variables of the two processes
          spurious,               \* wakeups without a signal so far
          taken                   \* history: the items the consumer printed

ring == <<items, in, out, size>>
vars == <<ring, mtx, alive, pc, i, spurious, taken>>

Proc == {"P", "C"}
Other(p) == IF p = "P" THEN "C" ELSE "P"
Index == 0 .. BUFFER_SIZE - 1

\* memset and the pthread_*_init calls have run, fork has returned.
Init == /\ items = [k \in Index |-> 0]
        /\ in = 0 /\ out = 0 /\ size = 0
        /\ mtx = "none"
        /\ alive = TRUE
        /\ pc = [p \in Proc |-> "lock"]
        /\ i = [p \in Proc |-> 0]
        /\ spurious = 0
        /\ taken = <<>>

Goto(p, l) == pc' = [pc EXCEPT ![p] = l]

\* pthread_mutex_lock, also the one inside a woken pthread_cond_wait.
Lock(p) == /\ pc[p] \in {"lock", "woken"}
           /\ mtx = "none"
           /\ mtx' = p
           /\ Goto(p, "check")
           /\ UNCHANGED <<ring, alive, i, spurious, taken>>

Full == size >= BUFFER_SIZE
\* Mutant: the consumer does not test at all.
EmptyNever == FALSE
Empty == size = 0
MustWait(p) == IF p = "P" THEN Full ELSE Empty

\* pthread_cond_wait: the mutex is released and the process blocks at once.
Wait(p) == /\ pc[p] = "check" /\ MustWait(p)
           /\ mtx' = "none"
           /\ Goto(p, "blocked")
           /\ UNCHANGED <<ring, alive, i, spurious, taken>>

\* The producer stores its item, the consumer removes one.
Produce == /\ pc["P"] = "check" /\ ~MustWait("P")
           /\ items' = [items EXCEPT ![in] = i["P"]]
           /\ in' = (in + 1) % BUFFER_SIZE
           /\ size' = size + 1
           /\ Goto("P", "signal")
           /\ UNCHANGED <<out, mtx, alive, i, spurious, taken>>

Consume == /\ pc["C"] = "check" /\ ~MustWait("C")
           /\ taken' = Append(taken, items[out])
           /\ out' = (out + 1) % BUFFER_SIZE
           /\ size' = size - 1
           /\ Goto("C", "signal")
           /\ UNCHANGED <<items, in, mtx, alive, i, spurious>>

\* Mutant: the signal is given to nobody (the wrong condition variable).
AwakenNobody(p) == pc
Awaken(p) == IF pc[Other(p)] = "blocked" THEN [pc EXCEPT ![Other(p)] = "woken"]
             ELSE pc

\* Each process signals the condition variable only the other waits on.
Signal(p) == /\ pc[p] = "signal"
             /\ pc' = [Awaken(p) EXCEPT ![p] = "unlock"]
             /\ UNCHANGED <<ring, mtx, alive, i, spurious, taken>>

Unlock(p) == /\ pc[p] = "unlock"
             /\ mtx' = "none"
             /\ i' = [i EXCEPT ![p] = @ + 1]
             /\ Goto(p, IF i[p] + 1 < ITERATIONS THEN "lock" ELSE "end")
             /\ UNCHANGED <<ring, alive, spurious, taken>>

\* A condition variable may wake its waiter without a signal.
SpuriousWakeup(p) == /\ spurious < MaxSpurious
                     /\ pc[p] = "blocked"
                     /\ spurious' = spurious + 1
                     /\ Goto(p, "woken")
                     /\ UNCHANGED <<ring, mtx, alive, i, taken>>

\* The child leaves its switch case, unmaps the memory and exits.
ChildExit == /\ pc["C"] = "end"
             /\ Goto("C", "exited")
             /\ UNCHANGED <<ring, mtx, alive, i, spurious, taken>>

\* wait(NULL) has returned.
ChildrenGone == pc["C"] = "exited"

\* wait returns only when the child has exited; then everything is destroyed.
Destroy == /\ pc["P"] = "end" /\ ChildrenGone
           /\ alive' = FALSE
           /\ Goto("P", "exited")
           /\ UNCHANGED <<ring, mtx, i, spurious, taken>>

Finished == /\ \A p \in Proc : pc[p] = "exited"
            /\ UNCHANGED vars

Step(p) == Lock(p) \/ Wait(p) \/ Signal(p) \/ Unlock(p)

Next == \/ \E p \in Proc : Step(p) \/ SpuriousWakeup(p)
        \/ Produce \/ Consume
        \/ ChildExit \/ Destroy
        \/ Finished

(* A process that can run does.  Weak fairness is enough for the mutex:    *)
(* a process takes it only finitely often before it needs the other one.   *)
Fairness == /\ \A p \in Proc : WF_vars(Step(p))
            /\ WF_vars(Produce) /\ WF_vars(Consume)
            /\ WF_vars(ChildExit) /\ WF_vars(Destroy)

Spec == Init /\ [][Next]_vars
FairSpec == Spec /\ Fairness

-----------------------------------------------------------------------------
(* Properties.                                                             *)

Label == {"lock", "check", "signal", "unlock", "blocked", "woken", "end", "exited"}

\* Indices and size stay inside the array; every variable has its type.
TypeOK == /\ items \in [Index -> Nat]
          /\ in \in Index /\ out \in Index /\ size \in 0 .. BUFFER_SIZE
          /\ mtx \in Proc \cup {"none"}
          /\ alive \in BOOLEAN
          /\ pc \in [Proc -> Label]
          /\ i \in [Proc -> 0 .. ITERATIONS]
          /\ spurious \in 0 .. MaxSpurious
          /\ taken \in Seq(Nat)

(* The consumer's k-th item is the producer's k-th item: nothing is lost,  *)
(* repeated, overwritten or read before it was stored.                     *)
TakenInOrder == \A k \in 1 .. Len(taken) : taken[k] = k - 1

\* Number of items process p has stored or removed.
Done(p) == IF pc[p] \in {"signal", "unlock"} THEN i[p] + 1 ELSE i[p]

(* No wakeup is lost: the consumer sleeps only while the buffer is empty,  *)
(* or the producer is about to signal it; likewise the producer.           *)
NoLostWakeup == /\ pc["C"] = "blocked" => size = 0 \/ pc["P"] = "signal"
                /\ pc["P"] = "blocked" => size = BUFFER_SIZE \/ pc["C"] = "signal"

(* pthread_mutex_destroy and pthread_cond_destroy run when no process is   *)
(* at, or will come to, a call on the mutex or the condition variables.    *)
DestroyedUnused == ~alive => /\ mtx = "none"
                             /\ \A p \in Proc : pc[p] \in {"end", "exited"}

\* Both processes end and every item has been printed by the consumer.
AllConsumed == <>(/\ pc["P"] = "exited" /\ pc["C"] = "exited"
                  /\ Len(taken) = ITERATIONS)

\* The content of the ring buffer, oldest item first.
Content == [k \in 1 .. size |-> items[(out + k - 1) % BUFFER_SIZE]]

\* The ring buffer with its mutex implements the abstract bounded queue.
Fifo == INSTANCE BoundedFifo WITH
    Capacity <- BUFFER_SIZE, Total <- ITERATIONS,
    queue <- Content, put <- Done("P")
FifoSpec == Fifo!FSpec
=============================================================================
