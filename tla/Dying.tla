------------------------------- MODULE Dying -------------------------------
(***************************************************************************)
(* The robust mutex of sop2/lab03/dying.  The parent increments a shared   *)
(* counter, its child decrements it, both ITERATIONS times and under a     *)
(* process-shared robust mutex; but the child kills itself in its iteration*)
(* DEATH, after its decrement and with the mutex locked.  The parent, if   *)
(* it locks the mutex again, gets EOWNERDEAD and makes it consistent.      *)
(***************************************************************************)
EXTENDS Integers

CONSTANTS ITERATIONS,   \* 10000000 in the code
          DEATH         \* the iteration in which the child dies, 3 in the code

VARIABLES
    pc,        \* pc[p] : "unborn" or "fork", "lock", "read", "write", "unlock"; then
               \*   "die", "dead" for the child, "wait", "print", "done" for the parent
    it,        \* it[p] : the loop variable i
    copy,      \* copy[p] : the value of the counter p has read
    counter,
    mtx,       \* "free", "dead" (its owner died) or the owner
    printed    \* what the parent printed

vars == <<pc, it, copy, counter, mtx, printed>>

Both == {"producer", "consumer"}

Init == /\ pc = [p \in Both |-> IF p = "producer" THEN "fork" ELSE "unborn"]
        /\ it = [p \in Both |-> 0]
        /\ copy = [p \in Both |-> 0]
        /\ counter = 0
        /\ mtx = "free"
        /\ printed = {}

Goto(p, l) == pc' = [pc EXCEPT ![p] = l]

Fork == /\ pc["producer"] = "fork"
        /\ pc' = [p \in Both |-> "lock"]
        /\ UNCHANGED <<it, copy, counter, mtx, printed>>

\* Mutant: the mutex is not robust.
OwnerDeadNever == FALSE
OwnerDead == mtx = "dead"

(* pthread_mutex_lock, with pthread_mutex_consistent after EOWNERDEAD: only *)
(* the child dies, so only the parent can get it.                           *)
Lock(p) == /\ pc[p] = "lock" /\ it[p] < ITERATIONS
           /\ mtx = "free" \/ OwnerDead
           /\ mtx' = p
           /\ Goto(p, "read")
           /\ UNCHANGED <<it, copy, counter, printed>>

\* counter++ and counter-- are a load and a store.
Read(p) == /\ pc[p] = "read"
           /\ copy' = [copy EXCEPT ![p] = counter]
           /\ Goto(p, "write")
           /\ UNCHANGED <<it, counter, mtx, printed>>

Dies(p) == p = "consumer" /\ it[p] = DEATH

Write(p) == /\ pc[p] = "write"
            /\ counter' = IF p = "producer" THEN copy[p] + 1 ELSE copy[p] - 1
            /\ Goto(p, IF Dies(p) THEN "die" ELSE "unlock")
            /\ UNCHANGED <<it, copy, mtx, printed>>

\* SIGKILL: the kernel marks the robust mutex of the dead owner.
Die == /\ pc["consumer"] = "die" /\ Goto("consumer", "dead")
       /\ mtx' = "dead"
       /\ UNCHANGED <<it, copy, counter, printed>>

Unlock(p) == /\ pc[p] = "unlock"
             /\ mtx' = "free"
             /\ it' = [it EXCEPT ![p] = @ + 1]
             /\ Goto(p, "lock")
             /\ UNCHANGED <<copy, counter, printed>>

ProducerDone == /\ pc["producer"] = "lock" /\ it["producer"] = ITERATIONS
                /\ Goto("producer", "wait")
                /\ UNCHANGED <<it, copy, counter, mtx, printed>>

\* wait, until there is no child.
Wait == /\ pc["producer"] = "wait" /\ pc["consumer"] = "dead"
        /\ Goto("producer", "print")
        /\ UNCHANGED <<it, copy, counter, mtx, printed>>

\* The counter is printed, the mutex destroyed and the memory unmapped.
Report == /\ pc["producer"] = "print" /\ Goto("producer", "done")
          /\ printed' = {counter}
          /\ UNCHANGED <<it, copy, counter, mtx>>

Step(p) == Lock(p) \/ Read(p) \/ Write(p) \/ Unlock(p)
Parent == Fork \/ Step("producer") \/ ProducerDone \/ Wait \/ Report
Child == Step("consumer") \/ Die

Next == Parent \/ Child

(* Both processes run when they can; since the parent's loop ends, that is *)
(* enough for the child to get the mutex.                                  *)
Fairness == WF_vars(Parent) /\ WF_vars(Child)

Spec == Init /\ [][Next]_vars
FairSpec == Spec /\ Fairness

-----------------------------------------------------------------------------
(* Properties.                                                             *)

(* Whenever the child dies, and whether or not the parent still needs the  *)
(* mutex then, the parent ends and prints the exact count: no update is    *)
(* lost, and the decrement of the dead child counts.                       *)
CountSurvives == <>(printed = {ITERATIONS - (DEATH + 1)})
=============================================================================
