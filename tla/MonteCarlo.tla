----------------------------- MODULE MonteCarlo -----------------------------
(***************************************************************************)
(* The Monte Carlo integration of sop2/lab03/zad02: any number of          *)
(* processes, started one by one, attach to the same shared memory, add    *)
(* their batches to it under a robust mutex, and the last one to leave     *)
(* prints the result and removes everything.  A named semaphore guards the *)
(* arrival, nothing guards the departure.  Every access to cnt_active that *)
(* is a read followed by a write is two steps; a process may be killed     *)
(* between any two steps.                                                  *)
(***************************************************************************)
EXTENDS Integers, FiniteSets

CONSTANTS Procs,      \* processes that are started
          BATCHES,    \* batches of each (3 in the code)
          MaxFaults   \* bound: processes killed and SIGINTs sent

ASSUME MonteCarloAssumption == /\ IsFiniteSet(Procs) /\ BATCHES \in Nat \ {0}
                               /\ MaxFaults \in Nat
                               /\ Procs \cap {"none", "free", "gone"} = {}

VARIABLES
    shmName, semName,  \* object the name stands for, 0 when it is unlinked
    shmMade, semMade,  \* objects created so far
    sval,              \* sval[s] : value of semaphore s
    mtx,               \* mtx[g] : mutex in memory g: "none", "free", "gone"
                       \*   (destroyed) or its owner, alive or dead
    cnt_active, total, total_hit, \* counters in memory g (totals in batches)
    pc,                \* where a process is
    shm, sem,          \* objects process p has opened, 0 before
    seen,              \* seen[p] : value of cnt_active that p has read
    done,              \* done[p] : batches of p (the loop counter)
    running,           \* sigh_args.running
    sig,               \* signal thread: "wait", "locked", "ended"
    kills, ints,
    semlost,           \* history: a process died with the semaphore
    overlap            \* history: an arrival met a departure or a repair

names == <<shmName, semName, shmMade, semMade>>
counters == <<total, total_hit>>
attached == <<shm, sem, done>>
signals == <<running, sig, ints>>
vars == <<names, sval, mtx, cnt_active, counters, pc, attached, seen, signals,
          kills, semlost, overlap>>

Objs == 1 .. Cardinality(Procs)
Arriving == {"init", "arrive", "arrived"}
Opening == {"sem", "semwait"}
Removing == {"destroy", "unlink", "semunlink"}
Working == {"lock", "fix", "fixed", "total", "hits", "check", "leave", "dec"}
Over == {"ended", "failed", "killed"}

Init == /\ shmName = 0 /\ semName = 0 /\ shmMade = 0 /\ semMade = 0
        /\ sval = [s \in Objs |-> 1]
        /\ mtx = [g \in Objs |-> "none"]
        /\ cnt_active = [g \in Objs |-> 0]
        /\ total = [g \in Objs |-> 0] /\ total_hit = [g \in Objs |-> 0]
        /\ pc = [p \in Procs |-> "start"]
        /\ shm = [p \in Procs |-> 0] /\ sem = [p \in Procs |-> 0]
        /\ seen = [p \in Procs |-> 0] /\ done = [p \in Procs |-> 0]
        /\ running = [p \in Procs |-> TRUE]
        /\ sig = [p \in Procs |-> "wait"]
        /\ kills = 0 /\ ints = 0
        /\ semlost = FALSE /\ overlap = FALSE

Goto(p, there) == pc' = [pc EXCEPT ![p] = there]

-----------------------------------------------------------------------------
(* Arrival.                                                                *)

\* shm_open: the object of that name, or a new one.
ShmOpen(p) ==
    /\ pc[p] = "start" /\ Goto(p, "sem")
    /\ shmMade' = IF shmName = 0 THEN shmMade + 1 ELSE shmMade
    /\ shmName' = IF shmName = 0 THEN shmMade' ELSE shmName
    /\ shm' = [shm EXCEPT ![p] = shmName']
    /\ UNCHANGED <<semName, semMade, sval, mtx, cnt_active, counters, sem, seen, done,
                   signals, kills, semlost>>

\* sem_open, with the value 1 if it is new.
SemOpen(p) ==
    /\ pc[p] = "sem" /\ Goto(p, "semwait")
    /\ semMade' = IF semName = 0 THEN semMade + 1 ELSE semMade
    /\ semName' = IF semName = 0 THEN semMade' ELSE semName
    /\ sem' = [sem EXCEPT ![p] = semName']
    /\ UNCHANGED <<shmName, shmMade, sval, mtx, cnt_active, counters, shm, seen, done,
                   signals, kills, semlost>>

SemWait(p) == /\ pc[p] = "semwait" /\ sval[sem[p]] = 1 /\ Goto(p, "init")
              /\ sval' = [sval EXCEPT ![sem[p]] = 0]
              /\ UNCHANGED <<names, mtx, cnt_active, counters, attached, seen, signals,
                             kills, semlost>>

\* The memory is mapped; the mutex is initialised if nobody is active.
InitMutex(p) == /\ pc[p] = "init" /\ Goto(p, "arrive")
                /\ mtx' = IF cnt_active[shm[p]] = 0
                            THEN [mtx EXCEPT ![shm[p]] = "free"] ELSE mtx
                /\ UNCHANGED <<names, sval, cnt_active, counters, attached, seen, signals,
                               kills, semlost>>

\* A process reads cnt_active, to write it changed in its next step.
ReadCount(p) ==
    /\ \/ pc[p] = "arrive" /\ Goto(p, "arrived")
       \/ pc[p] = "fix" /\ Goto(p, "fixed")
       \/ pc[p] = "leave" /\ Goto(p, "dec")
    /\ seen' = [seen EXCEPT ![p] = cnt_active[shm[p]]]
    /\ UNCHANGED <<names, sval, mtx, cnt_active, counters, attached, signals, kills, semlost>>

Posted(p) == [sval EXCEPT ![sem[p]] = 1]

\* cnt_active is incremented and the semaphore posted.
Arrive(p) == /\ pc[p] = "arrived" /\ Goto(p, "lock")
             /\ cnt_active' = [cnt_active EXCEPT ![shm[p]] = seen[p] + 1]
             /\ seen' = [seen EXCEPT ![p] = 0]
             /\ sval' = Posted(p)
             /\ UNCHANGED <<names, mtx, counters, attached, signals, kills, semlost>>

-----------------------------------------------------------------------------
(* The batches.                                                            *)

Dead(p) == pc[p] \in Over

\* Mutant: the mutex is not robust, a dead owner blocks it.
OwnerDeadNever(g) == FALSE
OwnerDead(g) == mtx[g] \in Procs /\ Dead(mtx[g])

\* pthread_mutex_lock: 0, EOWNERDEAD (then consistent), or EINVAL and ERR.
Lock(p) ==
    /\ pc[p] = "lock" /\ (mtx[shm[p]] \in {"free", "gone"} \/ OwnerDead(shm[p]))
    /\ Goto(p, IF mtx[shm[p]] = "free" THEN "total"
               ELSE IF mtx[shm[p]] = "gone" THEN "failed" ELSE "fix")
    /\ mtx' = IF mtx[shm[p]] = "gone" THEN mtx ELSE [mtx EXCEPT ![shm[p]] = p]
    /\ UNCHANGED <<names, sval, cnt_active, counters, attached, seen, signals, kills, semlost>>

\* The dead owner is no longer active.
Fix(p) == /\ pc[p] = "fixed" /\ Goto(p, "total")
          /\ cnt_active' = [cnt_active EXCEPT ![shm[p]] = seen[p] - 1]
          /\ seen' = [seen EXCEPT ![p] = 0]
          /\ UNCHANGED <<names, sval, mtx, counters, attached, signals, kills, semlost>>

\* process_batch, in two steps.
AddTotal(p) == /\ pc[p] = "total" /\ Goto(p, "hits")
               /\ total' = [total EXCEPT ![shm[p]] = @ + 1]
               /\ UNCHANGED <<names, sval, mtx, cnt_active, total_hit, attached, seen,
                              signals, kills, semlost>>

\* The hits are added and the mutex unlocked, if it is still the same one.
AddHits(p) ==
    /\ pc[p] = "hits" /\ Goto(p, "check")
    /\ total_hit' = [total_hit EXCEPT ![shm[p]] = @ + 1]
    /\ mtx' = IF mtx[shm[p]] = p THEN [mtx EXCEPT ![shm[p]] = "free"] ELSE mtx
    /\ UNCHANGED <<names, sval, cnt_active, total, attached, seen, signals, kills, semlost>>

MoreBatches(k) == k < BATCHES

\* running is tested under its own mutex; then the loop goes on or ends.
Check(p) ==
    /\ pc[p] = "check" /\ sig[p] # "locked"
    /\ done' = [done EXCEPT ![p] = @ + 1]
    /\ Goto(p, IF running[p] /\ MoreBatches(done'[p]) THEN "lock" ELSE "leave")
    /\ UNCHANGED <<names, sval, mtx, cnt_active, counters, shm, sem, seen, signals,
                   kills, semlost>>

-----------------------------------------------------------------------------
(* Departure.                                                              *)

Leave(p) == /\ pc[p] = "dec" /\ Goto(p, "last")
            /\ cnt_active' = [cnt_active EXCEPT ![shm[p]] = seen[p] - 1]
            /\ seen' = [seen EXCEPT ![p] = 0]
            /\ UNCHANGED <<names, sval, mtx, counters, attached, signals, kills, semlost>>

\* Mutant: the last but one believes it is the last.
LastOneEarly(p) == cnt_active[shm[p]] <= 1
LastOne(p) == cnt_active[shm[p]] = 0

TestLast(p) == /\ pc[p] = "last" /\ Goto(p, IF LastOne(p) THEN "destroy" ELSE "end")
               /\ UNCHANGED <<names, sval, mtx, cnt_active, counters, attached, seen,
                              signals, kills, semlost>>

\* The result is printed and the mutex destroyed; a robust one, in use or not.
Destroy(p) == /\ pc[p] = "destroy" /\ Goto(p, "unlink")
              /\ mtx' = [mtx EXCEPT ![shm[p]] = "gone"]
              /\ UNCHANGED <<names, sval, cnt_active, counters, attached, seen, signals,
                             kills, semlost>>

\* shm_unlink removes the name, whichever object it stands for by now.
ShmUnlink(p) == /\ pc[p] = "unlink" /\ Goto(p, IF shmName = 0 THEN "failed" ELSE "semunlink")
                /\ shmName' = 0
                /\ UNCHANGED <<semName, shmMade, semMade, sval, mtx, cnt_active, counters,
                               attached, seen, signals, kills, semlost>>

SemUnlink(p) == /\ pc[p] = "semunlink" /\ Goto(p, IF semName = 0 THEN "failed" ELSE "end")
                /\ semName' = 0
                /\ UNCHANGED <<shmName, shmMade, semMade, sval, mtx, cnt_active, counters,
                               attached, seen, signals, kills, semlost>>

\* The mutex of the signal thread is destroyed: EBUSY while it is locked.
End(p) == /\ pc[p] = "end" /\ Goto(p, IF sig[p] = "locked" THEN "failed" ELSE "ended")
          /\ UNCHANGED <<names, sval, mtx, cnt_active, counters, attached, seen, signals,
                         kills, semlost>>

-----------------------------------------------------------------------------
(* SIGINT, the thread that waits for it, and death.                        *)

Interrupt(p) == /\ kills + ints < MaxFaults /\ ~Dead(p) /\ sig[p] = "wait"
                /\ ints' = ints + 1
                /\ sig' = [sig EXCEPT ![p] = "locked"]
                /\ UNCHANGED <<names, sval, mtx, cnt_active, counters, pc, attached, seen,
                               running, kills, semlost>>

StopRunning(p) == /\ ~Dead(p) /\ sig[p] = "locked"
                  /\ running' = [running EXCEPT ![p] = FALSE]
                  /\ sig' = [sig EXCEPT ![p] = "ended"]
                  /\ UNCHANGED <<names, sval, mtx, cnt_active, counters, pc, attached, seen,
                                 ints, kills, semlost>>

\* Elsewhere a death changes nothing that the others see.
Kill(p) == /\ kills + ints < MaxFaults
           /\ pc[p] \in Arriving \cup Working \cup Removing \cup {"last"}
           /\ kills' = kills + 1
           /\ Goto(p, "killed")
           /\ semlost' = (semlost \/ pc[p] \in Arriving)
           /\ UNCHANGED <<names, sval, mtx, cnt_active, counters, attached, seen, signals>>

Step(p) == \/ ShmOpen(p) \/ SemOpen(p) \/ SemWait(p) \/ InitMutex(p) \/ ReadCount(p)
           \/ Arrive(p) \/ Lock(p) \/ Fix(p) \/ AddTotal(p) \/ AddHits(p) \/ Check(p)
           \/ Leave(p) \/ TestLast(p) \/ Destroy(p) \/ ShmUnlink(p) \/ SemUnlink(p) \/ End(p)

(* One process arrives, or has opened the objects to arrive, while another *)
(* one departs and removes them, or repairs the count.                     *)
Overlapping ==
    \E p, q \in Procs :
        \/ pc[p] \in Opening \cup Arriving /\ pc[q] \in Removing
        \/ pc[p] \in Arriving /\ pc[q] \in {"dec", "last", "fixed"}

Next == /\ \E p \in Procs : Step(p) \/ Interrupt(p) \/ StopRunning(p) \/ Kill(p)
        /\ overlap' = (overlap \/ Overlapping')

(* Each process and each signal thread runs while it can.                  *)
Fairness == \A p \in Procs : /\ WF_vars(Step(p) /\ overlap' = (overlap \/ Overlapping'))
                             /\ WF_vars(StopRunning(p) /\ overlap' = (overlap \/ Overlapping'))

Spec == Init /\ [][Next]_vars
FairSpec == Spec /\ Fairness

-----------------------------------------------------------------------------
(* Properties.                                                             *)

\* The named objects, the counters in shared memory and the processes keep their types.
TypeOK == /\ shmName \in 0 .. shmMade /\ semName \in 0 .. semMade
          /\ shmMade \in Objs \cup {0} /\ semMade \in Objs \cup {0}
          /\ sval \in [Objs -> {0, 1}]
          /\ mtx \in [Objs -> {"none", "free", "gone"} \cup Procs]
          /\ cnt_active \in [Objs -> Int]
          /\ total \in [Objs -> Nat] /\ total_hit \in [Objs -> Nat]
          /\ pc \in [Procs -> Opening \cup Arriving \cup Working \cup Removing
                              \cup Over \cup {"start", "last", "end"}]
          /\ shm \in [Procs -> 0 .. shmMade] /\ sem \in [Procs -> 0 .. semMade]
          /\ seen \in [Procs -> Int] /\ done \in [Procs -> 0 .. BATCHES]
          /\ running \in [Procs -> BOOLEAN]
          /\ sig \in [Procs -> {"wait", "locked", "ended"}]
          /\ kills \in 0 .. MaxFaults /\ ints \in 0 .. MaxFaults
          /\ semlost \in BOOLEAN /\ overlap \in BOOLEAN

(* As long as no arrival met a departure or a repair, cnt_active counts    *)
(* every working process, even though some were killed and departures race *)
(* with each other: nobody destroys the mutex under a working process, one *)
(* process at most is inside a batch, and each death costs the result at   *)
(* most the hits of one batch.                                             *)
SharedStateSound ==
    /\ TypeOK
    /\ ~overlap =>
        \A g \in Objs :
            LET here == {p \in Procs : shm[p] = g}
                inside == {p \in here : pc[p] \in {"fix", "fixed", "total", "hits"}}
            IN /\ cnt_active[g] >= Cardinality({p \in here : pc[p] \in Working})
               /\ \A p \in here : pc[p] \in Working => mtx[g] \notin {"none", "gone"}
               /\ Cardinality(inside) <= 1
               /\ total[g] - total_hit[g] <= kills + Cardinality(inside)

(* Every process comes to its end, although others are killed, with the    *)
(* mutex or without; the exception is a death with the semaphore, which    *)
(* nobody repairs (and the overlap of an arrival with a departure).        *)
EndsUnlessSemLost == \A p \in Procs : <>(pc[p] \in Over \/ semlost \/ overlap)
=============================================================================
