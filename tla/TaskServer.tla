----------------------------- MODULE TaskServer -----------------------------
(***************************************************************************)
(* The task server of sop2/lab02/zad02.  The server forks N workers, puts  *)
(* tasks into one message queue until every worker has answered N_TASKS of *)
(* them, and counts the answers, which come back through one queue per     *)
(* worker.  An answer that arrives in an empty queue raises SIGRTMIN, once *)
(* per registration; the handler registers again and empties the queue.    *)
(* While the handler runs SIGRTMIN is blocked and the main program stands. *)
(***************************************************************************)
EXTENDS Integers, FiniteSets

CONSTANTS N,              \* workers
          N_TASKS,        \* tasks of each worker (2 in the code)
          MAX_MSG_COUNT   \* capacity of a queue (10 in the code)

ASSUME TaskServerAssumption == /\ N \in Nat \ {0} /\ N_TASKS \in Nat \ {0}
                               /\ MAX_MSG_COUNT \in Nat /\ MAX_MSG_COUNT >= N_TASKS

VARIABLES
    mpc,              \* main: "fork", "check", "put", "test" (lines 189, 191, 204),
                      \*   "wait", "unlink", "exited", "killed"
    forked,           \* workers forked so far
    tasks,            \* messages in server_mq
    res,              \* res[w] : messages in the result queue of worker w
    registered,       \* queues with a notification registered
    pending,          \* queues whose SIGRTMIN is not delivered yet
    handling,         \* queue the handler is emptying, 0 outside the handler
    results_received,
    wpc,              \* worker: "unborn", "receive", "work", "done", "killed"
    tasks_done,       \* tasks_done[w]
    bigPid            \* bigPid[w] : its pid is no message priority (>= 32768)

main == <<mpc, forked>>
notification == <<registered, pending, handling, results_received>>
workers == <<wpc, tasks_done, bigPid>>
vars == <<main, tasks, res, notification, workers>>

Workers == 1 .. N
AllResults == results_received = N * N_TASKS

Init == /\ mpc = "fork" /\ forked = 0
        /\ tasks = 0
        /\ res = [w \in Workers |-> 0]
        /\ registered = {} /\ pending = {} /\ handling = 0
        /\ results_received = 0
        /\ wpc = [w \in Workers |-> "unborn"]
        /\ tasks_done = [w \in Workers |-> 0]
        /\ bigPid = [w \in Workers |-> FALSE]

-----------------------------------------------------------------------------
(* main                                                                    *)

\* The worker is forked, its queue opened and the notification registered.
Fork == /\ mpc = "fork" /\ forked < N
        /\ forked' = forked + 1
        /\ wpc' = [wpc EXCEPT ![forked'] = "receive"]
        /\ \E b \in BOOLEAN : bigPid' = [bigPid EXCEPT ![forked'] = b]
        /\ registered' = registered \cup {forked'}
        /\ UNCHANGED <<mpc, tasks, res, pending, handling, results_received, tasks_done>>

AllForked == /\ mpc = "fork" /\ forked = N
             /\ mpc' = "check"
             /\ UNCHANGED <<forked, tasks, res, notification, workers>>

\* The test at the top of the inner loop.
Check == /\ mpc = "check" /\ handling = 0
         /\ mpc' = IF AllResults THEN "test" ELSE "put"
         /\ UNCHANGED <<forked, tasks, res, notification, workers>>

\* mq_send: with the queue full (EAGAIN) the inner loop goes on.
Put == /\ mpc = "put" /\ handling = 0
       /\ IF tasks < MAX_MSG_COUNT
            THEN mpc' = "test" /\ tasks' = tasks + 1
            ELSE mpc' = "check" /\ UNCHANGED tasks
       /\ UNCHANGED <<forked, res, notification, workers>>

\* Mutant: the outer loop ends one answer too early.
StopSendingEarly == results_received >= N * N_TASKS - 1
StopSending == AllResults

Test == /\ mpc = "test" /\ handling = 0
        /\ mpc' = IF StopSending THEN "wait" ELSE "check"
        /\ UNCHANGED <<forked, tasks, res, notification, workers>>

Wait == /\ mpc = "wait" /\ handling = 0
        /\ \A w \in Workers : wpc[w] = "done"
        /\ mpc' = "unlink"
        /\ UNCHANGED <<forked, tasks, res, notification, workers>>

\* The queues are closed and unlinked.
Unlink == /\ mpc = "unlink" /\ handling = 0
          /\ mpc' = "exited"
          /\ UNCHANGED <<forked, tasks, res, notification, workers>>

-----------------------------------------------------------------------------
(* mq_handler                                                              *)

\* Mutant: the handler does not register again.
RegisterNot(w) == registered
Register(w) == registered \cup {w}

Deliver(w) == /\ handling' = w
              /\ pending' = pending \ {w}
              /\ registered' = Register(w)

(* SIGRTMIN is delivered.  There is no SA_RESTART: wait, if interrupted,   *)
(* fails and ends the loop around it.                                      *)
HandlerStart(w) == /\ handling = 0 /\ w \in pending
                   /\ mpc \notin {"exited", "killed"}
                   /\ Deliver(w)
                   /\ mpc' \in IF mpc = "wait" THEN {"wait", "unlink"} ELSE {mpc}
                   /\ UNCHANGED <<forked, tasks, res, results_received, workers>>

Receive == /\ handling # 0 /\ mpc # "killed" /\ res[handling] > 0
           /\ res' = [res EXCEPT ![handling] = @ - 1]
           /\ results_received' = results_received + 1
           /\ UNCHANGED <<main, tasks, registered, pending, handling, workers>>

\* EAGAIN.  A signal raised meanwhile is delivered before main goes on.
HandlerEnd == /\ handling # 0 /\ mpc # "killed" /\ res[handling] = 0
              /\ IF pending = {}
                   THEN handling' = 0 /\ UNCHANGED <<registered, pending>>
                   ELSE \E w \in pending : Deliver(w)
              /\ UNCHANGED <<main, tasks, res, results_received, workers>>

-----------------------------------------------------------------------------
(* child_work                                                              *)

\* A busy wait for a task (EAGAIN leaves everything as it is).
TakeTask(w) == /\ wpc[w] = "receive" /\ tasks > 0
               /\ tasks' = tasks - 1
               /\ wpc' = [wpc EXCEPT ![w] = "work"]
               /\ UNCHANGED <<main, res, notification, tasks_done, bigPid>>

\* ERR: the process group is killed.
KillAll == /\ mpc' = IF mpc = "exited" THEN mpc ELSE "killed"
           /\ wpc' = [w \in Workers |-> IF wpc[w] \in {"unborn", "done"} THEN wpc[w]
                                                                        ELSE "killed"]

LastTask(k) == k = N_TASKS

CanSend(w) == res[w] < MAX_MSG_COUNT /\ ~bigPid[w]

\* mq_send of the answer; an empty queue uses up the registration.
Answer(w) ==
    /\ wpc[w] = "work" /\ CanSend(w)
    /\ res' = [res EXCEPT ![w] = @ + 1]
    /\ IF res[w] = 0 /\ w \in registered
         THEN registered' = registered \ {w} /\ pending' = pending \cup {w}
         ELSE UNCHANGED <<registered, pending>>
    /\ tasks_done' = [tasks_done EXCEPT ![w] = @ + 1]
    /\ wpc' = [wpc EXCEPT ![w] = IF LastTask(tasks_done'[w]) THEN "done" ELSE "receive"]
    /\ UNCHANGED <<main, tasks, handling, results_received, bigPid>>

\* mq_send fails: EINVAL for the priority (EAGAIN for a full queue).
AnswerFails(w) == /\ wpc[w] = "work" /\ ~CanSend(w)
                  /\ KillAll
                  /\ UNCHANGED <<forked, tasks, res, notification, tasks_done, bigPid>>

\* fork fails.
ForkFails == /\ mpc = "fork" /\ forked < N
             /\ KillAll
             /\ UNCHANGED <<forked, tasks, res, notification, tasks_done, bigPid>>

MainStep == \/ Fork \/ AllForked \/ Check \/ Put \/ Test \/ Wait \/ Unlink
            \/ Receive \/ HandlerEnd
Signal == \E w \in Workers : HandlerStart(w)
WorkerStep(w) == TakeTask(w) \/ Answer(w) \/ AnswerFails(w)

\* Everything has ended.
Ended == mpc \in {"exited", "killed"} /\ UNCHANGED vars

Next == MainStep \/ Signal \/ ForkFails \/ Ended \/ \E w \in Workers : WorkerStep(w)

(* The server and each worker run while they can; signals are delivered.   *)
Fairness == /\ WF_vars(MainStep) /\ WF_vars(Signal)
            /\ \A w \in Workers : WF_vars(WorkerStep(w))

Spec == Init /\ [][Next]_vars
FairSpec == Spec /\ Fairness

-----------------------------------------------------------------------------
(* Properties.                                                             *)

\* Queues hold at most MAX_MSG_COUNT messages, a worker at most N_TASKS answers.
TypeOK == /\ mpc \in {"fork", "check", "put", "test", "wait", "unlink", "exited", "killed"}
          /\ forked \in 0 .. N /\ tasks \in 0 .. MAX_MSG_COUNT
          /\ res \in [Workers -> 0 .. MAX_MSG_COUNT]
          /\ registered \subseteq Workers /\ pending \subseteq Workers
          /\ handling \in Workers \cup {0}
          /\ results_received \in 0 .. N * N_TASKS
          /\ wpc \in [Workers -> {"unborn", "receive", "work", "done", "killed"}]
          /\ tasks_done \in [Workers -> 0 .. N_TASKS]
          /\ bigPid \in [Workers -> BOOLEAN]

(* An answer waiting in a queue is never forgotten: its signal is on its   *)
(* way, or the handler is about to read it.  And a queue whose signal is   *)
(* not on its way is registered, so that mq_notify is never EBUSY and the  *)
(* next answer will be noticed.                                            *)
NoLostNotification ==
    /\ TypeOK
    /\ \A w \in 1 .. forked : /\ res[w] > 0 => w \in pending \/ handling = w
                              /\ (w \in registered) = (w \notin pending)

(* The server goes on to wait and to unlink the queues only when every     *)
(* worker has sent its last answer and every answer is counted: no late    *)
(* SIGRTMIN interrupts its wait.                                           *)
WaitsForAll ==
    mpc \in {"wait", "unlink", "exited"} =>
        /\ \A w \in Workers : wpc[w] = "done" /\ res[w] = 0
        /\ AllResults
        /\ pending = {} /\ handling = 0

(* The server ends, with all answers or through ERR.                       *)
ServerEnds == <>(mpc \in {"exited", "killed"})
=============================================================================
