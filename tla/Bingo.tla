------------------------------- MODULE Bingo -------------------------------
(***************************************************************************)
(* The bingo of sop2/lab02/mq_test1.  The parent forks N children and puts *)
(* random numbers into the queue mq_rng, one a second, as long as a child  *)
(* is left.  A child takes numbers until it meets its own or its life is   *)
(* over, reports through mq_end, and exits.  A report that comes into an   *)
(* empty mq_end raises SIGRTMIN, once per mq_notify; SIGCHLD makes the     *)
(* parent reap.  Both handlers interrupt the parent anywhere, SIGCHLD also *)
(* the other handler, and both leave errno behind.                         *)
(* Time is left out: the parent's second may be shorter than a child's     *)
(* step.  Both queues are empty at the start.                              *)
(***************************************************************************)
EXTENDS Integers, FiniteSets

CONSTANTS N,          \* children
          LIFESPAN,   \* numbers a child takes at most (10 in the code)
          MaxMsg      \* capacity of a queue (10 in the code)

VARIABLES
    mpc,            \* parent: "fork", "notify" (182), "test" (124), "send" (127),
                    \*   "full" (asleep in mq_send), "sleep" (129), "done", "killed";
                    \*   a call that a signal ended: "sendEnded", "sleepEnded", and
                    \*   with errno set: "sendFailed", "sleepFailed"
    errno,          \* "EINTR", "EAGAIN", "ECHILD" or "none"
    hpc,            \* mq_handler: "off", "receive" (54), "failed" (56)
    children_left,
    rng, end,       \* messages in mq_rng and in mq_end
    registered,     \* a notification is registered for mq_end
    rtPending, chldPending,  \* signals sent to the parent and not delivered
    reports,        \* history: reports the parent has printed
    pc,             \* child: "unborn", "receive", "report", "exit", "zombie", "reaped"
    life            \* life[c] : numbers it may still take

queues == <<rng, end, registered>>
handlers == <<hpc, rtPending, chldPending, reports>>
children == <<pc, life>>
vars == <<mpc, errno, children_left, queues, handlers, children>>

Child == 1 .. N
Ended == {"zombie", "reaped"}
Zombies == {c \in Child : pc[c] = "zombie"}

Init == /\ mpc = "fork" /\ errno = "none" /\ hpc = "off"
        /\ children_left = 0
        /\ rng = 0 /\ end = 0 /\ registered = FALSE
        /\ rtPending = FALSE /\ chldPending = FALSE /\ reports = 0
        /\ pc = [c \in Child |-> "unborn"]
        /\ life \in [Child -> 1 .. LIFESPAN]

-----------------------------------------------------------------------------
(* The parent outside its handlers                                         *)

MainRuns(l) == mpc = l /\ hpc = "off"

Fork == /\ MainRuns("fork")
        /\ children_left' = children_left + 1
        /\ pc' = [pc EXCEPT ![children_left'] = "receive"]
        /\ mpc' = IF children_left' = N THEN "notify" ELSE "fork"
        /\ UNCHANGED <<errno, queues, handlers, life>>

\* The first mq_notify.
Notify == /\ MainRuns("notify")
          /\ registered' = TRUE
          /\ mpc' = "test"
          /\ UNCHANGED <<errno, children_left, rng, end, handlers, children>>

\* The condition of the loop; behind it the queues are closed and unlinked.
Test == /\ MainRuns("test")
        /\ mpc' = IF children_left > 0 THEN "send" ELSE "done"
        /\ UNCHANGED <<errno, children_left, queues, handlers, children>>

HasRoom == rng < MaxMsg

\* mq_send waits for room in mq_rng.
Send == /\ MainRuns("send") \/ MainRuns("full")
        /\ HasRoom
        /\ rng' = rng + 1
        /\ mpc' = "sleep"
        /\ UNCHANGED <<errno, children_left, end, registered, handlers, children>>

Block == /\ MainRuns("send") /\ ~HasRoom
         /\ mpc' = "full"
         /\ UNCHANGED <<errno, children_left, queues, handlers, children>>

WakeUp == /\ MainRuns("sleep")
          /\ mpc' = "test"
          /\ UNCHANGED <<errno, children_left, queues, handlers, children>>

\* The call a handler has interrupted returns -1 and sets errno.
SetErrno == /\ MainRuns("sendEnded") \/ MainRuns("sleepEnded")
            /\ errno' = "EINTR"
            /\ mpc' = IF mpc = "sendEnded" THEN "sendFailed" ELSE "sleepFailed"
            /\ UNCHANGED <<children_left, queues, handlers, children>>

\* TEMP_FAILURE_RETRY: the call is made again if errno still is EINTR.
Retry == /\ MainRuns("sendFailed") \/ MainRuns("sleepFailed")
         /\ mpc' = IF errno # "EINTR" THEN "killed"
                   ELSE IF mpc = "sendFailed" THEN "send" ELSE "sleep"
         /\ UNCHANGED <<errno, children_left, queues, handlers, children>>

-----------------------------------------------------------------------------
(* The handlers                                                            *)

Alive == mpc \notin {"done", "killed"}

\* A signal ends the call the parent sleeps in.
Interrupted == IF mpc = "full" THEN "sendEnded"
               ELSE IF mpc = "sleep" THEN "sleepEnded" ELSE mpc

\* Mutant: the notification is not installed again.
ReinstalledNot == FALSE
Reinstalled == TRUE

\* mq_handler is entered and registers the notification again.
Notified == /\ Alive /\ rtPending /\ hpc = "off"
            /\ rtPending' = FALSE
            /\ registered' = Reinstalled
            /\ hpc' = "receive"
            /\ mpc' = Interrupted
            /\ UNCHANGED <<errno, children_left, rng, end, chldPending, reports, children>>

\* One mq_receive of mq_handler.
Receive == /\ Alive /\ hpc = "receive"
           /\ IF end > 0 THEN /\ end' = end - 1 /\ reports' = reports + 1
                              /\ UNCHANGED <<errno, hpc>>
                         ELSE /\ errno' = "EAGAIN" /\ hpc' = "failed"
                              /\ UNCHANGED <<end, reports>>
           /\ UNCHANGED <<mpc, children_left, rng, registered, rtPending, chldPending, children>>

\* The test of errno.  A signal raised meanwhile is handled before the parent goes on.
Return == /\ Alive /\ hpc = "failed"
          /\ IF errno # "EAGAIN" THEN mpc' = "killed" /\ UNCHANGED <<hpc, rtPending, registered>>
             ELSE /\ hpc' = IF rtPending THEN "receive" ELSE "off"
                  /\ registered' = IF rtPending THEN Reinstalled ELSE registered
                  /\ rtPending' = FALSE
                  /\ UNCHANGED mpc
          /\ UNCHANGED <<errno, children_left, rng, end, chldPending, reports, children>>

\* Mutant: one waitpid for a signal, which may stand for several children.
ReapedOne == {c \in Zombies : \A d \in Zombies : c <= d}
Reaped == Zombies

\* sigchld_handler.  Of two pending signals SIGRTMIN's handler runs first.
OnSigchld == /\ Alive /\ chldPending /\ (rtPending => hpc # "off")
             /\ chldPending' = FALSE
             /\ children_left' = children_left - Cardinality(Reaped)
             /\ pc' = [c \in Child |-> IF c \in Reaped THEN "reaped" ELSE pc[c]]
             /\ errno' = IF \A c \in Child : pc'[c] = "reaped" THEN "ECHILD" ELSE errno
             /\ mpc' = Interrupted
             /\ UNCHANGED <<queues, hpc, rtPending, reports, life>>

-----------------------------------------------------------------------------
(* A child                                                                 *)

\* A number: its bingo, its last one, or neither.
Take(c) == /\ Alive /\ pc[c] = "receive" /\ rng > 0
           /\ rng' = rng - 1
           /\ life' = [life EXCEPT ![c] = @ - 1]
           /\ \E bingo \in BOOLEAN :
                pc' = [pc EXCEPT ![c] = IF bingo \/ life'[c] = 0 THEN "report" ELSE "receive"]
           /\ UNCHANGED <<mpc, errno, children_left, end, registered, handlers>>

\* mq_send to mq_end, which is O_NONBLOCK: a full queue is an error that kills the group.
Report(c) == /\ Alive /\ pc[c] = "report"
             /\ IF end = MaxMsg
                THEN mpc' = "killed" /\ UNCHANGED <<end, registered, rtPending, pc>>
                ELSE /\ end' = end + 1
                     /\ rtPending' = (rtPending \/ (end = 0 /\ registered))
                     /\ registered' = (registered /\ end # 0)
                     /\ pc' = [pc EXCEPT ![c] = "exit"]
                     /\ UNCHANGED mpc
             /\ UNCHANGED <<errno, children_left, rng, hpc, chldPending, reports, life>>

Exit(c) == /\ Alive /\ pc[c] = "exit"
           /\ pc' = [pc EXCEPT ![c] = "zombie"]
           /\ chldPending' = TRUE
           /\ UNCHANGED <<mpc, errno, children_left, queues, hpc, rtPending, reports, life>>

-----------------------------------------------------------------------------
MainStep == Fork \/ Notify \/ Test \/ Send \/ Block \/ WakeUp \/ SetErrno \/ Retry
MqHandlerStep == Notified \/ Receive \/ Return
ChildStep(c) == Take(c) \/ Report(c) \/ Exit(c)

Next == \/ MainStep \/ MqHandlerStep \/ OnSigchld
        \/ \E c \in Child : ChildStep(c)

Spec == Init /\ [][Next]_vars

\* The processes run and the signals are delivered.
FairSpec == /\ Spec
            /\ WF_vars(MainStep) /\ WF_vars(MqHandlerStep) /\ WF_vars(OnSigchld)
            /\ \A c \in Child : WF_vars(ChildStep(c))

-----------------------------------------------------------------------------
\* Every variable stays within its type; no queue holds more than MaxMsg.
TypeOK == /\ mpc \in {"fork", "notify", "test", "send", "full", "sleep", "done", "killed",
                      "sendEnded", "sleepEnded", "sendFailed", "sleepFailed"}
          /\ errno \in {"none", "EINTR", "EAGAIN", "ECHILD"}
          /\ hpc \in {"off", "receive", "failed"}
          /\ children_left \in 0 .. N
          /\ rng \in 0 .. MaxMsg /\ end \in 0 .. MaxMsg
          /\ {registered, rtPending, chldPending} \subseteq BOOLEAN
          /\ reports \in 0 .. N
          /\ pc \in [Child -> {"unborn", "receive", "report", "exit", "zombie", "reaped"}]
          /\ life \in [Child -> 0 .. LIFESPAN]

(* The parent terminates (line 131) only after it has printed the report   *)
(* of every child: neither a report that met a queue that was not empty,   *)
(* nor one sent while the handler emptied it, nor one whose sender was     *)
(* reaped at once is left behind.                                          *)
ReportsComplete == TypeOK /\ (mpc = "done" => reports = N /\ end = 0)

\* The parent, which has reaped every child, waits for room in mq_rng.
Overfed == mpc = "full" /\ rng = MaxMsg /\ children_left = 0

(* The program comes to its end, unless an error kills it (a full mq_end,  *)
(* or errno overwritten by a handler between the call and its test) or the *)
(* parent is asleep in mq_send when the last child goes: SIGCHLD ends that *)
(* call, and TEMP_FAILURE_RETRY starts it again.                           *)
EndsUnlessOverfed == <>(~Alive \/ Overfed)
=============================================================================
