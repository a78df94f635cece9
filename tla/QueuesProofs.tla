---------------------------- MODULE QueuesProofs ----------------------------
(***************************************************************************)
(* Proofs about the programs of MCQueues, TaskServer, Forum and Telephone, *)
(* in their composition: a step of one program leaves the others alone.    *)
(***************************************************************************)
EXTENDS MCQueues, Sequences, FiniteSetTheorems, WellFoundedInduction, TLAPS

-----------------------------------------------------------------------------
(* TaskServer.                                                             *)

\* The answers the handler has counted: the first ones of every worker.
Counted == {a \in Workers \X (1 .. N_TASKS) : a[2] <= tasks_done[a[1]] - res[a[1]]}

\* What a worker has answered and what its program counter says agree.
WorkerInv ==
    \A w \in Workers :
        /\ res[w] <= tasks_done[w]
        /\ wpc[w] = "done" <=> tasks_done[w] = N_TASKS
        /\ wpc[w] = "unborn" <=> w > forked
        /\ w > forked => /\ tasks_done[w] = 0
                         /\ w \notin registered \cup pending /\ handling # w

(* The counter of the server counts every answer once, and main is past    *)
(* its loop only when it has counted them all.                             *)
CountInv == /\ results_received = Cardinality(Counted)
            /\ mpc \in {"wait", "unlink", "exited"} => AllResults
            /\ mpc \notin {"fork", "killed"} => forked = N

\* Outside the handler, a signal that is on its way has an answer to read.
SignalInv == /\ handling = 0 => \A w \in pending : res[w] > 0
             /\ mpc \in {"wait", "unlink", "exited"} => handling = 0 /\ pending = {}

ServerInv == NoLostNotification /\ WorkerInv /\ CountInv /\ SignalInv

-----------------------------------------------------------------------------
\* All answers there are, and how many of them.
Answers == Workers \X (1 .. N_TASKS)

LEMMA AnswerCount ==
    /\ IsFiniteSet(Answers) /\ Cardinality(Answers) = N * N_TASKS
    /\ IsFiniteSet(Counted) /\ Cardinality(Counted) \in 0 .. N * N_TASKS
    /\ Cardinality(Counted) = N * N_TASKS => Counted = Answers
  <1>1. /\ IsFiniteSet(Workers) /\ Cardinality(Workers) = N
        /\ IsFiniteSet(1 .. N_TASKS) /\ Cardinality(1 .. N_TASKS) = N_TASKS
    BY TaskServerAssumption, FS_Interval DEF Workers
  <1>2. IsFiniteSet(Answers) /\ Cardinality(Answers) = N * N_TASKS
    BY <1>1, FS_Product DEF Answers
  <1>3. Counted \in SUBSET Answers
    BY DEF Counted, Answers
  <1>4. /\ IsFiniteSet(Counted) /\ Cardinality(Counted) <= Cardinality(Answers)
        /\ Cardinality(Counted) = Cardinality(Answers) => Counted = Answers
    BY <1>2, <1>3, FS_Subset
  <1>5. Cardinality(Counted) \in Nat
    BY <1>4, FS_CardinalityType
  <1>6. N * N_TASKS \in Nat
    BY TaskServerAssumption
  <1> QED BY <1>2, <1>4, <1>5, <1>6

\* With all answers counted, the workers are done and no answer is left.
LEMMA AllCounted ==
    ASSUME ServerInv, AllResults
    PROVE  /\ \A w \in Workers : wpc[w] = "done" /\ res[w] = 0 /\ tasks_done[w] = N_TASKS
           /\ handling = 0 => pending = {}
  <1>1. Counted = Answers
    BY AnswerCount DEF ServerInv, CountInv, AllResults
  <1>2. ASSUME NEW w \in Workers
        PROVE  wpc[w] = "done" /\ res[w] = 0 /\ tasks_done[w] = N_TASKS
    <2>1. <<w, N_TASKS>> \in Counted
      BY <1>1, TaskServerAssumption DEF Answers
    <2>2. N_TASKS <= tasks_done[w] - res[w]
      BY <2>1 DEF Counted
    <2> QED BY <2>2, TaskServerAssumption
            DEF ServerInv, NoLostNotification, TypeOK, WorkerInv
  <1>3. handling = 0 => pending = {}
    BY <1>2 DEF ServerInv, NoLostNotification, TypeOK, SignalInv
  <1> QED BY <1>2, <1>3

LEMMA ServerInit == Init => ServerInv
  <1> SUFFICES ASSUME Init PROVE ServerInv
    OBVIOUS
  <1>1. Counted = {}
    BY DEF Init, Counted
  <1>2. results_received = Cardinality(Counted) /\ 0 \in 0 .. N * N_TASKS
    BY <1>1, FS_EmptySet, TaskServerAssumption DEF Init
  <1> QED BY <1>2, TaskServerAssumption
          DEF Init, ServerInv, NoLostNotification, TypeOK, WorkerInv, CountInv, SignalInv,
              Workers

\* Steps that answer no task and read no answer leave the count alone.
LEMMA SameCount ==
    ASSUME UNCHANGED <<res, tasks_done, results_received>>, ServerInv
    PROVE  results_received' = Cardinality(Counted') /\ AllResults' = AllResults
  BY DEF Counted, ServerInv, CountInv, AllResults

LEMMA MainPreserves ==
    ASSUME ServerInv, Fork \/ AllForked \/ Check \/ Put \/ Test \/ Wait \/ Unlink
    PROVE  ServerInv'
  <1>1. UNCHANGED <<res, tasks_done, results_received>>
    BY DEF Fork, AllForked, Check, Put, Test, Wait, Unlink, notification, workers
  <1>2. CASE Fork
    <2>1. forked' \in Workers /\ forked' = forked + 1 /\ forked \in 0 .. N
      BY <1>2, TaskServerAssumption DEF Fork, ServerInv, NoLostNotification, TypeOK, Workers
    <2>2. NoLostNotification'
      <3>1. TypeOK'
        <4>1. wpc' \in [Workers -> {"unborn", "receive", "work", "done", "killed"}]
          BY <1>2, <2>1 DEF Fork, ServerInv, NoLostNotification, TypeOK
        <4>2. bigPid' \in [Workers -> BOOLEAN]
          BY <1>2, <2>1, Zenon DEF Fork, ServerInv, NoLostNotification, TypeOK
        <4>3. forked' \in 0 .. N /\ registered' \subseteq Workers
          BY <1>2, <2>1 DEF Fork, ServerInv, NoLostNotification, TypeOK, Workers
        <4> QED BY <1>2, <4>1, <4>2, <4>3 DEF Fork, ServerInv, NoLostNotification, TypeOK
      <3>2. ASSUME NEW v \in 1 .. forked'
            PROVE  /\ res'[v] > 0 => v \in pending' \/ handling' = v
                   /\ (v \in registered') = (v \notin pending')
        <4>1. registered' = registered \cup {forked'} /\ UNCHANGED <<res, pending, handling>>
          BY <1>2 DEF Fork
        <4>2. CASE v = forked'
          BY <2>1, <4>1, <4>2 DEF ServerInv, NoLostNotification, TypeOK, WorkerInv
        <4>3. CASE v # forked'
          BY <2>1, <4>1, <4>3 DEF ServerInv, NoLostNotification
        <4> QED BY <4>2, <4>3
      <3> QED BY <3>1, <3>2 DEF NoLostNotification
    <2>3. WorkerInv'
      BY <1>2, <2>1, TaskServerAssumption
         DEF Fork, ServerInv, NoLostNotification, TypeOK, WorkerInv, Workers
    <2>4. CountInv' /\ SignalInv'
      BY <1>1, <1>2, SameCount DEF Fork, ServerInv, CountInv, SignalInv
    <2> QED BY <2>2, <2>3, <2>4 DEF ServerInv
  <1>3. CASE AllForked \/ Check \/ Put \/ Test \/ Wait \/ Unlink
    <2>1. UNCHANGED <<forked, res, notification, workers>>
      BY <1>3 DEF AllForked, Check, Put, Test, Wait, Unlink
    <2>2. NoLostNotification' /\ WorkerInv'
      <3>1. mpc' \in {"fork", "check", "put", "test", "wait", "unlink", "exited", "killed"}
        BY <1>3 DEF AllForked, Check, Put, Test, Wait, Unlink
      <3>2. tasks' \in 0 .. MAX_MSG_COUNT
        BY <1>3, TaskServerAssumption
           DEF AllForked, Check, Put, Test, Wait, Unlink, ServerInv, NoLostNotification, TypeOK
      <3> QED BY <2>1, <3>1, <3>2
              DEF ServerInv, NoLostNotification, TypeOK, WorkerInv, notification, workers
    <2>3. CountInv' /\ SignalInv'
      <3>1. CASE Test
        BY <2>1, <1>1, <3>1, SameCount, AllCounted
           DEF Test, StopSending, ServerInv, CountInv, SignalInv, notification, workers
      <3>2. CASE ~Test
        BY <2>1, <1>1, <1>3, <3>2, SameCount
           DEF AllForked, Check, Put, Wait, Unlink, ServerInv, CountInv, SignalInv,
               notification, workers
      <3> QED BY <3>1, <3>2
    <2> QED BY <2>2, <2>3 DEF ServerInv
  <1> QED BY <1>2, <1>3

LEMMA HandlerStartPreserves ==
    ASSUME ServerInv, NEW w \in Workers, HandlerStart(w)
    PROVE  ServerInv'
  <1>1. res[w] > 0 /\ UNCHANGED <<res, tasks_done, results_received>>
    BY DEF HandlerStart, ServerInv, SignalInv, workers
  <1>2. mpc # "wait" /\ mpc # "unlink" /\ mpc' = mpc
    BY DEF HandlerStart, ServerInv, SignalInv
  <1> QED BY <1>1, <1>2, SameCount
          DEF HandlerStart, Deliver, Register, ServerInv, NoLostNotification, TypeOK,
              WorkerInv, CountInv, SignalInv, workers, Workers

LEMMA HandlerEndPreserves == ASSUME ServerInv, HandlerEnd PROVE ServerInv'
  <1>1. UNCHANGED <<res, tasks_done, results_received, main, tasks, wpc, bigPid>>
    BY DEF HandlerEnd, workers
  <1>2. CountInv'
    BY <1>1, SameCount DEF ServerInv, CountInv, main
  <1>3. mpc \notin {"wait", "unlink", "exited"}
    BY DEF HandlerEnd, ServerInv, SignalInv
  <1>4. CASE pending = {}
    <2>1. handling' = 0 /\ UNCHANGED <<registered, pending>> /\ res[handling] = 0
      BY <1>4 DEF HandlerEnd
    <2> QED BY <1>1, <1>2, <1>3, <1>4, <2>1
            DEF ServerInv, NoLostNotification, TypeOK, WorkerInv, SignalInv, main
  <1>5. CASE pending # {}
    <2>1. PICK w \in pending : Deliver(w) /\ res[handling] = 0 /\ w \in Workers
      BY <1>5 DEF HandlerEnd, ServerInv, NoLostNotification, TypeOK
    <2>2. NoLostNotification'
      <3>1. TypeOK'
        BY <1>1, <2>1 DEF Deliver, Register, ServerInv, NoLostNotification, TypeOK, main
      <3> QED BY <1>1, <2>1, <3>1
              DEF Deliver, Register, ServerInv, NoLostNotification, main
    <2>3. WorkerInv'
      BY <1>1, <2>1 DEF Deliver, Register, ServerInv, WorkerInv, main
    <2>4. SignalInv'
      BY <1>1, <1>3, <2>1 DEF Deliver, SignalInv, main, Workers
    <2> QED BY <1>2, <2>2, <2>3, <2>4 DEF ServerInv
  <1> QED BY <1>4, <1>5

\* The handler reads one answer: the next of that worker.
LEMMA ReceivePreserves == ASSUME ServerInv, Receive PROVE ServerInv'
  <1> DEFINE a == <<handling, tasks_done[handling] - res[handling] + 1>>
  <1>1. /\ handling \in Workers /\ res[handling] \in 1 .. MAX_MSG_COUNT
        /\ tasks_done[handling] \in 0 .. N_TASKS /\ res[handling] <= tasks_done[handling]
        /\ res' = [res EXCEPT ![handling] = res[handling] - 1]
        /\ \A w \in Workers : res[w] \in Nat
        /\ \A w \in Workers : tasks_done[w] \in Nat
        /\ res \in [Workers -> 0 .. MAX_MSG_COUNT]
    BY TaskServerAssumption
       DEF Receive, ServerInv, NoLostNotification, TypeOK, WorkerInv
  <1>2. Counted' = Counted \cup {a} /\ a \notin Counted
    <2>1. a \in Answers
      BY <1>1, TaskServerAssumption DEF Answers
    <2>2. ASSUME NEW x \in Answers
          PROVE  x[2] <= tasks_done[x[1]] - res'[x[1]]
                    <=> (x[2] <= tasks_done[x[1]] - res[x[1]] \/ x = a)
      <3>1. PICK w \in Workers, k \in 1 .. N_TASKS : x = <<w, k>>
        BY DEF Answers
      <3>2. CASE w = handling
        BY <1>1, <3>1, <3>2
      <3>3. CASE w # handling
        BY <1>1, <3>1, <3>3
      <3> QED BY <3>2, <3>3
    <2>3. tasks_done' = tasks_done
      BY DEF Receive, workers
    <2>4. a \notin Counted
      BY <1>1 DEF Counted
    <2>5. Counted' = {x \in Answers : x[2] <= tasks_done[x[1]] - res'[x[1]]}
      BY <2>3 DEF Counted, Answers
    <2>6. Counted = {x \in Answers : x[2] <= tasks_done[x[1]] - res[x[1]]}
      BY DEF Counted, Answers
    <2> HIDE DEF a
    <2> QED BY <2>1, <2>2, <2>4, <2>5, <2>6
  <1>3. results_received' = Cardinality(Counted')
    <2> HIDE DEF a
    <2>1. Cardinality(Counted \cup {a}) = Cardinality(Counted) + 1
      BY <1>2, AnswerCount, FS_AddElement
    <2> QED BY <1>2, <2>1 DEF Receive, ServerInv, CountInv
  <1>4. results_received' \in 0 .. N * N_TASKS
    <2>1. (/\ IsFiniteSet(Answers) /\ Cardinality(Answers) = N * N_TASKS
           /\ IsFiniteSet(Counted) /\ Cardinality(Counted) \in 0 .. N * N_TASKS
           /\ Cardinality(Counted) = N * N_TASKS => Counted = Answers)'
      BY AnswerCount, PTL
    <2> QED BY <1>3, <2>1
  <1>5. mpc \notin {"wait", "unlink", "exited"}
    BY <1>1 DEF ServerInv, SignalInv, Workers
  <1>6. NoLostNotification' /\ WorkerInv'
    <2>1. TypeOK'
      <3>1. res' \in [Workers -> 0 .. MAX_MSG_COUNT]
        BY <1>1, TaskServerAssumption
      <3> QED BY <1>4, <3>1 DEF Receive, ServerInv, NoLostNotification, TypeOK, main, workers
    <2>2. NoLostNotification'
      BY <1>1, <2>1, TaskServerAssumption
         DEF Receive, ServerInv, NoLostNotification, TypeOK, main, Workers
    <2>3. WorkerInv'
      BY <1>1 DEF Receive, ServerInv, NoLostNotification, TypeOK, WorkerInv, main, workers
    <2> QED BY <2>2, <2>3
  <1>7. CountInv' /\ SignalInv'
    BY <1>1, <1>3, <1>5 DEF Receive, ServerInv, CountInv, SignalInv, main, Workers
  <1> QED BY <1>6, <1>7 DEF ServerInv

LEMMA TakeTaskPreserves ==
    ASSUME ServerInv, NEW w \in Workers, TakeTask(w)
    PROVE  ServerInv'
  <1>1. UNCHANGED <<res, tasks_done, results_received>>
    BY DEF TakeTask, notification
  <1>2. TypeOK'
    BY TaskServerAssumption DEF TakeTask, ServerInv, NoLostNotification, TypeOK, main, notification
  <1>3. NoLostNotification'
    BY <1>1, <1>2 DEF TakeTask, ServerInv, NoLostNotification, main, notification
  <1>4. WorkerInv'
    BY DEF TakeTask, ServerInv, NoLostNotification, TypeOK, WorkerInv, main, notification
  <1>5. CountInv' /\ SignalInv'
    BY <1>1, SameCount DEF TakeTask, ServerInv, CountInv, SignalInv, main, notification
  <1> QED BY <1>3, <1>4, <1>5 DEF ServerInv

\* A worker still at work means that not all answers are counted.
LEMMA AnswerPreserves ==
    ASSUME ServerInv, NEW w \in Workers, Answer(w)
    PROVE  ServerInv'
  <1>1. /\ res[w] \in 0 .. MAX_MSG_COUNT - 1 /\ tasks_done[w] \in 0 .. N_TASKS - 1
        /\ res' = [res EXCEPT ![w] = res[w] + 1] /\ res' \in [Workers -> 0 .. MAX_MSG_COUNT]
        /\ tasks_done' = [tasks_done EXCEPT ![w] = tasks_done[w] + 1]
        /\ tasks_done' \in [Workers -> 0 .. N_TASKS]
        /\ res[w] <= tasks_done[w] /\ w <= forked /\ forked \in 0 .. N
    BY TaskServerAssumption
       DEF Answer, CanSend, ServerInv, NoLostNotification, TypeOK, WorkerInv, Workers
  <1>2. ~AllResults /\ results_received' = results_received
    BY AllCounted DEF Answer
  <1>3. Counted' = Counted
    <2>1. ASSUME NEW x \in Answers
          PROVE  tasks_done'[x[1]] - res'[x[1]] = tasks_done[x[1]] - res[x[1]]
      BY <1>1 DEF Answers, ServerInv, NoLostNotification, TypeOK
    <2> QED BY <2>1 DEF Counted, Answers
  <1>4. NoLostNotification'
    <2>1. TypeOK'
      BY <1>1 DEF Answer, ServerInv, NoLostNotification, TypeOK, main
    <2>2. ASSUME NEW v \in 1 .. forked'
          PROVE  /\ res'[v] > 0 => v \in pending' \/ handling' = v
                 /\ (v \in registered') = (v \notin pending')
      BY <1>1 DEF Answer, ServerInv, NoLostNotification, TypeOK, main, Workers
    <2> QED BY <2>1, <2>2 DEF NoLostNotification
  <1>5. WorkerInv'
    <2> SUFFICES ASSUME NEW v \in Workers
                 PROVE  /\ res'[v] <= tasks_done'[v]
                        /\ wpc'[v] = "done" <=> tasks_done'[v] = N_TASKS
                        /\ wpc'[v] = "unborn" <=> v > forked'
                        /\ v > forked' => /\ tasks_done'[v] = 0
                                          /\ v \notin registered' \cup pending'
                                          /\ handling' # v
      BY DEF WorkerInv
    <2>1. CASE v # w
      BY <1>1, <2>1 DEF Answer, ServerInv, NoLostNotification, TypeOK, WorkerInv, main, Workers
    <2>2. CASE v = w
      <3>1. wpc'[w] = IF tasks_done[w] + 1 = N_TASKS THEN "done" ELSE "receive"
        BY <1>1 DEF Answer, LastTask, ServerInv, NoLostNotification, TypeOK
      <3>2. tasks_done'[w] = tasks_done[w] + 1 /\ res'[w] = res[w] + 1
        BY <1>1 DEF ServerInv, NoLostNotification, TypeOK
      <3>3. forked' = forked /\ w <= forked /\ w \in Int
        BY <1>1 DEF Answer, main, Workers
      <3> QED BY <1>1, <2>2, <3>1, <3>2, <3>3
    <2> QED BY <2>1, <2>2
  <1>6. CountInv' /\ SignalInv'
    BY <1>1, <1>2, <1>3
       DEF Answer, ServerInv, NoLostNotification, TypeOK, CountInv, SignalInv, AllResults, main
  <1> QED BY <1>4, <1>5, <1>6 DEF ServerInv

\* ERR kills the processes that have not ended.
LEMMA FailurePreserves ==
    ASSUME ServerInv, ForkFails \/ \E w \in Workers : AnswerFails(w)
    PROVE  ServerInv'
  <1>1. KillAll /\ UNCHANGED <<forked, tasks, res, notification, tasks_done, bigPid>>
    BY DEF ForkFails, AnswerFails
  <1>2. ~AllResults
    <2>1. CASE ForkFails
      <3>1. forked + 1 \in Workers /\ wpc[forked + 1] = "unborn"
        BY <2>1, TaskServerAssumption
           DEF ForkFails, ServerInv, NoLostNotification, TypeOK, WorkerInv, Workers
      <3> QED BY <3>1, AllCounted
    <2>2. CASE \E w \in Workers : AnswerFails(w)
      BY <2>2, AllCounted DEF AnswerFails
    <2> QED BY <2>1, <2>2
  <1>3. mpc' = "killed"
    BY <1>1, <1>2 DEF KillAll, ServerInv, CountInv
  <1>4. UNCHANGED <<res, tasks_done, results_received>>
    BY <1>1 DEF notification
  <1> QED BY <1>1, <1>3, <1>4, SameCount
          DEF KillAll, ServerInv, NoLostNotification, TypeOK, WorkerInv, CountInv,
              SignalInv, notification

LEMMA ServerNext == ASSUME ServerInv, [Next]_vars PROVE ServerInv'
  <1>1. CASE UNCHANGED vars
    <2>1. UNCHANGED <<res, tasks_done, results_received>>
      BY <1>1 DEF vars, notification, workers
    <2> QED BY <1>1, <2>1, SameCount
            DEF vars, main, notification, workers, ServerInv, NoLostNotification, TypeOK,
                WorkerInv, CountInv, SignalInv
  <1>2. CASE Next
    BY <1>1, <1>2, MainPreserves, HandlerStartPreserves, HandlerEndPreserves,
       ReceivePreserves, TakeTaskPreserves, AnswerPreserves, FailurePreserves
       DEF Next, MainStep, Signal, WorkerStep, Ended
  <1> QED BY <1>1, <1>2

(* Whichever program of MCQueues is started, with any number of workers    *)
(* and tasks and any capacity that holds the tasks of a worker, the        *)
(* handler loses no answer (mq_handler and child_work of zad02.c).         *)
THEOREM AnswersNoticed == LabSpec => []NoLostNotification
  <1>1. LabInit => ServerInv
    BY ServerInit DEF LabInit
  <1>2. ServerInv /\ [LabNext]_labVars => ServerInv'
    BY ServerNext DEF LabNext, Server, Telephone, Forum, labVars
  <1>3. ServerInv => NoLostNotification
    BY DEF ServerInv
  <1> QED BY <1>1, <1>2, <1>3, PTL DEF LabSpec

(* The loop of main ends with every answer counted and no signal on its    *)
(* way that could interrupt its wait (server_work of zad02.c).             *)
THEOREM ServerWaitsForAll == LabSpec => []WaitsForAll
  <1>1. LabInit => ServerInv
    BY ServerInit DEF LabInit
  <1>2. ServerInv /\ [LabNext]_labVars => ServerInv'
    BY ServerNext DEF LabNext, Server, Telephone, Forum, labVars
  <1>3. ServerInv => WaitsForAll
    BY AllCounted DEF WaitsForAll, ServerInv, CountInv, SignalInv
  <1> QED BY <1>1, <1>2, <1>3, PTL DEF LabSpec

-----------------------------------------------------------------------------
(* Forum.                                                                  *)

ForumChildPc == {"unborn", "register", "read", "send", "exited", "killed"}

\* The types that the argument needs.
ForumTypes == /\ children \in 0 .. CHILD_COUNT
              /\ fcpc \in [Fo!Children -> ForumChildPc]
              /\ rounds \in [Fo!Children -> Nat]
              /\ fq \in [Fo!Children -> 0 .. FORUM_MSG_COUNT]
              /\ fregistered \subseteq Fo!Children
              /\ starting \in [Fo!Children -> Nat]
              /\ reading \in [Fo!Children -> Nat]

\* A child that has not registered yet has no thread and gets no notification.
Quiet == \A c \in Fo!Children :
            /\ c > children => fcpc[c] = "unborn"
            /\ fcpc[c] \in {"unborn", "register"} =>
                 starting[c] = 0 /\ reading[c] = 0 /\ c \notin fregistered

ForumInv == ForumTypes /\ Quiet /\ NothingForgotten

ForumSizes == CHILD_COUNT \in Nat /\ FORUM_MSG_COUNT \in Nat

(* The queues may hold anything at the start: nobody is past its first     *)
(* registration yet.                                                       *)
LEMMA ForumInit == ASSUME ForumSizes, Fo!Init PROVE ForumInv
  BY DEF ForumSizes, Fo!Init, ForumInv, ForumTypes, Quiet, NothingForgotten,
         Fo!NothingForgotten, Fo!Children, ForumChildPc

\* ERR stops everybody at once.
LEMMA ForumKillAll == ASSUME ForumInv, Fo!KillAll PROVE ForumInv'
  BY DEF ForumInv, Fo!KillAll, ForumTypes, Quiet, NothingForgotten,
         Fo!NothingForgotten, Fo!threads, ForumChildPc

\* The steps of main touch at most a child that is not born yet.
LEMMA ForumParent == ASSUME ForumSizes, ForumInv, Fo!ParentStep PROVE ForumInv'
  <1>1. CASE Fo!Fork
    <2>1. children + 1 \in Fo!Children
      BY <1>1 DEF Fo!Fork, ForumInv, ForumTypes, ForumSizes, Fo!Children
    <2>2. fcpc[children + 1] = "unborn"
      BY <2>1 DEF ForumInv, ForumTypes, Quiet, ForumSizes
    <2>3. ForumTypes'
      <3>1. children' \in 0 .. CHILD_COUNT
        BY <1>1 DEF Fo!Fork, ForumInv, ForumTypes, ForumSizes
      <3>2. fcpc' \in [Fo!Children -> ForumChildPc]
        BY <1>1, <2>1 DEF Fo!Fork, ForumInv, ForumTypes, ForumChildPc
      <3> QED BY <1>1, <3>1, <3>2 DEF Fo!Fork, ForumInv, ForumTypes, Fo!threads
    <2>4. Quiet'
      BY <1>1, <2>1, <2>2 DEF Fo!Fork, ForumInv, ForumTypes, Quiet, ForumSizes,
                              Fo!threads, Fo!Children
    <2>5. NothingForgotten'
      BY <1>1, <2>1 DEF Fo!Fork, ForumInv, ForumTypes, NothingForgotten,
                        Fo!NothingForgotten, Fo!threads
    <2> QED BY <2>3, <2>4, <2>5 DEF ForumInv
  <1>2. CASE Fo!Close \/ Fo!Wait \/ Fo!Unlink
    BY <1>2 DEF Fo!Close, Fo!Wait, Fo!Unlink, ForumInv, ForumTypes, Quiet,
                NothingForgotten, Fo!NothingForgotten,
                Fo!threads
  <1> QED BY <1>1, <1>2 DEF Fo!ParentStep

(* A message that finds an empty queue either starts a thread, or the      *)
(* child has one that still has to register and read.                      *)
LEMMA ForumSend ==
    ASSUME ForumSizes, ForumInv, NEW c \in Fo!Children, NEW r \in Fo!Children,
           Fo!Send(c, r)
    PROVE  ForumInv'
  <1>1. ForumTypes'
    BY DEF Fo!Send, ForumInv, ForumTypes, ForumSizes, ForumChildPc
  <1>2. Quiet'
    BY DEF Fo!Send, ForumInv, ForumTypes, Quiet
  <1>3. NothingForgotten'
    BY <1>1 DEF Fo!Send, ForumInv, ForumTypes, NothingForgotten,
                Fo!NothingForgotten, ForumSizes
  <1> QED BY <1>1, <1>2, <1>3 DEF ForumInv

LEMMA ForumChild ==
    ASSUME ForumSizes, ForumInv, NEW c \in Fo!Children, Fo!ChildStep(c)
    PROVE  ForumInv'
  <1>1. CASE Fo!FirstRegister(c)
    BY <1>1 DEF Fo!FirstRegister, ForumInv, ForumTypes, Quiet, NothingForgotten,
                Fo!NothingForgotten, Fo!threads, ForumChildPc
  <1>2. CASE Fo!FirstRead(c)
    BY <1>2 DEF Fo!FirstRead, ForumInv, ForumTypes, Quiet, NothingForgotten,
                Fo!NothingForgotten, Fo!threads, ForumChildPc, ForumSizes
  <1>3. CASE Fo!Leave(c)
    BY <1>3 DEF Fo!Leave, ForumInv, ForumTypes, Quiet, NothingForgotten,
                Fo!NothingForgotten, ForumChildPc
  <1>4. CASE \E r \in Fo!Children : Fo!Send(c, r)
    BY <1>4, ForumSend
  <1>5. CASE \E r \in Fo!Children : Fo!SendFails(c, r)
    BY <1>5, ForumKillAll DEF Fo!SendFails
  <1> QED BY <1>1, <1>2, <1>3, <1>4, <1>5 DEF Fo!ChildStep

(* A thread registers only when there is no registration, and leaves only  *)
(* an empty queue behind.                                                  *)
LEMMA ForumThread ==
    ASSUME ForumSizes, ForumInv, NEW c \in Fo!Children, Fo!ThreadStep(c)
    PROVE  ForumInv'
  <1>1. CASE Fo!Register(c)
    BY <1>1 DEF Fo!Register, Fo!Alive, ForumInv, ForumTypes, Quiet,
                NothingForgotten, Fo!NothingForgotten, ForumChildPc
  <1>2. CASE Fo!Read(c)
    BY <1>2 DEF Fo!Read, Fo!ReadsOn, Fo!Alive, ForumInv, ForumTypes, Quiet,
                NothingForgotten, Fo!NothingForgotten,
                ForumChildPc, ForumSizes
  <1> QED BY <1>1, <1>2 DEF Fo!ThreadStep

LEMMA ForumNext == ASSUME ForumSizes, ForumInv, [Fo!Next]_(Fo!vars) PROVE ForumInv'
  <1>1. CASE UNCHANGED Fo!vars
    BY <1>1 DEF Fo!vars, Fo!threads, ForumInv, ForumTypes, Quiet, NothingForgotten,
                Fo!NothingForgotten
  <1> QED BY <1>1, ForumParent, ForumChild, ForumThread DEF Fo!Next

(* Whichever program of MCQueues is started, and with any number of        *)
(* children of the forum and capacity of its queues, no message is         *)
(* forgotten: handle_messages registers again before it reads              *)
(* (forum.c:61), therefore every message in the queue of a child that is   *)
(* past its first registration will be found, and mq_notify is never       *)
(* EBUSY.                                                                  *)
THEOREM ForumMessagesFound == ASSUME ForumSizes PROVE LabSpec => []NothingForgotten
  <1>1. LabInit => ForumInv
    BY ForumInit DEF LabInit
  <1>2. ForumInv /\ [LabNext]_labVars => ForumInv'
    <2>1. CASE [Fo!Next]_(Fo!vars)
      BY <2>1, ForumNext
    <2>2. CASE UNCHANGED forumVars
      <3>1. UNCHANGED Fo!vars
        BY <2>2 DEF forumVars, Fo!vars, Fo!threads
      <3> QED BY <3>1, ForumNext
    <2> QED BY <2>1, <2>2 DEF LabNext, Server, Telephone, Forum, labVars
  <1>3. ForumInv => NothingForgotten
    BY DEF ForumInv
  <1> QED BY <1>1, <1>2, <1>3, PTL DEF LabSpec

-----------------------------------------------------------------------------
(* Telephone: runs of numbers and their concatenation.                     *)

\* The numbers a .. b - 1 as a sequence.
WordRun(a, b) == [i \in 1 .. b - a |-> a + i - 1]

LEMMA SameElements ==
    ASSUME NEW S, NEW s \in Seq(S), NEW t \in Seq(S), Len(s) = Len(t),
           \A k \in 1 .. Len(s) : s[k] = t[k]
    PROVE  s = t
  OBVIOUS

\* What is left when the first element of a sequence goes.
LEMMA HeadAndTail ==
    ASSUME NEW S, NEW s \in Seq(S), s # <<>>
    PROVE  /\ Head(s) \in S /\ Head(s) = s[1] /\ Len(s) \in Nat \ {0}
           /\ Tail(s) \in Seq(S) /\ Len(Tail(s)) = Len(s) - 1
           /\ \A i \in 1 .. Len(s) - 1 : Tail(s)[i] = s[i + 1]
  <1>1. Len(s) \in Nat \ {0} /\ Head(s) = s[1]
    OBVIOUS
  <1>2. \A i \in 1 .. Len(s) : s[i] \in S
    OBVIOUS
  <1>3. Tail(s) \in Seq(S) /\ Len(Tail(s)) = Len(s) - 1
    OBVIOUS
  <1>4. \A i \in 1 .. Len(s) - 1 : Tail(s)[i] = s[i + 1]
    OBVIOUS
  <1> QED BY <1>1, <1>2, <1>3, <1>4

\* Nothing and one element, put at the end of a sequence.
LEMMA AddedLast ==
    ASSUME NEW S, NEW s \in Seq(S), NEW e \in S
    PROVE  /\ s \o <<>> = s /\ s \o <<e>> = Append(s, e) /\ Len(s) \in Nat
           /\ Append(s, e) \in Seq(S) /\ Len(Append(s, e)) = Len(s) + 1
  OBVIOUS

LEMMA WordRunFacts ==
    ASSUME NEW a \in Nat, NEW b \in Nat, a <= b
    PROVE  /\ WordRun(a, b) \in Seq(Nat) /\ Len(WordRun(a, b)) = b - a
           /\ \A k \in 1 .. b - a : WordRun(a, b)[k] = a + k - 1
           /\ Append(WordRun(a, b), b) = WordRun(a, b + 1)
           /\ WordRun(a, b) = <<>> <=> a = b
  <1>1. /\ WordRun(a, b) \in Seq(Nat) /\ Len(WordRun(a, b)) = b - a
        /\ \A k \in 1 .. b - a : WordRun(a, b)[k] = a + k - 1
    BY DEF WordRun
  <1>2. Append(WordRun(a, b), b) = WordRun(a, b + 1)
    <2>1. /\ Append(WordRun(a, b), b) \in Seq(Nat)
          /\ Len(Append(WordRun(a, b), b)) = b + 1 - a
      BY <1>1
    <2>2. WordRun(a, b + 1) \in Seq(Nat) /\ Len(WordRun(a, b + 1)) = b + 1 - a
      BY DEF WordRun
    <2>3. ASSUME NEW k \in 1 .. b + 1 - a
          PROVE  Append(WordRun(a, b), b)[k] = WordRun(a, b + 1)[k]
      BY <1>1 DEF WordRun
    <2> QED BY <2>1, <2>2, <2>3, SameElements
  <1>3. WordRun(a, b) = <<>> <=> a = b
    BY <1>1
  <1> QED BY <1>1, <1>2, <1>3

LEMMA WordRunTail ==
    ASSUME NEW a \in Nat, NEW b \in Nat, a < b
    PROVE  Head(WordRun(a, b)) = a /\ Tail(WordRun(a, b)) = WordRun(a + 1, b)
  <1>1. /\ WordRun(a, b) \in Seq(Nat) /\ Len(WordRun(a, b)) = b - a
        /\ \A k \in 1 .. b - a : WordRun(a, b)[k] = a + k - 1
    BY DEF WordRun
  <1>2. /\ WordRun(a + 1, b) \in Seq(Nat) /\ Len(WordRun(a + 1, b)) = b - a - 1
        /\ \A k \in 1 .. b - a - 1 : WordRun(a + 1, b)[k] = a + k
    BY DEF WordRun
  <1>3. Head(WordRun(a, b)) = a
    BY <1>1
  <1>4. Tail(WordRun(a, b)) \in Seq(Nat) /\ Len(Tail(WordRun(a, b))) = b - a - 1
    BY <1>1
  <1>5. ASSUME NEW k \in 1 .. b - a - 1 PROVE Tail(WordRun(a, b))[k] = WordRun(a + 1, b)[k]
    BY <1>1, <1>2
  <1> QED BY <1>2, <1>3, <1>4, <1>5, SameElements

LEMMA WordRunJoin ==
    ASSUME NEW a \in Nat, NEW b \in Nat, NEW c \in Nat, a <= b, b <= c
    PROVE  WordRun(a, b) \o WordRun(b, c) = WordRun(a, c)
  <1> DEFINE s == WordRun(a, b)
             t == WordRun(b, c)
             u == WordRun(a, c)
             m == b - a
             n == c - b
  <1>1. s \in Seq(Nat) /\ Len(s) = m /\ \A k \in 1 .. m : s[k] = a + k - 1
    BY DEF WordRun
  <1>2. t \in Seq(Nat) /\ Len(t) = n /\ \A k \in 1 .. n : t[k] = b + k - 1
    BY DEF WordRun
  <1>3. u \in Seq(Nat) /\ Len(u) = m + n /\ \A k \in 1 .. m + n : u[k] = a + k - 1
    BY DEF WordRun
  <1>4. m \in Nat /\ n \in Nat /\ b = a + m
    OBVIOUS
  <1> HIDE DEF s, t, u, m, n
  <1>5. s \o t \in Seq(Nat) /\ Len(s \o t) = m + n
    BY <1>1, <1>2, <1>4
  <1>6. ASSUME NEW k \in 1 .. m + n PROVE (s \o t)[k] = u[k]
    <2>1. CASE k <= m
      <3>1. k \in 1 .. Len(s) /\ (s \o t)[k] = s[k]
        BY <1>1, <1>2, <1>4, <2>1
      <3> QED BY <1>1, <1>3, <2>1, <3>1
    <2>2. CASE k > m
      <3>1. k - m \in 1 .. n /\ b + (k - m) - 1 = a + k - 1
        BY <1>4, <2>2
      <3>2. (s \o t)[k] = t[k - m]
        BY <1>1, <1>2, <1>4, <2>2, <3>1
      <3> QED BY <1>2, <1>3, <3>1, <3>2
    <2>3. k <= m \/ k > m
      BY <1>4
    <2> QED BY <2>1, <2>2, <2>3
  <1>7. s \o t = u
    BY <1>3, <1>5, <1>6, SameElements
  <1> QED BY <1>7 DEF s, t, u

\* A set of natural numbers that is not empty has a least element.
LEMMA Least ==
    ASSUME NEW T, T \subseteq Nat, T # {}
    PROVE  \E x \in T : \A y \in T : x <= y
  <1> DEFINE R == OpToRel(<, Nat)
  <1>1. IsWellFoundedOn(R, Nat)
    BY NatLessThanWellFounded
  <1> HIDE DEF R
  <1>2. PICK x \in T : \A y \in T : ~(<<y, x>> \in R)
    BY <1>1, WFMin, Zenon
  <1>3. ASSUME NEW y \in T PROVE x <= y
    <2>1. ~(<<y, x>> \in R)
      BY <1>2
    <2>2. x \in Nat /\ y \in Nat
      OBVIOUS
    <2> QED BY <2>1, <2>2 DEF R, OpToRel
  <1> QED BY <1>3

\* Induction over 0 .. n, for a set of those that satisfy the claim.
LEMMA Climb ==
    ASSUME NEW n \in Nat, NEW S, 0 \in S, \A k \in 0 .. n - 1 : k \in S => k + 1 \in S
    PROVE  \A k \in 0 .. n : k \in S
  <1> DEFINE T == {k \in 0 .. n : k \notin S}
  <1>1. T = {}
    <2> SUFFICES ASSUME T # {} PROVE FALSE
      OBVIOUS
    <2>1. T \subseteq Nat
      OBVIOUS
    <2>2. PICK x \in T : \A y \in T : x <= y
      BY <2>1, Least
    <2>3. x \in 1 .. n /\ x \notin S
      BY <2>2
    <2>4. x - 1 \in 0 .. n - 1 /\ (x - 1) + 1 = x
      BY <2>3
    <2>5. x - 1 \notin T
      <3> SUFFICES ASSUME x - 1 \in T PROVE FALSE
        OBVIOUS
      <3>1. x <= x - 1
        BY <2>2
      <3> QED BY <2>3, <3>1
    <2>6. x - 1 \in S
      BY <2>4, <2>5
    <2>7. x \in S
      BY <2>4, <2>6
    <2> QED BY <2>3, <2>7
  <1> QED BY <1>1

\* What Phone!FlattenSeq returns is any function that satisfies its equation.
LEMMA Joined ==
    ASSUME NEW n \in Nat \ {0}, NEW s, Len(s) = n, NEW g,
           g = [i \in 1 .. n |-> IF i = 1 THEN s[i] ELSE g[i - 1] \o s[i]]
    PROVE  Phone!FlattenSeq(s) = g[n]
  <1> DEFINE Good(f) == f = [i \in 1 .. n |-> IF i = 1 THEN s[i] ELSE f[i - 1] \o s[i]]
             f == CHOOSE h : Good(h)
  <1>1. Good(f)
    BY Zenon
  <1>2. Phone!FlattenSeq(s) = f[n]
    BY Zenon DEF Phone!FlattenSeq
  <1> HIDE DEF f
  <1>3. \A i \in 1 .. n : /\ f[i] = IF i = 1 THEN s[i] ELSE f[i - 1] \o s[i]
                          /\ g[i] = IF i = 1 THEN s[i] ELSE g[i - 1] \o s[i]
    BY <1>1
  <1> DEFINE S == {i \in 0 .. n - 1 : f[i + 1] = g[i + 1]}
  <1>4. 0 \in S
    BY <1>3
  <1>5. ASSUME NEW k \in 0 .. (n - 1) - 1, k \in S PROVE k + 1 \in S
    <2>1. k + 2 \in 1 .. n /\ k + 2 # 1 /\ (k + 2) - 1 = k + 1 /\ (k + 1) + 1 = k + 2
      OBVIOUS
    <2>2. f[k + 1] = g[k + 1]
      BY <1>5
    <2>3. f[k + 2] = f[k + 1] \o s[k + 2] /\ g[k + 2] = g[k + 1] \o s[k + 2]
      BY <1>3, <2>1
    <2>4. f[k + 2] = g[k + 2]
      BY <2>2, <2>3
    <2>5. f[(k + 1) + 1] = g[(k + 1) + 1]
      BY <2>1, <2>4
    <2>6. k + 1 \in 0 .. n - 1
      OBVIOUS
    <2> QED BY <2>5, <2>6
  <1>6. n - 1 \in Nat /\ n - 1 \in 0 .. n - 1
    OBVIOUS
  <1> HIDE DEF S
  <1>7. n - 1 \in S
    BY <1>4, <1>5, <1>6, Climb
  <1>8. f[n] = g[n]
    BY <1>7 DEF S
  <1> QED BY <1>2, <1>8

-----------------------------------------------------------------------------
(* Telephone: the invariant.                                               *)

PhoneSizes == Players \in Nat /\ MQ_MSG_COUNT \in Nat /\ MaxWords \in Nat

PhoneTyped == /\ words \in 0 .. MaxWords /\ sent \in 0 .. words
              /\ final \in Seq(0 .. MaxWords)
              /\ cpc \in [Phone!Children -> {"unborn", "openRecv", "openSend", "receive",
                                             "pass", "unlink", "left"}]
              /\ msg \in [Phone!Children -> 0 .. MaxWords]
              /\ q \in [Phone!Names -> Seq(0 .. MaxWords)]
              /\ \A k \in Phone!Names : Len(q[k]) <= MQ_MSG_COUNT

\* Process k, 0 is main, has put the "!" into its queue or has it in hand.
BangGone(k) == IF k = 0 THEN ppc \notin {"fork", "openRecv", "openSend", "send"}
               ELSE cpc[k] \in {"unlink", "left"} \/ (cpc[k] = "pass" /\ msg[k] = MaxWords)

(* The queue and the hand of process k hold the words a .. b - 1, and       *)
(* perhaps the "!", which follows the last word of the sentence.           *)
InSlot(k, a, b) == /\ a <= b
                   /\ \/ Phone!Slot(k) = WordRun(a, b)
                      \/ /\ Phone!Slot(k) = Append(WordRun(a, b), MaxWords)
                         /\ BangGone(k) /\ b = words

\* Child k has received r[k] words, its successor those that it has let go.
InOrder(r) == /\ r[0] = sent /\ r[Players + 1] = Len(final)
              /\ \A k \in Phone!Names : InSlot(k, r[k + 1], r[k])

\* Main has forked the children 1 .. players.
ForkedInv == /\ players \in 0 .. Players
             /\ \A k \in Phone!Children : k > players => cpc[k] = "unborn"

PhoneInv == /\ PhoneTyped /\ ForkedInv
            /\ \E r \in [0 .. Players + 1 -> 0 .. words] : InOrder(r)

\* The types of the numbers of words received.
LEMMA Received ==
    ASSUME PhoneSizes, PhoneTyped, NEW r \in [0 .. Players + 1 -> 0 .. words],
           NEW k \in Phone!Names
    PROVE  /\ r[k] \in 0 .. words /\ r[k + 1] \in 0 .. words
           /\ words \in Nat /\ words <= MaxWords /\ MaxWords \in Nat
           /\ r[k] \in Nat /\ r[k + 1] \in Nat
           /\ k \in 0 .. Players /\ k + 1 \in 1 .. Players + 1 /\ Players \in Nat
  BY DEF PhoneSizes, PhoneTyped, Phone!Names

\* Of a sequence of words the "!" at its end is dropped, if there is one.
LEMMA BangDropped ==
    ASSUME NEW w \in Seq(Nat), MaxWords \in Nat, \A j \in 1 .. Len(w) : w[j] # MaxWords
    PROVE  Phone!WithoutBang(w) = w /\ Phone!WithoutBang(Append(w, MaxWords)) = w
  <1>1. Phone!WithoutBang(w) = w
    <2>1. w # <<>> => w[Len(w)] # MaxWords
      OBVIOUS
    <2> QED BY <2>1 DEF Phone!WithoutBang, Phone!Last, Phone!Bang
  <1>2. Phone!WithoutBang(Append(w, MaxWords)) = w
    <2> DEFINE s == Append(w, MaxWords)
               f == SubSeq(s, 1, Len(s) - 1)
    <2>1. s \in Seq(Nat) /\ Len(s) = Len(w) + 1
      OBVIOUS
    <2>2. s[Len(s)] = MaxWords /\ \A j \in 1 .. Len(w) : s[j] = w[j]
      BY <2>1
    <2> HIDE DEF s
    <2>3. f \in Seq(Nat) /\ Len(f) = Len(w)
      BY <2>1
    <2>4. \A j \in 1 .. Len(w) : f[j] = w[j]
      BY <2>1, <2>2
    <2>5. s # <<>>
      BY <2>1
    <2>6. Phone!WithoutBang(s) = f
      BY <2>2, <2>5 DEF Phone!WithoutBang, Phone!Last, Phone!Front, Phone!Bang
    <2> HIDE DEF f
    <2>7. f = w
      BY <2>3, <2>4, SameElements
    <2> QED BY <2>6, <2>7 DEF s
  <1> QED BY <1>1, <1>2

LEMMA SlotWords ==
    ASSUME PhoneSizes, PhoneTyped, NEW r \in [0 .. Players + 1 -> 0 .. words], InOrder(r),
           NEW k \in Phone!Names
    PROVE  Phone!WithoutBang(Phone!Slot(k)) = WordRun(r[k + 1], r[k])
  <1> DEFINE a == r[k + 1]
             b == r[k]
             s == Phone!Slot(k)
             w == WordRun(a, b)
  <1>1. a \in Nat /\ b \in Nat /\ b <= MaxWords /\ MaxWords \in Nat
    BY Received
  <1>2. a <= b /\ (s = w \/ s = Append(w, MaxWords))
    BY DEF InOrder, InSlot
  <1>3. w \in Seq(Nat) /\ Len(w) = b - a /\ \A j \in 1 .. b - a : w[j] = a + j - 1
    BY <1>1, <1>2, WordRunFacts
  <1> HIDE DEF a, b, s, w
  <1>4. \A j \in 1 .. Len(w) : w[j] # MaxWords
    BY <1>1, <1>2, <1>3
  <1>5. Phone!WithoutBang(w) = w /\ Phone!WithoutBang(Append(w, MaxWords)) = w
    BY <1>1, <1>3, <1>4, BangDropped
  <1>6. Phone!WithoutBang(s) = w
    BY <1>2, <1>5
  <1> QED BY <1>6 DEF s, w, a, b

\* No child has received less than main.
LEMMA Monotone ==
    ASSUME PhoneSizes, PhoneTyped, NEW r \in [0 .. Players + 1 -> 0 .. words], InOrder(r)
    PROVE  \A k \in 0 .. Players + 1 : Len(final) <= r[k] /\ r[k] <= sent
  <1> DEFINE n == Players + 1
             S == {j \in 0 .. n : r[n] <= r[n - j]}
             T == {j \in 0 .. n : r[j] <= r[0]}
  <1>1. n \in Nat /\ n - 1 = Players /\ \A k \in 0 .. n : r[k] \in Nat
    BY DEF PhoneSizes, PhoneTyped
  <1>2. \A k \in 0 .. n - 1 : r[k + 1] <= r[k]
    BY <1>1 DEF InOrder, InSlot, Phone!Names
  <1> HIDE DEF n
  <1>3. 0 \in S /\ 0 \in T
    BY <1>1
  <1>4. ASSUME NEW j \in 0 .. n - 1, j \in S PROVE j + 1 \in S
    <2>1. r[n] <= r[n - j]
      BY <1>4
    <2>2. n - j - 1 \in 0 .. n - 1 /\ (n - j - 1) + 1 = n - j /\ n - (j + 1) = n - j - 1
          /\ n - j \in 0 .. n /\ n \in 0 .. n /\ j + 1 \in 0 .. n
      BY <1>1
    <2>3. r[n - j] <= r[n - j - 1]
      BY <1>2, <2>2
    <2>4. r[n] \in Nat /\ r[n - j] \in Nat /\ r[n - j - 1] \in Nat
      BY <1>1, <2>2
    <2>5. r[n] <= r[n - (j + 1)]
      BY <2>1, <2>2, <2>3, <2>4
    <2> QED BY <2>2, <2>5
  <1>5. ASSUME NEW j \in 0 .. n - 1, j \in T PROVE j + 1 \in T
    BY <1>1, <1>2, <1>5
  <1> HIDE DEF S, T
  <1>6. \A j \in 0 .. n : j \in S /\ j \in T
    BY <1>1, <1>3, <1>4, <1>5, Climb
  <1>7. ASSUME NEW k \in 0 .. n PROVE r[n] <= r[k] /\ r[k] <= r[0]
    <2>1. n - k \in 0 .. n /\ n - (n - k) = k
      BY <1>1
    <2>2. n - k \in S /\ k \in T
      BY <1>6, <2>1
    <2> QED BY <2>1, <2>2 DEF S, T
  <1> QED BY <1>7 DEF InOrder, n

\* Whatever the steps were, the words under way are those sent and not received.
LEMMA UnderWayIsRun ==
    ASSUME PhoneSizes, PhoneInv
    PROVE  /\ Phone!UnderWay = WordRun(Len(final), sent)
           /\ Len(final) \in Nat /\ sent \in Nat /\ Len(final) <= sent
  <1>1. PICK r \in [0 .. Players + 1 -> 0 .. words] : InOrder(r)
    BY DEF PhoneInv
  <1>2. PhoneTyped
    BY DEF PhoneInv
  <1> DEFINE s == [i \in 1 .. Players + 1 |-> Phone!WithoutBang(Phone!Slot(Players + 1 - i))]
  <1>3. Phone!UnderWay = Phone!FlattenSeq(s)
    BY DEF Phone!UnderWay
  <1>4. \A i \in 1 .. Players + 1 : s[i] = Phone!WithoutBang(Phone!Slot(Players + 1 - i))
    OBVIOUS
  <1>5. Len(s) = Players + 1
    BY DEF PhoneSizes
  <1> HIDE DEF s
  <1> DEFINE n == Players + 1
             g == [i \in 1 .. n |-> WordRun(r[n], r[n - i])]
  <1>6. n \in Nat \ {0} /\ n = Players + 1 /\ Players \in Nat
        /\ \A k \in 0 .. n : r[k] \in Nat /\ r[n] <= r[k] /\ r[k] <= r[0]
    <2>1. \A k \in 0 .. n : Len(final) <= r[k] /\ r[k] <= sent
      BY <1>1, <1>2, Monotone
    <2>2. \A k \in 0 .. n : r[k] \in Nat
      BY <1>2 DEF PhoneTyped
    <2>3. n \in Nat \ {0} /\ n = Players + 1 /\ Players \in Nat
      BY DEF PhoneSizes
    <2>4. r[n] = Len(final) /\ r[0] = sent
      BY <1>1 DEF InOrder
    <2> QED BY <2>1, <2>2, <2>3, <2>4
  <1>7. r[n] = Len(final) /\ r[0] = sent
    BY <1>1 DEF InOrder
  <1> HIDE DEF n
  <1>8. ASSUME NEW i \in 1 .. n
        PROVE  s[i] = WordRun(r[n - i + 1], r[n - i]) /\ r[n - i + 1] <= r[n - i]
    <2>1. n - i \in Phone!Names
      BY <1>6 DEF Phone!Names
    <2>2. r[(n - i) + 1] <= r[n - i]
      BY <1>1, <2>1 DEF InOrder, InSlot
    <2>3. Phone!WithoutBang(Phone!Slot(n - i)) = WordRun(r[(n - i) + 1], r[n - i])
      BY <1>1, <1>2, <2>1, SlotWords
    <2>4. s[i] = Phone!WithoutBang(Phone!Slot(n - i))
      BY <1>6, <1>4
    <2> QED BY <2>2, <2>3, <2>4
  <1>9. \A i \in 1 .. n : g[i] = WordRun(r[n], r[n - i])
    OBVIOUS
  <1>10. Len(s) = n
    BY <1>5 DEF n
  <1> DEFINE h == [i \in 1 .. n |-> IF i = 1 THEN s[i] ELSE g[i - 1] \o s[i]]
  <1>11. g = h
    <2>1. ASSUME NEW i \in 1 .. n PROVE g[i] = h[i]
      <3>1. CASE i = 1
        <4>1. n - 1 + 1 = n
          BY <1>6
        <4>2. s[1] = WordRun(r[n], r[n - 1])
          BY <1>8, <3>1, <4>1
        <4> QED BY <1>9, <3>1, <4>2
      <3>2. CASE i # 1
        <4>1. i - 1 \in 1 .. n /\ n - (i - 1) = n - i + 1 /\ n - i + 1 \in 0 .. n
              /\ n - i \in 0 .. n /\ n \in 0 .. n
          BY <1>6, <3>2
        <4>2. g[i - 1] = WordRun(r[n], r[n - i + 1])
          BY <1>9, <4>1
        <4>3. s[i] = WordRun(r[n - i + 1], r[n - i]) /\ r[n - i + 1] <= r[n - i]
          BY <1>8
        <4>4. /\ r[n] \in Nat /\ r[n - i + 1] \in Nat /\ r[n - i] \in Nat
              /\ r[n] <= r[n - i + 1]
          BY <1>6, <4>1
        <4>5. WordRun(r[n], r[n - i + 1]) \o WordRun(r[n - i + 1], r[n - i])
                = WordRun(r[n], r[n - i])
          BY <4>3, <4>4, WordRunJoin
        <4>6. h[i] = g[i - 1] \o s[i]
          BY <3>2
        <4> HIDE DEF g, h, s
        <4> QED BY <1>9, <4>2, <4>3, <4>5, <4>6
      <3> QED BY <3>1, <3>2
    <2> QED BY <2>1, Zenon
  <1> HIDE DEF g, s
  <1>12. Phone!FlattenSeq(s) = g[n]
    <2>1. n \in Nat \ {0}
      BY <1>6
    <2>2. g = [i \in 1 .. n |-> IF i = 1 THEN s[i] ELSE g[i - 1] \o s[i]]
      BY <1>11, Zenon
    <2> HIDE DEF h, n
    <2> QED BY <1>10, <2>1, <2>2, Joined, ZenonT(60)
  <1>13. n \in 1 .. n /\ n - n = 0
    BY <1>6
  <1>14. g[n] = WordRun(r[n], r[0])
    BY <1>9, <1>13
  <1>15. 0 \in 0 .. n /\ n \in 0 .. n
    BY <1>6
  <1> QED BY <1>6, <1>7, <1>3, <1>12, <1>14, <1>15

-----------------------------------------------------------------------------
(* Telephone: the steps.                                                   *)

\* The first message of a slot is the next word, or the "!" after the last one.
LEMMA OneGoes ==
    ASSUME NEW a \in Nat, NEW b \in Nat, a <= b, b <= MaxWords, MaxWords \in Nat,
           NEW s, s # <<>>, s = WordRun(a, b) \/ s = Append(WordRun(a, b), MaxWords)
    PROVE  \/ /\ a < b /\ Head(s) = a
              /\ s = WordRun(a, b) => Tail(s) = WordRun(a + 1, b)
              /\ s = Append(WordRun(a, b), MaxWords) =>
                   Tail(s) = Append(WordRun(a + 1, b), MaxWords)
           \/ /\ a = b /\ s = Append(WordRun(a, b), MaxWords)
              /\ Head(s) = MaxWords /\ Tail(s) = WordRun(a, b)
  <1> DEFINE w == WordRun(a, b)
             v == WordRun(a + 1, b)
  <1>1. w \in Seq(Nat) /\ Len(w) = b - a /\ (w = <<>> <=> a = b)
    BY WordRunFacts
  <1>2. CASE a = b
    <2>1. w = <<>> /\ s = Append(w, MaxWords)
      BY <1>1, <1>2
    <2> HIDE DEF w
    <2>2. Head(s) = MaxWords /\ Tail(s) = w
      BY <2>1
    <2> QED BY <1>2, <2>1, <2>2 DEF w
  <1>3. CASE a < b
    <2>1. Head(w) = a /\ Tail(w) = v /\ w # <<>>
      BY <1>1, <1>3, WordRunTail
    <2>2. v \in Seq(Nat) /\ Len(v) = b - a - 1
      BY <1>3 DEF WordRun
    <2> DEFINE t == Append(w, MaxWords)
               u == Append(v, MaxWords)
    <2>3. Head(t) = a /\ Tail(t) = u
      <3> HIDE DEF w, v
      <3>1. t \in Seq(Nat) /\ Len(t) = b - a + 1 /\ t # <<>> /\ Head(t) = t[1]
        BY <1>1, <1>3
      <3>2. u \in Seq(Nat) /\ Len(u) = b - a
        BY <2>2
      <3>3. Tail(t) \in Seq(Nat) /\ Len(Tail(t)) = b - a
        BY <3>1
      <3>4. ASSUME NEW j \in 1 .. b - a PROVE Tail(t)[j] = u[j]
        <4>1. Tail(t)[j] = t[j + 1] /\ j + 1 \in 1 .. b - a + 1 /\ j \in Nat
          BY <1>3, <3>1
        <4>2. \A i \in 1 .. b - a : t[i] = w[i]
          BY <1>1
        <4>3. t[b - a + 1] = MaxWords
          BY <1>1
        <4>4. \A i \in 1 .. b - a - 1 : u[i] = v[i]
          BY <2>2
        <4>5. u[b - a] = MaxWords
          BY <2>2
        <4>6. \A i \in 1 .. b - a - 1 : v[i] = w[i + 1]
          <5>1. \A i \in 1 .. Len(w) - 1 : Tail(w)[i] = w[i + 1]
            BY <1>1, <2>1, HeadAndTail
          <5> QED BY <1>1, <2>1, <5>1
        <4> HIDE DEF t, u
        <4>7. j = b - a \/ (j \in 1 .. b - a - 1 /\ j + 1 \in 1 .. b - a)
          BY <1>3, <4>1
        <4> QED BY <4>1, <4>2, <4>3, <4>4, <4>5, <4>6, <4>7
      <3>5. Tail(t) = u
        <4> HIDE DEF t, u
        <4> QED BY <3>2, <3>3, <3>4, SameElements
      <3>6. t[1] = w[1] /\ Head(w) = w[1]
        BY <1>1, <1>3
      <3> QED BY <2>1, <3>1, <3>5, <3>6
    <2> HIDE DEF w, v
    <2>4. Head(s) = a /\ (s = w => Tail(s) = v) /\ (s = t => Tail(s) = u)
      <3> HIDE DEF t, u
      <3>1. s = w \/ s = t
        BY DEF w, t
      <3>2. w # t
        <4>1. Len(t) = Len(w) + 1
          BY <1>1 DEF t
        <4> QED BY <1>1, <4>1
      <3> QED BY <2>1, <2>3, <3>1, <3>2
    <2> QED BY <1>3, <2>4 DEF w, v
  <1> QED BY <1>2, <1>3

\* A slot that nobody has touched keeps its words.
LEMMA SlotKept ==
    ASSUME NEW k \in Phone!Names, NEW a, NEW b, InSlot(k, a, b),
           (Phone!Slot(k))' = Phone!Slot(k), UNCHANGED words,
           BangGone(k) => (BangGone(k))'
    PROVE  (InSlot(k, a, b))'
  BY DEF InSlot

\* Steps that take no message out of a slot and put none into one.
LEMMA PhoneQuiet ==
    ASSUME PhoneInv, PhoneTyped', ForkedInv', UNCHANGED <<sent, final, words>>,
           \A k \in Phone!Names : /\ (Phone!Slot(k))' = Phone!Slot(k)
                                  /\ BangGone(k) => (BangGone(k))'
    PROVE  PhoneInv'
  <1>1. PICK r \in [0 .. Players + 1 -> 0 .. words] : InOrder(r)
    BY DEF PhoneInv
  <1>2. ASSUME NEW k \in Phone!Names PROVE (InSlot(k, r[k + 1], r[k]))'
    <2>1. InSlot(k, r[k + 1], r[k])
      BY <1>1 DEF InOrder
    <2> QED BY <2>1, SlotKept
  <1>3. (InOrder(r))'
    BY <1>1, <1>2 DEF InOrder
  <1> QED BY <1>3 DEF PhoneInv

LEMMA PhoneInit == ASSUME PhoneSizes, Phone!Init PROVE PhoneInv
  <1> DEFINE r == [k \in 0 .. Players + 1 |-> 0]
  <1>1. PhoneTyped
    BY DEF PhoneSizes, Phone!Init, PhoneTyped, Phone!Bang
  <1>2. ForkedInv
    BY DEF PhoneSizes, Phone!Init, ForkedInv
  <1>3. r \in [0 .. Players + 1 -> 0 .. words]
    BY <1>1 DEF PhoneTyped
  <1>4. r[0] = 0 /\ r[Players + 1] = 0 /\ \A k \in Phone!Names : r[k] = 0 /\ r[k + 1] = 0
    BY DEF PhoneSizes, Phone!Names
  <1> HIDE DEF r
  <1>5. WordRun(0, 0) = <<>>
    BY WordRunFacts
  <1>6. ASSUME NEW k \in Phone!Names PROVE InSlot(k, 0, 0)
    <2>1. q[k] = <<>> /\ (k # 0 => cpc[k] = "unborn")
      BY DEF Phone!Init, Phone!Names, Phone!Children
    <2>2. Phone!Held(k) = <<>>
      BY <2>1 DEF Phone!Held
    <2>3. Phone!Slot(k) = <<>>
      BY <2>1, <2>2 DEF Phone!Slot
    <2> QED BY <1>5, <2>3 DEF InSlot
  <1>7. Len(final) = 0 /\ sent = 0
    BY DEF Phone!Init
  <1>8. InOrder(r)
    BY <1>4, <1>6, <1>7 DEF InOrder
  <1> QED BY <1>1, <1>2, <1>3, <1>8 DEF PhoneInv

\* The steps that leave the queues alone.
LEMMA PhoneStill ==
    ASSUME PhoneSizes, PhoneInv,
           \/ Phone!Fork \/ Phone!Start \/ Phone!ParentOpen \/ Phone!PrintFinal
           \/ Phone!Wait \/ Phone!ParentUnlink
           \/ \E k \in Phone!Children : \/ Phone!OpenRecv(k) \/ Phone!OpenSend(k)
                                        \/ Phone!Unlink(k)
    PROVE  PhoneInv'
  <1>1. PhoneTyped /\ ForkedInv
    BY DEF PhoneInv
  <1>2. UNCHANGED <<q, msg, sent, final, words>>
    BY DEF Phone!Fork, Phone!Start, Phone!ParentOpen, Phone!PrintFinal, Phone!Wait,
           Phone!ParentUnlink, Phone!OpenRecv, Phone!OpenSend, Phone!Unlink,
           Phone!queues, Phone!child, Phone!parent
  <1>3. SUFFICES ASSUME TRUE
        PROVE  /\ cpc' \in [Phone!Children -> {"unborn", "openRecv", "openSend", "receive",
                                               "pass", "unlink", "left"}]
               /\ ForkedInv'
               /\ \A k \in Phone!Children :
                     \/ cpc'[k] = cpc[k]
                     \/ cpc[k] \notin {"pass", "unlink", "left"} /\ cpc'[k] # "pass"
                     \/ cpc[k] = "unlink" /\ cpc'[k] = "left"
               /\ BangGone(0) => (BangGone(0))'
    <2>1. PhoneTyped'
      BY <1>1, <1>2, <1>3 DEF PhoneTyped
    <2>2. ASSUME NEW k \in Phone!Names
          PROVE  (Phone!Slot(k))' = Phone!Slot(k) /\ (BangGone(k) => (BangGone(k))')
      <3>1. k = 0 \/ k \in Phone!Children
        BY DEF PhoneSizes, Phone!Names, Phone!Children
      <3>2. k # 0 => (cpc'[k] = "pass" <=> cpc[k] = "pass")
        BY <1>3, <3>1
      <3>3. (Phone!Held(k))' = Phone!Held(k)
        BY <1>2, <3>2 DEF Phone!Held
      <3>4. (Phone!Slot(k))' = Phone!Slot(k)
        BY <1>2, <3>3 DEF Phone!Slot
      <3>5. BangGone(k) => (BangGone(k))'
        BY <1>2, <1>3, <3>1 DEF BangGone
      <3> QED BY <3>4, <3>5
    <2> QED BY <1>2, <1>3, <2>1, <2>2, PhoneQuiet
  <1>4. CASE Phone!Fork
    <2>1. /\ ppc = "fork" /\ players < Players /\ players' = players + 1 /\ ppc' = ppc
          /\ cpc' = [cpc EXCEPT ![players + 1] = "openRecv"]
      BY <1>4 DEF Phone!Fork, Phone!Go
    <2>2. players + 1 \in Phone!Children /\ players + 1 \in 0 .. Players
      BY <1>1, <2>1 DEF PhoneSizes, ForkedInv, Phone!Children
    <2>3. cpc[players + 1] = "unborn"
      BY <1>1, <2>1, <2>2 DEF ForkedInv, PhoneSizes
    <2>4. ForkedInv'
      <3>1. ASSUME NEW k \in Phone!Children, k > players + 1 PROVE cpc'[k] = "unborn"
        <4>1. k > players /\ k # players + 1
          BY <1>1, <3>1 DEF ForkedInv, Phone!Children
        <4> QED BY <1>1, <2>1, <4>1 DEF ForkedInv, PhoneTyped
      <3> QED BY <2>1, <2>2, <3>1 DEF ForkedInv
    <2> QED BY <1>1, <2>1, <2>2, <2>3, <2>4 DEF PhoneTyped, BangGone
  <1>5. CASE Phone!Start \/ Phone!ParentOpen \/ Phone!PrintFinal \/ Phone!Wait
             \/ Phone!ParentUnlink
    <2>1. UNCHANGED <<cpc, players>>
      BY <1>5 DEF Phone!Start, Phone!ParentOpen, Phone!PrintFinal, Phone!Wait,
                  Phone!ParentUnlink, Phone!child
    <2>2. ForkedInv'
      BY <1>1, <2>1 DEF ForkedInv
    <2>3. BangGone(0) => (BangGone(0))'
      BY <1>5 DEF Phone!Start, Phone!ParentOpen, Phone!PrintFinal, Phone!Wait,
                  Phone!ParentUnlink, BangGone
    <2> QED BY <1>1, <2>1, <2>2, <2>3 DEF PhoneTyped
  <1>6. ASSUME NEW k \in Phone!Children,
               Phone!OpenRecv(k) \/ Phone!OpenSend(k) \/ Phone!Unlink(k)
        PROVE  /\ cpc' \in [Phone!Children -> {"unborn", "openRecv", "openSend", "receive",
                                               "pass", "unlink", "left"}]
               /\ ForkedInv'
               /\ \A j \in Phone!Children :
                     \/ cpc'[j] = cpc[j]
                     \/ cpc[j] \notin {"pass", "unlink", "left"} /\ cpc'[j] # "pass"
                     \/ cpc[j] = "unlink" /\ cpc'[j] = "left"
               /\ BangGone(0) => (BangGone(0))'
    <2>1. UNCHANGED <<players, ppc>>
      BY <1>6 DEF Phone!OpenRecv, Phone!OpenSend, Phone!Unlink, Phone!parent
    <2>2. PICK l \in {"openSend", "receive", "left"} :
             /\ cpc' = [cpc EXCEPT ![k] = l]
             /\ \/ cpc[k] \in {"openRecv", "openSend"}
                \/ cpc[k] = "unlink" /\ l = "left"
      BY <1>6 DEF Phone!OpenRecv, Phone!OpenSend, Phone!Unlink, Phone!Go
    <2>3. /\ cpc' \in [Phone!Children -> {"unborn", "openRecv", "openSend", "receive",
                                          "pass", "unlink", "left"}]
          /\ \A j \in Phone!Children : cpc'[j] = IF j = k THEN l ELSE cpc[j]
      BY <1>1, <2>2 DEF PhoneTyped
    <2>4. ForkedInv'
      BY <1>1, <2>1, <2>2, <2>3 DEF ForkedInv
    <2> QED BY <2>1, <2>2, <2>3, <2>4 DEF BangGone
  <1> QED BY <1>4, <1>5, <1>6

LEMMA PhonePass ==
    ASSUME PhoneSizes, PhoneInv, NEW k \in Phone!Children, Phone!Pass(k)
    PROVE  PhoneInv'
  <1>1. PhoneTyped /\ ForkedInv
    BY DEF PhoneInv
  <1>2. k \in Phone!Names /\ k # 0 /\ 0 \in Phone!Names
    BY DEF PhoneSizes, Phone!Names, Phone!Children
  <1>3. /\ cpc[k] = "pass" /\ Len(q[k]) < MQ_MSG_COUNT
        /\ q' = [q EXCEPT ![k] = Append(@, msg[k])]
        /\ cpc' = [cpc EXCEPT ![k] = IF msg[k] = MaxWords THEN "unlink" ELSE "receive"]
        /\ UNCHANGED <<words, ppc, players, sent, final, msg>>
    BY DEF Phone!Pass, Phone!HasRoom, Phone!Passed, Phone!Go, Phone!Bang, Phone!parent
  <1>4. q[k] \in Seq(0 .. MaxWords) /\ msg[k] \in 0 .. MaxWords
    BY <1>1, <1>2 DEF PhoneTyped
  <1>5. /\ \A j \in Phone!Children : j # k => cpc'[j] = cpc[j]
        /\ cpc'[k] = IF msg[k] = MaxWords THEN "unlink" ELSE "receive"
        /\ cpc' \in [Phone!Children -> {"unborn", "openRecv", "openSend", "receive",
                                        "pass", "unlink", "left"}]
    BY <1>1, <1>3 DEF PhoneTyped
  <1>6. /\ \A j \in Phone!Names : j # k => q'[j] = q[j]
        /\ q'[k] = Append(q[k], msg[k])
    BY <1>1, <1>2, <1>3 DEF PhoneTyped
  <1>7. q'[k] \in Seq(0 .. MaxWords) /\ Len(q'[k]) = Len(q[k]) + 1
    BY <1>4, <1>6
  <1>8. q' \in [Phone!Names -> Seq(0 .. MaxWords)]
    BY <1>1, <1>2, <1>3, <1>6, <1>7 DEF PhoneTyped
  <1>9. Len(q'[k]) <= MQ_MSG_COUNT
    <2>1. Len(q[k]) \in Nat
      BY <1>4
    <2> QED BY <1>3, <1>7, <2>1 DEF PhoneSizes
  <1>10. PhoneTyped'
    BY <1>1, <1>3, <1>5, <1>6, <1>8, <1>9 DEF PhoneTyped
  <1>11. ForkedInv'
    BY <1>1, <1>3, <1>5 DEF ForkedInv
  <1>12. ASSUME NEW j \in Phone!Names
         PROVE  (Phone!Slot(j))' = Phone!Slot(j) /\ (BangGone(j) => (BangGone(j))')
    <2>1. CASE j = k
      <3>1. Phone!Held(k) = <<msg[k]>>
        BY <1>2, <1>3 DEF Phone!Held
      <3>2. (Phone!Held(k))' = <<>>
        BY <1>2, <1>5 DEF Phone!Held
      <3>3. Append(q[k], msg[k]) \o <<>> = q[k] \o <<msg[k]>>
        BY <1>4
      <3>4. (Phone!Slot(k))' = Phone!Slot(k)
        BY <1>6, <3>1, <3>2, <3>3 DEF Phone!Slot
      <3>5. BangGone(k) => (BangGone(k))'
        BY <1>2, <1>3, <1>5 DEF BangGone
      <3> QED BY <2>1, <3>4, <3>5
    <2>2. CASE j # k
      <3>1. j = 0 \/ j \in Phone!Children
        BY DEF PhoneSizes, Phone!Names, Phone!Children
      <3>2. j # 0 => cpc'[j] = cpc[j]
        BY <1>5, <2>2, <3>1
      <3>3. (Phone!Held(j))' = Phone!Held(j)
        BY <1>3, <3>2 DEF Phone!Held
      <3>4. (Phone!Slot(j))' = Phone!Slot(j)
        BY <1>6, <2>2, <3>3 DEF Phone!Slot
      <3>5. BangGone(j) => (BangGone(j))'
        BY <1>3, <3>2 DEF BangGone
      <3> QED BY <3>4, <3>5
    <2> QED BY <2>1, <2>2
  <1> QED BY <1>3, <1>10, <1>11, <1>12, PhoneQuiet

\* A message leaves the front of queue k, and so of its slot.
LEMMA SlotLoses ==
    ASSUME PhoneSizes, PhoneTyped, NEW k \in Phone!Names, q[k] # <<>>,
           q' = [q EXCEPT ![k] = Tail(@)], (Phone!Held(k))' = Phone!Held(k)
    PROVE  /\ q' \in [Phone!Names -> Seq(0 .. MaxWords)]
           /\ \A j \in Phone!Names : Len(q'[j]) <= MQ_MSG_COUNT
           /\ Head(q[k]) \in 0 .. MaxWords
           /\ Phone!Slot(k) # <<>> /\ Head(Phone!Slot(k)) = Head(q[k])
           /\ (Phone!Slot(k))' = Tail(Phone!Slot(k))
  <1> DEFINE s == q[k]
             h == Phone!Held(k)
  <1>1. s \in Seq(0 .. MaxWords) /\ Len(s) <= MQ_MSG_COUNT
    BY DEF PhoneTyped
  <1>2. h \in Seq(0 .. MaxWords)
    <2>1. k # 0 /\ cpc[k] = "pass" => msg[k] \in 0 .. MaxWords
      BY DEF PhoneTyped, Phone!Names, Phone!Children
    <2>2. CASE k # 0 /\ cpc[k] = "pass"
      <3>1. h = <<msg[k]>>
        BY <2>2 DEF Phone!Held
      <3> QED BY <2>1, <2>2, <3>1
    <2>3. CASE ~(k # 0 /\ cpc[k] = "pass")
      <3>1. h = <<>>
        BY <2>3 DEF Phone!Held
      <3> QED BY <3>1
    <2> QED BY <2>2, <2>3
  <1>3. /\ q'[k] = Tail(s) /\ \A j \in Phone!Names : j # k => q'[j] = q[j]
        /\ DOMAIN q' = Phone!Names /\ q' = [j \in Phone!Names |-> q'[j]]
    BY DEF PhoneTyped
  <1>4. s # <<>>
    OBVIOUS
  <1> HIDE DEF s
  <1>5. Tail(s) \in Seq(0 .. MaxWords) /\ Len(Tail(s)) = Len(s) - 1 /\ Head(s) \in 0 .. MaxWords
    BY <1>1, <1>4, HeadAndTail, Zenon
  <1>6. q' \in [Phone!Names -> Seq(0 .. MaxWords)]
    BY <1>3, <1>5 DEF PhoneTyped
  <1>7. Phone!Slot(k) = s \o h /\ (Phone!Slot(k))' = Tail(s) \o h
    BY <1>3 DEF Phone!Slot, s
  <1> HIDE DEF h
  <1>8. s \o h # <<>> /\ Head(s \o h) = Head(s) /\ Tail(s \o h) = Tail(s) \o h
    <2> DEFINE t == s \o h
               v == Tail(s) \o h
    <2>1. /\ t \in Seq(0 .. MaxWords) /\ Len(t) = Len(s) + Len(h) /\ Len(s) >= 1
          /\ \A i \in 1 .. Len(s) : t[i] = s[i]
          /\ \A i \in 1 .. Len(h) : t[Len(s) + i] = h[i]
      BY <1>1, <1>2, <1>4
    <2>2. /\ v \in Seq(0 .. MaxWords) /\ Len(v) = Len(s) - 1 + Len(h)
      BY <1>2, <1>5
    <2>3. /\ \A i \in 1 .. Len(s) - 1 : v[i] = Tail(s)[i] /\ Tail(s)[i] = s[i + 1]
          /\ \A i \in 1 .. Len(h) : v[Len(s) - 1 + i] = h[i]
      BY <1>1, <1>2, <1>4, <1>5
    <2>4. t # <<>> /\ Head(t) = Head(s)
      <3> HIDE DEF t
      <3> QED BY <1>1, <1>4, <2>1
    <2>5. Len(s) \in Nat /\ Len(h) \in Nat
      BY <1>1, <1>2
    <2> HIDE DEF t, v
    <2>6. /\ Tail(t) \in Seq(0 .. MaxWords) /\ Len(Tail(t)) = Len(t) - 1
          /\ \A i \in 1 .. Len(t) - 1 : Tail(t)[i] = t[i + 1]
      BY <2>1, <2>4
    <2>7. ASSUME NEW i \in 1 .. Len(v) PROVE Tail(t)[i] = v[i]
      <3>1. Tail(t)[i] = t[i + 1]
        BY <2>1, <2>2, <2>5, <2>6
      <3>2. CASE i <= Len(s) - 1
        BY <2>1, <2>2, <2>3, <2>5, <3>1, <3>2
      <3>3. CASE i > Len(s) - 1
        <4>1. /\ i - (Len(s) - 1) \in 1 .. Len(h)
              /\ Len(s) - 1 + (i - (Len(s) - 1)) = i
              /\ Len(s) + (i - (Len(s) - 1)) = i + 1
          BY <2>2, <2>5, <3>3
        <4>2. v[i] = h[i - (Len(s) - 1)] /\ t[i + 1] = h[i - (Len(s) - 1)]
          BY <2>1, <2>3, <4>1
        <4> QED BY <3>1, <4>2
      <3>4. i <= Len(s) - 1 \/ i > Len(s) - 1
        BY <2>5
      <3> QED BY <3>2, <3>3, <3>4
    <2>8. Len(Tail(t)) = Len(v)
      BY <2>1, <2>2, <2>5, <2>6
    <2>9. Tail(t) = v
      BY <2>2, <2>6, <2>7, <2>8, SameElements
    <2> QED BY <2>4, <2>9 DEF t, v
  <1>9. \A j \in Phone!Names : Len(q'[j]) <= MQ_MSG_COUNT
    <2>1. Len(Tail(s)) <= MQ_MSG_COUNT
      BY <1>1, <1>5 DEF PhoneSizes
    <2> QED BY <1>3, <2>1 DEF PhoneTyped
  <1>10. Head(q[k]) = Head(s)
    BY DEF s
  <1> QED BY <1>5, <1>6, <1>7, <1>8, <1>9, <1>10

\* A slot is a sequence of messages, at most those of a full queue and one more.
LEMMA SlotSize ==
    ASSUME PhoneSizes, PhoneTyped, NEW k \in Phone!Names
    PROVE  /\ Phone!Slot(k) \in Seq(0 .. MaxWords)
           /\ Len(Phone!Slot(k)) <= Len(q[k]) + 1 /\ Len(q[k]) \in Nat
           /\ k = 0 => Len(Phone!Slot(k)) = Len(q[k])
           /\ Phone!Held(k) \in Seq(0 .. MaxWords) /\ q[k] \in Seq(0 .. MaxWords)
  <1>1. q[k] \in Seq(0 .. MaxWords)
    BY DEF PhoneTyped
  <1>2. CASE k # 0 /\ cpc[k] = "pass"
    <2>1. msg[k] \in 0 .. MaxWords
      BY <1>2 DEF PhoneSizes, PhoneTyped, Phone!Names, Phone!Children
    <2>2. Phone!Held(k) = <<msg[k]>> /\ Phone!Slot(k) = q[k] \o <<msg[k]>>
      BY <1>2 DEF Phone!Held, Phone!Slot
    <2>3. <<msg[k]>> \in Seq(0 .. MaxWords)
      BY <2>1
    <2>4. Phone!Slot(k) = Append(q[k], msg[k])
      BY <1>1, <2>1, <2>2, AddedLast, Zenon
    <2>5. /\ Append(q[k], msg[k]) \in Seq(0 .. MaxWords) /\ Len(q[k]) \in Nat
          /\ Len(Append(q[k], msg[k])) = Len(q[k]) + 1
      BY <1>1, <2>1, AddedLast, Zenon
    <2> QED BY <1>1, <1>2, <2>2, <2>3, <2>4, <2>5
  <1>3. CASE k = 0 \/ cpc[k] # "pass"
    <2>1. Phone!Held(k) = <<>> /\ Phone!Slot(k) = q[k] \o <<>>
      BY <1>3 DEF Phone!Held, Phone!Slot
    <2>2. <<>> \in Seq(0 .. MaxWords)
      OBVIOUS
    <2>3. q[k] \o <<>> = q[k] /\ Len(q[k]) \in Nat
      BY <1>1
    <2>4. Len(q[k]) <= Len(q[k]) + 1
      BY <2>3
    <2> QED BY <1>1, <2>1, <2>2, <2>3, <2>4
  <1> QED BY <1>2, <1>3

\* The "!" is a slot's last message only when that process has put it there.
LEMMA NoBangYet ==
    ASSUME NEW k, NEW a, NEW b, InSlot(k, a, b), ~BangGone(k)
    PROVE  a <= b /\ Phone!Slot(k) = WordRun(a, b)
  BY DEF InSlot

\* The front message of a slot goes to the next process.
LEMMA NextGoes ==
    ASSUME PhoneSizes, PhoneTyped, NEW k \in Phone!Names, UNCHANGED words,
           NEW a \in Nat, NEW b \in Nat, b <= words, InSlot(k, a, b),
           Phone!Slot(k) # <<>>, (Phone!Slot(k))' = Tail(Phone!Slot(k)),
           BangGone(k) => (BangGone(k))'
    PROVE  \/ a < b /\ Head(Phone!Slot(k)) = a /\ (InSlot(k, a + 1, b))'
           \/ /\ a = b /\ b = words /\ BangGone(k) /\ Head(Phone!Slot(k)) = MaxWords
              /\ (InSlot(k, a, b))'
  <1> DEFINE s == Phone!Slot(k)
             t == (Phone!Slot(k))'
  <1>1. /\ a <= b /\ t = Tail(s)
        /\ s = WordRun(a, b) \/ (s = Append(WordRun(a, b), MaxWords)
                                 /\ BangGone(k) /\ b = words)
    BY DEF InSlot
  <1>2. b <= MaxWords /\ MaxWords \in Nat
    BY DEF PhoneSizes, PhoneTyped
  <1> HIDE DEF s
  <1>3. \/ /\ a < b /\ Head(s) = a
           /\ s = WordRun(a, b) => Tail(s) = WordRun(a + 1, b)
           /\ s = Append(WordRun(a, b), MaxWords) =>
                Tail(s) = Append(WordRun(a + 1, b), MaxWords)
        \/ /\ a = b /\ s = Append(WordRun(a, b), MaxWords)
           /\ Head(s) = MaxWords /\ Tail(s) = WordRun(a, b)
    <2>1. s # <<>> /\ (s = WordRun(a, b) \/ s = Append(WordRun(a, b), MaxWords))
      BY <1>1 DEF s
    <2> QED BY <1>1, <1>2, <2>1, OneGoes
  <1>4. s = WordRun(a, b) /\ a = b => s = <<>>
    BY WordRunFacts
  <1>5. s # <<>>
    BY DEF s
  <1>6. CASE a < b /\ Head(s) = a
             /\ (s = WordRun(a, b) => Tail(s) = WordRun(a + 1, b))
             /\ (s = Append(WordRun(a, b), MaxWords) =>
                   Tail(s) = Append(WordRun(a + 1, b), MaxWords))
    <2>1. a + 1 <= b
      BY <1>6
    <2>2. \/ t = WordRun(a + 1, b)
          \/ t = Append(WordRun(a + 1, b), MaxWords) /\ (BangGone(k))' /\ b = words'
      BY <1>1, <1>6
    <2>3. (InSlot(k, a + 1, b))'
      BY <2>1, <2>2 DEF InSlot
    <2> QED BY <1>6, <2>3 DEF s
  <1>7. CASE a = b /\ s = Append(WordRun(a, b), MaxWords)
             /\ Head(s) = MaxWords /\ Tail(s) = WordRun(a, b)
    <2>1. BangGone(k) /\ b = words
      BY <1>1, <1>4, <1>5, <1>7
    <2>2. (InSlot(k, a, b))'
      BY <1>1, <1>7 DEF InSlot
    <2> QED BY <1>7, <2>1, <2>2 DEF s
  <1> QED BY <1>3, <1>6, <1>7

LEMMA PhoneReceive ==
    ASSUME PhoneSizes, PhoneInv, NEW k \in Phone!Children, Phone!Receive(k)
    PROVE  PhoneInv'
  <1> DEFINE p == k - 1
  <1>1. PhoneTyped /\ ForkedInv
    BY DEF PhoneInv
  <1>2. PICK r \in [0 .. Players + 1 -> 0 .. words] : InOrder(r)
    BY DEF PhoneInv
  <1>3. /\ k \in Phone!Names /\ p \in Phone!Names /\ k # 0 /\ p # k /\ p + 1 = k
        /\ k # Players + 1 /\ k \in 0 .. Players + 1
        /\ \A j \in Phone!Names : j = 0 \/ j \in Phone!Children
        /\ \A j \in Phone!Names : j # p /\ j # k => j + 1 # k
    BY DEF PhoneSizes, Phone!Names, Phone!Children
  <1> HIDE DEF p
  <1>4. /\ cpc[k] = "receive" /\ q[p] # <<>>
        /\ msg' = [msg EXCEPT ![k] = Head(q[p])]
        /\ q' = [q EXCEPT ![p] = Tail(@)]
        /\ cpc' = [cpc EXCEPT ![k] = "pass"]
        /\ UNCHANGED <<words, ppc, players, sent, final>>
    BY DEF Phone!Receive, Phone!Go, Phone!parent, p
  <1>5. /\ \A j \in Phone!Children : j # k => cpc'[j] = cpc[j] /\ msg'[j] = msg[j]
        /\ cpc'[k] = "pass" /\ msg'[k] = Head(q[p])
        /\ \A j \in Phone!Names : j # p => q'[j] = q[j]
    BY <1>1, <1>3, <1>4 DEF PhoneTyped
  <1>6. \A j \in Phone!Names : j # k => (Phone!Held(j))' = Phone!Held(j)
    BY <1>3, <1>5 DEF Phone!Held
  <1>7. (Phone!Held(p))' = Phone!Held(p)
    BY <1>3, <1>6
  <1>8. /\ q' \in [Phone!Names -> Seq(0 .. MaxWords)]
        /\ \A j \in Phone!Names : Len(q'[j]) <= MQ_MSG_COUNT
        /\ Head(q[p]) \in 0 .. MaxWords
        /\ Phone!Slot(p) # <<>> /\ Head(Phone!Slot(p)) = Head(q[p])
        /\ (Phone!Slot(p))' = Tail(Phone!Slot(p))
    BY <1>1, <1>3, <1>4, <1>7, SlotLoses
  <1>9. PhoneTyped'
    <2>1. /\ cpc' \in [Phone!Children -> {"unborn", "openRecv", "openSend", "receive",
                                          "pass", "unlink", "left"}]
          /\ msg' \in [Phone!Children -> 0 .. MaxWords]
      BY <1>1, <1>4, <1>8 DEF PhoneTyped
    <2> QED BY <1>1, <1>4, <1>8, <2>1 DEF PhoneTyped
  <1>10. ForkedInv'
    BY <1>1, <1>4, <1>5 DEF ForkedInv
  <1>11. \A j \in Phone!Names : j # k => (BangGone(j) => (BangGone(j))')
    BY <1>3, <1>4, <1>5 DEF BangGone
  <1>12. /\ InSlot(p, r[k], r[p]) /\ InSlot(k, r[k + 1], r[k])
         /\ r[k] \in Nat /\ r[p] \in Nat /\ r[p] <= words
         /\ r[k + 1] \in Nat /\ r[k] <= words /\ words \in Nat /\ MaxWords \in Nat
    <2>1. InSlot(p, r[p + 1], r[p]) /\ InSlot(k, r[k + 1], r[k])
      BY <1>2, <1>3 DEF InOrder
    <2>2. /\ r[p] \in 0 .. words /\ r[k] \in 0 .. words /\ words \in Nat
          /\ MaxWords \in Nat /\ r[k + 1] \in Nat
      BY <1>1, <1>3, Received
    <2> QED BY <1>3, <2>1, <2>2
  <1>13. \/ /\ r[k] < r[p] /\ Head(Phone!Slot(p)) = r[k]
            /\ (InSlot(p, r[k] + 1, r[p]))'
         \/ /\ r[k] = r[p] /\ r[p] = words /\ Head(Phone!Slot(p)) = MaxWords
            /\ (InSlot(p, r[k], r[p]))'
    <2>1. BangGone(p) => (BangGone(p))'
      BY <1>3, <1>11
    <2>2. words' = words
      BY <1>4
    <2> QED BY <1>1, <1>3, <1>8, <1>12, <2>1, <2>2, NextGoes
  <1>14. r[k + 1] <= r[k] /\ Phone!Slot(k) = WordRun(r[k + 1], r[k])
    <2>1. ~BangGone(k)
      BY <1>3, <1>4 DEF BangGone
    <2> QED BY <1>12, <2>1, NoBangYet
  <1>15. (Phone!Slot(k))' = Append(WordRun(r[k + 1], r[k]), Head(q[p]))
    <2>1. Phone!Held(k) = <<>>
      BY <1>4 DEF Phone!Held
    <2>2. (Phone!Held(k))' = <<Head(q[p])>>
      BY <1>3, <1>5 DEF Phone!Held
    <2>3. q[k] \in Seq(0 .. MaxWords) /\ q'[k] = q[k]
      BY <1>1, <1>3, <1>5 DEF PhoneTyped
    <2>4. Phone!Slot(k) = q[k]
      BY <2>1, <2>3 DEF Phone!Slot
    <2>5. (Phone!Slot(k))' = q[k] \o <<Head(q[p])>>
      BY <2>2, <2>3 DEF Phone!Slot
    <2>6. q[k] \o <<Head(q[p])>> = Append(q[k], Head(q[p]))
      BY <1>8, <2>3
    <2> QED BY <1>14, <2>4, <2>5, <2>6
  <1>16. ASSUME NEW j \in Phone!Names, j # p, j # k, NEW x, NEW y, InSlot(j, x, y)
         PROVE  (InSlot(j, x, y))'
    <2>1. (Phone!Slot(j))' = Phone!Slot(j)
      BY <1>5, <1>6, <1>16 DEF Phone!Slot
    <2> QED BY <1>4, <1>11, <1>16, <2>1, SlotKept
  <1>17. CASE /\ r[k] < r[p] /\ Head(Phone!Slot(p)) = r[k]
              /\ (InSlot(p, r[k] + 1, r[p]))'
    <2> DEFINE u == [r EXCEPT ![k] = r[k] + 1]
    <2>1. u \in [0 .. Players + 1 -> 0 .. words]
      BY <1>3, <1>12, <1>17
    <2>2. u[k] = r[k] + 1 /\ \A j \in 0 .. Players + 1 : j # k => u[j] = r[j]
      BY <1>3
    <2> HIDE DEF u
    <2>3. (InSlot(k, r[k + 1], r[k] + 1))'
      <3>1. (Phone!Slot(k))' = WordRun(r[k + 1], r[k] + 1)
        <4>1. Head(q[p]) = r[k]
          BY <1>8, <1>17
        <4>2. r[k + 1] \in Nat /\ r[k] \in Nat /\ r[k + 1] <= r[k]
          BY <1>12, <1>14
        <4>3. Append(WordRun(r[k + 1], r[k]), r[k]) = WordRun(r[k + 1], r[k] + 1)
          BY <4>2, WordRunFacts
        <4> QED BY <1>15, <4>1, <4>3
      <3>2. r[k + 1] <= r[k] + 1
        BY <1>12, <1>14
      <3> QED BY <3>1, <3>2 DEF InSlot
    <2>4. ASSUME NEW j \in Phone!Names PROVE (InSlot(j, u[j + 1], u[j]))'
      <3>1. j \in 0 .. Players + 1 /\ j + 1 \in 0 .. Players + 1 /\ k + 1 # k
        BY <1>3 DEF PhoneSizes, Phone!Names
      <3>2. CASE j = k
        <4>1. k + 1 \in 0 .. Players + 1 /\ u[k + 1] = r[k + 1]
          BY <2>2, <3>1, <3>2
        <4> QED BY <2>2, <2>3, <3>2, <4>1
      <3>3. CASE j = p
        <4>1. u[p] = r[p] /\ u[p + 1] = r[k] + 1
          BY <1>3, <2>2, <3>1, <3>3
        <4> QED BY <1>17, <3>3, <4>1
      <3>4. CASE j # k /\ j # p
        <4>1. u[j] = r[j] /\ u[j + 1] = r[j + 1]
          BY <1>3, <2>2, <3>1, <3>4
        <4>2. InSlot(j, r[j + 1], r[j])
          BY <1>2 DEF InOrder
        <4> QED BY <1>16, <3>4, <4>1, <4>2
      <3> QED BY <3>2, <3>3, <3>4
    <2>5. u[0] = r[0] /\ u[Players + 1] = r[Players + 1]
      BY <1>3, <2>2 DEF PhoneSizes
    <2>6. (InOrder(u))'
      BY <1>2, <1>4, <2>4, <2>5 DEF InOrder
    <2>7. u \in [0 .. Players + 1 -> 0 .. words']
      BY <1>4, <2>1
    <2> QED BY <1>9, <1>10, <2>6, <2>7 DEF PhoneInv
  <1>18. CASE /\ r[k] = r[p] /\ r[p] = words /\ Head(Phone!Slot(p)) = MaxWords
              /\ (InSlot(p, r[k], r[p]))'
    <2>1. (BangGone(k))'
      BY <1>3, <1>5, <1>8, <1>18 DEF BangGone
    <2>2. (Phone!Slot(k))' = Append(WordRun(r[k + 1], r[k]), MaxWords)
      BY <1>8, <1>15, <1>18
    <2>3. (InSlot(k, r[k + 1], r[k]))'
      <3>1. r[k] = words'
        BY <1>4, <1>18
      <3> QED BY <1>14, <2>1, <2>2, <3>1 DEF InSlot
    <2>4. ASSUME NEW j \in Phone!Names PROVE (InSlot(j, r[j + 1], r[j]))'
      <3>1. CASE j = k
        BY <2>3, <3>1
      <3>2. CASE j = p
        BY <1>3, <1>18, <3>2
      <3>3. CASE j # k /\ j # p
        <4>1. InSlot(j, r[j + 1], r[j])
          BY <1>2 DEF InOrder
        <4> QED BY <1>16, <3>3, <4>1
      <3> QED BY <3>1, <3>2, <3>3
    <2>5. (InOrder(r))'
      BY <1>2, <1>4, <2>4 DEF InOrder
    <2>6. r \in [0 .. Players + 1 -> 0 .. words']
      BY <1>4
    <2> QED BY <1>9, <1>10, <2>5, <2>6 DEF PhoneInv
  <1> QED BY <1>13, <1>17, <1>18

\* Main puts a message at the end of its queue.
LEMMA MainSends ==
    ASSUME PhoneSizes, PhoneInv, NEW e \in 0 .. MaxWords, Len(q[0]) < MQ_MSG_COUNT,
           q' = [q EXCEPT ![0] = Append(@, e)], UNCHANGED <<words, players, final, cpc, msg>>
    PROVE  /\ q' \in [Phone!Names -> Seq(0 .. MaxWords)]
           /\ \A k \in Phone!Names : Len(q'[k]) <= MQ_MSG_COUNT
           /\ (Phone!Slot(0))' = Append(Phone!Slot(0), e)
           /\ \A k \in Phone!Names : k # 0 => (Phone!Slot(k))' = Phone!Slot(k)
           /\ 0 \in Phone!Names
  <1>1. PhoneTyped
    BY DEF PhoneInv
  <1>2. 0 \in Phone!Names
    BY DEF PhoneSizes, Phone!Names
  <1>3. q[0] \in Seq(0 .. MaxWords)
    BY <1>1, <1>2 DEF PhoneTyped
  <1>4. /\ q'[0] = Append(q[0], e) /\ \A k \in Phone!Names : k # 0 => q'[k] = q[k]
        /\ DOMAIN q' = Phone!Names /\ q' = [k \in Phone!Names |-> q'[k]]
    BY <1>1, <1>2 DEF PhoneTyped
  <1>5. /\ Append(q[0], e) \in Seq(0 .. MaxWords) /\ Len(q[0]) \in Nat
        /\ Len(Append(q[0], e)) = Len(q[0]) + 1 /\ q[0] \o <<>> = q[0]
    BY <1>3, AddedLast
  <1>6. Append(q[0], e) \o <<>> = Append(q[0], e)
    BY <1>5
  <1>7. q' \in [Phone!Names -> Seq(0 .. MaxWords)]
    BY <1>1, <1>4, <1>5 DEF PhoneTyped
  <1>8. \A k \in Phone!Names : Len(q'[k]) <= MQ_MSG_COUNT
    <2>1. Len(Append(q[0], e)) <= MQ_MSG_COUNT
      BY <1>5 DEF PhoneSizes
    <2> QED BY <1>1, <1>4, <2>1 DEF PhoneTyped
  <1>9. \A k \in Phone!Names : (Phone!Held(k))' = Phone!Held(k)
    BY DEF Phone!Held
  <1>10. Phone!Held(0) = <<>> /\ (Phone!Held(0))' = <<>>
    BY DEF Phone!Held
  <1>11. (Phone!Slot(0))' = Append(Phone!Slot(0), e)
    BY <1>4, <1>5, <1>6, <1>10 DEF Phone!Slot
  <1>12. \A k \in Phone!Names : k # 0 => (Phone!Slot(k))' = Phone!Slot(k)
    BY <1>4, <1>9 DEF Phone!Slot
  <1> QED BY <1>2, <1>7, <1>8, <1>11, <1>12

LEMMA PhoneSendWord ==
    ASSUME PhoneSizes, PhoneInv, Phone!SendWord
    PROVE  PhoneInv'
  <1>1. PhoneTyped /\ ForkedInv
    BY DEF PhoneInv
  <1>2. PICK r \in [0 .. Players + 1 -> 0 .. words] : InOrder(r)
    BY DEF PhoneInv
  <1>3. /\ ppc = "send" /\ sent < words /\ Len(q[0]) < MQ_MSG_COUNT
        /\ q' = [q EXCEPT ![0] = Append(@, sent)] /\ sent' = sent + 1
        /\ UNCHANGED <<words, ppc, players, final, cpc, msg>>
    BY DEF Phone!SendWord, Phone!HasRoom, Phone!child
  <1>4. /\ sent \in 0 .. MaxWords /\ sent \in Nat /\ words \in Nat
        /\ Players \in Nat /\ sent + 1 \in 0 .. words
    BY <1>1, <1>3 DEF PhoneTyped, PhoneSizes
  <1>5. /\ q' \in [Phone!Names -> Seq(0 .. MaxWords)]
        /\ \A k \in Phone!Names : Len(q'[k]) <= MQ_MSG_COUNT
        /\ (Phone!Slot(0))' = Append(Phone!Slot(0), sent)
        /\ \A k \in Phone!Names : k # 0 => (Phone!Slot(k))' = Phone!Slot(k)
        /\ 0 \in Phone!Names
    BY <1>3, <1>4, MainSends
  <1>6. PhoneTyped' /\ ForkedInv'
    BY <1>1, <1>3, <1>4, <1>5 DEF PhoneTyped, ForkedInv
  <1>7. \A k \in Phone!Names : BangGone(k) => (BangGone(k))'
    BY <1>3 DEF BangGone
  <1>8. PICK u \in [0 .. Players + 1 -> 0 .. words'] :
             u[0] = sent + 1 /\ \A j \in 0 .. Players + 1 : j # 0 => u[j] = r[j]
    <2> DEFINE u == [r EXCEPT ![0] = sent + 1]
    <2>1. u \in [0 .. Players + 1 -> 0 .. words'] /\ u[0] = sent + 1
          /\ \A j \in 0 .. Players + 1 : j # 0 => u[j] = r[j]
      BY <1>3, <1>4
    <2> QED BY <2>1
  <1>9. (InSlot(0, r[1], u[0]))'
    <2>1. InSlot(0, r[1], sent)
      <3>1. InSlot(0, r[0 + 1], r[0]) /\ r[0] = sent
        BY <1>2, <1>5 DEF InOrder
      <3> QED BY <3>1
    <2>2. ~BangGone(0)
      BY <1>3 DEF BangGone
    <2>3. r[1] <= sent /\ Phone!Slot(0) = WordRun(r[1], sent)
      BY <2>1, <2>2, NoBangYet
    <2>4. r[1] \in Nat
      BY <1>4
    <2>5. Append(WordRun(r[1], sent), sent) = WordRun(r[1], sent + 1)
      BY <1>4, <2>3, <2>4, WordRunFacts
    <2>6. (Phone!Slot(0))' = WordRun(r[1], u[0])
      BY <1>5, <1>8, <2>3, <2>5
    <2>7. r[1] <= u[0]
      BY <1>4, <1>8, <2>3, <2>4
    <2> QED BY <2>6, <2>7 DEF InSlot
  <1>10. ASSUME NEW k \in Phone!Names PROVE (InSlot(k, u[k + 1], u[k]))'
    <2>1. k \in 0 .. Players + 1 /\ k + 1 \in 0 .. Players + 1 /\ k + 1 # 0
      BY <1>4 DEF Phone!Names
    <2>2. u[k + 1] = r[k + 1]
      BY <1>8, <2>1
    <2>3. CASE k = 0
      <3>1. u[k + 1] = r[1]
        BY <2>2, <2>3
      <3> QED BY <1>8, <1>9, <2>3, <3>1
    <2>4. CASE k # 0
      <3>1. u[k] = r[k]
        BY <1>8, <2>1, <2>4
      <3>2. InSlot(k, r[k + 1], r[k])
        BY <1>2 DEF InOrder
      <3>3. (InSlot(k, r[k + 1], r[k]))'
        BY <1>3, <1>5, <1>7, <2>4, <3>2, SlotKept
      <3> QED BY <2>2, <3>1, <3>3
    <2> QED BY <2>3, <2>4
  <1>11. u[Players + 1] = r[Players + 1]
    BY <1>4, <1>8
  <1>12. (InOrder(u))'
    BY <1>2, <1>3, <1>8, <1>10, <1>11 DEF InOrder
  <1> QED BY <1>6, <1>8, <1>12 DEF PhoneInv

LEMMA PhoneSendBang ==
    ASSUME PhoneSizes, PhoneInv, Phone!SendBang
    PROVE  PhoneInv'
  <1>1. PhoneTyped /\ ForkedInv
    BY DEF PhoneInv
  <1>2. PICK r \in [0 .. Players + 1 -> 0 .. words] : InOrder(r)
    BY DEF PhoneInv
  <1>3. /\ ppc = "send" /\ sent = words /\ Len(q[0]) < MQ_MSG_COUNT
        /\ q' = [q EXCEPT ![0] = Append(@, MaxWords)] /\ ppc' = "receive"
        /\ UNCHANGED <<words, players, sent, final, cpc, msg>>
    BY DEF Phone!SendBang, Phone!HasRoom, Phone!child, Phone!Bang
  <1>4. MaxWords \in 0 .. MaxWords
    BY DEF PhoneSizes
  <1>5. /\ q' \in [Phone!Names -> Seq(0 .. MaxWords)]
        /\ \A k \in Phone!Names : Len(q'[k]) <= MQ_MSG_COUNT
        /\ (Phone!Slot(0))' = Append(Phone!Slot(0), MaxWords)
        /\ \A k \in Phone!Names : k # 0 => (Phone!Slot(k))' = Phone!Slot(k)
        /\ 0 \in Phone!Names
    BY <1>3, <1>4, MainSends
  <1>6. PhoneTyped' /\ ForkedInv'
    BY <1>1, <1>3, <1>5 DEF PhoneTyped, ForkedInv
  <1>7. ~BangGone(0) /\ (BangGone(0))'
        /\ \A k \in Phone!Names : BangGone(k) => (BangGone(k))'
    BY <1>3 DEF BangGone
  <1>8. ASSUME NEW k \in Phone!Names PROVE (InSlot(k, r[k + 1], r[k]))'
    <2>1. InSlot(k, r[k + 1], r[k]) /\ r[0] = sent
      BY <1>2 DEF InOrder
    <2>2. CASE k = 0
      <3>1. r[k + 1] <= r[k] /\ Phone!Slot(0) = WordRun(r[k + 1], r[k])
        BY <1>7, <2>1, <2>2, NoBangYet
      <3>2. (Phone!Slot(k))' = Append(WordRun(r[k + 1], r[k]), MaxWords)
        BY <1>5, <2>2, <3>1
      <3>3. r[k] = words' /\ (BangGone(k))'
        BY <1>3, <1>7, <2>1, <2>2
      <3> QED BY <3>1, <3>2, <3>3 DEF InSlot
    <2>3. CASE k # 0
      BY <1>3, <1>5, <1>7, <2>1, <2>3, SlotKept
    <2> QED BY <2>2, <2>3
  <1>9. (InOrder(r))'
    BY <1>2, <1>3, <1>8 DEF InOrder
  <1>10. r \in [0 .. Players + 1 -> 0 .. words']
    BY <1>3
  <1> QED BY <1>6, <1>9, <1>10 DEF PhoneInv

\* Main takes the message at the front of the last slot, which is the next word.
LEMMA PhoneParentReceive ==
    ASSUME PhoneSizes, PhoneInv, Phone!ParentReceive
    PROVE  PhoneInv' /\ final' = Append(final, Len(final))
  <1> DEFINE n == Players
  <1>1. PhoneTyped /\ ForkedInv
    BY DEF PhoneInv
  <1>2. PICK r \in [0 .. Players + 1 -> 0 .. words] : InOrder(r)
    BY DEF PhoneInv
  <1>3. /\ Len(final) < words /\ q[n] # <<>>
        /\ final' = Append(final, Head(q[n]))
        /\ q' = [q EXCEPT ![n] = Tail(@)]
        /\ UNCHANGED <<words, ppc, players, sent, cpc, msg>>
    BY DEF Phone!ParentReceive, Phone!child
  <1>4. /\ n \in Nat /\ n \in Phone!Names /\ n + 1 \in 0 .. n + 1 /\ n \in 0 .. n + 1
        /\ 0 \in 0 .. n + 1 /\ n + 1 # 0
        /\ \A k \in Phone!Names : k \in 0 .. n + 1 /\ k + 1 \in 0 .. n + 1 /\ k # n + 1
                                  /\ (k # n => k + 1 # n + 1)
    BY DEF PhoneSizes, Phone!Names
  <1>5. \A k \in Phone!Names : (Phone!Held(k))' = Phone!Held(k)
    BY <1>3 DEF Phone!Held
  <1>6. /\ q' \in [Phone!Names -> Seq(0 .. MaxWords)]
        /\ \A k \in Phone!Names : Len(q'[k]) <= MQ_MSG_COUNT
        /\ Head(q[n]) \in 0 .. MaxWords
        /\ Phone!Slot(n) # <<>> /\ Head(Phone!Slot(n)) = Head(q[n])
        /\ (Phone!Slot(n))' = Tail(Phone!Slot(n))
    <2>1. (Phone!Held(n))' = Phone!Held(n)
      BY <1>4, <1>5
    <2> QED BY <1>1, <1>3, <1>4, <2>1, SlotLoses
  <1>7. \A k \in Phone!Names : k # n => (Phone!Slot(k))' = Phone!Slot(k)
    BY <1>1, <1>3, <1>5 DEF Phone!Slot, PhoneTyped
  <1>8. \A k \in Phone!Names : BangGone(k) => (BangGone(k))'
    BY <1>3 DEF BangGone
  <1>9. final \in Seq(0 .. MaxWords) /\ Len(final) \in Nat /\ words \in Nat
    BY <1>1 DEF PhoneTyped, PhoneSizes
  <1>10. /\ r[n + 1] = Len(final) /\ r[0] = sent /\ InSlot(n, r[n + 1], r[n])
         /\ r[n] \in Nat /\ r[n] <= words /\ r[n + 1] \in Nat
    <2>1. r[n] \in 0 .. words
      BY <1>4
    <2> QED BY <1>2, <1>4, <1>9, <2>1 DEF InOrder
  <1>11. Head(Phone!Slot(n)) = Len(final) /\ (InSlot(n, r[n + 1] + 1, r[n]))'
    <2>1. (BangGone(n) => (BangGone(n))') /\ words' = words
      BY <1>3, <1>4, <1>8
    <2>2. \/ /\ r[n + 1] < r[n] /\ Head(Phone!Slot(n)) = r[n + 1]
             /\ (InSlot(n, r[n + 1] + 1, r[n]))'
          \/ r[n + 1] = r[n] /\ r[n] = words
      BY <1>1, <1>4, <1>6, <1>10, <2>1, NextGoes
    <2> QED BY <1>3, <1>9, <1>10, <2>2
  <1>12. /\ final' = Append(final, Len(final)) /\ final' \in Seq(0 .. MaxWords)
         /\ Len(final') = Len(final) + 1
    BY <1>3, <1>6, <1>9, <1>11, AddedLast
  <1>13. PhoneTyped' /\ ForkedInv'
    BY <1>1, <1>3, <1>6, <1>12 DEF PhoneTyped, ForkedInv
  <1>14. PICK u \in [0 .. Players + 1 -> 0 .. words'] :
               /\ u[n + 1] = r[n + 1] + 1
               /\ \A j \in 0 .. n + 1 : j # n + 1 => u[j] = r[j]
    <2> DEFINE u == [r EXCEPT ![n + 1] = r[n + 1] + 1]
    <2>1. r[n + 1] + 1 \in 0 .. words
      BY <1>3, <1>9, <1>10
    <2>2. u \in [0 .. Players + 1 -> 0 .. words'] /\ u[n + 1] = r[n + 1] + 1
          /\ \A j \in 0 .. n + 1 : j # n + 1 => u[j] = r[j]
      BY <1>3, <1>4, <2>1
    <2> QED BY <2>2
  <1>15. ASSUME NEW k \in Phone!Names PROVE (InSlot(k, u[k + 1], u[k]))'
    <2>1. u[k] = r[k]
      BY <1>4, <1>14
    <2>2. CASE k = n
      <3>1. u[k + 1] = r[n + 1] + 1
        BY <1>14, <2>2
      <3> QED BY <1>11, <2>1, <2>2, <3>1
    <2>3. CASE k # n
      <3>1. u[k + 1] = r[k + 1]
        BY <1>4, <1>14, <2>3
      <3>2. InSlot(k, r[k + 1], r[k])
        BY <1>2 DEF InOrder
      <3>3. (InSlot(k, r[k + 1], r[k]))'
        BY <1>3, <1>7, <1>8, <2>3, <3>2, SlotKept
      <3> QED BY <2>1, <3>1, <3>3
    <2> QED BY <2>2, <2>3
  <1>16. u[0] = r[0] /\ u[Players + 1] = Len(final')
    BY <1>4, <1>10, <1>12, <1>14
  <1>17. (InOrder(u))'
    BY <1>3, <1>10, <1>15, <1>16 DEF InOrder
  <1> QED BY <1>12, <1>13, <1>14, <1>17 DEF PhoneInv

LEMMA PhoneNext ==
    ASSUME PhoneSizes, PhoneInv, Phone!Next \/ UNCHANGED telephoneVars
    PROVE  PhoneInv'
  <1>1. CASE Phone!Next
    BY <1>1, PhoneStill, PhonePass, PhoneReceive, PhoneSendWord, PhoneSendBang,
       PhoneParentReceive DEF Phone!Next, Phone!ParentStep, Phone!ChildStep
  <1>2. CASE UNCHANGED telephoneVars
    <2>1. UNCHANGED <<words, ppc, players, sent, final, cpc, msg, q>>
      BY <1>2 DEF telephoneVars
    <2>2. PhoneTyped' /\ ForkedInv'
      BY <2>1 DEF PhoneInv, PhoneTyped, ForkedInv
    <2>3. \A k \in Phone!Names : (Phone!Slot(k))' = Phone!Slot(k)
      BY <2>1 DEF Phone!Slot, Phone!Held
    <2>4. \A k \in Phone!Names : BangGone(k) => (BangGone(k))'
      BY <2>1 DEF BangGone
    <2> QED BY <2>1, <2>2, <2>3, <2>4, PhoneQuiet
  <1> QED BY <1>1, <1>2

\* When main's queue is not full, the ring as a whole has room for another word.
LEMMA RoomInRing ==
    ASSUME PhoneSizes, PhoneInv, Len(q[0]) < MQ_MSG_COUNT
    PROVE  sent - Len(final) < Phone!Capacity
  <1> DEFINE C == MQ_MSG_COUNT
             n == Players
             S == [r \in [0 .. Players + 1 -> 0 .. words] |->
                     {j \in 0 .. n : r[1] <= r[j + 1] + j * (C + 1)}]
  <1>1. PhoneTyped
    BY DEF PhoneInv
  <1>2. PICK r \in [0 .. Players + 1 -> 0 .. words] : InOrder(r)
    BY DEF PhoneInv
  <1>3. n \in Nat /\ C \in Nat
    BY DEF PhoneSizes
  <1>4. ASSUME NEW k \in Phone!Names
        PROVE  /\ r[k] \in Nat /\ r[k + 1] \in Nat /\ Len(q[k]) \in Nat
               /\ r[k] <= r[k + 1] + Len(q[k]) + 1
               /\ k = 0 => r[k] <= r[k + 1] + Len(q[k])
    <2>1. r[k] \in Nat /\ r[k + 1] \in Nat /\ MaxWords \in Nat
      BY <1>1, Received
    <2>2. InSlot(k, r[k + 1], r[k])
      BY <1>2 DEF InOrder
    <2>3. /\ WordRun(r[k + 1], r[k]) \in Seq(Nat)
          /\ Len(WordRun(r[k + 1], r[k])) = r[k] - r[k + 1]
      BY <2>1, <2>2, WordRunFacts DEF InSlot
    <2>4. Len(Append(WordRun(r[k + 1], r[k]), MaxWords)) = r[k] - r[k + 1] + 1
      BY <2>1, <2>3
    <2>5. Len(Phone!Slot(k)) = r[k] - r[k + 1] \/ Len(Phone!Slot(k)) = r[k] - r[k + 1] + 1
      BY <2>2, <2>3, <2>4 DEF InSlot
    <2>6. /\ Len(Phone!Slot(k)) <= Len(q[k]) + 1 /\ Len(q[k]) \in Nat
          /\ k = 0 => Len(Phone!Slot(k)) = Len(q[k])
      BY <1>1, SlotSize
    <2> QED BY <2>1, <2>5, <2>6
  <1>5. 0 \in Phone!Names /\ \A j \in 0 .. n - 1 : j + 1 \in Phone!Names
    BY <1>3 DEF Phone!Names
  <1>6. ASSUME NEW j \in 0 .. n - 1, j \in S[r] PROVE j + 1 \in S[r]
    <2>1. r[1] <= r[j + 1] + j * (C + 1)
      BY <1>6
    <2>2. /\ r[j + 1] \in Nat /\ r[(j + 1) + 1] \in Nat /\ Len(q[j + 1]) \in Nat
          /\ r[j + 1] <= r[(j + 1) + 1] + Len(q[j + 1]) + 1
          /\ Len(q[j + 1]) <= C
      BY <1>1, <1>4, <1>5 DEF PhoneTyped
    <2>3. (j + 1) * (C + 1) = j * (C + 1) + C + 1 /\ j * (C + 1) \in Nat
      BY <1>3
    <2>4. r[1] \in Nat
      BY <1>4, <1>5
    <2>5. r[1] <= r[(j + 1) + 1] + (j + 1) * (C + 1)
      BY <1>3, <2>1, <2>2, <2>3, <2>4
    <2>6. j + 1 \in 0 .. n
      BY <1>3
    <2> QED BY <2>5, <2>6
  <1>7. 0 \in S[r]
    <2>1. r[0 + 1] \in Nat /\ 0 * (C + 1) = 0
      BY <1>3, <1>4, <1>5
    <2> QED BY <1>3, <2>1
  <1>8. n \in S[r]
    <2> HIDE DEF S
    <2>1. \A k \in 0 .. n : k \in S[r]
      BY <1>3, <1>6, <1>7, Climb
    <2> QED BY <1>3, <2>1
  <1>9. r[1] <= r[n + 1] + n * (C + 1)
    BY <1>8
  <1>10. r[0] <= r[1] + Len(q[0]) /\ r[0] \in Nat /\ r[1] \in Nat /\ Len(q[0]) \in Nat
    <2>1. r[0] <= r[0 + 1] + Len(q[0]) /\ r[0] \in Nat /\ r[0 + 1] \in Nat /\ Len(q[0]) \in Nat
      BY <1>4, <1>5
    <2> QED BY <2>1
  <1>11. r[0] = sent /\ r[n + 1] = Len(final) /\ r[n + 1] \in Nat
    BY <1>1, <1>2, <1>3 DEF InOrder, PhoneTyped
  <1>12. Phone!Capacity = (n + 1) * C + n /\ (n + 1) * C = n * C + C
         /\ n * (C + 1) = n * C + n /\ n * C \in Nat
    BY <1>3 DEF Phone!Capacity
  <1>13. Len(q[0]) < C
    OBVIOUS
  <1> HIDE DEF n, C
  <1> QED BY <1>3, <1>9, <1>10, <1>11, <1>12, <1>13

LEMMA RingIsRun == PhoneSizes /\ PhoneInv =>
                     /\ Phone!UnderWay = WordRun(Len(final), sent)
                     /\ Len(final) \in Nat /\ sent \in Nat /\ Len(final) <= sent
  BY UnderWayIsRun

\* A step of the game is a Put or a Get of the queue that the ring makes, or neither.
LEMMA RingStep ==
    ASSUME PhoneSizes, PhoneInv, PhoneInv', Phone!Next \/ UNCHANGED telephoneVars
    PROVE  [Phone!Ring!Put \/ Phone!Ring!Get]_(Phone!Ring!fvars)
  <1>1. /\ Phone!UnderWay = WordRun(Len(final), sent)
        /\ Len(final) \in Nat /\ sent \in Nat /\ Len(final) <= sent
    BY UnderWayIsRun
  <1>2. (/\ Phone!UnderWay = WordRun(Len(final), sent)
         /\ Len(final) \in Nat /\ sent \in Nat /\ Len(final) <= sent)'
    <2>1. (PhoneSizes /\ PhoneInv)'
      BY DEF PhoneSizes
    <2> QED BY <2>1, RingIsRun, PTL
  <1>3. words <= MaxWords /\ words \in Nat /\ MaxWords \in Nat
    BY DEF PhoneInv, PhoneTyped, PhoneSizes
  <1>4. CASE UNCHANGED <<sent, final>>
    <2>1. (Phone!UnderWay)' = Phone!UnderWay
      BY <1>1, <1>2, <1>4
    <2> QED BY <1>4, <2>1 DEF Phone!Ring!fvars
  <1>5. CASE Phone!SendWord
    <2>1. sent < words /\ Len(q[0]) < MQ_MSG_COUNT /\ sent' = sent + 1 /\ final' = final
      BY <1>5 DEF Phone!SendWord, Phone!HasRoom
    <2>2. sent - Len(final) < Phone!Capacity
      BY <2>1, RoomInRing
    <2>3. Len(Phone!UnderWay) = sent - Len(final)
      BY <1>1, WordRunFacts
    <2>4. (Phone!UnderWay)' = WordRun(Len(final), sent + 1)
      BY <1>2, <2>1
    <2>5. (Phone!UnderWay)' = Append(Phone!UnderWay, sent)
      BY <1>1, <2>4, WordRunFacts
    <2>6. sent < MaxWords
      BY <1>1, <1>3, <2>1
    <2>7. Phone!Ring!Put
      BY <2>1, <2>2, <2>3, <2>5, <2>6 DEF Phone!Ring!Put
    <2> QED BY <2>7
  <1>6. CASE Phone!ParentReceive
    <2>1. final' = Append(final, Len(final)) /\ sent' = sent
      BY <1>6, PhoneParentReceive DEF Phone!ParentReceive
    <2>2. final \in Seq(0 .. MaxWords) /\ Len(final) \in 0 .. MaxWords
      BY <1>1, <1>3, <1>6 DEF PhoneInv, PhoneTyped, Phone!ParentReceive
    <2>3. Len(final') = Len(final) + 1
      BY <2>1, <2>2
    <2>4. Len(final) < sent
      <3>1. Len(final') <= sent'
        BY <1>2
      <3> QED BY <1>1, <2>1, <2>3, <3>1
    <2>5. (Phone!UnderWay)' = WordRun(Len(final) + 1, sent)
      BY <1>2, <2>1, <2>3
    <2>6. /\ Phone!UnderWay # <<>> /\ Head(Phone!UnderWay) = Len(final)
          /\ Tail(Phone!UnderWay) = WordRun(Len(final) + 1, sent)
      <3>1. /\ Head(WordRun(Len(final), sent)) = Len(final)
            /\ Tail(WordRun(Len(final), sent)) = WordRun(Len(final) + 1, sent)
        BY <1>1, <2>4, WordRunTail
      <3>2. WordRun(Len(final), sent) # <<>>
        <4>1. Len(final) # sent
          BY <1>1, <2>4
        <4> QED BY <1>1, <4>1, WordRunFacts
      <3> QED BY <1>1, <3>1, <3>2
    <2>7. Phone!Ring!Get
      BY <2>1, <2>5, <2>6 DEF Phone!Ring!Get
    <2> QED BY <2>7
  <1>7. CASE Phone!Next
    <2>1. \/ Phone!SendWord \/ Phone!ParentReceive
          \/ UNCHANGED <<sent, final>>
      BY <1>7 DEF Phone!Next, Phone!ParentStep, Phone!ChildStep, Phone!Fork, Phone!Start,
                  Phone!ParentOpen, Phone!SendBang, Phone!PrintFinal, Phone!Wait,
                  Phone!ParentUnlink, Phone!OpenRecv, Phone!OpenSend, Phone!Receive,
                  Phone!Pass, Phone!Unlink, Phone!parent
    <2> QED BY <1>4, <1>5, <1>6, <2>1
  <1>8. CASE UNCHANGED telephoneVars
    BY <1>4, <1>8 DEF telephoneVars
  <1> QED BY <1>7, <1>8

(* Telephone: whatever the speed of the children, their queues and main's  *)
(* are one bounded queue: main gets back the words once each, in the order *)
(* of the sentence, and there are never more of them under way than the    *)
(* queues and the children's hands can hold.                               *)
THEOREM RingIsQueue == ASSUME PhoneSizes PROVE LabSpec => RingSpec
  <1>1. LabInit => PhoneInv /\ Phone!Ring!FInit
    <2> SUFFICES ASSUME Phone!Init PROVE PhoneInv /\ Phone!Ring!FInit
      BY DEF LabInit
    <2>1. PhoneInv
      BY PhoneInit
    <2>2. Phone!UnderWay = WordRun(Len(final), sent)
      BY <2>1, UnderWayIsRun
    <2>3. final = <<>> /\ sent = 0
      BY DEF Phone!Init
    <2>4. WordRun(0, 0) = <<>>
      BY WordRunFacts
    <2>5. Phone!UnderWay = <<>>
      BY <2>2, <2>3, <2>4
    <2> QED BY <2>1, <2>3, <2>5 DEF Phone!Ring!FInit
  <1>2. [LabNext]_labVars => (Phone!Next \/ UNCHANGED telephoneVars)
    BY DEF LabNext, Server, Telephone, Forum, labVars
  <1>3. PhoneInv /\ [LabNext]_labVars => PhoneInv'
    BY <1>2, PhoneNext
  <1>4. PhoneInv /\ PhoneInv' /\ [LabNext]_labVars
          => [Phone!Ring!Put \/ Phone!Ring!Get]_(Phone!Ring!fvars)
    BY <1>2, RingStep
  <1> QED BY <1>1, <1>3, <1>4, PTL DEF LabSpec, RingSpec, Phone!RingSpec, Phone!Ring!FSpec
=============================================================================
