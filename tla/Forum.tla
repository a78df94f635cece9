------------------------------- MODULE Forum -------------------------------
(***************************************************************************)
(* The forum of sop2/lab02/mq_test2.  Every child has a message queue,     *)
(* sends ROUNDS messages to queues chosen at random (its own and those of  *)
(* children that have left included) and reads its own queue in threads    *)
(* that mq_notify starts: a message that arrives in an empty queue uses up *)
(* the registration and starts a thread, which registers again and then    *)
(* reads until the queue is empty.  Several of these threads may run at    *)
(* once.  The queues outlive a run that was killed.                        *)
(***************************************************************************)
EXTENDS Naturals, FiniteSets

CONSTANTS CHILD_COUNT,     \* children (4 in the code)
          MAX_MSG_COUNT,   \* capacity of a queue (4 in the code)
          ROUNDS           \* messages each child sends (5 in the code)

VARIABLES
    ppc,          \* main: "fork", "wait", "unlink", "exited", "killed"
    forked,       \* children forked so far
    cpc,          \* main thread of a child: "unborn", "register", "read", "send",
                  \*   "exited", "killed"
    rounds,       \* rounds[c] : messages child c has sent
    q,            \* q[c] : messages in the queue of child c
    registered,   \* children whose notification is registered
    starting,     \* starting[c] : notified threads of c that have yet to register
    reading       \* reading[c] : notified threads of c that read the queue

threads == <<starting, reading>>
vars == <<ppc, forked, cpc, rounds, q, registered, threads>>

Children == 1 .. CHILD_COUNT

\* A killed run has left the queues with anything in them.
Init == /\ ppc = "fork" /\ forked = 0
        /\ cpc = [c \in Children |-> "unborn"]
        /\ rounds = [c \in Children |-> 0]
        /\ q \in [Children -> 0 .. MAX_MSG_COUNT]
        /\ registered = {}
        /\ starting = [c \in Children |-> 0]
        /\ reading = [c \in Children |-> 0]

\* ERR: kill(0, SIGKILL).
KillAll == /\ ppc' = "killed"
           /\ cpc' = [c \in Children |-> IF cpc[c] \in {"unborn", "exited"} THEN cpc[c]
                                                                         ELSE "killed"]
           /\ UNCHANGED <<forked, rounds, q, registered, threads>>

-----------------------------------------------------------------------------
(* handle_messages: by the main thread of the child at its start, and by a *)
(* thread for each notification.                                           *)

Alive(c) == cpc[c] \notin {"unborn", "exited", "killed"}

\* register_notification; NothingForgotten says that it is never EBUSY.
FirstRegister(c) == /\ cpc[c] = "register"
                    /\ cpc' = [cpc EXCEPT ![c] = "read"]
                    /\ registered' = registered \cup {c}
                    /\ UNCHANGED <<ppc, forked, rounds, q, threads>>

FirstRead(c) == /\ cpc[c] = "read"
                /\ IF q[c] > 0
                     THEN q' = [q EXCEPT ![c] = @ - 1] /\ UNCHANGED cpc
                     ELSE cpc' = [cpc EXCEPT ![c] = "send"] /\ UNCHANGED q
                /\ UNCHANGED <<ppc, forked, rounds, registered, threads>>

Register(c) == /\ Alive(c) /\ starting[c] > 0
               /\ starting' = [starting EXCEPT ![c] = @ - 1]
               /\ reading' = [reading EXCEPT ![c] = @ + 1]
               /\ registered' = registered \cup {c}
               /\ UNCHANGED <<ppc, forked, cpc, rounds, q>>

\* Mutant: the thread reads one message only.
ReadsOnOnce(c) == [reading EXCEPT ![c] = @ - 1]
ReadsOn(c) == reading

\* mq_receive, until it says EAGAIN.
Read(c) == /\ Alive(c) /\ reading[c] > 0
           /\ IF q[c] > 0
                THEN q' = [q EXCEPT ![c] = @ - 1] /\ reading' = ReadsOn(c)
                ELSE reading' = [reading EXCEPT ![c] = @ - 1] /\ UNCHANGED q
           /\ UNCHANGED <<ppc, forked, cpc, rounds, registered, starting>>

-----------------------------------------------------------------------------
(* child_work                                                              *)

\* mq_send to the queue of r; an empty one notifies its owner.
Send(c, r) == /\ cpc[c] = "send" /\ rounds[c] < ROUNDS /\ q[r] < MAX_MSG_COUNT
              /\ q' = [q EXCEPT ![r] = @ + 1]
              /\ rounds' = [rounds EXCEPT ![c] = @ + 1]
              /\ IF q[r] = 0 /\ r \in registered
                   THEN /\ registered' = registered \ {r}
                        /\ starting' = [starting EXCEPT ![r] = @ + 1]
                   ELSE UNCHANGED <<registered, starting>>
              /\ UNCHANGED <<ppc, forked, cpc, reading>>

\* The queue is full: EAGAIN.
SendFails(c, r) == /\ cpc[c] = "send" /\ rounds[c] < ROUNDS /\ q[r] = MAX_MSG_COUNT
                   /\ KillAll

\* exit ends the threads of the child and its registration.
Leave(c) == /\ cpc[c] = "send" /\ rounds[c] = ROUNDS
            /\ cpc' = [cpc EXCEPT ![c] = "exited"]
            /\ registered' = registered \ {c}
            /\ starting' = [starting EXCEPT ![c] = 0]
            /\ reading' = [reading EXCEPT ![c] = 0]
            /\ UNCHANGED <<ppc, forked, rounds, q>>

-----------------------------------------------------------------------------
(* main                                                                    *)

Fork == /\ ppc = "fork" /\ forked < CHILD_COUNT
        /\ forked' = forked + 1
        /\ cpc' = [cpc EXCEPT ![forked'] = "register"]
        /\ UNCHANGED <<ppc, rounds, q, registered, threads>>

\* main closes its descriptors; those of the children stay open.
Close == /\ ppc = "fork" /\ forked = CHILD_COUNT
         /\ ppc' = "wait"
         /\ UNCHANGED <<forked, cpc, rounds, q, registered, threads>>

Wait == /\ ppc = "wait" /\ \A c \in Children : cpc[c] = "exited"
        /\ ppc' = "unlink"
        /\ UNCHANGED <<forked, cpc, rounds, q, registered, threads>>

Unlink == /\ ppc = "unlink" /\ ppc' = "exited"
          /\ UNCHANGED <<forked, cpc, rounds, q, registered, threads>>

ParentStep == Fork \/ Close \/ Wait \/ Unlink
ChildStep(c) == \/ FirstRegister(c) \/ FirstRead(c) \/ Leave(c)
                \/ \E r \in Children : Send(c, r) \/ SendFails(c, r)
ThreadStep(c) == Register(c) \/ Read(c)

Next == ParentStep \/ \E c \in Children : ChildStep(c) \/ ThreadStep(c)

Spec == Init /\ [][Next]_vars

-----------------------------------------------------------------------------
(* Properties.                                                             *)

(* A message in the queue of a child that is past its first registration   *)
(* is never forgotten: one of the threads, which sends and readings of     *)
(* others may overtake at any point, will still find it.  Such a child has *)
(* a registration or exactly one thread about to make it, so that          *)
(* mq_notify is never EBUSY and the next message is noticed as well.       *)
NothingForgotten ==
    \A c \in Children : cpc[c] \in {"read", "send"} =>
        /\ q[c] \in 0 .. MAX_MSG_COUNT
        /\ q[c] > 0 => cpc[c] = "read" \/ starting[c] + reading[c] > 0
        /\ starting[c] = IF c \in registered THEN 0 ELSE 1
=============================================================================
