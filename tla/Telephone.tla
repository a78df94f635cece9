----------------------------- MODULE Telephone -----------------------------
(***************************************************************************)
(* The telephone game of sop2/lab02/zad03.  The parent forks N children,   *)
(* then sends the words of a sentence and a final "!" into its own queue.  *)
(* Child k passes what it gets from the queue of its predecessor on to its *)
(* own, and leaves, unlinking its queue, once it has passed the "!" on.    *)
(* The parent takes the words from the queue of the last child, but only   *)
(* after it has sent them all.                                             *)
(***************************************************************************)
EXTENDS Naturals, Sequences, SequencesExt

CONSTANTS N,              \* children, the names entered before "start"
          MQ_MSG_COUNT,   \* capacity of a queue (2 in the code)
          MaxWords        \* bound: the longest sentence

VARIABLES
    words,    \* words of the sentence (counted by main as it sends them)
    ppc,      \* main: "fork", "openRecv", "openSend", "send", "receive", "wait",
              \*   "unlink", "exited"
    forked,   \* children forked so far
    sent,     \* words sent so far
    final,    \* the words received, in this order
    cpc,      \* child: "unborn", "openRecv", "openSend", "receive", "pass",
              \*   "unlink", "left"
    msg,      \* msg[k] : the message child k has in hand
    q,        \* q[k] : the queue that process k sends to, 0 is main
    linked,   \* linked[k] : no mq_unlink of that queue's name yet
    strayed   \* children whose open found the name unlinked and made a new queue

parent == <<words, ppc, forked, sent, final>>
child == <<cpc, msg, strayed>>
queues == <<q, linked>>
vars == <<parent, child, queues>>

Children == 1 .. N
Names == 0 .. N
\* The words are the numbers 0 .. words - 1 (none begins with "!").
Bang == MaxWords

Init == /\ words \in 0 .. MaxWords
        /\ ppc = "fork" /\ forked = 0 /\ sent = 0 /\ final = <<>>
        /\ cpc = [k \in Children |-> "unborn"]
        /\ msg = [k \in Children |-> Bang]
        /\ strayed = {}
        /\ q = [k \in Names |-> <<>>]
        /\ linked = [k \in Names |-> TRUE]

\* Mutant: one message more than mq_maxmsg.
HasRoomLate(k) == Len(q[k]) <= MQ_MSG_COUNT
\* mq_send does not block.
HasRoom(k) == Len(q[k]) < MQ_MSG_COUNT

-----------------------------------------------------------------------------
(* child_work                                                              *)

Go(k, pc) == cpc' = [cpc EXCEPT ![k] = pc]

\* The queue of the predecessor, or a new one when that is unlinked already.
OpenRecv(k) == /\ cpc[k] = "openRecv" /\ Go(k, "openSend")
               /\ strayed' = IF linked[k - 1] THEN strayed ELSE strayed \cup {k}
               /\ UNCHANGED <<parent, msg, queues>>

OpenSend(k) == /\ cpc[k] = "openSend" /\ Go(k, "receive")
               /\ UNCHANGED <<parent, msg, strayed, queues>>

\* mq_receive blocks at an empty queue; nobody sends to a new one.
Receive(k) == /\ cpc[k] = "receive" /\ Go(k, "pass")
              /\ k \notin strayed /\ q[k - 1] # <<>>
              /\ msg' = [msg EXCEPT ![k] = Head(q[k - 1])]
              /\ q' = [q EXCEPT ![k - 1] = Tail(@)]
              /\ UNCHANGED <<parent, strayed, linked>>

\* Mutant: the child leaves without passing the "!" on.
PassedNotBang(k) == IF msg[k] = Bang THEN q[k] ELSE Append(q[k], msg[k])
Passed(k) == Append(q[k], msg[k])

\* A word (its letters changed) is passed on; the child leaves after the "!".
Pass(k) == /\ cpc[k] = "pass" /\ HasRoom(k)
           /\ q' = [q EXCEPT ![k] = Passed(k)]
           /\ Go(k, IF msg[k] = Bang THEN "unlink" ELSE "receive")
           /\ UNCHANGED <<parent, msg, strayed, linked>>

Unlink(k) == /\ cpc[k] = "unlink" /\ Go(k, "left")
             /\ linked' = [linked EXCEPT ![k] = FALSE]
             /\ UNCHANGED <<parent, msg, strayed, q>>

-----------------------------------------------------------------------------
(* main                                                                    *)

Fork == /\ ppc = "fork" /\ forked < N
        /\ forked' = forked + 1
        /\ Go(forked', "openRecv")
        /\ UNCHANGED <<words, ppc, sent, final, msg, strayed, queues>>

Start == /\ ppc = "fork" /\ forked = N /\ ppc' = "openRecv"
         /\ UNCHANGED <<words, forked, sent, final, child, queues>>

\* The queue of the last child, then main's own; neither is unlinked yet.
ParentOpen == /\ ppc \in {"openRecv", "openSend"}
              /\ ppc' = IF ppc = "openRecv" THEN "openSend" ELSE "send"
              /\ UNCHANGED <<words, forked, sent, final, child, queues>>

SendWord == /\ ppc = "send" /\ sent < words /\ HasRoom(0)
            /\ q' = [q EXCEPT ![0] = Append(@, sent)]
            /\ sent' = sent + 1
            /\ UNCHANGED <<words, ppc, forked, final, child, linked>>

SendBang == /\ ppc = "send" /\ sent = words /\ HasRoom(0)
            /\ q' = [q EXCEPT ![0] = Append(@, Bang)]
            /\ ppc' = "receive"
            /\ UNCHANGED <<words, forked, sent, final, child, linked>>

ParentReceive == /\ ppc = "receive" /\ Len(final) < words /\ q[N] # <<>>
                 /\ final' = Append(final, Head(q[N]))
                 /\ q' = [q EXCEPT ![N] = Tail(@)]
                 /\ UNCHANGED <<words, ppc, forked, sent, child, linked>>

PrintFinal == /\ ppc = "receive" /\ Len(final) = words /\ ppc' = "wait"
              /\ UNCHANGED <<words, forked, sent, final, child, queues>>

Wait == /\ ppc = "wait" /\ \A k \in Children : cpc[k] = "left"
        /\ ppc' = "unlink"
        /\ UNCHANGED <<words, forked, sent, final, child, queues>>

ParentUnlink == /\ ppc = "unlink" /\ ppc' = "exited"
                /\ linked' = [linked EXCEPT ![0] = FALSE]
                /\ UNCHANGED <<words, forked, sent, final, child, q>>

ChildStep(k) == OpenRecv(k) \/ OpenSend(k) \/ Receive(k) \/ Pass(k) \/ Unlink(k)
ParentStep == \/ Fork \/ Start \/ ParentOpen \/ SendWord \/ SendBang
              \/ ParentReceive \/ PrintFinal \/ Wait \/ ParentUnlink

Next == ParentStep \/ \E k \in Children : ChildStep(k)

\* Every process runs when it can.
Fairness == WF_vars(ParentStep) /\ \A k \in Children : WF_vars(ChildStep(k))

Spec == Init /\ [][Next]_vars
FairSpec == Spec /\ Fairness

-----------------------------------------------------------------------------
(* Properties.                                                             *)

\* What all queues and one message in each child's hand can hold.
Capacity == (N + 1) * MQ_MSG_COUNT + N

(* The game ends, except that main, which takes nothing out before it has  *)
(* sent everything, blocks when the sentence and the "!" do not fit into   *)
(* the ring; and that a sentence so short that the whole of it fits into   *)
(* one queue may be gone with that queue before the next child opens it.   *)
GameEnds == <>(\/ ppc = "exited"
               \/ words >= Capacity
               \/ words < MQ_MSG_COUNT /\ strayed # {})

\* What is in queue k and in the hand of the child that puts it there, oldest first.
Held(k) == IF k # 0 /\ cpc[k] = "pass" THEN <<msg[k]>> ELSE <<>>
Slot(k) == q[k] \o Held(k)
\* The "!" comes after all words.
WithoutBang(s) == IF s # <<>> /\ Last(s) = Bang THEN Front(s) ELSE s
\* The words under way, the oldest first: from the last child back to main.
UnderWay == FlattenSeq([i \in 1 .. N + 1 |-> WithoutBang(Slot(N + 1 - i))])

(* Whatever the children's speed, the ring is one queue: the words reach   *)
(* main once each and in the order of the sentence, and no more of them    *)
(* are under way than the queues and the children's hands can hold.        *)
Ring == INSTANCE BoundedFifo WITH
    Total <- MaxWords, queue <- UnderWay, put <- sent, taken <- final
RingSpec == Ring!FSpec
=============================================================================
