------------------------------ MODULE MCQueues ------------------------------
(***************************************************************************)
(* Three message queue programs of sop2/lab02 for TLC: TaskServer (zad02), *)
(* Telephone (zad03) and Forum (mq_test2).  They share no queue and one of *)
(* them is started, which one is the first choice of a behaviour; the      *)
(* others stand in their initial states, so the state spaces add up.       *)
(***************************************************************************)
EXTENDS TaskServer

CONSTANTS Players, MQ_MSG_COUNT, MaxWords,        \* Telephone
          CHILD_COUNT, FORUM_MSG_COUNT, ROUNDS    \* Forum

VARIABLES started,   \* the program that is started
          words, ppc, sent, final, cpc, msg, q, linked, strayed, players,
          fpc, children, fcpc, rounds, fq, fregistered, starting, reading

telephoneVars == <<words, ppc, players, sent, final, cpc, msg, q, linked, strayed>>
forumVars == <<fpc, children, fcpc, rounds, fq, fregistered, starting, reading>>
labVars == <<started, vars, telephoneVars, forumVars>>

Phone == INSTANCE Telephone WITH N <- Players, forked <- players
Fo == INSTANCE Forum WITH
    MAX_MSG_COUNT <- FORUM_MSG_COUNT, ppc <- fpc, forked <- children,
    cpc <- fcpc, q <- fq, registered <- fregistered

\* The inputs of a program that is not started do not matter.
LabInit == /\ started \in {"server", "telephone", "forum"}
           /\ Init /\ Phone!Init /\ Fo!Init
           /\ started # "telephone" => words = 0
           /\ started # "forum" => \A c \in Fo!Children : fq[c] = 0

Server(A) == started = "server" /\ A
             /\ UNCHANGED <<started, telephoneVars, forumVars>>
Telephone(A) == started = "telephone" /\ A
                /\ UNCHANGED <<started, vars, forumVars>>
Forum(A) == started = "forum" /\ A
            /\ UNCHANGED <<started, vars, telephoneVars>>

LabNext == Server(Next) \/ Telephone(Phone!Next) \/ Forum(Fo!Next)

\* The fairness of TaskServer and of Telephone, whichever is started.
LabFairness ==
    /\ WF_labVars(Server(MainStep)) /\ WF_labVars(Server(Signal))
    /\ \A w \in Workers : WF_labVars(Server(WorkerStep(w)))
    /\ WF_labVars(Telephone(Phone!ParentStep))
    /\ \A k \in Phone!Children : WF_labVars(Telephone(Phone!ChildStep(k)))

LabSpec == LabInit /\ [][LabNext]_labVars /\ LabFairness

-----------------------------------------------------------------------------
(* The properties of the other programs, of the one that is started.      *)

\* TaskServer: the server ends, with all answers or through ERR.
ServerStops == started = "server" => ServerEnds

(* Telephone: the game ends, unless the sentence is too long for the ring  *)
(* or a short one is lost with a queue that was unlinked too early.        *)
GameEnds == started = "telephone" => Phone!GameEnds

\* Telephone: the ring of queues is one bounded queue of words, in order.
RingSpec == Phone!RingSpec

\* Forum: no message waits in a queue that nobody will look at.
NothingForgotten == Fo!NothingForgotten
=============================================================================
