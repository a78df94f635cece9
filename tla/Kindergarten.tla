---------------------------- MODULE Kindergarten ----------------------------
(***************************************************************************)
(* The kindergarten of sop1/lab02/prelab/task2023 (sop-kg.c).  The parent  *)
(* ignores SIGTERM, forks n children, waits for its alarm, sends SIGTERM   *)
(* to the process group and waits for the children.  Every child inherits  *)
(* the ignored SIGTERM until it sets its own handler.  sick[i] is set by   *)
(* the parent alone, in its own memory: no child ever coughs.              *)
(***************************************************************************)
EXTENDS Naturals

CONSTANT n   \* number of children

VARIABLES
    ppc,           \* parent: "fork", "setAlarm", "spin", "term", "wait", "exited",
                   \*   "killed" (line 102)
    forked,        \* children forked so far
    last_signal,   \* SIGALRM has been taken
    alarmed,       \* the alarm is set and has not fired
    cpc,           \* child: "unborn", "born" (before line 73), "play", "exited", "killed"
    deaf           \* children that ignored the SIGTERM of the parent

main == <<ppc, forked, last_signal, alarmed>>
vars == <<main, cpc, deaf>>

Children == 1 .. n

Init == /\ ppc = "fork" /\ forked = 0 /\ last_signal = FALSE /\ alarmed = FALSE
        /\ cpc = [c \in Children |-> "unborn"]
        /\ deaf = {}

Fork == /\ ppc = "fork" /\ forked < n
        /\ forked' = forked + 1
        /\ cpc' = [cpc EXCEPT ![forked'] = "born"]
        /\ UNCHANGED <<ppc, last_signal, alarmed, deaf>>

\* fork fails, ERR kills the group.
ForkFails == /\ ppc = "fork" /\ forked < n
             /\ ppc' = "killed"
             /\ cpc' = [c \in Children |-> IF cpc[c] = "unborn" THEN "unborn" ELSE "killed"]
             /\ UNCHANGED <<forked, last_signal, alarmed, deaf>>

Forked == /\ ppc = "fork" /\ forked = n /\ ppc' = "setAlarm"
          /\ UNCHANGED <<forked, last_signal, alarmed, cpc, deaf>>

SetAlarm == /\ ppc = "setAlarm" /\ ppc' = "spin"
            /\ alarmed' = TRUE
            /\ UNCHANGED <<forked, last_signal, cpc, deaf>>

Alarm == /\ alarmed /\ alarmed' = FALSE /\ last_signal' = TRUE
         /\ UNCHANGED <<ppc, forked, cpc, deaf>>

\* The busy wait ends.
Spin == /\ ppc = "spin" /\ last_signal /\ ppc' = "term"
        /\ UNCHANGED <<forked, last_signal, alarmed, cpc, deaf>>

\* Mutant: children that are still playing go on.
OnTermNot(c) == cpc[c]
\* The action of SIGTERM in child c: ignored, or sigterm_handler.
OnTerm(c) == IF cpc[c] = "play" THEN "exited" ELSE cpc[c]

Term == /\ ppc = "term" /\ ppc' = "wait"
        /\ cpc' = [c \in Children |-> OnTerm(c)]
        /\ deaf' = {c \in Children : cpc[c] = "born"}
        /\ UNCHANGED <<forked, last_signal, alarmed>>

\* wait, until no child is left.
Wait == /\ ppc = "wait" /\ \A c \in Children : cpc[c] = "exited"
        /\ ppc' = "exited"
        /\ UNCHANGED <<forked, last_signal, alarmed, cpc, deaf>>

\* The handlers are set; from then on the child sleeps and wakes for ever.
SetHandlers(c) == /\ cpc[c] = "born"
                  /\ cpc' = [cpc EXCEPT ![c] = "play"]
                  /\ UNCHANGED <<main, deaf>>

ParentStep == Fork \/ Forked \/ SetAlarm \/ Alarm \/ Spin \/ Term \/ Wait

Next == ParentStep \/ ForkFails \/ \E c \in Children : SetHandlers(c)

\* Every process runs, and the alarm fires.
Fairness == WF_vars(ParentStep) /\ \A c \in Children : WF_vars(SetHandlers(c))

Spec == Init /\ [][Next]_vars
FairSpec == Spec /\ Fairness

-----------------------------------------------------------------------------
(* Properties.                                                             *)

(* The simulation closes: the parent has waited for all children or was    *)
(* killed, unless a child was so slow that it still ignored SIGTERM when   *)
(* the only one was sent; that child and the parent stay for ever.         *)
Closes == <>(ppc \in {"exited", "killed"} \/ deaf # {})
=============================================================================
