------------------------------ MODULE Cluster ------------------------------
(***************************************************************************)
(* The cluster of sop1/lab02/prelab/retake2023 (sop-cluster.c).  The       *)
(* parent lets one of n children count at a time: SIGUSR1 makes a child    *)
(* count, SIGUSR2 halts it, and the user asks for the next one by SIGUSR1  *)
(* to the parent.  No signal is ever blocked and signals of a kind do not  *)
(* queue; of two different pending ones either handler may run first.      *)
(***************************************************************************)
EXTENDS Naturals

CONSTANT n   \* number of children

VARIABLES
    ppc,              \* parent: "fork", "start", "clear", "test", "suspend",
                      \*   "asleep", "halt" (lines 109, 115, 116, 118, 119, 123)
    forked,           \* children forked so far
    i,                \* the child whose turn it is
    asked,            \* SIGUSR1 is pending for the parent
    parent_running,
    cpc,              \* child: "unborn", "born", "half" (before lines 54 and 55),
                      \*   "test", "suspend", "asleep", "count", "dead"
    pending,          \* pending[c] : signals of child c not delivered yet
    child_running,    \* child_running[c]
    garbled,          \* history: children that took the parent's last signal
                      \*   before an older one, or before their handlers were set
    missed            \* history: children that took their last signal between
                      \*   the test and sigsuspend (59 and 60, 75 and 76)

main == <<ppc, forked, i, asked, parent_running>>
children == <<cpc, pending, child_running, garbled, missed>>
vars == <<main, children>>

Children == 0 .. n - 1

Init == /\ ppc = "fork" /\ forked = 0 /\ i = 0
        /\ asked = FALSE /\ parent_running = FALSE
        /\ cpc = [c \in Children |-> "unborn"]
        /\ pending = [c \in Children |-> {}]
        /\ child_running = [c \in Children |-> FALSE]
        /\ garbled = {} /\ missed = {}

\* The parent gave c the turn, and the signal it sent to c last.
MyTurn(c) == c = i /\ ppc \in {"clear", "test", "suspend", "asleep", "halt"}
LastSent(c) == IF MyTurn(c) THEN "USR1" ELSE "USR2"

\* kill
Kill(c, sig) == /\ pending' = [pending EXCEPT ![c] = @ \cup {sig}]
                /\ garbled' = garbled \ {c}
                /\ UNCHANGED <<cpc, child_running, missed>>

-----------------------------------------------------------------------------
(* main                                                                    *)

Fork == /\ ppc = "fork" /\ forked < n
        /\ forked' = forked + 1
        /\ cpc' = [cpc EXCEPT ![forked] = "born"]
        /\ ppc' = IF forked' = n THEN "start" ELSE "fork"
        /\ UNCHANGED <<i, asked, parent_running, pending, child_running, garbled, missed>>

Start == /\ ppc = "start" /\ ppc' = "clear"
         /\ Kill(i, "USR1")
         /\ UNCHANGED <<forked, i, asked, parent_running>>

\* A request that was delivered before this line is forgotten.
Clear == /\ ppc = "clear" /\ ppc' = "test"
         /\ parent_running' = FALSE
         /\ UNCHANGED <<forked, i, asked, children>>

Test == /\ ppc = "test"
        /\ ppc' = IF parent_running THEN "halt" ELSE "suspend"
        /\ UNCHANGED <<forked, i, asked, parent_running, children>>

\* sigsuspend; a request delivered before it does not wake it.
Suspend == /\ ppc = "suspend" /\ ppc' = "asleep"
           /\ UNCHANGED <<forked, i, asked, parent_running, children>>

\* Mutant: i is advanced before the signal is sent.
HaltedNext == (i + 1) % n
Halted == i

Halt == /\ ppc = "halt" /\ ppc' = "start"
        /\ Kill(Halted, "USR2")
        /\ i' = (i + 1) % n
        /\ UNCHANGED <<forked, asked, parent_running>>

\* sigusr1_parent_handler
ParentSignal == /\ asked
                /\ asked' = FALSE /\ parent_running' = TRUE
                /\ ppc' = IF ppc = "asleep" THEN "test" ELSE ppc
                /\ UNCHANGED <<forked, i, children>>

Ask == /\ ~asked /\ asked' = TRUE
       /\ UNCHANGED <<ppc, forked, i, parent_running, children>>

-----------------------------------------------------------------------------
(* child_work                                                              *)

Go(c, pc) == /\ cpc' = [cpc EXCEPT ![c] = pc]
             /\ UNCHANGED <<main, pending, child_running, garbled, missed>>

\* The handler of SIGUSR1 (line 54), then that of SIGUSR2.
SetHandler(c) == \/ cpc[c] = "born" /\ Go(c, "half")
                 \/ cpc[c] = "half" /\ Go(c, "test")

\* The two loops around sigsuspend (lines 59 and 75) are the same.
ChildTest(c) == cpc[c] = "test" /\ Go(c, IF child_running[c] THEN "count" ELSE "suspend")

ChildSuspend(c) == cpc[c] = "suspend" /\ Go(c, "asleep")

\* while (child_running): the counter goes on or the child halts.
Count(c) == /\ cpc[c] = "count" /\ ~child_running[c] /\ Go(c, "test")

(* sigusr1_child_handler and sigusr2_handler.  Until line 54 the child has *)
(* the parent's handler of SIGUSR1, which does not start it, and until     *)
(* line 55 SIGUSR2 ends it.                                                *)
Deliver(c, sig) ==
    LET early == cpc[c] = "born" \/ (cpc[c] = "half" /\ sig = "USR2") IN
    /\ sig \in pending[c] /\ cpc[c] \notin {"unborn", "dead"}
    /\ pending' = [pending EXCEPT ![c] = @ \ {sig}]
    /\ garbled' = IF sig = LastSent(c) /\ (early \/ pending[c] # {sig})
                     THEN garbled \cup {c} ELSE garbled
    /\ missed' = IF cpc[c] = "suspend" THEN missed \cup {c} ELSE missed \ {c}
    /\ child_running' = [child_running EXCEPT ![c] = IF early THEN @ ELSE sig = "USR1"]
    /\ cpc' = [cpc EXCEPT ![c] = IF early /\ sig = "USR2" THEN "dead"
                                 ELSE IF @ = "asleep" THEN "test" ELSE @]
    /\ UNCHANGED main

ParentStep == Fork \/ Start \/ Clear \/ Test \/ Suspend \/ Halt \/ ParentSignal
ChildStep(c) == \/ SetHandler(c) \/ ChildTest(c) \/ ChildSuspend(c) \/ Count(c)
                \/ \E sig \in {"USR1", "USR2"} : Deliver(c, sig)

Next == ParentStep \/ Ask \/ \E c \in Children : ChildStep(c)

Spec == Init /\ [][Next]_vars

-----------------------------------------------------------------------------
(* Properties.                                                             *)

\* What the signals taken and still pending leave c to do: its turn, or the
\* opposite if they came in the wrong order.
Told(c) == MyTurn(c) <=> c \notin garbled

(* However late the signals are delivered, the children follow the parent. *)
(* A signal still pending is the right one, and once nothing is pending    *)
(* child_running says whose turn it is: only a child that took the last    *)
(* signal before an older one, or before it had its handlers, has it the   *)
(* wrong way round, and the next signal puts that right.  A child that is  *)
(* told to count does count, or comes to the test that lets it (59, 75);   *)
(* only one that took the signal between that test and sigsuspend sleeps   *)
(* with its flag set.                                                      *)
ChildrenFollow ==
    \A c \in Children : cpc[c] # "dead" =>
        /\ pending[c] = {} => child_running[c] = Told(c)
        /\ pending[c] = {"USR1"} => Told(c)
        /\ pending[c] = {"USR2"} => ~Told(c)
        /\ pending[c] = {} /\ Told(c) /\ c \notin missed =>
              cpc[c] \in {"half", "test", "count"}
=============================================================================
