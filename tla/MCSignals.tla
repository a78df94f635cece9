----------------------------- MODULE MCSignals -----------------------------
(***************************************************************************)
(* Two programs of sop1/lab02 whose children follow the parent's signals,  *)
(* for TLC: SopL2 (prelab) and Cluster (retake2023).  One of them is       *)
(* started; the other stands in its initial state, so the state spaces add *)
(* up.                                                                     *)
(***************************************************************************)
EXTENDS SopL2

CONSTANT Nodes   \* Cluster: children

VARIABLES started,   \* the program that is started
          npc, nodes, turn, asked, parent_running, nodepc, npending,
          child_running, garbled, missed

clusterVars == <<npc, nodes, turn, asked, parent_running, nodepc, npending,
                 child_running, garbled, missed>>
labVars == <<started, vars, clusterVars>>

Cl == INSTANCE Cluster WITH
    n <- Nodes, ppc <- npc, forked <- nodes, i <- turn, cpc <- nodepc, pending <- npending

\* SopL2: four characters, for three children chunks of 2, 2 and 0.
Text == <<"A", "-", "a", "A">>

LabInit == started \in {"sop-l2", "cluster"} /\ Init /\ Cl!Init

Converter(A) == started = "sop-l2" /\ A /\ UNCHANGED <<started, clusterVars>>
Cluster(A) == started = "cluster" /\ A /\ UNCHANGED <<started, vars>>

LabNext == Converter(Next) \/ Cluster(Cl!Next)

\* The fairness of SopL2.
LabFairness ==
    /\ WF_labVars(Converter(ParentStep))
    /\ \A i \in Children : WF_labVars(Converter(ChildStep(i)))
    /\ \A p \in Procs : WF_labVars(Converter(Delivery(p)))

LabSpec == LabInit /\ [][LabNext]_labVars /\ LabFairness

-----------------------------------------------------------------------------
(* The properties of the program that is started.                          *)

\* SopL2: every child ends, unless SIGINT overwrote its start.
ConversionEnds == started = "sop-l2" => EndsUnlessOverwritten

\* SopL2: what the task says of SIGINT; violated by an overwritten start.
SigintEnds == started = "sop-l2" => EndsOnSigint

\* Cluster: the children follow the last signal of the parent.
ChildrenFollow == Cl!ChildrenFollow
=============================================================================
