---------------------------- MODULE MCProcesses ----------------------------
(***************************************************************************)
(* ProdCons (sop2/lab03/prod_cons), Teams (sop2/lab01/prelab),             *)
(* Kindergarten (sop1/lab02, task2023) and Bingo (sop2/lab02/mq_test1) for *)
(* TLC: parents and their children.  One program is started; the others    *)
(* stand in their initial states, so the state spaces add up.              *)
(***************************************************************************)
EXTENDS ProdCons

CONSTANTS TeamSize,   \* Teams: players of a team
          Kids,       \* Kindergarten: children
          Bingos, LIFESPAN, BINGO_MSG_COUNT   \* Bingo

VARIABLES started,   \* the program that is started
          joined, tpc, round, pipe, other,
          kpc, kids, last_signal, alarmed, kidpc, deaf,
          bpc, errno, hpc, children_left, rng, end, bregistered, rtPending,
          chldPending, reports, bcpc, life

teamVars == <<joined, tpc, round, pipe, other>>
kgVars == <<kpc, kids, last_signal, alarmed, kidpc, deaf>>
bingoVars == <<bpc, errno, hpc, children_left, rng, end, bregistered, rtPending,
               chldPending, reports, bcpc, life>>
labVars == <<started, vars, teamVars, kgVars, bingoVars>>

Tm == INSTANCE Teams WITH n <- TeamSize, forked <- joined, pc <- tpc
Kg == INSTANCE Kindergarten WITH n <- Kids, ppc <- kpc, forked <- kids, cpc <- kidpc
Bg == INSTANCE Bingo WITH
    N <- Bingos, MaxMsg <- BINGO_MSG_COUNT, mpc <- bpc, registered <- bregistered,
    pc <- bcpc

\* The lives of a bingo that is not started do not matter.
LabInit == /\ started \in {"prod-cons", "teams", "kg", "bingo"}
           /\ Init /\ Tm!Init /\ Kg!Init /\ Bg!Init
           /\ started # "bingo" => \A c \in Bg!Child : life[c] = 1

Shared(A) == started = "prod-cons" /\ A
             /\ UNCHANGED <<started, teamVars, kgVars, bingoVars>>
Teams(A) == started = "teams" /\ A
            /\ UNCHANGED <<started, vars, kgVars, bingoVars>>
Kindergarten(A) == started = "kg" /\ A
                   /\ UNCHANGED <<started, vars, teamVars, bingoVars>>
Bingo(A) == started = "bingo" /\ A
            /\ UNCHANGED <<started, vars, teamVars, kgVars>>

LabNext == Shared(Next) \/ Teams(Tm!Next) \/ Kindergarten(Kg!Next) \/ Bingo(Bg!Next)

\* The fairness of the program that is started.
LabFairness ==
    /\ \A p \in Proc : WF_labVars(Shared(Step(p)))
    /\ WF_labVars(Shared(Produce)) /\ WF_labVars(Shared(Consume))
    /\ WF_labVars(Shared(ChildExit)) /\ WF_labVars(Shared(Destroy))
    /\ WF_labVars(Teams(Tm!Fork))
    /\ \A p \in Tm!Players : WF_labVars(Teams(Tm!PlayerStep(p)))
    /\ WF_labVars(Kindergarten(Kg!ParentStep))
    /\ \A c \in Kg!Children : WF_labVars(Kindergarten(Kg!SetHandlers(c)))
    /\ WF_labVars(Bingo(Bg!MainStep)) /\ WF_labVars(Bingo(Bg!MqHandlerStep))
    /\ WF_labVars(Bingo(Bg!OnSigchld))
    /\ \A c \in Bg!Child : WF_labVars(Bingo(Bg!ChildStep(c)))

LabSpec == LabInit /\ [][LabNext]_labVars /\ LabFairness

-----------------------------------------------------------------------------
(* The properties of the program that is started.                          *)

\* ProdCons: both processes end, and the consumer has printed every item.
EverythingConsumed == started = "prod-cons" => AllConsumed

\* Teams: no circle of readers; everyone reads everyone's data and leaves.
EveryoneMeets == started = "teams" => Tm!EveryoneMeets

\* Kindergarten: the simulation closes unless a child ignored SIGTERM.
Closes == started = "kg" => Kg!Closes

\* Bingo: the parent ends only when it has printed every report.
ReportsComplete == Bg!ReportsComplete

\* Bingo: the program ends, unless the parent is asleep at a full queue.
BingoEnds == started = "bingo" => Bg!EndsUnlessOverfed
=============================================================================
