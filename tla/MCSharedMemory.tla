--------------------------- MODULE MCSharedMemory ---------------------------
(***************************************************************************)
(* The programs of sop2/lab03 with a robust mutex for TLC: MonteCarlo      *)
(* (zad02) and Dying.  One of them is started; the other one stands in its *)
(* initial state, so the state spaces add up.                              *)
(***************************************************************************)
EXTENDS MonteCarlo

CONSTANTS ITERATIONS, DEATH   \* Dying

VARIABLES started,   \* the program that is started
          dpc, it, copy, counter, dmtx, printed

dyingVars == <<dpc, it, copy, counter, dmtx, printed>>
labVars == <<started, vars, dyingVars>>

Dy == INSTANCE Dying WITH pc <- dpc, mtx <- dmtx

LabInit == started \in {"monte-carlo", "dying"} /\ Init /\ Dy!Init

Estimate(A) == started = "monte-carlo" /\ A /\ UNCHANGED <<started, dyingVars>>
Dying(A) == started = "dying" /\ A /\ UNCHANGED <<started, vars>>

LabNext == Estimate(Next) \/ Dying(Dy!Next)

\* The fairness of MonteCarlo and of Dying, whichever is started.
LabFairness ==
    /\ \A p \in Procs :
         /\ WF_labVars(Estimate(Step(p) /\ overlap' = (overlap \/ Overlapping')))
         /\ WF_labVars(Estimate(StopRunning(p) /\ overlap' = (overlap \/ Overlapping')))
    /\ WF_labVars(Dying(Dy!Parent)) /\ WF_labVars(Dying(Dy!Child))

LabSpec == LabInit /\ [][LabNext]_labVars /\ LabFairness

\* Both properties of MonteCarlo hold of every state from an overlap on: TLC
\* does not look further.
UntilOverlap == ~overlap

-----------------------------------------------------------------------------
(* The properties of the program that is started.                          *)

\* MonteCarlo: every process ends unless one died with the semaphore.
ProcessesEnd == started = "monte-carlo" => EndsUnlessSemLost

\* Dying: the parent survives the death of the mutex owner and counts right.
CountSurvives == started = "dying" => Dy!CountSurvives
=============================================================================
