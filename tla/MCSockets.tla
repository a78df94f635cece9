----------------------------- MODULE MCSockets -----------------------------
(***************************************************************************)
(* The servers of sop2/lab04 that wait in epoll_pwait for TLC: Election    *)
(* (zad02) and Calculator (tcp_test).  One of them is started; the other   *)
(* one stands in its initial state, so the state spaces add up.            *)
(***************************************************************************)
EXTENDS Election

CONSTANTS CalcClients, Locals,   \* Calculator: all clients, those of the local socket
          Half,                  \* Calculator: half the number of integers
          Requests               \* Calculator: what each client may ask

VARIABLES started,   \* the server that is started
          spc, working, sigint, backlog, events, client, data, size,
          request, cpc, written, answer, lost

calcVars == <<spc, working, sigint, backlog, events, client, data, size,
              request, cpc, written, answer, lost>>
labVars == <<started, vars, calcVars>>

\* Requests whose exact result does not fit, cannot be computed or is rounded.
Ask(a, op, b) == [a |-> a, b |-> b, op |-> op]
Edge == {Ask(1, "+", 1), Ask(-Half, "-", 1), Ask(-Half, "*", -Half), Ask(-Half, "/", -1),
         Ask(1, "/", 0), Ask(-1, "/", 1), Ask(0, "?", 1)}
EdgeRequests == [c \in CalcClients |-> IF c \in Locals THEN Edge ELSE {Ask(1, "-", -1)}]

Calc == INSTANCE Calculator WITH
    Clients <- CalcClients, Local <- Locals, do_work <- working, sent <- written

LabInit == started \in {"election", "calculator"} /\ Init /\ Calc!Init

Voting(A) == started = "election" /\ A /\ UNCHANGED <<started, calcVars>>
Calculator(A) == started = "calculator" /\ A /\ UNCHANGED <<started, vars>>

LabNext == Voting(Next) \/ Calculator(Calc!Next)

\* The fairness of Election and of Calculator, whichever is started.
LabFairness ==
    /\ WF_labVars(Voting(MainStep)) /\ WF_labVars(Voting(UdpStep))
    /\ WF_labVars(Calculator(Calc!ServerStep))
    /\ \A c \in CalcClients : WF_labVars(Calculator(Calc!ClientStep(c)))

LabSpec == LabInit /\ [][LabNext]_labVars /\ LabFairness

-----------------------------------------------------------------------------
(* The properties of the server that is started.                           *)

\* Election: SIGINT ends the server, unless the UDP thread took it unnoticed.
ElectionEnds == started = "election" => EndsUnlessUnnoticed

\* Calculator: every answer is the right one to the client's own request.
AnswersOwnRequest == Calc!AnswersOwnRequest

\* Calculator: clients are served and SIGINT obeyed unless a client is silent.
ServedUnlessStalled == started = "calculator" => Calc!ServedUnlessStalled
=============================================================================
