---------------------------- MODULE MCCardGames ----------------------------
(***************************************************************************)
(* The two card games for TLC: SopMss (threads, sop1/lab04/zad2) and Cards *)
(* (processes, sop2/lab01/zad05).  One of them is started; the other one   *)
(* stands in its initial state, so the state spaces add up.                *)
(***************************************************************************)
EXTENDS Cards, TLC

CONSTANTS Games,                           \* those of which one is started
          Threads, HAND_SIZE, ThreadSuits, \* SopMss: players, cards, suits,
          ThreadDeals, MaxTurns            \*   deals and the bound of its turns

VARIABLES started,   \* the game that is started
          created, ready, claimed, hands, card_to_take, to_give, arrived, turn, tpc

threadVars == <<created, ready, claimed, hands, card_to_take, to_give, arrived, turn, tpc>>
labVars == <<started, vars, threadVars>>

Mss == INSTANCE SopMss WITH
    N <- Threads, Suits <- ThreadSuits, Deals <- ThreadDeals, winner <- claimed,
    hand <- hands, pc <- tpc

ASSUME MssAssumption == Mss!MssSizes

\* Cards: nobody begins with one suit.
EvenDeal == {[p \in Player |-> [s \in Card |-> M \div Suits]]}

\* SopMss: cards 0 .. 5 of suits 0 and 1; no player, then player 1, starts with one suit.
H(a, b) == 1 :> a @@ 2 :> b
MixedDeal == 0 :> H(0, 1) @@ 1 :> H(2, 3) @@ 2 :> H(4, 5)
WonDeal == 0 :> H(0, 1) @@ 1 :> H(3, 5) @@ 2 :> H(2, 4)
TwoDeals == {MixedDeal, WonDeal}
OneDeal == {MixedDeal}

\* The deal of a game that is not started does not matter.
LabInit == /\ started \in Games
           /\ Init /\ Mss!Init
           /\ started # "cards" => hand = CHOOSE d \in Deals : TRUE
           /\ started # "sop-mss" => hands = CHOOSE d \in ThreadDeals : TRUE

Game(A) == started = "cards" /\ A /\ UNCHANGED <<started, threadVars>>
ThreadGame(A) == started = "sop-mss" /\ A /\ UNCHANGED <<started, vars>>

LabNext == Game(Next) \/ ThreadGame(Mss!Next)

\* The fairness of Cards and of SopMss, whichever is started.
LabFairness ==
    /\ WF_labVars(Game(ParentStep)) /\ WF_labVars(Game(DeliverParent))
    /\ \A p \in Player : /\ WF_labVars(Game(PlayerStep(p)))
                         /\ WF_labVars(Game(Delivery(p)))
    /\ WF_labVars(ThreadGame(Mss!Create)) /\ WF_labVars(ThreadGame(Mss!Start))
    /\ WF_labVars(ThreadGame(Mss!Join))
    /\ \A p \in Mss!Player : WF_labVars(ThreadGame(Mss!Play(p)))

LabSpec == LabInit /\ [][LabNext]_labVars /\ LabFairness

-----------------------------------------------------------------------------
(* The properties of the game that is started.                             *)

\* Cards: the game ends unless a player is stranded in read or open.
CardGameEnds == started = "cards" => EndsUnlessStranded

\* SopMss: the winner that is announced has a hand of one suit.
WinnerHasOneSuit == Mss!WinnerHasOneSuit

\* SopMss: every player that waits for the start gets to play.
EveryoneStarts == Mss!EveryoneStarts

\* SopMss: a claimed game ends unless its players are split over two turns, or
\* player 0 erases the claim.
ClaimedGameEnds == Mss!EndsUnlessSplit

\* SopMss: between two turns no card is held twice.
NoCardTwice == Mss!CardsConserved
=============================================================================
