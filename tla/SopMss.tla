------------------------------- MODULE SopMss -------------------------------
(***************************************************************************)
(* The card game of sop1/lab04/zad2/sop-mss.c.  The main thread deals a    *)
(* hand to each player thread, starts them with a condition variable and   *)
(* joins them; in every turn a player puts a card on its neighbour's place *)
(* and meets the others at one barrier.  A step is one critical section,   *)
(* or one call of the barrier, of one thread.                              *)
(***************************************************************************)
EXTENDS Naturals, FiniteSets

CONSTANTS N,          \* players, 4 to 7 in the code
          HAND_SIZE,  \* cards of a hand (4 in the code)
          Suits,      \* suits of the deck (4 in the code)
          Deals,      \* hands the shuffled deck may give: set of [Player -> hand]
          MaxTurns    \* bound: barrier crossings a game may reach

Player == 0 .. N - 1
Slot == 1 .. HAND_SIZE
Card == Nat

MssSizes == /\ N \in Nat \ {0} /\ HAND_SIZE \in Nat \ {0}
            /\ MaxTurns \in Nat
            /\ Deals \subseteq [Player -> [Slot -> Card]]

VARIABLES
    created,       \* players whose thread main has created in this game
    ready,         \* the flag ready
    winner,        \* *winner: 0 when nobody has won
    hand,          \* hand[p][s]
    card_to_take,  \* the card lying in front of each player
    to_give,       \* the slot each player gave from
    arrived,       \* threads inside pthread_barrier_wait
    turn,          \* history: barrier crossings of each player in this game
    pc             \* where each player thread is

vars == <<created, ready, winner, hand, card_to_take, to_give, arrived, turn, pc>>

Goto(p, l) == pc' = [pc EXCEPT ![p] = l]

\* What main does before the first player of a game arrives.
NewGame == /\ created' = 0 /\ ready' = FALSE /\ winner' = 0
           /\ hand' \in Deals
           /\ turn' = [p \in Player |-> 0]
           /\ pc' = [p \in Player |-> "absent"]

Init == /\ created = 0 /\ ready = FALSE /\ winner = 0
        /\ hand \in Deals
        /\ card_to_take = [p \in Player |-> 0]
        /\ to_give = [p \in Player |-> 1]
        /\ arrived = {}
        /\ turn = [p \in Player |-> 0]
        /\ pc = [p \in Player |-> "absent"]

-----------------------------------------------------------------------------
(* The main thread.                                                        *)

PlayersMissing == created < N

\* sigwait returns: the next player's thread is created.
Create == /\ PlayersMissing
          /\ created' = created + 1
          /\ Goto(created, "start")
          /\ UNCHANGED <<ready, winner, hand, card_to_take, to_give, arrived, turn>>

\* Under mtx_start: ready = 1 and pthread_cond_broadcast.
Start == /\ created = N /\ ~ready
         /\ ready' = TRUE
         /\ pc' = [p \in Player |-> IF pc[p] = "waiting" THEN "start" ELSE pc[p]]
         /\ UNCHANGED <<created, winner, hand, card_to_take, to_give, arrived, turn>>

\* All threads are joined; the deck is shuffled for another game.
Join == /\ ready /\ \A p \in Player : pc[p] = "exited"
        /\ NewGame
        /\ UNCHANGED <<card_to_take, to_give, arrived>>

-----------------------------------------------------------------------------
(* A player thread.                                                        *)

\* Mutant: the thread waits without testing the flag.
AfterStartWait == "waiting"
AfterStart == IF ready THEN "check" ELSE "waiting"

\* Under mtx_start: test the flag, and wait for the broadcast when it is 0.
AwaitStart(p) ==
    /\ pc[p] = "start"
    /\ Goto(p, AfterStart)
    /\ UNCHANGED <<created, ready, winner, hand, card_to_take, to_give, arrived, turn>>

OneSuit(h) == \A s \in Slot : h[s] % Suits = h[1] % Suits

\* A hand of one suit claims the game.
Check(p) == /\ pc[p] = "check"
            /\ winner' = IF OneSuit(hand[p]) THEN p ELSE winner
            /\ Goto(p, "give")
            /\ UNCHANGED <<created, ready, hand, card_to_take, to_give, arrived, turn>>

Neighbour(p) == (p + 1) % N

\* Under mtx_card_to_take: a random card of the hand goes to the neighbour.
Give(p) == /\ pc[p] = "give"
           /\ \E s \in Slot :
                /\ to_give' = [to_give EXCEPT ![p] = s]
                /\ card_to_take' = [card_to_take EXCEPT ![Neighbour(p)] = hand[p][s]]
           /\ Goto(p, "barrier")
           /\ UNCHANGED <<created, ready, winner, hand, arrived, turn>>

LastArrival == Cardinality(arrived) + 1 = N

\* pthread_barrier_wait: the N-th arrival releases everybody.
Arrive(p) ==
    /\ pc[p] = "barrier" /\ p \notin arrived
    /\ turn[p] < MaxTurns
    /\ IF LastArrival
         THEN /\ arrived' = {}
              /\ pc' = [q \in Player |-> IF q \in arrived \cup {p} THEN "look" ELSE pc[q]]
              /\ turn' = [q \in Player |-> IF q \in arrived \cup {p} THEN turn[q] + 1
                                           ELSE turn[q]]
         ELSE arrived' = arrived \cup {p} /\ UNCHANGED <<pc, turn>>
    /\ UNCHANGED <<created, ready, winner, hand, card_to_take, to_give>>

\* Mutant: a finished game goes on.
GameOverNever == FALSE
GameOver == winner # 0

\* Under mtx_winner: leave when there is a winner.
Look(p) == /\ pc[p] = "look"
           /\ Goto(p, IF GameOver THEN "exited" ELSE "take")
           /\ UNCHANGED <<created, ready, winner, hand, card_to_take, to_give, arrived, turn>>

\* Under mtx_card_to_take: the card in front replaces the one given away.
Take(p) == /\ pc[p] = "take"
           /\ hand' = [hand EXCEPT ![p][to_give[p]] = card_to_take[p]]
           /\ Goto(p, "check")
           /\ UNCHANGED <<created, ready, winner, card_to_take, to_give, arrived, turn>>

Play(p) == AwaitStart(p) \/ Check(p) \/ Give(p) \/ Arrive(p) \/ Look(p) \/ Take(p)

Next == Create \/ Start \/ Join \/ \E p \in Player : Play(p)

(* Every thread that can run does; main is signalled often enough.         *)
Fairness == /\ WF_vars(Create) /\ WF_vars(Start) /\ WF_vars(Join)
            /\ \A p \in Player : WF_vars(Play(p))

Spec == Init /\ [][Next]_vars
FairSpec == Spec /\ Fairness

-----------------------------------------------------------------------------
(* Properties.                                                             *)

\* Hands hold cards, players and turns stay in range.
TypeOK == /\ created \in 0 .. N /\ ready \in BOOLEAN /\ winner \in Player
          /\ \A p \in Player : \A s \in Slot : hand[p][s] \in Card
          /\ card_to_take \in [Player -> Card] /\ to_give \in [Player -> Slot]
          /\ arrived \subseteq Player /\ turn \in [Player -> 0 .. MaxTurns]
          /\ pc \in [Player -> {"absent", "start", "waiting", "check", "give",
                                "barrier", "look", "take", "exited"}]

(* main asks "what if there's a thread that isn't yet waiting on this      *)
(* condvar?": however late it comes, a player that waits for the start of  *)
(* the game gets to play it.                                               *)
EveryoneStarts == \A p \in Player : pc[p] = "waiting" ~> pc[p] = "check"

(* Cards, players and turns stay in range, and whoever *winner names holds *)
(* a hand of one suit until the next deal: run_player lets nobody change   *)
(* its hand after claiming the game.                                       *)
WinnerHasOneSuit == /\ TypeOK
                    /\ winner # 0 => OneSuit(hand[winner])

\* One player has left the game, another has not seen its end and goes on.
Split == \E p, q \in Player : /\ pc[p] = "exited"
                              /\ pc[q] \in {"take", "check", "give", "barrier"}

\* Player 0 has just claimed the game, which writes the 0 of no winner.
Erased == winner = 0 /\ pc[0] = "give" /\ OneSuit(hand[0])

\* The players are joined and dealt new hands.
NewDeal == created = 0

(* A game that is claimed ends: every player leaves, main joins them all   *)
(* and deals again.  There are two exceptions.  A fast player claims the   *)
(* game in the next turn, before a slow one has looked at *winner for this *)
(* turn: the slow one leaves and the others stand at the barrier for ever. *)
(* Or player 0 gets a hand of one suit as well: its claim is no claim and  *)
(* takes back the one that was made, so that the game goes on.             *)
EndsUnlessSplit ==
    (winner # 0 /\ \A p \in Player : turn[p] < MaxTurns) ~> (NewDeal \/ Split \/ Erased)

(* "pass a random card to your neighbor": the card a player gives in a     *)
(* turn is the one its neighbour takes in that turn, so that whenever all  *)
(* players are between two turns no card of the deal is held twice.        *)
CardsConserved ==
    (\A p \in Player : pc[p] = "check") =>
        \A p, q \in Player : \A s, t \in Slot :
            hand[p][s] = hand[q][t] => p = q /\ s = t
=============================================================================
