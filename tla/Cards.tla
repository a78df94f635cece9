------------------------------- MODULE Cards -------------------------------
(***************************************************************************)
(* The card game of sop2/lab01/zad05.  The parent forks N players, deals M *)
(* cards to each and polls a FIFO for the pid of a winner.  The players    *)
(* form a ring of pipes: each passes a random card to the right, waits for *)
(* one from the left, and reports to the FIFO once its hand is of one      *)
(* suit.  A winner, or SIGINT, makes the parent send SIGUSR1 to the group; *)
(* the players must then leave.  Every process keeps both ends of every    *)
(* ring pipe open, so no read ever meets the end of its pipe and no write  *)
(* a broken pipe: only a signal gets a player out of a read.               *)
(* A card is known by its suit, all that check_win looks at, and a hand by *)
(* how many cards of each suit it has: the position that is given away is  *)
(* random and the card from the left fills the same one.                   *)
(***************************************************************************)
EXTENDS Integers, Sequences, FiniteSets

CONSTANTS N,        \* players (4 .. 7 in the code)
          M,        \* cards in a hand (4 .. 13 in the code)
          Suits,    \* suits of the deck (4 in the code)
          Deals,    \* the possible deals: functions from players to hands
          FirstPid, \* the pid of player 0; the others follow
          MaxInts   \* bound: how often the user presses Ctrl-C

Player == 0 .. N - 1
Parent == N
Process == 0 .. N
Card == 0 .. Suits - 1

HandSize(h) == Cardinality({x \in Card \X (1 .. M) : x[2] <= h[x[1]]})

\* Every player is dealt M cards, and a pid is a positive int (its highest byte is below 128).
ASSUME CardsAssumption == /\ N \in Nat \ {0} /\ M \in Nat \ {0} /\ Suits \in Nat \ {0}
                          /\ Deals \subseteq [Player -> [Card -> 0 .. M]]
                          /\ \A d \in Deals : \A p \in Player : HandSize(d[p]) = M
                          /\ FirstPid \in Nat \ {0} /\ (FirstPid + N) \div 16777216 < 128
                          /\ MaxInts \in Nat

VARIABLES
    ppc,      \* parent: "fork", "deal", "open" (160), "poll" (166), "kill" (178),
              \*   "close" (182), "wait" (249), "done"
    forked,   \* players forked so far
    dealt,    \* players whose hand is in their pipe from the parent
    pc,       \* player: "unborn", "start" (before 213), "hand" (68), "send" (80),
              \*   "check" (91), "toRead" (97), "read" (asleep in 99), "open" (116),
              \*   "asleep" (in 116), "tell" (120), "left", "killed", "failed"
    hand,     \* hand[p][s] : its cards of suit s (meant for p until p has read them)
    ring,     \* ring[p] : cards in the pipe that p reads from
    fifo,     \* encoded pids written to the FIFO and not read
    winner,   \* the pid the parent announced, or 0
    signalled,\* signalled[q] : last_signal is SIGINT or SIGUSR1
    pending,  \* pending[q] : the signals sent to q and not delivered
    dealing,  \* history: the deal the game began with
    ints      \* Ctrl-C pressed so far

parent == <<ppc, forked, dealt, winner>>
cards == <<hand, ring>>
signals == <<signalled, pending, ints>>
vars == <<parent, pc, cards, fifo, signals, dealing>>

Pid(p) == FirstPid + p
\* 256 to the power of the byte's number
Weight == [k \in 0 .. 3 |-> <<1, 256, 65536, 16777216>>[k + 1]]
encode_number(x) == [k \in 0 .. 3 |-> (x \div Weight[k]) % 256]
decode_number(b) == b[0] + b[1] * Weight[1] + b[2] * Weight[2] + b[3] * Weight[3]

Ended == {"left", "killed", "failed"}
Right(p) == (p + 1) % N
Left(p) == (p + N - 1) % N

\* Every card of the hand has the same suit.
check_win(h) == \E s \in Card : h[s] = M

Init == /\ ppc = "fork" /\ forked = 0 /\ dealt = 0 /\ winner = 0
        /\ pc = [p \in Player |-> "unborn"]
        /\ hand \in Deals /\ dealing = hand
        /\ ring = [p \in Player |-> <<>>]
        /\ fifo = <<>>
        /\ signalled = [q \in Process |-> FALSE]
        /\ pending = [q \in Process |-> {}]
        /\ ints = 0

-----------------------------------------------------------------------------
(* Signals                                                                 *)

\* Ctrl-C: SIGINT for the parent and for every player there is.
Interrupt == /\ ints < MaxInts /\ ppc # "done"
             /\ ints' = ints + 1
             /\ pending' = [q \in Process |->
                    IF q = Parent \/ pc[q] \notin Ended \cup {"unborn"}
                    THEN pending[q] \cup {"INT"} ELSE pending[q]]
             /\ UNCHANGED <<parent, pc, cards, fifo, signalled, dealing>>

\* Where a signal leaves a player: SIGUSR1 kills it before its handler is set,
\* a read that sleeps ends with EINTR, an open that sleeps is tried again.
AfterSignal(p, s) == IF pc[p] = "start" /\ s = "USR1" THEN "killed"
                     ELSE IF pc[p] = "read" THEN "left"
                     ELSE IF pc[p] = "asleep" THEN "open"
                     ELSE pc[p]

\* signal_handler of a player.
Deliver(p, s) == /\ s \in pending[p] /\ pc[p] \notin Ended
                 /\ pending' = [pending EXCEPT ![p] = @ \ {s}]
                 /\ signalled' = [signalled EXCEPT ![p] = TRUE]
                 /\ pc' = [pc EXCEPT ![p] = AfterSignal(p, s)]
                 /\ UNCHANGED <<parent, cards, fifo, ints, dealing>>

\* signal_handler of the parent.  SIGINT ends its wait early; it ignores SIGUSR1.
DeliverParent == /\ pending[Parent] # {} /\ ppc # "done"
                 /\ pending' = [pending EXCEPT ![Parent] = {}]
                 /\ signalled' = [signalled EXCEPT ![Parent] = TRUE]
                 /\ ppc' = IF ppc = "wait" THEN "done" ELSE ppc
                 /\ UNCHANGED <<forked, dealt, winner, pc, cards, fifo, ints, dealing>>

-----------------------------------------------------------------------------
(* The parent                                                              *)

\* make_children: a player inherits last_signal from the parent.
Fork == /\ ppc = "fork"
        /\ pc' = [pc EXCEPT ![forked] = "start"]
        /\ signalled' = [signalled EXCEPT ![forked] = signalled[Parent]]
        /\ forked' = forked + 1
        /\ ppc' = IF forked' = N THEN "deal" ELSE "fork"
        /\ UNCHANGED <<dealt, winner, cards, fifo, pending, ints, dealing>>

LastHand == dealt + 1 = N

\* The M cards of the next player.
Deal == /\ ppc = "deal"
        /\ dealt' = dealt + 1
        /\ ppc' = IF LastHand THEN "open" ELSE "deal"
        /\ UNCHANGED <<forked, winner, pc, cards, fifo, signals, dealing>>

\* The FIFO gets its reader: the players asleep in open() go on.
OpenFifo == /\ ppc = "open"
            /\ ppc' = "poll"
            /\ pc' = [p \in Player |-> IF pc[p] = "asleep" THEN "tell" ELSE pc[p]]
            /\ UNCHANGED <<forked, dealt, winner, cards, fifo, signals, dealing>>

\* Mutant: the parent does not test last_signal.
EndOfGameByWinner == fifo # <<>>
EndOfGame == fifo # <<>> \/ signalled[Parent]

\* One round of the polling loop that ends the game (the others change nothing).
Poll == /\ ppc = "poll" /\ EndOfGame
        /\ IF fifo = <<>> THEN UNCHANGED <<fifo, winner>>
           ELSE fifo' = Tail(fifo) /\ winner' = decode_number(Head(fifo))
        /\ ppc' = "kill"
        /\ UNCHANGED <<forked, dealt, pc, cards, signals, dealing>>

\* kill(0, SIGUSR1)
Kill == /\ ppc = "kill"
        /\ ppc' = "close"
        /\ pending' = [q \in Process |-> IF q # Parent /\ pc[q] \notin Ended
                                         THEN pending[q] \cup {"USR1"} ELSE pending[q]]
        /\ UNCHANGED <<forked, dealt, winner, pc, cards, fifo, signalled, ints, dealing>>

CloseFifo == /\ ppc = "close"
             /\ ppc' = "wait"
             /\ UNCHANGED <<forked, dealt, winner, pc, cards, fifo, signals, dealing>>

\* The last wait finds no child; unlink.
Wait == /\ ppc = "wait" /\ \A p \in Player : pc[p] \in Ended
        /\ ppc' = "done"
        /\ UNCHANGED <<forked, dealt, winner, pc, cards, fifo, signals, dealing>>

-----------------------------------------------------------------------------
(* A player                                                                *)

\* The handler of SIGUSR1 is set.
SetHandler(p) == /\ pc[p] = "start"
                 /\ pc' = [pc EXCEPT ![p] = "hand"]
                 /\ UNCHANGED <<parent, cards, fifo, signals, dealing>>

\* The M cards of the parent; a read that a signal interrupts is tried again.
ReadHand(p) == /\ pc[p] = "hand" /\ dealt > p
               /\ pc' = [pc EXCEPT ![p] = "send"]
               /\ UNCHANGED <<parent, cards, fifo, signals, dealing>>

\* Mutant: the card that is passed on stays in the hand.
WithoutNot(h, s) == h
\* The hand without a card of suit s.
Without(h, s) == [h EXCEPT ![s] = @ - 1]

\* A random card goes to the right.
Send(p) == /\ pc[p] = "send"
           /\ \E s \in {t \in Card : hand[p][t] > 0} :
                /\ hand' = [hand EXCEPT ![p] = Without(@, s)]
                /\ ring' = [ring EXCEPT ![Right(p)] = Append(@, s)]
           /\ pc' = [pc EXCEPT ![p] = "check"]
           /\ UNCHANGED <<parent, fifo, signals, dealing>>

LeaveAsked(p) == signalled[p]

\* The test of last_signal.
Check(p) == /\ pc[p] = "check"
            /\ pc' = [pc EXCEPT ![p] = IF LeaveAsked(p) THEN "left" ELSE "toRead"]
            /\ UNCHANGED <<parent, cards, fifo, signals, dealing>>

\* The card from the left, and check_win.
Take(p) == /\ pc[p] \in {"toRead", "read"} /\ ring[p] # <<>>
           /\ hand' = [hand EXCEPT ![p][Head(ring[p])] = @ + 1]
           /\ ring' = [ring EXCEPT ![p] = Tail(@)]
           /\ pc' = [pc EXCEPT ![p] = IF check_win(hand'[p]) THEN "open" ELSE "send"]
           /\ UNCHANGED <<parent, fifo, signals, dealing>>

\* Nothing to read: the player sleeps.
Sleep(p) == /\ pc[p] = "toRead" /\ ring[p] = <<>>
            /\ pc' = [pc EXCEPT ![p] = "read"]
            /\ UNCHANGED <<parent, cards, fifo, signals, dealing>>

FifoHasReader == ppc \in {"poll", "kill", "close"}

\* open: without a reader it sleeps; once the FIFO is unlinked it fails, ERR.
AfterOpen == IF ppc = "done" THEN "failed"
             ELSE IF FifoHasReader THEN "tell" ELSE "asleep"

\* The winner opens the FIFO.
OpenForWrite(p) == /\ pc[p] = "open"
                   /\ pc' = [pc EXCEPT ![p] = AfterOpen]
                   /\ UNCHANGED <<parent, cards, fifo, signals, dealing>>

\* The winner writes its pid; a FIFO closed meanwhile is an error (EPIPE).
Tell(p) == /\ pc[p] = "tell"
           /\ IF FifoHasReader THEN /\ fifo' = Append(fifo, encode_number(Pid(p)))
                                    /\ pc' = [pc EXCEPT ![p] = "left"]
              ELSE pc' = [pc EXCEPT ![p] = "failed"] /\ UNCHANGED fifo
           /\ UNCHANGED <<parent, cards, signals, dealing>>

-----------------------------------------------------------------------------
ParentStep == Fork \/ Deal \/ OpenFifo \/ Poll \/ Kill \/ CloseFifo \/ Wait
PlayerStep(p) == \/ SetHandler(p) \/ ReadHand(p) \/ Send(p) \/ Check(p) \/ Take(p)
                 \/ Sleep(p) \/ OpenForWrite(p) \/ Tell(p)
Delivery(p) == \E s \in {"INT", "USR1"} : Deliver(p, s)

Next == \/ Interrupt
        \/ DeliverParent
        \/ ParentStep
        \/ \E p \in Player : PlayerStep(p) \/ Delivery(p)

Spec == Init /\ [][Next]_vars

\* Every process is scheduled and every signal delivered; nobody has to press Ctrl-C.
FairSpec == /\ Spec
            /\ WF_vars(ParentStep) /\ WF_vars(DeliverParent)
            /\ \A p \in Player : WF_vars(PlayerStep(p)) /\ WF_vars(Delivery(p))

-----------------------------------------------------------------------------
(* Every variable stays within its type; no ring pipe ever holds more than *)
(* one card per player, so the writes of line 80 never block.              *)
TypeOK == /\ ppc \in {"fork", "deal", "open", "poll", "kill", "close", "wait", "done"}
          /\ forked \in 0 .. N /\ dealt \in 0 .. N
          /\ winner = 0 \/ \E p \in Player : winner = Pid(p)
          /\ pc \in [Player -> {"unborn", "start", "hand", "send", "check", "toRead",
                                "read", "open", "asleep", "tell"} \cup Ended]
          /\ hand \in [Player -> [Card -> 0 .. M]]
          /\ ring \in [Player -> Seq(Card)] /\ \A p \in Player : Len(ring[p]) <= N
          /\ fifo \in Seq([0 .. 3 -> 0 .. 255]) /\ Len(fifo) <= N
          /\ signalled \in [Process -> BOOLEAN]
          /\ pending \in [Process -> SUBSET {"INT", "USR1"}]
          /\ dealing \in Deals
          /\ ints \in 0 .. MaxInts

\* The cards of suit s in the hands of h and in the ring pipes, each as a place.
InHands(h, s) == {x \in Player \X (1 .. M) : x[2] <= h[x[1]][s]}
InRing(s) == {x \in Player \X (1 .. N) : x[2] <= Len(ring[x[1]]) /\ ring[x[1]][x[2]] = s}

(* No card is lost or doubled by the exchange of lines 78-110, at whatever *)
(* point the players are and however they left: the hands and the ring     *)
(* pipes hold together the cards of the deal.                              *)
CardsConserved ==
    /\ TypeOK
    /\ \A s \in Card : Cardinality(InHands(hand, s)) + Cardinality(InRing(s))
                       = Cardinality(InHands(dealing, s))

\* A player that the one SIGUSR1 did not get out: it came after the test of
\* line 91 and before the read of line 99, whose writer has gone; or the player
\* won after the parent closed the FIFO and sleeps in open() since before the
\* FIFO was unlinked.
Stranded(p) == \/ /\ ppc \in {"close", "wait", "done"}
                  /\ pc[p] = "read" /\ signalled[p] /\ pending[p] = {}
                  /\ ring[p] = <<>> /\ pc[Left(p)] \in Ended
               \/ pc[p] = "asleep" /\ ppc \in {"wait", "done"}

(* Once a player has written its pid to the FIFO or the parent has caught  *)
(* SIGINT (lines 166-180), every player ends and the parent too, unless a  *)
(* player is stranded in one of the two ways above: no other order of      *)
(* signals, cards and exits keeps the game from ending.                    *)
EndsUnlessStranded ==
    fifo # <<>> \/ signalled[Parent]
      ~> \/ ppc = "done" /\ \A p \in Player : pc[p] \in Ended
         \/ \E p \in Player : Stranded(p)
=============================================================================
