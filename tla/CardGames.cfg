\* A stranded player, or one left at the barrier, stops the game.
CHECK_DEADLOCK FALSE
SPECIFICATION LabSpec
CONSTANTS Games = {"cards", "sop-mss"}
          N = 2  M = 4  Suits = 2  MaxInts = 1  FirstPid = 70000
          Threads = 3  HAND_SIZE = 2  ThreadSuits = 2  MaxTurns = 2
CONSTANTS Deals <- EvenDeal  ThreadDeals <- TwoDeals
INVARIANTS CardsConserved WinnerHasOneSuit
PROPERTIES CardGameEnds EveryoneStarts ClaimedGameEnds
