CHECK_DEADLOCK FALSE
SPECIFICATION LabSpec
CONSTANTS Games = {"sop-mss"}
          N = 2  M = 4  Suits = 2  MaxInts = 1  FirstPid = 70000
          Threads = 3  HAND_SIZE = 2  ThreadSuits = 2  MaxTurns = 3
CONSTANTS Deals <- EvenDeal  ThreadDeals <- OneDeal
INVARIANT NoCardTwice
