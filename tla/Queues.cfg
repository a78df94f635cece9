\* A sentence too long for the ring blocks the telephone game.
CHECK_DEADLOCK FALSE
SPECIFICATION LabSpec
CONSTANTS N = 3  N_TASKS = 2  MAX_MSG_COUNT = 2
          Players = 3  MQ_MSG_COUNT = 2  MaxWords = 12
          CHILD_COUNT = 3  FORUM_MSG_COUNT = 2  ROUNDS = 2
INVARIANTS NoLostNotification WaitsForAll NothingForgotten
PROPERTIES ServerStops GameEnds RingSpec
