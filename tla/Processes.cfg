\* A program that has ended does nothing more, nor does a child that ignored SIGTERM.
CHECK_DEADLOCK FALSE
SPECIFICATION LabSpec
CONSTANTS TeamSize = 3  Kids = 3
          BUFFER_SIZE = 3  ITERATIONS = 8  MaxSpurious = 3
          Bingos = 3  LIFESPAN = 2  BINGO_MSG_COUNT = 2
INVARIANTS NoLostWakeup ReportsComplete
PROPERTIES FifoSpec EverythingConsumed EveryoneMeets Closes BingoEnds
