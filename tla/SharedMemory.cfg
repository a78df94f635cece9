\* The processes end; after a death with the semaphore the others wait for ever.
CHECK_DEADLOCK FALSE
SPECIFICATION LabSpec
CONSTANTS Procs = {p, q, r}  BATCHES = 2  MaxFaults = 1
          ITERATIONS = 6  DEATH = 3
INVARIANT SharedStateSound
PROPERTIES ProcessesEnd CountSurvives
CONSTRAINT UntilOverlap
