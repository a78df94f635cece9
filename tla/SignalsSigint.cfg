\* A child whose start was overwritten stays in sigsuspend: the program stops.
CHECK_DEADLOCK FALSE
SPECIFICATION LabSpec
CONSTANTS N = 1  File <- Text  MaxInts = 1  Nodes = 1
PROPERTY SigintEnds
