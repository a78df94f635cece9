\* A child whose start was overwritten stays in sigsuspend: the program stops.
CHECK_DEADLOCK FALSE
SPECIFICATION LabSpec
CONSTANTS N = 3  File <- Text  MaxInts = 1  Nodes = 2
INVARIANTS OutputsExact ChildrenFollow
PROPERTY ConversionEnds
