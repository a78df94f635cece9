SPECIFICATION FairSpec
CONSTANTS
    c1 = c1  c2 = c2  c3 = c3
    Clients = {c1}
    Chunks <- OneLong
    MaxAddr = 2
    MaxSends = 3
    Faults = {"loss", "dup", "late"}
    NoAddr = NoAddr
INVARIANT ConfirmedIsPrinted
PROPERTIES PrintedInOrder ClientEnds TransferSpec
