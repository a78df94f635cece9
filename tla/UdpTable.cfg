SPECIFICATION Spec
CONSTANTS
    c1 = c1  c2 = c2  c3 = c3
    Clients = {c1, c2, c3}
    Chunks <- Crowd
    MaxAddr = 2
    MaxSends = 2
    Faults = {"late"}
    NoAddr = NoAddr
SYMMETRY SameFiles
INVARIANTS UniqueSlots OpenSlots
