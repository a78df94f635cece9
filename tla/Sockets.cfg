\* A silent client keeps the calculator for ever.
CHECK_DEADLOCK FALSE
SPECIFICATION LabSpec
CONSTANTS Clients = {a, b}
          MAX_EVENTS = 2  N_CANDIDATES = 1
          Bytes = {1, 2}
          MaxUnread = 1
          CalcClients = {u, t}  Locals = {u}  Half = 2
CONSTANT Requests <- EdgeRequests
INVARIANTS ElectorsAuthentic AnswersOwnRequest
PROPERTIES VotesAuthentic ElectionEnds ServedUnlessStalled
