\* The programs end or wait for their user.
CHECK_DEADLOCK FALSE
SPECIFICATION LabSpec
CONSTANTS Workers = {w1}
          Letters <- ThreeFiles
          CIRC_BUF_SIZE = 3
          Chars = {"x"}  MaxLen = 2  MaxLineNo = 2
          Envs = {"e1"}  Pkgs = {"p"}  Version = "1"  MaxKills = 0
INVARIANT DeletesNthLine
