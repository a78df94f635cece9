\* The programs end or wait for their user.
CHECK_DEADLOCK FALSE
SPECIFICATION LabSpec
CONSTANTS Workers = {w1, w2, w3}
          Letters <- ThreeFiles
          CIRC_BUF_SIZE = 3
          Chars = {"x"}  MaxLen = 4  MaxLineNo = 4
          Envs = {"e1", "e2"}  Pkgs = {"p", "q"}  Version = "1"  MaxKills = 1
INVARIANTS CountsComplete EditsLines RequirementsSound
PROPERTIES FifoSpec EndsUnlessOvertaken
