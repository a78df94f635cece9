--------------------------- MODULE MCUdpTransfer ---------------------------
(* Instances of UdpTransfer for TLC.                                       *)
EXTENDS UdpTransfer, TLC

CONSTANTS c1, c2, c3

\* One client with a file of three chunks.
OneLong == c1 :> 3
\* More clients than the server has slots.
Crowd == c1 :> 2 @@ c2 :> 2 @@ c3 :> 1
SameFiles == Permutations({c1, c2})
=============================================================================
