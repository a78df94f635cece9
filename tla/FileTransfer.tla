---------------------------- MODULE FileTransfer ----------------------------
(***************************************************************************)
(* What the udp_test programs promise a user: each client's file is        *)
(* printed by the server chunk by chunk, without gaps, and a client that   *)
(* ends normally has had its whole file printed.  A client may also give   *)
(* up, at any point and whatever the server has printed.  Slots, retries,  *)
(* timers and the network do not exist at this level.                      *)
(***************************************************************************)
EXTENDS Naturals

CONSTANTS Clients,   \* the client processes (one socket address each)
          Chunks     \* Chunks[c] : number of chunks of the file c sends

VARIABLES got,       \* got[c] : length of the prefix of c's file printed so far
          outcome    \* outcome[c] : how c's doClient ended, if it has

avars == <<got, outcome>>

AInit == /\ got = [c \in Clients |-> 0]
         /\ outcome = [c \in Clients |-> "running"]

\* The server prints the next chunk of c, possibly after c has given up.
Deliver(c) == /\ got[c] < Chunks[c]
              /\ got' = [got EXCEPT ![c] = @ + 1]
              /\ UNCHANGED outcome

\* c ends normally: it has proof that its whole file was printed.
Succeed(c) == /\ outcome[c] = "running"
              /\ got[c] = Chunks[c]
              /\ outcome' = [outcome EXCEPT ![c] = "done"]
              /\ UNCHANGED got

\* c ends without an answer to one of its chunks.
GiveUp(c) == /\ outcome[c] = "running"
             /\ outcome' = [outcome EXCEPT ![c] = "gaveup"]
             /\ UNCHANGED got

ANext == \E c \in Clients : Deliver(c) \/ Succeed(c) \/ GiveUp(c)

ASpec == AInit /\ [][ANext]_avars
=============================================================================
