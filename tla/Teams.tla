------------------------------- MODULE Teams -------------------------------
(***************************************************************************)
(* The two teams of sop2/lab01/prelab.  Every player is a process; a pipe  *)
(* leads from each player to each one of the other team.  In its k-th      *)
(* round a player writes its data to one of them and then reads the data   *)
(* of one: with full pipes never in the way, only the order in which the   *)
(* players read could make them wait for each other in a circle.           *)
(***************************************************************************)
EXTENDS Naturals, Sequences

CONSTANT n   \* players of a team; both teams have the same number

VARIABLES
    forked,   \* players forked so far
    pc,       \* pc[p] : "unborn", "write", "read", "exited"
    round,    \* round[p] : the loop variable i of child_work
    pipe,     \* pipe[<<i, j, k>>] : what is in the pipe of read_fds[i][j][k]
    other     \* other[p] : the players whose data p has read, in this order

vars == <<forked, pc, round, pipe, other>>

Index == 0 .. n - 1
Players == {0, 1} \X Index
Pipes == {0, 1} \X Index \X Index

Init == /\ forked = 0
        /\ pc = [p \in Players |-> "unborn"]
        /\ round = [p \in Players |-> 0]
        /\ pipe = [f \in Pipes |-> <<>>]
        /\ other = [p \in Players |-> <<>>]

read_fds(p, k) == <<p[1], p[2], k>>
\* Mutant: the indices of write_fds are not exchanged.
write_fdsStraight(p, k) == <<1 - p[1], p[2], k>>
\* write_fds[i ^ 1][k][j] is the other end of read_fds[i][j][k].
write_fds(p, k) == <<1 - p[1], k, p[2]>>

\* The forks, team by team; main does not wait for the players.
Fork == /\ forked < 2 * n
        /\ pc' = [pc EXCEPT ![<<forked \div n, forked % n>>] = "write"]
        /\ forked' = forked + 1
        /\ UNCHANGED <<round, pipe, other>>

\* write: a pipe holds far more than the one record it ever gets.
Write(p) == /\ pc[p] = "write" /\ round[p] < n
            /\ pipe' = [pipe EXCEPT ![write_fds(p, round[p])] = Append(@, p)]
            /\ pc' = [pc EXCEPT ![p] = "read"]
            /\ UNCHANGED <<forked, round, other>>

\* read blocks: every process keeps all ends open, so there is no end of file.
Read(p) == LET f == read_fds(p, round[p]) IN
           /\ pc[p] = "read" /\ pipe[f] # <<>>
           /\ other' = [other EXCEPT ![p] = Append(@, Head(pipe[f]))]
           /\ pipe' = [pipe EXCEPT ![f] = Tail(@)]
           /\ round' = [round EXCEPT ![p] = @ + 1]
           /\ pc' = [pc EXCEPT ![p] = "write"]
           /\ UNCHANGED forked

Exit(p) == /\ pc[p] = "write" /\ round[p] = n
           /\ pc' = [pc EXCEPT ![p] = "exited"]
           /\ UNCHANGED <<forked, round, pipe, other>>

PlayerStep(p) == Write(p) \/ Read(p) \/ Exit(p)
Next == Fork \/ \E p \in Players : PlayerStep(p)

\* Every process runs when it can.
Fairness == WF_vars(Fork) /\ \A p \in Players : WF_vars(PlayerStep(p))

Spec == Init /\ [][Next]_vars
FairSpec == Spec /\ Fairness

-----------------------------------------------------------------------------
(* Properties.                                                             *)

(* Everyone meets everyone: no circle of readers ever forms, all players   *)
(* leave, each having read the data of the players of the other team once  *)
(* each and in their order.                                                *)
EveryoneMeets ==
    <>\A p \in Players : /\ pc[p] = "exited"
                         /\ other[p] = [k \in 1 .. n |-> <<1 - p[1], k - 1>>]
=============================================================================
