---------------------------- MODULE BoundedFifo ----------------------------
(***************************************************************************)
(* The abstract bounded buffer behind the ring buffer of prod_cons.c and   *)
(* the circular buffer of sop1/lab03/prelab/prelab.c: the numbers          *)
(* 0 .. Total-1 pass through a queue of at most Capacity elements, in      *)
(* order, each exactly once.                                               *)
(***************************************************************************)
EXTENDS Naturals, Sequences

CONSTANTS Capacity, Total

VARIABLES queue,   \* the elements stored, oldest first
          put,     \* elements stored so far
          taken    \* the elements removed, oldest first

fvars == <<queue, put, taken>>

FInit == queue = <<>> /\ put = 0 /\ taken = <<>>

Put == /\ put < Total
       /\ Len(queue) < Capacity
       /\ queue' = Append(queue, put)
       /\ put' = put + 1
       /\ UNCHANGED taken

Get == /\ queue # <<>>
       /\ taken' = Append(taken, Head(queue))
       /\ queue' = Tail(queue)
       /\ UNCHANGED put

FSpec == FInit /\ [][Put \/ Get]_fvars
=============================================================================
