------------------------------- MODULE SopL2 -------------------------------
(***************************************************************************)
(* The parallel text converter of sop1/lab02/prelab/workshop (sop-l2.c).   *)
(* The parent cuts the file into chunks, forks one child per chunk, starts *)
(* them all with SIGUSR1 and waits for them; SIGINT stops the work.        *)
(* Process 0 is the parent.  A signal is pending until its receiver takes  *)
(* it; every handler run, every test of last_signal and every written      *)
(* character is a step of its own.                                         *)
(***************************************************************************)
EXTENDS Integers, Sequences, FiniteSets

CONSTANTS N,         \* child processes (0 < n < 10)
          File,      \* the text: a sequence of "A" (upper case), "a" (lower
                     \*   case) and "-" (no letter)
          MaxInts    \* bound: SIGINTs the user sends

ASSUME SopL2Assumption == /\ N \in 1 .. 9 /\ MaxInts \in Nat
                          /\ File \in Seq({"A", "a", "-"})

VARIABLES
    ppc,      \* parent: "fork", "wait", "exited", "killed"
    forked,   \* children forked so far
    moved,    \* moved_already
    disp,     \* disp[p] : action of SIGINT in process p: "resend"
              \*   (sigint_handler_parent), "note" (sig_handler), "ignore"
    pend,     \* pend[p] : signals sent to p and not yet taken
    cpc,      \* child: "unborn", "new" (before its handlers are set), "test"
              \*   (of last_signal), "call" (about to call sigsuspend),
              \*   "suspend" (in it), "work", "done", "killed"
    last,     \* last[i] : last_signal of child i
    chunk,    \* chunk[i] : where the chunk of child i begins, and its length
    change,   \* change[i] : the alternation flag of child i
    out,      \* out[i] : the file written by child i
    ints,     \* SIGINTs the user sent
    noted     \* history: what child i had written when it took SIGINT at
              \*   work, -1 before

parent == <<ppc, forked, moved>>
work == <<chunk, change, out>>
vars == <<parent, disp, pend, cpc, last, work, ints, noted>>

Children == 1 .. N
Procs == 0 .. N
Alive(p) == IF p = 0 THEN ppc \in {"fork", "wait"}
                     ELSE cpc[p] \notin {"unborn", "done", "killed"}
Ended(i) == cpc[i] \in {"done", "killed"}

\* The handler of SIGINT is set, SIGUSR1 is blocked and f has been read.
Init == /\ ppc = "fork" /\ forked = 0 /\ moved = 0
        /\ disp = [p \in Procs |-> "resend"]
        /\ pend = [p \in Procs |-> {}]
        /\ cpc = [i \in Children |-> "unborn"]
        /\ last = [i \in Children |-> "none"]
        /\ chunk = [i \in Children |-> [from |-> 0, size |-> 0]]
        /\ change = [i \in Children |-> TRUE]
        /\ out = [i \in Children |-> <<>>]
        /\ ints = 0
        /\ noted = [i \in Children |-> -1]

-----------------------------------------------------------------------------
(* Signals.                                                                *)

\* pend once sig was sent to the processes of P (a dead one or one that
\* ignores it does not keep it).
Sent(pending, sig, P) ==
    [p \in Procs |-> IF p \in P /\ Alive(p) /\ (sig = "INT" => disp[p] # "ignore")
                       THEN pending[p] \cup {sig} ELSE pending[p]]
Taken(p, sig) == [pend EXCEPT ![p] = @ \ {sig}]

\* Ctrl-C for the whole group, or SIGINT for one process.
Interrupt == /\ ints < MaxInts /\ ints' = ints + 1
             /\ \E P \in {Procs} \cup {{p} : p \in Procs} :
                   /\ \E p \in P : Alive(p)
                   /\ pend' = Sent(pend, "INT", P)
             /\ UNCHANGED <<parent, disp, cpc, last, work, noted>>

(* sigint_handler_parent, in the parent or in a child that has not set its *)
(* handlers yet: SIGINT is ignored from now on and sent to the group.      *)
(* There is no SA_RESTART: wait fails with EINTR if it is interrupted, and *)
(* then the parent does not wait any longer.                               *)
Resend(p) == /\ Alive(p) /\ "INT" \in pend[p] /\ disp[p] = "resend"
             /\ disp' = [disp EXCEPT ![p] = "ignore"]
             /\ pend' = Sent(Taken(p, "INT"), "INT", Procs \ {p})
             /\ ppc' \in IF p = 0 /\ ppc = "wait" THEN {"wait", "exited"} ELSE {ppc}
             /\ UNCHANGED <<forked, moved, cpc, last, work, ints, noted>>

\* sig_handler: last_signal is overwritten and sigsuspend returns.
Note(i, sig) ==
    /\ last' = [last EXCEPT ![i] = sig]
    /\ pend' = Taken(i, sig)
    /\ cpc' = [cpc EXCEPT ![i] = IF @ = "suspend" THEN "test" ELSE @]
    /\ noted' = IF sig = "INT" /\ cpc[i] = "work" /\ noted[i] = -1
                  THEN [noted EXCEPT ![i] = Len(out[i])] ELSE noted
    /\ UNCHANGED <<parent, disp, work, ints>>

TakeInt(i) == /\ Alive(i) /\ "INT" \in pend[i] /\ disp[i] = "note"
              /\ Note(i, "INT")

\* Mutant: sigsuspend is given the mask that blocks SIGUSR1.
Usr1OpenNever(i) == FALSE
\* SIGUSR1 is blocked (inherited from the parent) except in sigsuspend.
Usr1Open(i) == cpc[i] = "suspend"

TakeUsr1(i) == /\ "USR1" \in pend[i] /\ Usr1Open(i)
               /\ Note(i, "USR1")

-----------------------------------------------------------------------------
(* The parent.                                                             *)

per_child == (Len(File) + N - 1) \div N
\* Mutant: per_child rounded down.
ChunkSizeDown == Len(File) \div N
ChunkSize == IF Len(File) - moved >= per_child THEN per_child ELSE Len(File) - moved

\* One turn of the loop of create_children; the child inherits the action.
Fork == /\ ppc = "fork" /\ forked < N
        /\ forked' = forked + 1
        /\ chunk' = [chunk EXCEPT ![forked'] = [from |-> moved, size |-> ChunkSize]]
        /\ moved' = moved + ChunkSize
        /\ cpc' = [cpc EXCEPT ![forked'] = "new"]
        /\ disp' = [disp EXCEPT ![forked'] = disp[0]]
        /\ UNCHANGED <<ppc, pend, last, change, out, ints, noted>>

\* kill(0, SIGUSR1): the parent keeps its own blocked for ever.
Start == /\ ppc = "fork" /\ forked = N
         /\ ppc' = "wait"
         /\ pend' = Sent(pend, "USR1", Children)
         /\ UNCHANGED <<forked, moved, disp, cpc, last, work, ints, noted>>

\* wait has returned every child and now fails with ECHILD.
ParentExit == /\ ppc = "wait" /\ \A i \in Children : Ended(i)
              /\ ppc' = "exited"
              /\ UNCHANGED <<forked, moved, disp, pend, cpc, last, work, ints, noted>>

-----------------------------------------------------------------------------
(* child_work                                                              *)

SetHandlers(i) == /\ cpc[i] = "new"
                  /\ disp' = [disp EXCEPT ![i] = "note"]
                  /\ cpc' = [cpc EXCEPT ![i] = "test"]
                  /\ UNCHANGED <<parent, pend, last, work, ints, noted>>

\* while (last_signal != SIGUSR1) sigsuspend; then the file is opened.
Test(i) == /\ cpc[i] = "test"
           /\ cpc' = [cpc EXCEPT ![i] = IF last[i] = "USR1" THEN "work" ELSE "call"]
           /\ UNCHANGED <<parent, disp, pend, last, work, ints, noted>>

Suspend(i) == /\ cpc[i] = "call"
              /\ cpc' = [cpc EXCEPT ![i] = "suspend"]
              /\ UNCHANGED <<parent, disp, pend, last, work, ints, noted>>

Flip(c) == IF c = "A" THEN "a" ELSE IF c = "a" THEN "A" ELSE c

AfterWrite(i) == IF last[i] = "INT" THEN "done" ELSE "work"

\* One turn of the loop: convert, sleep to the end, write, test last_signal.
Write(i) ==
    /\ cpc[i] = "work" /\ Len(out[i]) < chunk[i].size
    /\ LET c == File[chunk[i].from + Len(out[i]) + 1]
       IN /\ out' = [out EXCEPT ![i] = Append(@, IF change[i] THEN Flip(c) ELSE c)]
          /\ change' = [change EXCEPT ![i] = IF c = "-" THEN @ ELSE ~@]
    /\ cpc' = [cpc EXCEPT ![i] = AfterWrite(i)]
    /\ UNCHANGED <<parent, disp, pend, last, chunk, ints, noted>>

Finish(i) == /\ cpc[i] = "work" /\ Len(out[i]) = chunk[i].size
             /\ cpc' = [cpc EXCEPT ![i] = "done"]
             /\ UNCHANGED <<parent, disp, pend, last, work, ints, noted>>

(* fork fails in the parent, or open or write in a child: ERR kills the    *)
(* whole process group.                                                    *)
Err == /\ \/ ppc = "fork" /\ forked < N
          \/ \E i \in Children : cpc[i] = "work"
       /\ ppc' = IF Alive(0) THEN "killed" ELSE ppc
       /\ cpc' = [i \in Children |-> IF Alive(i) THEN "killed" ELSE cpc[i]]
       /\ UNCHANGED <<forked, moved, disp, pend, last, work, ints, noted>>

ParentStep == Fork \/ Start \/ ParentExit
ChildStep(i) == SetHandlers(i) \/ Test(i) \/ Suspend(i) \/ Write(i) \/ Finish(i)
Delivery(p) == Resend(p) \/ (p # 0 /\ (TakeInt(p) \/ TakeUsr1(p)))

Next == \/ Interrupt \/ Err \/ ParentStep
        \/ \E i \in Children : ChildStep(i)
        \/ \E p \in Procs : Delivery(p)

(* Every process runs and a signal that is not blocked is delivered.       *)
Fairness == /\ WF_vars(ParentStep)
            /\ \A i \in Children : WF_vars(ChildStep(i))
            /\ \A p \in Procs : WF_vars(Delivery(p))

Spec == Init /\ [][Next]_vars
FairSpec == Spec /\ Fairness

-----------------------------------------------------------------------------
(* Properties.                                                             *)

\* Every variable has its type; a chunk lies within the file.
TypeOK == /\ ppc \in {"fork", "wait", "exited", "killed"}
          /\ forked \in 0 .. N /\ moved \in 0 .. Len(File)
          /\ disp \in [Procs -> {"resend", "note", "ignore"}]
          /\ pend \in [Procs -> SUBSET {"INT", "USR1"}]
          /\ cpc \in [Children -> {"unborn", "new", "test", "call", "suspend",
                                   "work", "done", "killed"}]
          /\ last \in [Children -> {"none", "INT", "USR1"}]
          /\ chunk \in [Children -> [from : 0 .. Len(File), size : 0 .. Len(File)]]
          /\ change \in [Children -> BOOLEAN]
          /\ \A i \in Children : out[i] \in Seq({"A", "a", "-"})
          /\ ints \in 0 .. MaxInts
          /\ noted \in [Children -> -1 .. Len(File)]

\* Reference: every second letter of the chunk, from the first, is flipped.
Converted(i, k) ==
    LET before == {j \in 1 .. k - 1 : File[chunk[i].from + j] # "-"}
        c == File[chunk[i].from + k]
    IN IF Cardinality(before) % 2 = 0 THEN Flip(c) ELSE c

(* Whatever a child has written is the conversion of the beginning of its  *)
(* chunk, and when all children have ended without SIGINT or an error      *)
(* every character of the file was written by exactly one of them.  A      *)
(* child that takes SIGINT at work adds at most the character it has       *)
(* converted already, however often it is signalled.                       *)
OutputsExact ==
    /\ TypeOK
    /\ \A i \in Children : \A k \in 1 .. Len(out[i]) : out[i][k] = Converted(i, k)
    /\ ints = 0 /\ (\A i \in Children : cpc[i] = "done") =>
         \A k \in 1 .. Len(File) :
            Cardinality({i \in Children : k - chunk[i].from \in 1 .. Len(out[i])}) = 1
    /\ \A i \in Children : noted[i] # -1 => Len(out[i]) <= noted[i] + 1

\* SIGUSR1 was taken, but SIGINT has overwritten it in last_signal.
Overwritten(i) == cpc[i] = "suspend" /\ last[i] = "INT" /\ ppc # "fork"
                  /\ "USR1" \notin pend[i]

(* Every child ends, unless SIGINT was taken after SIGUSR1 and before the  *)
(* test of last_signal: then the start is forgotten and the child stays in *)
(* sigsuspend.  The start itself is never lost.                            *)
EndsUnlessOverwritten == \A i \in Children : <>(Ended(i) \/ Overwritten(i) \/ ppc = "killed")

(* sop-l2.txt, line 32, says of a child that receives SIGINT that it       *)
(* closes what it has open and ends.  A child overwritten as above took    *)
(* SIGINT and does not.                                                    *)
EndsOnSigint ==
    \A i \in Children : last[i] = "INT" ~> (Ended(i) \/ ppc = "killed")
=============================================================================
