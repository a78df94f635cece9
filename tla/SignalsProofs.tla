--------------------------- MODULE SignalsProofs ---------------------------
(***************************************************************************)
(* Proofs about the programs of MCSignals, in their composition: for any   *)
(* number of children, those of the cluster follow their parent; for any   *)
(* text, the outputs of the converters are exact.                          *)
(***************************************************************************)
EXTENDS MCSignals, FiniteSetTheorems, TLAPS

-----------------------------------------------------------------------------
(* Cluster.                                                                *)

Signals == {"USR1", "USR2"}

NodePc == {"unborn", "born", "half", "test", "suspend", "asleep", "count", "dead"}

\* The types that the argument needs.
ClusterTypes == /\ nodes \in Nat
                /\ nodepc \in [Cl!Children -> NodePc]
                /\ npending \in [Cl!Children -> SUBSET Signals]
                /\ child_running \in [Cl!Children -> BOOLEAN]
                /\ garbled \subseteq Cl!Children /\ missed \subseteq Cl!Children

\* A child that is still to be forked has not died.
Unborn == \A c \in Cl!Children : c >= nodes => nodepc[c] = "unborn"

(* ChildrenFollow for one child.  Two signals are pending only after kill, *)
(* and a child whose flag is set has its handler of SIGUSR1 and did not    *)
(* test the flag when it went to sleep; one that took SIGUSR2 before its   *)
(* handlers is dead.                                                       *)
Follows(c) == nodepc[c] # "dead" =>
                 /\ npending[c] = {} => child_running[c] = Cl!Told(c)
                 /\ npending[c] = {"USR1"} => Cl!Told(c)
                 /\ npending[c] = {"USR2"} => ~Cl!Told(c)
                 /\ npending[c] = Signals => c \notin garbled
                 /\ nodepc[c] \in {"unborn", "born"} =>
                       ~child_running[c] /\ (c \in garbled => Cl!MyTurn(c))
                 /\ child_running[c] /\ c \notin missed =>
                       nodepc[c] \in {"half", "test", "count"}

ClusterInv == ClusterTypes /\ Unborn /\ \A c \in Cl!Children : Follows(c)

LEMMA ClusterInit == ASSUME Cl!Init PROVE ClusterInv
  <1>1. ClusterTypes /\ Unborn
    BY DEF Cl!Init, ClusterTypes, Unborn, NodePc, Signals
  <1>2. ASSUME NEW c \in Cl!Children PROVE Follows(c)
    <2>1. ~Cl!Told(c)
      BY DEF Cl!Init, Cl!MyTurn, Cl!Told
    <2>2. Cl!Told(c) = FALSE
      BY <2>1 DEF Cl!Told
    <2>3. npending[c] = {} /\ child_running[c] = FALSE /\ c \notin garbled
      BY DEF Cl!Init
    <2> QED BY <2>2, <2>3 DEF Follows, Signals
  <1> QED BY <1>1, <1>2 DEF ClusterInv

\* No turn begins while main forks.
LEMMA ClusterFork == ASSUME Nodes \in Nat, ClusterInv, Cl!Fork PROVE ClusterInv'
  <1>1. ClusterTypes' /\ Unborn'
    BY DEF Cl!Fork, ClusterInv, ClusterTypes, Unborn, NodePc, Cl!Children
  <1>2. ASSUME NEW c \in Cl!Children PROVE Follows(c)'
    <2>1. c = nodes => nodepc[c] = "unborn"
      BY DEF Cl!Fork, ClusterInv, Unborn, ClusterTypes
    <2>2. /\ nodepc[c] = "dead" <=> nodepc'[c] = "dead"
          /\ nodepc[c] # "unborn" => nodepc'[c] = nodepc[c]
      BY <2>1 DEF Cl!Fork, ClusterInv, ClusterTypes
    <2>3. Cl!MyTurn(c) = FALSE /\ Cl!MyTurn(c)' = FALSE
      BY DEF Cl!Fork, Cl!MyTurn
    <2>4. Cl!Told(c)' = Cl!Told(c)
      BY <2>3 DEF Cl!Fork, Cl!Told
    <2>5. UNCHANGED <<npending, child_running, garbled, missed>>
      BY DEF Cl!Fork
    <2> QED BY <1>2, <2>1, <2>2, <2>3, <2>4, <2>5 DEF ClusterInv, Follows
  <1> QED BY <1>1, <1>2 DEF ClusterInv

\* main sends SIGUSR1 to the child whose turn begins.
LEMMA ClusterStart == ASSUME ClusterInv, Cl!Start PROVE ClusterInv'
  <1>1. ClusterTypes' /\ Unborn'
    BY DEF Cl!Start, Cl!Kill, ClusterInv, ClusterTypes, Unborn, Signals
  <1>2. ASSUME NEW c \in Cl!Children PROVE Follows(c)'
    BY DEF Cl!Start, Cl!Kill, ClusterInv, ClusterTypes, Follows, Cl!Told, Cl!MyTurn,
           Signals
  <1> QED BY <1>1, <1>2 DEF ClusterInv

\* main sends SIGUSR2 to the child whose turn ends.
LEMMA ClusterHalt == ASSUME ClusterInv, Cl!Halt PROVE ClusterInv'
  <1>1. ClusterTypes' /\ Unborn'
    BY DEF Cl!Halt, Cl!Halted, Cl!Kill, ClusterInv, ClusterTypes, Unborn, Signals
  <1>2. ASSUME NEW c \in Cl!Children PROVE Follows(c)'
    BY DEF Cl!Halt, Cl!Halted, Cl!Kill, ClusterInv, ClusterTypes, Follows, Cl!Told, Cl!MyTurn,
           Signals
  <1> QED BY <1>1, <1>2 DEF ClusterInv

\* While main waits for a request the turn does not change.
LEMMA ClusterWait ==
    ASSUME ClusterInv, Cl!Clear \/ Cl!Test \/ Cl!Suspend \/ Cl!ParentSignal \/ Cl!Ask
    PROVE  ClusterInv'
  <1>1. UNCHANGED <<nodes, turn, nodepc, npending, child_running, garbled, missed>>
    BY DEF Cl!Clear, Cl!Test, Cl!Suspend, Cl!ParentSignal, Cl!Ask, Cl!children
  <1>2. ClusterTypes' /\ Unborn'
    BY <1>1 DEF ClusterInv, ClusterTypes, Unborn
  <1>3. ASSUME NEW c \in Cl!Children PROVE Follows(c)'
    <2>1. Cl!MyTurn(c)' <=> Cl!MyTurn(c)
      BY <1>1 DEF Cl!Clear, Cl!Test, Cl!Suspend, Cl!ParentSignal, Cl!Ask, Cl!MyTurn
    <2>2. Cl!MyTurn(c)' = Cl!MyTurn(c)
      BY <2>1 DEF Cl!MyTurn
    <2> QED BY <1>1, <1>3, <2>2 DEF ClusterInv, Follows, Cl!Told
  <1> QED BY <1>2, <1>3 DEF ClusterInv

\* A child that goes on in its loops takes no signal.
LEMMA ClusterLoop ==
    ASSUME ClusterInv, NEW d \in Cl!Children,
           Cl!SetHandler(d) \/ Cl!ChildTest(d) \/ Cl!ChildSuspend(d) \/ Cl!Count(d)
    PROVE  ClusterInv'
  <1>1. /\ nodepc[d] \notin {"unborn", "dead"}
        /\ \E pc \in NodePc \ {"unborn", "dead"} : Cl!Go(d, pc)
    BY DEF Cl!SetHandler, Cl!ChildTest, Cl!ChildSuspend, Cl!Count, NodePc
  <1>2. PICK pc \in NodePc \ {"unborn", "dead"} : Cl!Go(d, pc)
    BY <1>1
  <1>3. ClusterTypes' /\ Unborn'
    BY <1>1, <1>2 DEF Cl!Go, Cl!main, ClusterInv, ClusterTypes, Unborn
  <1>5. ASSUME NEW c \in Cl!Children
        PROVE  /\ nodepc[c] = "dead" <=> nodepc'[c] = "dead"
               /\ nodepc[c] \notin {"unborn", "born"} => nodepc'[c] \notin {"unborn", "born"}
               /\ child_running[c] /\ nodepc[c] \in {"half", "test", "count"} =>
                     nodepc'[c] \in {"half", "test", "count"}
    BY <1>5 DEF Cl!SetHandler, Cl!ChildTest, Cl!ChildSuspend, Cl!Count, Cl!Go,
                ClusterInv, ClusterTypes
  <1>4. ASSUME NEW c \in Cl!Children PROVE Follows(c)'
    <2>1. /\ nodepc[c] = "dead" <=> nodepc'[c] = "dead"
          /\ nodepc[c] \notin {"unborn", "born"} => nodepc'[c] \notin {"unborn", "born"}
          /\ child_running[c] /\ nodepc[c] \in {"half", "test", "count"} =>
                nodepc'[c] \in {"half", "test", "count"}
      BY <1>4, <1>5
    <2>2. UNCHANGED <<turn, npc, npending, child_running, garbled, missed>>
      BY <1>2 DEF Cl!Go, Cl!main
    <2>3. Cl!Told(c)' <=> Cl!Told(c)
      BY <2>2 DEF Cl!Told, Cl!MyTurn
    <2>4. Cl!Told(c)' = Cl!Told(c)
      BY <2>3 DEF Cl!Told
    <2>5. Cl!MyTurn(c)' <=> Cl!MyTurn(c)
      BY <2>2 DEF Cl!MyTurn
    <2> QED BY <1>4, <2>1, <2>2, <2>4, <2>5 DEF ClusterInv, Follows
  <1> QED BY <1>3, <1>4 DEF ClusterInv

(* A signal that comes alone is what the child is told; of the last one    *)
(* taken before an older one, or too early, garbled keeps account.         *)
LEMMA ClusterDeliver ==
    ASSUME ClusterInv, NEW d \in Cl!Children, NEW sig \in Signals, Cl!Deliver(d, sig)
    PROVE  ClusterInv'
  <1> DEFINE early == nodepc[d] = "born" \/ (nodepc[d] = "half" /\ sig = "USR2")
  <1>1. /\ sig \in npending[d] /\ nodepc[d] \notin {"unborn", "dead"}
        /\ npending' = [npending EXCEPT ![d] = @ \ {sig}]
        /\ garbled' = IF sig = Cl!LastSent(d) /\ (early \/ npending[d] # {sig})
                         THEN garbled \cup {d} ELSE garbled
        /\ missed' = IF nodepc[d] = "suspend" THEN missed \cup {d} ELSE missed \ {d}
        /\ child_running' =
               [child_running EXCEPT ![d] = IF early THEN @ ELSE sig = "USR1"]
        /\ nodepc' = [nodepc EXCEPT ![d] = IF early /\ sig = "USR2" THEN "dead"
                                     ELSE IF @ = "asleep" THEN "test" ELSE @]
        /\ UNCHANGED <<npc, nodes, turn>>
    BY DEF Cl!Deliver, Cl!main, Signals
  <1>2. ClusterTypes' /\ Unborn'
    BY <1>1 DEF ClusterInv, ClusterTypes, Unborn, NodePc
  <1>3. ASSUME NEW c \in Cl!Children PROVE Follows(c)'
    <2>1. Cl!MyTurn(c)' <=> Cl!MyTurn(c)
      BY <1>1 DEF Cl!MyTurn
    <2>2. Cl!MyTurn(c)' = Cl!MyTurn(c)
      BY <2>1 DEF Cl!MyTurn
    <2>3. CASE c # d
      <3>1. /\ npending'[c] = npending[c] /\ child_running'[c] = child_running[c]
            /\ nodepc'[c] = nodepc[c] /\ (c \in garbled' <=> c \in garbled)
            /\ c \in missed' <=> c \in missed
        BY <1>1, <1>3, <2>3 DEF ClusterInv, ClusterTypes
      <3>2. Cl!Told(c)' <=> Cl!Told(c)
        BY <2>1, <3>1 DEF Cl!Told
      <3>3. Cl!Told(c)' = Cl!Told(c)
        BY <3>2 DEF Cl!Told
      <3> QED BY <1>3, <2>1, <3>1, <3>3 DEF ClusterInv, Follows
    <2>4. CASE c = d /\ nodepc'[d] # "dead"
      <3>1. sig = "USR1" \/ ~early
        BY <1>1, <2>4 DEF ClusterInv, ClusterTypes, Signals
      <3>2. /\ early => child_running'[d] = child_running[d]
            /\ ~early => child_running'[d] = (sig = "USR1")
        BY <1>1 DEF ClusterInv, ClusterTypes
      <3>3. npending'[d] = npending[d] \ {sig}
        BY <1>1 DEF ClusterInv, ClusterTypes
      <3>4. npending[d] = {sig} \/ npending[d] = Signals
        BY <1>1 DEF ClusterInv, ClusterTypes, Signals
      <3>5. early => nodepc[d] = "born" /\ ~child_running[d]
        BY <1>1, <3>1 DEF ClusterInv, Follows
      <3>6. /\ nodepc'[d] \in {"unborn", "born"} =>
                  ~child_running'[d] /\ (d \in garbled' => Cl!MyTurn(d)')
            /\ child_running'[d] /\ d \notin missed' =>
                  nodepc'[d] \in {"half", "test", "count"}
        <4>1. CASE early
          <5>1. ~child_running'[d]
            BY <3>2, <3>5, <4>1
          <5>2. ASSUME d \in garbled' PROVE Cl!MyTurn(d)'
            <6>1. d \in garbled \/ sig = Cl!LastSent(d)
              BY <1>1, <5>2
            <6>2. CASE d \in garbled
              BY <1>1, <2>1, <2>4, <3>5, <4>1, <6>2 DEF ClusterInv, Follows
            <6>3. CASE sig = Cl!LastSent(d)
              BY <2>1, <2>4, <3>1, <4>1, <6>3 DEF Cl!LastSent
            <6> QED BY <6>1, <6>2, <6>3
          <5> QED BY <5>1, <5>2
        <4>2. CASE ~early
          <5>1. nodepc'[d] = IF nodepc[d] = "asleep" THEN "test" ELSE nodepc[d]
            BY <1>1, <4>2 DEF ClusterInv, ClusterTypes
          <5>2. d \notin missed' => nodepc[d] # "suspend"
            BY <1>1
          <5>3. nodepc[d] \in NodePc \ {"unborn", "born", "dead"}
            BY <1>1, <4>2 DEF ClusterInv, ClusterTypes
          <5> QED BY <5>1, <5>2, <5>3 DEF NodePc
        <4> QED BY <4>1, <4>2
      <3>7. CASE npending[d] = {sig}
        <4>1. Cl!Told(d) <=> sig = "USR1"
          BY <1>1, <3>7 DEF ClusterInv, Follows, Signals, Cl!Told
        <4>2. d \in garbled' <=> d \in garbled \/ (sig = Cl!LastSent(d) /\ early)
          BY <1>1, <3>7
        <4>3. npending'[d] = {}
          BY <3>3, <3>7
        <4>4. child_running'[d] <=> Cl!Told(d)'
          <5>1. CASE early
            <6>1. sig = "USR1" /\ ~child_running'[d]
              BY <3>1, <3>2, <3>5, <5>1
            <6>2. Cl!MyTurn(d)
              BY <1>1, <3>5, <4>1, <5>1, <6>1 DEF ClusterInv, Follows, Cl!Told
            <6>3. d \in garbled'
              BY <4>2, <5>1, <6>1, <6>2 DEF Cl!LastSent
            <6> QED BY <2>1, <2>4, <6>1, <6>2, <6>3 DEF Cl!Told
          <5>2. CASE ~early
            <6>1. child_running'[d] <=> sig = "USR1"
              BY <3>2, <5>2
            <6>2. Cl!Told(d)' <=> Cl!Told(d)
              BY <2>1, <2>4, <4>2, <5>2 DEF Cl!Told
            <6> QED BY <4>1, <6>1, <6>2
          <5> QED BY <5>1, <5>2
        <4>5. child_running'[d] = Cl!Told(d)'
          BY <1>1, <1>2, <4>4 DEF ClusterTypes, Cl!Told
        <4> QED BY <2>4, <3>6, <4>3, <4>5 DEF Follows, Signals
      <3>8. CASE npending[d] = Signals
        <4>1. d \notin garbled
          BY <1>1, <3>8 DEF ClusterInv, Follows
        <4>2. d \in garbled' <=> sig = Cl!LastSent(d)
          BY <1>1, <3>8, <4>1 DEF Signals
        <4>3. Cl!Told(d)' <=> sig = "USR2"
          BY <2>1, <2>4, <4>2 DEF Cl!Told, Cl!LastSent, Signals
        <4>4. npending'[d] = IF sig = "USR2" THEN {"USR1"} ELSE {"USR2"}
          BY <3>3, <3>8 DEF Signals
        <4> QED BY <2>4, <3>6, <4>3, <4>4 DEF Follows, Signals
      <3> QED BY <3>4, <3>7, <3>8
    <2> QED BY <2>3, <2>4 DEF Follows
  <1> QED BY <1>2, <1>3 DEF ClusterInv

LEMMA ClusterNext ==
    ASSUME Nodes \in Nat, ClusterInv, [Cl!Next]_(Cl!vars)
    PROVE  ClusterInv'
  <1>1. CASE Cl!Fork
    BY <1>1, ClusterFork
  <1>2. CASE Cl!Start
    BY <1>2, ClusterStart
  <1>3. CASE Cl!Halt
    BY <1>3, ClusterHalt
  <1>4. CASE Cl!Clear \/ Cl!Test \/ Cl!Suspend \/ Cl!ParentSignal \/ Cl!Ask
    BY <1>4, ClusterWait
  <1>5. ASSUME NEW d \in Cl!Children, Cl!ChildStep(d) PROVE ClusterInv'
    <2>1. CASE Cl!SetHandler(d) \/ Cl!ChildTest(d) \/ Cl!ChildSuspend(d) \/ Cl!Count(d)
      BY <2>1, ClusterLoop
    <2>2. CASE \E sig \in Signals : Cl!Deliver(d, sig)
      BY <2>2, ClusterDeliver
    <2> QED BY <1>5, <2>1, <2>2 DEF Cl!ChildStep, Signals
  <1>6. CASE UNCHANGED Cl!vars
    <2>1. UNCHANGED <<npc, nodes, turn, nodepc, npending, child_running, garbled, missed>>
      BY <1>6 DEF Cl!vars, Cl!main, Cl!children
    <2> QED BY <2>1 DEF ClusterInv, ClusterTypes, Unborn, Follows, Cl!Told, Cl!MyTurn
  <1> QED BY <1>1, <1>2, <1>3, <1>4, <1>5, <1>6 DEF Cl!Next, Cl!ParentStep

-----------------------------------------------------------------------------

(* With any number of children of the cluster, and however the signals are *)
(* delayed or fall together, child_running of a child that has taken all   *)
(* its signals says whether the parent last gave it the turn, and the      *)
(* opposite exactly if it took the last signal before an older one or      *)
(* before its handlers were set.  If it is set the child is counting or    *)
(* comes to the test that lets it count, unless it took the signal between *)
(* that test and sigsuspend (child_work and the loop of main of            *)
(* sop-cluster.c).                                                         *)
THEOREM ClusterFollows == ASSUME Nodes \in Nat PROVE LabSpec => []ChildrenFollow
  <1>1. LabInit => ClusterInv
    BY ClusterInit DEF LabInit
  <1>2. ClusterInv /\ [LabNext]_labVars => ClusterInv'
    <2>1. CASE [Cl!Next]_(Cl!vars)
      BY <2>1, ClusterNext
    <2>2. CASE UNCHANGED clusterVars
      <3>1. UNCHANGED Cl!vars
        BY <2>2 DEF clusterVars, Cl!vars, Cl!main, Cl!children
      <3> QED BY <3>1, ClusterNext
    <2> QED BY <2>1, <2>2 DEF LabNext, Converter, Cluster, labVars
  <1>3. ClusterInv => ChildrenFollow
    BY DEF ClusterInv, Follows, ChildrenFollow, Cl!ChildrenFollow
  <1> QED BY <1>1, <1>2, <1>3, PTL DEF LabSpec

-----------------------------------------------------------------------------
(* SopL2.                                                                  *)

Alphabet == {"A", "a", "-"}

\* The letters among the first k characters of the chunk of child i.
LettersTo(i, k) == {j \in 1 .. k : File[chunk[i].from + j] # "-"}

\* Who has the k-th character of the file in its chunk.
Owners(k) == {i \in Children : k - chunk[i].from \in 1 .. chunk[i].size}

\* The chunks made so far partition the beginning of the file.
PartitionInv ==
    /\ moved = Len(File) \/ moved = forked * per_child
    /\ \A k \in 1 .. moved : \E i \in Children : Owners(k) = {i}
    /\ \A i \in Children : chunk[i].from + chunk[i].size <= moved
    /\ \A i \in Children : i > forked => chunk[i].size = 0

\* What a child has written is a converted beginning of its chunk.
WrittenInv(i) ==
    /\ Len(out[i]) <= chunk[i].size
    /\ change[i] = (Cardinality(LettersTo(i, Len(out[i]))) % 2 = 0)
    /\ \A k \in 1 .. Len(out[i]) : out[i][k] = Converted(i, k)

\* Where a child can be, and with what written and noted.
StageInv(i) ==
    /\ cpc[i] = "unborn" <=> i > forked
    /\ cpc[i] \in {"unborn", "new", "test", "call", "suspend"} =>
         out[i] = <<>> /\ noted[i] = -1
    /\ cpc[i] = "done" => Len(out[i]) = chunk[i].size \/ last[i] = "INT"
    /\ noted[i] # -1 => /\ Len(out[i]) <= noted[i] + 1
                        /\ cpc[i] = "work" => last[i] = "INT" /\ Len(out[i]) = noted[i]

\* Without a Ctrl-C there is no SIGINT anywhere.
NoIntInv == ints = 0 => /\ \A p \in Procs : "INT" \notin pend[p]
                        /\ \A i \in Children : last[i] # "INT"

ConvInv == /\ TypeOK /\ PartitionInv /\ NoIntInv
           /\ out \in [Children -> Seq(Alphabet)]
           /\ \A i \in Children : WrittenInv(i) /\ StageInv(i)

LEMMA Sizes ==
    /\ N \in Nat /\ Len(File) \in Nat /\ \A k \in 1 .. Len(File) : File[k] \in Alphabet
    /\ per_child \in Nat /\ N * per_child >= Len(File)
  <1>1. N \in 1 .. 9 /\ File \in Seq(Alphabet)
    BY SopL2Assumption DEF Alphabet
  <1>2. Len(File) \in Nat /\ \A k \in 1 .. Len(File) : File[k] \in Alphabet
    BY <1>1
  <1> DEFINE L == Len(File)
  <1> HIDE DEF L
  <1>3. ASSUME L \in Nat
        PROVE  (L + N - 1) \div N \in Nat /\ N * ((L + N - 1) \div N) >= L
    <2>1. CASE N = 1 \/ N = 2 \/ N = 3
      BY <1>3, <2>1
    <2>2. CASE N = 4 \/ N = 5 \/ N = 6
      BY <1>3, <2>2
    <2>3. CASE N = 7 \/ N = 8 \/ N = 9
      BY <1>3, <2>3
    <2> QED BY <1>1, <2>1, <2>2, <2>3
  <1> QED BY <1>1, <1>2, <1>3 DEF per_child, L

LEMMA ConvInit == ASSUME Init PROVE ConvInv
  <1>1. TypeOK /\ out \in [Children -> Seq(Alphabet)]
    <2>1. change \in [Children -> BOOLEAN]
      BY DEF Init
    <2>2. out = [i \in Children |-> <<>>] /\ <<>> \in Seq(Alphabet)
      BY DEF Init
    <2>3. out \in [Children -> Seq(Alphabet)] /\ \A i \in Children : out[i] \in Seq({"A", "a", "-"})
      BY <2>2 DEF Alphabet
    <2>4. chunk \in [Children -> [from : 0 .. Len(File), size : 0 .. Len(File)]]
      BY Sizes DEF Init
    <2> QED BY <2>1, <2>3, <2>4, Sizes, SopL2Assumption DEF Init, TypeOK
  <1>2. PartitionInv
    BY Sizes DEF Init, PartitionInv, Children
  <1>3. NoIntInv
    BY DEF Init, NoIntInv
  <1>4. ASSUME NEW i \in Children PROVE WrittenInv(i) /\ StageInv(i)
    <2>1. out[i] = <<>> /\ Len(out[i]) = 0 /\ chunk[i].size = 0 /\ change[i] = TRUE
      BY DEF Init
    <2>2. LettersTo(i, 0) = {}
      BY DEF LettersTo
    <2>3. WrittenInv(i)
      <3>1. Cardinality(LettersTo(i, Len(out[i]))) = 0
        BY <2>1, <2>2, FS_EmptySet, Zenon
      <3>2. change[i] = (Cardinality(LettersTo(i, Len(out[i]))) % 2 = 0)
        <4>1. Cardinality(LettersTo(i, Len(out[i]))) % 2 = 0
          BY <3>1
        <4> QED BY <2>1, <4>1, Zenon
      <3> QED BY <2>1, <3>2 DEF WrittenInv
    <2>4. StageInv(i)
      BY <2>1 DEF Init, StageInv, Children
    <2> QED BY <2>3, <2>4
  <1> QED BY <1>1, <1>2, <1>3, <1>4 DEF ConvInv

\* What does not write or fork leaves the chunks and the outputs alone.
LEMMA WorkKept ==
    ASSUME ConvInv, UNCHANGED <<forked, moved, work>>
    PROVE  /\ PartitionInv' /\ out' \in [Children -> Seq(Alphabet)]
           /\ \A i \in Children : WrittenInv(i)'
  <1>1. UNCHANGED <<forked, moved, chunk, change, out>>
    BY DEF work
  <1>2. PartitionInv'
    BY <1>1 DEF ConvInv, PartitionInv, Owners
  <1>3. ASSUME NEW i \in Children PROVE WrittenInv(i)'
    BY <1>1 DEF ConvInv, WrittenInv, LettersTo, Converted
  <1> QED BY <1>1, <1>2, <1>3 DEF ConvInv

LEMMA SentType ==
    ASSUME NEW pending \in [Procs -> SUBSET {"INT", "USR1"}], NEW sig \in {"INT", "USR1"},
           NEW P \in SUBSET Procs
    PROVE  /\ Sent(pending, sig, P) \in [Procs -> SUBSET {"INT", "USR1"}]
           /\ sig = "USR1" => \A p \in Procs :
                "INT" \in Sent(pending, sig, P)[p] => "INT" \in pending[p]
  BY DEF Sent

\* Signals on their way change no child.
LEMMA ConvSend ==
    ASSUME ConvInv, Interrupt \/ Start \/ \E p \in Procs : Resend(p)
    PROVE  ConvInv'
  <1>1. UNCHANGED <<forked, moved, work, cpc, last, noted>>
    BY DEF Interrupt, Start, Resend, parent
  <1>2. UNCHANGED <<chunk, change, out>>
    BY <1>1 DEF work
  <1> DEFINE Signalled ==
               /\ pend' \in [Procs -> SUBSET {"INT", "USR1"}]
               /\ disp' \in [Procs -> {"resend", "note", "ignore"}]
               /\ ints' \in 0 .. MaxInts /\ ppc' \in {"fork", "wait", "exited", "killed"}
               /\ NoIntInv'
  <1>3. ASSUME Interrupt PROVE Signalled
    <2>1. PICK P \in {Procs} \cup {{p} : p \in Procs} : pend' = Sent(pend, "INT", P)
      BY <1>3 DEF Interrupt
    <2>2. P \in SUBSET Procs
      OBVIOUS
    <2>3. pend' \in [Procs -> SUBSET {"INT", "USR1"}]
      BY <2>1, <2>2, SentType DEF ConvInv, TypeOK
    <2>4. ints' \in 0 .. MaxInts /\ ints' # 0
      BY <1>3, SopL2Assumption DEF Interrupt, ConvInv, TypeOK
    <2>5. ppc' = ppc /\ disp' = disp
      BY <1>3 DEF Interrupt, parent
    <2> QED BY <2>3, <2>4, <2>5 DEF ConvInv, TypeOK, NoIntInv
  <1>4. ASSUME Start PROVE Signalled
    <2>1. pend' = Sent(pend, "USR1", Children) /\ Children \subseteq Procs
      BY <1>4 DEF Start, Children, Procs
    <2>2. /\ pend' \in [Procs -> SUBSET {"INT", "USR1"}]
          /\ \A p \in Procs : "INT" \in pend'[p] => "INT" \in pend[p]
      BY <2>1, SentType DEF ConvInv, TypeOK
    <2>3. ints' = ints /\ disp' = disp /\ ppc' = "wait"
      BY <1>4 DEF Start
    <2>4. NoIntInv'
      BY <1>1, <2>2, <2>3 DEF ConvInv, NoIntInv
    <2> QED BY <2>2, <2>3, <2>4 DEF ConvInv, TypeOK
  <1>5. ASSUME NEW p \in Procs, Resend(p) PROVE Signalled
    <2>1. Taken(p, "INT") \in [Procs -> SUBSET {"INT", "USR1"}]
      BY DEF Taken, ConvInv, TypeOK
    <2>2. pend' = Sent(Taken(p, "INT"), "INT", Procs \ {p}) /\ "INT" \in pend[p]
      BY <1>5 DEF Resend
    <2>3. pend' \in [Procs -> SUBSET {"INT", "USR1"}]
      BY <2>1, <2>2, SentType
    <2>4. ints' # 0
      BY <1>5, <2>2 DEF Resend, ConvInv, NoIntInv
    <2> QED BY <1>5, <2>3, <2>4 DEF Resend, ConvInv, TypeOK, NoIntInv
  <1> HIDE DEF Signalled
  <1>6. Signalled
    BY <1>3, <1>4, <1>5
  <1>7. TypeOK'
    BY <1>1, <1>2, <1>6 DEF Signalled, ConvInv, TypeOK
  <1>8. \A i \in Children : StageInv(i)'
    BY <1>1, <1>2 DEF ConvInv, StageInv
  <1> QED BY <1>1, <1>6, <1>7, <1>8, WorkKept DEF Signalled, ConvInv

\* sig_handler: SIGUSR1 only in sigsuspend, SIGINT anywhere, at work as well.
LEMMA ConvNote ==
    ASSUME ConvInv, NEW c \in Children, TakeInt(c) \/ TakeUsr1(c)
    PROVE  ConvInv'
  <1>1. PICK sig \in {"INT", "USR1"} :
          /\ sig \in pend[c] /\ Note(c, sig)
          /\ sig = "USR1" => cpc[c] = "suspend"
          /\ cpc[c] \notin {"unborn", "done", "killed"}
    <2>1. c # 0
      BY Sizes DEF Children
    <2> QED BY <2>1 DEF TakeInt, TakeUsr1, Usr1Open, Alive
  <1>2. /\ last' = [last EXCEPT ![c] = sig]
        /\ pend' = [pend EXCEPT ![c] = @ \ {sig}]
        /\ cpc' = [cpc EXCEPT ![c] = IF @ = "suspend" THEN "test" ELSE @]
        /\ noted' = IF sig = "INT" /\ cpc[c] = "work" /\ noted[c] = -1
                      THEN [noted EXCEPT ![c] = Len(out[c])] ELSE noted
        /\ UNCHANGED <<ppc, forked, moved, disp, work, ints>>
    BY <1>1 DEF Note, Taken, parent
  <1>3. UNCHANGED <<chunk, change, out>>
    BY <1>2 DEF work
  <1>4. c \in Procs
    BY DEF Children, Procs
  <1>5. Len(out[c]) \in 0 .. Len(File)
    BY Sizes DEF ConvInv, TypeOK, WrittenInv, Alphabet
  <1>6. noted' \in [Children -> -1 .. Len(File)]
    BY <1>2, <1>5, Sizes DEF ConvInv, TypeOK
  <1>7. TypeOK'
    BY <1>2, <1>3, <1>6 DEF ConvInv, TypeOK
  <1>8. NoIntInv'
    BY <1>1, <1>2, <1>4 DEF ConvInv, TypeOK, NoIntInv
  <1>9. ASSUME NEW i \in Children PROVE StageInv(i)'
    <2>1. CASE i # c
      <3>1. cpc'[i] = cpc[i] /\ last'[i] = last[i] /\ noted'[i] = noted[i]
        BY <1>2, <1>9, <2>1 DEF ConvInv, TypeOK
      <3> QED BY <1>2, <1>3, <1>9, <3>1 DEF ConvInv, StageInv
    <2>2. CASE i = c
      <3>1. /\ last'[c] = sig
            /\ cpc'[c] = IF cpc[c] = "suspend" THEN "test" ELSE cpc[c]
            /\ noted'[c] = IF sig = "INT" /\ cpc[c] = "work" /\ noted[c] = -1
                            THEN Len(out[c]) ELSE noted[c]
        BY <1>2 DEF ConvInv, TypeOK
      <3> QED BY <1>1, <1>2, <1>3, <1>5, <2>2, <3>1 DEF ConvInv, StageInv
    <2> QED BY <2>1, <2>2
  <1> QED BY <1>2, <1>7, <1>8, <1>9, WorkKept DEF ConvInv

\* Steps of the processes that write nothing.
LEMMA ConvMove ==
    ASSUME ConvInv,
           \/ ParentExit \/ Err
           \/ \E i \in Children : SetHandlers(i) \/ Test(i) \/ Suspend(i) \/ Finish(i)
    PROVE  ConvInv'
  <1>1. UNCHANGED <<forked, moved, work, pend, last, ints, noted>>
    BY DEF ParentExit, Err, SetHandlers, Test, Suspend, Finish, parent
  <1>2. UNCHANGED <<chunk, change, out>>
    BY <1>1 DEF work
  <1>3. NoIntInv'
    BY <1>1 DEF ConvInv, NoIntInv
  <1> DEFINE Pc == {"unborn", "new", "test", "call", "suspend", "work", "done", "killed"}
  <1> DEFINE Moved == /\ ppc' \in {"fork", "wait", "exited", "killed"}
                     /\ disp' \in [Procs -> {"resend", "note", "ignore"}]
                     /\ cpc' \in [Children -> Pc]
                     /\ \A i \in Children : StageInv(i)'
  <1>4. ASSUME ParentExit PROVE Moved
    BY <1>1, <1>2, <1>4 DEF ParentExit, ConvInv, TypeOK, StageInv
  <1>5. ASSUME Err PROVE Moved
    <2>1. /\ ppc' \in {"killed", ppc} /\ disp' = disp
          /\ cpc' = [i \in Children |-> IF Alive(i) THEN "killed" ELSE cpc[i]]
      BY <1>5 DEF Err
    <2>2. \A i \in Children : Alive(i) <=> cpc[i] \notin {"unborn", "done", "killed"}
      BY Sizes DEF Alive, Children
    <2> QED BY <1>1, <1>2, <2>1, <2>2 DEF ConvInv, TypeOK, StageInv
  <1>6. ASSUME NEW c \in Children, SetHandlers(c) \/ Test(c) \/ Suspend(c) \/ Finish(c)
        PROVE  Moved
    <2>1. PICK l \in {"test", "work", "call", "suspend", "done"} :
            /\ cpc' = [cpc EXCEPT ![c] = l]
            /\ cpc[c] \in {"new", "test", "call", "work"}
            /\ l \in {"test", "work", "call", "suspend"} => cpc[c] \in {"new", "test", "call"}
            /\ l = "done" => Len(out[c]) = chunk[c].size
      BY <1>6 DEF SetHandlers, Test, Suspend, Finish
    <2>2. /\ ppc' = ppc /\ disp' \in [Procs -> {"resend", "note", "ignore"}]
      BY <1>6 DEF SetHandlers, Test, Suspend, Finish, parent, ConvInv, TypeOK
    <2>3. cpc' \in [Children -> Pc]
      BY <2>1 DEF ConvInv, TypeOK
    <2>4. ASSUME NEW i \in Children PROVE StageInv(i)'
      <3>1. CASE i # c
        BY <1>1, <1>2, <2>1, <2>4, <3>1 DEF ConvInv, TypeOK, StageInv
      <3>2. CASE i = c
        BY <1>1, <1>2, <2>1, <3>2 DEF ConvInv, TypeOK, StageInv
      <3> QED BY <3>1, <3>2
    <2> QED BY <2>2, <2>3, <2>4 DEF ConvInv, TypeOK
  <1> HIDE DEF Moved
  <1>7. Moved
    BY <1>4, <1>5, <1>6
  <1>8. TypeOK'
    BY <1>1, <1>2, <1>7 DEF Moved, ConvInv, TypeOK
  <1> QED BY <1>1, <1>3, <1>7, <1>8, WorkKept DEF Moved, ConvInv

\* The next chunk begins where the last one ended.
LEMMA ConvFork ==
    ASSUME ConvInv, NEW c \in Children, c = forked + 1, Fork
    PROVE  ConvInv'
  <1>0. N \in Nat /\ Len(File) \in Nat /\ per_child \in Nat
    BY Sizes
  <1>1. /\ ppc = "fork" /\ forked' = c
        /\ moved \in 0 .. Len(File) /\ forked \in Nat /\ forked < N
    BY <1>0 DEF Fork, ConvInv, TypeOK, Children
  <1>2. /\ ChunkSize \in 0 .. Len(File) - moved
        /\ ChunkSize = per_child \/ ChunkSize = Len(File) - moved
    BY <1>0, <1>1 DEF ChunkSize
  <1>3. /\ chunk' = [chunk EXCEPT ![c] = [from |-> moved, size |-> ChunkSize]]
        /\ moved' = moved + ChunkSize
        /\ cpc' = [cpc EXCEPT ![c] = "new"] /\ disp' = [disp EXCEPT ![c] = disp[0]]
        /\ UNCHANGED <<ppc, pend, last, change, out, ints, noted>>
    BY <1>1 DEF Fork
  <1>4. cpc[c] = "unborn" /\ out[c] = <<>> /\ noted[c] = -1 /\ chunk[c].size = 0
    BY <1>1 DEF ConvInv, StageInv, PartitionInv
  <1>5. /\ chunk'[c] = [from |-> moved, size |-> ChunkSize] /\ cpc'[c] = "new"
        /\ \A i \in Children \ {c} : chunk'[i] = chunk[i] /\ cpc'[i] = cpc[i]
    BY <1>1, <1>3 DEF ConvInv, TypeOK
  <1>6. TypeOK'
    <2>1. moved' \in 0 .. Len(File) /\ forked' \in 0 .. N
      BY <1>0, <1>1, <1>2, <1>3 DEF Children
    <2>2. chunk' \in [Children -> [from : 0 .. Len(File), size : 0 .. Len(File)]]
      <3>1. [from |-> moved, size |-> ChunkSize] \in [from : 0 .. Len(File), size : 0 .. Len(File)]
        BY <1>0, <1>1, <1>2
      <3> QED BY <1>3, <3>1 DEF ConvInv, TypeOK
    <2>3. cpc' \in [Children -> {"unborn", "new", "test", "call", "suspend",
                                 "work", "done", "killed"}]
      BY <1>3 DEF ConvInv, TypeOK
    <2>4. disp' \in [Procs -> {"resend", "note", "ignore"}]
      <3>1. disp[0] \in {"resend", "note", "ignore"}
        BY <1>0 DEF ConvInv, TypeOK, Procs
      <3> QED BY <1>3, <3>1 DEF ConvInv, TypeOK
    <2> QED BY <1>3, <2>1, <2>2, <2>3, <2>4 DEF ConvInv, TypeOK
  <1>7. PartitionInv'
    <2>1. moved' = Len(File) \/ moved' = forked' * per_child
      <3>1. CASE moved = Len(File)
        BY <1>0, <1>1, <1>2, <1>3, <3>1
      <3>2. CASE moved = forked * per_child
        <4>1. (forked + 1) * per_child = forked * per_child + per_child
          <5>1. \A m, p \in Nat : (m + 1) * p = m * p + p
            OBVIOUS
          <5> QED BY <1>0, <1>1, <5>1
        <4>2. CASE ChunkSize = per_child
          BY <1>1, <1>3, <3>2, <4>1, <4>2
        <4>3. CASE ChunkSize = Len(File) - moved
          BY <1>0, <1>1, <1>3, <4>3
        <4> QED BY <1>2, <4>2, <4>3
      <3> QED BY <3>1, <3>2 DEF ConvInv, PartitionInv
    <2>2. \A i \in Children : /\ chunk[i].from \in Nat /\ chunk[i].size \in Nat
                              /\ chunk[i].from + chunk[i].size <= moved
      BY <1>0 DEF ConvInv, TypeOK, PartitionInv
    <2>3. ASSUME NEW k \in 1 .. moved' PROVE \E i \in Children : Owners(k)' = {i}
      <3>1. CASE k <= moved
        <4>1. PICK i \in Children : Owners(k) = {i}
          BY <1>1, <2>3, <3>1 DEF ConvInv, PartitionInv
        <4>2. Owners(k)' = Owners(k)
          <5>1. ASSUME NEW j \in Children
                PROVE  k - chunk'[j].from \in 1 .. chunk'[j].size
                         <=> k - chunk[j].from \in 1 .. chunk[j].size
            <6>1. CASE j = c
              BY <1>1, <1>2, <1>4, <1>5, <2>2, <3>1, <6>1
            <6>2. CASE j # c
              BY <1>5, <6>2
            <6> QED BY <6>1, <6>2
          <5> QED BY <5>1 DEF Owners
        <4> QED BY <4>1, <4>2
      <3>2. CASE k > moved
        <4>1. Owners(k)' = {c}
          <5>1. k - chunk'[c].from \in 1 .. chunk'[c].size
            BY <1>0, <1>1, <1>2, <1>3, <1>5, <2>3, <3>2
          <5>2. ASSUME NEW j \in Children \ {c}
                PROVE  k - chunk'[j].from \notin 1 .. chunk'[j].size
            <6>1. k \in Int /\ moved \in Int /\ chunk'[j] = chunk[j]
              BY <1>0, <1>1, <1>2, <1>3, <1>5, <2>3
            <6>2. chunk[j].from \in Nat /\ chunk[j].size \in Nat
                  /\ chunk[j].from + chunk[j].size <= moved
              BY <2>2
            <6> QED BY <3>2, <6>1, <6>2
          <5> QED BY <1>1, <5>1, <5>2 DEF Owners
        <4> QED BY <1>1, <4>1
      <3> QED BY <1>0, <1>1, <1>2, <1>3, <2>3, <3>1, <3>2
    <2>4. \A i \in Children : chunk'[i].from + chunk'[i].size <= moved'
      BY <1>0, <1>1, <1>2, <1>3, <1>5, <2>2
    <2>5. \A i \in Children : i > forked' => chunk'[i].size = 0
      <3>1. \A i \in Children : i > forked => chunk[i].size = 0
        BY DEF ConvInv, PartitionInv
      <3>2. \A i \in Children : i > c => i # c /\ i > forked
        BY <1>0, <1>1 DEF Children
      <3> QED BY <1>1, <1>5, <3>1, <3>2
    <2> QED BY <2>1, <2>3, <2>4, <2>5 DEF PartitionInv
  <1>8. NoIntInv'
    BY <1>3 DEF ConvInv, NoIntInv
  <1>9. ASSUME NEW i \in Children PROVE WrittenInv(i)' /\ StageInv(i)'
    <2>1. CASE i # c
      <3>1. WrittenInv(i)'
        <4>1. chunk'[i] = chunk[i]
          BY <1>5, <2>1
        <4>2. \A k : LettersTo(i, k)' = LettersTo(i, k) /\ Converted(i, k)' = Converted(i, k)
          BY <4>1 DEF LettersTo, Converted
        <4> QED BY <1>3, <1>9, <4>1, <4>2 DEF ConvInv, WrittenInv
      <3>2. StageInv(i)'
        BY <1>0, <1>1, <1>3, <1>5, <1>9, <2>1 DEF ConvInv, StageInv, Children
      <3> QED BY <3>1, <3>2
    <2>2. CASE i = c
      <3>1. Len(out[c]) = 0 /\ out'[c] = out[c]
        BY <1>3, <1>4
      <3>3. change'[c] = (Cardinality(LettersTo(c, Len(out[c]))') % 2 = 0)
        <4>1. change[c] = (Cardinality(LettersTo(c, Len(out[c]))) % 2 = 0)
          BY <1>1 DEF ConvInv, WrittenInv
        <4>2. LettersTo(c, Len(out[c]))' = LettersTo(c, Len(out[c]))
          BY <3>1 DEF LettersTo
        <4> QED BY <1>3, <4>1, <4>2, Zenon
      <3>4. WrittenInv(c)'
        <4>1. Len(out'[c]) = 0 /\ chunk'[c].size >= 0
          BY <1>0, <1>1, <1>2, <1>5, <3>1
        <4>2. change'[c] = (Cardinality(LettersTo(c, Len(out[c]))') % 2 = 0)
          BY <3>3, Zenon
        <4>3. /\ Len(out'[c]) <= chunk'[c].size
              /\ \A k \in 1 .. Len(out'[c]) : out'[c][k] = Converted(c, k)'
          BY <4>1
        <4> QED BY <4>2, <4>3, Zenon DEF WrittenInv
      <3>5. StageInv(c)'
        <4>1. cpc'[c] = "new" /\ out'[c] = <<>> /\ noted'[c] = -1 /\ ~(c > forked')
          BY <1>1, <1>3, <1>4, <1>5
        <4> QED BY <4>1 DEF StageInv
      <3> QED BY <2>2, <3>4, <3>5
    <2> QED BY <2>1, <2>2
  <1> QED BY <1>3, <1>6, <1>7, <1>8, <1>9 DEF ConvInv

\* The next character of the chunk, converted; the alternation follows the letters.
LEMMA ConvWrite ==
    ASSUME ConvInv, NEW c \in Children, NEW n \in Nat, n = Len(out[c]), Write(c)
    PROVE  ConvInv'
  <1>0. N \in Nat /\ Len(File) \in Nat /\ per_child \in Nat
    BY Sizes
  <1>1. /\ cpc[c] = "work" /\ n < chunk[c].size
        /\ UNCHANGED <<ppc, forked, moved, disp, pend, last, chunk, ints, noted>>
    BY DEF Write, parent
  <1>2. /\ chunk[c].from \in Nat /\ chunk[c].size \in Nat /\ moved \in 0 .. Len(File)
        /\ chunk[c].from + chunk[c].size <= moved
    BY <1>0 DEF ConvInv, TypeOK, PartitionInv
  <1>3. chunk[c].from + (n + 1) = chunk[c].from + n + 1
    BY <1>2
  <1>4. PICK ch \in Alphabet : ch = File[chunk[c].from + n + 1]
    <2>1. chunk[c].from + n + 1 \in 1 .. Len(File)
      BY <1>0, <1>1, <1>2
    <2> QED BY <2>1, Sizes
  <1>5. PICK x \in Alphabet : x = IF change[c] THEN Flip(ch) ELSE ch
    BY DEF Flip, Alphabet
  <1>6. /\ out' = [out EXCEPT ![c] = Append(@, x)]
        /\ change' = [change EXCEPT ![c] = IF ch = "-" THEN @ ELSE ~@]
        /\ cpc' = [cpc EXCEPT ![c] = IF last[c] = "INT" THEN "done" ELSE "work"]
    BY <1>4, <1>5 DEF Write, AfterWrite, ConvInv
  <1>7. out[c] \in Seq(Alphabet) /\ out' \in [Children -> Seq(Alphabet)]
    BY <1>6 DEF ConvInv
  <1>8. /\ out'[c] = Append(out[c], x) /\ Len(out'[c]) = n + 1 /\ out'[c][n + 1] = x
        /\ \A k \in 1 .. n : out'[c][k] = out[c][k]
    BY <1>6, <1>7 DEF ConvInv
  <1>9. change'[c] = IF ch = "-" THEN change[c] ELSE ~change[c]
    BY <1>6, Zenon DEF ConvInv, TypeOK
  <1>10. TypeOK'
    <2>1. change' \in [Children -> BOOLEAN]
      BY <1>6, Zenon DEF ConvInv, TypeOK
    <2>2. cpc' \in [Children -> {"unborn", "new", "test", "call", "suspend",
                                 "work", "done", "killed"}]
      BY <1>6 DEF ConvInv, TypeOK
    <2>3. \A i \in Children : out'[i] \in Seq({"A", "a", "-"})
      BY <1>7 DEF Alphabet
    <2> QED BY <1>1, <2>1, <2>2, <2>3 DEF ConvInv, TypeOK
  <1>11. PartitionInv'
    BY <1>1 DEF ConvInv, PartitionInv, Owners
  <1>12. NoIntInv'
    BY <1>1 DEF ConvInv, NoIntInv
  <1>13. ASSUME NEW i \in Children, i # c PROVE WrittenInv(i)' /\ StageInv(i)'
    <2>1. out'[i] = out[i] /\ change'[i] = change[i] /\ cpc'[i] = cpc[i]
      BY <1>6, <1>13 DEF ConvInv, TypeOK
    <2>2. \A k : LettersTo(i, k)' = LettersTo(i, k) /\ Converted(i, k)' = Converted(i, k)
      BY <1>1 DEF LettersTo, Converted
    <2> QED BY <1>1, <1>13, <2>1, <2>2 DEF ConvInv, WrittenInv, StageInv
  <1>14. WrittenInv(c)'
    <2>1. \A k : LettersTo(c, k)' = LettersTo(c, k) /\ Converted(c, k)' = Converted(c, k)
      BY <1>1 DEF LettersTo, Converted
    <2>2. /\ \A k \in 1 .. n : out[c][k] = Converted(c, k)
          /\ change[c] = (Cardinality(LettersTo(c, n)) % 2 = 0)
      BY DEF ConvInv, WrittenInv
    <2>3. Converted(c, n + 1) = IF Cardinality(LettersTo(c, n)) % 2 = 0 THEN Flip(ch) ELSE ch
      <3>1. (n + 1) - 1 = n
        OBVIOUS
      <3> QED BY <1>4, <1>3, <3>1, Zenon DEF Converted, LettersTo
    <2>4. x = Converted(c, n + 1)
      BY <1>5, <2>2, <2>3, Zenon
    <2>5. IsFiniteSet(LettersTo(c, n)) /\ n + 1 \notin LettersTo(c, n)
      <3>1. IsFiniteSet(1 .. n)
        BY FS_Interval
      <3>2. LettersTo(c, n) \subseteq 1 .. n
        BY DEF LettersTo
      <3> QED BY <3>1, <3>2, FS_Subset
    <2>6. change'[c] = (Cardinality(LettersTo(c, n + 1)) % 2 = 0)
      <3>0. /\ File[chunk[c].from + (n + 1)] = ch
            /\ \A j \in 1 .. n + 1 : j \in 1 .. n \/ j = n + 1
        BY <1>4, <1>3
      <3>1. CASE ch = "-"
        <4>1. LettersTo(c, n + 1) = LettersTo(c, n)
          BY <3>0, <3>1 DEF LettersTo
        <4> QED BY <1>9, <2>2, <3>1, <4>1, Zenon
      <3>2. CASE ch # "-"
        <4>1. LettersTo(c, n + 1) = LettersTo(c, n) \cup {n + 1}
          BY <3>0, <3>2 DEF LettersTo
        <4>2. /\ Cardinality(LettersTo(c, n)) \in Nat
              /\ Cardinality(LettersTo(c, n + 1)) = Cardinality(LettersTo(c, n)) + 1
          BY <2>5, <4>1, FS_AddElement, FS_CardinalityType
        <4>3. \A m \in Nat : (m + 1) % 2 = 0 <=> ~(m % 2 = 0)
          OBVIOUS
        <4>4. Cardinality(LettersTo(c, n + 1)) % 2 = 0 <=> ~(Cardinality(LettersTo(c, n)) % 2 = 0)
          BY <4>2, <4>3
        <4> QED BY <1>9, <2>2, <3>2, <4>4, Zenon
      <3> QED BY <3>1, <3>2
    <2>7. \A k \in 1 .. n + 1 : out'[c][k] = Converted(c, k)'
      BY <1>8, <2>1, <2>2, <2>4
    <2>8. Len(out'[c]) <= chunk'[c].size
      BY <1>0, <1>1, <1>8 DEF ConvInv, TypeOK
    <2>9. (change[c] = (Cardinality(LettersTo(c, Len(out[c]))) % 2 = 0))'
      <3>1. LettersTo(c, Len(out[c]))' = LettersTo(c, n + 1)
        BY <1>1, <1>8 DEF LettersTo
      <3> QED BY <2>6, <3>1, Zenon
    <2> QED BY <1>8, <2>7, <2>8, <2>9 DEF WrittenInv
  <1>15. StageInv(c)'
    <2>1. cpc'[c] = IF last[c] = "INT" THEN "done" ELSE "work"
      BY <1>6 DEF ConvInv, TypeOK
    <2>2. noted[c] \in Int /\ StageInv(c)
      BY <1>0 DEF ConvInv, TypeOK
    <2> QED BY <1>1, <1>8, <2>1, <2>2 DEF StageInv
  <1> QED BY <1>7, <1>10, <1>11, <1>12, <1>13, <1>14, <1>15 DEF ConvInv

LEMMA ConvNext == ASSUME ConvInv, [Next]_vars PROVE ConvInv'
  <1>1. CASE Interrupt \/ Start \/ \E p \in Procs : Resend(p)
    BY <1>1, ConvSend
  <1>2. CASE \E c \in Children : TakeInt(c) \/ TakeUsr1(c)
    BY <1>2, ConvNote
  <1>3. CASE \/ ParentExit \/ Err
             \/ \E c \in Children : SetHandlers(c) \/ Test(c) \/ Suspend(c) \/ Finish(c)
    BY <1>3, ConvMove
  <1>4. CASE Fork
    <2>1. forked + 1 \in Children
      BY <1>4, Sizes DEF Fork, ConvInv, TypeOK, Children
    <2> QED BY <1>4, <2>1, ConvFork
  <1>5. ASSUME NEW c \in Children, Write(c) PROVE ConvInv'
    <2>1. Len(out[c]) \in Nat
      BY DEF ConvInv
    <2> QED BY <1>5, <2>1, ConvWrite
  <1>6. CASE UNCHANGED vars
    <2>1. UNCHANGED <<ppc, forked, moved, disp, pend, cpc, last, chunk, change, out, ints,
                      noted, work>>
      BY <1>6 DEF vars, parent, work
    <2>2. TypeOK' /\ NoIntInv' /\ \A i \in Children : StageInv(i)'
      BY <2>1 DEF ConvInv, TypeOK, NoIntInv, StageInv
    <2> QED BY <2>1, <2>2, WorkKept DEF ConvInv
  <1>7. Procs = {0} \cup Children
    BY Sizes DEF Procs, Children
  <1> QED BY <1>1, <1>2, <1>3, <1>4, <1>5, <1>6, <1>7
          DEF Next, ParentStep, ChildStep, Delivery

(* For any text and one to nine children: what a child has written is the  *)
(* conversion of the beginning of its chunk, without SIGINT every          *)
(* character is written by exactly one child, and a child that takes       *)
(* SIGINT at work stops after the character it has converted               *)
(* (create_children and child_work of sop-l2.c).                           *)
THEOREM ConversionExact == LabSpec => []OutputsExact
  <1>1. LabInit => ConvInv
    BY ConvInit DEF LabInit
  <1>2. ConvInv /\ [LabNext]_labVars => ConvInv'
    <2>1. CASE UNCHANGED vars
      BY <2>1, ConvNext
    <2> QED BY <2>1, ConvNext DEF LabNext, Converter, Cluster, labVars
  <1>3. ConvInv => OutputsExact
    <2> SUFFICES ASSUME ConvInv PROVE OutputsExact
      OBVIOUS
    <2>1. ASSUME ints = 0, \A i \in Children : cpc[i] = "done", NEW k \in 1 .. Len(File)
          PROVE  Cardinality({i \in Children : k - chunk[i].from \in 1 .. Len(out[i])}) = 1
      <3>1. \A i \in Children : Len(out[i]) = chunk[i].size
        BY <2>1 DEF ConvInv, StageInv, NoIntInv
      <3>2. {i \in Children : k - chunk[i].from \in 1 .. Len(out[i])} = Owners(k)
        BY <3>1 DEF Owners
      <3>3. forked = N
        <4>1. N \in Children /\ forked \in 0 .. N
          BY SopL2Assumption DEF ConvInv, TypeOK, Children
        <4>2. ~(N > forked)
          BY <2>1, <4>1 DEF ConvInv, StageInv
        <4> QED BY <4>1, <4>2, Sizes
      <3>4. moved = Len(File)
        <4>1. moved \in 0 .. Len(File) /\ (moved = Len(File) \/ moved = N * per_child)
          BY <3>3 DEF ConvInv, TypeOK, PartitionInv
        <4> QED BY <4>1, Sizes
      <3>5. PICK i \in Children : Owners(k) = {i}
        BY <2>1, <3>4 DEF ConvInv, PartitionInv
      <3> QED BY <3>2, <3>5, FS_Singleton
    <2> QED BY <2>1 DEF OutputsExact, ConvInv, WrittenInv, StageInv
  <1> QED BY <1>1, <1>2, <1>3, PTL DEF LabSpec
=============================================================================
