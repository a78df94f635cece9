---------------------------- MODULE SocketsProofs ----------------------------
(***************************************************************************)
(* Proofs about the servers of MCSockets, with any number of clients.      *)
(* Election: nobody votes for another elector, and a vote changes only as  *)
(* its elector asks, although accept gives closed descriptors to new       *)
(* clients.  Calculator: every answer is the right one, to the request of  *)
(* the client it goes to.                                                  *)
(***************************************************************************)
EXTENDS MCSockets, FiniteSetTheorems, SequenceTheorems, WellFoundedInduction, TLAPS

\* TypeOK, with sent a function of the clients.
Typed == TypeOK /\ sent \in [Clients -> Seq(Bytes)]

\* Two connections never share a descriptor; one not accepted has none.
FdInv == /\ \A c, d \in Clients : fd[c] = fd[d] /\ fd[c] # 0 => c = d
         /\ \A c \in Clients : conn[c] \in {"none", "queued"} => fd[c] = 0

\* A client that is registered as an elector has that elector's slot.
SlotInv == \A c \in Clients :
              identity[c] # 0 => fd[c] # 0 /\ electors[identity[c]] = fd[c]

ElectionInv == Typed /\ FdInv /\ SlotInv /\ ElectorsAuthentic

-----------------------------------------------------------------------------
\* A set of natural numbers that is not empty has a least element.
LEMMA Least ==
    ASSUME NEW T, T \subseteq Nat, T # {}
    PROVE  \E x \in T : \A y \in T : x <= y
  <1> DEFINE R == OpToRel(<, Nat)
  <1>1. IsWellFoundedOn(R, Nat)
    BY NatLessThanWellFounded
  <1> HIDE DEF R
  <1>2. PICK x \in T : \A y \in T : ~(<<y, x>> \in R)
    BY <1>1, WFMin, Zenon
  <1>3. ASSUME NEW y \in T PROVE x <= y
    <2>1. ~(<<y, x>> \in R)
      BY <1>2
    <2>2. x \in Nat /\ y \in Nat
      OBVIOUS
    <2> QED BY <2>1, <2>2 DEF R, OpToRel
  <1> QED BY <1>3

\* While a client has no descriptor, one is free, and accept finds it.
LEMMA FreeFdType ==
    ASSUME fd \in [Clients -> Fds \cup {0}], NEW c \in Clients, fd[c] = 0
    PROVE  FreeFd \in Fds /\ \A d \in Clients : fd[d] # FreeFd
  <1> DEFINE Free == {n \in Fds : \A d \in Clients : fd[d] # n}
  <1>1. IsFiniteSet(Clients) /\ Cardinality(Clients) \in Nat
    BY ElectionAssumption, FS_CardinalityType
  <1>2. Free # {}
    <2> SUFFICES ASSUME Free = {} PROVE FALSE
      OBVIOUS
    <2>1. \A n \in Fds : \E d \in Clients : fd[d] = n
      OBVIOUS
    <2> DEFINE holder == [n \in Fds |-> CHOOSE d \in Clients : fd[d] = n]
    <2>2. \A n \in Fds : holder[n] \in Clients \ {c} /\ fd[holder[n]] = n
      <3> SUFFICES ASSUME NEW n \in Fds PROVE holder[n] \in Clients \ {c} /\ fd[holder[n]] = n
        OBVIOUS
      <3>1. holder[n] \in Clients /\ fd[holder[n]] = n
        BY <2>1
      <3>2. n # 0
        BY <1>1 DEF Fds
      <3> QED BY <3>1, <3>2
    <2>3. holder \in [Fds -> Clients \ {c}]
      BY <2>2
    <2>4. IsFiniteSet(Fds) /\ Cardinality(Fds) = Cardinality(Clients)
      BY <1>1, FS_Interval DEF Fds
    <2>5. /\ IsFiniteSet(Clients \ {c})
          /\ Cardinality(Clients \ {c}) = Cardinality(Clients) - 1
      BY <1>1, FS_RemoveElement
    <2> HIDE DEF holder
    <2>6. \E m, n \in Fds : m # n /\ holder[m] = holder[n]
      BY <1>1, <2>3, <2>4, <2>5, FS_PigeonHole
    <2> QED BY <2>2, <2>6
  <1>3. Free \subseteq Nat
    BY <1>1 DEF Fds
  <1> HIDE DEF Free
  <1>4. PICK n \in Free : \A m \in Free : n <= m
    BY <1>2, <1>3, Least
  <1>5. /\ n \in Fds /\ \A d \in Clients : fd[d] # n
        /\ \A m \in Fds : m < n => \E d \in Clients : fd[d] = m
    <2>1. n \in Fds /\ \A d \in Clients : fd[d] # n
      BY <1>4 DEF Free
    <2>2. ASSUME NEW m \in Fds, m < n PROVE \E d \in Clients : fd[d] = m
      <3>1. m \notin Free
        BY <1>1, <1>3, <1>4, <2>2 DEF Fds
      <3> QED BY <3>1 DEF Free
    <2> QED BY <2>1, <2>2
  <1> QED BY <1>5, Zenon DEF FreeFd

\* No two slots hold the same descriptor, so search finds the slot there is.
LEMMA SlotUnique ==
    ASSUME ElectionInv, NEW c \in Clients, fd[c] # 0, NEW k \in Electors, electors[k] = fd[c]
    PROVE  Search(fd[c]) = k /\ identity[c] = k
  <1>1. ASSUME NEW j \in Electors, electors[j] = fd[c] PROVE identity[c] = j
    <2>1. fd[c] # -1
      BY DEF ElectionInv, Typed, TypeOK, Fds
    <2> QED BY <1>1, <2>1 DEF ElectionInv, ElectorsAuthentic, FdInv
  <1>2. \A j \in Electors : electors[j] = fd[c] => j = k
    BY <1>1
  <1>3. \A j \in Electors : j < k => electors[j] # fd[c]
    BY <1>2 DEF Electors
  <1>4. /\ Search(fd[c]) \in Electors /\ electors[Search(fd[c])] = fd[c]
    BY <1>3, Zenon DEF Search
  <1> QED BY <1>1, <1>2, <1>4

-----------------------------------------------------------------------------
LEMMA ElectionInit == Init => ElectionInv
  <1> SUFFICES ASSUME Init PROVE ElectionInv
    OBVIOUS
  <1>1. \A c \in Clients : <<>> \in Seq(Bytes)
    OBVIOUS
  <1> QED BY <1>1, ElectionAssumption
          DEF Init, ElectionInv, Typed, TypeOK, FdInv, SlotInv, ElectorsAuthentic,
              Electors, ListenFd

\* The clients, the user and the second thread touch no slot.
LEMMA OthersPreserve ==
    ASSUME ElectionInv,
           \/ \E c \in Clients : Connect(c) \/ SendByte(c) \/ Disconnect(c)
           \/ Interrupt \/ UdpStep \/ UNCHANGED vars
    PROVE  ElectionInv'
  <1>1. CASE \E c \in Clients : Connect(c)
    BY <1>1 DEF Connect, server, flags, ElectionInv, Typed, TypeOK, FdInv, SlotInv,
                ElectorsAuthentic
  <1>2. ASSUME NEW c \in Clients, SendByte(c) PROVE ElectionInv'
    <2>1. sent' \in [Clients -> Seq(Bytes)]
      BY <1>2 DEF SendByte, ElectionInv, Typed
    <2> QED BY <1>2, <2>1 DEF SendByte, server, flags, ElectionInv, Typed, TypeOK, FdInv, SlotInv,
                ElectorsAuthentic
  <1>3. ASSUME NEW c \in Clients, Disconnect(c) PROVE ElectionInv'
    <2>1. sent' = sent \/ sent' = [sent EXCEPT ![c] = <<>>]
      BY <1>3 DEF Disconnect
    <2>2. sent' \in [Clients -> Seq(Bytes)]
      BY <2>1, EmptySeq DEF ElectionInv, Typed
    <2>3. /\ conn' \in [Clients -> {"none", "queued", "open", "eof", "reset"}]
          /\ \A d \in Clients : conn'[d] \in {"none", "queued"} => conn[d] = conn'[d]
      BY <1>3 DEF Disconnect, ElectionInv, Typed, TypeOK
    <2>4. UNCHANGED <<server, flags, upc, identity>>
      BY <1>3 DEF Disconnect
    <2>5. Typed'
      BY <2>2, <2>3, <2>4 DEF server, flags, ElectionInv, Typed, TypeOK
    <2>6. FdInv' /\ SlotInv'
      BY <2>3, <2>4 DEF server, ElectionInv, FdInv, SlotInv
    <2>7. ElectorsAuthentic'
      BY <2>4, <2>5 DEF server, ElectionInv, ElectorsAuthentic, Typed
    <2> QED BY <2>5, <2>6, <2>7 DEF ElectionInv
  <1>4. CASE Interrupt \/ UdpStep
    <2>1. UNCHANGED <<clients, fd, electors, votes, batch, do_work, identity>>
      BY <1>4 DEF Interrupt, UdpStep, UdpTest, UdpTally, clients, server, flags
    <2>2. /\ mpc' \in {"test", "enter", "wait", "batch", "score", "freed", "exited", "failed"}
          /\ upc' \in {"test", "sleep", "ended", "undefined"} /\ do_work_glob' \in BOOLEAN
      <3>1. CASE Interrupt
        BY <3>1 DEF Interrupt, ElectionInv, Typed, TypeOK
      <3>2. CASE UdpStep
        BY <3>2 DEF UdpStep, UdpTest, UdpTally, server, flags, ElectionInv, Typed, TypeOK
      <3> QED BY <1>4, <3>1, <3>2
    <2> QED BY <2>1, <2>2
            DEF clients, ElectionInv, Typed, TypeOK, FdInv, SlotInv, ElectorsAuthentic
  <1>5. CASE UNCHANGED vars
    BY <1>5 DEF vars, clients, server, flags, ElectionInv, Typed, TypeOK, FdInv, SlotInv,
                ElectorsAuthentic
  <1> QED BY <1>1, <1>2, <1>3, <1>4, <1>5

\* The steps of main that look at no connection.
LEMMA LoopPreserves ==
    ASSUME ElectionInv, TestWork \/ EnterWait \/ Wake \/ EndBatch \/ Score \/ Exit
    PROVE  ElectionInv'
  <1>1. UNCHANGED <<clients, fd, electors, votes, do_work_glob, upc, identity>>
    BY DEF TestWork, EnterWait, Wake, EndBatch, Score, Exit, flags
  <1>2. /\ mpc' \in {"test", "enter", "wait", "batch", "score", "freed", "exited", "failed"}
        /\ do_work' \in BOOLEAN
    BY DEF TestWork, EnterWait, Wake, EndBatch, Score, Exit, flags, ElectionInv, Typed, TypeOK
  <1>3. batch' \subseteq Fds \cup {ListenFd}
    <2>1. CASE Wake
      <3>1. Ready \subseteq Fds \cup {ListenFd}
        BY DEF Ready, Readable, ElectionInv, Typed, TypeOK
      <3> QED BY <2>1, <3>1 DEF Wake
    <2>2. CASE ~Wake
      BY <2>2 DEF TestWork, EnterWait, EndBatch, Score, Exit, ElectionInv, Typed, TypeOK
    <2> QED BY <2>1, <2>2
  <1> QED BY <1>1, <1>2, <1>3
          DEF clients, ElectionInv, Typed, TypeOK, FdInv, SlotInv, ElectorsAuthentic

LEMMA AcceptPreserves == ASSUME ElectionInv, Accept PROVE ElectionInv'
  <1>1. PICK c \in Clients : /\ conn[c] = "queued"
                             /\ conn' = [conn EXCEPT ![c] = "open"]
                             /\ fd' = [fd EXCEPT ![c] = FreeFd]
    BY DEF Accept
  <1>2. fd[c] = 0 /\ identity[c] = 0
    BY <1>1 DEF ElectionInv, FdInv, SlotInv
  <1>3. FreeFd \in Fds /\ \A d \in Clients : fd[d] # FreeFd
    BY <1>2, FreeFdType DEF ElectionInv, Typed, TypeOK
  <1>4. fd' \in [Clients -> Fds \cup {0}] /\ fd'[c] = FreeFd
        /\ \A d \in Clients \ {c} : fd'[d] = fd[d]
    BY <1>1, <1>3 DEF ElectionInv, Typed, TypeOK
  <1>5. Typed'
    BY <1>1, <1>4 DEF Accept, flags, ElectionInv, Typed, TypeOK
  <1>6. FdInv'
    BY <1>1, <1>3, <1>4 DEF ElectionInv, Typed, TypeOK, FdInv
  <1>7. SlotInv' /\ ElectorsAuthentic'
    <2>1. UNCHANGED <<electors, identity>>
      BY DEF Accept
    <2>2. SlotInv'
      BY <1>2, <1>4, <2>1 DEF ElectionInv, SlotInv
    <2>3. ASSUME NEW k \in Electors, electors[k] # -1
          PROVE  \E d \in Clients : fd'[d] = electors[k] /\ identity[d] = k
      <3>1. PICK d \in Clients : fd[d] = electors[k] /\ identity[d] = k
        BY <2>3 DEF ElectionInv, ElectorsAuthentic
      <3>2. d # c
        BY <1>2, <3>1 DEF Electors
      <3> QED BY <1>4, <3>1, <3>2
    <2> QED BY <1>5, <2>1, <2>2, <2>3 DEF Typed, ElectorsAuthentic
  <1> QED BY <1>5, <1>6, <1>7 DEF ElectionInv

\* A client that is closed loses its identity with its descriptor.
LEMMA ReadEofPreserves ==
    ASSUME ElectionInv, NEW c \in Clients, ReadEof(c)
    PROVE  ElectionInv'
  <1>1. /\ fd[c] # 0 /\ fd' = [fd EXCEPT ![c] = 0] /\ identity' = [identity EXCEPT ![c] = 0]
        /\ fd \in [Clients -> Fds \cup {0}] /\ identity \in [Clients -> Electors \cup {0}]
        /\ electors \in [Electors -> Fds \cup {-1}] /\ electors' = Reset(fd[c])
    BY DEF ReadEof, CloseClient, ElectionInv, Typed, TypeOK
  <1>2. \A k \in Electors : electors'[k] = IF electors[k] = fd[c] THEN -1 ELSE electors[k]
    <2>1. CASE \E k \in Electors : electors[k] = fd[c]
      <3>1. PICK k \in Electors : electors[k] = fd[c]
        BY <2>1
      <3>2. Search(fd[c]) = k /\ \A j \in Electors : electors[j] = fd[c] => j = k
        BY <1>1, <3>1, SlotUnique
      <3>3. electors' = [electors EXCEPT ![k] = -1]
        BY <1>1, <2>1, <3>2 DEF Reset
      <3> QED BY <1>1, <3>1, <3>2, <3>3
    <2>2. CASE ~\E k \in Electors : electors[k] = fd[c]
      BY <1>1, <2>2 DEF Reset
    <2> QED BY <2>1, <2>2
  <1>3. electors' \in [Electors -> Fds \cup {-1}]
    <2>1. electors' = electors \/ electors' = [electors EXCEPT ![Search(fd[c])] = -1]
      BY <1>1 DEF Reset
    <2> QED BY <1>1, <2>1
  <1>4. Typed'
    <2>1. sent' \in [Clients -> Seq(Bytes)]
      BY DEF ReadEof, CloseClient, ElectionInv, Typed
    <2> QED BY <1>1, <1>3, <2>1 DEF ReadEof, CloseClient, flags, ElectionInv, Typed, TypeOK
  <1>5. FdInv'
    BY <1>1 DEF ReadEof, CloseClient, ElectionInv, Typed, TypeOK, FdInv
  <1>6. SlotInv'
    <2> SUFFICES ASSUME NEW d \in Clients, identity'[d] # 0
                 PROVE  fd'[d] # 0 /\ electors'[identity'[d]] = fd'[d]
      BY DEF SlotInv
    <2>1. d # c /\ identity'[d] = identity[d] /\ fd'[d] = fd[d] /\ identity[d] \in Electors
      BY <1>1
    <2>2. fd[d] # 0 /\ electors[identity[d]] = fd[d] /\ fd[d] # fd[c]
      BY <1>1, <2>1 DEF ElectionInv, SlotInv, FdInv
    <2> QED BY <1>2, <2>1, <2>2
  <1>7. ElectorsAuthentic'
    <2>1. ASSUME NEW k \in Electors, electors'[k] # -1
          PROVE  \E d \in Clients : fd'[d] = electors'[k] /\ identity'[d] = k
      <3>1. electors'[k] = electors[k] /\ electors[k] # fd[c]
        BY <1>2, <2>1
      <3>2. PICK d \in Clients : fd[d] = electors[k] /\ identity[d] = k
        BY <2>1, <3>1 DEF ElectionInv, ElectorsAuthentic
      <3> QED BY <1>1, <3>1, <3>2
    <2> QED BY <1>4, <2>1 DEF Typed, ElectorsAuthentic
  <1> QED BY <1>4, <1>5, <1>6, <1>7 DEF ElectionInv

\* A byte is a vote in the client's own slot, an introduction or its end.
LEMMA ReadBytePreserves ==
    ASSUME ElectionInv, NEW c \in Clients, ReadByte(c)
    PROVE  ElectionInv' /\ \A k \in Electors : votes'[k] # votes[k] => Chosen(k)
  <1>1. /\ fd[c] # 0 /\ Head(sent[c]) \in Bytes /\ Tail(sent[c]) \in Seq(Bytes)
        /\ conn[c] \notin {"none", "queued"}
        /\ batch' \subseteq Fds \cup {ListenFd} /\ UNCHANGED <<mpc, flags, upc>>
    BY DEF ReadByte, ElectionInv, Typed, TypeOK, FdInv
  <1>2. CASE Registered(c)
    <2>1. PICK k \in Electors : electors[k] = fd[c]
      BY <1>2 DEF Registered
    <2>2. /\ votes' = [votes EXCEPT ![k] = VoteOf(Head(sent[c]), votes[k])]
          /\ sent' = [sent EXCEPT ![c] = Tail(sent[c])]
          /\ UNCHANGED <<conn, fd, electors, identity>>
      BY <1>1, <1>2, <2>1, SlotUnique DEF ReadByte
    <2>3. /\ votes' \in [Electors -> Candidates \cup {0}]
          /\ \A j \in Electors : votes'[j] # votes[j] =>
               j = k /\ votes'[k] = Head(sent[c]) /\ Head(sent[c]) \in Candidates
      BY <2>2 DEF VoteOf, Candidates, ElectionInv, Typed, TypeOK
    <2>4. sent' \in [Clients -> Seq(Bytes)]
      BY <1>1, <2>2 DEF ElectionInv, Typed
    <2>5. \A j \in Electors : votes'[j] # votes[j] => Chosen(j)
      <3>1. identity[c] = k /\ sent[c] # <<>>
        BY <1>1, <2>1, SlotUnique DEF ReadByte
      <3> QED BY <2>1, <2>3, <3>1 DEF Chosen
    <2> QED BY <1>1, <2>2, <2>3, <2>4, <2>5
            DEF flags, ElectionInv, Typed, TypeOK, FdInv, SlotInv, ElectorsAuthentic
  <1>3. CASE ~Registered(c)
    <2>1. Introduce(c, Head(sent[c])) /\ UNCHANGED votes
      BY <1>3 DEF ReadByte
    <2>2. identity[c] = 0
      BY <1>1, <1>3 DEF Registered, ElectionInv, SlotInv, Typed, TypeOK
    <2>3. CASE Head(sent[c]) \in Electors /\ electors[Head(sent[c])] = -1
      <3> DEFINE b == Head(sent[c])
      <3>1. /\ electors' = [electors EXCEPT ![b] = fd[c]]
            /\ identity' = [identity EXCEPT ![c] = b]
            /\ sent' = [sent EXCEPT ![c] = Tail(sent[c])]
            /\ UNCHANGED <<conn, fd>>
        BY <2>1, <2>3 DEF Introduce, Welcome
      <3>2. b \in Electors /\ electors[b] = -1
        BY <2>3
      <3> HIDE DEF b
      <3>3. Typed'
        <4>1. sent' \in [Clients -> Seq(Bytes)]
          BY <1>1, <3>1 DEF ElectionInv, Typed
        <4> QED BY <1>1, <2>1, <3>1, <3>2, <4>1 DEF flags, ElectionInv, Typed, TypeOK
      <3>4. FdInv'
        BY <3>1 DEF ElectionInv, FdInv
      <3>5. SlotInv'
        <4>1. ASSUME NEW d \in Clients, d # c, identity[d] # 0
              PROVE  identity[d] # b
          BY <3>2, <4>1 DEF ElectionInv, SlotInv, Typed, TypeOK, Fds
        <4> QED BY <1>1, <3>1, <3>2, <4>1 DEF ElectionInv, SlotInv, Typed, TypeOK
      <3>6. ElectorsAuthentic'
        <4>1. ASSUME NEW k \in Electors, electors'[k] # -1
              PROVE  \E d \in Clients : fd[d] = electors'[k] /\ identity'[d] = k
          <5>1. CASE k = b
            BY <3>1, <3>2, <5>1 DEF ElectionInv, Typed, TypeOK
          <5>2. CASE k # b
            <6>1. electors'[k] = electors[k]
              BY <3>1, <5>2
            <6>2. PICK d \in Clients : fd[d] = electors[k] /\ identity[d] = k
              BY <4>1, <6>1 DEF ElectionInv, ElectorsAuthentic
            <6>3. d # c
              BY <2>2, <6>2 DEF Electors
            <6> QED BY <3>1, <6>1, <6>2, <6>3
          <5> QED BY <5>1, <5>2
        <4> QED BY <3>1, <3>3, <4>1 DEF Typed, ElectorsAuthentic
      <3> QED BY <2>1, <3>3, <3>4, <3>5, <3>6 DEF ElectionInv
    <2>4. CASE ~(Head(sent[c]) \in Electors /\ electors[Head(sent[c])] = -1)
      <3>1. CloseClient(c) /\ UNCHANGED electors
        BY <2>1, <2>4 DEF Introduce, Welcome
      <3>2. \A k \in Electors : electors[k] # fd[c]
        BY <1>3 DEF Registered
      <3>3. Typed'
        <4>1. sent' \in [Clients -> Seq(Bytes)]
          BY <3>1 DEF CloseClient, ElectionInv, Typed
        <4> QED BY <1>1, <2>1, <3>1, <4>1 DEF CloseClient, flags, ElectionInv, Typed, TypeOK
      <3>4. FdInv' /\ SlotInv'
        BY <3>1 DEF CloseClient, ElectionInv, FdInv, SlotInv, Typed, TypeOK
      <3>5. ElectorsAuthentic'
        <4>1. ASSUME NEW k \in Electors, electors[k] # -1
              PROVE  \E d \in Clients : fd'[d] = electors[k] /\ identity'[d] = k
          <5>1. PICK d \in Clients : fd[d] = electors[k] /\ identity[d] = k
            BY <4>1 DEF ElectionInv, ElectorsAuthentic
          <5> QED BY <3>1, <3>2, <5>1 DEF CloseClient, ElectionInv, Typed, TypeOK
        <4> QED BY <3>1, <3>3, <4>1 DEF Typed, ElectorsAuthentic
      <3> QED BY <2>1, <3>3, <3>4, <3>5 DEF ElectionInv
    <2> QED BY <2>3, <2>4
  <1> QED BY <1>2, <1>3

LEMMA ElectionNext ==
    ASSUME ElectionInv, [Next]_vars
    PROVE  ElectionInv' /\ \A k \in Electors : votes'[k] # votes[k] => Chosen(k)
  <1>1. CASE \E c \in Clients : ReadByte(c)
    BY <1>1, ReadBytePreserves
  <1>2. ASSUME NEW c \in Clients, WelcomeFails(c) \/ ReadEof(c) \/ ReadReset(c)
        PROVE  ElectionInv' /\ UNCHANGED votes
    <2>1. CASE ReadEof(c)
      BY <2>1, ReadEofPreserves DEF ReadEof
    <2>2. CASE WelcomeFails(c) \/ ReadReset(c)
      BY <2>2 DEF WelcomeFails, ReadReset, clients, flags, ElectionInv, Typed, TypeOK, FdInv, SlotInv,
                  ElectorsAuthentic
    <2> QED BY <1>2, <2>1, <2>2
  <1>3. CASE Accept
    BY <1>3, AcceptPreserves DEF Accept
  <1>4. CASE TestWork \/ EnterWait \/ Wake \/ EndBatch \/ Score \/ Exit
    BY <1>4, LoopPreserves DEF TestWork, EnterWait, Wake, EndBatch, Score, Exit
  <1>5. CASE \/ \E c \in Clients : Connect(c) \/ SendByte(c) \/ Disconnect(c)
             \/ Interrupt \/ UdpStep \/ UNCHANGED vars
    <2>1. ElectionInv'
      BY <1>5, OthersPreserve
    <2>2. UNCHANGED votes
      BY <1>5 DEF Connect, SendByte, Disconnect, Interrupt, UdpStep, UdpTest, UdpTally,
                  server, vars
    <2> QED BY <2>1, <2>2
  <1> QED BY <1>1, <1>2, <1>3, <1>4, <1>5 DEF Next, MainStep, Over

\* Whichever server is started, the election keeps its invariant.
LEMMA ElectionInvariance == LabSpec => []ElectionInv
  <1>1. LabInit => ElectionInv
    BY ElectionInit DEF LabInit
  <1>2. ElectionInv /\ [LabNext]_labVars => ElectionInv'
    BY ElectionNext DEF LabNext, Voting, Calculator, labVars
  <1> QED BY <1>1, <1>2, PTL DEF LabSpec

(* A slot of electors is never left to a client that was given a closed    *)
(* descriptor: nobody votes for another elector (run_tcp, close_client).   *)
THEOREM NobodyVotesForAnother == LabSpec => []ElectorsAuthentic
  <1>1. ElectionInv => ElectorsAuthentic
    BY DEF ElectionInv
  <1> QED BY <1>1, ElectionInvariance, PTL

(* The vote of an elector changes only to a candidate named by the client  *)
(* that introduced itself as that elector and still holds the slot: no     *)
(* disconnection, impostor, reused descriptor or byte that names no        *)
(* candidate changes it or takes it back (the event loop of run_tcp).      *)
THEOREM VotesByTheirElectors == LabSpec => VotesAuthentic
  <1>1. ElectionInv /\ [LabNext]_labVars
          => [\A k \in Electors : votes'[k] # votes[k] => Chosen(k)]_vars
    BY ElectionNext DEF LabNext, Voting, Calculator, labVars
  <1> QED BY <1>1, ElectionInvariance, PTL DEF LabSpec, VotesAuthentic

-----------------------------------------------------------------------------
(* Calculator: the arithmetic.                                             *)

Integer == Calc!MinInt .. Calc!MaxInt

(* The integers of the machine; what clients ask fits in them, and the     *)
(* rest of a request may be anything.                                      *)
CalcSizes == /\ Half \in Nat \ {0}
             /\ \A c \in CalcClients : \A r \in Requests[c] : r.a \in Integer /\ r.b \in Integer

LEMMA Division ==
    ASSUME NEW a \in Int, NEW b \in Nat \ {0}
    PROVE  /\ a \div b \in Int /\ a % b \in 0 .. b - 1
           /\ a = b * (a \div b) + (a % b)
  OBVIOUS

LEMMA Multiple == ASSUME NEW q \in Int, NEW b \in Nat \ {0} PROVE (b * q) % b = 0
  OBVIOUS

LEMMA WrapCongruent ==
    ASSUME Half \in Nat \ {0}, NEW v \in Int
    PROVE  Calc!Congruent(Calc!Wrap(v), v)
  <1>1. Calc!Modulus \in Nat \ {0} /\ v + Half \in Int /\ v - Calc!MinInt = v + Half
    BY DEF Calc!Modulus, Calc!MinInt
  <1> DEFINE m == (v + Half) % Calc!Modulus
             q == (v + Half) \div Calc!Modulus
  <1>2. m \in 0 .. Calc!Modulus - 1 /\ q \in Int /\ v + Half = Calc!Modulus * q + m
    BY <1>1, Division
  <1>3. Calc!Wrap(v) = m - Half
    BY <1>1, <1>2 DEF Calc!Wrap, Calc!MinInt
  <1> HIDE DEF m, q
  <1>4. Calc!Wrap(v) - v = Calc!Modulus * (-q)
    BY <1>1, <1>2, <1>3
  <1>5. Calc!Wrap(v) \in Calc!MinInt .. Calc!MaxInt
    BY <1>1, <1>2, <1>3 DEF Calc!Modulus, Calc!MinInt, Calc!MaxInt
  <1>6. (Calc!Modulus * (-q)) % Calc!Modulus = 0
    BY <1>1, <1>2, Multiple
  <1> QED BY <1>4, <1>5, <1>6 DEF Calc!Congruent

LEMMA WrapFits ==
    ASSUME Half \in Nat \ {0}, NEW v \in Integer
    PROVE  Calc!Wrap(v) = v
  BY DEF Integer, Calc!Wrap, Calc!Modulus, Calc!MinInt, Calc!MaxInt

LEMMA NatDivision ==
    ASSUME NEW a \in Nat, NEW b \in Nat \ {0}
    PROVE  \E q \in 0 .. a, r \in 0 .. b - 1 :
              /\ a \div b = q /\ a = b * q + r
              /\ b >= 2 /\ a >= 1 => q < a
  <1>1. ASSUME NEW q \in Int, NEW r \in 0 .. b - 1, a = b * q + r
        PROVE  q \in 0 .. a /\ (b >= 2 /\ a >= 1 => q < a)
    <2>1. q >= 0
      <3>1. q <= -1 => b * q <= -b
        OBVIOUS
      <3> QED BY <1>1, <3>1
    <2>2. b * q >= q /\ (b >= 2 => b * q >= 2 * q)
      BY <2>1
    <2> QED BY <1>1, <2>1, <2>2
  <1>2. a \div b \in Int /\ a % b \in 0 .. b - 1 /\ a = b * (a \div b) + (a % b)
    BY Division
  <1> QED BY <1>1, <1>2

LEMMA SquareSmaller ==
    ASSUME NEW B \in Nat \ {0}, NEW r \in 0 .. B - 1
    PROVE  r * r < B * B
  <1>1. r * r <= r * B
    OBVIOUS
  <1>2. r * B <= (B - 1) * B
    OBVIOUS
  <1>3. (B - 1) * B < B * B
    OBVIOUS
  <1> QED BY <1>1, <1>2, <1>3

\* Towards zero, with the remainder on the side of the dividend.
LEMMA QuotientRight ==
    ASSUME Half \in Nat \ {0}, NEW a \in Integer, NEW b \in Integer, b # 0,
           ~(a = Calc!MinInt /\ b = -1)
    PROVE  /\ Calc!Quotient(a, b) \in Integer
           /\ Calc!IsQuotient(Calc!Quotient(a, b), a, b)
  <1>0. a \in Int /\ b \in Int /\ -Half <= a /\ a < Half /\ -Half <= b /\ b < Half /\ Half \in Nat
    BY DEF Integer, Calc!MinInt, Calc!MaxInt
  <1>1. ~(a = -Half /\ b = -1)
    BY DEF Calc!MinInt
  <1> DEFINE A == IF a < 0 THEN -a ELSE a
             B == IF b < 0 THEN -b ELSE b
  <1>2. A \in Nat /\ B \in Nat \ {0} /\ A <= Half /\ B <= Half
    BY <1>0
  <1>3. PICK q \in 0 .. A, r \in 0 .. B - 1 :
          A \div B = q /\ A = B * q + r /\ (B >= 2 /\ A >= 1 => q < A)
    BY <1>2, NatDivision
  <1>4. Calc!Quotient(a, b) = IF (a < 0) = (b < 0) THEN q ELSE -q
    BY <1>3 DEF Calc!Quotient
  <1>5. Calc!Quotient(a, b) \in Integer
    BY <1>0, <1>1, <1>2, <1>3, <1>4 DEF Integer, Calc!MinInt, Calc!MaxInt
  <1> DEFINE s == IF a < 0 THEN -r ELSE r
  <1>6. s \in Calc!MinInt .. Calc!MaxInt
    BY <1>0, <1>2, <1>3 DEF Calc!MinInt, Calc!MaxInt
  <1>7. a = Calc!Quotient(a, b) * b + s
    <2>1. CASE a < 0 /\ b < 0
      BY <1>0, <1>3, <1>4, <2>1
    <2>2. CASE a < 0 /\ ~(b < 0)
      BY <1>0, <1>3, <1>4, <2>2
    <2>3. CASE ~(a < 0) /\ b < 0
      BY <1>0, <1>3, <1>4, <2>3
    <2>4. CASE ~(a < 0) /\ ~(b < 0)
      BY <1>0, <1>3, <1>4, <2>4
    <2> QED BY <2>1, <2>2, <2>3, <2>4
  <1>8. s * a >= 0 /\ s * s < b * b
    <2>1. s * a = r * A /\ s * s = r * r /\ b * b = B * B
      BY <1>0, <1>3
    <2>2. r * A >= 0
      BY <1>2, <1>3
    <2>3. r * r < B * B
      BY <1>2, <1>3, SquareSmaller
    <2> QED BY <2>1, <2>2, <2>3
  <1> QED BY <1>5, <1>6, <1>7, <1>8 DEF Calc!IsQuotient

\* What calculate returns is the answer to the request in the buffer.
LEMMA CalculateRight ==
    ASSUME Half \in Nat \ {0}, NEW d, d.a \in Integer, d.b \in Integer, ~Calc!Traps(d)
    PROVE  Calc!IsAnswer(Calc!Calculate(d), d)
  <1>1. /\ d.a + d.b \in Int /\ d.a - d.b \in Int /\ d.a * d.b \in Int
        /\ d.a \in Int /\ d.b \in Int
    BY DEF Integer, Calc!MinInt, Calc!MaxInt
  <1>2. CASE d.op = "+"
    BY <1>1, <1>2, WrapCongruent DEF Calc!IsAnswer, Calc!Calculate, Calc!Done
  <1>3. CASE d.op = "-"
    BY <1>1, <1>3, WrapCongruent DEF Calc!IsAnswer, Calc!Calculate, Calc!Done
  <1>4. CASE d.op = "*"
    BY <1>1, <1>4, WrapCongruent DEF Calc!IsAnswer, Calc!Calculate, Calc!Done
  <1>5. CASE d.op = "/" /\ d.b # 0
    <2>1. ~(d.a = Calc!MinInt /\ d.b = -1)
      BY <1>5 DEF Calc!Traps
    <2>2. Calc!Calculate(d) = [status |-> 1, result |-> Calc!Quotient(d.a, d.b)]
      BY <1>5, <2>1, QuotientRight, WrapFits DEF Calc!Calculate, Calc!CanDivide, Calc!Done
    <2> QED BY <1>5, <2>1, <2>2, QuotientRight DEF Calc!IsAnswer
  <1>6. CASE d.op \notin {"+", "-", "*"} /\ (d.op = "/" => d.b = 0)
    BY <1>6 DEF Calc!IsAnswer, Calc!Calculate, Calc!CanDivide, Calc!Impossible
  <1> QED BY <1>2, <1>3, <1>4, <1>5, <1>6

-----------------------------------------------------------------------------
(* Calculator: the clients.                                                *)

CalcTyped ==
    /\ spc \in {"loop", "poll", "serve", "read", "answer", "close",
                "exited", "failed", "crashed"}
    /\ backlog \in [Calc!Sockets -> Seq(CalcClients)]
    /\ events \subseteq {s \in Calc!Sockets : backlog[s] # <<>>}
    /\ data = [a |-> data.a, b |-> data.b, op |-> data.op]
    /\ size \in 0 .. 2
    /\ request = [c \in CalcClients |-> request[c]]
    /\ cpc \in [CalcClients -> {"idle", "write", "wait", "printed", "failed", "silent", "gone"}]
    /\ written \in [CalcClients -> 0 .. 2]
    /\ answer = [c \in CalcClients |-> answer[c]]

\* A client that waits to be accepted does so once, connected and unanswered.
QueueInv ==
    \A s \in Calc!Sockets : \A k \in 1 .. Len(backlog[s]) :
       /\ Calc!SocketOf(backlog[s][k]) = s
       /\ cpc[backlog[s][k]] # "idle"
       /\ answer[backlog[s][k]] = <<>>
       /\ \A m \in 1 .. Len(backlog[s]) : backlog[s][k] = backlog[s][m] => k = m

\* So does the client that is served, and it has left the queue.
ServedInv ==
    spc \in {"read", "answer"} =>
       /\ client \in CalcClients /\ cpc[client] # "idle" /\ answer[client] = <<>>
       /\ \A s \in Calc!Sockets : \A k \in 1 .. Len(backlog[s]) : backlog[s][k] # client

\* What is read of the buffer is from the client that is served.
BufferInv ==
    /\ spc \in {"read", "answer"} =>
         /\ size <= written[client]
         /\ size >= 1 => data.a = request[client].a /\ data.b = request[client].b
    /\ spc = "read" => size < 2
    /\ spc = "answer" => size = 2 /\ data.op = request[client].op

\* A client that is not connected has sent and received nothing.
ClientInv ==
    \A c \in CalcClients :
       /\ cpc[c] = "write" => written[c] < 2
       /\ cpc[c] = "idle" => written[c] = 0 /\ answer[c] = <<>>
       /\ cpc[c] # "idle" => request[c].a \in Integer /\ request[c].b \in Integer

CalcInv == CalcTyped /\ QueueInv /\ ServedInv /\ BufferInv /\ ClientInv /\ AnswersOwnRequest

LEMMA CalcInit == ASSUME CalcSizes, Calc!Init PROVE CalcInv
  <1>1. CalcTyped
    BY DEF Calc!Init, CalcTyped
  <1>2. AnswersOwnRequest
    BY DEF Calc!Init, AnswersOwnRequest, Calc!AnswersOwnRequest
  <1>3. QueueInv /\ ServedInv /\ BufferInv /\ ClientInv
    BY DEF Calc!Init, QueueInv, ServedInv, BufferInv, ClientInv
  <1> QED BY <1>1, <1>2, <1>3 DEF CalcInv

calcClients == <<request, cpc, written, answer, lost>>

\* Steps of the server that concern no client.
LEMMA CalcQuiet ==
    ASSUME CalcInv, UNCHANGED <<backlog, client, data, size, calcClients>>,
           spc' \in {"loop", "poll", "serve", "close", "exited", "failed", "crashed"},
           events' \subseteq {s \in Calc!Sockets : backlog[s] # <<>>}
    PROVE  CalcInv'
  <1>1. CalcTyped'
    BY DEF CalcInv, CalcTyped, calcClients
  <1>2. AnswersOwnRequest'
    BY DEF CalcInv, AnswersOwnRequest, Calc!AnswersOwnRequest, calcClients
  <1>3. QueueInv'
    BY DEF CalcInv, QueueInv, calcClients
  <1>4. ServedInv' /\ BufferInv' /\ ClientInv'
    BY DEF CalcInv, ServedInv, BufferInv, ClientInv, calcClients
  <1> QED BY <1>1, <1>2, <1>3, <1>4 DEF CalcInv

\* Nothing but events, do_work or sigint changes.
LEMMA CalcStutter ==
    ASSUME CalcInv, UNCHANGED <<spc, backlog, events, client, data, size, calcClients>>
    PROVE  CalcInv'
  <1>1. CalcTyped'
    BY DEF CalcInv, CalcTyped, calcClients
  <1>2. AnswersOwnRequest'
    BY DEF CalcInv, AnswersOwnRequest, Calc!AnswersOwnRequest, calcClients
  <1>3. QueueInv' /\ ServedInv' /\ BufferInv' /\ ClientInv'
    BY DEF CalcInv, QueueInv, ServedInv, BufferInv, ClientInv, calcClients
  <1> QED BY <1>1, <1>2, <1>3 DEF CalcInv

LEMMA CalcAccept ==
    ASSUME CalcInv, NEW s \in Calc!Sockets, Calc!Accept(s)
    PROVE  CalcInv'
  <1>1. /\ s \in events /\ client' = Head(backlog[s])
        /\ backlog' = [backlog EXCEPT ![s] = Tail(@)]
        /\ events' = events \ {s} /\ size' = 0 /\ spc' = "read"
        /\ UNCHANGED <<data, calcClients>>
    BY DEF Calc!Accept, Calc!clients, calcClients
  <1>2. /\ backlog[s] \in Seq(CalcClients) /\ backlog[s] # <<>>
        /\ backlog \in [Calc!Sockets -> Seq(CalcClients)]
    BY <1>1 DEF CalcInv, CalcTyped
  <1> DEFINE q == backlog[s]
  <1>3. /\ Len(q) >= 1 /\ Head(q) = q[1] /\ Head(q) \in CalcClients
        /\ Tail(q) \in Seq(CalcClients) /\ Len(Tail(q)) = Len(q) - 1
        /\ \A k \in 1 .. Len(Tail(q)) : Tail(q)[k] = q[k + 1]
    BY <1>2
  <1>4. /\ backlog' \in [Calc!Sockets -> Seq(CalcClients)]
        /\ backlog'[s] = Tail(q)
        /\ \A t \in Calc!Sockets \ {s} : backlog'[t] = backlog[t]
    BY <1>1, <1>2, <1>3
  <1>5. \A t \in Calc!Sockets : \A k \in 1 .. Len(backlog'[t]) :
           \E m \in 1 .. Len(backlog[t]) :
              backlog'[t][k] = backlog[t][m] /\ m = (IF t = s THEN k + 1 ELSE k)
    <2> SUFFICES ASSUME NEW t \in Calc!Sockets, NEW k \in 1 .. Len(backlog'[t])
                 PROVE  \E m \in 1 .. Len(backlog[t]) :
                           backlog'[t][k] = backlog[t][m] /\ m = (IF t = s THEN k + 1 ELSE k)
      OBVIOUS
    <2>1. CASE t = s
      BY <1>2, <1>3, <1>4, <2>1
    <2>2. CASE t # s
      BY <1>4, <2>2
    <2> QED BY <2>1, <2>2
  <1>6. /\ Calc!SocketOf(q[1]) = s /\ cpc[q[1]] # "idle" /\ answer[q[1]] = <<>>
        /\ \A m \in 1 .. Len(q) : q[m] = q[1] => m = 1
    BY <1>2, <1>3 DEF CalcInv, QueueInv
  <1>7. CalcTyped'
    <2>1. events' \subseteq {t \in Calc!Sockets : backlog'[t] # <<>>}
      BY <1>1, <1>4 DEF CalcInv, CalcTyped
    <2> QED BY <1>1, <1>4, <2>1 DEF CalcInv, CalcTyped, calcClients
  <1>8. QueueInv'
    <2>1. ASSUME NEW t \in Calc!Sockets, NEW k \in 1 .. Len(backlog'[t]),
                 NEW m \in 1 .. Len(backlog'[t])
          PROVE  /\ Calc!SocketOf(backlog'[t][k]) = t /\ cpc[backlog'[t][k]] # "idle"
                 /\ answer[backlog'[t][k]] = <<>>
                 /\ backlog'[t][k] = backlog'[t][m] => k = m
      <3>1. PICK u \in 1 .. Len(backlog[t]) :
               backlog'[t][k] = backlog[t][u] /\ u = (IF t = s THEN k + 1 ELSE k)
        BY <1>5
      <3>2. PICK v \in 1 .. Len(backlog[t]) :
               backlog'[t][m] = backlog[t][v] /\ v = (IF t = s THEN m + 1 ELSE m)
        BY <1>5
      <3>3. u = v => k = m
        BY <3>1, <3>2
      <3> QED BY <3>1, <3>2, <3>3 DEF CalcInv, QueueInv
    <2> QED BY <1>1, <2>1 DEF QueueInv, calcClients
  <1>9. ServedInv'
    <2>1. ASSUME NEW t \in Calc!Sockets, NEW k \in 1 .. Len(backlog'[t]), backlog'[t][k] = q[1]
          PROVE  FALSE
      <3>1. PICK u \in 1 .. Len(backlog[t]) :
               backlog'[t][k] = backlog[t][u] /\ u = (IF t = s THEN k + 1 ELSE k)
        BY <1>5
      <3>2. Calc!SocketOf(backlog[t][u]) = t
        BY DEF CalcInv, QueueInv
      <3>3. t = s
        BY <1>6, <2>1, <3>1, <3>2
      <3> QED BY <1>6, <2>1, <3>1, <3>3
    <2> QED BY <1>1, <1>3, <1>6, <2>1 DEF ServedInv, calcClients
  <1>10. BufferInv'
    <2>1. client' \in CalcClients
      BY <1>1, <1>3
    <2>2. \A c \in CalcClients : 0 <= written[c]
      BY DEF CalcInv, CalcTyped
    <2> QED BY <1>1, <2>1, <2>2 DEF BufferInv, calcClients
  <1>11. ClientInv' /\ AnswersOwnRequest'
    BY <1>1 DEF CalcInv, ClientInv, AnswersOwnRequest, Calc!AnswersOwnRequest, calcClients
  <1> QED BY <1>7, <1>8, <1>9, <1>10, <1>11 DEF CalcInv

LEMMA CalcReadPart ==
    ASSUME CalcInv, Calc!ReadPart
    PROVE  CalcInv'
  <1>1. /\ spc = "read" /\ size < written[client]
        /\ data' = IF size = 0
                     THEN [data EXCEPT !.a = request[client].a, !.b = request[client].b]
                     ELSE [data EXCEPT !.op = request[client].op]
        /\ size' = size + 1 /\ spc' = (IF size' = 2 THEN "answer" ELSE "read")
        /\ UNCHANGED <<backlog, events, client, calcClients>>
    BY DEF Calc!ReadPart, Calc!clients, calcClients
  <1>2. /\ client \in CalcClients /\ written[client] \in 0 .. 2 /\ size \in 0 .. 1
        /\ data = [a |-> data.a, b |-> data.b, op |-> data.op]
    BY <1>1 DEF CalcInv, CalcTyped, ServedInv, BufferInv
  <1>3. /\ data' = [a |-> data'.a, b |-> data'.b, op |-> data'.op]
        /\ size = 0 => data'.a = request[client].a /\ data'.b = request[client].b
        /\ size # 0 => /\ data'.a = data.a /\ data'.b = data.b
                       /\ data'.op = request[client].op
    <2>1. CASE size = 0
      <3>1. data' = [a |-> request[client].a, b |-> request[client].b, op |-> data.op]
        BY <1>1, <1>2, <2>1
      <3> QED BY <2>1, <3>1
    <2>2. CASE size # 0
      <3>1. data' = [a |-> data.a, b |-> data.b, op |-> request[client].op]
        BY <1>1, <1>2, <2>2
      <3> QED BY <2>2, <3>1
    <2> QED BY <2>1, <2>2
  <1>4. CalcTyped'
    BY <1>1, <1>2, <1>3 DEF CalcInv, CalcTyped, calcClients
  <1>5. QueueInv' /\ ServedInv'
    BY <1>1 DEF CalcInv, QueueInv, ServedInv, calcClients
  <1>6. BufferInv'
    BY <1>1, <1>2, <1>3 DEF CalcInv, BufferInv, calcClients
  <1>7. ClientInv' /\ AnswersOwnRequest'
    BY <1>1 DEF CalcInv, ClientInv, AnswersOwnRequest, Calc!AnswersOwnRequest, calcClients
  <1> QED BY <1>4, <1>5, <1>6, <1>7 DEF CalcInv

LEMMA CalcAnswer ==
    ASSUME CalcSizes, CalcInv, Calc!Answer
    PROVE  CalcInv'
  <1>1. /\ spc = "answer" /\ ~Calc!Traps(data)
        /\ answer' = [answer EXCEPT ![client] = Append(@, Calc!Calculate(data))]
        /\ spc' = "close"
        /\ UNCHANGED <<backlog, events, client, data, size, request, cpc, written>>
    BY DEF Calc!Answer
  <1>2. /\ client \in CalcClients /\ cpc[client] # "idle" /\ answer[client] = <<>>
        /\ \A s \in Calc!Sockets : \A k \in 1 .. Len(backlog[s]) : backlog[s][k] # client
    BY <1>1 DEF CalcInv, ServedInv
  <1>3. /\ written[client] = 2 /\ data.a = request[client].a
        /\ data.b = request[client].b /\ data.op = request[client].op
    BY <1>1, <1>2 DEF CalcInv, CalcTyped, BufferInv
  <1>4. data.a \in Integer /\ data.b \in Integer
    BY <1>2, <1>3 DEF CalcInv, ClientInv
  <1> DEFINE m == Calc!Calculate(data)
  <1>5. Calc!IsAnswer(m, request[client])
    <2>1. Calc!IsAnswer(m, data)
      BY <1>1, <1>4, CalculateRight DEF CalcSizes
    <2> HIDE DEF m
    <2> QED BY <1>3, <2>1 DEF Calc!IsAnswer
  <1> HIDE DEF m
  <1>6. /\ answer'[client] = <<m>>
        /\ \A c \in CalcClients \ {client} : answer'[c] = answer[c]
        /\ answer' = [c \in CalcClients |-> answer'[c]]
    <2>1. answer = [c \in CalcClients |-> answer[c]]
      BY DEF CalcInv, CalcTyped
    <2>2. answer' = [answer EXCEPT ![client] = Append(@, m)]
      BY <1>1 DEF m
    <2>3. Append(answer[client], m) = <<m>>
      BY <1>2
    <2> QED BY <1>2, <2>1, <2>2, <2>3
  <1>7. CalcTyped'
    BY <1>1, <1>6 DEF CalcInv, CalcTyped
  <1>8. QueueInv'
    <2>1. \A s \in Calc!Sockets : \A k \in 1 .. Len(backlog[s]) :
             backlog[s][k] \in CalcClients \ {client}
      BY <1>2 DEF CalcInv, CalcTyped
    <2> QED BY <1>1, <1>6, <2>1 DEF CalcInv, QueueInv
  <1>9. ServedInv' /\ BufferInv'
    BY <1>1 DEF ServedInv, BufferInv
  <1>10. ClientInv'
    BY <1>1, <1>2, <1>6 DEF CalcInv, ClientInv
  <1>11. AnswersOwnRequest'
    <2>1. ASSUME NEW c \in CalcClients
          PROVE  /\ Len(answer'[c]) <= 1
                 /\ answer'[c] # <<>> =>
                      written[c] = 2 /\ Calc!IsAnswer(answer'[c][1], request[c])
      <3>1. CASE c = client
        <4>1. answer'[c] = <<m>> /\ Len(<<m>>) = 1 /\ <<m>>[1] = m
          BY <1>6, <3>1
        <4> QED BY <1>3, <1>5, <3>1, <4>1
      <3>2. CASE c # client
        BY <1>6, <3>2 DEF CalcInv, AnswersOwnRequest, Calc!AnswersOwnRequest
      <3> QED BY <3>1, <3>2
    <2> QED BY <1>1, <2>1 DEF AnswersOwnRequest, Calc!AnswersOwnRequest
  <1> QED BY <1>7, <1>8, <1>9, <1>10, <1>11 DEF CalcInv

\* Steps of the clients that change nothing but cpc, lost and written.
LEMMA CalcClientMoves ==
    ASSUME CalcInv, NEW c \in CalcClients, cpc[c] # "idle",
           NEW p \in {"write", "wait", "printed", "failed", "silent", "gone"},
           cpc' = [cpc EXCEPT ![c] = p],
           written' \in [CalcClients -> 0 .. 2],
           \A d \in CalcClients : written'[d] = written[d] \/ (d = c /\ written[d] < written'[d]),
           p = "write" => written'[c] < 2,
           UNCHANGED <<spc, backlog, events, client, data, size, request, answer>>
    PROVE  CalcInv'
  <1>1. /\ cpc' \in [CalcClients ->
                       {"idle", "write", "wait", "printed", "failed", "silent", "gone"}]
        /\ \A d \in CalcClients : cpc'[d] = IF d = c THEN p ELSE cpc[d]
    BY DEF CalcInv, CalcTyped
  <1>2. CalcTyped'
    BY <1>1 DEF CalcInv, CalcTyped
  <1>3. \A d \in CalcClients :
           written[d] \in 0 .. 2 /\ written'[d] \in 0 .. 2 /\ written[d] <= written'[d]
    <2>1. written \in [CalcClients -> 0 .. 2]
      BY DEF CalcInv, CalcTyped
    <2> SUFFICES ASSUME NEW d \in CalcClients
                 PROVE  /\ written[d] \in 0 .. 2 /\ written'[d] \in 0 .. 2
                        /\ written[d] <= written'[d]
      OBVIOUS
    <2>2. written[d] \in 0 .. 2 /\ written'[d] \in 0 .. 2
      BY <2>1
    <2>3. written'[d] = written[d] \/ written[d] < written'[d]
      OBVIOUS
    <2> QED BY <2>2, <2>3
  <1>4. QueueInv'
    <2>1. \A s \in Calc!Sockets : \A k \in 1 .. Len(backlog[s]) : backlog[s][k] \in CalcClients
      BY DEF CalcInv, CalcTyped
    <2> QED BY <1>1, <2>1 DEF CalcInv, QueueInv
  <1>5. ServedInv'
    BY <1>1 DEF CalcInv, ServedInv
  <1>6. BufferInv'
    <2>1. size \in 0 .. 2
      BY DEF CalcInv, CalcTyped
    <2> QED BY <1>3, <2>1 DEF CalcInv, ServedInv, BufferInv
  <1>7. ClientInv'
    BY <1>1 DEF CalcInv, ClientInv
  <1>8. AnswersOwnRequest'
    <2>1. \A d \in CalcClients : written[d] = 2 => written'[d] = 2
      BY <1>3
    <2> QED BY <2>1 DEF CalcInv, AnswersOwnRequest, Calc!AnswersOwnRequest
  <1> QED BY <1>2, <1>4, <1>5, <1>6, <1>7, <1>8 DEF CalcInv

LEMMA CalcConnect ==
    ASSUME CalcSizes, CalcInv, NEW c \in CalcClients, Calc!Connect(c)
    PROVE  CalcInv'
  <1> DEFINE s == Calc!SocketOf(c)
             q == backlog[s]
  <1>1. PICK r \in Requests[c] :
           /\ cpc[c] = "idle"
           /\ backlog' = [backlog EXCEPT ![s] = Append(@, c)]
           /\ request' = [request EXCEPT ![c] = r]
           /\ cpc' = [cpc EXCEPT ![c] = "write"]
           /\ UNCHANGED <<spc, events, client, data, size, written, answer>>
    BY DEF Calc!Connect
  <1>2. s \in Calc!Sockets
    BY DEF Calc!SocketOf, Calc!Sockets
  <1>3. /\ backlog \in [Calc!Sockets -> Seq(CalcClients)] /\ q \in Seq(CalcClients)
        /\ answer[c] = <<>> /\ written[c] = 0
    BY <1>1, <1>2 DEF CalcInv, CalcTyped, ClientInv
  <1>4. /\ \A t \in Calc!Sockets : \A k \in 1 .. Len(backlog[t]) :
              backlog[t][k] \in CalcClients \ {c}
        /\ spc \in {"read", "answer"} => client \in CalcClients \ {c}
    BY <1>1 DEF CalcInv, CalcTyped, QueueInv, ServedInv
  <1> HIDE DEF s
  <1>5. /\ Append(q, c) \in Seq(CalcClients) /\ Append(q, c) # <<>>
        /\ Len(q) \in Nat /\ Len(Append(q, c)) = Len(q) + 1
        /\ Append(q, c)[Len(q) + 1] = c
        /\ \A k \in 1 .. Len(q) : Append(q, c)[k] = q[k]
    BY <1>3
  <1>6. /\ backlog' \in [Calc!Sockets -> Seq(CalcClients)]
        /\ backlog'[s] = Append(q, c)
        /\ \A t \in Calc!Sockets \ {s} : backlog'[t] = backlog[t]
    BY <1>1, <1>2, <1>3, <1>5
  <1>7. /\ cpc' \in [CalcClients ->
                       {"idle", "write", "wait", "printed", "failed", "silent", "gone"}]
        /\ \A d \in CalcClients : cpc'[d] = IF d = c THEN "write" ELSE cpc[d]
        /\ request' = [d \in CalcClients |-> request'[d]]
        /\ \A d \in CalcClients : request'[d] = IF d = c THEN r ELSE request[d]
    BY <1>1 DEF CalcInv, CalcTyped
  <1>8. CalcTyped'
    <2>1. events' \subseteq {t \in Calc!Sockets : backlog'[t] # <<>>}
      BY <1>1, <1>5, <1>6 DEF CalcInv, CalcTyped
    <2> QED BY <1>1, <1>6, <1>7, <2>1 DEF CalcInv, CalcTyped
  \* An entry of a queue is an old one, or it is c at the end of the queue s.
  <1>9. \A t \in Calc!Sockets : \A k \in 1 .. Len(backlog'[t]) :
           \/ k \in 1 .. Len(backlog[t]) /\ backlog'[t][k] = backlog[t][k]
           \/ t = s /\ k = Len(q) + 1 /\ backlog'[t][k] = c
    <2> SUFFICES ASSUME NEW t \in Calc!Sockets, NEW k \in 1 .. Len(backlog'[t])
                 PROVE  \/ k \in 1 .. Len(backlog[t]) /\ backlog'[t][k] = backlog[t][k]
                        \/ t = s /\ k = Len(q) + 1 /\ backlog'[t][k] = c
      OBVIOUS
    <2>1. CASE t = s
      BY <1>5, <1>6, <2>1
    <2>2. CASE t # s
      BY <1>6, <2>2
    <2> QED BY <2>1, <2>2
  <1>10. QueueInv'
    <2>1. ASSUME NEW t \in Calc!Sockets, NEW k \in 1 .. Len(backlog'[t])
          PROVE  /\ Calc!SocketOf(backlog'[t][k]) = t /\ cpc'[backlog'[t][k]] # "idle"
                 /\ answer[backlog'[t][k]] = <<>>
      <3>1. CASE k \in 1 .. Len(backlog[t]) /\ backlog'[t][k] = backlog[t][k]
        BY <1>4, <1>7, <3>1 DEF CalcInv, QueueInv
      <3>2. CASE t = s /\ backlog'[t][k] = c
        BY <1>3, <1>7, <3>2 DEF s
      <3> QED BY <1>9, <3>1, <3>2
    <2>2. ASSUME NEW t \in Calc!Sockets, NEW k \in 1 .. Len(backlog'[t]),
                 NEW m \in 1 .. Len(backlog'[t]), backlog'[t][k] = backlog'[t][m]
          PROVE  k = m
      <3>1. CASE k \in 1 .. Len(backlog[t]) /\ backlog'[t][k] = backlog[t][k]
        <4>1. backlog'[t][m] # c
          BY <1>4, <2>2, <3>1
        <4>2. m \in 1 .. Len(backlog[t]) /\ backlog'[t][m] = backlog[t][m]
          BY <1>9, <4>1
        <4> QED BY <2>2, <3>1, <4>2 DEF CalcInv, QueueInv
      <3>2. CASE t = s /\ k = Len(q) + 1 /\ backlog'[t][k] = c
        <4>1. ~(m \in 1 .. Len(backlog[t]) /\ backlog'[t][m] = backlog[t][m])
          BY <1>4, <2>2, <3>2
        <4> QED BY <1>9, <3>2, <4>1
      <3> QED BY <1>9, <3>1, <3>2
    <2> QED BY <1>1, <2>1, <2>2 DEF QueueInv
  <1>11. ServedInv'
    <2>1. ASSUME spc \in {"read", "answer"}, NEW t \in Calc!Sockets,
                 NEW k \in 1 .. Len(backlog'[t])
          PROVE  backlog'[t][k] # client
      BY <1>4, <1>9, <2>1 DEF CalcInv, ServedInv
    <2> QED BY <1>1, <1>4, <1>7, <2>1 DEF CalcInv, ServedInv
  <1>12. BufferInv'
    <2>1. spc \in {"read", "answer"} => request'[client] = request[client]
      BY <1>4, <1>7
    <2> QED BY <1>1, <2>1 DEF CalcInv, BufferInv
  <1>13. ClientInv'
    <2>1. r.a \in Integer /\ r.b \in Integer
      BY DEF CalcSizes
    <2> QED BY <1>1, <1>3, <1>7, <2>1 DEF CalcInv, ClientInv
  <1>14. AnswersOwnRequest'
    BY <1>1, <1>3, <1>7 DEF CalcInv, AnswersOwnRequest, Calc!AnswersOwnRequest
  <1> QED BY <1>8, <1>10, <1>11, <1>12, <1>13, <1>14 DEF CalcInv

LEMMA CalcNext ==
    ASSUME CalcSizes, CalcInv, [Calc!Next]_calcVars
    PROVE  CalcInv'
  <1>1. CASE Calc!Loop \/ Calc!Poll \/ Calc!Interrupted \/ Calc!EndBatch \/ Calc!ReadEof
             \/ Calc!ReadFails \/ Calc!AnswerUnheard \/ Calc!AnswerFails \/ Calc!Crash
             \/ Calc!Close
    <2>1. /\ UNCHANGED <<backlog, client, data, size, calcClients>>
          /\ spc' \in {"loop", "poll", "serve", "close", "exited", "failed", "crashed"}
      BY <1>1 DEF Calc!Loop, Calc!Poll, Calc!Interrupted, Calc!EndBatch, Calc!ReadEof,
                  Calc!AfterEof, Calc!ReadFails, Calc!AnswerUnheard, Calc!AnswerFails,
                  Calc!Crash, Calc!Close, Calc!clients, calcClients
    <2>2. events' = events \/ events' = Calc!Ready
      BY <1>1 DEF Calc!Loop, Calc!Poll, Calc!Interrupted, Calc!EndBatch, Calc!ReadEof,
                  Calc!ReadFails, Calc!AnswerUnheard, Calc!AnswerFails,
                  Calc!Crash, Calc!Close
    <2>3. events' \subseteq {s \in Calc!Sockets : backlog[s] # <<>>}
      BY <2>2 DEF CalcInv, CalcTyped, Calc!Ready
    <2> QED BY <2>1, <2>3, CalcQuiet
  <1>2. CASE Calc!Interrupt \/ UNCHANGED calcVars
    BY <1>2, CalcStutter DEF Calc!Interrupt, Calc!clients, calcVars, calcClients
  <1>3. CASE \E s \in Calc!Sockets : Calc!Accept(s)
    BY <1>3, CalcAccept
  <1>4. CASE Calc!ReadPart
    BY <1>4, CalcReadPart
  <1>5. CASE Calc!Answer
    BY <1>5, CalcAnswer
  <1>6. ASSUME NEW c \in CalcClients, Calc!WritePart(c) PROVE CalcInv'
    <2>1. /\ cpc[c] = "write" /\ written[c] \in 0 .. 1
          /\ written \in [CalcClients -> 0 .. 2]
          /\ written' = [written EXCEPT ![c] = @ + 1]
          /\ cpc' = [cpc EXCEPT ![c] = IF written'[c] = 2 THEN "wait" ELSE "write"]
          /\ UNCHANGED <<spc, backlog, events, client, data, size, request, answer>>
      BY <1>6 DEF CalcInv, CalcTyped, ClientInv, Calc!WritePart, Calc!server
    <2> DEFINE p == IF written'[c] = 2 THEN "wait" ELSE "write"
    <2>2. /\ written' \in [CalcClients -> 0 .. 2] /\ written[c] < written'[c]
          /\ \A d \in CalcClients : d # c => written'[d] = written[d]
          /\ p = "write" => written'[c] < 2
      BY <2>1
    <2>3. cpc' = [cpc EXCEPT ![c] = p] /\ cpc[c] # "idle" /\ p \in {"write", "wait"}
      BY <2>1
    <2> HIDE DEF p
    <2> QED BY <2>1, <2>2, <2>3, CalcClientMoves
  <1>7. ASSUME NEW c \in CalcClients,
               \/ Calc!PrintAnswer(c) \/ Calc!ClientFails(c)
               \/ Calc!FallSilent(c) \/ Calc!Vanish(c)
        PROVE  CalcInv'
    <2>1. PICK p \in {"printed", "failed", "silent", "gone"} :
             /\ cpc[c] # "idle" /\ cpc' = [cpc EXCEPT ![c] = p]
             /\ UNCHANGED <<spc, backlog, events, client, data, size, request, written, answer>>
      BY <1>7 DEF Calc!PrintAnswer, Calc!ClientFails, Calc!FallSilent, Calc!Vanish, Calc!server
    <2>2. written' \in [CalcClients -> 0 .. 2]
      BY <2>1 DEF CalcInv, CalcTyped
    <2> QED BY <2>1, <2>2, CalcClientMoves
  <1>8. CASE \E c \in CalcClients : Calc!Connect(c)
    BY <1>8, CalcConnect
  <1> QED BY <1>1, <1>2, <1>3, <1>4, <1>5, <1>6, <1>7, <1>8
          DEF Calc!Next, Calc!ServerStep, Calc!ClientStep, Calc!Trouble

(* Although all clients share one buffer and some leave in the middle of a *)
(* request, a client gets at most one answer, to its own complete request, *)
(* and the right one at any width of the integers (doServer, calculate).   *)
THEOREM OwnAnswers == ASSUME CalcSizes PROVE LabSpec => []AnswersOwnRequest
  <1>1. LabInit => CalcInv
    BY CalcInit DEF LabInit
  <1>2. CalcInv /\ [LabNext]_labVars => CalcInv'
    BY CalcNext DEF LabNext, Voting, Calculator, labVars
  <1>3. CalcInv => AnswersOwnRequest
    BY DEF CalcInv
  <1> QED BY <1>1, <1>2, <1>3, PTL DEF LabSpec
=============================================================================
