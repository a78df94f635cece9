------------------------- MODULE UdpTransferProofs -------------------------
(***************************************************************************)
(* The safety of the transfer for any number of clients, slots, chunks and *)
(* retries, and any loss, duplication, reordering and delay.  The argument *)
(* is about what a datagram in flight proves: an echo of chunk k proves    *)
(* that k was printed, a data datagram k that its client reached chunk k.  *)
(***************************************************************************)
EXTENDS UdpTransfer, TLAPS

\* A client works on a chunk of its file and has attempts left to send it.
ClientInv == \A c \in Clients :
    /\ chunkNo[c] \in 1 .. Chunks[c]
    /\ pc[c] = "send" => counter[c] < MaxSends

\* Client and server are never more than one chunk apart.
StepInv == \A c \in Clients :
    /\ got[c] <= chunkNo[c] /\ chunkNo[c] <= got[c] + 1
    /\ buf2[c] <= got[c]
    /\ pc[c] = "done" => got[c] = Chunks[c]

\* What a datagram in flight proves about the two sides.
NetInv == \A m \in net : /\ 1 <= m.chunk
                         /\ m.kind = "data" => m.chunk <= chunkNo[m.who]
                         /\ m.kind = "ack" => m.chunk <= got[m.who]

\* A slot in use lags behind what was printed for its client.
SlotInv == \A i \in Slots : ~Free(i) =>
    /\ con[i].chunkNo < Chunks[con[i].addr]
    /\ con[i].chunkNo <= got[con[i].addr]

\* How the chunk printed last relates to the slot of the client, if any.
OutInv == \A c \in Clients :
    \/ out[c] \in {0, Chunks[c]} /\ \A i \in Slots : con[i].addr = c => con[i].chunkNo = 0
    \/ \E i \in Slots : con[i].addr = c /\ con[i].chunkNo = out[c]

Inv == /\ TypeOK /\ ClientInv /\ StepInv /\ NetInv /\ SlotInv /\ OutInv /\ UniqueSlots

-----------------------------------------------------------------------------
\* The initial state satisfies the invariant.
LEMMA InitInv == Init => Inv
  <1> SUFFICES ASSUME Init PROVE Inv
    OBVIOUS
  <1>1. TypeOK
    BY UdpAssumption DEF Init, TypeOK, FreeSlot, Ended
  <1>2. ClientInv /\ StepInv
    BY UdpAssumption DEF Init, ClientInv, StepInv
  <1>3. NetInv /\ SlotInv /\ OutInv
    BY UdpAssumption DEF Init, NetInv, SlotInv, OutInv, Free, FreeSlot
  <1>4. UniqueSlots
    BY DEF Init, UniqueSlots, Free, FreeSlot
  <1> QED BY <1>1, <1>2, <1>3, <1>4 DEF Inv

\* The parts of the invariant that are about the server alone.
ServerInv == SlotInv /\ OutInv /\ UniqueSlots

LEMMA ServerIdle == ASSUME Inv, UNCHANGED server PROVE ServerInv'
  BY DEF Inv, ServerInv, server, SlotInv, OutInv, UniqueSlots, Free

\* doClient starts a send of its chunk.
LEMMA SendStep == ASSUME NEW c \in Clients, Inv, Send(c) PROVE Inv'
  <1>1. Data(c, chunkNo[c]) \in Datagram
    BY DEF Inv, TypeOK, Data, Datagram
  <1>2. TypeOK'
    BY <1>1, UdpAssumption DEF Inv, Send, CountSend, TypeOK, ClientInv, server, Ended
  <1>3. ClientInv' /\ StepInv'
    BY DEF Inv, Send, TypeOK, ClientInv, StepInv, server
  <1>4. NetInv'
    BY UdpAssumption DEF Inv, Send, TypeOK, ClientInv, NetInv, Data, server
  <1> QED BY <1>2, <1>3, <1>4, ServerIdle DEF Inv, ServerInv, Send

LEMMA EnterStep == ASSUME NEW c \in Clients, Inv, EnterRecv(c) \/ AlarmMissed(c)
                   PROVE  Inv'
  <1>1. TypeOK' /\ ClientInv' /\ StepInv' /\ NetInv'
    BY DEF Inv, EnterRecv, AlarmMissed, TypeOK, ClientInv, StepInv, NetInv, server, Ended
  <1> QED BY <1>1, ServerIdle DEF Inv, ServerInv, EnterRecv, AlarmMissed

(* An answer that proves b printed chunks moves the client on by at most   *)
(* one chunk, and ends it only when its last chunk was printed.            *)
LEMMA ConfirmStep ==
    ASSUME NEW c \in Clients, NEW b \in Nat, b <= got[c], Inv, Confirm(c, b),
           timer' \in [Clients -> BOOLEAN], net' \subseteq net, UNCHANGED server
    PROVE  Inv'
  <1>1. /\ chunkNo' \in [Clients -> Nat] /\ counter' \in [Clients -> 0 .. MaxSends]
        /\ buf2' \in [Clients -> Nat]
        /\ pc' \in [Clients -> {"send", "armed", "recv"} \cup Ended]
    BY UdpAssumption DEF Inv, TypeOK, Confirm, Confirmed, AfterMiss, Ended
  <1>2. TypeOK'
    BY <1>1 DEF Inv, TypeOK, server
  <1> USE UdpAssumption
  <1>t. /\ chunkNo \in [Clients -> Nat] /\ counter \in [Clients -> 0 .. MaxSends]
        /\ buf2 \in [Clients -> Nat] /\ got \in [Clients -> Nat]
        /\ DOMAIN pc = Clients
    BY DEF Inv, TypeOK
  <1>o. \A d \in Clients \ {c} : /\ pc'[d] = pc[d] /\ chunkNo'[d] = chunkNo[d]
                                /\ counter'[d] = counter[d] /\ buf2'[d] = buf2[d]
    BY <1>t DEF Confirm
  <1>c. /\ buf2'[c] \in {0, b}
        /\ \/ /\ b = chunkNo[c] /\ chunkNo[c] = Chunks[c]
              /\ pc'[c] = "done" /\ chunkNo'[c] = chunkNo[c]
           \/ /\ b = chunkNo[c] /\ chunkNo[c] # Chunks[c]
              /\ pc'[c] = "send" /\ chunkNo'[c] = chunkNo[c] + 1 /\ counter'[c] = 0
           \/ /\ pc'[c] = AfterMiss(c)
              /\ chunkNo'[c] = chunkNo[c] /\ counter'[c] = counter[c]
    BY <1>t DEF Confirm, Confirmed
  <1>m. /\ AfterMiss(c) # "done"
        /\ AfterMiss(c) = "send" => counter[c] < MaxSends
    BY <1>t DEF AfterMiss
  <1>3. ClientInv'
    <2>1. ASSUME NEW d \in Clients \ {c}
          PROVE  chunkNo'[d] \in 1 .. Chunks[d] /\ (pc'[d] = "send" => counter'[d] < MaxSends)
      BY <1>o DEF Inv, ClientInv
    <2>2. chunkNo'[c] \in 1 .. Chunks[c]
      BY <1>c, <1>t DEF Inv, ClientInv
    <2>3. pc'[c] = "send" => counter'[c] < MaxSends
      BY <1>c, <1>m
    <2> QED BY <2>1, <2>2, <2>3 DEF ClientInv
  <1>4. StepInv'
    <2> USE DEF server
    <2>1. ASSUME NEW d \in Clients \ {c}
          PROVE  /\ got[d] <= chunkNo'[d] /\ chunkNo'[d] <= got[d] + 1
                 /\ buf2'[d] <= got[d] /\ (pc'[d] = "done" => got[d] = Chunks[d])
      BY <1>o DEF Inv, StepInv
    <2>2. /\ got[c] <= chunkNo[c] /\ chunkNo[c] <= got[c] + 1
          /\ chunkNo[c] \in Nat /\ got[c] \in Nat
      BY <1>t DEF Inv, StepInv
    <2>3. got[c] <= chunkNo'[c] /\ chunkNo'[c] <= got[c] + 1 /\ buf2'[c] <= got[c]
      BY <1>c, <2>2
    <2>4. pc'[c] = "done" => got[c] = Chunks[c]
      BY <1>c, <1>m, <2>2
    <2> QED BY <2>1, <2>3, <2>4 DEF StepInv
  <1>5. NetInv'
    <2>1. \A d \in Clients : chunkNo[d] <= chunkNo'[d]
      BY DEF Inv, TypeOK, Confirm
    <2> QED BY <2>1, <1>1 DEF Inv, TypeOK, NetInv, Datagram, server
  <1> QED BY <1>2, <1>3, <1>4, <1>5, ServerIdle DEF Inv, ServerInv

LEMMA ClientRecvStep == ASSUME NEW c \in Clients, Inv, ClientRecv(c) PROVE Inv'
  <1>1. PICK m \in net : /\ m.kind = "ack" /\ m.who = c
                         /\ net' \in Take(m) /\ Confirm(c, m.chunk)
    BY DEF ClientRecv
  <1>2. m.chunk \in Nat /\ m.chunk <= got[c]
    BY <1>1 DEF Inv, TypeOK, NetInv, Datagram
  <1>3. net' \subseteq net /\ timer' \in [Clients -> BOOLEAN] /\ UNCHANGED server
    BY <1>1 DEF Inv, TypeOK, ClientRecv, Take
  <1> QED BY <1>1, <1>2, <1>3, ConfirmStep

LEMMA TimeoutStep == ASSUME NEW c \in Clients, Inv, Timeout(c) PROVE Inv'
  <1>1. buf2[c] \in Nat /\ buf2[c] <= got[c]
    BY DEF Inv, TypeOK, StepInv
  <1>2. net' \subseteq net /\ timer' \in [Clients -> BOOLEAN] /\ UNCHANGED server
    BY DEF Inv, TypeOK, Timeout
  <1>3. Confirm(c, buf2[c])
    BY DEF Timeout
  <1> QED BY <1>1, <1>2, <1>3, ConfirmStep

\* The slot of findIndex is c's own, or free and then c has no other.
LEMMA FindIndex ==
    ASSUME Inv, NEW c \in Clients, NEW i \in Slots, findIndex(i, c)
    PROVE  /\ con[i].addr = c \/ (Free(i) /\ \A j \in Slots : con[j].addr # c)
           /\ \A j \in Slots \ {i} : con[j].addr # c
           /\ LastChunk(i) \in Nat /\ LastChunk(i) <= got[c]
           /\ LastChunk(i) < Chunks[c]
  <1>1. con[i].addr = c \/ (Free(i) /\ \A j \in Slots : con[j].addr # c)
    BY DEF findIndex, FirstOf, LastFree
  <1>2. \A j \in Slots \ {i} : con[j].addr # c
    BY <1>1, UdpAssumption DEF Inv, UniqueSlots, Free
  <1>3. LastChunk(i) \in Nat /\ LastChunk(i) <= got[c] /\ LastChunk(i) < Chunks[c]
    BY <1>1, UdpAssumption DEF Inv, TypeOK, SlotInv, LastChunk, Free
  <1> QED BY <1>1, <1>2, <1>3

\* A step that takes datagrams away and touches neither side.
LEMMA NetStep == ASSUME Inv, net' \subseteq net, UNCHANGED <<client, server>>
                 PROVE  Inv'
  <1>1. TypeOK' /\ ClientInv' /\ StepInv' /\ NetInv'
    BY DEF Inv, TypeOK, ClientInv, StepInv, NetInv, client, server
  <1> QED BY <1>1, ServerIdle DEF Inv, ServerInv

\* A datagram ahead of its connection takes the slot and proves nothing.
LEMMA AheadStep ==
    ASSUME Inv, NEW c \in Clients, NEW k \in Nat, NEW i \in Slots, findIndex(i, c),
           Ahead(i, c, k), net' \subseteq net, UNCHANGED client
    PROVE  Inv'
  <1>1. TypeOK' /\ ClientInv' /\ StepInv' /\ NetInv'
    BY FindIndex DEF Inv, Ahead, TypeOK, ClientInv, StepInv, NetInv, client
  <1>2. con' = [con EXCEPT ![i] = [addr |-> c, chunkNo |-> LastChunk(i)]]
    BY DEF Ahead
  <1>3. UniqueSlots'
    BY <1>2, FindIndex DEF Inv, TypeOK, UniqueSlots, Free
  <1>4. SlotInv'
    BY <1>2, FindIndex DEF Inv, TypeOK, SlotInv, Free, Ahead
  <1>5. OutInv'
    <2> SUFFICES ASSUME NEW d \in Clients PROVE OutInv!(d)'
      BY DEF OutInv
    <2>1. CASE d # c
      BY <2>1, <1>2, UdpAssumption, FindIndex DEF Inv, TypeOK, OutInv, Ahead, Free
    <2>2. CASE d = c
      BY <2>2, <1>2, UdpAssumption, FindIndex DEF Inv, TypeOK, OutInv, Ahead, Free, LastChunk
    <2> QED BY <2>1, <2>2
  <1> QED BY <1>1, <1>3, <1>4, <1>5 DEF Inv

\* The expected chunk extends what was printed by at most one chunk.
LEMMA AcceptStep ==
    ASSUME Inv, NEW c \in Clients, NEW k \in Nat, NEW i \in Slots, findIndex(i, c),
           Accept(i, c, k), k <= chunkNo[c], net' \subseteq net \cup {Ack(c, k)},
           UNCHANGED client
    PROVE  Inv'
  <1>1. /\ k = LastChunk(i) + 1 /\ 1 <= k /\ k <= got[c] + 1 /\ k <= Chunks[c]
        /\ got[c] \in Nat /\ Chunks[c] \in Nat
    <2>1. LastChunk(i) \in Nat /\ LastChunk(i) <= got[c] /\ LastChunk(i) < Chunks[c]
      BY FindIndex
    <2>2. got[c] \in Nat /\ Chunks[c] \in Nat
      BY UdpAssumption DEF Inv, TypeOK
    <2>3. k = LastChunk(i) + 1
      BY DEF Accept
    <2> QED BY <2>1, <2>2, <2>3
  <1>2. got' = [got EXCEPT ![c] = IF k > got[c] THEN k ELSE got[c]]
    BY DEF Accept
  <1>3. /\ got' \in [Clients -> Nat]
        /\ k <= got'[c] /\ got'[c] <= chunkNo[c]
        /\ \A d \in Clients : got[d] <= got'[d]
        /\ \A d \in Clients \ {c} : got'[d] = got[d]
    BY <1>1, <1>2 DEF Inv, TypeOK, StepInv
  <1>4. con' = [con EXCEPT ![i] = IF k = Chunks[c] THEN FreeSlot
                                  ELSE [addr |-> c, chunkNo |-> k]]
    BY DEF Accept, AfterAccept
  <1>5. TypeOK'
    <2>1. con' \in [Slots -> [addr : Clients \cup {NoAddr}, chunkNo : Nat]]
      BY <1>4 DEF Inv, TypeOK, FreeSlot
    <2>2. Ack(c, k) \in Datagram
      BY DEF Ack, Datagram
    <2> QED BY <1>3, <2>1, <2>2 DEF Inv, Accept, TypeOK, client
  <1>6. ClientInv'
    BY DEF Inv, ClientInv, client
  <1>7. StepInv'
    <2> SUFFICES ASSUME NEW d \in Clients PROVE StepInv!(d)'
      BY DEF StepInv
    <2>1. /\ chunkNo' = chunkNo /\ buf2' = buf2 /\ pc' = pc
          /\ got[d] \in Nat /\ got'[d] \in Nat /\ chunkNo[d] \in Nat /\ buf2[d] \in Nat
          /\ Chunks[d] \in Nat /\ chunkNo[d] <= Chunks[d]
          /\ got[d] <= got'[d] /\ got'[d] <= chunkNo[d]
      BY <1>3, UdpAssumption DEF Inv, TypeOK, ClientInv, StepInv, client
    <2> QED BY <2>1 DEF Inv, StepInv
  <1>8. NetInv'
    <2> SUFFICES ASSUME NEW m \in net' PROVE NetInv!(m)'
      BY DEF NetInv
    <2>1. CASE m = Ack(c, k)
      BY <2>1, <1>1, <1>3 DEF Ack
    <2>2. CASE m \in net
      BY <2>2, <1>3 DEF Inv, TypeOK, NetInv, Datagram, client
    <2> QED BY <2>1, <2>2
  <1>9. UniqueSlots'
    BY <1>4, FindIndex DEF Inv, TypeOK, UniqueSlots, Free, FreeSlot
  <1>10. SlotInv'
    <2> SUFFICES ASSUME NEW j \in Slots, ~Free(j)'
                 PROVE  /\ con'[j].chunkNo < Chunks[con'[j].addr]
                        /\ con'[j].chunkNo <= got'[con'[j].addr]
      BY DEF SlotInv
    <2>1. CASE j = i
      <3>1. con'[i] = [addr |-> c, chunkNo |-> k] /\ k # Chunks[c]
        BY <1>4, <2>1 DEF Inv, TypeOK, Free, FreeSlot
      <3> QED BY <2>1, <3>1, <1>1, <1>3
    <2>2. CASE j # i
      <3>1. con'[j] = con[j] /\ ~Free(j) /\ con[j].addr \in Clients /\ con[j].chunkNo \in Nat
        BY <1>4, <2>2 DEF Inv, TypeOK, Free
      <3> QED BY <3>1, <1>3 DEF Inv, TypeOK, SlotInv
    <2> QED BY <2>1, <2>2
  <1>11. OutInv'
    <2> SUFFICES ASSUME NEW d \in Clients PROVE OutInv!(d)'
      BY DEF OutInv
    <2>1. out' = [out EXCEPT ![c] = k]
      BY DEF Accept
    <2>2. CASE d # c
      BY <2>1, <2>2, <1>4, UdpAssumption, FindIndex DEF Inv, TypeOK, OutInv, Free, FreeSlot
    <2>3. CASE d = c /\ k = Chunks[c]
      BY <2>1, <2>3, <1>4, UdpAssumption, FindIndex DEF Inv, TypeOK, Free, FreeSlot
    <2>4. CASE d = c /\ k # Chunks[c]
      BY <2>1, <2>4, <1>4 DEF Inv, TypeOK
    <2> QED BY <2>2, <2>3, <2>4
  <1> QED BY <1>5, <1>6, <1>7, <1>8, <1>9, <1>10, <1>11 DEF Inv

\* A chunk accepted before was printed, so its second echo proves it too.
LEMMA RepeatStep ==
    ASSUME Inv, NEW c \in Clients, NEW k \in Nat, 1 <= k, NEW i \in Slots,
           findIndex(i, c), Repeat(i, c, k), net' \subseteq net \cup {Ack(c, k)},
           UNCHANGED client
    PROVE  Inv'
  <1>1. k <= got[c]
    BY FindIndex DEF Repeat, Inv, TypeOK
  <1>2. Ack(c, k) \in Datagram
    BY DEF Ack, Datagram
  <1>3. TypeOK' /\ ClientInv' /\ StepInv'
    BY <1>2 DEF Inv, Repeat, TypeOK, ClientInv, StepInv, client, server
  <1>4. NetInv'
    <2> SUFFICES ASSUME NEW m \in net' PROVE NetInv!(m)'
      BY DEF NetInv
    <2>1. CASE m = Ack(c, k)
      BY <2>1, <1>1 DEF Ack, Repeat, server
    <2>2. CASE m \in net
      BY <2>2 DEF Inv, NetInv, client, Repeat, server
    <2> QED BY <2>1, <2>2
  <1> QED BY <1>3, <1>4, ServerIdle DEF Inv, ServerInv, Repeat

\* What one turn of doServer does, with its witnesses named.
LEMMA ServerRecvCases ==
    ASSUME Inv, NEW c \in Clients, ServerRecv(c)
    PROVE  \E k \in Nat, i \in Slots :
              /\ 1 <= k /\ k <= chunkNo[c] /\ findIndex(i, c) /\ UNCHANGED client
              /\ net' \subseteq net \cup {Ack(c, k)}
              /\ \/ Ahead(i, c, k) /\ net' \subseteq net
                 \/ Accept(i, c, k)
                 \/ Repeat(i, c, k)
  <1>1. PICK m \in net :
          /\ m.kind = "data" /\ m.who = c
          /\ \E rest \in Take(m), i \in Slots :
                /\ findIndex(i, c)
                /\ \/ Ahead(i, c, m.chunk) /\ net' = rest
                   \/ /\ Accept(i, c, m.chunk) \/ Repeat(i, c, m.chunk)
                      /\ net' = rest \cup {Ack(c, m.chunk)}
          /\ UNCHANGED client
    BY DEF ServerRecv
  <1>2. m.chunk \in Nat /\ 1 <= m.chunk /\ m.chunk <= chunkNo[c]
    BY <1>1 DEF Inv, TypeOK, NetInv, Datagram
  <1>3. \A rest \in Take(m) : rest \subseteq net
    BY DEF Take
  <1> QED BY <1>1, <1>2, <1>3

LEMMA ServerRecvStep == ASSUME NEW c \in Clients, Inv, ServerRecv(c) PROVE Inv'
  BY ServerRecvCases, AheadStep, AcceptStep, RepeatStep

LEMMA IgnoreStep == ASSUME NEW c \in Clients, Inv, ServerIgnore(c) \/ Lose PROVE Inv'
  BY NetStep DEF ServerIgnore, Lose, Take

\* Every step preserves the invariant.
LEMMA NextInv == Inv /\ [Next]_vars => Inv'
  <1>1. ASSUME Inv, UNCHANGED vars PROVE Inv'
    BY <1>1, NetStep DEF vars
  <1>2. ASSUME Inv, Lose PROVE Inv'
    BY <1>2, NetStep DEF Lose
  <1> QED BY <1>1, <1>2, SendStep, EnterStep, ClientRecvStep, TimeoutStep,
             ServerRecvStep, IgnoreStep DEF Next, ClientStep, ServerStep, Quiet

\* The invariant holds in every reachable state.
THEOREM Invariance == Spec => []Inv
  BY InitInv, NextInv, PTL DEF Spec

(* Client, server and network keep the types of their variables; no client *)
(* sends a chunk more than MaxSends times.                                 *)
THEOREM TypeCorrect == Spec => []TypeOK
  <1>1. Inv => TypeOK
    BY DEF Inv
  <1> QED BY <1>1, Invariance, PTL

(* A client never moves past a chunk, nor ends normally, before the server *)
(* has printed all of it, for any network and any number of clients.       *)
THEOREM Confirmation == Spec => []ConfirmedIsPrinted
  <1>1. Inv => ConfirmedIsPrinted
    BY DEF Inv, StepInv, ConfirmedIsPrinted
  <1> QED BY <1>1, Invariance, PTL

(* findIndex keeps the table free of two slots for one address.            *)
THEOREM OneSlotPerClient == Spec => []UniqueSlots
  <1>1. Inv => UniqueSlots
    BY DEF Inv
  <1> QED BY <1>1, Invariance, PTL

(* An occupied slot is always an unfinished transfer of its client.        *)
THEOREM SlotsUnfinished == Spec => []OpenSlots
  <1>1. Inv => OpenSlots
    <2> SUFFICES ASSUME Inv, NEW i \in Slots, ~Free(i)
                 PROVE  /\ con[i].chunkNo < Chunks[con[i].addr]
                        /\ con[i].chunkNo <= chunkNo[con[i].addr]
      BY DEF OpenSlots
    <2>1. con[i].addr \in Clients /\ con[i].chunkNo \in Nat
      BY DEF Inv, TypeOK, Free
    <2> QED BY <2>1 DEF Inv, TypeOK, SlotInv, StepInv
  <1> QED BY <1>1, Invariance, PTL

-----------------------------------------------------------------------------
\* Only the server's acceptance of a chunk changes what has been printed.
LEMMA OnlyAcceptPrints ==
    ASSUME Inv, [Next]_vars
    PROVE  \/ UNCHANGED <<got, out>>
           \/ \E c \in Clients, k \in Nat, i \in Slots :
                 1 <= k /\ k <= chunkNo[c] /\ findIndex(i, c) /\ Accept(i, c, k) /\ UNCHANGED client
  <1>1. CASE \E c \in Clients : ServerRecv(c)
    BY <1>1, ServerRecvCases DEF Ahead, Repeat, server
  <1>2. CASE ~ \E c \in Clients : ServerRecv(c)
    BY <1>2 DEF Next, ClientStep, ServerStep, Send, EnterRecv, ClientRecv, Timeout,
                AlarmMissed, ServerIgnore, Lose, Quiet, vars, server
  <1> QED BY <1>1, <1>2

(* The chunks of a file come out in order, and the file starts again only  *)
(* after it has come out whole.                                            *)
THEOREM OrderOfOutput == Spec => PrintedInOrder
  <1>1. ASSUME Inv, [Next]_vars, NEW c \in Clients, out'[c] # out[c]
        PROVE  out'[c] = out[c] + 1 \/ (out'[c] = 1 /\ out[c] = Chunks[c])
    <2>1. PICK d \in Clients, k \in Nat, i \in Slots : findIndex(i, d) /\ Accept(i, d, k)
      BY <1>1, OnlyAcceptPrints
    <2>2. d = c /\ out'[c] = k /\ k = LastChunk(i) + 1
      BY <1>1, <2>1 DEF Accept, Inv, TypeOK
    <2>3. /\ con[i].addr = c \/ (Free(i) /\ \A j \in Slots : con[j].addr # c)
          /\ \A j \in Slots \ {i} : con[j].addr # c
          /\ LastChunk(i) \in Nat
      BY <1>1, <2>1, <2>2, FindIndex
    <2>4. \/ out[c] \in {0, Chunks[c]} /\ LastChunk(i) = 0
          \/ LastChunk(i) = out[c]
      BY <2>3, <1>1, UdpAssumption DEF Inv, TypeOK, OutInv, LastChunk, Free
    <2> QED BY <2>2, <2>3, <2>4
  <1>2. Inv /\ [Next]_vars => [NextInOrder]_vars
    BY <1>1 DEF NextInOrder
  <1> QED BY <1>2, Invariance, PTL DEF Spec, PrintedInOrder

-----------------------------------------------------------------------------
\* The outcome of the abstract specification.
Outcome == [c \in Clients |-> IF pc[c] \in Ended THEN pc[c] ELSE "running"]

\* A client's step ends it as the abstract specification allows, or not at all.
LEMMA ConfirmRefines ==
    ASSUME NEW c \in Clients, NEW b \in Nat, b <= got[c], Inv, pc[c] = "recv",
           Confirm(c, b), UNCHANGED got
    PROVE  \/ Outcome' = Outcome
           \/ Outcome' = [Outcome EXCEPT ![c] = "done"] /\ got[c] = Chunks[c]
           \/ Outcome' = [Outcome EXCEPT ![c] = "gaveup"]
  <1>1. pc \in [Clients -> {"send", "armed", "recv"} \cup Ended]
    BY DEF Inv, TypeOK
  <1>2. CASE pc' = [pc EXCEPT ![c] = "send"]
    BY <1>1, <1>2 DEF Outcome, Ended
  <1>3. CASE pc' = [pc EXCEPT ![c] = "gaveup"]
    BY <1>1, <1>3 DEF Outcome, Ended
  <1>4. CASE pc' = [pc EXCEPT ![c] = "done"] /\ b = Chunks[c]
    <2>1. got[c] = Chunks[c]
      <3>1. /\ got[c] <= chunkNo[c] /\ chunkNo[c] <= Chunks[c]
            /\ got[c] \in Nat /\ chunkNo[c] \in Nat /\ Chunks[c] \in Nat
        BY UdpAssumption DEF Inv, TypeOK, StepInv, ClientInv
      <3> QED BY <1>4, <3>1
    <2> QED BY <1>1, <1>4, <2>1 DEF Outcome, Ended
  <1> QED BY <1>2, <1>3, <1>4 DEF Confirm, Confirmed, AfterMiss

(* The programs implement the abstract transfer: chunks without gaps, and  *)
(* a normal end only after the whole file.                                 *)
THEOREM Refinement == Spec => TransferSpec
  <1>1. Init => Transfer!AInit
    BY DEF Init, Transfer!AInit, Ended
  <1>2. ASSUME Inv, [Next]_vars PROVE [Transfer!ANext]_(Transfer!avars)
    <2>1. CASE \E c \in Clients : ClientRecv(c) \/ Timeout(c)
      <3>1. PICK c \in Clients : ClientRecv(c) \/ Timeout(c)
        BY <2>1
      <3>2. PICK b \in Nat : b <= got[c] /\ Confirm(c, b)
        <4>1. CASE Timeout(c)
          BY <4>1, <1>2 DEF Timeout, Inv, TypeOK, StepInv
        <4>2. CASE ClientRecv(c)
          BY <4>2, <1>2 DEF ClientRecv, Inv, TypeOK, NetInv, Datagram
        <4> QED BY <3>1, <4>1, <4>2
      <3>3. pc[c] = "recv" /\ got' = got
        BY <3>1 DEF ClientRecv, Timeout, server
      <3>4. \/ Outcome' = Outcome
            \/ Outcome' = [Outcome EXCEPT ![c] = "done"] /\ got[c] = Chunks[c]
            \/ Outcome' = [Outcome EXCEPT ![c] = "gaveup"]
        BY <3>2, <3>3, <1>2, ConfirmRefines
      <3>5. Outcome[c] = "running"
        BY <3>3 DEF Outcome, Ended
      <3> QED BY <3>3, <3>4, <3>5
              DEF Transfer!ANext, Transfer!Succeed, Transfer!GiveUp, Transfer!avars, Outcome
    <2>2. CASE UNCHANGED <<got, out>> /\ ~ \E c \in Clients : ClientRecv(c) \/ Timeout(c)
      <3>1. Outcome' = Outcome
        BY <2>2, <1>2 DEF Inv, TypeOK, Outcome, Ended, Next, ClientStep, ServerStep, Send,
           EnterRecv, AlarmMissed, ServerRecv, ServerIgnore, Lose, Quiet, vars, client
      <3> QED BY <2>2, <3>1 DEF Transfer!avars, Outcome
    <2>3. CASE \E c \in Clients, k \in Nat, i \in Slots :
                  1 <= k /\ k <= chunkNo[c] /\ findIndex(i, c) /\ Accept(i, c, k) /\ UNCHANGED client
      <3>1. PICK c \in Clients, k \in Nat, i \in Slots :
                k <= chunkNo[c] /\ findIndex(i, c) /\ Accept(i, c, k) /\ UNCHANGED client
        BY <2>3
      <3>2. LastChunk(i) \in Nat /\ LastChunk(i) <= got[c] /\ LastChunk(i) < Chunks[c]
        BY <3>1, <1>2, FindIndex
      <3>3. /\ got[c] \in Nat /\ Chunks[c] \in Nat /\ got \in [Clients -> Nat]
            /\ k = LastChunk(i) + 1
            /\ got' = [got EXCEPT ![c] = IF k > got[c] THEN k ELSE got[c]]
        BY <3>1, <1>2, UdpAssumption DEF Inv, TypeOK, Accept
      <3>4. got' = got \/ (got' = [got EXCEPT ![c] = got[c] + 1] /\ got[c] < Chunks[c])
        <4>1. CASE k > got[c]
          <5>1. k = got[c] + 1 /\ got[c] < Chunks[c]
            BY <4>1, <3>2, <3>3
          <5> QED BY <4>1, <5>1, <3>3
        <4>2. CASE ~(k > got[c])
          BY <4>2, <3>3
        <4> QED BY <4>1, <4>2
      <3>5. pc' = pc
        BY <3>1 DEF client
      <3> QED BY <3>4, <3>5 DEF Transfer!ANext, Transfer!Deliver, Transfer!avars
    <2> QED BY <2>1, <2>2, <2>3, <1>2, OnlyAcceptPrints
  <1>3. Inv /\ [Next]_vars => [Transfer!ANext]_(Transfer!avars)
    BY <1>2
  <1> QED BY <1>1, <1>3, Invariance, PTL DEF Spec, TransferSpec, Transfer!ASpec
=============================================================================
