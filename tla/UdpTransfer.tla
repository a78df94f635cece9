---------------------------- MODULE UdpTransfer ----------------------------
(***************************************************************************)
(* The stop-and-wait file transfer of sop2/lab04/udp_test: several clients *)
(* (udp_client.c), one server with a table of MAXADDR connections          *)
(* (udp_server.c) and UDP between them.  A datagram is its chunk number;   *)
(* the payload and the "last" flag are functions of the sender and of that *)
(* number (chunk Chunks[c] is the short one).  The network loses,          *)
(* duplicates and reorders datagrams.                                      *)
(***************************************************************************)
EXTENDS Naturals

CONSTANTS Clients,   \* client processes, one socket address each
          Chunks,    \* Chunks[c] : chunks of the file c sends, at least one
          MaxAddr,   \* size of the server's table (MAXADDR, 5 in the code)
          MaxSends,  \* sends of one chunk before giving up (6 in the code)
          Faults,    \* the faults that happen: "loss", "dup", "late"
          NoAddr     \* marks a free slot

ASSUME UdpAssumption ==
    /\ Chunks \in [Clients -> Nat \ {0}]
    /\ MaxAddr \in Nat \ {0}
    /\ MaxSends \in Nat \ {0}
    /\ NoAddr \notin Clients

VARIABLES
    pc,        \* pc[c] : "send", "armed" (datagram sent, timer set, not yet
               \*   in recv), "recv" (blocked in recv), "done", "gaveup"
    chunkNo,   \* chunkNo[c] : the chunk c is sending
    counter,   \* counter[c] : sends of that chunk so far
    buf2,      \* buf2[c] : chunk number in the answer buffer, 0 when zeroed
    timer,     \* timer[c] : the 500 ms timer is running
    con,       \* con[i] : slot i of the server's table
    net,       \* datagrams in flight
    got,       \* history: longest prefix of c's file printed so far
    out        \* history: chunk of c printed last, 0 when none

client == <<pc, chunkNo, counter, buf2, timer>>
server == <<con, got, out>>
vars == <<client, server, net>>

Slots == 0 .. MaxAddr - 1
Ended == {"done", "gaveup"}

\* A datagram: "data" to the server or its echo, the "ack", to client `who'.
Datagram == [kind : {"data", "ack"}, who : Clients, chunk : Nat]
Data(c, k) == [kind |-> "data", who |-> c, chunk |-> k]
Ack(c, k) == [kind |-> "ack", who |-> c, chunk |-> k]

\* The address and number in a free slot are never read: one value for all.
FreeSlot == [addr |-> NoAddr, chunkNo |-> 0]
Free(i) == con[i].addr = NoAddr

Init == /\ pc = [c \in Clients |-> "send"]
        /\ chunkNo = [c \in Clients |-> 1]
        /\ counter = [c \in Clients |-> 0]
        /\ buf2 = [c \in Clients |-> 0]
        /\ timer = [c \in Clients |-> FALSE]
        /\ con = [i \in Slots |-> FreeSlot]
        /\ net = {}
        /\ got = [c \in Clients |-> 0]
        /\ out = [c \in Clients |-> 0]

-----------------------------------------------------------------------------
(* The client.                                                             *)

\* Mutant: the attempts are not counted.
CountNothing(c) == counter[c]
CountSend(c) == counter[c] + 1

\* counter++, sendto, setitimer, last_signal = 0.
Send(c) ==
    /\ pc[c] = "send"
    /\ pc' = [pc EXCEPT ![c] = "armed"]
    /\ counter' = [counter EXCEPT ![c] = CountSend(c)]
    /\ timer' = [timer EXCEPT ![c] = TRUE]
    /\ net' = net \cup {Data(c, chunkNo[c])}
    /\ UNCHANGED <<chunkNo, buf2, server>>

EnterRecv(c) ==
    /\ pc[c] = "armed"
    /\ pc' = [pc EXCEPT ![c] = "recv"]
    /\ UNCHANGED <<chunkNo, counter, buf2, timer, server, net>>

\* Mutant: any answer counts as an answer to this chunk.
ConfirmedByAny(c, b) == b # 0
Confirmed(c, b) == b = chunkNo[c]

\* Mutant: giving up looks like a normal end.
AfterMissDone(c) == IF counter[c] < MaxSends THEN "send" ELSE "done"
AfterMiss(c) == IF counter[c] < MaxSends THEN "send" ELSE "gaveup"

(* The end of one sendAndConfirm, with b in buf2: the next chunk, another  *)
(* send of the same one, or the end of doClient.                           *)
Confirm(c, b) ==
    IF Confirmed(c, b)
      THEN IF chunkNo[c] = Chunks[c]
             THEN /\ pc' = [pc EXCEPT ![c] = "done"]
                  /\ buf2' = [buf2 EXCEPT ![c] = b]
                  /\ UNCHANGED <<chunkNo, counter>>
             ELSE /\ pc' = [pc EXCEPT ![c] = "send"]
                  /\ chunkNo' = [chunkNo EXCEPT ![c] = @ + 1]
                  /\ counter' = [counter EXCEPT ![c] = 0]
                  /\ buf2' = [buf2 EXCEPT ![c] = 0]
      ELSE /\ pc' = [pc EXCEPT ![c] = AfterMiss(c)]
           /\ buf2' = [buf2 EXCEPT ![c] = b]
           /\ UNCHANGED <<chunkNo, counter>>

\* A received datagram leaves the network unless the network duplicates it.
Take(m) == {net \ {m}} \cup (IF "dup" \in Faults THEN {net} ELSE {})

\* recv returns: any answer ends the wait, the timer is left running.
ClientRecv(c) ==
    /\ pc[c] = "recv"
    /\ \E m \in net : /\ m.kind = "ack" /\ m.who = c
                      /\ net' \in Take(m)
                      /\ Confirm(c, m.chunk)
    /\ UNCHANGED <<timer, server>>

\* SIGALRM interrupts recv: buf2 keeps what an earlier answer left in it.
Timeout(c) ==
    /\ pc[c] = "recv" /\ timer[c]
    /\ "late" \in Faults
    /\ timer' = [timer EXCEPT ![c] = FALSE]
    /\ Confirm(c, buf2[c])
    /\ UNCHANGED <<server, net>>

(* SIGALRM arrives before recv is entered: the handler runs, nothing is    *)
(* interrupted, and recv will wait without a timer.                        *)
AlarmMissed(c) ==
    /\ pc[c] = "armed" /\ timer[c]
    /\ "late" \in Faults
    /\ timer' = [timer EXCEPT ![c] = FALSE]
    /\ UNCHANGED <<pc, chunkNo, counter, buf2, server, net>>

-----------------------------------------------------------------------------
(* The server.                                                             *)

FirstOf(i, a) == con[i].addr = a /\ \A j \in Slots : j < i => con[j].addr # a
LastFree(i) == Free(i) /\ \A j \in Slots : j > i => ~Free(j)

\* Mutant: a free slot is taken although the address has one.
findIndexNoMatch(i, a) == FirstOf(i, a) \/ LastFree(i)

(* Slot i is what findIndex returns for address a: the first slot in use   *)
(* by a, or, when there is none, the last free one.                        *)
findIndex(i, a) == \/ FirstOf(i, a)
                   \/ LastFree(i) /\ \A j \in Slots : con[j].addr # a

\* The number of the last chunk accepted in slot i, once findIndex has run.
LastChunk(i) == IF Free(i) THEN 0 ELSE con[i].chunkNo

\* The chunk is ahead of the connection: no answer, but the slot is taken.
Ahead(i, c, k) ==
    /\ k > LastChunk(i) + 1
    /\ con' = [con EXCEPT ![i] = [addr |-> c, chunkNo |-> LastChunk(i)]]
    /\ UNCHANGED <<got, out>>

\* Mutant: the slot of a finished transfer is kept.
AfterAcceptKept(c, k) == [addr |-> c, chunkNo |-> k]
AfterAccept(c, k) == IF k = Chunks[c] THEN FreeSlot
                     ELSE [addr |-> c, chunkNo |-> k]

\* The expected chunk is printed; the last one frees the slot.
Accept(i, c, k) ==
    /\ k = LastChunk(i) + 1
    /\ con' = [con EXCEPT ![i] = AfterAccept(c, k)]
    /\ got' = [got EXCEPT ![c] = IF k > @ THEN k ELSE @]
    /\ out' = [out EXCEPT ![c] = k]

\* A chunk accepted before is only answered.
Repeat(i, c, k) == /\ k < LastChunk(i) + 1
                   /\ UNCHANGED server

\* One turn of the loop of doServer.
ServerRecv(c) ==
    \E m \in net :
       /\ m.kind = "data" /\ m.who = c
       /\ \E rest \in Take(m), i \in Slots :
             /\ findIndex(i, c)
             /\ \/ Ahead(i, c, m.chunk) /\ net' = rest
                \/ /\ Accept(i, c, m.chunk) \/ Repeat(i, c, m.chunk)
                   /\ net' = rest \cup {Ack(c, m.chunk)}
       /\ UNCHANGED client

\* The table is full of other addresses: the datagram is dropped.
ServerIgnore(c) ==
    /\ \A i \in Slots : ~findIndex(i, c)
    /\ \E m \in net : /\ m.kind = "data" /\ m.who = c
                      /\ net' \in Take(m)
    /\ UNCHANGED <<client, server>>

\* The network loses a datagram.
Lose == /\ "loss" \in Faults
        /\ \E m \in net : net' = net \ {m}
        /\ UNCHANGED <<client, server>>

\* In recv with the timer gone: only a datagram can wake the client.
Stranded(c) == pc[c] = "recv" /\ ~timer[c]

\* No client can run any more; the server waits in recvfrom for ever.
Quiet == /\ \A c \in Clients : pc[c] \in Ended \/ Stranded(c)
         /\ UNCHANGED vars

ClientStep(c) == Send(c) \/ EnterRecv(c) \/ ClientRecv(c) \/ Timeout(c)
                 \/ AlarmMissed(c)
ServerStep(c) == ServerRecv(c) \/ ServerIgnore(c)

Next == \/ \E c \in Clients : ClientStep(c) \/ ServerStep(c)
        \/ Lose
        \/ Quiet

(* Processes that can run do run, the timer fires, and a datagram the      *)
(* network does not lose is received some time.                            *)
Fairness == \A c \in Clients : /\ WF_vars(Send(c))
                               /\ WF_vars(EnterRecv(c))
                               /\ WF_vars(ClientRecv(c))
                               /\ WF_vars(Timeout(c))
                               /\ WF_vars(ServerStep(c))

Spec == Init /\ [][Next]_vars
FairSpec == Spec /\ Fairness
-----------------------------------------------------------------------------
(* Properties.                                                             *)

\* Every variable has its type; a datagram is one its sender may have sent.
TypeOK ==
    /\ pc \in [Clients -> {"send", "armed", "recv"} \cup Ended]
    /\ chunkNo \in [Clients -> Nat]
    /\ counter \in [Clients -> 0 .. MaxSends]
    /\ buf2 \in [Clients -> Nat]
    /\ timer \in [Clients -> BOOLEAN]
    /\ con \in [Slots -> [addr : Clients \cup {NoAddr}, chunkNo : Nat]]
    /\ net \subseteq Datagram
    /\ got \in [Clients -> Nat]
    /\ out \in [Clients -> Nat]

(* doClient moves on to a chunk, or ends normally, only when the server    *)
(* has printed everything before, whatever the network did to the echoes.  *)
ConfirmedIsPrinted ==
    \A c \in Clients : /\ chunkNo[c] <= got[c] + 1
                       /\ pc[c] = "done" => got[c] = Chunks[c]

(* findIndex never gives one address two slots of the table, even when a   *)
(* slot was freed and taken again by a late duplicate.                     *)
UniqueSlots ==
    \A i, j \in Slots : ~Free(i) /\ con[i].addr = con[j].addr => i = j

(* A slot in use belongs to an unfinished transfer: doServer has accepted   *)
(* at least one chunk less than the client has, and no chunk the client    *)
(* has not sent yet.                                                       *)
OpenSlots ==
    \A i \in Slots : ~Free(i) =>
        LET c == con[i].addr IN con[i].chunkNo < Chunks[c]
                                /\ con[i].chunkNo <= chunkNo[c]

\* The chunk printed for each client, if any, is the next one or restarts.
NextInOrder == \A c \in Clients : out'[c] # out[c] =>
                  \/ out'[c] = out[c] + 1
                  \/ out'[c] = 1 /\ out[c] = Chunks[c]

(* doServer prints the chunks of a client in order; it starts the file     *)
(* again (the echo of the last chunk was lost or late) only after a whole  *)
(* file has been printed.                                                  *)
PrintedInOrder == [][NextInOrder]_vars

(* doClient ends after finitely many retries, except when a SIGALRM that   *)
(* arrived before recv was entered has left recv without a timer.          *)
ClientEnds == \A c \in Clients : <>(pc[c] \in Ended \/ Stranded(c))

(* The retries, slots and echoes implement the abstract transfer.          *)
Transfer == INSTANCE FileTransfer WITH
    outcome <- [c \in Clients |-> IF pc[c] \in Ended THEN pc[c] ELSE "running"]
TransferSpec == Transfer!ASpec
=============================================================================
