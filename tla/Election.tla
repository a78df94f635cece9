------------------------------ MODULE Election ------------------------------
(***************************************************************************)
(* The election server of sop2/lab04/zad02.  The main thread (run_tcp)     *)
(* serves the electors' TCP connections with epoll; a second thread        *)
(* (run_udp) announces the leading candidate once a second; SIGINT ends    *)
(* the server.  A step of main is the test of do_work_glob, the call of    *)
(* epoll_pwait, its return, or the handling of one event; a step of the    *)
(* other thread is one critical section.                                   *)
(***************************************************************************)
EXTENDS Integers, Sequences, FiniteSets

CONSTANTS Clients,      \* client programs, one connection each at a time
          MAX_EVENTS,   \* electors (7 in the code)
          N_CANDIDATES, \* candidates (3 in the code)
          Bytes,        \* bytes the clients send, '1' being 1
          MaxUnread     \* bound: bytes a client sends ahead of the server

ASSUME ElectionAssumption == /\ MAX_EVENTS \in Nat \ {0} /\ N_CANDIDATES \in Nat \ {0}
                             /\ Bytes \subseteq Nat /\ IsFiniteSet(Clients)

VARIABLES
    conn,          \* conn[c] : "none", "queued" (not accepted), "open",
                   \*   "eof" (closed by c), "reset" (reset by c)
    sent,          \* sent[c] : bytes sent and not yet read by the server
    fd,            \* fd[c] : the server's descriptor for c, 0 when it has none
    electors,      \* electors[k] : descriptor registered as elector k, or -1
    votes,         \* votes[k] : candidate elector k voted for, 0 when none
    batch,         \* events epoll_pwait returned and main has not handled yet
    do_work_glob, do_work,
    mpc,           \* main: "test" (line 106), "enter" (about to call
                   \*   epoll_pwait), "wait" (in it), "batch", "score", "freed",
                   \*   "exited", "failed" (ERR)
    upc,           \* UDP thread: "test", "sleep", "ended", "undefined"
    identity       \* history: identity[c] : elector c registered as, or 0

clients == <<conn, sent>>
server == <<fd, electors, votes, batch, mpc>>
flags == <<do_work_glob, do_work>>
vars == <<clients, server, flags, upc, identity>>

Electors == 1 .. MAX_EVENTS
Candidates == 1 .. N_CANDIDATES
ListenFd == 0
Fds == 1 .. Cardinality(Clients)
Running == mpc \notin {"exited", "failed"}

Init == /\ conn = [c \in Clients |-> "none"]
        /\ sent = [c \in Clients |-> <<>>]
        /\ fd = [c \in Clients |-> 0]
        /\ electors = [k \in Electors |-> -1]
        /\ votes = [k \in Electors |-> 0]
        /\ batch = {}
        /\ do_work_glob = TRUE /\ do_work = TRUE
        /\ mpc = "test" /\ upc = "test"
        /\ identity = [c \in Clients |-> 0]

-----------------------------------------------------------------------------
(* The clients and the user.                                               *)

Connect(c) == /\ Running /\ conn[c] = "none" /\ fd[c] = 0
              /\ conn' = [conn EXCEPT ![c] = "queued"]
              /\ UNCHANGED <<sent, server, flags, upc, identity>>

SendByte(c) == /\ Running /\ conn[c] \in {"queued", "open"} /\ Len(sent[c]) < MaxUnread
               /\ \E b \in Bytes : sent' = [sent EXCEPT ![c] = Append(@, b)]
               /\ UNCHANGED <<conn, server, flags, upc, identity>>

(* The client closes; with the server's greeting unread this is a reset,   *)
(* after which bytes that came before it may still be read.                *)
Disconnect(c) == /\ Running /\ conn[c] = "open"
                 /\ \/ conn' = [conn EXCEPT ![c] = "eof"] /\ UNCHANGED sent
                    \/ /\ conn' = [conn EXCEPT ![c] = "reset"]
                       /\ sent' = sent \/ sent' = [sent EXCEPT ![c] = <<>>]
                 /\ UNCHANGED <<server, flags, upc, identity>>

(* SIGINT, any number of times.  In epoll_pwait main has it unblocked and  *)
(* is interrupted.  Elsewhere main blocks it, so the UDP thread, which was *)
(* created before sigprocmask, runs the handler; a main that has tested    *)
(* the flag but not called epoll_pwait yet does not notice.                *)
Interrupt == /\ mpc \in {"test", "enter", "wait", "batch"}
             /\ do_work_glob' = FALSE
             /\ mpc' = IF mpc = "wait" THEN "test" ELSE mpc
             /\ UNCHANGED <<clients, fd, electors, votes, batch, do_work, upc, identity>>

-----------------------------------------------------------------------------
(* run_tcp                                                                 *)

\* Mutant: the flag set by the handler is not looked at.
StopAskedNever == FALSE
StopAsked == ~do_work_glob

\* The test at the top of the loop.
TestWork == /\ mpc = "test"
            /\ IF StopAsked
                 THEN mpc' = "score" /\ do_work' = FALSE
                 ELSE mpc' = "enter" /\ UNCHANGED do_work
            /\ UNCHANGED <<clients, fd, electors, votes, batch, do_work_glob, upc, identity>>

\* epoll_pwait is called.
EnterWait == /\ mpc = "enter"
             /\ mpc' = "wait"
             /\ UNCHANGED <<clients, fd, electors, votes, batch, flags, upc, identity>>

\* Descriptors with something to read: data, end of stream or an error.
Readable(c) == fd[c] # 0 /\ (sent[c] # <<>> \/ conn[c] \in {"eof", "reset"})
Ready == {fd[c] : c \in {d \in Clients : Readable(d)}}
         \cup {ListenFd : c \in {d \in Clients : conn[d] = "queued"}}

\* epoll_pwait returns at most MAX_EVENTS of the ready descriptors.
Wake == /\ mpc = "wait" /\ Ready # {}
        /\ batch' \in {B \in SUBSET Ready : B # {} /\ Cardinality(B) <= MAX_EVENTS}
        /\ mpc' = "batch"
        /\ UNCHANGED <<clients, fd, electors, votes, flags, upc, identity>>

FreeFd == CHOOSE n \in Fds : /\ \A c \in Clients : fd[c] # n
                             /\ \A m \in Fds : m < n => \E c \in Clients : fd[c] = m

\* accept gives the lowest free descriptor, also one closed a moment ago.
Accept == /\ mpc = "batch" /\ ListenFd \in batch
          /\ \E c \in Clients : /\ conn[c] = "queued"
                                /\ conn' = [conn EXCEPT ![c] = "open"]
                                /\ fd' = [fd EXCEPT ![c] = FreeFd]
          /\ batch' = batch \ {ListenFd}
          /\ UNCHANGED <<sent, electors, votes, mpc, flags, upc, identity>>

Registered(c) == \E k \in Electors : electors[k] = fd[c]

\* close_client: the connection and its unread bytes are gone.
CloseClient(c) == /\ conn' = [conn EXCEPT ![c] = "none"]
                  /\ sent' = [sent EXCEPT ![c] = <<>>]
                  /\ fd' = [fd EXCEPT ![c] = 0]
                  /\ identity' = [identity EXCEPT ![c] = 0]

Welcome(b) == b \in Electors /\ electors[b] = -1

\* A byte from an unregistered connection: refused, impostor or elector.
Introduce(c, b) ==
    IF Welcome(b)
      THEN /\ electors' = [electors EXCEPT ![b] = fd[c]]
           /\ identity' = [identity EXCEPT ![c] = b]
           /\ sent' = [sent EXCEPT ![c] = Tail(@)]
           /\ UNCHANGED <<conn, fd>>
      ELSE CloseClient(c) /\ UNCHANGED electors

\* search: the first slot that holds the descriptor.
Search(n) == CHOOSE k \in Electors : /\ electors[k] = n
                                     /\ \A j \in Electors : j < k => electors[j] # n

\* Mutant: a byte that is no vote takes the vote back.
VoteOfNobody(b, old) == IF b \in Candidates THEN b ELSE 0
VoteOf(b, old) == IF b \in Candidates THEN b ELSE old

\* One byte is read from a connection.
ReadByte(c) ==
    /\ mpc = "batch" /\ fd[c] \in batch /\ fd[c] # 0
    /\ sent[c] # <<>>
    /\ conn[c] = "reset" => Registered(c) \/ ~Welcome(Head(sent[c]))
    /\ IF Registered(c)
         THEN /\ votes' = [votes EXCEPT ![Search(fd[c])] = VoteOf(Head(sent[c]), @)]
              /\ sent' = [sent EXCEPT ![c] = Tail(@)]
              /\ UNCHANGED <<conn, fd, electors, identity>>
         ELSE Introduce(c, Head(sent[c])) /\ UNCHANGED votes
    /\ batch' = batch \ {fd[c]}
    /\ UNCHANGED <<mpc, flags, upc>>

\* The connection of a new elector was reset, also since the read: the
\* greeting cannot be written, and ERR (or SIGPIPE) ends the server.
WelcomeFails(c) ==
    /\ mpc = "batch" /\ fd[c] \in batch /\ fd[c] # 0
    /\ sent[c] # <<>> /\ conn[c] \in {"open", "reset"}
    /\ ~Registered(c) /\ Welcome(Head(sent[c]))
    /\ mpc' = "failed"
    /\ UNCHANGED <<clients, fd, electors, votes, batch, flags, upc, identity>>

\* Mutant: the slot is not reset when the connection ends.
ResetNot(n) == electors
Reset(n) == IF \E k \in Electors : electors[k] = n
              THEN [electors EXCEPT ![Search(n)] = -1] ELSE electors

\* read returns 0: the connection is closed and its elector slot freed.
ReadEof(c) ==
    /\ mpc = "batch" /\ fd[c] \in batch /\ fd[c] # 0
    /\ sent[c] = <<>> /\ conn[c] = "eof"
    /\ CloseClient(c)
    /\ electors' = Reset(fd[c])
    /\ batch' = batch \ {fd[c]}
    /\ UNCHANGED <<votes, mpc, flags, upc>>

\* read fails with ECONNRESET: ERR ends the server.
ReadReset(c) ==
    /\ mpc = "batch" /\ fd[c] \in batch /\ fd[c] # 0
    /\ sent[c] = <<>> /\ conn[c] = "reset"
    /\ mpc' = "failed"
    /\ UNCHANGED <<clients, fd, electors, votes, batch, flags, upc, identity>>

EndBatch == /\ mpc = "batch" /\ batch = {}
            /\ mpc' = "test"
            /\ UNCHANGED <<clients, fd, electors, votes, batch, flags, upc, identity>>

\* The final score is printed; main destroys the mutexes and frees votes.
Score == /\ mpc = "score"
         /\ mpc' = "freed"
         /\ UNCHANGED <<clients, fd, electors, votes, batch, flags, upc, identity>>

\* main returns without having joined the UDP thread.
Exit == /\ mpc = "freed"
        /\ mpc' = "exited"
        /\ UNCHANGED <<clients, fd, electors, votes, batch, flags, upc, identity>>

-----------------------------------------------------------------------------
(* run_udp                                                                 *)

UdpTest == /\ Running /\ upc = "test"
           /\ upc' = IF do_work THEN "sleep" ELSE "ended"
           /\ UNCHANGED <<clients, server, flags, identity>>

(* The scores are counted under mtx_votes and the leader is announced,     *)
(* which changes no shared state; once main has destroyed mtx_votes and    *)
(* freed votes the outcome is undefined.                                   *)
UdpTally == /\ Running /\ upc = "sleep"
            /\ upc' = IF mpc = "freed" THEN "undefined" ELSE "test"
            /\ UNCHANGED <<clients, server, flags, identity>>

MainStep == \/ TestWork \/ EnterWait \/ Wake \/ Accept \/ EndBatch \/ Score \/ Exit
            \/ \E c \in Clients : ReadByte(c) \/ WelcomeFails(c) \/ ReadEof(c) \/ ReadReset(c)
UdpStep == UdpTest \/ UdpTally

\* The process has ended.
Over == ~Running /\ UNCHANGED vars

Next == \/ \E c \in Clients : Connect(c) \/ SendByte(c) \/ Disconnect(c)
        \/ Interrupt \/ MainStep \/ UdpStep \/ Over

(* The two threads run whenever they can; clients and user are free.       *)
Fairness == WF_vars(MainStep) /\ WF_vars(UdpStep)

Spec == Init /\ [][Next]_vars
FairSpec == Spec /\ Fairness

-----------------------------------------------------------------------------
(* Properties.                                                             *)

\* The electors table, the votes and the threads of run_tcp and run_udp keep their types.
TypeOK == /\ conn \in [Clients -> {"none", "queued", "open", "eof", "reset"}]
          /\ \A c \in Clients : sent[c] \in Seq(Bytes)
          /\ fd \in [Clients -> Fds \cup {0}]
          /\ electors \in [Electors -> Fds \cup {-1}]
          /\ votes \in [Electors -> Candidates \cup {0}]
          /\ batch \subseteq Fds \cup {ListenFd}
          /\ do_work_glob \in BOOLEAN /\ do_work \in BOOLEAN
          /\ mpc \in {"test", "enter", "wait", "batch", "score", "freed", "exited", "failed"}
          /\ upc \in {"test", "sleep", "ended", "undefined"}
          /\ identity \in [Clients -> Electors \cup {0}]

(* A slot of electors holds the descriptor of the connection that          *)
(* introduced itself as that elector, never one that was closed and given  *)
(* to somebody else: nobody votes for another elector.                     *)
ElectorsAuthentic ==
    /\ TypeOK
    /\ \A k \in Electors :
        electors[k] # -1 => \E c \in Clients : fd[c] = electors[k] /\ identity[c] = k

\* The new vote of k is a candidate named by the client of k.
Chosen(k) ==
    /\ votes'[k] \in Candidates
    /\ \E c \in Clients : /\ identity[c] = k /\ fd[c] = electors[k]
                          /\ sent[c] # <<>> /\ votes'[k] = Head(sent[c])

(* The vote of an elector changes only to a candidate named by the client  *)
(* that introduced itself as that elector and still holds its slot: no     *)
(* disconnection, impostor, reused descriptor or byte that names no        *)
(* candidate changes it or takes it back.                                  *)
VotesAuthentic == [][\A k \in Electors : votes'[k] # votes[k] => Chosen(k)]_vars

\* main waits for events although do_work_glob is cleared.
Unnoticed == mpc = "wait" /\ ~do_work_glob /\ Ready = {}

(* After SIGINT the server ends, or main stays in epoll_pwait because the  *)
(* UDP thread took the signal between the test (106) and the call (113),   *)
(* and no client gives main anything to do: the next event, or another     *)
(* SIGINT, would end it.                                                   *)
EndsUnlessUnnoticed == ~do_work_glob ~> (~Running \/ []Unnoticed)
=============================================================================
