---------------------------- MODULE Calculator ----------------------------
(***************************************************************************)
(* The calculator of sop2/lab04/tcp_test.  The server waits on a local and *)
(* on a TCP socket, accepts one client for each that is ready, and serves  *)
(* it to the end before it looks at the next: it reads the request of five *)
(* integers into the one buffer it has, calculates, answers and closes.    *)
(* SIGINT is blocked except in epoll_pwait.  A request travels in two      *)
(* parts here, the operands and the operation; a client may fall silent    *)
(* or disappear between any two steps.  Integers are -Half .. Half - 1.    *)
(***************************************************************************)
EXTENDS Integers, Sequences

CONSTANTS Clients,
          Local,      \* the clients that use the local socket
          Half,       \* half the number of integers (2^31 in the code)
          Requests    \* Requests[c] : what client c may ask, records [a, b, op]

VARIABLES
    spc,        \* server: "loop", "poll", "serve", "read", "answer", "close",
                \*   "exited", "failed" (ERR), "crashed" (SIGFPE)
    do_work,
    sigint,     \* SIGINT is pending
    backlog,    \* backlog[s] : clients of socket s that are not accepted yet
    events,     \* the sockets epoll_pwait reported, not served yet
    client,     \* the client being served
    data,       \* the request buffer
    size,       \* parts of the buffer that were read from this client
    request,    \* request[c] : what client c asks
    cpc,        \* client: "idle", "write" (two parts), "wait", "printed",
                \*   "failed", "silent", "gone"
    sent,       \* sent[c] : parts of the request sent so far
    answer,     \* answer[c] : answers the server has written to c
    lost        \* the connection of c was reset

server == <<spc, do_work, sigint, backlog, events, client, data, size>>
clients == <<request, cpc, sent, answer, lost>>
vars == <<server, clients>>

Sockets == {"local", "tcp"}
SocketOf(c) == IF c \in Local THEN "local" ELSE "tcp"
Down == spc \in {"exited", "failed", "crashed"}

MinInt == -Half
MaxInt == Half - 1
Modulus == 2 * Half

Init == /\ spc = "loop" /\ do_work = TRUE /\ sigint = FALSE
        /\ backlog = [s \in Sockets |-> <<>>] /\ events = {}
        /\ client = CHOOSE c \in Clients : TRUE
        /\ data = [a |-> 0, b |-> 0, op |-> "?"]   \* not initialised, never used
        /\ size = 0
        /\ request = [c \in Clients |-> data]
        /\ cpc = [c \in Clients |-> "idle"]
        /\ sent = [c \in Clients |-> 0]
        /\ answer = [c \in Clients |-> <<>>]
        /\ lost = {}

-----------------------------------------------------------------------------
(* calculate                                                               *)

\* Two's complement: what is left of v in an integer.
Wrap(v) == ((v - MinInt) % Modulus) + MinInt

\* C divides towards zero.
Quotient(a, b) == LET q == (IF a < 0 THEN -a ELSE a) \div (IF b < 0 THEN -b ELSE b)
                  IN  IF (a < 0) = (b < 0) THEN q ELSE -q

\* INT_MIN / -1 raises SIGFPE.
Traps(d) == d.op = "/" /\ d.a = MinInt /\ d.b = -1

CanDivide(d) == d.b # 0

Done(v) == [status |-> 1, result |-> Wrap(v)]
Impossible == [status |-> 0, result |-> -1]

Calculate(d) == IF d.op = "+" THEN Done(d.a + d.b)
                ELSE IF d.op = "-" THEN Done(d.a - d.b)
                ELSE IF d.op = "*" THEN Done(d.a * d.b)
                ELSE IF d.op = "/" /\ CanDivide(d) THEN Done(Quotient(d.a, d.b))
                ELSE Impossible

-----------------------------------------------------------------------------
(* doServer                                                                *)

Loop == /\ spc = "loop" /\ spc' = IF do_work THEN "poll" ELSE "exited"
        /\ UNCHANGED <<do_work, sigint, backlog, events, client, data, size, clients>>

Ready == {s \in Sockets : backlog[s] # <<>>}

\* epoll_pwait reports what is ready.
Poll == /\ spc = "poll" /\ Ready # {}
        /\ events' = Ready /\ spc' = "serve"
        /\ UNCHANGED <<do_work, sigint, backlog, client, data, size, clients>>

\* Mutant: SIGINT is not taken out of the mask of epoll_pwait.
IntOpenNever == FALSE
IntOpen == sigint

\* SIGINT is delivered inside epoll_pwait, which fails with EINTR.
Interrupted == /\ spc = "poll" /\ IntOpen
               /\ sigint' = FALSE /\ do_work' = FALSE /\ spc' = "loop"
               /\ UNCHANGED <<backlog, events, client, data, size, clients>>

\* add_new_client: only the server accepts, so there is one to accept.
Accept(s) == /\ spc = "serve" /\ s \in events
             /\ client' = Head(backlog[s])
             /\ backlog' = [backlog EXCEPT ![s] = Tail(@)]
             /\ events' = events \ {s}
             /\ size' = 0 /\ spc' = "read"
             /\ UNCHANGED <<do_work, sigint, data, clients>>

EndBatch == /\ spc = "serve" /\ events = {} /\ spc' = "loop"
            /\ UNCHANGED <<do_work, sigint, backlog, events, client, data, size, clients>>

\* bulk_read gets the next part; it waits for it, or finds what had come
\* before the connection was reset.
ReadPart == /\ spc = "read" /\ size < sent[client]
            /\ data' = IF size = 0 THEN [data EXCEPT !.a = request[client].a, !.b = request[client].b]
                                   ELSE [data EXCEPT !.op = request[client].op]
            /\ size' = size + 1
            /\ spc' = IF size' = 2 THEN "answer" ELSE "read"
            /\ UNCHANGED <<do_work, sigint, backlog, events, client, clients>>

\* Mutant: the size of the request is not tested.
AfterEofAnswer == "answer"
AfterEof == "close"

\* End of file: a request cut short is not answered.
ReadEof == /\ spc = "read" /\ size = sent[client] /\ cpc[client] = "gone" /\ client \notin lost
           /\ spc' = AfterEof
           /\ UNCHANGED <<do_work, sigint, backlog, events, client, data, size, clients>>

\* read fails, ERR.
ReadFails == /\ spc = "read" /\ client \in lost /\ spc' = "failed"
             /\ UNCHANGED <<do_work, sigint, backlog, events, client, data, size, clients>>

\* The local client is gone: bulk_write fails with EPIPE, which is ignored.
Unheard == client \in Local /\ cpc[client] = "gone"

\* calculate and bulk_write.
Answer == /\ spc = "answer" /\ ~Traps(data) /\ client \notin lost /\ ~Unheard
          /\ answer' = [answer EXCEPT ![client] = Append(@, Calculate(data))]
          /\ spc' = "close"
          /\ UNCHANGED <<do_work, sigint, backlog, events, client, data, size,
                         request, cpc, sent, lost>>

AnswerUnheard == /\ spc = "answer" /\ ~Traps(data) /\ Unheard /\ spc' = "close"
                 /\ UNCHANGED <<do_work, sigint, backlog, events, client, data, size, clients>>

\* The connection was reset after the request: bulk_write fails with
\* ECONNRESET, and ERR ends the server.
AnswerFails == /\ spc = "answer" /\ ~Traps(data) /\ client \in lost /\ spc' = "failed"
               /\ UNCHANGED <<do_work, sigint, backlog, events, client, data, size, clients>>

Crash == /\ spc = "answer" /\ Traps(data) /\ spc' = "crashed"
         /\ UNCHANGED <<do_work, sigint, backlog, events, client, data, size, clients>>

Close == /\ spc = "close" /\ spc' = "serve"
         /\ UNCHANGED <<do_work, sigint, backlog, events, client, data, size, clients>>

Interrupt == /\ ~sigint /\ do_work /\ ~Down
             /\ sigint' = TRUE
             /\ UNCHANGED <<spc, do_work, backlog, events, client, data, size, clients>>

-----------------------------------------------------------------------------
(* The clients.                                                            *)

\* connect_tcp_socket or connect_socket, and prepare_request.
Connect(c) == /\ cpc[c] = "idle" /\ ~Down
              /\ backlog' = [backlog EXCEPT ![SocketOf(c)] = Append(@, c)]
              /\ \E r \in Requests[c] : request' = [request EXCEPT ![c] = r]
              /\ cpc' = [cpc EXCEPT ![c] = "write"]
              /\ UNCHANGED <<spc, do_work, sigint, events, client, data, size, sent, answer, lost>>

\* bulk_write of the request, part by part.
WritePart(c) == /\ cpc[c] = "write"
                /\ sent' = [sent EXCEPT ![c] = @ + 1]
                /\ cpc' = [cpc EXCEPT ![c] = IF sent'[c] = 2 THEN "wait" ELSE "write"]
                /\ UNCHANGED <<server, request, answer, lost>>

\* bulk_read of the answer, and print_answer.
PrintAnswer(c) == /\ cpc[c] = "wait" /\ answer[c] # <<>>
                  /\ cpc' = [cpc EXCEPT ![c] = "printed"]
                  /\ UNCHANGED <<server, request, sent, answer, lost>>

\* The server has ended without an answer, ERR.
ClientFails(c) == /\ cpc[c] \in {"write", "wait"} /\ Down /\ answer[c] = <<>>
                  /\ cpc' = [cpc EXCEPT ![c] = "failed"]
                  /\ UNCHANGED <<server, request, sent, answer, lost>>

\* The client is stopped, or its network is: nothing more comes from it.
FallSilent(c) == /\ cpc[c] = "write" /\ cpc' = [cpc EXCEPT ![c] = "silent"]
                 /\ UNCHANGED <<server, request, sent, answer, lost>>

\* The client is killed and its connection closed, or (TCP) reset.
Vanish(c) == /\ cpc[c] \in {"write", "wait"} /\ cpc' = [cpc EXCEPT ![c] = "gone"]
             /\ lost' = lost \/ (c \notin Local /\ lost' = lost \cup {c})
             /\ UNCHANGED <<server, request, sent, answer>>

ServerStep == \/ Loop \/ Poll \/ Interrupted \/ EndBatch \/ ReadPart \/ ReadEof \/ ReadFails
              \/ Answer \/ AnswerUnheard \/ AnswerFails \/ Crash \/ Close \/ \E s \in Sockets : Accept(s)
ClientStep(c) == WritePart(c) \/ PrintAnswer(c) \/ ClientFails(c)
Trouble(c) == FallSilent(c) \/ Vanish(c)

Next == ServerStep \/ Interrupt \/ \E c \in Clients : ClientStep(c) \/ Connect(c) \/ Trouble(c)

(* The server and the clients run when they can; connecting, falling       *)
(* silent and disappearing are choices.                                    *)
Fairness == WF_vars(ServerStep) /\ \A c \in Clients : WF_vars(ClientStep(c))

Spec == Init /\ [][Next]_vars
FairSpec == Spec /\ Fairness

-----------------------------------------------------------------------------
(* Properties.                                                             *)

\* v is what a two's complement machine makes of the exact result.
Congruent(v, exact) == v \in MinInt .. MaxInt /\ (v - exact) % Modulus = 0

\* The remainder of a division has the sign of the dividend.
IsQuotient(v, a, b) == \E r \in MinInt .. MaxInt :
    /\ a = v * b + r
    /\ r * a >= 0 /\ r * r < b * b

IsAnswer(m, r) ==
    \/ m.status = 1 /\ r.op = "+" /\ Congruent(m.result, r.a + r.b)
    \/ m.status = 1 /\ r.op = "-" /\ Congruent(m.result, r.a - r.b)
    \/ m.status = 1 /\ r.op = "*" /\ Congruent(m.result, r.a * r.b)
    \/ m.status = 1 /\ r.op = "/" /\ IsQuotient(m.result, r.a, r.b)
    \/ m.status = 0 /\ (r.op = "/" => r.b = 0) /\ r.op \notin {"+", "-", "*"}

(* Although all clients share one buffer and some leave in the middle of a *)
(* request, a client gets at most one answer, and it is the answer to its  *)
(* own request; only a request that was sent completely is answered.       *)
AnswersOwnRequest ==
    \A c \in Clients : /\ Len(answer[c]) <= 1
                       /\ answer[c] # <<>> => sent[c] = 2 /\ IsAnswer(answer[c][1], request[c])

\* A client fell silent in the middle of its request.
Stalled == \E c \in Clients : cpc[c] = "silent"

(* Every client that has sent its request gets the answer, and SIGINT ends *)
(* the server, whatever clients it is busy with or finds waiting.  The     *)
(* exceptions are a server that has failed, and one at the mercy of a      *)
(* silent client: it reads from it without a time limit, SIGINT blocked.   *)
ServedUnlessStalled ==
    /\ \A c \in Clients :
         cpc[c] = "wait" ~> (cpc[c] \in {"printed", "gone"} \/ Down \/ Stalled)
    /\ sigint ~> (Down \/ Stalled)
=============================================================================
