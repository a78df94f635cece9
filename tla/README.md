# Formal models of the SOP exercise programs

The repository holds solutions of an operating-systems laboratory: small C programs
about processes, signals, threads, pipes, message queues, shared memory and sockets.
They share no run-time state with each other; each is a system of its own, made of
processes or threads that the kernel interleaves. This directory models nineteen of
them, every program whose steps can meet those of another actor, of a signal or of a
kill; checks them with TLC, and proves the safety properties of seventeen of them, and the
refinements, with TLAPS for every value of their constants.

Every definition that stands for code names its lines in `PROJECT.json` (`map`).

## Inventory

| program | state | operations | what is hard |
|---|---|---|---|
| `sop2/lab04/udp_test`: file transfer | client: chunk number, send counter, answer buffer, timer; server: table of MAXADDR connections | send and confirm, timeout, findIndex, accept, repeat, ignore | lost, doubled, late datagrams; full table; alarm before `recv` |
| `sop2/lab03/prod_cons`: producer and consumer | ring buffer in shared memory, mutex, two condition variables | lock, wait, produce, consume, signal, unlock, destroy | lost and spurious wakeups, wrap of the indices, destruction |
| `sop1/lab04/zad2`: card game of threads | hands, `card_to_take`, `winner`, start flag, barrier | create, start, check, give, barrier, look, take | fast threads against slow ones, stale `winner` |
| `sop1/lab03/prelab`: letter counting | circular buffer, counts, `quit` | push, pop, read, count, signal thread, main's loop and joins | unlocked test before pop, SIGINT, full buffer |
| `sop2/lab04/zad02`: election server | connections, `electors`, `votes`, work flags | accept, introduce, vote, leave, UDP tally, SIGINT | reuse of descriptors, a signal taken by the other thread |
| `sop1/lab02/prelab/workshop`: file conversion | dispositions, pending signals, `last_signal`, chunks, outputs | fork, start, suspend, convert, write, wait | signals overwriting each other, partition of the file |
| `sop2/lab03/zad02`: Monte Carlo | named memory and semaphore, robust mutex, counters | arrive, lock, repair, add, leave, destroy, unlink | death with a lock, last one out against a newcomer |
| `sop2/lab02/zad02`: task server | task queue, result queues, notifications, counter | put, take, answer, notify, receive, wait, unlink | one-shot notifications, interrupted `wait`, full queue |
| `sop2/lab01/zad05`: card game of processes | hands, ring of pipes, FIFO, signals | fork, deal, send, check, take, win, poll, kill | signal between test and `read`, second winner |
| `sop2/lab02/mq_test1`: bingo | two queues, `children_left`, notification, `errno` | send, sleep, receive, report, reap | handlers that nest, retried calls, full queues |
| `sop2/lab04/tcp_test`: calculator | two listening sockets, one request buffer, work flag | connect, send in parts, read, calculate, answer, close, SIGINT | a request cut short over the buffer of the last one, silent clients, the ends of the integer range |
| `sop2/lab03/dying`: robust mutex | counter and mutex in shared memory | lock, read, write, die, repair, report | death of the owner at any distance from the parent's last lock |
| `sop2/lab02/zad03`: telephone game | ring of queues with names, a message in each child's hand | open, send, pass on, receive, unlink | everybody blocked in a full ring, a name unlinked before it was opened |
| `sop2/lab02/mq_test2`: forum | queues, one-shot registrations, notification threads | register, read, send, leave | several reading threads of one child, full queues |
| `sop2/lab01/prelab`: two teams | a pipe for every pair of opponents | write, read | circular waiting |
| `sop1/lab02/.../sop-cluster.c`: cluster | running flags, pending signals, whose turn it is | start, halt, count, suspend, ask | two pending signals in either order, signals before the handlers |
| `sop1/lab02/.../sop-kg.c`: kindergarten | dispositions of SIGTERM, alarm | fork, alarm, terminate, wait | the only SIGTERM while it is ignored |
| `sop1/lab01/editor`: line editor | the file | append, delete (write, then truncate), print | kill between the two steps, boundaries of line numbers |
| `sop1/lab01/tutorial/example03`: environments | directories with `requirements` and package files | create, install, remove | kill between writes, failure half-way through the names |
| `sop2/lab04/sop_net.h` | none | socket helpers | as used by the two servers |

Programs that are not modelled are listed at the end.

The hazards, each at its line, are the list `hazards` of `PROJECT.json`.

## Modules

| module | role |
|---|---|
| `FileTransfer` | abstract: each file is printed without gaps; a client that ends normally had all of its file printed |
| `UdpTransfer` | the two programs of `udp_test` and the network; implements `FileTransfer` |
| `UdpTransferProofs` | theorems about `UdpTransfer` |
| `BoundedFifo` | abstract: a bounded queue through which numbered items pass in order |
| `ProdCons` | `prod_cons.c`; its ring implements `BoundedFifo` |
| `ProcessesProofs` | theorems about `ProdCons`, and about `Bingo` in `MCProcesses` |
| `QueuesProofs` | theorems about `TaskServer`, `Forum` and `Telephone` in `MCQueues` |
| `CardGamesProofs` | theorems about `SopMss` and `Cards` in `MCCardGames` |
| `SignalsProofs` | theorems about `SopL2` and `Cluster` in `MCSignals` |
| `SocketsProofs` | theorems about `Election` and `Calculator` in `MCSockets` |
| `FilesProofs` | theorems about `LetterCount`, `Editor` and `Venv` in `MCFiles` |
| `SharedMemoryProofs` | theorems about `MonteCarlo` and `Dying` in `MCSharedMemory` |
| `LetterCount` | `sop1/lab03/prelab`; its circular buffer implements `BoundedFifo` |
| `Telephone` | `sop2/lab02/zad03`; its whole ring implements `BoundedFifo` |
| `SopMss`, `Election`, `Calculator`, `SopL2`, `MonteCarlo`, `Dying`, `TaskServer`, `Forum`, `Cards`, `Teams`, `Cluster`, `Kindergarten`, `Bingo`, `Editor`, `Venv` | one program each |
| `MCUdpTransfer` | the instance of one module that TLC checks |
| `MCQueues`, `MCCardGames`, `MCSignals`, `MCSockets`, `MCFiles`, `MCSharedMemory`, `MCProcesses` | programs of one kind together |

The last seven put programs of one kind together that are checked in one run. The programs
share nothing, so the composition is a choice and not a product: the variable `started`
names the program that runs, which one is the first choice of a behaviour, and the others
stand in their initial states (the constant `Games` of `MCCardGames` says which ones a
run may start). The state spaces add up. A property of one program holds
trivially in the states of the others; the mutants show that it does not hold trivially
in its own. Fairness is that of the program that is started.

A program counter per process (`pc`, `mpc`, `ppc`, ...) has one value for each place
where another actor can come in between: a lock, a blocking call, a test of a flag that
a handler sets. Steps between two such places are one action. Signals are a set of
pending ones per process (a standard signal sent twice is delivered once) and a delivery
action whose effect depends on where the process is: a blocking call ends with EINTR, a
flag is set, the default action kills. Where a test and the call it protects can be
separated by a signal, they are two actions (`Check` and `Sleep` in `Cards`, `Test` and
`Suspend` in `SopL2`, `Send`, `EnterRecv` in `UdpTransfer`).

Data that no property tells apart is left out: payloads are chunk numbers, letters are
counts, a card is its suit, a number of the bingo is "mine" or "not mine". Printing and
argument parsing are left out everywhere. A failing `malloc` or `open` is not modelled
unless the failure is part of the protocol (`fork` and the priority of `mq_send` in
`TaskServer`, a full `mq_end` and a clobbered `errno` in `Bingo`, a reset connection in
`Election` and `Calculator`).

Notes on single modules:

* **UdpTransfer.** `net` is a set of datagrams; a duplicate is a datagram that stays in
  the set when it is received, a reordering is the free choice of the next one. `got`
  and `out` are history variables: the prefix printed so far, the chunk printed last.
  The abstract transfer allows a chunk to be printed after its client gave up.
* **ProdCons.** The parent is the producer, the child the consumer. `SpuriousWakeup` is
  bounded by `MaxSpurious` for TLC; the proofs hold for every bound.
* **SopMss.** The game is bounded by `MaxTurns`. A game ends when main has joined all
  players and deals again (`NewDeal`). `ClaimedGameEnds` names the two ways in which a claimed
  game does not: a player that leaves because a faster one has claimed the game in the next
  turn leaves the others at the barrier (`Split`); and player 0, whose 0 means that there is
  no winner, gets a hand of one suit and takes the claim of another player back by writing its
  number (`Erased`, line 129). Player 0 can never win.
* **LetterCount.** `Overtaken(w)` is the state in which a worker has seen `len > 0`, and
  another one has popped the last file: `circ_buf_pop` then never returns. `prelab.txt`
  lines 45-46 promise that SIGINT can end the program "w każdej chwili"; the property
  `EndsUnlessOvertaken` says exactly when this is not so.
* **Election.** Descriptors are small numbers, the lowest free one is given first, so that
  reuse happens in the instance. `identity` is a history variable: the elector a
  connection introduced itself as; `VotesAuthentic` uses it to say who may change a vote.
  The test of `do_work_glob` (106) and the call of `epoll_pwait` (113) are two steps. Main
  blocks SIGINT between them, so that it is the UDP thread that takes the signal; main
  then waits with the flag cleared (`Unnoticed`, the exception of `ElectionEnds`, which is
  reached) until a client moves or another SIGINT comes. A client that closes with the
  greeting unread resets its connection: the next read, or the greeting to a new elector
  (`WelcomeFails`), fails and ends the server.
* **MonteCarlo.** Each `shm_open` or `sem_open` of an unlinked name makes a new object, so
  a process may hold memory whose name belongs to somebody else's. `overlap` records that
  an arrival met a departure; the code gives no guarantee from there on, and the
  constraint `UntilOverlap` of the run stops there.
  Both properties of the run hold of every state from an overlap on, so that stopping
  there hides nothing.
* **Dying.** `counter++` is a load and a store, so that a missing mutex would lose updates.
  The number of iterations is a parameter; the parent may be done before the child dies.
* **Telephone.** `Capacity` counts the queues and the children's hands; a sentence with
  that many words or more blocks main in `mq_send`. `strayed` are the children whose
  `mq_open` came after the `mq_unlink` of their predecessor and made a new, empty queue.
  `UnderWay` puts together, from the last child back to main, the words in each queue and
  in the hand of the child that fills it: this is the queue that the ring implements.
* **Forum.** A message that meets an empty queue with a registration starts a thread; how
  many threads of a child are about to register or read is all that matters about them.
  The queues are not unlinked before the start, so they may hold messages.
* **Cluster.** No signal is blocked, so two pending signals are delivered in either order.
  Two history variables name what can go wrong for a child: `garbled`, it took the last
  signal before an older one or before its handlers were set, so that its flag says the
  opposite of what the parent asked; `missed`, it took the signal between its test and
  `sigsuspend` (lines 59 and 60, 75 and 76) and sleeps with the flag set. `ChildrenFollow`
  is exact about both: the flag is wrong if and only if the child is garbled, and a child
  told to count that has not missed the signal counts or is at the test that lets it. A
  request to the parent that comes before `parent_running = 0` is forgotten, and one
  between the test and `sigsuspend` does not wake the parent: the next one does, which the
  user may never send. Nothing is claimed about these.
* **SopL2.** A child that takes SIGINT after SIGUSR1 and before it has tested
  `last_signal` forgets the start and stays in `sigsuspend` (`Overwritten`, the exception
  of `ConversionEnds`). `sop-l2.txt` line 32 demands that a child that receives SIGINT
  ends; the run `sigint_overwrites` shows that this one does not.
* **Kindergarten.** A child inherits SIG_IGN for SIGTERM until line 73.
* **Teams.** The data of a player is its position. Both teams have the same size, as the
  code says it assumes.
* **Calculator.** A request travels in two parts, operands and operation: enough for one
  that is cut short over the remains of another. Integers are `-Half .. Half - 1`, where
  `Half` is 2^31 in the code, and wrap, which is what the build without optimisation does;
  `MinInt / -1` raises SIGFPE. A client that is gone before its answer is written: to a
  closed local socket `bulk_write` fails with EPIPE, which is ignored (`AnswerUnheard`);
  after a reset of a TCP connection it fails with ECONNRESET, and ERR ends the server
  (`AnswerFails`), as a reset during the request does (`ReadFails`). `unix_client.c`
  defines a `make_socket` that conflicts with the one of `sop_net.h` and does not compile
  as it stands; it is modelled as the client it is meant to be.
* **Editor.** A command is atomic except that a deletion writes and then truncates.
  `EditsLines` measures a file against what the comment over `main` says of the last
  command (`Applied`), with two named differences: after a kill between the two steps the
  end of the old text follows the new one, as `cut` and `Left` say, and a number below 1
  deletes the first line (`BelowOne`). The second contradicts the comment; the run
  `delete_below_one` shows it. The comment over `main` also lists a command 'l:r'; `main`
  does not know it, although `read_limits` is there, so `ReadLimits` is checked as an
  operator on every file.
* **Venv.** A file is a sequence of tokens; a line cut off after its name or its space
  makes every later installation into that environment fail, one cut off after its
  version is continued by the next package. `torn` marks such environments: what is
  promised for them is only that no package is named twice. Runs follow one another; two
  at the same time are not modelled.
* **Cards.** Every process keeps every end of every ring pipe open, so `read` never
  returns 0 and `write` never fails with EPIPE; the branches for these are unreachable.
  The pid of the winner goes through `encode_number` and `decode_number`, byte by byte:
  `decode_number` shifts the highest byte into the sign, so that pids must be positive
  ints, as they are. A player that wins when the parent has already closed and unlinked the
  FIFO fails to open it and ends (`AfterOpen`); one that comes between closing and unlinking
  waits for a reader.
* **Bingo.** Neither handler saves `errno`, so it is a variable: a handler that runs
  between a failing call and the test of `errno` turns EINTR or EAGAIN into an error that
  kills the group. The second of `msleep` is not a time: a child may be slower.

## Runs

| run | instance | shows |
|---|---|---|
| `udp_transfer` | one client, three chunks, two slots, three sends per chunk; loss, duplication, late timers | a confirmed chunk was printed; order of output; the client ends, or its alarm came before `recv`; refinement of `FileTransfer` |
| `udp_table` | three clients (2, 2 and 1 chunks), two slots, two sends, late timers; symmetric clients | the table never names a client twice, and only unfinished transfers |
| `card_games` | `Cards`: 2 players, 4 cards, 2 suits, one Ctrl-C | no card is lost or doubled; the game ends unless a player is stranded |
| | `SopMss`: 3 players, 2 cards, 2 suits, 2 turns, two deals | everyone starts; the winner has one suit; a claimed game comes to the next deal unless the players are split or player 0 erases the claim |
| `sop_mss_cards` | `SopMss` with 3 turns, one deal | **violated**: a card that was given is overwritten before it is taken |
| `signals` | `SopL2`: 3 children, 4 characters (chunks 2, 2, 0), one SIGINT | outputs are exact conversions; at most one more character after SIGINT; all end unless SIGINT overwrote SIGUSR1 |
| | `Cluster`: 2 children | a child counts when the parent lets it, however late the signals, unless it is garbled or missed the signal |
| `sigint_overwrites` | `SopL2`: 1 child, one SIGINT | **violated**: a child that receives SIGINT ends |
| `files` | `LetterCount`: 3 workers, files of 2, 0 and 1 letters, buffer of 3 | counts are complete; refinement of `BoundedFifo`; SIGINT ends the program unless a worker was overtaken |
| | `Editor`: every file of at most 4 characters, line numbers -1 to 4 | each command does to the lines what it says, up to the doubled end after a kill and to numbers below 1 |
| | `Venv`: 2 environments, 2 packages, one kill | `requirements` is the list of the packages installed |
| `delete_below_one` | `Editor`: files of at most 2 characters | **violated**: 'd' deletes the nth line |
| `sockets` | `Election`: 2 clients, 2 electors, 1 candidate, bytes 1 and 2, one unread byte each | descriptors and electors match; only the client of an elector changes its vote; the server ends unless SIGINT went unnoticed |
| | `Calculator`: a local and a TCP client, integers -2 .. 1, seven requests at the edges | one answer, to the client's own request; clients are served and SIGINT ends the server unless it failed (a reset, SIGFPE) or a client is silent |
| `shared_memory` | `MonteCarlo`: 3 processes, 2 batches, one fault (death or SIGINT) | until an overlap `cnt_active` covers the working processes and the mutex lives; all end unless the semaphore was lost |
| | `Dying`: 6 iterations, death in the fourth | the parent ends with the exact count |
| `queues` | `TaskServer`: 3 workers, 2 tasks each, queues of 2 | no answer is forgotten; the server waits for all and nothing interrupts its `wait`; it ends |
| | `Telephone`: 3 children, queues of 2, sentences of up to 12 words (`Capacity` is 11) | the ring is a bounded queue; the game ends unless the sentence does not fit or a child strayed |
| | `Forum`: 3 children, queues of 2, 2 messages each, any messages left over | no message is forgotten, `mq_notify` is never EBUSY |
| `processes` | `ProdCons`: buffer of 3, 8 items, 3 spurious wakeups | order, wakeups, refinement of `BoundedFifo`, everything is consumed |
| | `Teams`: 3 against 3 | everyone meets everyone, in order |
| | `Kindergarten`: 3 children | it closes unless a child still ignored SIGTERM |
| | `Bingo`: 3 children, lives of at most 2, queues of 2 | every report is printed; the parent ends unless it is asleep at a full queue |

Why the bounds are enough: each instance has more actors or messages than the resource
they compete for (clients against slots, items against buffer size, children against
queue capacity, workers against files), goes round every index at least once, and allows
at least one fault at every point. `Cards` has two players because a Ctrl-C at every
point of three is out of reach in a few minutes; three and four players without Ctrl-C
also pass (`N = 4`, `M = 2`, `MaxInts = 0`: 1.2 million states). `MonteCarlo` also
passes with two faults. Sentences of the telephone game go from none over those that fit
into one queue to those that do not fit into the ring.

Three runs show a disagreement between the code and what a comment or the text of the task
says, each listed under `findings`:

* `sop_mss_cards`: "pass a random card to your neighbor" (`sop-mss.c:133`). One barrier
  separates giving from taking, and nothing separates taking from the giving of the next turn.
* `sigint_overwrites`: a child that receives SIGINT closes its resources and ends
  (`sop-l2.txt:32`). One whose SIGUSR1 was overwritten by it waits for ever.
* `delete_below_one`: "'d', then n to delete the nth line" (`sop-ed.c:156`). For a number
  below 1 the first line is deleted.

Two more are not runs of their own: the letter count cannot be ended "w każdej chwili"
(`prelab.txt:45-46`) when a worker was overtaken, which is the named exception of
`EndsUnlessOvertaken`; and the editor does not know the command 'l:r' of its comment.

Each property of a passing run has a mutant: an operator marked "Mutant" in its module
that changes one mapped definition as a plausible slip in the code would. With it TLC
finds the property violated.

### Fairness

Weak fairness of the steps of each process or thread, and of the delivery of pending
signals that are not blocked: the kernel schedules every runnable process and delivers
signals when it runs. The environment is never forced: nobody has to press Ctrl-C,
connect, vote, send a datagram or kill a process, and the network may lose everything.
A client of the calculator may fall silent or vanish. The alarm of the kindergarten fires.
In `UdpTransfer` the server's and the client's receive steps are fair, the loss of a
datagram is not.

Runs with `CHECK_DEADLOCK FALSE` are those of programs that may stop: by ending, or in
one of the hangs that a property names (`Overtaken`, `Overwritten`, `Stranded`,
`Overfed`, `Split`, `Unnoticed`, `Stalled`, `strayed`, `deaf`, a lost semaphore).

## Proofs

`UdpTransferProofs` (for any clients, file lengths, table size, number of sends, faults):

* `TypeCorrect`, and `Confirmation`, `OneSlotPerClient`, `SlotsUnfinished`: the invariants
  of the runs, as `Spec => []...`;
* `OrderOfOutput`: the action property `PrintedInOrder`;
* `Refinement`: `Spec => TransferSpec`.

The inductive invariant `Inv` adds to the types: the chunk a client works on lies in its
file (`ClientInv`); client and server are at most one chunk apart, and the answer buffer
never holds more than was printed (`StepInv`); a datagram in flight proves something, a
data chunk that its client has reached it, an answer that the server printed it
(`NetInv`); a slot lags behind what was printed (`SlotInv`); and the chunk printed last is
the one in the client's slot, if it has one that has begun (`OutInv`). `NetInv` carries the
argument: late and doubled datagrams stay true statements about the past because `got`
and `chunkNo` only grow. `UniqueSlots` is needed so that "the slot" of a client makes sense.

`ProcessesProofs`, first `ProdCons` (any buffer size, iterations and number of spurious wakeups):
`TypeCorrect`, `InOrder`, `WakeupsKept`, `SafeDestroy`. Its invariant says who holds the
mutex (`MutexInv`), that a process has left its loop when its counter is at the end
(`LoopInv`), that the ring holds the consecutive numbers between the two counters
(`RingInv`), and in which order the processes exit (`ExitInv`). `TakenInOrder` follows from
`RingInv`; `NoLostWakeup` is inductive only with `MutexInv`, since a signal may be late
only while its sender holds the mutex.

From the same invariant, `RingIsFifo`: `Spec => FifoSpec`, the refinement of `BoundedFifo`;
`SafeDestroy`: the mutex and the condition variables go when nobody can use them.

The same module proves `AllReportsPrinted` (`Bingo` in `MCProcesses`; any number of children,
lives and capacity): a report is in the queue or printed, a child counts until it is reaped
(`ReportInv`), and a report in the queue has a pending signal or a handler that will look
again, however the handlers nest (`NotifyInv`).

This and the other modules prove about the compositions that TLC checks, so that the theorems are
about `LabSpec`: a step of another program leaves the variables of the one in question
unchanged.

`QueuesProofs` (for any number of workers, tasks, children, rounds, lives, words, and any
capacity of the queues):

* `AnswersNoticed` and `ServerWaitsForAll` (`TaskServer`): what a worker has answered and
  where it is agree (`WorkerInv`), the counter of the server is the number of the answers
  taken out (`CountInv`, a cardinality), and outside the handler a pending signal has an
  answer to read (`SignalInv`). The last is why no signal is left for the `wait` of main.
* `ForumMessagesFound` (`Forum`): a child that has not registered yet has no thread and no
  registration (`Quiet`); a thread registers again before it reads.
* `RingIsQueue` (`Telephone`): `LabSpec => RingSpec`. The queue and the hand of each process
  hold a run of consecutive words, and the run of a child begins where that of its
  predecessor will end (`InOrder`): child k has received `r[k]` words, `r` being hidden
  behind an existential quantifier because the code counts nothing. The runs join to one
  from `Len(final)` to `sent` (`UnderWayIsRun`), and with a queue of main that is not full
  the sum of their lengths is below `Capacity` (`RoomInRing`). The "!" is the only message
  that is no word, comes once, and only after the last word (`BangGone`).

`CardGamesProofs` (for any number of players, cards, suits, turns and deals):

* `WinnerKeepsSuit` (`SopMss`): who has claimed the game is past its check and holds one suit
  until the deal after it (`Claimed`).
* `DeckKept` (`Cards`): every card in a pipe was put there by a player that is to get one
  (`PipeInv`, by counting places), and a player that is to get one has room in its hand
  (`HandInv`): so no write to the ring blocks and no slot overflows. `BytesMakeInt` shows that
  a pid survives its bytes in the FIFO.

`SignalsProofs`:

* `ClusterFollows` (any number of children): a signal that comes alone is the last one the
  parent sent, so that its handler sets `child_running` to what was asked for, and one that
  comes before an older one makes the child garbled; a child that sleeps with its flag set took
  the signal between test and `sigsuspend`, which is what `missed` records.
* `ConversionExact` (any text, one to nine children): the chunks made so far partition the
  beginning of the file (`PartitionInv`); what a child has written is its chunk converted,
  upper and lower case alternating with the parity of the letters before (`WrittenInv`).

`SocketsProofs` (any number of clients, electors, candidates, requests):

* `NobodyVotesForAnother` and the action property `VotesByTheirElectors` (`Election`): a registered
  client has the slot of its elector, which is the slot that `search` finds for it, and two connections never share a descriptor
  (`SlotInv`, `FdInv`). accept finds a free descriptor because there are as many as clients.
* `OwnAnswers` (`Calculator`, integers of any size): the bytes read so far are those of the
  client that is served (`BufferInv`), although all share the buffer; who waits for accept
  waits once and has no answer (`QueueInv`, `ServedInv`). `WrapCongruent` and
  `QuotientRight` prove the arithmetic: sums and products are congruent to the exact ones and
  quotients are truncated towards zero.

`FilesProofs` (`LetterCount`; any workers, files and size of the buffer): `EveryLetterCounted`
and `BufferIsFifo` (`LabSpec => FifoSpec`): the buffer holds the files met and not yet taken
(`RingInv`), no file is open in two workers (`WorkerInv`), and `freq` is the number of letters
of the files taken, less what workers have left (`CountInv`, a cardinality).

The same module proves the two programs that keep their state in files:

* `LinesEdited` (`Editor`; any characters, length of the file and line numbers). What a
  command should do is said of the lines of the file (`Lines`, `Applied`, `FlattenSeq`),
  what the code does of characters (`Newlines`, `SkipLines`, `Deleted`). The invariant
  `EditInv` says that the file is what the last command should have made of the one before
  it, with the old end behind it if a kill came first, and that between the two steps of a
  deletion the part that `ftruncate` is about to keep is; it is needed because the second step
  no longer knows what the first has read. The theorem is about the property as it stands, its
  two exceptions included: that 'd' deletes no line for a number below 1 is false.
* `RequirementsKept` (`Venv`; any environments, packages, runs and kills). `RequirementsSound`
  speaks of the times between two runs only. `VenvInv` adds where main is in its command line
  (`ControlInv`); that in every file, torn or not, the lines begin with different names, each
  followed by a space or cut off (`NamesInv`); which part of its line `write_line` has written,
  and that the line it goes on with has more than a name (`WriteInv`); and what a file contains
  when a line is half written or the file has been emptied to be written again (`ListInv`).
  `NamesInv` is what makes the removal of a line the removal of a package, and it holds after a
  kill because a file with a line that is only a name is refused by `Readable`.

Both rest on the lemmas about texts: a text is joined from lines in exactly one way in which
all but the last end with their only newline (`LinesFacts`, `LinesOfFlat`), joining texts joins
their lines (`FlatJoin`), a line more or less (`LinesGrow`, `LastLineGrows`, `OneLineOut`,
`LeftOut`), and the place after the m-th newline is the length of the first m lines
(`SkipFacts`). `FlattenSeq` is a recursive function: that it has a value, and only one, is
proved by taking the least place at which it would not (`Joined`, `JoinsExists`). `Lines` takes
the newlines in ascending order through `Nth`, whose value is found by counting (`NthIs`).

`SharedMemoryProofs`. `MemoryStaysSound` (`MonteCarlo`; any processes, batches, deaths and
SIGINTs): until an arrival overlaps a departure, who is inside owns the mutex and a
dead owner stays its owner (`OwnerInv`), and `cnt_active`, and every value of it that is read
to be written back, is at least what must be counted (`CountInv`): unlocked decrements may
lose each other but never count twice. The part of the invariant that speaks of hits, types
and stages holds with an overlap, too.
`CountIsExact` (`Dying`; any iterations, any death): a number that the parent prints is the
exact one, the part of `CountSurvives` that is no liveness. `CounterInv` says why: only the
owner of the mutex touches the counter, so what it has read is still true when it writes, and
the counter is the difference of the updates made, the one of the dead child among them.

What is assumed about constants: the named `ASSUME`s of the modules (`UdpAssumption`,
`ProdConsAssumption`, `LetterAssumption`, `ElectionAssumption`, `MonteCarloAssumption`,
`TaskServerAssumption`, `CardsAssumption`, `SopL2Assumption`, `MssAssumption`,
`BoundAssumption`, `TokenAssumption`), and for the
other programs of a composition the hypotheses of their theorems (`ForumSizes`, `BingoSizes`,
`PhoneSizes`, `CalcSizes`, `Nodes \in Nat`). All of them say that sizes and counts are
natural numbers, mostly positive ones, that deals and requests have their types, that the
files are a sequence of lengths, that pids are positive ints, and that the tokens for a space
and a newline are neither a package nor a version (names with blanks in them are not modelled).

Only model-checked:

* everything about liveness and fairness, which is out of the prover's reach;
* `Teams` and `Kindergarten`, whose properties are all of that kind.

Every invariant of a run, and every action property and refinement, is a theorem.

Most type invariants are the first conjunct of one safety invariant (`CountsComplete`,
`ElectorsAuthentic`, `OutputsExact`, `SharedStateSound`, `NoLostNotification`,
`CardsConserved`, `ReportsComplete`). The types of `UdpTransfer` and `ProdCons`, and the
order of the items of `ProdCons`, are proved and no run repeats them.

## Plan

1. Done: all programs with state that several actors share, or that outlives a kill.
2. Done: the safety properties of all programs that have any of their own, and the four
   refinements. Next proofs: the order in which the players of `Teams` are read.
3. Next properties: what remains true in `MonteCarlo` after an overlap; two runs of
   `Venv` at the same time.

## Not modelled

* `sop2/lab04/zad04` (city client): its server is not in the repository, and what the
  table of owners should be is that server's to say.
* `sop2/lab02/zad04` (chat) and `sop2/lab02/zad02/test.c`: the notification idiom of
  `TaskServer` and `Forum` with a terminal; no new shared state.
* `sop2/lab01/zad03` (teacher and students): the processes pass the address of a pointer
  (`&buf`, `&msg`) to `read` and `write`, so the first exchange overwrites their local
  variables and nothing after it is defined.
* `sop2/lab01` tests and the stub `zad02`, `sop2/lab03/zad01`, `mmap_children`: children
  with disjoint data that the parent reads after the last `wait`.
* `sop1/lab02/tutorial` (`sop-fork.c`, `sop-signals.c`): children that do not depend on
  each other. In `sop-signals.c` a `wait` that a SIGCHLD interrupts ends the parent early.
* `sop1/lab03/tutorial`, `sop1/lab04/prelab`: independent threads joined by main.
* The other tools of `sop1/lab00` and `sop1/lab01` (grep, directory listings, `sop-dika.c`):
  one pass over their input, nothing that a second step could meet.
* Everywhere: printing, argument parsing, and failures of `malloc`, `open` and the like
  that end the program before it shares anything.
