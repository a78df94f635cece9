--------------------------- MODULE CardGamesProofs ---------------------------
(***************************************************************************)
(* The card games of MCCardGames with any number of players, cards and     *)
(* suits and any deals.  SopMss: nobody changes its hand after claiming    *)
(* the game.  Cards: no card is lost or doubled, and no pipe gets full.    *)
(***************************************************************************)
EXTENDS MCCardGames, FiniteSetTheorems, FunctionTheorems, TLAPS

\* Every variable has its type; a hand is a function of its slots.
ThreadsTyped == Mss!TypeOK /\ hands \in [Mss!Player -> [Mss!Slot -> Mss!Card]]

\* Who claims the game stays between its claim and the next deal.
Claimed == claimed # 0 => /\ tpc[claimed] \in {"give", "barrier", "look", "exited"}
                         /\ Mss!OneSuit(hands[claimed])

\* Who is counted by the barrier stands at it, and may cross it.
AtBarrier == \A p \in arrived : tpc[p] = "barrier" /\ turn[p] < MaxTurns

\* Who is not created yet cannot have claimed the game or reached the barrier.
NotCreated == \A p \in Mss!Player : p >= created => tpc[p] = "absent"

ThreadsInv == ThreadsTyped /\ Claimed /\ AtBarrier /\ NotCreated

-----------------------------------------------------------------------------
LEMMA NeighbourType == \A p \in Mss!Player : Mss!Neighbour(p) \in Mss!Player
  BY MssAssumption DEF Mss!MssSizes, Mss!Neighbour, Mss!Player

\* The hands of a deal, and the values main starts with.
LEMMA Values ==
    /\ \A h \in ThreadDeals :
          /\ h \in [Mss!Player -> [Mss!Slot -> Mss!Card]]
          /\ \A p \in Mss!Player : \A s \in Mss!Slot : h[p][s] \in Mss!Card
    /\ 0 \in 0 .. Threads /\ 0 \in Mss!Player /\ 0 \in 0 .. MaxTurns /\ 0 \in Mss!Card
       /\ 1 \in Mss!Slot
  <1>1. \A h \in ThreadDeals : h \in [Mss!Player -> [Mss!Slot -> Mss!Card]]
    BY MssAssumption DEF Mss!MssSizes
  <1>2. 0 \in 0 .. Threads /\ 0 \in Mss!Player /\ 0 \in 0 .. MaxTurns /\ 0 \in Mss!Card
     /\ 1 \in Mss!Slot
    BY MssAssumption DEF Mss!MssSizes, Mss!Player, Mss!Slot, Mss!Card
  <1> QED BY <1>1, <1>2

LEMMA InitInv == Mss!Init => ThreadsInv
  BY Values DEF Mss!Init, ThreadsInv, ThreadsTyped, Mss!TypeOK, Claimed, AtBarrier, NotCreated

LEMMA MainInv == ASSUME ThreadsInv, Mss!Create \/ Mss!Start \/ Mss!Join PROVE ThreadsInv'
  <1>1. CASE Mss!Create
    <2>1. created \in Mss!Player /\ created + 1 \in 0 .. Threads
      BY <1>1, MssAssumption DEF Mss!MssSizes, Mss!Create, Mss!PlayersMissing, ThreadsInv,
         ThreadsTyped, Mss!TypeOK, Mss!Player
    <2>2. tpc[created] = "absent"
      BY <2>1 DEF ThreadsInv, NotCreated, Mss!Player
    <2> QED BY <1>1, <2>1, <2>2
            DEF Mss!Create, Mss!Goto, ThreadsInv, ThreadsTyped, Mss!TypeOK, Claimed,
               AtBarrier, NotCreated, Mss!Player
  <1>2. CASE Mss!Start
    BY <1>2 DEF Mss!Start, ThreadsInv, ThreadsTyped, Mss!TypeOK, Claimed, AtBarrier, NotCreated
  <1>3. CASE Mss!Join
    <2>1. arrived = {}
      BY <1>3 DEF Mss!Join, ThreadsInv, ThreadsTyped, Mss!TypeOK, AtBarrier
    <2> QED BY <1>3, <2>1, Values
            DEF Mss!Join, Mss!NewGame, ThreadsInv, ThreadsTyped, Mss!TypeOK, Claimed,
               AtBarrier, NotCreated
  <1> QED BY <1>1, <1>2, <1>3

LEMMA PlayInv == ASSUME ThreadsInv, NEW p \in Mss!Player, Mss!Play(p) PROVE ThreadsInv'
  <1>1. CASE Mss!AwaitStart(p)
    BY <1>1 DEF Mss!AwaitStart, Mss!AfterStart, Mss!Goto, ThreadsInv, ThreadsTyped,
       Mss!TypeOK, Claimed, AtBarrier, NotCreated
  <1>2. CASE Mss!Check(p)
    BY <1>2 DEF Mss!Check, Mss!Goto, ThreadsInv, ThreadsTyped, Mss!TypeOK, Claimed, AtBarrier,
       NotCreated
  <1>3. CASE Mss!Give(p)
    <2>1. PICK s \in Mss!Slot :
            /\ to_give' = [to_give EXCEPT ![p] = s]
            /\ card_to_take' = [card_to_take EXCEPT ![Mss!Neighbour(p)] = hands[p][s]]
      BY <1>3 DEF Mss!Give
    <2>2. to_give' \in [Mss!Player -> Mss!Slot] /\ card_to_take' \in [Mss!Player -> Mss!Card]
      BY <2>1, NeighbourType DEF ThreadsInv, ThreadsTyped, Mss!TypeOK
    <2> QED BY <1>3, <2>2 DEF Mss!Give, Mss!Goto, ThreadsInv, ThreadsTyped, Mss!TypeOK,
       Claimed, AtBarrier, NotCreated
  <1>4. CASE Mss!Arrive(p)
    <2>1. \A q \in arrived \cup {p} : tpc[q] = "barrier" /\ turn[q] < MaxTurns
      BY <1>4 DEF Mss!Arrive, ThreadsInv, AtBarrier
    <2>2. CASE Mss!LastArrival
      <3>1. turn' \in [Mss!Player -> 0 .. MaxTurns]
        BY <1>4, <2>1, <2>2, MssAssumption DEF Mss!MssSizes, Mss!Arrive, ThreadsInv,
           ThreadsTyped, Mss!TypeOK
      <3> QED BY <1>4, <2>1, <2>2, <3>1 DEF Mss!Arrive, ThreadsInv, ThreadsTyped, Mss!TypeOK,
         Claimed, AtBarrier, NotCreated
    <2>3. CASE ~Mss!LastArrival
      BY <1>4, <2>1, <2>3 DEF Mss!Arrive, ThreadsInv, ThreadsTyped, Mss!TypeOK, Claimed,
         AtBarrier, NotCreated
    <2> QED BY <2>2, <2>3
  <1>5. CASE Mss!Look(p)
    BY <1>5 DEF Mss!Look, Mss!GameOver, Mss!Goto, ThreadsInv, ThreadsTyped, Mss!TypeOK,
       Claimed, AtBarrier, NotCreated
  <1>6. CASE Mss!Take(p)
    <2>1. /\ hands' \in [Mss!Player -> [Mss!Slot -> Mss!Card]]
          /\ \A q \in Mss!Player \ {p} : hands'[q] = hands[q]
      BY <1>6 DEF Mss!Take, ThreadsInv, ThreadsTyped, Mss!TypeOK
    <2>2. claimed # 0 => claimed # p
      BY <1>6 DEF Mss!Take, ThreadsInv, Claimed
    <2> QED BY <1>6, <2>1, <2>2
            DEF Mss!Take, Mss!Goto, Mss!OneSuit, ThreadsInv, ThreadsTyped, Mss!TypeOK,
               Claimed, AtBarrier, NotCreated
  <1> QED BY <1>1, <1>2, <1>3, <1>4, <1>5, <1>6 DEF Mss!Play

\* Whichever game is started, the one of the threads keeps its invariant.
LEMMA ThreadsInvariance == LabSpec => []ThreadsInv
  <1>1. LabInit => ThreadsInv
    BY InitInv DEF LabInit
  <1>2. ThreadsInv /\ [LabNext]_labVars => ThreadsInv'
    <2> SUFFICES ASSUME ThreadsInv, [LabNext]_labVars PROVE ThreadsInv'
      OBVIOUS
    <2>1. CASE UNCHANGED threadVars
      BY <2>1 DEF threadVars, ThreadsInv, ThreadsTyped, Mss!TypeOK, Claimed, AtBarrier,
                  NotCreated, Mss!OneSuit
    <2>2. Mss!Next \/ UNCHANGED threadVars
      BY DEF LabNext, Game, ThreadGame, labVars
    <2> QED BY <2>1, <2>2, MainInv, PlayInv DEF Mss!Next
  <1> QED BY <1>1, <1>2, PTL DEF LabSpec

(* Whoever *winner names holds a hand of one suit until the next deal,     *)
(* although every player goes on passing cards until it sees the end of    *)
(* the game (run_player of sop-mss.c).                                     *)
THEOREM WinnerKeepsSuit == LabSpec => []WinnerHasOneSuit
  <1>1. ThreadsInv => WinnerHasOneSuit
    BY DEF ThreadsInv, ThreadsTyped, Claimed, WinnerHasOneSuit, Mss!WinnerHasOneSuit
  <1> QED BY <1>1, ThreadsInvariance, PTL

-----------------------------------------------------------------------------
(* Cards: the invariant.                                                   *)

\* The players that have given a card away and not got one since, or have left.
Out == {p \in Player : pc[p] \in {"check", "toRead", "read", "left"}}

\* The cards in the ring pipes, each as a place, with room for one too many.
InPipes == {x \in Player \X (1 .. N + 1) : x[2] <= Len(ring[x[1]])}

\* Each card in a pipe was given by another player, so none holds more than N.
PipeInv == Cardinality(InPipes) <= Cardinality(Out)

\* Nobody holds more than M cards, and who is to get one has room for it.
HandInv == \A p \in Player :
              /\ HandSize(hand[p]) <= M
              /\ pc[p] \in {"check", "toRead", "read"} => HandSize(hand[p]) < M

\* What is in the FIFO are pids of players, one for each that has left at most.
FifoInv == /\ Len(fifo) <= Cardinality({p \in Player : pc[p] = "left"})
           /\ \A k \in 1 .. Len(fifo) : \E p \in Player : fifo[k] = encode_number(Pid(p))

\* While the parent forks or deals, a player or a hand is missing.
ParentInv == /\ ppc = "fork" => /\ forked < N
                                /\ \A p \in Player : p >= forked => pc[p] = "unborn"
             /\ ppc \in {"fork", "deal"} => dealt < N

CardsInv == CardsConserved /\ PipeInv /\ HandInv /\ FifoInv /\ ParentInv

-----------------------------------------------------------------------------
(* Cards: counting places.                                                 *)

LEMMA OneMore ==
    ASSUME NEW S, IsFiniteSet(S), NEW x, x \notin S
    PROVE  /\ IsFiniteSet(S \cup {x}) /\ Cardinality(S) \in Nat
           /\ Cardinality(S \cup {x}) = Cardinality(S) + 1
  BY FS_AddElement, FS_CardinalityType

LEMMA OneLess ==
    ASSUME NEW S, IsFiniteSet(S), NEW x \in S
    PROVE  /\ IsFiniteSet(S \ {x}) /\ Cardinality(S \ {x}) \in Nat
           /\ Cardinality(S) \in Nat /\ Cardinality(S \ {x}) = Cardinality(S) - 1
  BY FS_RemoveElement, FS_CardinalityType

LEMMA SameSize ==
    ASSUME NEW S, IsFiniteSet(S), NEW T, NEW f \in [S -> T],
           \A x, y \in S : f[x] = f[y] => x = y,
           \A t \in T : \E x \in S : f[x] = t
    PROVE  Cardinality(T) = Cardinality(S)
  <1>1. f \in Bijection(S, T)
    BY DEF Bijection, Injection, Surjection, IsInjective
  <1>2. ExistsBijection(S, T)
    BY <1>1 DEF ExistsBijection
  <1> QED BY <1>2, FS_Bijection

LEMMA Players ==
    /\ N \in Nat \ {0} /\ M \in Nat \ {0} /\ Suits \in Nat \ {0}
    /\ IsFiniteSet(Player) /\ Cardinality(Player) = N
    /\ \A T \in SUBSET Player : IsFiniteSet(T) /\ Cardinality(T) \in 0 .. N
  <1>1. N \in Nat \ {0} /\ M \in Nat \ {0} /\ Suits \in Nat \ {0}
    BY CardsAssumption
  <1>2. IsFiniteSet(Player) /\ Cardinality(Player) = N
    BY <1>1, FS_Interval DEF Player
  <1>3. ASSUME NEW T \in SUBSET Player
        PROVE  IsFiniteSet(T) /\ Cardinality(T) \in 0 .. N
    <2>1. IsFiniteSet(T) /\ Cardinality(T) <= N
      BY <1>2, FS_Subset
    <2> QED BY <1>1, <2>1, FS_CardinalityType
  <1> QED BY <1>1, <1>2, <1>3

\* Places in columns of m, over the players or over the suits.
LEMMA PlacesFinite ==
    ASSUME NEW I, I = Player \/ I = Card, NEW m \in Nat, NEW T \in SUBSET (I \X (1 .. m))
    PROVE  IsFiniteSet(T) /\ Cardinality(T) \in Nat
  <1>1. IsFiniteSet(I)
    <2>1. Suits - 1 \in Int
      BY Players
    <2>2. IsFiniteSet(Card)
      BY <2>1, FS_Interval DEF Card
    <2> QED BY <2>2, Players
  <1>2. IsFiniteSet(1 .. m)
    BY FS_Interval
  <1>3. IsFiniteSet(I \X (1 .. m))
    BY <1>1, <1>2, FS_Product
  <1> QED BY <1>3, FS_Subset, FS_CardinalityType

\* A column has no more places than there are.
LEMMA Column ==
    ASSUME NEW i, NEW n \in Nat, NEW T, IsFiniteSet(T), \A k \in 1 .. n : <<i, k>> \in T
    PROVE  n <= Cardinality(T)
  <1> DEFINE f == [k \in 1 .. n |-> <<i, k>>]
  <1>1. f \in Injection(1 .. n, T)
    BY DEF Injection, IsInjective
  <1>2. Cardinality(1 .. n) <= Cardinality(T)
    BY <1>1, FS_Injection
  <1>3. Cardinality(1 .. n) = n
    BY FS_Interval
  <1> QED BY <1>2, <1>3

Hand == [Card -> 0 .. M]

LEMMA HandPlaces ==
    ASSUME NEW h
    PROVE  LET T == {x \in Card \X (1 .. M) : x[2] <= h[x[1]]}
           IN  IsFiniteSet(T) /\ Cardinality(T) \in Nat
  BY PlacesFinite, Players

\* A hand has at least as many cards as it has of one suit.
LEMMA SuitFits ==
    ASSUME NEW h \in Hand, NEW s \in Card
    PROVE  HandSize(h) \in Nat /\ h[s] <= HandSize(h)
  <1> DEFINE T == {x \in Card \X (1 .. M) : x[2] <= h[x[1]]}
  <1>1. IsFiniteSet(T) /\ Cardinality(T) \in Nat
    BY HandPlaces
  <1>2. h[s] \in 0 .. M /\ M \in Nat
    BY Players DEF Hand
  <1>3. \A k \in 1 .. h[s] : <<s, k>> \in T
    BY <1>2
  <1> HIDE DEF T
  <1>4. h[s] \in Nat
    BY <1>2
  <1>5. h[s] <= Cardinality(T)
    BY <1>1, <1>3, <1>4, Column
  <1> QED BY <1>1, <1>5 DEF HandSize, T

LEMMA HandGains ==
    ASSUME NEW h \in Hand, NEW s \in Card, h[s] < M
    PROVE  LET g == [h EXCEPT ![s] = @ + 1]
           IN  g \in Hand /\ HandSize(h) \in Nat /\ HandSize(g) = HandSize(h) + 1
  <1> DEFINE g == [h EXCEPT ![s] = @ + 1]
             T == {x \in Card \X (1 .. M) : x[2] <= h[x[1]]}
             U == {x \in Card \X (1 .. M) : x[2] <= g[x[1]]}
  <1>1. h[s] \in 0 .. M /\ M \in Nat
    BY Players DEF Hand
  <1>2. g \in Hand /\ g[s] = h[s] + 1 /\ \A t \in Card \ {s} : g[t] = h[t]
    BY <1>1 DEF Hand
  <1> HIDE DEF g
  <1>3. IsFiniteSet(T) /\ <<s, h[s] + 1>> \notin T
    BY <1>1, HandPlaces
  <1>4. U = T \cup {<<s, h[s] + 1>>}
    <2>1. ASSUME NEW x \in Card \X (1 .. M)
          PROVE  x \in U <=> x \in T \/ x = <<s, h[s] + 1>>
      <3>1. PICK t \in Card, k \in 1 .. M : x = <<t, k>>
        BY <2>1
      <3>2. CASE t = s
        BY <1>1, <1>2, <3>1, <3>2
      <3>3. CASE t # s
        BY <1>2, <3>1, <3>3
      <3> QED BY <3>2, <3>3
    <2>2. <<s, h[s] + 1>> \in Card \X (1 .. M)
      BY <1>1
    <2> QED BY <2>1, <2>2
  <1> HIDE DEF T, U
  <1>5. Cardinality(U) = Cardinality(T) + 1 /\ Cardinality(T) \in Nat
    BY <1>3, <1>4, OneMore
  <1>6. HandSize(h) = Cardinality(T) /\ HandSize(g) = Cardinality(U)
    BY DEF HandSize, T, U
  <1> QED BY <1>2, <1>5, <1>6 DEF g

LEMMA HandLoses ==
    ASSUME NEW h \in Hand, NEW s \in Card, h[s] > 0
    PROVE  LET g == Without(h, s)
           IN  g \in Hand /\ HandSize(h) \in Nat /\ HandSize(g) = HandSize(h) - 1
  <1> DEFINE g == Without(h, s)
  <1>1. h[s] \in 1 .. M /\ M \in Nat
    BY Players DEF Hand
  <1>2. g \in Hand /\ g[s] < M /\ [g EXCEPT ![s] = @ + 1] = h
    <2>1. g \in Hand /\ g[s] = h[s] - 1 /\ \A t \in Card \ {s} : g[t] = h[t]
      BY <1>1 DEF Without, Hand
    <2> HIDE DEF g
    <2>2. [g EXCEPT ![s] = @ + 1] \in Hand
      BY <1>1, <2>1 DEF Hand
    <2>3. \A t \in Card : [g EXCEPT ![s] = @ + 1][t] = h[t]
      BY <1>1, <2>1 DEF Hand
    <2> QED BY <1>1, <2>1, <2>2, <2>3 DEF Hand
  <1> HIDE DEF g
  <1>3. HandSize(g) \in Nat /\ HandSize(h) = HandSize(g) + 1
    BY <1>2, HandGains
  <1> QED BY <1>2, <1>3 DEF g

-----------------------------------------------------------------------------
(* Cards: moving one card.                                                 *)

\* InRing of pipes r.
RingOf(r, s) == {x \in Player \X (1 .. N) : x[2] <= Len(r[x[1]]) /\ r[x[1]][x[2]] = s}

LEMMA Counts ==
    /\ \A h : \A s \in Card :
          IsFiniteSet(InHands(h, s)) /\ Cardinality(InHands(h, s)) \in Nat
    /\ \A r : \A s \in Card :
          IsFiniteSet(RingOf(r, s)) /\ Cardinality(RingOf(r, s)) \in Nat
  BY Players, PlacesFinite DEF InHands, RingOf

\* The hands g hold one card of suit s more than the hands h.
LEMMA HandsGain ==
    ASSUME NEW h \in [Player -> Hand], NEW g \in [Player -> Hand],
           NEW p \in Player, NEW s \in Card, g[p][s] = h[p][s] + 1,
           \A t \in Card \ {s} : g[p][t] = h[p][t],
           \A q \in Player \ {p} : g[q] = h[q],
           NEW t \in Card
    PROVE  Cardinality(InHands(g, t)) = Cardinality(InHands(h, t)) + (IF t = s THEN 1 ELSE 0)
  <1>1. h[p][s] \in 0 .. M /\ g[p][s] \in 0 .. M /\ M \in Nat
    BY Players DEF Hand
  <1>2. CASE t # s
    <2>1. \A q \in Player : g[q][t] = h[q][t]
      BY <1>2
    <2>2. InHands(g, t) = InHands(h, t)
      BY <2>1 DEF InHands
    <2> QED BY <1>2, <2>2, Counts
  <1>3. CASE t = s
    <2> DEFINE y == <<p, g[p][s]>>
    <2>1. y \in Player \X (1 .. M) /\ y \notin InHands(h, t)
      BY <1>1, <1>3 DEF InHands
    <2>2. ASSUME NEW x \in Player \X (1 .. M)
          PROVE  x \in InHands(g, t) <=> x \in InHands(h, t) \/ x = y
      <3>1. PICK q \in Player, k \in 1 .. M : x = <<q, k>>
        OBVIOUS
      <3>2. CASE q = p
        BY <1>1, <1>3, <3>1, <3>2 DEF InHands
      <3>3. CASE q # p
        BY <1>3, <3>1, <3>3 DEF InHands
      <3> QED BY <3>2, <3>3
    <2>3. InHands(g, t) = InHands(h, t) \cup {y}
      BY <2>1, <2>2 DEF InHands
    <2> HIDE DEF y
    <2> QED BY <1>3, <2>1, <2>3, OneMore, Counts
  <1> QED BY <1>2, <1>3

\* A card of suit s is written to the pipe of q.
LEMMA RingGains ==
    ASSUME NEW r \in [Player -> Seq(Card)], NEW q \in Player, NEW s \in Card,
           Len(r[q]) < N, NEW t \in Card
    PROVE  Cardinality(RingOf([r EXCEPT ![q] = Append(@, s)], t))
             = Cardinality(RingOf(r, t)) + (IF t = s THEN 1 ELSE 0)
  <1> DEFINE e == [r EXCEPT ![q] = Append(@, s)]
             n == Len(r[q]) + 1
             y == <<q, n>>
  <1>1. r[q] \in Seq(Card) /\ n \in 1 .. N
    BY Players
  <1>2. /\ Len(e[q]) = n /\ e[q][n] = s /\ \A k \in 1 .. n - 1 : e[q][k] = r[q][k]
        /\ \A p \in Player \ {q} : e[p] = r[p]
    BY <1>1
  <1>3. y \in Player \X (1 .. N) /\ y \notin RingOf(r, t) /\ Len(r[q]) = n - 1
    BY <1>1 DEF RingOf
  <1> HIDE DEF e, n
  <1>4. ASSUME NEW x \in Player \X (1 .. N)
        PROVE  x \in RingOf(e, t) <=> x \in RingOf(r, t) \/ (x = y /\ t = s)
    <2>1. PICK p \in Player, k \in 1 .. N : x = <<p, k>>
      OBVIOUS
    <2>2. CASE p = q
      <3>1. CASE k < n
        BY <1>1, <1>2, <1>3, <2>1, <2>2, <3>1 DEF RingOf
      <3>2. CASE k = n
        BY <1>1, <1>2, <1>3, <2>1, <2>2, <3>2 DEF RingOf
      <3>3. CASE k > n
        BY <1>1, <1>2, <1>3, <2>1, <2>2, <3>3 DEF RingOf
      <3> QED BY <1>1, <3>1, <3>2, <3>3
    <2>3. CASE p # q
      BY <1>2, <2>1, <2>3 DEF RingOf
    <2> QED BY <2>2, <2>3
  <1>5. RingOf(e, t) = IF t = s THEN RingOf(r, t) \cup {y} ELSE RingOf(r, t)
    BY <1>3, <1>4 DEF RingOf
  <1> HIDE DEF y
  <1>6. Cardinality(RingOf(e, t)) = Cardinality(RingOf(r, t)) + (IF t = s THEN 1 ELSE 0)
    <2>1. CASE t = s
      BY <1>3, <1>5, <2>1, OneMore, Counts
    <2>2. CASE t # s
      BY <1>5, <2>2, Counts
    <2> QED BY <2>1, <2>2
  <1> QED BY <1>6 DEF e

\* The first card is read from the pipe of p.
LEMMA RingLoses ==
    ASSUME NEW r \in [Player -> Seq(Card)], NEW p \in Player, r[p] # <<>>,
           Len(r[p]) <= N, NEW t \in Card
    PROVE  Cardinality(RingOf(r, t))
             = Cardinality(RingOf([r EXCEPT ![p] = Tail(@)], t))
               + (IF t = Head(r[p]) THEN 1 ELSE 0)
  <1> DEFINE e == [r EXCEPT ![p] = Tail(@)]
             n == Len(r[p])
             y == <<p, 1>>
             A == RingOf(r, t) \ {y}
             f == [x \in RingOf(e, t) |-> IF x[1] = p THEN <<p, x[2] + 1>> ELSE x]
  <1>1. r[p] \in Seq(Card) /\ n \in 1 .. N /\ Head(r[p]) = r[p][1] /\ N \in Nat
    BY Players
  <1>2. /\ Len(e[p]) = n - 1 /\ \A k \in 1 .. n - 1 : e[p][k] = r[p][k + 1]
        /\ \A q \in Player \ {p} : e[q] = r[q]
    BY <1>1
  <1>3. y \in RingOf(r, t) <=> t = Head(r[p])
    BY <1>1 DEF RingOf
  <1> HIDE DEF e, n
  <1>4. ASSUME NEW q \in Player, NEW k \in 1 .. N
        PROVE  /\ <<q, k>> \in RingOf(r, t) <=> k <= Len(r[q]) /\ r[q][k] = t
               /\ <<q, k>> \in RingOf(e, t) <=> k <= Len(e[q]) /\ e[q][k] = t
    BY DEF RingOf
  <1>5. /\ \A x \in RingOf(r, t) : \E q \in Player, k \in 1 .. N : x = <<q, k>>
        /\ \A x \in RingOf(e, t) : \E q \in Player, k \in 1 .. N : x = <<q, k>>
    BY DEF RingOf
  <1>6. ASSUME NEW x \in RingOf(e, t)
        PROVE  f[x] \in A
    <2>1. PICK q \in Player, k \in 1 .. N : x = <<q, k>>
      BY <1>5
    <2>2. k <= Len(e[q]) /\ e[q][k] = t
      BY <1>4, <2>1
    <2>3. CASE q = p
      <3>1. k \in 1 .. n - 1 /\ k + 1 \in 1 .. N /\ k + 1 <= Len(r[p]) /\ r[p][k + 1] = t
        BY <1>1, <1>2, <2>2, <2>3 DEF n
      <3>2. <<p, k + 1>> \in RingOf(r, t)
        BY <1>4, <3>1
      <3>3. f[x] = <<p, k + 1>> /\ <<p, k + 1>> # y
        BY <2>1, <2>3, <3>1
      <3> QED BY <3>2, <3>3
    <2>4. CASE q # p
      <3>1. x \in RingOf(r, t)
        BY <1>2, <1>4, <2>1, <2>2, <2>4
      <3>2. f[x] = x /\ x # y
        BY <2>1, <2>4
      <3> QED BY <3>1, <3>2
    <2> QED BY <2>3, <2>4
  <1>7. ASSUME NEW x \in RingOf(e, t), NEW z \in RingOf(e, t), f[x] = f[z]
        PROVE  x = z
    <2>1. PICK q \in Player, k \in 1 .. N : x = <<q, k>>
      BY <1>5
    <2>2. PICK u \in Player, m \in 1 .. N : z = <<u, m>>
      BY <1>5
    <2>3. /\ f[x] = IF q = p THEN <<p, k + 1>> ELSE <<q, k>>
          /\ f[z] = IF u = p THEN <<p, m + 1>> ELSE <<u, m>>
      BY <2>1, <2>2
    <2> QED BY <1>7, <2>1, <2>2, <2>3
  <1>8. ASSUME NEW z \in A
        PROVE  \E x \in RingOf(e, t) : f[x] = z
    <2>1. PICK q \in Player, k \in 1 .. N : z = <<q, k>>
      BY <1>5
    <2>2. k <= Len(r[q]) /\ r[q][k] = t
      BY <1>4, <2>1
    <2>3. CASE q = p
      <3>1. k - 1 \in 1 .. n - 1 /\ k - 1 \in 1 .. N
        BY <1>1, <2>1, <2>2, <2>3 DEF n
      <3>2. e[p][k - 1] = t /\ k - 1 <= Len(e[p])
        BY <1>2, <2>2, <2>3, <3>1
      <3>3. <<p, k - 1>> \in RingOf(e, t)
        BY <1>4, <3>1, <3>2
      <3>4. f[<<p, k - 1>>] = z
        BY <2>1, <2>3, <3>3
      <3> QED BY <3>3, <3>4
    <2>4. CASE q # p
      <3>1. z \in RingOf(e, t)
        BY <1>2, <1>4, <2>1, <2>2, <2>4
      <3>2. f[z] = z
        BY <2>1, <2>4, <3>1
      <3> QED BY <3>1, <3>2
    <2> QED BY <2>3, <2>4
  <1>9. Cardinality(A) = Cardinality(RingOf(e, t))
    <2>1. f \in [RingOf(e, t) -> A]
      BY <1>6
    <2> HIDE DEF f, A
    <2> QED BY <1>7, <1>8, <2>1, SameSize, Counts
  <1>10. Cardinality(RingOf(r, t))
           = Cardinality(RingOf(e, t)) + (IF t = Head(r[p]) THEN 1 ELSE 0)
    <2> HIDE DEF y
    <2>1. CASE t = Head(r[p])
      BY <1>3, <1>9, <2>1, OneLess, Counts
    <2>2. CASE t # Head(r[p])
      <3>1. A = RingOf(r, t)
        BY <1>3, <2>2
      <3>2. Cardinality(RingOf(r, t)) \in Nat
        BY Counts
      <3> HIDE DEF A
      <3> QED BY <1>9, <2>2, <3>1, <3>2
    <2> QED BY <2>1, <2>2
  <1> QED BY <1>10 DEF e

\* InPipes of pipes r.
PipesOf(r) == {x \in Player \X (1 .. N + 1) : x[2] <= Len(r[x[1]])}

LEMMA PipesCount ==
    \A r : IsFiniteSet(PipesOf(r)) /\ Cardinality(PipesOf(r)) \in Nat
  <1>1. N + 1 \in Nat
    BY Players
  <1> QED BY <1>1, PlacesFinite DEF PipesOf

LEMMA PipesGain ==
    ASSUME NEW r \in [Player -> Seq(Card)], NEW q \in Player, NEW s \in Card, Len(r[q]) <= N
    PROVE  LET e == [r EXCEPT ![q] = Append(@, s)]
           IN  /\ Cardinality(PipesOf(e)) = Cardinality(PipesOf(r)) + 1
               /\ Len(e[q]) = Len(r[q]) + 1 /\ Len(e[q]) <= Cardinality(PipesOf(e))
  <1> DEFINE e == [r EXCEPT ![q] = Append(@, s)]
             n == Len(r[q]) + 1
             y == <<q, n>>
  <1>1. n \in 1 .. N + 1 /\ Len(r[q]) = n - 1 /\ N \in Nat
    BY Players
  <1>2. Len(e[q]) = n /\ \A p \in Player \ {q} : e[p] = r[p]
    OBVIOUS
  <1> HIDE DEF e, n
  <1>3. y \in Player \X (1 .. N + 1) /\ y \notin PipesOf(r)
    BY <1>1 DEF PipesOf
  <1>4. ASSUME NEW x \in Player \X (1 .. N + 1)
        PROVE  x \in PipesOf(e) <=> x \in PipesOf(r) \/ x = y
    <2>1. PICK p \in Player, k \in 1 .. N + 1 : x = <<p, k>>
      OBVIOUS
    <2>2. CASE p = q
      BY <1>1, <1>2, <2>1, <2>2 DEF PipesOf
    <2>3. CASE p # q
      BY <1>2, <2>1, <2>3 DEF PipesOf
    <2> QED BY <2>2, <2>3
  <1>5. PipesOf(e) = PipesOf(r) \cup {y}
    BY <1>3, <1>4 DEF PipesOf
  <1>6. Cardinality(PipesOf(e)) = Cardinality(PipesOf(r)) + 1
    <2> HIDE DEF y
    <2> QED BY <1>3, <1>5, OneMore, PipesCount
  <1>7. n <= Cardinality(PipesOf(e))
    <2>1. \A k \in 1 .. n : <<q, k>> \in PipesOf(e)
      BY <1>1, <1>2 DEF PipesOf
    <2>2. n \in Nat
      BY <1>1
    <2> QED BY <2>1, <2>2, Column, PipesCount
  <1> QED BY <1>1, <1>2, <1>6, <1>7 DEF e

LEMMA PipesLose ==
    ASSUME NEW r \in [Player -> Seq(Card)], NEW p \in Player, r[p] # <<>>, Len(r[p]) <= N
    PROVE  LET e == [r EXCEPT ![p] = Tail(@)]
           IN  /\ Cardinality(PipesOf(r)) = Cardinality(PipesOf(e)) + 1
               /\ e \in [Player -> Seq(Card)] /\ Len(e[p]) = Len(r[p]) - 1
  <1> DEFINE e == [r EXCEPT ![p] = Tail(@)]
             n == Len(r[p])
             y == <<p, n>>
  <1>1. n \in 1 .. N /\ N \in Nat /\ r[p] \in Seq(Card)
    BY Players
  <1>2. /\ e \in [Player -> Seq(Card)] /\ Len(e[p]) = n - 1
        /\ \A q \in Player \ {p} : e[q] = r[q]
    BY <1>1
  <1> HIDE DEF e
  <1>3. y \in PipesOf(r)
    BY <1>1 DEF PipesOf
  <1>4. ASSUME NEW x \in Player \X (1 .. N + 1)
        PROVE  x \in PipesOf(e) <=> x \in PipesOf(r) /\ x # y
    <2>1. PICK q \in Player, k \in 1 .. N + 1 : x = <<q, k>>
      OBVIOUS
    <2>2. CASE q = p
      BY <1>1, <1>2, <2>1, <2>2 DEF PipesOf
    <2>3. CASE q # p
      BY <1>2, <2>1, <2>3 DEF PipesOf
    <2> QED BY <2>2, <2>3
  <1>5. PipesOf(e) = PipesOf(r) \ {y}
    BY <1>4 DEF PipesOf
  <1>6. Cardinality(PipesOf(r)) = Cardinality(PipesOf(e)) + 1
    <2> HIDE DEF y
    <2>1. IsFiniteSet(PipesOf(r)) /\ Cardinality(PipesOf(r)) \in Nat
      BY PipesCount
    <2>2. Cardinality(PipesOf(e)) = Cardinality(PipesOf(r)) - 1
      BY <1>3, <1>5, <2>1, OneLess
    <2> QED BY <2>1, <2>2
  <1> QED BY <1>2, <1>6 DEF e

-----------------------------------------------------------------------------
(* Cards: the steps.                                                       *)

LEMMA Folded ==
    /\ InPipes = PipesOf(ring) /\ (InPipes)' = PipesOf(ring')
    /\ \A s \in Card : InRing(s) = RingOf(ring, s) /\ (InRing(s))' = RingOf(ring', s)
  BY DEF InPipes, PipesOf, InRing, RingOf

Kept == \A s \in Card : Cardinality(InHands(hand, s)) + Cardinality(RingOf(ring, s))
                          = Cardinality(InHands(dealing, s))

LEMMA ConservedFolded ==
    /\ CardsConserved <=> TypeOK /\ Kept
    /\ CardsConserved' <=> TypeOK' /\ Kept'
  BY Folded DEF CardsConserved, Kept

Pcs == {"unborn", "start", "hand", "send", "check", "toRead", "read", "open", "asleep",
        "tell", "left", "killed", "failed"}
Owing == {"check", "toRead", "read"}

\* A player moves without a card: it keeps owing one, or leaves.
Moves(p) == \/ pc'[p] = pc[p]
            \/ pc[p] \in Owing /\ pc'[p] \in Owing \cup {"left"}
            \/ pc[p] \notin Owing \cup {"left"} /\ pc'[p] \notin Owing

LEMMA PlayersMove ==
    ASSUME CardsInv, UNCHANGED <<hand, ring, dealing>>, TypeOK', ParentInv', FifoInv',
           \A p \in Player : Moves(p)
    PROVE  CardsInv'
  <1>1. Out \subseteq Out' /\ Out \in SUBSET Player /\ Out' \in SUBSET Player
    BY DEF Out, Moves, Owing
  <1>2. Cardinality(Out) <= Cardinality(Out')
    <2>1. IsFiniteSet(Out')
      BY <1>1, Players
    <2> QED BY <1>1, <2>1, FS_Subset
  <1>3. PipeInv'
    <2>1. InPipes' = InPipes
      BY DEF InPipes
    <2>2. Cardinality(InPipes) <= Cardinality(Out)
      BY DEF CardsInv, PipeInv
    <2>3. Cardinality(InPipes) \in Nat /\ Cardinality(Out) \in Nat /\ Cardinality(Out') \in Nat
      BY <1>1, Folded, PipesCount, Players
    <2>4. Cardinality(InPipes) <= Cardinality(Out')
      BY <1>2, <2>2, <2>3
    <2> QED BY <2>1, <2>4 DEF PipeInv
  <1>4. HandInv'
    BY DEF CardsInv, HandInv, Moves, Owing
  <1>5. CardsConserved'
    BY ConservedFolded DEF CardsInv, Kept
  <1> QED BY <1>3, <1>4, <1>5 DEF CardsInv

LEMMA FifoKept ==
    ASSUME CardsInv, UNCHANGED fifo, \A p \in Player : Moves(p)
    PROVE  FifoInv'
  <1> DEFINE L == {p \in Player : pc[p] = "left"}
             K == {p \in Player : pc'[p] = "left"}
  <1>1. L \subseteq K /\ L \in SUBSET Player /\ K \in SUBSET Player
    BY DEF Moves, Owing
  <1>2. Len(fifo) <= Cardinality(L) /\ Len(fifo) \in Nat
    BY DEF CardsInv, FifoInv, CardsConserved, TypeOK
  <1>3. Len(fifo) <= Cardinality(K)
    <2> HIDE DEF L, K
    <2>1. IsFiniteSet(K) /\ Cardinality(K) \in Nat /\ Cardinality(L) \in Nat
      BY <1>1, Players
    <2>2. Cardinality(L) <= Cardinality(K)
      BY <1>1, <2>1, FS_Subset
    <2> QED BY <1>2, <2>1, <2>2
  <1> QED BY <1>3 DEF CardsInv, FifoInv

\* A step of player p that moves no card and writes nothing to the FIFO.
LEMMA PlayerMoves ==
    ASSUME CardsInv, NEW p \in Player, NEW l \in Pcs, pc[p] # "unborn",
           pc' = [pc EXCEPT ![p] = l],
           \/ l = pc[p]
           \/ pc[p] \in Owing /\ l \in Owing \cup {"left"}
           \/ pc[p] \notin Owing \cup {"left"} /\ l \notin Owing,
           UNCHANGED <<parent, cards, fifo, ints, dealing>>,
           signalled' \in [Process -> BOOLEAN], pending' \in [Process -> SUBSET {"INT", "USR1"}]
    PROVE  CardsInv'
  <1>1. TypeOK
    BY DEF CardsInv, CardsConserved
  <1>2. /\ pc \in [Player -> Pcs] /\ pc' \in [Player -> Pcs]
        /\ \A q \in Player : pc'[q] = IF q = p THEN l ELSE pc[q]
    BY <1>1 DEF TypeOK, Pcs, Ended
  <1>3. TypeOK'
    BY <1>1, <1>2 DEF TypeOK, Pcs, Ended, parent, cards
  <1>4. \A q \in Player : Moves(q)
    BY <1>2 DEF Moves
  <1>5. ParentInv'
    BY <1>2 DEF CardsInv, ParentInv, parent
  <1>6. FifoInv'
    BY <1>4, FifoKept
  <1> QED BY <1>3, <1>4, <1>5, <1>6, PlayersMove DEF cards

LEMMA PlayerQuiet ==
    ASSUME CardsInv, NEW p \in Player,
           \/ SetHandler(p) \/ ReadHand(p) \/ Check(p) \/ Sleep(p) \/ OpenForWrite(p)
           \/ Tell(p) /\ ~FifoHasReader
    PROVE  CardsInv'
  <1>1. TypeOK
    BY DEF CardsInv, CardsConserved
  <1>2. signalled \in [Process -> BOOLEAN] /\ pending \in [Process -> SUBSET {"INT", "USR1"}]
    BY <1>1 DEF TypeOK
  <1> SUFFICES ASSUME NEW l \in Pcs, pc' = [pc EXCEPT ![p] = l], pc[p] # "unborn",
                      \/ pc[p] \in Owing /\ l \in Owing \cup {"left"}
                      \/ pc[p] \notin Owing \cup {"left"} /\ l \notin Owing,
                      UNCHANGED <<parent, cards, fifo, signals, dealing>>
               PROVE  CardsInv'
    BY DEF SetHandler, ReadHand, Check, Sleep, OpenForWrite, AfterOpen, Tell, Pcs, Owing
  <1> QED BY <1>2, PlayerMoves DEF signals

LEMMA DeliverPreserves ==
    ASSUME CardsInv, NEW p \in Player, NEW s \in {"INT", "USR1"}, Deliver(p, s)
    PROVE  CardsInv'
  <1>1. TypeOK
    BY DEF CardsInv, CardsConserved
  <1>2. p \in Process
    BY Players DEF Player, Process
  <1>3. /\ signalled' \in [Process -> BOOLEAN]
        /\ pending' \in [Process -> SUBSET {"INT", "USR1"}]
    BY <1>1, <1>2 DEF TypeOK, Deliver
  <1>4. pc[p] \in Pcs
    BY <1>1 DEF TypeOK, Pcs, Ended
  <1>5. CASE AfterSignal(p, s) = pc[p]
    <2>1. UNCHANGED pc
      BY <1>1, <1>5 DEF TypeOK, Deliver
    <2>2. TypeOK'
      BY <1>1, <1>3, <2>1 DEF TypeOK, Deliver, parent, cards
    <2>3. \A q \in Player : Moves(q)
      BY <2>1 DEF Moves
    <2>4. ParentInv'
      BY <2>1 DEF CardsInv, ParentInv, Deliver, parent
    <2> QED BY <2>2, <2>3, <2>4, FifoKept, PlayersMove DEF Deliver, cards
  <1>6. CASE AfterSignal(p, s) # pc[p]
    <2>1. /\ pc[p] # "unborn" /\ AfterSignal(p, s) \in Pcs
          /\ \/ pc[p] \in Owing /\ AfterSignal(p, s) \in Owing \cup {"left"}
             \/ pc[p] \notin Owing \cup {"left"} /\ AfterSignal(p, s) \notin Owing
      BY <1>4, <1>6 DEF AfterSignal, Pcs, Owing
    <2> QED BY <1>3, <2>1, PlayerMoves DEF Deliver
  <1> QED BY <1>5, <1>6

\* The steps of the parent, and Ctrl-C.
LEMMA ParentPreserves ==
    ASSUME CardsInv, \/ Interrupt \/ DeliverParent \/ Fork \/ Deal \/ OpenFifo
                     \/ Kill \/ CloseFifo \/ Wait
    PROVE  CardsInv'
  <1>1. TypeOK /\ ParentInv
    BY DEF CardsInv, CardsConserved
  <1>2. UNCHANGED <<cards, fifo, dealing>>
    BY DEF Interrupt, DeliverParent, Fork, Deal, OpenFifo, Kill, CloseFifo, Wait
  <1>3. Parent \in Process /\ Player \subseteq Process
    BY Players DEF Parent, Player, Process
  <1>4. CASE Interrupt
    <2>1. pending' \in [Process -> SUBSET {"INT", "USR1"}]
      BY <1>1, <1>4 DEF Interrupt, TypeOK
    <2>2. ints' \in 0 .. MaxInts
      BY <1>1, <1>4, CardsAssumption DEF Interrupt, TypeOK
    <2>3. UNCHANGED <<parent, pc, signalled>>
      BY <1>4 DEF Interrupt
    <2>4. TypeOK' /\ ParentInv'
      BY <1>1, <1>2, <2>1, <2>2, <2>3 DEF TypeOK, ParentInv, parent, cards
    <2>5. \A p \in Player : Moves(p)
      BY <2>3 DEF Moves
    <2> QED BY <1>2, <2>4, <2>5, FifoKept, PlayersMove DEF cards
  <1>5. CASE DeliverParent \/ Deal \/ Kill \/ CloseFifo \/ Wait
    <2>1. pending' \in [Process -> SUBSET {"INT", "USR1"}]
      <3>1. pending \in [Process -> SUBSET {"INT", "USR1"}]
        BY <1>1 DEF TypeOK
      <3>2. CASE pending' = [pending EXCEPT ![Parent] = {}]
        BY <1>3, <3>1, <3>2
      <3>3. CASE pending' = [q \in Process |-> IF q # Parent /\ pc[q] \notin Ended
                                               THEN pending[q] \cup {"USR1"} ELSE pending[q]]
        BY <3>1, <3>3
      <3>4. CASE pending' = pending
        BY <3>1, <3>4
      <3> QED BY <1>5, <3>2, <3>3, <3>4 DEF DeliverParent, Deal, Kill, CloseFifo, Wait, signals
    <2>2. signalled' \in [Process -> BOOLEAN]
      <3>1. signalled \in [Process -> BOOLEAN]
        BY <1>1 DEF TypeOK
      <3>2. CASE signalled' = [signalled EXCEPT ![Parent] = TRUE]
        BY <1>3, <3>1, <3>2
      <3>3. CASE signalled' = signalled
        BY <3>1, <3>3
      <3> QED BY <1>5, <3>2, <3>3 DEF DeliverParent, Deal, Kill, CloseFifo, Wait, signals
    <2>3. /\ UNCHANGED <<pc, forked, winner, ints>>
          /\ ppc' \in {"deal", "open", "kill", "close", "wait", "done", ppc}
          /\ ppc' \in {"fork", "deal"} => dealt' < N
          /\ ppc' = "fork" => ppc = "fork"
          /\ dealt' \in 0 .. N
      BY <1>1, <1>5, Players DEF DeliverParent, Deal, LastHand, Kill, CloseFifo, Wait,
                                 signals, TypeOK, ParentInv
    <2>4. TypeOK' /\ ParentInv'
      BY <1>1, <1>2, <2>1, <2>2, <2>3 DEF TypeOK, ParentInv, cards
    <2>5. \A p \in Player : Moves(p)
      BY <2>3 DEF Moves
    <2> QED BY <1>2, <2>4, <2>5, FifoKept, PlayersMove DEF cards
  <1>6. CASE Fork
    <2>1. forked \in Player /\ forked + 1 \in 0 .. N /\ pc[forked] = "unborn" /\ forked < N
      BY <1>1, <1>6, Players DEF Fork, TypeOK, ParentInv, Player
    <2>2. /\ pc' = [pc EXCEPT ![forked] = "start"]
          /\ signalled' = [signalled EXCEPT ![forked] = signalled[Parent]]
          /\ forked' = forked + 1 /\ ppc = "fork"
          /\ ppc' = IF forked' = N THEN "deal" ELSE "fork"
          /\ UNCHANGED <<dealt, winner, pending, ints>>
      BY <1>6 DEF Fork
    <2>3. /\ pc' \in [Player -> Pcs] /\ signalled' \in [Process -> BOOLEAN]
          /\ \A p \in Player : pc'[p] = IF p = forked THEN "start" ELSE pc[p]
      BY <1>1, <1>3, <2>1, <2>2 DEF TypeOK, Pcs, Ended
    <2>4. TypeOK'
      BY <1>1, <1>2, <2>1, <2>2, <2>3 DEF TypeOK, Pcs, Ended, cards
    <2>5. ParentInv'
      BY <1>1, <2>1, <2>2, <2>3, Players DEF ParentInv, Player
    <2>6. \A p \in Player : Moves(p)
      BY <2>1, <2>3 DEF Moves, Owing
    <2> QED BY <1>2, <2>4, <2>5, <2>6, FifoKept, PlayersMove DEF cards
  <1>7. CASE OpenFifo
    <2>1. /\ pc' \in [Player -> Pcs]
          /\ \A p \in Player : pc'[p] = IF pc[p] = "asleep" THEN "tell" ELSE pc[p]
      BY <1>1, <1>7 DEF OpenFifo, TypeOK, Pcs, Ended
    <2>2. TypeOK' /\ ParentInv'
      BY <1>1, <1>2, <1>7, <2>1 DEF OpenFifo, TypeOK, ParentInv, Pcs, Ended, signals, cards
    <2>3. \A p \in Player : Moves(p)
      BY <2>1 DEF Moves, Owing
    <2> QED BY <1>2, <2>2, <2>3, FifoKept, PlayersMove DEF cards
  <1> QED BY <1>4, <1>5, <1>6, <1>7

LEMMA Halve ==
    ASSUME NEW x \in Nat
    PROVE  (x % 256) + 256 * (x \div 256) = x /\ x \div 256 \in Nat /\ x % 256 \in 0 .. 255
  BY SMT

\* The bytes of an int, put together again, are the int.
LEMMA BytesMakeInt ==
    ASSUME NEW x \in Nat, x \div 16777216 < 128
    PROVE  (x % 256) + ((x \div 256) % 256) * 256 + ((x \div 65536) % 256) * 65536
             + ((x \div 16777216) % 256) * 16777216 = x
  <1>1. x \div 65536 = (x \div 256) \div 256
    BY SMT
  <1>2. x \div 16777216 = (x \div 65536) \div 256
    BY SMT
  <1>3. (x \div 16777216) % 256 = x \div 16777216
    BY SMT
  <1> DEFINE y == x \div 256
             z == x \div 65536
             w == x \div 16777216
  <1>4. y \in Nat /\ (x % 256) + 256 * y = x /\ x % 256 \in 0 .. 255
    BY Halve
  <1>5. z \in Nat /\ (y % 256) + 256 * z = y /\ y % 256 \in 0 .. 255
    BY <1>1, <1>4, Halve
  <1>6. w \in Nat /\ (z % 256) + 256 * w = z /\ z % 256 \in 0 .. 255
    BY <1>2, <1>5, Halve
  <1> HIDE DEF y, z, w
  <1> DEFINE a == x % 256
             b == y % 256
             c == z % 256
  <1> HIDE DEF a, b, c
  <1>7. a + b * 256 + c * 65536 + w * 16777216 = x
    BY <1>4, <1>5, <1>6 DEF a, b, c
  <1> QED BY <1>3, <1>7 DEF a, b, c, y, z, w

LEMMA Bytes ==
    ASSUME NEW p \in Player
    PROVE  /\ encode_number(Pid(p)) \in [0 .. 3 -> 0 .. 255]
           /\ decode_number(encode_number(Pid(p))) = Pid(p)
  <1> DEFINE x == Pid(p)
             b == encode_number(x)
  <1>1. x \in Nat /\ x \div 16777216 < 128
    <2>1. FirstPid + N \in Nat /\ x \in Nat /\ x <= FirstPid + N
      BY CardsAssumption DEF Pid, Player
    <2> HIDE DEF x
    <2> DEFINE m == FirstPid + N
    <2>2. m \in Nat /\ x <= m /\ m \div 16777216 < 128
      BY <2>1, CardsAssumption
    <2> HIDE DEF m
    <2> QED BY <2>1, <2>2, SMT
  <1>2. Weight[0] = 1 /\ Weight[1] = 256 /\ Weight[2] = 65536 /\ Weight[3] = 16777216
    BY SMT DEF Weight
  <1> HIDE DEF x
  <1>3. \A k \in 0 .. 3 : b[k] = (x \div Weight[k]) % 256
    BY SMT DEF encode_number
  <1>4. /\ b[0] = x % 256 /\ b[1] = (x \div 256) % 256
        /\ b[2] = (x \div 65536) % 256 /\ b[3] = (x \div 16777216) % 256
    <2>1. x \div 1 = x
      BY <1>1, SMT
    <2> HIDE DEF b
    <2> QED BY <1>2, <1>3, <2>1, SMT
  <1>5. b \in [0 .. 3 -> 0 .. 255]
    <2>1. \A k \in 0 .. 3 : Weight[k] \in Nat \ {0}
      <3>1. \A k \in 0 .. 3 : k = 0 \/ k = 1 \/ k = 2 \/ k = 3
        OBVIOUS
      <3> QED BY <1>2, <3>1, SMT
    <2>2. ASSUME NEW v \in Nat \ {0} PROVE (x \div v) % 256 \in 0 .. 255
      <3>1. x \div v \in Int
        BY <1>1
      <3> QED BY <3>1
    <2>3. \A k \in 0 .. 3 : (x \div Weight[k]) % 256 \in 0 .. 255
      BY <2>1, <2>2
    <2> QED BY <2>3 DEF encode_number
  <1>6. b[0] + b[1] * 256 + b[2] * 65536 + b[3] * 16777216 = x
    <2> HIDE DEF b
    <2> QED BY <1>1, <1>4, BytesMakeInt, SMT
  <1>7. decode_number(b) = x
    <2> HIDE DEF b
    <2> QED BY <1>2, <1>6, SMT DEF decode_number
  <1> QED BY <1>5, <1>7 DEF x

LEMMA PollPreserves == ASSUME CardsInv, Poll PROVE CardsInv'
  <1>1. TypeOK /\ ParentInv /\ FifoInv
    BY DEF CardsInv, CardsConserved
  <1>2. UNCHANGED <<pc, cards, dealing, forked, dealt, signals>> /\ ppc' = "kill"
    BY DEF Poll
  <1>3. \A p \in Player : Moves(p)
    BY <1>2 DEF Moves
  <1>4. ParentInv'
    BY <1>2 DEF ParentInv
  <1>5. CASE fifo = <<>>
    <2>1. UNCHANGED <<fifo, winner>>
      BY <1>5 DEF Poll
    <2>2. TypeOK'
      BY <1>1, <1>2, <2>1 DEF TypeOK, cards, signals
    <2> QED BY <1>2, <1>3, <1>4, <2>1, <2>2, FifoKept, PlayersMove DEF cards
  <1>6. CASE fifo # <<>>
    <2>1. fifo' = Tail(fifo) /\ winner' = decode_number(Head(fifo))
      BY <1>6 DEF Poll
    <2>2. fifo \in Seq([0 .. 3 -> 0 .. 255]) /\ Len(fifo) <= N /\ N \in Nat
      BY <1>1, Players DEF TypeOK
    <2>3. /\ Head(fifo) = fifo[1] /\ Len(fifo) >= 1
          /\ fifo' \in Seq([0 .. 3 -> 0 .. 255]) /\ Len(fifo') = Len(fifo) - 1
          /\ \A k \in 1 .. Len(fifo') : fifo'[k] = fifo[k + 1]
      BY <1>6, <2>1, <2>2
    <2>4. PICK p \in Player : fifo[1] = encode_number(Pid(p))
      BY <1>1, <2>2, <2>3 DEF FifoInv
    <2>5. winner' = Pid(p)
      BY <2>1, <2>3, <2>4, Bytes
    <2>6. TypeOK'
      BY <1>1, <1>2, <2>2, <2>3, <2>5 DEF TypeOK, cards, signals
    <2>7. FifoInv'
      <3> DEFINE L == {q \in Player : pc[q] = "left"}
      <3>1. Cardinality(L) \in Nat
        BY Players
      <3>2. Len(fifo) <= Cardinality(L)
        BY <1>1 DEF FifoInv
      <3>3. L' = L
        BY <1>2
      <3> HIDE DEF L
      <3>4. Len(fifo') <= Cardinality(L')
        BY <2>2, <2>3, <3>1, <3>2, <3>3
      <3>5. ASSUME NEW k \in 1 .. Len(fifo')
            PROVE  \E q \in Player : fifo'[k] = encode_number(Pid(q))
        <4>1. k + 1 \in 1 .. Len(fifo) /\ fifo'[k] = fifo[k + 1]
          BY <2>2, <2>3
        <4> QED BY <1>1, <4>1 DEF FifoInv
      <3> QED BY <3>4, <3>5 DEF FifoInv, L
    <2> QED BY <1>2, <1>3, <1>4, <2>6, <2>7, PlayersMove DEF cards
  <1> QED BY <1>5, <1>6

LEMMA TellPreserves ==
    ASSUME CardsInv, NEW p \in Player, Tell(p), FifoHasReader
    PROVE  CardsInv'
  <1>1. TypeOK /\ ParentInv /\ FifoInv
    BY DEF CardsInv, CardsConserved
  <1>2. /\ pc[p] = "tell" /\ fifo' = Append(fifo, encode_number(Pid(p)))
        /\ pc' = [pc EXCEPT ![p] = "left"]
        /\ UNCHANGED <<parent, cards, signals, dealing>>
    BY DEF Tell
  <1>3. /\ pc' \in [Player -> Pcs]
        /\ \A q \in Player : pc'[q] = IF q = p THEN "left" ELSE pc[q]
    BY <1>1, <1>2 DEF TypeOK, Pcs, Ended
  <1> DEFINE L == {q \in Player : pc[q] = "left"}
             K == {q \in Player : pc'[q] = "left"}
  <1>4. Cardinality(K) = Cardinality(L) + 1 /\ Cardinality(K) <= N
    <2>1. K = L \cup {p} /\ p \notin L
      BY <1>2, <1>3
    <2>2. IsFiniteSet(L) /\ Cardinality(K) \in 0 .. N
      BY Players
    <2> HIDE DEF K, L
    <2> QED BY <2>1, <2>2, OneMore
  <1>5. Cardinality(L) \in Nat /\ N \in Nat
    BY Players
  <1>6. fifo \in Seq([0 .. 3 -> 0 .. 255]) /\ Len(fifo) <= Cardinality(L)
    BY <1>1 DEF TypeOK, FifoInv
  <1>7. /\ fifo' \in Seq([0 .. 3 -> 0 .. 255]) /\ Len(fifo') = Len(fifo) + 1
        /\ \A k \in 1 .. Len(fifo) : fifo'[k] = fifo[k]
        /\ fifo'[Len(fifo) + 1] = encode_number(Pid(p))
    BY <1>2, <1>6, Bytes
  <1>8. Len(fifo') <= Cardinality(K) /\ Len(fifo') <= N
    <2> HIDE DEF K, L
    <2> QED BY <1>4, <1>5, <1>6, <1>7
  <1>9. TypeOK'
    BY <1>1, <1>2, <1>3, <1>7, <1>8 DEF TypeOK, Pcs, Ended, parent, cards, signals
  <1>10. FifoInv'
    <2>1. ASSUME NEW k \in 1 .. Len(fifo')
          PROVE  \E q \in Player : fifo'[k] = encode_number(Pid(q))
      <3>1. CASE k \in 1 .. Len(fifo)
        BY <1>1, <1>7, <3>1 DEF FifoInv
      <3>2. CASE k = Len(fifo) + 1
        BY <1>7, <3>2
      <3> QED BY <1>6, <1>7, <3>1, <3>2
    <2> QED BY <1>8, <2>1 DEF FifoInv
  <1>11. ParentInv'
    BY <1>1, <1>2, <1>3 DEF ParentInv, parent
  <1>12. \A q \in Player : Moves(q)
    BY <1>2, <1>3 DEF Moves, Owing
  <1> QED BY <1>2, <1>9, <1>10, <1>11, <1>12, PlayersMove DEF cards

LEMMA SendPreserves == ASSUME CardsInv, NEW p \in Player, Send(p) PROVE CardsInv'
  <1>1. TypeOK /\ ParentInv /\ FifoInv /\ HandInv /\ PipeInv /\ Kept
    BY ConservedFolded DEF CardsInv
  <1>2. PICK s \in Card : /\ hand[p][s] > 0
                          /\ hand' = [hand EXCEPT ![p] = Without(@, s)]
                          /\ ring' = [ring EXCEPT ![Right(p)] = Append(@, s)]
    BY DEF Send
  <1>3. /\ pc[p] = "send" /\ pc' = [pc EXCEPT ![p] = "check"]
        /\ UNCHANGED <<parent, fifo, signals, dealing>>
    BY DEF Send
  <1>4. /\ pc' \in [Player -> Pcs]
        /\ \A q \in Player : pc'[q] = IF q = p THEN "check" ELSE pc[q]
    BY <1>1, <1>3 DEF TypeOK, Pcs, Ended
  <1> DEFINE r == Right(p)
  <1>5. r \in Player
    BY Players DEF Right, Player
  <1>6. hand \in [Player -> Hand] /\ ring \in [Player -> Seq(Card)] /\ N \in Nat
    BY <1>1, Players DEF TypeOK, Hand
  <1> HIDE DEF r
  <1>7. ring' = [ring EXCEPT ![r] = Append(@, s)]
    BY <1>2 DEF r
  <1>8. Cardinality(Out') = Cardinality(Out) + 1 /\ Cardinality(Out') <= N
    <2>1. Out' = Out \cup {p} /\ p \notin Out
      BY <1>3, <1>4 DEF Out
    <2>2. IsFiniteSet(Out) /\ Cardinality(Out') \in 0 .. N
      BY Players DEF Out
    <2> QED BY <2>1, <2>2, OneMore
  <1>9. Len(ring[r]) <= N
    BY <1>1, <1>5 DEF TypeOK
  <1>10. /\ Cardinality(PipesOf(ring')) = Cardinality(PipesOf(ring)) + 1
         /\ Len(ring'[r]) = Len(ring[r]) + 1 /\ Len(ring'[r]) <= Cardinality(PipesOf(ring'))
    BY <1>5, <1>6, <1>7, <1>9, PipesGain
  <1>11. PipeInv'
    <2>1. Cardinality(PipesOf(ring)) <= Cardinality(Out)
      BY <1>1, Folded DEF PipeInv
    <2>2. Cardinality(PipesOf(ring)) \in Nat /\ Cardinality(Out) \in Nat
      BY PipesCount, Players DEF Out
    <2>3. Cardinality(PipesOf(ring')) <= Cardinality(Out')
      BY <1>8, <1>10, <2>1, <2>2
    <2> QED BY <2>3, Folded DEF PipeInv
  <1>12. Len(ring'[r]) <= N /\ Len(ring[r]) < N
    <2>1. Cardinality(PipesOf(ring')) <= Cardinality(Out')
      BY <1>11, Folded DEF PipeInv
    <2>2. Cardinality(PipesOf(ring')) \in Nat /\ Cardinality(Out') \in Nat /\ Len(ring[r]) \in Nat
      BY <1>5, <1>6, <1>8, PipesCount, Players DEF Out
    <2> QED BY <1>6, <1>8, <1>10, <2>1, <2>2
  <1>13. /\ hand' \in [Player -> Hand] /\ HandSize(hand[p]) \in Nat
         /\ HandSize(hand'[p]) = HandSize(hand[p]) - 1
         /\ hand'[p] = Without(hand[p], s)
         /\ \A q \in Player \ {p} : hand'[q] = hand[q]
    <2>1. hand[p] \in Hand
      BY <1>6
    <2>2. /\ Without(hand[p], s) \in Hand /\ HandSize(hand[p]) \in Nat
          /\ HandSize(Without(hand[p], s)) = HandSize(hand[p]) - 1
      BY <1>2, <2>1, HandLoses
    <2> QED BY <1>2, <1>6, <2>2
  <1>14. HandInv'
    <2>1. ASSUME NEW q \in Player
          PROVE  /\ HandSize(hand'[q]) <= M
                 /\ pc'[q] \in {"check", "toRead", "read"} => HandSize(hand'[q]) < M
      <3>1. CASE q = p
        <4>1. HandSize(hand[p]) <= M /\ M \in Nat
          BY <1>1, Players DEF HandInv
        <4> QED BY <1>13, <3>1, <4>1
      <3>2. CASE q # p
        BY <1>1, <1>4, <1>13, <3>2 DEF HandInv
      <3> QED BY <3>1, <3>2
    <2> QED BY <2>1 DEF HandInv
  <1>15. TypeOK'
    <2>1. ring' \in [Player -> Seq(Card)] /\ \A q \in Player : Len(ring'[q]) <= N
      BY <1>1, <1>5, <1>6, <1>7, <1>12 DEF TypeOK
    <2> QED BY <1>1, <1>3, <1>4, <1>13, <2>1 DEF TypeOK, Pcs, Ended, Hand, parent, signals
  <1>16. ParentInv'
    BY <1>1, <1>3, <1>4 DEF ParentInv, parent
  <1>17. FifoInv'
    <2>1. \A q \in Player : pc'[q] = "left" <=> pc[q] = "left"
      BY <1>3, <1>4
    <2> QED BY <1>1, <1>3, <2>1 DEF FifoInv
  <1>18. Kept'
    <2>1. ASSUME NEW t \in Card
          PROVE  Cardinality(InHands(hand', t)) + Cardinality(RingOf(ring', t))
                   = Cardinality(InHands(dealing, t))
      <3>1. Cardinality(RingOf(ring', t)) = Cardinality(RingOf(ring, t)) + (IF t = s THEN 1 ELSE 0)
        <4>1. ring \in [Player -> Seq(Card)] /\ Len(ring[r]) < N
          BY <1>6, <1>12
        <4>2. Cardinality(RingOf([ring EXCEPT ![r] = Append(@, s)], t))
                = Cardinality(RingOf(ring, t)) + (IF t = s THEN 1 ELSE 0)
          BY <1>5, <4>1, RingGains
        <4> QED BY <1>7, <4>2
      <3>2. hand[p][s] = hand'[p][s] + 1 /\ \A u \in Card \ {s} : hand[p][u] = hand'[p][u]
        BY <1>6, <1>13 DEF Without, Hand
      <3>3. \A q \in Player \ {p} : hand[q] = hand'[q]
        BY <1>13
      <3>4. Cardinality(InHands(hand, t)) = Cardinality(InHands(hand', t)) + (IF t = s THEN 1 ELSE 0)
        <4>1. hand \in [Player -> Hand] /\ hand' \in [Player -> Hand]
          BY <1>6, <1>13
        <4> QED BY <3>2, <3>3, <4>1, HandsGain
      <3>5. /\ Cardinality(InHands(hand, t)) \in Nat /\ Cardinality(InHands(hand', t)) \in Nat
            /\ Cardinality(RingOf(ring, t)) \in Nat
        BY Counts
      <3>6. Cardinality(InHands(hand, t)) + Cardinality(RingOf(ring, t))
              = Cardinality(InHands(dealing, t))
        BY <1>1 DEF Kept
      <3> QED BY <3>1, <3>4, <3>5, <3>6
    <2> QED BY <1>3, <2>1 DEF Kept
  <1> QED BY <1>11, <1>14, <1>15, <1>16, <1>17, <1>18, ConservedFolded DEF CardsInv

LEMMA TakePreserves == ASSUME CardsInv, NEW p \in Player, Take(p) PROVE CardsInv'
  <1>1. TypeOK /\ ParentInv /\ FifoInv /\ HandInv /\ PipeInv /\ Kept
    BY ConservedFolded DEF CardsInv
  <1> DEFINE s == Head(ring[p])
             l == IF check_win(hand'[p]) THEN "open" ELSE "send"
  <1>2. /\ pc[p] \in {"toRead", "read"} /\ ring[p] # <<>>
        /\ hand' = [hand EXCEPT ![p][s] = @ + 1]
        /\ ring' = [ring EXCEPT ![p] = Tail(@)]
        /\ pc' = [pc EXCEPT ![p] = l]
        /\ UNCHANGED <<parent, fifo, signals, dealing>>
    BY DEF Take
  <1>3. l \in {"open", "send"}
    OBVIOUS
  <1>4. hand \in [Player -> Hand] /\ ring \in [Player -> Seq(Card)] /\ N \in Nat
    BY <1>1, Players DEF TypeOK, Hand
  <1>5. s \in Card /\ Len(ring[p]) <= N
    BY <1>1, <1>2, <1>4 DEF TypeOK
  <1> HIDE DEF s, l
  <1>6. /\ pc' \in [Player -> Pcs]
        /\ \A q \in Player : pc'[q] = IF q = p THEN l ELSE pc[q]
    BY <1>1, <1>2, <1>3 DEF TypeOK, Pcs, Ended
  <1>7. /\ Cardinality(PipesOf(ring)) = Cardinality(PipesOf(ring')) + 1
        /\ ring' \in [Player -> Seq(Card)] /\ Len(ring'[p]) = Len(ring[p]) - 1
    BY <1>2, <1>4, <1>5, PipesLose
  <1>8. PipeInv'
    <2>1. Out' = Out \ {p} /\ p \in Out
      BY <1>2, <1>3, <1>6 DEF Out
    <2>2. IsFiniteSet(Out) /\ Cardinality(Out) \in Nat
      BY Players DEF Out
    <2>3. Cardinality(Out') = Cardinality(Out) - 1
      BY <2>1, <2>2, OneLess
    <2>4. Cardinality(PipesOf(ring)) <= Cardinality(Out)
      BY <1>1, Folded DEF PipeInv
    <2>5. Cardinality(PipesOf(ring')) \in Nat
      BY PipesCount
    <2>6. Cardinality(PipesOf(ring')) <= Cardinality(Out')
      BY <1>7, <2>2, <2>3, <2>4, <2>5
    <2> QED BY <2>6, Folded DEF PipeInv
  <1>9. HandSize(hand[p]) < M /\ hand[p] \in Hand /\ M \in Nat
    BY <1>1, <1>2, <1>4, Players DEF HandInv
  <1>10. hand[p][s] < M
    <2>1. HandSize(hand[p]) \in Nat /\ hand[p][s] <= HandSize(hand[p])
      BY <1>5, <1>9, SuitFits
    <2>2. hand[p][s] \in 0 .. M
      BY <1>5, <1>9 DEF Hand
    <2> QED BY <1>9, <2>1, <2>2
  <1>11. /\ hand'[p] \in Hand /\ HandSize(hand[p]) \in Nat
         /\ HandSize(hand'[p]) = HandSize(hand[p]) + 1
         /\ hand'[p] = [hand[p] EXCEPT ![s] = @ + 1]
         /\ \A q \in Player \ {p} : hand'[q] = hand[q]
    <2>1. /\ [hand[p] EXCEPT ![s] = @ + 1] \in Hand /\ HandSize(hand[p]) \in Nat
          /\ HandSize([hand[p] EXCEPT ![s] = @ + 1]) = HandSize(hand[p]) + 1
      BY <1>5, <1>9, <1>10, HandGains
    <2>2. hand'[p] = [hand[p] EXCEPT ![s] = @ + 1] /\ \A q \in Player \ {p} : hand'[q] = hand[q]
      BY <1>2, <1>4
    <2> QED BY <2>1, <2>2
  <1>12. hand' \in [Player -> Hand]
    <2>1. \A q \in Player : hand'[q] \in Hand
      BY <1>4, <1>11
    <2> QED BY <1>2, <1>4, <2>1
  <1>13. HandInv'
    <2>1. ASSUME NEW q \in Player
          PROVE  /\ HandSize(hand'[q]) <= M
                 /\ pc'[q] \in {"check", "toRead", "read"} => HandSize(hand'[q]) < M
      <3>1. CASE q = p
        BY <1>3, <1>6, <1>9, <1>11, <3>1
      <3>2. CASE q # p
        BY <1>1, <1>6, <1>11, <3>2 DEF HandInv
      <3> QED BY <3>1, <3>2
    <2> QED BY <2>1 DEF HandInv
  <1>14. TypeOK'
    <2>1. \A q \in Player : Len(ring'[q]) <= N
      <3>1. \A q \in Player \ {p} : ring'[q] = ring[q]
        BY <1>2, <1>4
      <3>2. Len(ring[p]) \in Nat
        BY <1>4
      <3>3. Len(ring'[p]) <= N
        BY <1>4, <1>5, <1>7, <3>2
      <3> QED BY <1>1, <3>1, <3>3 DEF TypeOK
    <2> QED BY <1>1, <1>2, <1>6, <1>7, <1>12, <2>1 DEF TypeOK, Pcs, Ended, Hand, parent, signals
  <1>15. ParentInv'
    BY <1>1, <1>2, <1>3, <1>6 DEF ParentInv, parent
  <1>16. FifoInv'
    <2>1. \A q \in Player : pc'[q] = "left" <=> pc[q] = "left"
      BY <1>2, <1>3, <1>6
    <2> QED BY <1>1, <1>2, <2>1 DEF FifoInv
  <1>17. Kept'
    <2>1. ASSUME NEW t \in Card
          PROVE  Cardinality(InHands(hand', t)) + Cardinality(RingOf(ring', t))
                   = Cardinality(InHands(dealing, t))
      <3>1. Cardinality(RingOf(ring, t)) = Cardinality(RingOf(ring', t)) + (IF t = s THEN 1 ELSE 0)
        BY <1>2, <1>4, <1>5, RingLoses DEF s
      <3>2. hand'[p][s] = hand[p][s] + 1 /\ \A u \in Card \ {s} : hand'[p][u] = hand[p][u]
        BY <1>5, <1>9, <1>11 DEF Hand
      <3>3. Cardinality(InHands(hand', t)) = Cardinality(InHands(hand, t)) + (IF t = s THEN 1 ELSE 0)
        <4>1. /\ hand \in [Player -> Hand] /\ hand' \in [Player -> Hand]
              /\ \A q \in Player \ {p} : hand'[q] = hand[q]
          BY <1>4, <1>11, <1>12
        <4> QED BY <1>5, <3>2, <4>1, HandsGain
      <3>4. /\ Cardinality(InHands(hand, t)) \in Nat /\ Cardinality(InHands(hand', t)) \in Nat
            /\ Cardinality(RingOf(ring', t)) \in Nat
        BY Counts
      <3>5. Cardinality(InHands(hand, t)) + Cardinality(RingOf(ring, t))
              = Cardinality(InHands(dealing, t))
        BY <1>1 DEF Kept
      <3> QED BY <3>1, <3>3, <3>4, <3>5
    <2> QED BY <1>2, <2>1 DEF Kept
  <1> QED BY <1>8, <1>13, <1>14, <1>15, <1>16, <1>17, ConservedFolded DEF CardsInv

-----------------------------------------------------------------------------
(* Cards: the whole game.                                                  *)

LEMMA CardsInit == Init => CardsInv
  <1> SUFFICES ASSUME Init PROVE CardsInv
    OBVIOUS
  <1>1. /\ hand \in Deals /\ hand \in [Player -> Hand] /\ dealing = hand
        /\ \A p \in Player : HandSize(hand[p]) = M
    BY CardsAssumption DEF Init, Hand
  <1>2. ring = [p \in Player |-> <<>>] /\ fifo = <<>> /\ pc = [p \in Player |-> "unborn"]
    BY DEF Init
  <1>3. ring \in [Player -> Seq(Card)] /\ \A p \in Player : Len(ring[p]) = 0
    BY <1>2
  <1>4. TypeOK
    <2>1. pending \in [Process -> SUBSET {"INT", "USR1"}] /\ signalled \in [Process -> BOOLEAN]
      BY DEF Init
    <2>2. ints \in 0 .. MaxInts /\ forked \in 0 .. N /\ dealt \in 0 .. N
      BY CardsAssumption DEF Init
    <2>3. fifo \in Seq([0 .. 3 -> 0 .. 255]) /\ Len(fifo) <= N
      BY <1>2, Players
    <2>4. \A p \in Player : Len(ring[p]) <= N
      BY <1>3, Players
    <2>5. pc \in [Player -> Pcs]
      BY <1>2 DEF Pcs
    <2> QED BY <1>1, <1>3, <2>1, <2>2, <2>3, <2>4, <2>5 DEF Init, TypeOK, Hand, Pcs, Ended
  <1>5. Kept
    <2>1. ASSUME NEW s \in Card
          PROVE  Cardinality(InHands(hand, s)) + Cardinality(RingOf(ring, s))
                   = Cardinality(InHands(dealing, s))
      <3>1. RingOf(ring, s) = {}
        BY <1>3 DEF RingOf
      <3>2. Cardinality(RingOf(ring, s)) = 0
        BY <3>1, FS_EmptySet
      <3>3. Cardinality(InHands(hand, s)) \in Nat
        BY Counts
      <3> QED BY <1>1, <3>2, <3>3
    <2> QED BY <2>1 DEF Kept
  <1>6. PipeInv
    <2>1. PipesOf(ring) = {}
      BY <1>3 DEF PipesOf
    <2>2. Cardinality(PipesOf(ring)) = 0
      BY <2>1, FS_EmptySet
    <2>3. Cardinality(Out) \in Nat
      BY Players DEF Out
    <2> QED BY <2>2, <2>3, Folded DEF PipeInv
  <1>7. HandInv
    BY <1>1, <1>2, Players DEF HandInv
  <1>8. FifoInv
    <2>1. Cardinality({p \in Player : pc[p] = "left"}) \in Nat
      BY Players
    <2> QED BY <1>2, <2>1 DEF FifoInv
  <1>9. ParentInv
    BY <1>2, Players DEF Init, ParentInv
  <1> QED BY <1>4, <1>5, <1>6, <1>7, <1>8, <1>9, ConservedFolded DEF CardsInv

LEMMA CardsNext == CardsInv /\ [Next]_vars => CardsInv'
  <1> SUFFICES ASSUME CardsInv, [Next]_vars PROVE CardsInv'
    OBVIOUS
  <1>1. CASE ParentStep \/ Interrupt \/ DeliverParent
    BY <1>1, ParentPreserves, PollPreserves DEF ParentStep
  <1>2. ASSUME NEW p \in Player, PlayerStep(p) PROVE CardsInv'
    BY <1>2, PlayerQuiet, SendPreserves, TakePreserves, TellPreserves DEF PlayerStep
  <1>3. ASSUME NEW p \in Player, Delivery(p) PROVE CardsInv'
    BY <1>3, DeliverPreserves DEF Delivery
  <1>4. CASE UNCHANGED vars
    <2>1. UNCHANGED <<ppc, forked, dealt, winner, pc, hand, ring, fifo, signalled, pending,
                      ints, dealing>>
      BY <1>4 DEF vars, parent, cards, signals
    <2>2. \A p \in Player : Moves(p)
      BY <2>1 DEF Moves
    <2>3. TypeOK'
      BY <2>1 DEF CardsInv, CardsConserved, TypeOK
    <2>4. ParentInv' /\ FifoInv'
      BY <2>1 DEF CardsInv, ParentInv, FifoInv
    <2> QED BY <2>1, <2>2, <2>3, <2>4, PlayersMove
  <1> QED BY <1>1, <1>2, <1>3, <1>4 DEF Next

(* In every order of the players, the parent and the signals: no card of   *)
(* the deal is lost or doubled by the exchange of lines 78-110 of zad05.c, *)
(* no pipe of the ring holds more than N cards (so no write of line 80     *)
(* sleeps), and the pid the parent announces is one of a player.           *)
THEOREM DeckKept == LabSpec => []CardsConserved
  <1>1. LabInit => CardsInv
    BY CardsInit DEF LabInit
  <1>2. CardsInv /\ [LabNext]_labVars => CardsInv'
    <2>1. [LabNext]_labVars => [Next]_vars
      BY DEF LabNext, Game, ThreadGame, labVars
    <2> QED BY <2>1, CardsNext
  <1>3. CardsInv => CardsConserved
    BY DEF CardsInv
  <1> QED BY <1>1, <1>2, <1>3, PTL DEF LabSpec
=============================================================================
