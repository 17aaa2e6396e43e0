------------------------ MODULE AuctionEngine_proofs ------------------------
(***************************************************************************)
(* Theorems about AuctionEngine, for every set of users, every rule set    *)
(* that passes Rules.Validate and every bound on time, money and log: the  *)
(* log and the outcome, the secrecy of the sealed modes, then what the     *)
(* scripts make of the bids, and that they implement AuctionOutcome.       *)
(***************************************************************************)
EXTENDS AuctionEngine, FiniteSetTheorems, WellFoundedInduction, TLAPS

-----------------------------------------------------------------------------
(***************************************************************************)
(* The ZSET order: a nonempty set of bids has a first member of ZREVRANGE. *)
(***************************************************************************)

\* A nonempty set of naturals has a least element.
LEMMA LeastNatural ==
  ASSUME NEW N \in SUBSET Nat, N # {}
  PROVE  \E n \in N : \A m \in N : n <= m
<1>1. PICK n \in N : \A m \in N : ~(<<m, n>> \in OpToRel(<, Nat))
  BY NatLessThanWellFounded, WFMin
<1>2. ASSUME NEW m \in N PROVE n <= m
  <2>1. m \in Nat /\ n \in Nat
    OBVIOUS
  <2>2. <<m, n>> \in Nat \X Nat
    BY <2>1
  <2>3. ~(m < n)
    BY <1>1, <2>2 DEF OpToRel
  <2> QED
    BY <2>1, <2>3
<1> QED
  BY <1>2

\* u is ranked at or before v: a higher score, or the same and a greater id.
Ahead(scores, u, v) ==
  scores[v] < scores[u] \/ (scores[v] = scores[u] /\ v <= u)

\* Every nonempty set of users has a member ranked ahead of all of them; the
\* induction on its size is a descent to the smallest set without one.
LEMMA FirstRanked ==
  ASSUME NEW scores \in [Users -> Nat], NEW S \in SUBSET Users, S # {}
  PROVE  \E u \in S : \A v \in S : Ahead(scores, u, v)
<1> DEFINE Ranked(T) == \E u \in T : \A v \in T : Ahead(scores, u, v)
           Bad == {T \in SUBSET Users : T # {} /\ ~Ranked(T)}
           Sizes == {Cardinality(T) : T \in Bad}
<1>1. \A T \in SUBSET Users : IsFiniteSet(T) /\ Cardinality(T) \in Nat
  BY UsersAssumption, FS_Subset, FS_CardinalityType
<1>2. SUFFICES ASSUME Bad # {} PROVE FALSE
  OBVIOUS
<1>3. Sizes \in SUBSET Nat /\ Sizes # {}
  BY <1>1, <1>2
<1>4. PICK n \in Sizes : \A m \in Sizes : n <= m
  BY <1>3, LeastNatural
<1>5. PICK T \in Bad : Cardinality(T) = n
  BY <1>4
<1>6. PICK x \in T : TRUE
  OBVIOUS
<1>7. /\ T \ {x} \in SUBSET Users
      /\ Cardinality(T \ {x}) = n - 1
  BY <1>1, <1>5, <1>6, FS_RemoveElement
<1>8. T \ {x} \notin Bad
  <2>1. n - 1 \in Sizes => n <= n - 1
    BY <1>4
  <2>2. n \in Nat
    BY <1>3
  <2>3. T \ {x} \in Bad => Cardinality(T \ {x}) \in Sizes
    <3> HIDE DEF Bad
    <3> QED
      OBVIOUS
  <2> HIDE DEF Bad, Sizes
  <2> QED
    BY <1>7, <2>1, <2>2, <2>3
<1>9. x \in Users /\ x \in Nat /\ scores[x] \in Nat
  BY <1>5, <1>6, UsersAssumption
<1>10. CASE T \ {x} = {}
  <2>1. \A v \in T : v = x
    BY <1>10
  <2>2. Ahead(scores, x, x)
    BY <1>9 DEF Ahead
  <2> QED
    BY <2>1, <2>2, <1>6
<1>11. CASE T \ {x} # {}
  <2>1. PICK u \in T \ {x} : \A v \in T \ {x} : Ahead(scores, u, v)
    BY <1>7, <1>8, <1>11
  <2>2. u \in Users /\ u \in Nat /\ scores[u] \in Nat
    BY <1>7, <2>1, UsersAssumption
  <2>3. CASE Ahead(scores, u, x)
    BY <2>1, <2>3
  <2>4. CASE ~Ahead(scores, u, x)
    <3>1. Ahead(scores, x, u) /\ Ahead(scores, x, x)
      BY <2>4, <2>2, <1>9 DEF Ahead
    <3>2. ASSUME NEW v \in T \ {x} PROVE Ahead(scores, x, v)
      <4>1. v \in Nat /\ scores[v] \in Nat
        BY <1>7, <3>2, UsersAssumption
      <4> QED
        BY <3>1, <2>1, <2>2, <1>9, <4>1 DEF Ahead
    <3> QED
      BY <3>1, <3>2, <1>6
  <2> QED
    BY <2>3, <2>4
<1> QED
  BY <1>10, <1>11

\* Top is what its comment says: a bidder nobody outbids.
LEMMA TopIsBest ==
  ASSUME NEW scores \in [Users -> Nat], HasBid(scores)
  PROVE  /\ Top(scores) \in Users
         /\ scores[Top(scores)] > 0
         /\ \A v \in Users : scores[v] <= scores[Top(scores)]
<1>1. PICK u \in Users : \A v \in Users : Ahead(scores, u, v)
  BY FirstRanked, UsersAssumption
<1>2. PICK b \in Users : scores[b] > 0
  BY DEF HasBid
<1>3. scores[u] > 0
  BY <1>1, <1>2 DEF Ahead
<1>4. \E w \in Users :
        /\ scores[w] > 0
        /\ \A v \in Users : scores[v] < scores[w] \/ (scores[v] = scores[w] /\ v <= w)
  BY <1>1, <1>3 DEF Ahead
<1>5. /\ Top(scores) \in Users
      /\ scores[Top(scores)] > 0
      /\ \A v \in Users : \/ scores[v] < scores[Top(scores)]
                          \/ scores[v] = scores[Top(scores)] /\ v <= Top(scores)
  BY <1>4 DEF Top
<1> QED
  BY <1>5

-----------------------------------------------------------------------------
(***************************************************************************)
(* Type correctness.                                                       *)
(***************************************************************************)

\* An entry the scripts build from typed fields is an event.
LEMMA EntryIsEvent ==
  ASSUME TypeOK, NEW type \in EventTypes, NEW k \in Nat,
         NEW u \in Users \cup {NoUser}, NEW a \in Nat, NEW end \in Nat,
         NEW n \in Nat, NEW bids \in [Users -> Nat]
  PROVE  Entry(type, k, u, a, end, n, bids) \in Event
  BY DEF TypeOK, Entry, Event

\* XADDs of events keep the Stream a sequence of events and seq a natural.
LEMMA EmitType ==
  ASSUME TypeOK, NEW e \in Event, NEW f \in Event, NEW g \in Event,
         Emit(e) \/ Emit2(e, f) \/ Emit3(e, f, g)
  PROVE  stream' \in Seq(Event) /\ seq' \in Nat
<1>1. stream \in Seq(Event) /\ seq \in Nat
  BY DEF TypeOK
<1>2. CASE Emit(e)
  BY <1>1, <1>2 DEF Emit
<1>3. CASE Emit2(e, f)
  BY <1>1, <1>3 DEF Emit2
<1>4. CASE Emit3(e, f, g)
  BY <1>1, <1>4 DEF Emit3
<1> QED
  BY <1>2, <1>3, <1>4

\* The writes every accepting branch shares keep their types.
LEMMA AcceptBidType ==
  ASSUME TypeOK, NEW u \in Users, NEW r \in Reqs, NEW a \in Nat, NEW end \in Nat,
         NEW st \in {"LIVE", "SOLD"}, AcceptBid(u, r, a, end, st)
  PROVE  /\ price' \in Nat /\ winner' \in Users \cup {NoUser} /\ bidCount' \in Nat
         /\ leaderboard' \in [Users -> Nat] /\ rules' \in RuleRecord
         /\ sealed' \in [Users -> Nat] /\ now' \in Nat
         /\ dedupe' \in [Users -> [Reqs -> Ack]] /\ dedupeUntil' \in [Users -> Nat]
<1>1. /\ price' \in Nat /\ winner' \in Users \cup {NoUser} /\ bidCount' \in Nat
      /\ leaderboard' \in [Users -> Nat] /\ rules' \in RuleRecord
      /\ sealed' \in [Users -> Nat] /\ now' \in Nat
  BY DEF TypeOK, AcceptBid, Raise
<1> DEFINE ack == [seq |-> seq + 1, user |-> u, amount |-> a,
                   endAt |-> end, status |-> st, at |-> now]
<1>2. ack \in Ack
  BY DEF TypeOK, Ack
<1>3. Remember(u, r, ack)
  BY DEF AcceptBid
<1>4. dedupe' \in [Users -> [Reqs -> Ack]] /\ dedupeUntil' \in [Users -> Nat]
  <2> HIDE DEF ack
  <2>1. NoAck \in Ack
    BY DEF NoAck, Ack
  <2>2. [q \in Reqs |-> IF q = r THEN ack ELSE Cached(u, q)] \in [Reqs -> Ack]
    BY <1>2, <2>1 DEF TypeOK, Cached
  <2>3. now + DedupeTTL \in Nat
    BY BoundsAssumption DEF TypeOK
  <2> QED
    BY <1>3, <2>2, <2>3 DEF TypeOK, Remember
<1> QED
  BY <1>1, <1>4

\* The initial Hash, ZSETs, Stream and dedupe Hashes have their types.
LEMMA InitType == Init => TypeOK
<1> SUFFICES ASSUME Init PROVE TypeOK
  OBVIOUS
<1>1. rules \in RuleRecord
  BY DEF Init, NoRules, RuleRecord, Modes, Ascending
<1>2. NoAck \in Ack
  BY DEF NoAck, Ack
<1>3. dedupe \in [Users -> [Reqs -> Ack]]
  BY <1>2 DEF Init
<1>4. stream \in Seq(Event)
  BY DEF Init
<1> QED
  BY <1>1, <1>3, <1>4 DEF Init, TypeOK, Statuses, NoScores

\* BID_ACCEPTED entries are events.
LEMMA BidEventIsEvent ==
  ASSUME TypeOK, NEW su \in Users \cup {NoUser}, NEW sa \in Nat, NEW end \in Nat
  PROVE  BidEvent(su, sa, end) \in Event
<1>1. seq + 1 \in Nat /\ bidCount + 1 \in Nat
  BY DEF TypeOK
<1>2. NoScores \in [Users -> Nat] /\ "BID_ACCEPTED" \in EventTypes
  BY DEF NoScores, EventTypes, BidTypes
<1> QED
  BY <1>1, <1>2, EntryIsEvent DEF BidEvent

\* Every ascending bid, whatever identity and amount the room is shown.
LEMMA AscendingType ==
  ASSUME TypeOK, NEW u \in Users, NEW r \in Reqs, NEW a \in Nat,
         NEW su \in Users \cup {NoUser}, NEW sa \in Nat,
         \/ BidAccepted(u, r, a, su, sa)
         \/ BidExtended(u, r, a, su, sa)
         \/ BidSold(u, r, a)
  PROVE  TypeOK'
<1>0. NoScores \in [Users -> Nat] /\ seq + 2 \in Nat /\ endAt \in Nat
  BY DEF NoScores, TypeOK
<1>1. CASE BidAccepted(u, r, a, su, sa)
  <2>0. BidEvent(su, sa, endAt) \in Event
    BY <1>0, BidEventIsEvent
  <2>1. stream' \in Seq(Event) /\ seq' \in Nat
    BY <1>1, <2>0 DEF TypeOK, BidAccepted, Emit
  <2> QED
    BY <1>1, <2>1, AcceptBidType DEF TypeOK, BidAccepted
<1>2. CASE BidExtended(u, r, a, su, sa)
  <2> DEFINE end == endAt + rules.extendSec
  <2>0. rules.extendSec \in Nat /\ endAt \in Nat /\ extendCount \in Nat /\ seq \in Nat
    BY DEF TypeOK, RuleRecord
  <2>1. end \in Nat /\ extendCount + 1 \in Nat /\ seq + 2 \in Nat
    BY <2>0
  <2>2. AcceptBid(u, r, a, end, "LIVE")
    BY <1>2 DEF BidExtended
  <2>3. BidEvent(su, sa, end) \in Event
    BY <2>1, BidEventIsEvent
  <2>4. Entry("AUCTION_EXTENDED", seq + 2, NoUser, 0, end, extendCount + 1, NoScores) \in Event
    BY <2>1, <1>0, EntryIsEvent DEF EventTypes
  <2>5. stream' \in Seq(Event) /\ seq' \in Nat
    BY <1>2, <2>3, <2>4 DEF TypeOK, BidExtended, Emit2
  <2> QED
    BY <1>2, <2>1, <2>2, <2>5, AcceptBidType DEF TypeOK, BidExtended
<1>3. CASE BidSold(u, r, a)
  <2>1. AcceptBid(u, r, a, endAt, "SOLD")
    BY <1>3 DEF BidSold
  <2>2. BidEvent(u, a, endAt) \in Event
    BY <1>0, BidEventIsEvent
  <2>3. Entry("AUCTION_SOLD", seq + 2, u, a, 0, 0, NoScores) \in Event
    BY <1>0, EntryIsEvent DEF EventTypes, TerminalTypes
  <2>4. stream' \in Seq(Event) /\ seq' \in Nat
    BY <1>3, <2>2, <2>3 DEF TypeOK, BidSold, Emit2
  <2>5. status' \in Statuses
    BY <1>3 DEF BidSold, Statuses, Terminal
  <2> QED
    BY <1>3, <2>1, <2>4, <2>5, AcceptBidType DEF TypeOK, BidSold
<1> QED
  BY <1>1, <1>2, <1>3

\* A sealed bid keeps every type; its receipt count is a cardinality.
LEMMA SealedType ==
  ASSUME TypeOK, NEW u \in Users, NEW r \in Reqs, NEW a \in Nat,
         PlaceBidSealed(u, r, a)
  PROVE  TypeOK'
<1> DEFINE ack == [seq |-> seq + 1, user |-> u, amount |-> a,
                   endAt |-> endAt, status |-> "LIVE", at |-> now]
<1>1. ack \in Ack /\ NoAck \in Ack
  BY DEF TypeOK, Ack, NoAck
<1>2. Remember(u, r, ack)
  BY DEF PlaceBidSealed
<1>3. dedupe' \in [Users -> [Reqs -> Ack]] /\ dedupeUntil' \in [Users -> Nat]
  <2> HIDE DEF ack
  <2>1. [q \in Reqs |-> IF q = r THEN ack ELSE Cached(u, q)] \in [Reqs -> Ack]
    BY <1>1 DEF TypeOK, Cached
  <2>2. now + DedupeTTL \in Nat
    BY BoundsAssumption DEF TypeOK
  <2> QED
    BY <1>2, <2>1, <2>2 DEF TypeOK, Remember
<1>4. SealedCount(u) \in Nat
  BY UsersAssumption, FS_Subset, FS_CardinalityType DEF SealedCount
<1>5. seq + 1 \in Nat /\ NoScores \in [Users -> Nat] /\ "SEALED_BID_RECEIVED" \in EventTypes
  BY DEF TypeOK, NoScores, EventTypes, BidTypes
<1>6. Entry("SEALED_BID_RECEIVED", seq + 1, u, 0, 0, SealedCount(u), NoScores) \in Event
  BY <1>4, <1>5, EntryIsEvent
<1>7. stream' \in Seq(Event) /\ seq' \in Nat
  BY <1>6 DEF TypeOK, PlaceBidSealed, Emit
<1>8. sealed' \in [Users -> Nat]
  BY DEF TypeOK, PlaceBidSealed, Raise
<1> QED
  BY <1>3, <1>7, <1>8 DEF TypeOK, PlaceBidSealed

\* The NO_BID close, shared by the three close scripts.
LEMMA CloseNoBidType == TypeOK /\ CloseNoBid => TypeOK'
<1> SUFFICES ASSUME TypeOK, CloseNoBid PROVE TypeOK'
  OBVIOUS
<1>1. seq + 1 \in Nat /\ NoScores \in [Users -> Nat] /\ "AUCTION_NO_BID" \in EventTypes
  BY DEF TypeOK, NoScores, EventTypes, TerminalTypes
<1>2. Entry("AUCTION_NO_BID", seq + 1, NoUser, 0, 0, 0, NoScores) \in Event
  BY <1>1, EntryIsEvent
<1>3. stream' \in Seq(Event) /\ seq' \in Nat /\ status' \in Statuses
  BY <1>2 DEF TypeOK, CloseNoBid, Emit, Statuses, Terminal
<1> QED
  BY <1>3 DEF TypeOK, CloseNoBid, ackVars

\* The public close.
LEMMA CloseAuctionType == TypeOK /\ CloseAuction => TypeOK'
<1> SUFFICES ASSUME TypeOK, CloseAuction PROVE TypeOK'
  OBVIOUS
<1>1. CASE CloseNoBid
  BY <1>1, CloseNoBidType
<1>2. CASE ~CloseNoBid
  <2>1. seq + 1 \in Nat /\ NoScores \in [Users -> Nat] /\ "AUCTION_SOLD" \in EventTypes
    BY DEF TypeOK, NoScores, EventTypes, TerminalTypes
  <2>2. winner \in Users \cup {NoUser} /\ price \in Nat
    BY DEF TypeOK
  <2>3. Entry("AUCTION_SOLD", seq + 1, winner, price, 0, 0, NoScores) \in Event
    BY <2>1, <2>2, EntryIsEvent
  <2>4. stream' \in Seq(Event) /\ seq' \in Nat /\ status' \in Statuses
    BY <1>2, <2>3, EmitType DEF CloseAuction, Statuses, Terminal
  <2> QED
    BY <1>2, <2>4 DEF TypeOK, CloseAuction, ackVars
<1> QED
  BY <1>1, <1>2

\* The reveal writes a winner who has bid and a price of the right type.
LEMMA RevealType ==
  ASSUME TypeOK, HasBid(sealed), NEW p \in Nat, RevealAndSell(p),
         stream' \in Seq(Event), seq' \in Nat
  PROVE  TypeOK'
<1>1. Top(sealed) \in Users
  BY TopIsBest DEF TypeOK
<1>2. Reveal(sealed) \in [Users -> Nat] /\ NoScores \in [Users -> Nat]
  BY DEF TypeOK, Reveal, NoScores
<1>3. status' \in Statuses
  BY DEF RevealAndSell, Statuses, Terminal
<1> QED
  BY <1>1, <1>2, <1>3 DEF TypeOK, RevealAndSell, ackVars

\* The entries of a sealed reveal are events.
LEMMA RevealEntries ==
  ASSUME TypeOK, HasBid(sealed), NEW p \in Nat
  PROVE  /\ RevealedEvent(p) \in Event
         /\ \A k \in Nat : Entry("AUCTION_SOLD", k, Top(sealed), p, 0, 0, NoScores) \in Event
         /\ \A k \in Nat, u \in Users :
              Entry("ALL_PAY_FORFEIT", k, u, sealed[u], 0, 0, NoScores) \in Event
<1>1. /\ Top(sealed) \in Users /\ seq + 1 \in Nat /\ NoScores \in [Users -> Nat]
      /\ sealed \in [Users -> Nat]
  BY TopIsBest DEF TypeOK, NoScores
<1>2. {"AUCTION_REVEALED", "AUCTION_SOLD", "ALL_PAY_FORFEIT"} \subseteq EventTypes
  BY DEF EventTypes, TerminalTypes
<1>3. RevealedEvent(p) \in Event
  BY <1>1, <1>2, EntryIsEvent DEF RevealedEvent
<1>4. ASSUME NEW k \in Nat
      PROVE  Entry("AUCTION_SOLD", k, Top(sealed), p, 0, 0, NoScores) \in Event
  BY <1>1, <1>2, EntryIsEvent
<1>5. ASSUME NEW k \in Nat, NEW u \in Users
      PROVE  Entry("ALL_PAY_FORFEIT", k, u, sealed[u], 0, 0, NoScores) \in Event
  <2>1. sealed[u] \in Nat
    BY <1>1
  <2> QED
    BY <1>1, <1>2, <2>1, EntryIsEvent
<1> QED
  BY <1>3, <1>4, <1>5

\* The scores without the top member are scores, and a score is a natural.
LEMMA OthersType ==
  ASSUME NEW scores \in [Users -> Nat]
  PROVE  /\ Others(scores) \in [Users -> Nat]
         /\ HasBid(scores) => scores[Top(scores)] \in Nat
<1>1. Others(scores) \in [Users -> Nat]
  BY DEF Others
<1> QED
  BY <1>1, TopIsBest

\* The Vickrey price is a natural.
LEMMA SecondPriceType == TypeOK => SecondPrice(sealed) \in Nat
<1> SUFFICES ASSUME TypeOK PROVE SecondPrice(sealed) \in Nat
  OBVIOUS
<1>1. Others(sealed) \in [Users -> Nat]
  BY OthersType DEF TypeOK
<1>2. HasBid(Others(sealed)) => Others(sealed)[Top(Others(sealed))] \in Nat
  BY <1>1, OthersType
<1>3. rules.startPrice \in Nat
  BY DEF TypeOK, RuleRecord
<1> QED
  BY <1>2, <1>3 DEF SecondPrice

\* First- and second-price sealed closes.
LEMMA CloseSealedType == TypeOK /\ CloseAuctionSealed => TypeOK'
<1> SUFFICES ASSUME TypeOK, CloseAuctionSealed PROVE TypeOK'
  OBVIOUS
<1> DEFINE p == IF rules.mode = "VICKREY" THEN SecondPrice(sealed) ELSE sealed[Top(sealed)]
           sold == Entry("AUCTION_SOLD", seq + 2, Top(sealed), p, 0, 0, NoScores)
<1>1. CASE CloseNoBid
  BY <1>1, CloseNoBidType
<1>2. CASE ~CloseNoBid
  <2>1. HasBid(sealed) /\ RevealAndSell(p) /\ Emit2(RevealedEvent(p), sold)
    BY <1>2 DEF CloseAuctionSealed
  <2>2. sealed \in [Users -> Nat] /\ seq + 2 \in Nat
    BY DEF TypeOK
  <2>3. p \in Nat
    BY <2>1, <2>2, OthersType, SecondPriceType
  <2> HIDE DEF p
  <2>4. RevealedEvent(p) \in Event /\ sold \in Event
    BY <2>1, <2>2, <2>3, RevealEntries
  <2> HIDE DEF sold
  <2>5. stream' \in Seq(Event) /\ seq' \in Nat
    BY <2>1, <2>4 DEF TypeOK, Emit2
  <2> QED
    BY <2>1, <2>3, <2>5, RevealType
<1> QED
  BY <1>1, <1>2

\* The all-pay close, with and without a runner-up.
LEMMA CloseAllPayType == TypeOK /\ CloseAuctionAllPay => TypeOK'
<1> SUFFICES ASSUME TypeOK, CloseAuctionAllPay PROVE TypeOK'
  OBVIOUS
<1> DEFINE p == sealed[Top(sealed)]
           second == Top(Others(sealed))
           sold(k) == Entry("AUCTION_SOLD", k, Top(sealed), p, 0, 0, NoScores)
           forfeit == Entry("ALL_PAY_FORFEIT", seq + 2, second, sealed[second], 0, 0, NoScores)
<1>1. CASE CloseNoBid
  BY <1>1, CloseNoBidType
<1>2. CASE ~CloseNoBid
  <2>1. /\ HasBid(sealed) /\ RevealAndSell(p)
        /\ \/ Emit2(RevealedEvent(p), sold(seq + 2))
           \/ HasBid(Others(sealed)) /\ Emit3(RevealedEvent(p), forfeit, sold(seq + 3))
    BY <1>2 DEF CloseAuctionAllPay
  <2>2. sealed \in [Users -> Nat] /\ seq + 2 \in Nat /\ seq + 3 \in Nat
    BY DEF TypeOK
  <2>3. p \in Nat /\ Others(sealed) \in [Users -> Nat]
    BY <2>1, <2>2, OthersType
  <2>4. HasBid(Others(sealed)) => second \in Users
    BY <2>3, TopIsBest
  <2> HIDE DEF p, second
  <2>5. /\ RevealedEvent(p) \in Event
        /\ sold(seq + 2) \in Event /\ sold(seq + 3) \in Event
        /\ HasBid(Others(sealed)) => forfeit \in Event
    BY <2>1, <2>2, <2>3, <2>4, RevealEntries
  <2> HIDE DEF sold, forfeit
  <2>6. stream' \in Seq(Event) /\ seq' \in Nat
    BY <2>1, <2>5, EmitType
  <2> QED
    BY <2>1, <2>3, <2>6, RevealType
<1> QED
  BY <1>1, <1>2

\* A cancel keeps every type.
LEMMA CancelType == ASSUME TypeOK, NEW c \in Users, CancelAuction(c) PROVE TypeOK'
<1>1. seq + 1 \in Nat /\ NoScores \in [Users -> Nat] /\ "AUCTION_CANCELLED" \in EventTypes
  BY DEF TypeOK, NoScores, EventTypes, TerminalTypes
<1>2. Entry("AUCTION_CANCELLED", seq + 1, NoUser, 0, 0, 0, NoScores) \in Event
  BY <1>1, EntryIsEvent
<1>3. stream' \in Seq(Event) /\ seq' \in Nat /\ status' \in Statuses
  BY <1>2 DEF TypeOK, CancelAuction, Emit, Statuses, Terminal
<1> QED
  BY <1>3 DEF TypeOK, CancelAuction, ackVars

\* Every script keeps every type.
LEMMA NextType == TypeOK /\ [Next]_vars => TypeOK'
<1> SUFFICES ASSUME TypeOK, [Next]_vars PROVE TypeOK'
  OBVIOUS
<1>1. ASSUME NEW r \in RuleSet, FreezeRules(r) PROVE TypeOK'
  <2>1. r \in RuleRecord /\ r.startPrice \in Nat
    BY RulesAssumption DEF RuleRecord
  <2> QED
    BY <1>1, <2>1 DEF TypeOK, FreezeRules, Statuses, ackVars
<1>2. ASSUME NEW d \in Durations, StartAuction(d) PROVE TypeOK'
  BY <1>2, BoundsAssumption DEF TypeOK, StartAuction, Statuses, ackVars
<1>3. ASSUME NEW u \in Users, NEW r \in Reqs, NEW a \in BidAmounts, Bid(u, r, a)
      PROVE  TypeOK'
  <2>1. a \in Nat /\ winner \in Users \cup {NoUser} /\ price \in Nat
    BY BoundsAssumption DEF TypeOK
  <2>2. CASE PlaceBid(u, r, a)
    BY <2>1, <2>2, AscendingType DEF PlaceBid
  <2>3. CASE PlaceBidHybrid(u, r, a)
    BY <2>1, <2>3, AscendingType DEF PlaceBidHybrid
  <2>4. CASE PlaceBidSealed(u, r, a)
    BY <2>1, <2>4, SealedType
  <2> QED
    BY <1>3, <2>2, <2>3, <2>4 DEF Bid
<1>4. CASE CloseAuctionDetailed
  BY <1>4, CloseAuctionType, CloseSealedType, CloseAllPayType DEF CloseAuctionDetailed
<1>5. ASSUME NEW c \in Users, CancelAuction(c) PROVE TypeOK'
  BY <1>5, CancelType
<1>6. CASE Tick
  BY <1>6 DEF TypeOK, Tick, hash, ackVars
<1>7. CASE UNCHANGED vars
  BY <1>7 DEF TypeOK, vars, hash, ackVars
<1> QED
  BY <1>1, <1>2, <1>3, <1>4, <1>5, <1>6, <1>7 DEF Next

\* Every field of the Hash, every ZSET score, every Stream entry and every
\* cached ack keeps the type the scripts and the gateway decode it with.
THEOREM TypeCorrect == Spec => []TypeOK
<1>1. Init => TypeOK
  BY InitType
<1>2. TypeOK /\ [Next]_vars => TypeOK'
  BY NextType
<1> QED
  BY <1>1, <1>2, PTL DEF Spec

-----------------------------------------------------------------------------
(***************************************************************************)
(* The log.  The four parts of CoreInv support each other: freeze_rules    *)
(* resets seq to 0, which keeps the lockstep only because nothing is in    *)
(* the Stream yet, and a script may append only because no terminal event  *)
(* is there.                                                               *)
(***************************************************************************)

\* Before the auction is live no bid has left a trace anywhere.
Pristine ==
  status \in {"NONE", "SCHEDULED"} =>
    /\ stream = <<>> /\ winner = NoUser
    /\ leaderboard = NoScores /\ sealed = NoScores

CoreInv ==
  /\ TypeOK
  /\ StreamLockstep
  /\ TerminalEventLast
  /\ HammerSeparatesBids
  /\ Pristine

\* The step appends k entries to the Stream, numbered by the Hash's seq.
Grows(k) ==
  /\ Len(stream') = Len(stream) + k
  /\ seq' = seq + k
  /\ \A i \in 1 .. Len(stream) : stream'[i] = stream[i]
  /\ \A i \in Len(stream) + 1 .. Len(stream) + k :
       stream'[i].seq = seq + (i - Len(stream))

\* One XADD under one HINCRBY.
LEMMA EmitGrows ==
  ASSUME TypeOK, NEW e \in Event, e.seq = seq + 1, Emit(e)
  PROVE  Grows(1) /\ stream'[Len(stream) + 1] = e
<1>1. stream \in Seq(Event) /\ Len(stream) \in Nat /\ seq \in Nat
  BY DEF TypeOK
<1>2. stream' = Append(stream, e) /\ seq' = seq + 1
  BY DEF Emit
<1>3. /\ Len(stream') = Len(stream) + 1
      /\ stream'[Len(stream) + 1] = e
      /\ \A i \in 1 .. Len(stream) : stream'[i] = stream[i]
  BY <1>1, <1>2
<1> QED
  BY <1>1, <1>2, <1>3 DEF Grows

\* Two XADDs, each with its own HINCRBY.
LEMMA Emit2Grows ==
  ASSUME TypeOK, NEW e \in Event, NEW f \in Event, e.seq = seq + 1, f.seq = seq + 2,
         Emit2(e, f)
  PROVE  /\ Grows(2)
         /\ stream'[Len(stream) + 1] = e /\ stream'[Len(stream) + 2] = f
<1>1. stream \in Seq(Event) /\ Len(stream) \in Nat /\ seq \in Nat
  BY DEF TypeOK
<1>2. stream' = Append(Append(stream, e), f) /\ seq' = seq + 2
  BY DEF Emit2
<1>3. /\ Len(stream') = Len(stream) + 2
      /\ stream'[Len(stream) + 1] = e /\ stream'[Len(stream) + 2] = f
      /\ \A i \in 1 .. Len(stream) : stream'[i] = stream[i]
  BY <1>1, <1>2
<1> QED
  BY <1>1, <1>2, <1>3 DEF Grows

\* Three XADDs, each with its own HINCRBY.
LEMMA Emit3Grows ==
  ASSUME TypeOK, NEW e \in Event, NEW f \in Event, NEW g \in Event,
         e.seq = seq + 1, f.seq = seq + 2, g.seq = seq + 3, Emit3(e, f, g)
  PROVE  /\ Grows(3)
         /\ stream'[Len(stream) + 1] = e /\ stream'[Len(stream) + 2] = f
         /\ stream'[Len(stream) + 3] = g
<1>1. stream \in Seq(Event) /\ Len(stream) \in Nat /\ seq \in Nat
  BY DEF TypeOK
<1>2. stream' = Append(Append(Append(stream, e), f), g) /\ seq' = seq + 3
  BY DEF Emit3
<1>3. /\ Len(stream') = Len(stream) + 3
      /\ stream'[Len(stream) + 1] = e /\ stream'[Len(stream) + 2] = f
      /\ stream'[Len(stream) + 3] = g
      /\ \A i \in 1 .. Len(stream) : stream'[i] = stream[i]
  BY <1>1, <1>2
<1>4. ASSUME NEW i \in Len(stream) + 1 .. Len(stream) + 3
      PROVE  stream'[i].seq = seq + (i - Len(stream))
  <2>1. \/ i = Len(stream) + 1 \/ i = Len(stream) + 2 \/ i = Len(stream) + 3
    BY <1>1
  <2> QED
    BY <1>1, <1>3, <2>1
<1> QED
  BY <1>2, <1>3, <1>4 DEF Grows

\* The early end that HammerSeparatesBids allows: a cap-hit sale.
BoughtNow == rules.mode \in Ascending /\ rules.cap > 0 /\ price = rules.cap

\* What an appending script owes CoreInv, stated on the new entries alone.
LEMMA GrowKeepsCore ==
  ASSUME CoreInv, TypeOK', status \notin Terminal,
         status' \in {"LIVE"} \cup Terminal,
         NEW k \in {1, 2, 3}, Grows(k), endAt <= endAt',
         \A i \in Len(stream) + 1 .. Len(stream) + k :
           /\ stream'[i].type \in TerminalTypes =>
                i = Len(stream) + k /\ status' \in Terminal
           /\ stream'[i].type \in BidTypes => stream'[i].at < endAt',
         status' \in Terminal =>
           stream'[Len(stream) + k].type = TerminalType[status'],
         status' \in {"SOLD", "NO_BID"} =>
           \/ stream'[Len(stream) + k].at >= endAt'
           \/ status' = "SOLD" /\ BoughtNow'
  PROVE  CoreInv'
<1>0. TypeOK
  BY DEF CoreInv
<1>1. /\ stream \in Seq(Event) /\ Len(stream) \in Nat /\ seq \in Nat
      /\ stream' \in Seq(Event) /\ Len(stream') \in Nat
      /\ endAt \in Nat /\ endAt' \in Nat
  <2>1. stream \in Seq(Event) /\ seq \in Nat /\ endAt \in Nat
    BY <1>0 DEF TypeOK
  <2>2. stream' \in Seq(Event) /\ endAt' \in Nat
    BY DEF TypeOK
  <2> QED
    BY <2>1, <2>2
<1>2. /\ Len(stream') = Len(stream) + k /\ seq' = seq + k
      /\ \A i \in 1 .. Len(stream) : stream'[i] = stream[i]
      /\ \A i \in Len(stream) + 1 .. Len(stream) + k :
           stream'[i].seq = seq + (i - Len(stream))
  BY DEF Grows
<1>3. \A i \in 1 .. Len(stream') :
        i \in 1 .. Len(stream) \/ i \in Len(stream) + 1 .. Len(stream) + k
  BY <1>1, <1>2
<1>4. StreamLockstep'
  BY <1>1, <1>2, <1>3 DEF CoreInv, StreamLockstep
<1>5. TerminalEventLast'
  <2>1. \A i \in 1 .. Len(stream) : stream[i].type \notin TerminalTypes
    BY DEF CoreInv, TerminalEventLast
  <2>2. stream' # <<>>
    BY <1>1, <1>2
  <2>3. ASSUME NEW i \in 1 .. Len(stream'), stream'[i].type \in TerminalTypes
        PROVE  i = Len(stream') /\ status' \in Terminal
    BY <1>2, <1>3, <2>1, <2>3
  <2> QED
    BY <1>2, <2>2, <2>3 DEF TerminalEventLast
<1>6. HammerSeparatesBids'
  <2>1. ASSUME NEW i \in 1 .. Len(stream'), stream'[i].type \in BidTypes
        PROVE  stream'[i].at < endAt'
    <3>1. CASE i \in 1 .. Len(stream)
      <4>1. stream'[i] = stream[i] /\ stream[i] \in Event
        BY <1>1, <1>2, <3>1
      <4>2. stream[i].at < endAt /\ stream[i].at \in Nat
        BY <2>1, <3>1, <4>1 DEF CoreInv, HammerSeparatesBids, Event
      <4> QED
        BY <1>1, <4>1, <4>2
    <3>2. CASE i \in Len(stream) + 1 .. Len(stream) + k
      BY <2>1, <3>2
    <3> QED
      BY <1>3, <3>1, <3>2
  <2> QED
    BY <1>2, <2>1 DEF HammerSeparatesBids, BoughtNow
<1>7. Pristine'
  BY DEF Pristine, Terminal
<1> QED
  BY <1>4, <1>5, <1>6, <1>7 DEF CoreInv

\* What an accepting answer of the ascending scripts says about the state.
LEMMA AscendingAdmits ==
  ASSUME NEW u, NEW r, NEW a,
         AscendingCode(u, r, a) \in {"OK_ACCEPTED", "OK_EXTENDED", "OK_SOLD"}
  PROVE  /\ status = "LIVE" /\ u # Seller /\ ~(now >= endAt)
         /\ InRange(a, Required)
         /\ AscendingCode(u, r, a) = "OK_SOLD" <=> CapHit(a)
  BY DEF AscendingCode, AdmissionCode

\* What an accepting answer of the sealed bid script says about the state.
LEMMA SealedAdmits ==
  ASSUME NEW u, NEW r, NEW a, SealedCode(u, r, a) = "OK_ACCEPTED"
  PROVE  /\ status = "LIVE" /\ u # Seller /\ ~(now >= endAt)
         /\ InRange(a, rules.startPrice)
  BY DEF SealedCode, AdmissionCode

\* What an OK of the close scripts says about the state.
LEMMA CloseAdmits ==
  ASSUME CloseCode = "OK"
  PROVE  status = "LIVE" /\ ~(now < endAt)
  BY DEF CloseCode

\* The ascending bids, whatever the room is shown.
LEMMA AscendingCore ==
  ASSUME CoreInv, NEW u \in Users, NEW r \in Reqs, NEW a \in Nat,
         NEW su \in Users \cup {NoUser}, NEW sa \in Nat,
         rules.mode \in Ascending,
         \/ BidAccepted(u, r, a, su, sa)
         \/ BidExtended(u, r, a, su, sa)
         \/ BidSold(u, r, a)
  PROVE  CoreInv'
<1>0. TypeOK
  BY DEF CoreInv
<1>1. TypeOK'
  BY <1>0, AscendingType
<1>2. /\ status \notin Terminal /\ endAt \in Nat /\ now \in Nat /\ now < endAt
      /\ stream \in Seq(Event) /\ Len(stream) \in Nat /\ seq \in Nat
  <2>1. status = "LIVE" /\ ~(now >= endAt)
    BY AscendingAdmits DEF BidAccepted, BidExtended, BidSold
  <2>2. endAt \in Nat /\ now \in Nat /\ stream \in Seq(Event) /\ seq \in Nat
    BY <1>0 DEF TypeOK
  <2> QED
    BY <2>1, <2>2 DEF Terminal
<1>3. CASE BidAccepted(u, r, a, su, sa)
  <2> DEFINE e == BidEvent(su, sa, endAt)
  <2>1. /\ e \in Event /\ e.seq = seq + 1 /\ e.type = "BID_ACCEPTED" /\ e.at = now
    BY <1>0, <1>2, BidEventIsEvent DEF BidEvent, Entry
  <2>2. Emit(e) /\ status' = status /\ endAt' = endAt /\ status = "LIVE"
    BY <1>3, AscendingAdmits DEF BidAccepted
  <2> HIDE DEF e
  <2>3. Grows(1) /\ stream'[Len(stream) + 1] = e
    BY <1>0, <2>1, <2>2, EmitGrows
  <2> QED
    BY <1>1, <1>2, <2>1, <2>2, <2>3, GrowKeepsCore DEF TerminalTypes, Terminal
<1>4. CASE BidExtended(u, r, a, su, sa)
  <2> DEFINE end == endAt + rules.extendSec
             e == BidEvent(su, sa, end)
             f == Entry("AUCTION_EXTENDED", seq + 2, NoUser, 0, end, extendCount + 1, NoScores)
  <2>0. rules.extendSec \in Nat /\ extendCount + 1 \in Nat /\ NoScores \in [Users -> Nat]
    BY <1>0 DEF TypeOK, RuleRecord, NoScores
  <2>1. end \in Nat /\ endAt <= end
    BY <1>2, <2>0
  <2>2. /\ Emit2(e, f) /\ status' = status /\ endAt' = end /\ status = "LIVE"
    BY <1>4, AscendingAdmits DEF BidExtended
  <2> HIDE DEF end
  <2>3. /\ e \in Event /\ e.seq = seq + 1 /\ e.type = "BID_ACCEPTED" /\ e.at = now
    BY <1>0, <2>1, BidEventIsEvent DEF BidEvent, Entry
  <2>4. f \in Event
    <3>1. "AUCTION_EXTENDED" \in EventTypes /\ seq + 2 \in Nat
      BY <1>2 DEF EventTypes
    <3> QED
      BY <1>0, <2>0, <2>1, <3>1, EntryIsEvent
  <2>5. f.seq = seq + 2 /\ f.type = "AUCTION_EXTENDED"
    BY DEF Entry
  <2> HIDE DEF e, f
  <2>6. /\ Grows(2) /\ stream'[Len(stream) + 1] = e /\ stream'[Len(stream) + 2] = f
    BY <1>0, <2>2, <2>3, <2>4, <2>5, Emit2Grows
  <2>7. \A i \in Len(stream) + 1 .. Len(stream) + 2 :
          /\ stream'[i].type \notin TerminalTypes
          /\ stream'[i].type \in BidTypes => stream'[i].at < endAt'
    <3>1. now < end
      BY <1>2, <2>1
    <3>2. \A i \in Len(stream) + 1 .. Len(stream) + 2 :
            i = Len(stream) + 1 \/ i = Len(stream) + 2
      BY <1>2
    <3> QED
      BY <2>2, <2>3, <2>5, <2>6, <3>1, <3>2 DEF TerminalTypes, BidTypes
  <2> QED
    BY <1>1, <1>2, <2>1, <2>2, <2>6, <2>7, GrowKeepsCore DEF Terminal
<1>5. CASE BidSold(u, r, a)
  <2> DEFINE e == BidEvent(u, a, endAt)
             f == Entry("AUCTION_SOLD", seq + 2, u, a, 0, 0, NoScores)
  <2>1. /\ e \in Event /\ e.seq = seq + 1 /\ e.type = "BID_ACCEPTED" /\ e.at = now
    BY <1>0, <1>2, BidEventIsEvent DEF BidEvent, Entry
  <2>2. f \in Event
    <3>1. NoScores \in [Users -> Nat] /\ "AUCTION_SOLD" \in EventTypes /\ seq + 2 \in Nat
      BY <1>2 DEF NoScores, EventTypes, TerminalTypes
    <3> QED
      BY <1>0, <3>1, EntryIsEvent
  <2>3. f.seq = seq + 2 /\ f.type = "AUCTION_SOLD"
    BY DEF Entry
  <2>4. Emit2(e, f) /\ status' = "SOLD" /\ endAt' = endAt
    BY <1>5 DEF BidSold
  <2>5. BoughtNow'
    <3>1. CapHit(a) /\ InRange(a, Required)
      BY <1>5, AscendingAdmits DEF BidSold
    <3>2. rules' = rules /\ price' = a
      BY <1>5 DEF BidSold, AcceptBid
    <3>3. rules.cap \in Nat
      BY <1>0 DEF TypeOK, RuleRecord
    <3>4. rules.cap > 0 /\ a = rules.cap
      BY <3>1, <3>3 DEF CapHit, InRange
    <3> QED
      BY <3>2, <3>4 DEF BoughtNow
  <2> HIDE DEF e, f
  <2>6. /\ Grows(2) /\ stream'[Len(stream) + 1] = e /\ stream'[Len(stream) + 2] = f
    BY <1>0, <2>1, <2>2, <2>3, <2>4, Emit2Grows
  <2>7. \A i \in Len(stream) + 1 .. Len(stream) + 2 :
          /\ stream'[i].type \in TerminalTypes => i = Len(stream) + 2
          /\ stream'[i].type \in BidTypes => stream'[i].at < endAt'
    <3>1. \A i \in Len(stream) + 1 .. Len(stream) + 2 :
            i = Len(stream) + 1 \/ i = Len(stream) + 2
      BY <1>2
    <3> QED
      BY <1>2, <2>1, <2>3, <2>4, <2>6, <3>1 DEF TerminalTypes, BidTypes
  <2>8. endAt <= endAt' /\ status' \in Terminal
    BY <1>2, <2>4 DEF Terminal
  <2>9. stream'[Len(stream) + 2].type = TerminalType[status']
    BY <2>3, <2>4, <2>6 DEF TerminalType
  <2> QED
    BY <1>1, <1>2, <2>4, <2>5, <2>6, <2>7, <2>8, <2>9, GrowKeepsCore
<1> QED
  BY <1>3, <1>4, <1>5

\* The sealed bid.
LEMMA SealedCore ==
  ASSUME CoreInv, NEW u \in Users, NEW r \in Reqs, NEW a \in Nat, PlaceBidSealed(u, r, a)
  PROVE  CoreInv'
<1> DEFINE e == Entry("SEALED_BID_RECEIVED", seq + 1, u, 0, 0, SealedCount(u), NoScores)
<1>0. TypeOK
  BY DEF CoreInv
<1>1. TypeOK'
  BY <1>0, SealedType
<1>2. /\ status = "LIVE" /\ now < endAt /\ endAt \in Nat
      /\ stream \in Seq(Event) /\ Len(stream) \in Nat /\ seq \in Nat
  <2>1. status = "LIVE" /\ ~(now >= endAt)
    BY SealedAdmits DEF PlaceBidSealed
  <2>2. endAt \in Nat /\ now \in Nat /\ stream \in Seq(Event) /\ seq \in Nat
    BY <1>0 DEF TypeOK
  <2> QED
    BY <2>1, <2>2
<1>3. e \in Event
  <2>1. SealedCount(u) \in Nat
    BY UsersAssumption, FS_Subset, FS_CardinalityType DEF SealedCount
  <2>2. seq + 1 \in Nat /\ NoScores \in [Users -> Nat] /\ "SEALED_BID_RECEIVED" \in EventTypes
    BY <1>2 DEF NoScores, EventTypes, BidTypes
  <2> QED
    BY <1>0, <2>1, <2>2, EntryIsEvent
<1>4. e.seq = seq + 1 /\ e.type = "SEALED_BID_RECEIVED" /\ e.at = now
  BY DEF Entry
<1>5. Emit(e) /\ status' = status /\ endAt' = endAt
  BY DEF PlaceBidSealed
<1> HIDE DEF e
<1>6. Grows(1) /\ stream'[Len(stream) + 1] = e
  BY <1>0, <1>3, <1>4, <1>5, EmitGrows
<1> QED
  BY <1>1, <1>2, <1>4, <1>5, <1>6, GrowKeepsCore DEF TerminalTypes, Terminal

\* A hammer: the new entries hold no bid and end in the terminal event.
LEMMA HammerCore ==
  ASSUME CoreInv, TypeOK', CloseCode = "OK", status' \in {"SOLD", "NO_BID"},
         endAt' = endAt, NEW k \in {1, 2, 3}, Grows(k),
         \A i \in Len(stream) + 1 .. Len(stream) + k :
           /\ stream'[i].type \notin BidTypes
           /\ stream'[i].type \in TerminalTypes => i = Len(stream) + k,
         stream'[Len(stream) + k].type = TerminalType[status'],
         stream'[Len(stream) + k].at = now
  PROVE  CoreInv'
<1>1. endAt \in Nat /\ now \in Nat
  BY DEF CoreInv, TypeOK
<1>2. status = "LIVE" /\ now >= endAt
  BY <1>1, CloseAdmits
<1>3. endAt <= endAt' /\ status \notin Terminal /\ status' \in Terminal
  BY <1>1, <1>2 DEF Terminal
<1> QED
  BY <1>1, <1>2, <1>3, GrowKeepsCore

\* A close that appends its terminal event alone.
LEMMA SingleCloseCore ==
  ASSUME CoreInv, TypeOK', CloseCode = "OK", status' \in {"SOLD", "NO_BID"},
         endAt' = endAt, NEW w \in Users \cup {NoUser}, NEW p \in Nat,
         Emit(Entry(TerminalType[status'], seq + 1, w, p, 0, 0, NoScores))
  PROVE  CoreInv'
<1> DEFINE e == Entry(TerminalType[status'], seq + 1, w, p, 0, 0, NoScores)
<1>0. TypeOK
  BY DEF CoreInv
<1>1. seq + 1 \in Nat /\ NoScores \in [Users -> Nat] /\ stream \in Seq(Event)
  BY <1>0 DEF TypeOK, NoScores
<1>2. TerminalType[status'] \in TerminalTypes \ BidTypes
  BY DEF TerminalType, TerminalTypes, BidTypes
<1>3. e \in Event
  BY <1>0, <1>1, <1>2, EntryIsEvent DEF EventTypes
<1>4. e.seq = seq + 1 /\ e.type = TerminalType[status'] /\ e.at = now
  BY DEF Entry
<1>5. Emit(e)
  OBVIOUS
<1> HIDE DEF e
<1>6. Grows(1) /\ stream'[Len(stream) + 1] = e
  BY <1>0, <1>3, <1>4, <1>5, EmitGrows
<1>7. \A i \in Len(stream) + 1 .. Len(stream) + 1 : i = Len(stream) + 1
  BY <1>1
<1> QED
  BY <1>2, <1>4, <1>6, <1>7, HammerCore

\* The NO_BID hammer.
LEMMA CloseNoBidCore == CoreInv /\ CloseCode = "OK" /\ CloseNoBid => CoreInv'
<1> SUFFICES ASSUME CoreInv, CloseCode = "OK", CloseNoBid PROVE CoreInv'
  OBVIOUS
<1>1. TypeOK'
  BY CloseNoBidType DEF CoreInv
<1>2. status' = "NO_BID" /\ TerminalType[status'] = "AUCTION_NO_BID" /\ endAt' = endAt
  BY DEF CloseNoBid, TerminalType
<1>3. Emit(Entry(TerminalType[status'], seq + 1, NoUser, 0, 0, 0, NoScores))
  BY <1>2 DEF CloseNoBid
<1> QED
  BY <1>1, <1>2, <1>3, SingleCloseCore

\* The public hammer.
LEMMA CloseAuctionCore == CoreInv /\ CloseAuction => CoreInv'
<1> SUFFICES ASSUME CoreInv, CloseAuction PROVE CoreInv'
  OBVIOUS
<1>0. CloseCode = "OK"
  BY DEF CloseAuction
<1>1. CASE CloseNoBid
  BY <1>0, <1>1, CloseNoBidCore
<1>2. CASE ~CloseNoBid
  <2>1. TypeOK' /\ winner \in Users \cup {NoUser} /\ price \in Nat
    <3>1. TypeOK
      BY DEF CoreInv
    <3> QED
      BY <3>1, CloseAuctionType DEF TypeOK
  <2>2. /\ status' = "SOLD" /\ TerminalType[status'] = "AUCTION_SOLD" /\ endAt' = endAt
    BY <1>2 DEF CloseAuction, TerminalType
  <2>3. Emit(Entry(TerminalType[status'], seq + 1, winner, price, 0, 0, NoScores))
    BY <1>2, <2>2 DEF CloseAuction
  <2> QED
    BY <1>0, <2>1, <2>2, <2>3, SingleCloseCore
<1> QED
  BY <1>1, <1>2

\* The entries of a reveal as HammerCore wants them.
LEMMA RevealCore ==
  ASSUME CoreInv, TypeOK', CloseCode = "OK", status' = "SOLD", endAt' = endAt,
         HasBid(sealed), NEW p \in Nat, NEW second \in Users,
         \/ Emit2(RevealedEvent(p), Entry("AUCTION_SOLD", seq + 2, Top(sealed), p, 0, 0, NoScores))
         \/ Emit3(RevealedEvent(p),
                  Entry("ALL_PAY_FORFEIT", seq + 2, second, sealed[second], 0, 0, NoScores),
                  Entry("AUCTION_SOLD", seq + 3, Top(sealed), p, 0, 0, NoScores))
  PROVE  CoreInv'
<1> DEFINE e == RevealedEvent(p)
           f == Entry("ALL_PAY_FORFEIT", seq + 2, second, sealed[second], 0, 0, NoScores)
           g(k) == Entry("AUCTION_SOLD", k, Top(sealed), p, 0, 0, NoScores)
<1>0. TypeOK
  BY DEF CoreInv
<1>1. /\ stream \in Seq(Event) /\ Len(stream) \in Nat
      /\ seq \in Nat /\ seq + 2 \in Nat /\ seq + 3 \in Nat
  BY <1>0 DEF TypeOK
<1>2. e \in Event /\ f \in Event /\ g(seq + 2) \in Event /\ g(seq + 3) \in Event
  BY <1>0, <1>1, RevealEntries
<1>3. /\ e.seq = seq + 1 /\ e.type = "AUCTION_REVEALED"
      /\ f.seq = seq + 2 /\ f.type = "ALL_PAY_FORFEIT"
      /\ g(seq + 2).seq = seq + 2 /\ g(seq + 2).type = "AUCTION_SOLD" /\ g(seq + 2).at = now
      /\ g(seq + 3).seq = seq + 3 /\ g(seq + 3).type = "AUCTION_SOLD" /\ g(seq + 3).at = now
  BY DEF RevealedEvent, Entry
<1>4. TerminalType[status'] = "AUCTION_SOLD"
  BY DEF TerminalType
<1>5. Emit2(e, g(seq + 2)) \/ Emit3(e, f, g(seq + 3))
  OBVIOUS
<1> HIDE DEF e, f, g
<1>6. CASE Emit2(e, g(seq + 2))
  <2>1. Grows(2) /\ stream'[Len(stream) + 1] = e /\ stream'[Len(stream) + 2] = g(seq + 2)
    BY <1>0, <1>2, <1>3, <1>6, Emit2Grows
  <2>2. \A i \in Len(stream) + 1 .. Len(stream) + 2 :
          i = Len(stream) + 1 \/ i = Len(stream) + 2
    BY <1>1
  <2>3. \A i \in Len(stream) + 1 .. Len(stream) + 2 :
          /\ stream'[i].type \notin BidTypes
          /\ stream'[i].type \in TerminalTypes => i = Len(stream) + 2
    BY <1>3, <2>1, <2>2 DEF BidTypes, TerminalTypes
  <2> QED
    BY <1>3, <1>4, <2>1, <2>3, HammerCore
<1>7. CASE Emit3(e, f, g(seq + 3))
  <2>1. /\ Grows(3) /\ stream'[Len(stream) + 1] = e /\ stream'[Len(stream) + 2] = f
        /\ stream'[Len(stream) + 3] = g(seq + 3)
    BY <1>0, <1>2, <1>3, <1>7, Emit3Grows
  <2>2. \A i \in Len(stream) + 1 .. Len(stream) + 3 :
          i = Len(stream) + 1 \/ i = Len(stream) + 2 \/ i = Len(stream) + 3
    BY <1>1
  <2>3. \A i \in Len(stream) + 1 .. Len(stream) + 3 :
          /\ stream'[i].type \notin BidTypes
          /\ stream'[i].type \in TerminalTypes => i = Len(stream) + 3
    BY <1>3, <2>1, <2>2 DEF BidTypes, TerminalTypes
  <2> QED
    BY <1>3, <1>4, <2>1, <2>3, HammerCore
<1> QED
  BY <1>5, <1>6, <1>7

\* The first- and second-price hammer.
LEMMA CloseSealedCore == CoreInv /\ CloseAuctionSealed => CoreInv'
<1> SUFFICES ASSUME CoreInv, CloseAuctionSealed PROVE CoreInv'
  OBVIOUS
<1> DEFINE p == IF rules.mode = "VICKREY" THEN SecondPrice(sealed) ELSE sealed[Top(sealed)]
<1>0. TypeOK /\ CloseCode = "OK"
  BY DEF CoreInv, CloseAuctionSealed
<1>1. CASE CloseNoBid
  BY <1>0, <1>1, CloseNoBidCore
<1>2. CASE ~CloseNoBid
  <2>1. /\ HasBid(sealed) /\ RevealAndSell(p)
        /\ Emit2(RevealedEvent(p),
                 Entry("AUCTION_SOLD", seq + 2, Top(sealed), p, 0, 0, NoScores))
    BY <1>2 DEF CloseAuctionSealed
  <2>2. sealed \in [Users -> Nat]
    BY <1>0 DEF TypeOK
  <2>3. p \in Nat
    BY <1>0, <2>1, <2>2, OthersType, SecondPriceType
  <2>4. TypeOK'
    BY <1>0, CloseSealedType
  <2>5. status' = "SOLD" /\ endAt' = endAt
    BY <2>1 DEF RevealAndSell
  <2> HIDE DEF p
  <2> QED
    BY <1>0, <2>1, <2>3, <2>4, <2>5, UsersAssumption, RevealCore
<1> QED
  BY <1>1, <1>2

\* The all-pay hammer.
LEMMA CloseAllPayCore == CoreInv /\ CloseAuctionAllPay => CoreInv'
<1> SUFFICES ASSUME CoreInv, CloseAuctionAllPay PROVE CoreInv'
  OBVIOUS
<1> DEFINE p == sealed[Top(sealed)]
           second == Top(Others(sealed))
           sold(k) == Entry("AUCTION_SOLD", k, Top(sealed), p, 0, 0, NoScores)
           forfeit == Entry("ALL_PAY_FORFEIT", seq + 2, second, sealed[second], 0, 0, NoScores)
<1>0. TypeOK /\ CloseCode = "OK"
  BY DEF CoreInv, CloseAuctionAllPay
<1>1. CASE CloseNoBid
  BY <1>0, <1>1, CloseNoBidCore
<1>2. CASE ~CloseNoBid
  <2>1. /\ HasBid(sealed) /\ RevealAndSell(p)
        /\ \/ Emit2(RevealedEvent(p), sold(seq + 2))
           \/ HasBid(Others(sealed)) /\ Emit3(RevealedEvent(p), forfeit, sold(seq + 3))
    BY <1>2 DEF CloseAuctionAllPay
  <2>2. sealed \in [Users -> Nat]
    BY <1>0 DEF TypeOK
  <2>3. p \in Nat /\ Others(sealed) \in [Users -> Nat]
    BY <2>1, <2>2, OthersType
  <2>4. HasBid(Others(sealed)) => second \in Users
    BY <2>3, TopIsBest
  <2>5. TypeOK' /\ status' = "SOLD" /\ endAt' = endAt
    BY <1>0, <2>1, CloseAllPayType DEF RevealAndSell
  <2> HIDE DEF p, second
  <2>6. CASE Emit2(RevealedEvent(p), sold(seq + 2))
    BY <1>0, <2>1, <2>3, <2>5, <2>6, UsersAssumption, RevealCore
  <2>7. CASE HasBid(Others(sealed)) /\ Emit3(RevealedEvent(p), forfeit, sold(seq + 3))
    BY <1>0, <2>1, <2>3, <2>4, <2>5, <2>7, RevealCore
  <2> QED
    BY <2>1, <2>6, <2>7
<1> QED
  BY <1>1, <1>2

\* The seller's cancel.
LEMMA CancelCore ==
  ASSUME CoreInv, NEW c \in Users, CancelAuction(c)
  PROVE  CoreInv'
<1> DEFINE e == Entry("AUCTION_CANCELLED", seq + 1, NoUser, 0, 0, 0, NoScores)
<1>0. TypeOK
  BY DEF CoreInv
<1>1. TypeOK' /\ stream \in Seq(Event) /\ seq \in Nat /\ endAt \in Nat /\ Len(stream) \in Nat
  <2>1. TypeOK'
    BY <1>0, CancelType
  <2>2. stream \in Seq(Event) /\ seq \in Nat /\ endAt \in Nat
    BY <1>0 DEF TypeOK
  <2> QED
    BY <2>1, <2>2
<1>2. status \notin Terminal
  BY DEF CancelAuction, CancelCode
<1>3. e \in Event
  <2>1. seq + 1 \in Nat /\ NoScores \in [Users -> Nat] /\ "AUCTION_CANCELLED" \in EventTypes
    BY <1>1 DEF NoScores, EventTypes, TerminalTypes
  <2> QED
    BY <1>0, <2>1, EntryIsEvent
<1>4. e.seq = seq + 1 /\ e.type = "AUCTION_CANCELLED"
  BY DEF Entry
<1>5. Emit(e) /\ status' = "CANCELLED" /\ endAt' = endAt
  BY DEF CancelAuction
<1> HIDE DEF e
<1>6. Grows(1) /\ stream'[Len(stream) + 1] = e
  BY <1>0, <1>3, <1>4, <1>5, EmitGrows
<1>7. \A i \in Len(stream) + 1 .. Len(stream) + 1 : i = Len(stream) + 1
  BY <1>1
<1>8. endAt <= endAt' /\ status' \in Terminal /\ TerminalType[status'] = "AUCTION_CANCELLED"
  BY <1>1, <1>5 DEF Terminal, TerminalType
<1>9. \A i \in Len(stream) + 1 .. Len(stream) + 1 :
        stream'[i].type \notin BidTypes /\ i = Len(stream) + 1
  BY <1>4, <1>6, <1>7 DEF BidTypes
<1> QED
  BY <1>1, <1>2, <1>4, <1>5, <1>6, <1>8, <1>9, GrowKeepsCore

\* The inductive step, one case per script.
LEMMA NextCore == CoreInv /\ [Next]_vars => CoreInv'
<1> SUFFICES ASSUME CoreInv, [Next]_vars PROVE CoreInv'
  OBVIOUS
<1>0. TypeOK /\ TypeOK'
  BY NextType DEF CoreInv
<1>1. ASSUME NEW r \in RuleSet, FreezeRules(r) PROVE CoreInv'
  <2>1. stream = <<>> /\ stream' = <<>> /\ seq' = 0 /\ status' = "SCHEDULED"
    BY <1>1 DEF CoreInv, Pristine, FreezeRules
  <2>2. Pristine'
    BY <1>1 DEF CoreInv, Pristine, FreezeRules
  <2>3. StreamLockstep' /\ TerminalEventLast' /\ HammerSeparatesBids'
    BY <2>1 DEF StreamLockstep, TerminalEventLast, HammerSeparatesBids, Terminal
  <2> QED
    BY <1>0, <2>2, <2>3 DEF CoreInv
<1>2. ASSUME NEW d \in Durations, StartAuction(d) PROVE CoreInv'
  <2>1. stream = <<>> /\ stream' = <<>> /\ seq' = seq /\ status' = "LIVE"
    BY <1>2 DEF CoreInv, Pristine, StartAuction
  <2>2. StreamLockstep' /\ TerminalEventLast' /\ HammerSeparatesBids' /\ Pristine'
    BY <2>1 DEF CoreInv, StreamLockstep, TerminalEventLast, HammerSeparatesBids,
                Pristine, Terminal
  <2> QED
    BY <1>0, <2>2 DEF CoreInv
<1>3. ASSUME NEW u \in Users, NEW r \in Reqs, NEW a \in BidAmounts, Bid(u, r, a)
      PROVE  CoreInv'
  <2>1. a \in Nat /\ winner \in Users \cup {NoUser} /\ price \in Nat
    BY <1>0, BoundsAssumption DEF TypeOK
  <2>2. CASE rules.mode \in Plain /\ PlaceBid(u, r, a)
    BY <2>1, <2>2, AscendingCore DEF PlaceBid, Ascending, Plain
  <2>3. CASE rules.mode = "HYBRID_REVEAL" /\ PlaceBidHybrid(u, r, a)
    BY <2>1, <2>3, AscendingCore DEF PlaceBidHybrid, Ascending
  <2>4. CASE PlaceBidSealed(u, r, a)
    BY <2>1, <2>4, SealedCore
  <2> QED
    BY <1>3, <2>2, <2>3, <2>4 DEF Bid
<1>4. CASE CloseAuctionDetailed
  BY <1>4, CloseAuctionCore, CloseSealedCore, CloseAllPayCore DEF CloseAuctionDetailed
<1>5. ASSUME NEW c \in Users, CancelAuction(c) PROVE CoreInv'
  BY <1>5, CancelCore
<1>6. CASE Tick
  BY <1>0, <1>6 DEF CoreInv, StreamLockstep, TerminalEventLast, HammerSeparatesBids,
                    Pristine, Tick, hash
<1>7. CASE UNCHANGED vars
  BY <1>0, <1>7 DEF CoreInv, StreamLockstep, TerminalEventLast, HammerSeparatesBids,
                    Pristine, vars, hash
<1> QED
  BY <1>1, <1>2, <1>3, <1>4, <1>5, <1>6, <1>7 DEF Next

\* CoreInv is an inductive invariant of the scripts.
THEOREM CoreInvariant == Spec => []CoreInv
<1>1. Init => CoreInv
  <2> SUFFICES ASSUME Init PROVE CoreInv
    OBVIOUS
  <2>1. TypeOK
    BY InitType
  <2>2. StreamLockstep /\ TerminalEventLast /\ HammerSeparatesBids /\ Pristine
    BY DEF Init, StreamLockstep, TerminalEventLast, HammerSeparatesBids, Pristine, Terminal
  <2> QED
    BY <2>1, <2>2 DEF CoreInv
<1>2. CoreInv /\ [Next]_vars => CoreInv'
  BY NextCore
<1> QED
  BY <1>1, <1>2, PTL DEF Spec

\* The event log of every auction is gap-free and seq never drifts from it.
THEOREM LogIsGapFree == Spec => []StreamLockstep
<1>1. CoreInv => StreamLockstep
  BY DEF CoreInv
<1> QED
  BY <1>1, CoreInvariant, PTL

\* A terminal status and the terminal event that ends the log imply each other.
THEOREM LogEndsWithOutcome == Spec => []TerminalEventLast
<1>1. CoreInv => TerminalEventLast
  BY DEF CoreInv
<1> QED
  BY <1>1, CoreInvariant, PTL

\* Bids come before the final deadline, the hammer at or after it.
THEOREM HammerAfterBids == Spec => []HammerSeparatesBids
<1>1. CoreInv => HammerSeparatesBids
  BY DEF CoreInv
<1> QED
  BY <1>1, CoreInvariant, PTL

\* No script acts on an auction that has ended.
LEMMA EndedStays ==
  ASSUME [Next]_vars, status \in Terminal
  PROVE  UNCHANGED <<hash, leaderboard, sealed, stream, dedupe>>
<1>1. ASSUME NEW r \in RuleSet, FreezeRules(r) PROVE FALSE
  BY <1>1 DEF FreezeRules, Terminal
<1>2. ASSUME NEW d \in Durations, StartAuction(d) PROVE FALSE
  BY <1>2 DEF StartAuction, Terminal
<1>3. ASSUME NEW u \in Users, NEW r \in Reqs, NEW a \in BidAmounts, Bid(u, r, a)
      PROVE  FALSE
  <2>1. CASE \E su, sa : \/ BidAccepted(u, r, a, su, sa)
                         \/ BidExtended(u, r, a, su, sa)
                         \/ BidSold(u, r, a)
    BY <2>1, AscendingAdmits DEF BidAccepted, BidExtended, BidSold, Terminal
  <2>2. CASE PlaceBidSealed(u, r, a)
    BY <2>2, SealedAdmits DEF PlaceBidSealed, Terminal
  <2> QED
    BY <1>3, <2>1, <2>2 DEF Bid, PlaceBid, PlaceBidHybrid
<1>4. CASE CloseAuctionDetailed
  BY <1>4, CloseAdmits
     DEF CloseAuctionDetailed, CloseAuction, CloseAuctionSealed, CloseAuctionAllPay, Terminal
<1>5. ASSUME NEW c \in Users, CancelAuction(c) PROVE FALSE
  BY <1>5 DEF CancelAuction, CancelCode
<1>6. CASE Tick
  BY <1>6 DEF Tick, ackVars
<1>7. CASE UNCHANGED vars
  BY <1>7 DEF vars, ackVars
<1> QED
  BY <1>1, <1>2, <1>3, <1>4, <1>5, <1>6, <1>7 DEF Next

\* After the end no script changes the outcome, the log or a cached ack.
THEOREM OutcomeIsFinal == Spec => TerminalIsFinal
<1>1. ASSUME [Next]_vars, Phase # "open"
      PROVE  UNCHANGED <<hash, leaderboard, sealed, stream, dedupe>>
  <2>1. status \in Terminal
    BY <1>1 DEF Phase, Terminal
  <2> QED
    BY <1>1, <2>1, EndedStays
<1>2. [Next]_vars => [Phase # "open" => UNCHANGED <<hash, leaderboard, sealed, stream, dedupe>>]_vars
  BY <1>1
<1> QED
  BY <1>2, PTL DEF Spec, TerminalIsFinal

-----------------------------------------------------------------------------
(***************************************************************************)
(* Secrecy of sealed bids.                                                 *)
(***************************************************************************)

\* A script that writes no public field and appends one entry without an
\* amount and without a bid list leaks nothing.
LEMMA MuteEntryKeepsSecrecy ==
  ASSUME CoreInv, SealedSecrecy, status # "NONE", status' # "SOLD",
         rules' = rules, price' = price, winner' = winner, leaderboard' = leaderboard,
         NEW e \in Event, e.amount = 0, e.bids = NoScores, Emit(e), status # "SOLD"
  PROVE  SealedSecrecy'
<1>1. stream \in Seq(Event) /\ stream' = Append(stream, e)
  BY DEF CoreInv, TypeOK, Emit
<1>2. /\ Len(stream') = Len(stream) + 1 /\ Len(stream) \in Nat
      /\ stream'[Len(stream) + 1] = e
      /\ \A i \in 1 .. Len(stream) : stream'[i] = stream[i]
  BY <1>1
<1>3. NoScores' = NoScores
  BY DEF NoScores
<1>4. ASSUME rules.mode \in Sealed, NEW i \in 1 .. Len(stream')
      PROVE  stream'[i].amount = 0 /\ stream'[i].bids = NoScores
  <2>1. i \in 1 .. Len(stream) \/ i = Len(stream) + 1
    BY <1>2
  <2> QED
    BY <1>2, <1>4, <2>1 DEF SealedSecrecy
<1> QED
  BY <1>3, <1>4 DEF SealedSecrecy

\* The inductive step; only the sealed scripts and cancel can disturb it.
LEMMA NextSecrecy == CoreInv /\ SealedSecrecy /\ [Next]_vars => SealedSecrecy'
<1> SUFFICES ASSUME CoreInv, SealedSecrecy, [Next]_vars PROVE SealedSecrecy'
  OBVIOUS
<1>0. TypeOK /\ seq + 1 \in Nat /\ NoScores \in [Users -> Nat] /\ NoScores' = NoScores
  <2>1. TypeOK
    BY DEF CoreInv
  <2> QED
    BY <2>1 DEF TypeOK, NoScores
<1>00. Sealed \cap Ascending = {}
  BY DEF Sealed, Ascending
<1>1. ASSUME NEW r \in RuleSet, FreezeRules(r) PROVE SealedSecrecy'
  BY <1>0, <1>1 DEF CoreInv, Pristine, FreezeRules, SealedSecrecy
<1>2. ASSUME NEW d \in Durations, StartAuction(d) PROVE SealedSecrecy'
  BY <1>0, <1>2 DEF StartAuction, SealedSecrecy
<1>3. ASSUME NEW u \in Users, NEW r \in Reqs, NEW a \in BidAmounts, Bid(u, r, a)
      PROVE  SealedSecrecy'
  <2>1. CASE rules.mode \in Ascending
    <3>1. rules' = rules
      BY <1>3, <2>1, <1>00 DEF Bid, PlaceBid, PlaceBidHybrid, BidAccepted, BidExtended,
                               BidSold, AcceptBid
    <3> QED
      BY <2>1, <3>1, <1>00 DEF SealedSecrecy
  <2>2. CASE rules.mode \notin Ascending
    <3> DEFINE e == Entry("SEALED_BID_RECEIVED", seq + 1, u, 0, 0, SealedCount(u), NoScores)
    <3>1. PlaceBidSealed(u, r, a)
      BY <1>3, <2>2 DEF Bid, Ascending, Plain
    <3>2. SealedCount(u) \in Nat
      BY UsersAssumption, FS_Subset, FS_CardinalityType DEF SealedCount
    <3>3. "SEALED_BID_RECEIVED" \in EventTypes
      BY DEF EventTypes, BidTypes
    <3>4. e \in Event
      BY <1>0, <3>2, <3>3, EntryIsEvent
    <3>5. e.amount = 0 /\ e.bids = NoScores
      BY DEF Entry
    <3>6. status = "LIVE"
      BY <3>1, SealedAdmits DEF PlaceBidSealed
    <3>7. /\ Emit(e) /\ status' = status /\ rules' = rules /\ price' = price
          /\ winner' = winner /\ leaderboard' = leaderboard
      BY <3>1 DEF PlaceBidSealed
    <3> HIDE DEF e
    <3> QED
      BY <3>4, <3>5, <3>6, <3>7, MuteEntryKeepsSecrecy
  <2> QED
    BY <2>1, <2>2
<1>4. ASSUME CloseNoBid, CloseCode = "OK" PROVE SealedSecrecy'
  <2> DEFINE e == Entry("AUCTION_NO_BID", seq + 1, NoUser, 0, 0, 0, NoScores)
  <2>1. "AUCTION_NO_BID" \in EventTypes
    BY DEF EventTypes, TerminalTypes
  <2>2. e \in Event
    BY <1>0, <2>1, EntryIsEvent
  <2>3. e.amount = 0 /\ e.bids = NoScores
    BY DEF Entry
  <2>4. status = "LIVE"
    BY <1>4, CloseAdmits
  <2>5. /\ Emit(e) /\ status' = "NO_BID" /\ rules' = rules /\ price' = price
        /\ winner' = winner /\ leaderboard' = leaderboard
    BY <1>4 DEF CloseNoBid
  <2> HIDE DEF e
  <2> QED
    BY <2>2, <2>3, <2>4, <2>5, MuteEntryKeepsSecrecy
<1>5. CASE CloseAuctionDetailed
  <2>1. CloseCode = "OK"
    BY <1>5 DEF CloseAuctionDetailed, CloseAuction, CloseAuctionSealed, CloseAuctionAllPay
  <2>2. CASE CloseNoBid
    BY <1>4, <2>1, <2>2
  <2>3. CASE ~CloseNoBid
    BY <1>5, <2>3 DEF CloseAuctionDetailed, CloseAuction, CloseAuctionSealed,
                      CloseAuctionAllPay, RevealAndSell, SealedSecrecy
  <2> QED
    BY <2>2, <2>3
<1>6. ASSUME NEW c \in Users, CancelAuction(c) PROVE SealedSecrecy'
  <2> DEFINE e == Entry("AUCTION_CANCELLED", seq + 1, NoUser, 0, 0, 0, NoScores)
  <2>1. "AUCTION_CANCELLED" \in EventTypes
    BY DEF EventTypes, TerminalTypes
  <2>2. e \in Event
    BY <1>0, <2>1, EntryIsEvent
  <2>3. e.amount = 0 /\ e.bids = NoScores
    BY DEF Entry
  <2>4. status # "NONE" /\ status # "SOLD"
    BY <1>6 DEF CancelAuction, CancelCode, Terminal
  <2>5. /\ Emit(e) /\ status' = "CANCELLED" /\ rules' = rules /\ price' = price
        /\ winner' = winner /\ leaderboard' = leaderboard
    BY <1>6 DEF CancelAuction
  <2> HIDE DEF e
  <2> QED
    BY <2>2, <2>3, <2>4, <2>5, MuteEntryKeepsSecrecy
<1>7. CASE Tick
  BY <1>0, <1>7 DEF SealedSecrecy, Tick, hash
<1>8. CASE UNCHANGED vars
  BY <1>0, <1>8 DEF SealedSecrecy, vars, hash
<1> QED
  BY <1>1, <1>2, <1>3, <1>5, <1>6, <1>7, <1>8 DEF Next

\* No public key or event of a sealed auction depends on a bid amount before
\* the reveal, and never after a cancel.
THEOREM SealedBidsStaySecret == Spec => []SealedSecrecy
<1>1. Init => SealedSecrecy
  BY DEF Init, SealedSecrecy
<1>2. CoreInv /\ SealedSecrecy /\ [Next]_vars => SealedSecrecy'
  BY NextSecrecy
<1> QED
  BY <1>1, <1>2, CoreInvariant, PTL DEF Spec

-----------------------------------------------------------------------------
(***************************************************************************)
(* The shapes of a step.  Bids and extensions enter the Stream through the *)
(* ascending bid scripts only; every other script appends entries of other *)
(* types, and leaves the price, the leader and the acks of an ascending    *)
(* auction alone.                                                          *)
(***************************************************************************)

\* What an ascending script does after one of its three accepting answers.
AscendingBid(u, r, a, su, sa) ==
  \/ BidAccepted(u, r, a, su, sa)
  \/ BidExtended(u, r, a, su, sa)
  \/ BidSold(u, r, a)

\* The step keeps the log and appends k entries of the types T.
Appends(k, T) ==
  /\ Len(stream') = Len(stream) + k
  /\ \A i \in 1 .. Len(stream) : stream'[i] = stream[i]
  /\ \A i \in Len(stream) + 1 .. Len(stream) + k : stream'[i].type \in T

OtherTypes == EventTypes \ {"BID_ACCEPTED", "AUCTION_EXTENDED"}

\* What a hammer may write.
ClosingTypes == TerminalTypes \cup {"AUCTION_REVEALED", "ALL_PAY_FORFEIT"}

\* A sealed bid is accepted.
SealedBid ==
  rules.mode \in Sealed /\ \E u \in Users, r \in Reqs, a \in BidAmounts : PlaceBidSealed(u, r, a)

\* Nobody's ascending bid is involved.
Aside(k) ==
  /\ Appends(k, OtherTypes)
  /\ rules' = rules /\ endAt' = endAt /\ extendCount' = extendCount
  /\ status' = status \/ (status # "NONE" /\ status' \in Terminal)
  /\ UNCHANGED ackVars \/ SealedBid
  /\ rules.mode \in Ascending => UNCHANGED <<price, winner, leaderboard, sealed>>

\* Typed facts every step lemma starts from.
LEMMA CoreTypes ==
  ASSUME TypeOK
  PROVE  /\ stream \in Seq(Event) /\ Len(stream) \in Nat /\ seq \in Nat
         /\ endAt \in Nat /\ now \in Nat /\ price \in Nat /\ extendCount \in Nat
         /\ rules \in RuleRecord
         /\ rules.startPrice \in Nat /\ rules.increment \in Nat /\ rules.cap \in Nat
         /\ rules.extendWindow \in Nat /\ rules.extendSec \in Nat
         /\ rules.maxExtensions \in Nat
         /\ leaderboard \in [Users -> Nat] /\ sealed \in [Users -> Nat]
         /\ NoScores \in [Users -> Nat]
         /\ seq + 1 \in Nat /\ seq + 2 \in Nat /\ seq + 3 \in Nat
         /\ extendCount + 1 \in Nat /\ endAt + rules.extendSec \in Nat
<1>1. /\ stream \in Seq(Event) /\ seq \in Nat /\ endAt \in Nat /\ now \in Nat
      /\ price \in Nat /\ extendCount \in Nat /\ rules \in RuleRecord
      /\ leaderboard \in [Users -> Nat] /\ sealed \in [Users -> Nat]
  BY DEF TypeOK
<1> QED
  BY <1>1 DEF RuleRecord, NoScores

\* The one entry of an accepted bid.
LEMMA AcceptedAppends ==
  ASSUME TypeOK, NEW u \in Users, NEW r \in Reqs, NEW a \in Nat,
         NEW su \in Users \cup {NoUser}, NEW sa \in Nat,
         BidAccepted(u, r, a, su, sa)
  PROVE  Grows(1) /\ stream'[Len(stream) + 1] = BidEvent(su, sa, endAt)
<1>1. endAt \in Nat /\ BidEvent(su, sa, endAt) \in Event
  BY CoreTypes, BidEventIsEvent
<1>2. BidEvent(su, sa, endAt).seq = seq + 1 /\ Emit(BidEvent(su, sa, endAt))
  BY DEF BidEvent, Entry, BidAccepted
<1> QED
  BY <1>1, <1>2, EmitGrows

ExtensionEvent(end) ==
  Entry("AUCTION_EXTENDED", seq + 2, NoUser, 0, end, extendCount + 1, NoScores)

\* The two entries of a bid that extends.
LEMMA ExtendedAppends ==
  ASSUME TypeOK, NEW u \in Users, NEW r \in Reqs, NEW a \in Nat,
         NEW su \in Users \cup {NoUser}, NEW sa \in Nat,
         BidExtended(u, r, a, su, sa)
  PROVE  /\ Grows(2)
         /\ stream'[Len(stream) + 1] = BidEvent(su, sa, endAt + rules.extendSec)
         /\ stream'[Len(stream) + 2] = ExtensionEvent(endAt + rules.extendSec)
<1> DEFINE end == endAt + rules.extendSec
<1>1. end \in Nat /\ extendCount + 1 \in Nat /\ seq + 2 \in Nat /\ NoScores \in [Users -> Nat]
  BY CoreTypes
<1>2. Emit2(BidEvent(su, sa, end), ExtensionEvent(end))
  BY DEF BidExtended, ExtensionEvent
<1> HIDE DEF end
<1>3. BidEvent(su, sa, end) \in Event
  BY <1>1, BidEventIsEvent
<1>4. ExtensionEvent(end) \in Event
  <2>1. "AUCTION_EXTENDED" \in EventTypes
    BY DEF EventTypes
  <2> QED
    BY <1>1, <2>1, EntryIsEvent DEF ExtensionEvent
<1>5. BidEvent(su, sa, end).seq = seq + 1 /\ ExtensionEvent(end).seq = seq + 2
  BY DEF BidEvent, ExtensionEvent, Entry
<1>6. /\ Grows(2)
      /\ stream'[Len(stream) + 1] = BidEvent(su, sa, end)
      /\ stream'[Len(stream) + 2] = ExtensionEvent(end)
  BY <1>2, <1>3, <1>4, <1>5, Emit2Grows
<1> QED
  BY <1>6 DEF end

SaleEvent(u, a) == Entry("AUCTION_SOLD", seq + 2, u, a, 0, 0, NoScores)

\* The two entries of a cap hit.
LEMMA SoldAppends ==
  ASSUME TypeOK, NEW u \in Users, NEW r \in Reqs, NEW a \in Nat, BidSold(u, r, a)
  PROVE  /\ Grows(2)
         /\ stream'[Len(stream) + 1] = BidEvent(u, a, endAt)
         /\ stream'[Len(stream) + 2] = SaleEvent(u, a)
<1>1. endAt \in Nat /\ seq + 2 \in Nat /\ NoScores \in [Users -> Nat]
  BY CoreTypes
<1>2. BidEvent(u, a, endAt) \in Event
  BY <1>1, BidEventIsEvent
<1>3. SaleEvent(u, a) \in Event
  <2>1. "AUCTION_SOLD" \in EventTypes
    BY DEF EventTypes, TerminalTypes
  <2> QED
    BY <1>1, <2>1, EntryIsEvent DEF SaleEvent
<1>4. BidEvent(u, a, endAt).seq = seq + 1 /\ SaleEvent(u, a).seq = seq + 2
  BY DEF BidEvent, SaleEvent, Entry
<1>5. Emit2(BidEvent(u, a, endAt), SaleEvent(u, a))
  BY DEF BidSold, SaleEvent
<1> QED
  BY <1>2, <1>3, <1>4, <1>5, Emit2Grows

\* One entry without an end and a bid list.
LEMMA EmitAside ==
  ASSUME TypeOK, NEW type \in EventTypes, NEW u \in Users \cup {NoUser},
         NEW a \in Nat, NEW n \in Nat,
         Emit(Entry(type, seq + 1, u, a, 0, n, NoScores)), NEW T, type \in T
  PROVE  Appends(1, T)
<1> DEFINE e == Entry(type, seq + 1, u, a, 0, n, NoScores)
<1>1. seq + 1 \in Nat /\ NoScores \in [Users -> Nat]
  BY CoreTypes
<1>2. e \in Event
  BY <1>1, EntryIsEvent
<1>3. e.seq = seq + 1 /\ e.type = type /\ Emit(e)
  BY DEF Entry
<1> HIDE DEF e
<1>4. Grows(1) /\ stream'[Len(stream) + 1] = e
  BY <1>2, <1>3, EmitGrows
<1>5. \A i \in Len(stream) + 1 .. Len(stream) + 1 : i = Len(stream) + 1
  BY CoreTypes
<1> QED
  BY <1>3, <1>4, <1>5 DEF Grows, Appends

\* The hammer of every mode.
LEMMA CloseAside ==
  ASSUME TypeOK, CloseAuctionDetailed
  PROVE  \E k \in Nat : Aside(k) /\ Appends(k, ClosingTypes)
<1>1. /\ rules' = rules /\ endAt' = endAt /\ extendCount' = extendCount
      /\ status # "NONE" /\ status' \in Terminal /\ UNCHANGED ackVars
  <2>1. status = "LIVE"
    BY CloseAdmits DEF CloseAuctionDetailed, CloseAuction, CloseAuctionSealed, CloseAuctionAllPay
  <2> QED
    BY <2>1 DEF CloseAuctionDetailed, CloseAuction, CloseAuctionSealed, CloseAuctionAllPay,
         CloseNoBid, RevealAndSell, Terminal, ackVars
<1>2. rules.mode \in Ascending => UNCHANGED <<price, winner, leaderboard, sealed>>
  BY DEF CloseAuctionDetailed, CloseAuction, CloseNoBid, Ascending
<1>3. {"AUCTION_SOLD", "AUCTION_NO_BID", "AUCTION_REVEALED", "ALL_PAY_FORFEIT"}
        \subseteq ClosingTypes \cap EventTypes
  BY DEF ClosingTypes, EventTypes, TerminalTypes
<1>3a. ASSUME NEW k \in Nat, Appends(k, ClosingTypes) PROVE Aside(k)
  <2>1. ClosingTypes \subseteq OtherTypes
    BY DEF ClosingTypes, OtherTypes, EventTypes, TerminalTypes
  <2>2. Appends(k, OtherTypes)
    BY <1>3a, <2>1 DEF Appends
  <2> QED
    BY <1>1, <1>2, <2>2 DEF Aside
<1>4. CASE CloseNoBid
  <2>1. Appends(1, ClosingTypes)
    BY <1>3, <1>4, EmitAside DEF CloseNoBid
  <2> QED
    BY <1>3a, <2>1
<1>5. CASE ~CloseNoBid /\ CloseAuction
  <2>1. winner \in Users \cup {NoUser} /\ price \in Nat
    BY DEF TypeOK
  <2>2. Appends(1, ClosingTypes)
    BY <1>3, <1>5, <2>1, EmitAside DEF CloseAuction
  <2> QED
    BY <1>3a, <2>2
<1>6. CASE ~CloseNoBid /\ (CloseAuctionSealed \/ CloseAuctionAllPay)
  <2> DEFINE second == Top(Others(sealed))
             sold(k, q) == Entry("AUCTION_SOLD", k, Top(sealed), q, 0, 0, NoScores)
             forfeit == Entry("ALL_PAY_FORFEIT", seq + 2, second, sealed[second], 0, 0, NoScores)
  <2>0. sealed \in [Users -> Nat] /\ seq + 2 \in Nat /\ seq + 3 \in Nat /\ Len(stream) \in Nat
    BY CoreTypes
  <2>1. HasBid(sealed)
    BY <1>6 DEF CloseAuctionSealed, CloseAuctionAllPay
  <2>2. PICK p \in Nat :
          \/ Emit2(RevealedEvent(p), sold(seq + 2, p))
          \/ HasBid(Others(sealed)) /\ Emit3(RevealedEvent(p), forfeit, sold(seq + 3, p))
    <3>1. sealed[Top(sealed)] \in Nat /\ SecondPrice(sealed) \in Nat
      BY <2>0, <2>1, OthersType, SecondPriceType
    <3> QED
      BY <1>6, <3>1 DEF CloseAuctionSealed, CloseAuctionAllPay
  <2>3. HasBid(Others(sealed)) => second \in Users
    BY <2>0, OthersType, TopIsBest
  <2> HIDE DEF second
  <2>4. /\ RevealedEvent(p) \in Event
        /\ sold(seq + 2, p) \in Event /\ sold(seq + 3, p) \in Event
        /\ HasBid(Others(sealed)) => forfeit \in Event
    BY <2>0, <2>1, <2>3, RevealEntries
  <2>5. /\ RevealedEvent(p).seq = seq + 1 /\ RevealedEvent(p).type = "AUCTION_REVEALED"
        /\ sold(seq + 2, p).seq = seq + 2 /\ sold(seq + 2, p).type = "AUCTION_SOLD"
        /\ sold(seq + 3, p).seq = seq + 3 /\ sold(seq + 3, p).type = "AUCTION_SOLD"
        /\ forfeit.seq = seq + 2 /\ forfeit.type = "ALL_PAY_FORFEIT"
    BY DEF RevealedEvent, Entry
  <2> HIDE DEF sold, forfeit
  <2>6. CASE Emit2(RevealedEvent(p), sold(seq + 2, p))
    <3>1. /\ Grows(2) /\ stream'[Len(stream) + 1] = RevealedEvent(p)
          /\ stream'[Len(stream) + 2] = sold(seq + 2, p)
      BY <2>4, <2>5, <2>6, Emit2Grows
    <3>2. \A i \in Len(stream) + 1 .. Len(stream) + 2 :
            i = Len(stream) + 1 \/ i = Len(stream) + 2
      BY <2>0
    <3>3. Appends(2, ClosingTypes)
      BY <1>3, <2>5, <3>1, <3>2 DEF Grows, Appends
    <3> QED
      BY <1>3a, <3>3
  <2>7. CASE HasBid(Others(sealed)) /\ Emit3(RevealedEvent(p), forfeit, sold(seq + 3, p))
    <3>1. /\ Grows(3) /\ stream'[Len(stream) + 1] = RevealedEvent(p)
          /\ stream'[Len(stream) + 2] = forfeit
          /\ stream'[Len(stream) + 3] = sold(seq + 3, p)
      BY <2>4, <2>5, <2>7, Emit3Grows
    <3>2. \A i \in Len(stream) + 1 .. Len(stream) + 3 :
            i = Len(stream) + 1 \/ i = Len(stream) + 2 \/ i = Len(stream) + 3
      BY <2>0
    <3>3. Appends(3, ClosingTypes)
      BY <1>3, <2>5, <3>1, <3>2 DEF Grows, Appends
    <3> QED
      BY <1>3a, <3>3
  <2> QED
    BY <2>2, <2>6, <2>7
<1> QED
  BY <1>4, <1>5, <1>6 DEF CloseAuctionDetailed

\* Every step but an ascending bid stands aside of the bids or comes before
\* the first of them.
LEMMA StepShape ==
  ASSUME CoreInv, [Next]_vars
  PROVE  \/ /\ stream = <<>> /\ stream' = <<>>
            /\ \/ \E r \in RuleSet : FreezeRules(r)
               \/ \E d \in Durations : StartAuction(d)
         \/ /\ rules.mode \in Ascending
            /\ \E u \in Users, r \in Reqs, a \in BidAmounts :
                 \/ rules.mode \in Plain /\ AscendingBid(u, r, a, u, a)
                 \/ rules.mode = "HYBRID_REVEAL" /\ AscendingBid(u, r, a, winner, price)
         \/ \E k \in Nat : Aside(k)
<1>0. TypeOK /\ Len(stream) \in Nat /\ NoScores \in [Users -> Nat]
  <2>1. TypeOK
    BY DEF CoreInv
  <2> QED
    BY <2>1, CoreTypes
<1>1. ASSUME UNCHANGED <<status, rules, endAt, extendCount, price, winner, leaderboard, sealed,
                         ackVars, stream>>
      PROVE  Aside(0)
  BY <1>0, <1>1 DEF Aside, Appends
<1>2. ASSUME NEW r \in RuleSet, FreezeRules(r) PROVE stream = <<>> /\ stream' = <<>>
  BY <1>2 DEF CoreInv, Pristine, FreezeRules
<1>3. ASSUME NEW d \in Durations, StartAuction(d) PROVE stream = <<>> /\ stream' = <<>>
  BY <1>3 DEF CoreInv, Pristine, StartAuction
<1>4. ASSUME NEW u \in Users, NEW r \in Reqs, NEW a \in BidAmounts, Bid(u, r, a)
      PROVE  \/ /\ rules.mode \in Ascending
                /\ \/ rules.mode \in Plain /\ AscendingBid(u, r, a, u, a)
                   \/ rules.mode = "HYBRID_REVEAL" /\ AscendingBid(u, r, a, winner, price)
             \/ Aside(1)
  <2>1. CASE rules.mode \in Plain \/ rules.mode = "HYBRID_REVEAL"
    <3>1. rules.mode \notin Sealed
      BY <2>1 DEF Plain, Sealed
    <3> QED
      BY <1>4, <2>1, <3>1 DEF Bid, PlaceBid, PlaceBidHybrid, AscendingBid, Plain, Ascending
  <2>2. CASE rules.mode \in Sealed /\ PlaceBidSealed(u, r, a)
    <3>1. "SEALED_BID_RECEIVED" \in OtherTypes \cap EventTypes
      BY DEF OtherTypes, EventTypes, BidTypes
    <3>2. SealedCount(u) \in Nat
      BY UsersAssumption, FS_Subset, FS_CardinalityType DEF SealedCount
    <3>3. Emit(Entry("SEALED_BID_RECEIVED", seq + 1, u, 0, 0, SealedCount(u), NoScores))
      BY <2>2 DEF PlaceBidSealed
    <3>4. Appends(1, OtherTypes)
      BY <1>0, <3>1, <3>2, <3>3, EmitAside
    <3>5. rules.mode \notin Ascending
      BY <2>2 DEF Sealed, Ascending
    <3> QED
      BY <2>2, <3>4, <3>5 DEF Aside, SealedBid, PlaceBidSealed
  <2> QED
    BY <1>4, <2>1, <2>2 DEF Bid
<1>5. ASSUME NEW c \in Users, CancelAuction(c) PROVE Aside(1)
  <2>1. "AUCTION_CANCELLED" \in OtherTypes \cap EventTypes
    BY DEF OtherTypes, EventTypes, TerminalTypes
  <2>2. Appends(1, OtherTypes)
    BY <1>0, <1>5, <2>1, EmitAside DEF CancelAuction
  <2> QED
    BY <1>5, <2>2 DEF Aside, CancelAuction, CancelCode, ackVars, Terminal
<1>6. CASE Tick
  BY <1>1, <1>6 DEF Tick, hash, ackVars
<1>7. CASE UNCHANGED vars
  BY <1>1, <1>7 DEF vars, hash, ackVars
<1>8. CASE CloseAuctionDetailed
  BY <1>8, CloseAside DEF CoreInv
<1> QED
  BY <1>2, <1>3, <1>4, <1>5, <1>6, <1>7, <1>8 DEF Next

-----------------------------------------------------------------------------
(***************************************************************************)
(* Prices.                                                                 *)
(***************************************************************************)

\* The Hash holds rules that passed Rules.Validate.
RulesAreValid == status # "NONE" => Validate(rules)

\* An ascending auction that is not over has not reached its cap.
RoomToRaise ==
  rules.mode \in Ascending /\ status \in {"SCHEDULED", "LIVE"} =>
    price <= MaxMoney /\ (rules.cap > 0 => price < rules.cap)

\* The leader of an ascending auction is the public leaderboard's best, at the
\* current price, and the room has been shown no higher amount.
LeaderHoldsPrice ==
  rules.mode \in Ascending =>
    /\ sealed = NoScores
    /\ \A u \in Users : leaderboard[u] <= price
    /\ winner = NoUser => leaderboard = NoScores
    /\ winner # NoUser => price > 0 /\ leaderboard[winner] = price
    /\ \A i \in 1 .. Len(stream) :
         stream[i].type = "BID_ACCEPTED" => stream[i].amount <= price

\* Only a sealed auction holds sealed bids, none below the reserve.
ReserveMet ==
  \A u \in Users : sealed[u] > 0 =>
    rules.mode \in Sealed /\ rules.startPrice <= sealed[u] /\ sealed[u] <= MaxMoney

MoneyInv ==
  RulesAreValid /\ RoomToRaise /\ LeaderHoldsPrice /\ ReserveMet

\* What an accepted ascending bid does to price, leader and leaderboard: the
\* amount beats the price, by the increment unless it lands on the cap.
LEMMA AscendingRaises ==
  ASSUME CoreInv, MoneyInv, rules.mode \in Ascending,
         NEW u \in Users, NEW r \in Reqs, NEW a \in Nat,
         NEW su \in Users \cup {NoUser}, NEW sa \in Nat, AscendingBid(u, r, a, su, sa)
  PROVE  /\ status = "LIVE" /\ u # Seller /\ rules' = rules
         /\ price < a /\ a <= MaxMoney /\ (rules.cap > 0 => a <= rules.cap)
         /\ a >= price + rules.increment \/ (rules.cap > 0 /\ a = rules.cap)
         /\ price' = a /\ winner' = u /\ sealed' = sealed
         /\ leaderboard' = [leaderboard EXCEPT ![u] = a]
         /\ status' = "LIVE" => ~CapHit(a)
         /\ status' \in {"LIVE", "SOLD"}
<1>0. TypeOK
  BY DEF CoreInv
<1>1. /\ price \in Nat /\ rules.cap \in Nat /\ rules.increment \in Nat
      /\ leaderboard \in [Users -> Nat]
  BY <1>0, CoreTypes
<1>2. AscendingCode(u, r, a) \in {"OK_ACCEPTED", "OK_EXTENDED", "OK_SOLD"}
  BY DEF AscendingBid, BidAccepted, BidExtended, BidSold
<1>3. /\ status = "LIVE" /\ u # Seller /\ InRange(a, Required)
      /\ AscendingCode(u, r, a) = "OK_SOLD" <=> CapHit(a)
  BY <1>2, AscendingAdmits
<1>4. rules.increment > 0 /\ (rules.cap > 0 => price < rules.cap)
  BY <1>3 DEF MoneyInv, RulesAreValid, RoomToRaise, Validate
<1>5. \E end \in Nat, st \in {"LIVE", "SOLD"} : AcceptBid(u, r, a, end, st)
  BY <1>0, CoreTypes DEF AscendingBid, BidAccepted, BidExtended, BidSold
<1>6. /\ price' = a /\ winner' = u /\ sealed' = sealed /\ rules' = rules
      /\ leaderboard' = Raise(leaderboard, u, a)
  BY <1>5 DEF AcceptBid
<1>7. /\ price < a /\ a <= MaxMoney /\ (rules.cap > 0 => a <= rules.cap)
      /\ a >= price + rules.increment \/ (rules.cap > 0 /\ a = rules.cap)
  BY <1>1, <1>3, <1>4, BoundsAssumption DEF InRange, Required
<1>8. leaderboard[u] < a
  <2>1. leaderboard[u] \in Nat /\ leaderboard[u] <= price
    BY <1>1 DEF MoneyInv, LeaderHoldsPrice
  <2> QED
    BY <1>1, <1>7, <2>1
<1>9. /\ status' = "LIVE" => ~CapHit(a)
      /\ status' \in {"LIVE", "SOLD"}
  BY <1>3 DEF AscendingBid, BidAccepted, BidExtended, BidSold
<1> QED
  BY <1>3, <1>6, <1>7, <1>8, <1>9 DEF Raise

\* What the entry of a bid says.
LEMMA BidEventSays ==
  ASSUME NEW su, NEW sa, NEW end
  PROVE  LET e == BidEvent(su, sa, end) IN
         /\ e.type = "BID_ACCEPTED" /\ e.user = su /\ e.amount = sa
         /\ e.endAt = end /\ e.at = now
  BY DEF BidEvent, Entry

\* The entries an accepted ascending bid appends; a cap hit is announced with
\* its true bidder and amount, and at once.
LEMMA AscendingAppends ==
  ASSUME CoreInv, NEW u \in Users, NEW r \in Reqs, NEW a \in Nat,
         NEW su \in Users \cup {NoUser}, NEW sa \in Nat, AscendingBid(u, r, a, su, sa)
  PROVE  /\ Grows(1) \/ Grows(2)
         /\ stream'[Len(stream) + 1].type = "BID_ACCEPTED"
         /\ stream'[Len(stream) + 1].at = now
         /\ \/ /\ BidSold(u, r, a)
               /\ stream'[Len(stream) + 1].user = u
               /\ stream'[Len(stream) + 1].amount = a
            \/ /\ status' = status
               /\ stream'[Len(stream) + 1].user = su
               /\ stream'[Len(stream) + 1].amount = sa
         /\ Grows(2) =>
              \/ BidExtended(u, r, a, su, sa)
                 /\ stream'[Len(stream) + 2].type = "AUCTION_EXTENDED"
              \/ BidSold(u, r, a) /\ stream'[Len(stream) + 2].type = "AUCTION_SOLD"
<1>0. Len(stream) \in Nat
  BY CoreTypes DEF CoreInv
<1>1. CASE BidAccepted(u, r, a, su, sa)
  <2>1. Grows(1) /\ stream'[Len(stream) + 1] = BidEvent(su, sa, endAt)
    BY <1>1, AcceptedAppends DEF CoreInv
  <2>2. ~Grows(2)
    BY <1>0, <2>1 DEF Grows
  <2> QED
    BY <1>1, <2>1, <2>2, BidEventSays DEF BidAccepted
<1>2. CASE BidExtended(u, r, a, su, sa)
  <2>1. /\ Grows(2)
        /\ stream'[Len(stream) + 1] = BidEvent(su, sa, endAt + rules.extendSec)
        /\ stream'[Len(stream) + 2] = ExtensionEvent(endAt + rules.extendSec)
    BY <1>2, ExtendedAppends DEF CoreInv
  <2>2. ExtensionEvent(endAt + rules.extendSec).type = "AUCTION_EXTENDED"
    BY DEF ExtensionEvent, Entry
  <2> QED
    BY <1>2, <2>1, <2>2, BidEventSays DEF BidExtended
<1>3. CASE BidSold(u, r, a)
  <2>1. /\ Grows(2) /\ stream'[Len(stream) + 1] = BidEvent(u, a, endAt)
        /\ stream'[Len(stream) + 2] = SaleEvent(u, a)
    BY <1>3, SoldAppends DEF CoreInv
  <2>2. SaleEvent(u, a).type = "AUCTION_SOLD"
    BY DEF SaleEvent, Entry
  <2> QED
    BY <1>3, <2>1, <2>2, BidEventSays
<1> QED
  BY <1>1, <1>2, <1>3 DEF AscendingBid

\* The amount the room is shown.
LEMMA AscendingAmount ==
  ASSUME CoreInv, NEW u \in Users, NEW r \in Reqs, NEW a \in Nat,
         NEW su \in Users \cup {NoUser}, NEW sa \in Nat, AscendingBid(u, r, a, su, sa)
  PROVE  stream'[Len(stream) + 1].amount \in {a, sa}
  BY AscendingAppends

\* Where an index into the Stream after the step points.
LEMMA OldOrNew ==
  ASSUME CoreInv, NEW k \in Nat, Len(stream') = Len(stream) + k, NEW i \in 1 .. Len(stream')
  PROVE  i \in Nat /\ (i \in 1 .. Len(stream) \/ i \in Len(stream) + 1 .. Len(stream) + k)
  BY CoreTypes DEF CoreInv

\* MoneyInv is inductive relative to CoreInv.
LEMMA NextMoney == CoreInv /\ MoneyInv /\ [Next]_vars => MoneyInv'
<1> SUFFICES ASSUME CoreInv, MoneyInv, [Next]_vars PROVE MoneyInv'
  OBVIOUS
<1>0. /\ TypeOK /\ Len(stream) \in Nat /\ price \in Nat /\ sealed \in [Users -> Nat]
      /\ NoScores \in [Users -> Nat] /\ \A u \in Users : NoScores[u] = 0
  BY CoreTypes DEF CoreInv, NoScores
<1>1. RulesAreValid'
  <2>1. CASE \E r \in RuleSet : FreezeRules(r)
    BY <2>1, RulesAssumption DEF FreezeRules, RulesAreValid, Validate
  <2>2. CASE \E d \in Durations : StartAuction(d)
    BY <2>2 DEF StartAuction, MoneyInv, RulesAreValid, Validate
  <2>3. CASE \E u \in Users, r \in Reqs, a \in BidAmounts : \E su, sa : AscendingBid(u, r, a, su, sa)
    <3>1. status = "LIVE" /\ rules' = rules
      BY <2>3, AscendingAdmits DEF AscendingBid, BidAccepted, BidExtended, BidSold, AcceptBid
    <3> QED
      BY <3>1 DEF MoneyInv, RulesAreValid, Validate
  <2>4. CASE \E k \in Nat : Aside(k)
    BY <2>4 DEF Aside, MoneyInv, RulesAreValid, Validate
  <2> QED
    BY <2>1, <2>2, <2>3, <2>4, StepShape
<1>2. ReserveMet'
  <2>1. CASE sealed' = NoScores
    BY <1>0, <2>1 DEF ReserveMet
  <2>2. CASE rules' = rules /\ sealed' = sealed
    BY <2>2 DEF ReserveMet, MoneyInv
  <2>3. ASSUME NEW u \in Users, NEW r \in Reqs, NEW a \in BidAmounts,
               rules.mode \in Sealed, PlaceBidSealed(u, r, a)
        PROVE  ReserveMet'
    <3>1. rules' = rules /\ sealed' = Raise(sealed, u, a) /\ InRange(a, rules.startPrice)
      BY <2>3, SealedAdmits DEF PlaceBidSealed
    <3>2. ASSUME NEW v \in Users, sealed'[v] > 0
          PROVE  rules.startPrice <= sealed'[v] /\ sealed'[v] <= MaxMoney
      <4>1. sealed'[v] \in {sealed[v], a}
        BY <1>0, <3>1 DEF Raise
      <4> QED
        BY <3>1, <3>2, <4>1 DEF InRange, MoneyInv, ReserveMet
    <3> QED
      BY <2>3, <3>1, <3>2 DEF ReserveMet
  <2>4. sealed' = NoScores \/ (rules' = rules /\ sealed' = sealed) \/
        \E u \in Users, r \in Reqs, a \in BidAmounts :
          rules.mode \in Sealed /\ PlaceBidSealed(u, r, a)
    <3>1. CASE \E r \in RuleSet : FreezeRules(r)
      BY <3>1 DEF FreezeRules, CoreInv, Pristine
    <3>2. CASE \E d \in Durations : StartAuction(d)
      BY <3>2 DEF StartAuction
    <3>3. CASE \E u \in Users, r \in Reqs, a \in BidAmounts : Bid(u, r, a)
      BY <3>3 DEF Bid, PlaceBid, PlaceBidHybrid, BidAccepted, BidExtended, BidSold, AcceptBid
    <3>4. CASE CloseAuctionDetailed
      BY <3>4 DEF CloseAuctionDetailed, CloseAuction, CloseAuctionSealed, CloseAuctionAllPay,
                  CloseNoBid, RevealAndSell
    <3>5. CASE \E c \in Users : CancelAuction(c)
      BY <3>5 DEF CancelAuction
    <3>6. CASE Tick
      BY <3>6 DEF Tick, hash
    <3>7. CASE UNCHANGED vars
      BY <3>7 DEF vars, hash
    <3> QED
      BY <3>1, <3>2, <3>3, <3>4, <3>5, <3>6, <3>7 DEF Next
  <2> QED
    BY <2>1, <2>2, <2>3, <2>4
<1>3. RoomToRaise' /\ LeaderHoldsPrice'
  <2>1. ASSUME NEW r \in RuleSet, FreezeRules(r), stream' = <<>>
        PROVE  RoomToRaise' /\ LeaderHoldsPrice'
    <3>1. r \in RuleRecord /\ Validate(r) /\ r.startPrice \in Nat /\ r.cap \in Nat
      BY RulesAssumption DEF RuleRecord
    <3>2. /\ price' = r.startPrice /\ rules' = r /\ winner' = NoUser
          /\ leaderboard' = NoScores /\ sealed' = NoScores
      BY <2>1 DEF FreezeRules, CoreInv, Pristine
    <3>3. RoomToRaise'
      BY <3>1, <3>2 DEF RoomToRaise, Validate
    <3>4. Len(stream') = 0 /\ 1 .. 0 = {}
      BY <2>1
    <3>5. LeaderHoldsPrice'
      BY <1>0, <3>1, <3>2, <3>4 DEF LeaderHoldsPrice
    <3> QED
      BY <3>3, <3>5
  <2>2. ASSUME NEW d \in Durations, StartAuction(d), stream' = <<>>
        PROVE  RoomToRaise' /\ LeaderHoldsPrice'
    <3>1. /\ rules' = rules /\ price' = price /\ winner' = winner
          /\ leaderboard' = leaderboard /\ sealed' = sealed /\ stream' = stream
          /\ status = "SCHEDULED"
      BY <2>2 DEF StartAuction
    <3> QED
      BY <3>1 DEF MoneyInv, RoomToRaise, LeaderHoldsPrice
  <2>3. ASSUME rules.mode \in Ascending, NEW u \in Users, NEW r \in Reqs, NEW a \in BidAmounts,
               NEW su \in Users \cup {NoUser}, NEW sa \in Nat, AscendingBid(u, r, a, su, sa),
               sa = a \/ sa = price
        PROVE  RoomToRaise' /\ LeaderHoldsPrice'
    <3>0. a \in Nat /\ rules.cap \in Nat /\ leaderboard \in [Users -> Nat]
      BY <1>0, CoreTypes, BoundsAssumption
    <3>1. /\ rules' = rules /\ price < a /\ a <= MaxMoney
          /\ rules.cap > 0 => a <= rules.cap
          /\ price' = a /\ winner' = u /\ sealed' = sealed
          /\ leaderboard' = [leaderboard EXCEPT ![u] = a]
          /\ status' = "LIVE" => ~CapHit(a)
          /\ status' \in {"LIVE", "SOLD"}
      BY <2>3, <3>0, AscendingRaises
    <3>2. RoomToRaise'
      BY <3>0, <3>1 DEF RoomToRaise, CapHit
    <3>3. \A v \in Users : leaderboard'[v] <= price'
      <4> SUFFICES ASSUME NEW v \in Users PROVE leaderboard'[v] <= a
        BY <3>1
      <4>1. leaderboard[v] \in Nat /\ leaderboard[v] <= price
        BY <2>3, <3>0 DEF MoneyInv, LeaderHoldsPrice
      <4> QED
        BY <1>0, <3>0, <3>1, <4>1
    <3>4. winner' # NoUser /\ price' > 0 /\ leaderboard'[winner'] = price'
      BY <1>0, <3>0, <3>1, UsersAssumption DEF NoUser
    <3>5. stream'[Len(stream) + 1].amount \in {a, sa}
      BY <2>3, <3>0, AscendingAmount
    <3>6. ASSUME NEW i \in 1 .. Len(stream'), stream'[i].type = "BID_ACCEPTED"
          PROVE  stream'[i].amount <= price'
      <4>1. PICK k \in {1, 2} : Grows(k) /\ (k = 2 => stream'[Len(stream) + 2].type # "BID_ACCEPTED")
        BY <2>3, <3>0, AscendingAppends
      <4>3. CASE i \in 1 .. Len(stream)
        <5>1. stream'[i] = stream[i]
          BY <4>1, <4>3 DEF Grows
        <5>2. stream[i].amount <= price /\ stream[i].amount \in Nat
          <6>1. stream[i] \in Event
            BY <1>0, <4>3 DEF TypeOK
          <6> QED
            BY <2>3, <3>6, <4>3, <5>1, <6>1 DEF MoneyInv, LeaderHoldsPrice, Event
        <5> QED
          BY <1>0, <3>0, <3>1, <5>1, <5>2
      <4>4. CASE i = Len(stream) + 1
        BY <1>0, <2>3, <3>0, <3>1, <3>5, <4>4
      <4>5. i \in 1 .. Len(stream) \/ i = Len(stream) + 1
        BY <1>0, <3>6, <4>1 DEF Grows
      <4> QED
        BY <4>3, <4>4, <4>5
    <3>7. LeaderHoldsPrice'
      BY <2>3, <3>1, <3>3, <3>4, <3>6 DEF LeaderHoldsPrice, MoneyInv
    <3> QED
      BY <3>2, <3>7
  <2>4. ASSUME NEW k \in Nat, Aside(k) PROVE RoomToRaise' /\ LeaderHoldsPrice'
    <3>1. RoomToRaise'
      BY <2>4 DEF Aside, RoomToRaise, MoneyInv, Terminal
    <3>2. ASSUME NEW i \in 1 .. Len(stream'), stream'[i].type = "BID_ACCEPTED"
          PROVE  i \in 1 .. Len(stream) /\ stream'[i] = stream[i]
      <4>1. Len(stream') = Len(stream) + k
        BY <2>4 DEF Aside, Appends
      <4>2. i \in 1 .. Len(stream) \/ i \in Len(stream) + 1 .. Len(stream) + k
        BY <4>1, OldOrNew
      <4> QED
        BY <2>4, <3>2, <4>2 DEF Aside, Appends, OtherTypes
    <3>3. LeaderHoldsPrice'
      BY <2>4, <3>2 DEF Aside, LeaderHoldsPrice, MoneyInv
    <3> QED
      BY <3>1, <3>3
  <2>5. winner \in Users \cup {NoUser}
    BY <1>0 DEF TypeOK
  <2>6. BidAmounts \subseteq Nat
    BY BoundsAssumption
  <2>7. CASE \E r \in RuleSet : FreezeRules(r)
    BY <2>1, <2>7 DEF FreezeRules, CoreInv, Pristine
  <2>8. CASE \E d \in Durations : StartAuction(d)
    BY <2>2, <2>8 DEF StartAuction, CoreInv, Pristine
  <2> QED
    BY <1>0, <2>3, <2>4, <2>5, <2>6, <2>7, <2>8, StepShape
<1> QED
  BY <1>1, <1>2, <1>3 DEF MoneyInv

\* The money invariant holds throughout.
LEMMA MoneyInvariant == Spec => [](CoreInv /\ MoneyInv)
<1>1. Init => MoneyInv
  <2> SUFFICES ASSUME Init PROVE MoneyInv
    OBVIOUS
  <2>1. /\ status = "NONE" /\ price = 0 /\ winner = NoUser /\ rules = NoRules
        /\ leaderboard = NoScores /\ sealed = NoScores /\ Len(stream) = 0
        /\ \A u \in Users : NoScores[u] = 0
    BY DEF Init, NoScores
  <2>2. 1 .. 0 = {}
    OBVIOUS
  <2> QED
    BY <2>1, <2>2 DEF MoneyInv, RulesAreValid, RoomToRaise, LeaderHoldsPrice, ReserveMet
<1>2. Spec => []CoreInv
  BY CoreInvariant
<1> QED
  BY <1>1, <1>2, NextMoney, PTL DEF Spec

\* PriceLadder survives every step: a new amount is measured against the price,
\* which no earlier amount exceeds.
LEMMA NextLadder == CoreInv /\ MoneyInv /\ PriceLadder /\ [Next]_vars => PriceLadder'
<1> SUFFICES ASSUME CoreInv, MoneyInv, PriceLadder, [Next]_vars, (rules.mode \in Plain)',
                    NEW i \in 1 .. Len(stream'), NEW j \in 1 .. Len(stream'), i < j,
                    stream'[i].type = "BID_ACCEPTED", stream'[j].type = "BID_ACCEPTED"
             PROVE  \/ stream'[j].amount >= stream'[i].amount + rules'.increment
                    \/ /\ rules'.cap > 0 /\ stream'[j].amount = rules'.cap
                       /\ stream'[i].amount < rules'.cap
  BY DEF PriceLadder
<1>0. TypeOK /\ Len(stream) \in Nat /\ price \in Nat /\ rules.cap \in Nat /\ rules.increment \in Nat
  BY CoreTypes DEF CoreInv
<1>1. CASE stream' = <<>>
  BY <1>1
<1>2. ASSUME rules.mode \in Ascending, NEW u \in Users, NEW r \in Reqs, NEW a \in BidAmounts,
             \/ rules.mode \in Plain /\ AscendingBid(u, r, a, u, a)
             \/ rules.mode = "HYBRID_REVEAL" /\ AscendingBid(u, r, a, winner, price)
      PROVE  \/ stream'[j].amount >= stream'[i].amount + rules'.increment
             \/ /\ rules'.cap > 0 /\ stream'[j].amount = rules'.cap
                /\ stream'[i].amount < rules'.cap
  <2>0. a \in Nat /\ u \in Users \cup {NoUser}
    BY BoundsAssumption
  <2>1. rules' = rules
    BY <1>2 DEF AscendingBid, BidAccepted, BidExtended, BidSold, AcceptBid
  <2>2. AscendingBid(u, r, a, u, a)
    BY <1>2, <2>1 DEF Plain
  <2>3. /\ price < a /\ (rules.cap > 0 => a <= rules.cap)
        /\ a >= price + rules.increment \/ (rules.cap > 0 /\ a = rules.cap)
    BY <1>2, <2>0, <2>2, AscendingRaises
  <2>4. /\ Grows(1) \/ Grows(2)
        /\ stream'[Len(stream) + 1].amount = a
        /\ Grows(2) => stream'[Len(stream) + 2].type # "BID_ACCEPTED"
    BY <2>0, <2>2, AscendingAppends
  <2>5. i \in 1 .. Len(stream) /\ (j \in 1 .. Len(stream) \/ j = Len(stream) + 1)
    <3>1. ASSUME NEW l \in 1 .. Len(stream'), stream'[l].type = "BID_ACCEPTED"
          PROVE  l \in Nat /\ l <= Len(stream) + 1 /\ (l <= Len(stream) => l \in 1 .. Len(stream))
      <4>1. Len(stream') = Len(stream) + 1 \/ Len(stream') = Len(stream) + 2
        BY <2>4 DEF Grows
      <4>2. CASE Len(stream') = Len(stream) + 1
        BY <1>0, <4>2
      <4>3. CASE Len(stream') = Len(stream) + 2
        <5>1. l # Len(stream) + 2
          BY <1>0, <2>4, <3>1, <4>3 DEF Grows
        <5> QED
          BY <1>0, <4>3, <5>1
      <4> QED
        BY <4>1, <4>2, <4>3
    <3>2. /\ i \in Nat /\ i <= Len(stream) + 1 /\ (i <= Len(stream) => i \in 1 .. Len(stream))
          /\ j \in Nat /\ j <= Len(stream) + 1 /\ (j <= Len(stream) => j \in 1 .. Len(stream))
      BY <3>1
    <3> QED
      BY <1>0, <3>2
  <2>6. stream'[i] = stream[i] /\ (j \in 1 .. Len(stream) => stream'[j] = stream[j])
    BY <2>4, <2>5 DEF Grows
  <2>7. CASE j \in 1 .. Len(stream)
    BY <1>2, <2>1, <2>5, <2>6, <2>7 DEF PriceLadder
  <2>8. CASE j = Len(stream) + 1
    <3>1. stream[i] \in Event
      BY <1>0, <2>5 DEF TypeOK
    <3>2. stream[i].amount \in Nat /\ stream[i].amount <= price
      BY <1>2, <2>5, <2>6, <3>1 DEF MoneyInv, LeaderHoldsPrice, Event
    <3>3. stream'[i].amount = stream[i].amount /\ stream'[j].amount = a
      BY <2>4, <2>6, <2>8
    <3>4. \/ a >= stream[i].amount + rules.increment
          \/ rules.cap > 0 /\ a = rules.cap /\ stream[i].amount < rules.cap
      BY <1>0, <2>0, <2>3, <3>2
    <3> QED
      BY <2>1, <3>3, <3>4
  <2> QED
    BY <2>5, <2>7, <2>8
<1>3. ASSUME NEW k \in Nat, Aside(k)
      PROVE  \/ stream'[j].amount >= stream'[i].amount + rules'.increment
             \/ /\ rules'.cap > 0 /\ stream'[j].amount = rules'.cap
                /\ stream'[i].amount < rules'.cap
  <2>1. rules' = rules /\ Len(stream') = Len(stream) + k
    BY <1>3 DEF Aside, Appends
  <2>2. ASSUME NEW l \in {i, j} PROVE l \in 1 .. Len(stream) /\ stream'[l] = stream[l]
    <3>1. l \in 1 .. Len(stream) \/ l \in Len(stream) + 1 .. Len(stream) + k
      BY <2>1, OldOrNew
    <3> QED
      BY <1>3, <3>1 DEF Aside, Appends, OtherTypes
  <2> QED
    BY <2>1, <2>2 DEF PriceLadder
<1> QED
  BY <1>1, <1>2, <1>3, StepShape

\* An ascending auction's price only climbs, by the increment or onto the cap:
\* for any rules, any bidders and any number of bids (place_bid.lua).
THEOREM PricesClimb == Spec => []PriceLadder
<1>1. Init => PriceLadder
  <2>1. 1 .. 0 = {} /\ Len(<<>>) = 0
    OBVIOUS
  <2> QED
    BY <2>1 DEF Init, PriceLadder
<1> QED
  BY <1>1, MoneyInvariant, NextLadder, PTL DEF Spec

-----------------------------------------------------------------------------
(***************************************************************************)
(* Extensions.                                                             *)
(***************************************************************************)

\* The places of the extensions in the Stream.
Exts == {i \in 1 .. Len(stream) : stream[i].type = "AUCTION_EXTENDED"}

\* The bid at place i, if one arrived inside the window, was extended, ended
\* the auction, or came after the last permitted extension.
Snipe(i) ==
  /\ stream[i].type = "BID_ACCEPTED"
  /\ rules.extendWindow > 0 /\ rules.extendSec > 0
  /\ stream[i].endAt - stream[i].at <= rules.extendWindow
  /\ i + 1 \notin Exts
  => \/ rules.maxExtensions > 0 /\ Cardinality({j \in Exts : j < i}) = rules.maxExtensions
     \/ i < Len(stream) /\ stream[i + 1].type = "AUCTION_SOLD"

\* The counts the extensions carry are those the Hash has gone through.
ExtensionInv ==
  /\ extendCount = Cardinality(Exts)
  /\ rules.maxExtensions > 0 => extendCount <= rules.maxExtensions
  /\ \A i \in Exts : stream[i].n <= extendCount
  /\ \A i \in Exts : stream[i].n = extendCount => stream[i].endAt = endAt
  /\ \A i \in 1 .. Len(stream) : Snipe(i)

\* ExtensionInv is ExtensionsBounded and the order of the counts.
LEMMA ExtensionInvBounds == ExtensionInv => ExtensionsBounded
  BY DEF ExtensionInv, ExtensionsBounded, Exts, Snipe

\* The extensions are finitely many, and so are those before any place.
LEMMA ExtsFinite ==
  ASSUME CoreInv
  PROVE  IsFiniteSet(Exts) /\ Cardinality(Exts) \in Nat
<1>1. IsFiniteSet(1 .. Len(stream))
  BY CoreTypes, FS_Interval DEF CoreInv
<1>2. Exts \subseteq 1 .. Len(stream)
  BY DEF Exts
<1> QED
  BY <1>1, <1>2, FS_Subset, FS_CardinalityType

\* A step that appends keeps the extensions and adds only new places.
LEMMA ExtsGrow ==
  ASSUME CoreInv, NEW k \in Nat, Len(stream') = Len(stream) + k,
         \A i \in 1 .. Len(stream) : stream'[i] = stream[i]
  PROVE  /\ Exts \subseteq Exts'
         /\ \A i \in Exts' : i \in Exts \/ i \in Len(stream) + 1 .. Len(stream) + k
         /\ \A i \in 1 .. Len(stream) : i \in Exts' => i \in Exts
         /\ \A i \in 1 .. Len(stream) + 1 : {j \in Exts' : j < i} = {j \in Exts : j < i}
<1>0. Len(stream) \in Nat
  BY CoreTypes DEF CoreInv
<1>1. Exts \subseteq Exts'
  BY <1>0 DEF Exts
<1>2. \A i \in 1 .. Len(stream) : i \in Exts' => i \in Exts
  BY DEF Exts
<1>3. \A i \in Exts' : i \in 1 .. Len(stream')
  BY DEF Exts
<1>4. \A i \in Exts' : i \in Exts \/ i \in Len(stream) + 1 .. Len(stream) + k
  BY <1>2, <1>3, OldOrNew
<1>5. ASSUME NEW i \in 1 .. Len(stream) + 1
      PROVE  {j \in Exts' : j < i} = {j \in Exts : j < i}
  <2>1. \A j \in Exts' : j < i => j \in Exts
    BY <1>0, <1>4, <1>3
  <2> QED
    BY <1>1, <2>1
<1> QED
  BY <1>1, <1>2, <1>4, <1>5

\* What was said of an old bid stays true as the log grows.
LEMMA SnipeStays ==
  ASSUME CoreInv, ExtensionInv, rules' = rules, NEW k \in Nat, Len(stream') = Len(stream) + k,
         \A i \in 1 .. Len(stream) : stream'[i] = stream[i],
         NEW i \in 1 .. Len(stream)
  PROVE  Snipe(i)'
<1>0. Len(stream) \in Nat
  BY CoreTypes DEF CoreInv
<1>1. Snipe(i)
  BY DEF ExtensionInv
<1>2. i + 1 \notin Exts' => i + 1 \notin Exts
  BY ExtsGrow
<1>3. {j \in Exts' : j < i} = {j \in Exts : j < i}
  BY <1>0, ExtsGrow
<1>4. i < Len(stream) => i < Len(stream') /\ stream'[i + 1] = stream[i + 1]
  BY <1>0
<1> QED
  BY <1>1, <1>2, <1>3, <1>4 DEF Snipe

\* A step that adds no extension keeps ExtensionInv when each new bid was
\* rightly left unextended.
LEMMA NoExtension ==
  ASSUME CoreInv, ExtensionInv, rules' = rules, endAt' = endAt, extendCount' = extendCount,
         NEW k \in Nat, Len(stream') = Len(stream) + k,
         \A i \in 1 .. Len(stream) : stream'[i] = stream[i],
         \A i \in Len(stream) + 1 .. Len(stream) + k :
           stream'[i].type # "AUCTION_EXTENDED" /\ Snipe(i)'
  PROVE  ExtensionInv'
<1>1. Exts' = Exts
  <2>1. \A i \in Exts' : i \in Exts
    BY ExtsGrow DEF Exts
  <2> QED
    BY <2>1, ExtsGrow
<1>2. \A i \in Exts : stream'[i] = stream[i]
  BY DEF Exts
<1>3. \A i \in 1 .. Len(stream') : Snipe(i)'
  BY SnipeStays, OldOrNew
<1> QED
  BY <1>1, <1>2, <1>3 DEF ExtensionInv

\* A bid that is accepted without an extension, by either ascending script.
LEMMA AcceptedSnipe ==
  ASSUME CoreInv, ExtensionInv, NEW u \in Users, NEW r \in Reqs, NEW a \in Nat,
         NEW su \in Users \cup {NoUser}, NEW sa \in Nat, BidAccepted(u, r, a, su, sa)
  PROVE  ExtensionInv'
<1> DEFINE new == Len(stream) + 1
<1>0. /\ Len(stream) \in Nat /\ endAt \in Nat /\ now \in Nat /\ extendCount \in Nat
      /\ rules.extendWindow \in Nat /\ rules.extendSec \in Nat /\ rules.maxExtensions \in Nat
  BY CoreTypes DEF CoreInv
<1>1. Grows(1) /\ stream'[new] = BidEvent(su, sa, endAt)
  BY AcceptedAppends DEF CoreInv
<1>2. /\ stream'[new].type = "BID_ACCEPTED"
      /\ stream'[new].endAt = endAt /\ stream'[new].at = now
  BY <1>1, BidEventSays
<1>3. rules' = rules /\ endAt' = endAt /\ extendCount' = extendCount
  BY DEF BidAccepted, AcceptBid
<1>4. AscendingCode(u, r, a) = "OK_ACCEPTED"
  BY DEF BidAccepted
<1>5. ~CapHit(a) /\ ~Extends(a)
  BY <1>4 DEF AscendingCode, AdmissionCode
<1>6. {j \in Exts' : j < new} = Exts
  <2>1. \A i \in 1 .. Len(stream) + 1 : {j \in Exts' : j < i} = {j \in Exts : j < i}
    BY <1>1, ExtsGrow DEF Grows
  <2>2. new \in 1 .. Len(stream) + 1
    BY <1>0
  <2>3. {j \in Exts' : j < new} = {j \in Exts : j < new}
    BY <2>1, <2>2
  <2> QED
    BY <1>0, <2>3 DEF Exts
<1>7. ASSUME NEW i, i = new PROVE Snipe(i)'
  <2> SUFFICES ASSUME rules.extendWindow > 0, rules.extendSec > 0,
                      endAt - now <= rules.extendWindow
               PROVE  rules.maxExtensions > 0 /\ Cardinality(Exts) = rules.maxExtensions
    BY <1>2, <1>3, <1>6, <1>7 DEF Snipe
  <2>1. rules.maxExtensions # 0 /\ ~(extendCount < rules.maxExtensions)
    BY <1>5 DEF Extends
  <2> QED
    BY <1>0, <2>1 DEF ExtensionInv
<1>8. \A i \in Len(stream) + 1 .. Len(stream) + 1 :
        stream'[i].type # "AUCTION_EXTENDED" /\ Snipe(i)'
  <2>1. \A i \in Len(stream) + 1 .. Len(stream) + 1 : i = new
    BY <1>0
  <2> QED
    BY <1>2, <1>7, <2>1
<1> HIDE DEF new
<1> QED
  BY <1>1, <1>3, <1>8, NoExtension DEF Grows

\* A cap hit, whose sale follows the bid at once.
LEMMA SoldSnipe ==
  ASSUME CoreInv, ExtensionInv, NEW u \in Users, NEW r \in Reqs, NEW a \in Nat,
         BidSold(u, r, a)
  PROVE  ExtensionInv'
<1>0. Len(stream) \in Nat
  BY CoreTypes DEF CoreInv
<1>1. /\ Grows(2) /\ stream'[Len(stream) + 1] = BidEvent(u, a, endAt)
      /\ stream'[Len(stream) + 2] = SaleEvent(u, a)
  BY SoldAppends DEF CoreInv
<1>2. /\ stream'[Len(stream) + 1].type = "BID_ACCEPTED"
      /\ stream'[Len(stream) + 2].type = "AUCTION_SOLD"
  BY <1>1, BidEventSays DEF SaleEvent, Entry
<1>3. rules' = rules /\ endAt' = endAt /\ extendCount' = extendCount
  BY DEF BidSold, AcceptBid
<1>4. ASSUME NEW i, i = Len(stream) + 1 \/ i = Len(stream) + 2 PROVE Snipe(i)'
  <2>1. /\ Len(stream)' = Len(stream) + 2 /\ Len(stream) + 1 < Len(stream) + 2
        /\ (Len(stream) + 1) + 1 = Len(stream) + 2
    BY <1>0, <1>1 DEF Grows
  <2>2. CASE i = Len(stream) + 1
    BY <1>2, <2>1, <2>2 DEF Snipe
  <2>3. CASE i = Len(stream) + 2
    BY <1>2, <2>3 DEF Snipe
  <2> QED
    BY <1>4, <2>2, <2>3
<1>5. \A i \in Len(stream) + 1 .. Len(stream) + 2 :
        stream'[i].type # "AUCTION_EXTENDED" /\ Snipe(i)'
  <2>1. \A i \in Len(stream) + 1 .. Len(stream) + 2 : i = Len(stream) + 1 \/ i = Len(stream) + 2
    BY <1>0
  <2> QED
    BY <1>2, <1>4, <2>1
<1> QED
  BY <1>1, <1>3, <1>5, NoExtension DEF Grows

\* A bid that moves the end: one more extension, with a fresh count.
LEMMA ExtendedSnipe ==
  ASSUME CoreInv, ExtensionInv, NEW u \in Users, NEW r \in Reqs, NEW a \in Nat,
         NEW su \in Users \cup {NoUser}, NEW sa \in Nat, BidExtended(u, r, a, su, sa)
  PROVE  ExtensionInv'
<1> DEFINE end == endAt + rules.extendSec
           new == Len(stream) + 2
<1>0. /\ Len(stream) \in Nat /\ extendCount \in Nat /\ rules.maxExtensions \in Nat
      /\ stream \in Seq(Event)
  BY CoreTypes DEF CoreInv
<1>1. /\ Grows(2) /\ stream'[Len(stream) + 1] = BidEvent(su, sa, end)
      /\ stream'[new] = ExtensionEvent(end)
  BY ExtendedAppends DEF CoreInv
<1>2. /\ stream'[Len(stream) + 1].type = "BID_ACCEPTED"
      /\ stream'[new].type = "AUCTION_EXTENDED" /\ stream'[new].n = extendCount + 1
      /\ stream'[new].endAt = end
  BY <1>1, BidEventSays DEF ExtensionEvent, Entry
<1>3. rules' = rules /\ endAt' = end /\ extendCount' = extendCount + 1
  BY DEF BidExtended, AcceptBid
<1>4. Extends(a)
  <2>1. AscendingCode(u, r, a) = "OK_EXTENDED"
    BY DEF BidExtended
  <2> QED
    BY <2>1 DEF AscendingCode, AdmissionCode
<1>5. /\ Len(stream') = Len(stream) + 2
      /\ \A i \in 1 .. Len(stream) : stream'[i] = stream[i]
  BY <1>1 DEF Grows
<1> HIDE DEF end
<1>6. Exts' = Exts \cup {new} /\ new \notin Exts
  <2>1. new \in Exts'
    BY <1>0, <1>2, <1>5 DEF Exts
  <2>2. ASSUME NEW i \in Exts' PROVE i \in Exts \/ i = new
    <3>1. i \in Exts \/ i \in Len(stream) + 1 .. Len(stream) + 2
      BY <1>5, ExtsGrow
    <3>2. i # Len(stream) + 1
      BY <1>2 DEF Exts
    <3> QED
      BY <1>0, <3>1, <3>2
  <2>3. Exts \subseteq Exts'
    BY <1>5, ExtsGrow
  <2>4. new \notin Exts
    BY <1>0 DEF Exts
  <2> QED
    BY <2>1, <2>2, <2>3, <2>4
<1> HIDE DEF new
<1>7. extendCount' = Cardinality(Exts')
  <2>1. Cardinality(Exts \cup {new}) = Cardinality(Exts) + 1
    BY <1>6, ExtsFinite, FS_AddElement
  <2> QED
    BY <1>3, <1>6, <2>1 DEF ExtensionInv
<1>8. rules'.maxExtensions > 0 => extendCount' <= rules'.maxExtensions
  BY <1>0, <1>3, <1>4 DEF Extends
<1>9. ASSUME NEW i \in Exts'
      PROVE  /\ stream'[i].n <= extendCount'
             /\ stream'[i].n = extendCount' => stream'[i].endAt = endAt'
  <2>1. CASE i = new
    BY <1>0, <1>2, <1>3, <2>1
  <2>2. CASE i \in Exts
    <3>1. stream[i] \in Event /\ stream'[i] = stream[i]
      BY <1>0, <1>5, <2>2 DEF Exts
    <3>2. stream[i].n \in Nat /\ stream[i].n <= extendCount
      BY <2>2, <3>1 DEF Event, ExtensionInv
    <3> QED
      BY <1>0, <1>3, <3>1, <3>2
  <2> QED
    BY <1>6, <2>1, <2>2
<1>10. ASSUME NEW i \in 1 .. Len(stream') PROVE Snipe(i)'
  <2>1. CASE i \in 1 .. Len(stream)
    BY <1>3, <1>5, <2>1, SnipeStays
  <2>2. CASE i = Len(stream) + 1
    <3>1. i + 1 \in Exts'
      BY <1>0, <1>6, <2>2 DEF new
    <3> QED
      BY <3>1 DEF Snipe
  <2>3. CASE i = new
    BY <1>2, <2>3 DEF Snipe
  <2> QED
    BY <1>0, <1>5, <2>1, <2>2, <2>3, OldOrNew DEF new
<1> QED
  BY <1>7, <1>8, <1>9, <1>10 DEF ExtensionInv

\* ExtensionInv is inductive relative to CoreInv.
LEMMA NextExtensions == CoreInv /\ ExtensionInv /\ [Next]_vars => ExtensionInv'
<1> SUFFICES ASSUME CoreInv, ExtensionInv, [Next]_vars PROVE ExtensionInv'
  OBVIOUS
<1>0. TypeOK /\ Len(stream) \in Nat
  BY CoreTypes DEF CoreInv
<1>1. ASSUME stream = <<>>, stream' = <<>>,
             \/ \E r \in RuleSet : FreezeRules(r)
             \/ \E d \in Durations : StartAuction(d)
      PROVE  ExtensionInv'
  <2>1. Exts = {} /\ Exts' = {} /\ 1 .. Len(stream') = {}
    BY <1>1 DEF Exts
  <2>2. Cardinality({}) = 0
    BY FS_EmptySet
  <2>3. extendCount = 0
    BY <2>1, <2>2 DEF ExtensionInv
  <2>4. extendCount' = 0
    BY <1>1, <2>3 DEF FreezeRules, StartAuction
  <2>5. rules'.maxExtensions > 0 => 0 <= rules'.maxExtensions
    <3>1. rules' \in RuleRecord
      BY <1>0, NextType DEF TypeOK
    <3> QED
      BY <3>1 DEF RuleRecord
  <2> QED
    BY <2>1, <2>2, <2>4, <2>5 DEF ExtensionInv
<1>2. ASSUME NEW u \in Users, NEW r \in Reqs, NEW a \in BidAmounts,
             NEW su \in Users \cup {NoUser}, NEW sa \in Nat, AscendingBid(u, r, a, su, sa)
      PROVE  ExtensionInv'
  <2>1. a \in Nat
    BY BoundsAssumption
  <2> QED
    BY <1>2, <2>1, AcceptedSnipe, ExtendedSnipe, SoldSnipe DEF AscendingBid
<1>3. ASSUME NEW k \in Nat, Aside(k) PROVE ExtensionInv'
  <2>1. \A i \in Len(stream) + 1 .. Len(stream) + k :
          stream'[i].type # "AUCTION_EXTENDED" /\ stream'[i].type # "BID_ACCEPTED"
    BY <1>3 DEF Aside, Appends, OtherTypes
  <2>2. \A i \in Len(stream) + 1 .. Len(stream) + k : Snipe(i)'
    BY <2>1 DEF Snipe
  <2> QED
    BY <1>3, <2>1, <2>2, NoExtension DEF Aside, Appends
<1>4. /\ winner \in Users \cup {NoUser} /\ price \in Nat /\ Users \subseteq Users \cup {NoUser}
      /\ BidAmounts \subseteq Nat
  BY <1>0, BoundsAssumption DEF TypeOK
<1> QED
  BY <1>1, <1>2, <1>3, <1>4, StepShape

\* Anti-snipe stays within maxExtensions and never forgets a snipe: for any
\* rules and any interleaving of bids, hammers and the clock (place_bid.lua).
THEOREM ExtensionsAreBounded == Spec => []ExtensionsBounded
<1>1. Init => ExtensionInv
  <2> SUFFICES ASSUME Init PROVE ExtensionInv
    OBVIOUS
  <2>1. Exts = {} /\ 1 .. Len(stream) = {}
    BY DEF Init, Exts
  <2>2. Cardinality({}) = 0
    BY FS_EmptySet
  <2>3. extendCount = 0 /\ rules.maxExtensions = 0
    BY DEF Init, NoRules
  <2> QED
    BY <2>1, <2>2, <2>3 DEF ExtensionInv
<1> QED
  BY <1>1, CoreInvariant, NextExtensions, ExtensionInvBounds, PTL DEF Spec

-----------------------------------------------------------------------------
(***************************************************************************)
(* Acks.                                                                   *)
(***************************************************************************)

\* What AcksAreBacked says of one ack.
Backed(ack, u) ==
  /\ ack.seq \in 1 .. Len(stream)
  /\ stream[ack.seq].type \in BidTypes /\ stream[ack.seq].at = ack.at /\ ack.user = u
  /\ rules.mode \in Plain =>
       /\ stream[ack.seq].user = u /\ stream[ack.seq].amount = ack.amount
       /\ stream[ack.seq].endAt = ack.endAt
  /\ rules.mode = "HYBRID_REVEAL" => ShownLate(ack, u)
  /\ rules.mode \in Sealed => stream[ack.seq].user = u /\ stream[ack.seq].amount = 0

\* AcksAreBacked in these terms.
AckInv ==
  \A u \in Users, r \in Reqs : dedupe[u][r] # NoAck => Backed(dedupe[u][r], u)

\* The two say the same.
LEMMA AckInvBacks == AckInv <=> AcksAreBacked
  BY DEF AckInv, Backed, AcksAreBacked

\* An ack that was backed stays backed when the log grows and the rules stay,
\* unless the room of a HYBRID_REVEAL auction is due another bid.
LEMMA BackedStays ==
  ASSUME CoreInv, NEW ack, NEW u, Backed(ack, u), rules' = rules,
         NEW k \in Nat, Len(stream') = Len(stream) + k,
         \A i \in 1 .. Len(stream) : stream'[i] = stream[i],
         rules.mode = "HYBRID_REVEAL" => ShownLate(ack, u)'
  PROVE  Backed(ack, u)'
<1>0. Len(stream) \in Nat
  BY CoreTypes DEF CoreInv
<1>1. ack.seq \in 1 .. Len(stream')
  BY <1>0 DEF Backed
<1>2. stream'[ack.seq] = stream[ack.seq]
  BY DEF Backed
<1> QED
  BY <1>1, <1>2 DEF Backed

\* Bids already in the log keep showing what they showed.
LEMMA BidsAfterGrow ==
  ASSUME CoreInv, NEW ack, ack.seq \in 1 .. Len(stream), NEW k \in Nat,
         Len(stream') = Len(stream) + k,
         \A i \in 1 .. Len(stream) : stream'[i] = stream[i]
  PROVE  /\ BidsAfter(ack.seq) \subseteq BidsAfter(ack.seq)'
         /\ \A j \in BidsAfter(ack.seq)' :
              \/ j \in BidsAfter(ack.seq)
              \/ j \in Len(stream) + 1 .. Len(stream) + k /\ stream'[j].type = "BID_ACCEPTED"
         /\ \A j \in BidsAfter(ack.seq) :
              j \in 1 .. Len(stream) /\ stream'[j] = stream[j]
<1>0. Len(stream) \in Nat
  BY CoreTypes DEF CoreInv
<1>1. \A j \in BidsAfter(ack.seq) :
        j \in ack.seq + 1 .. Len(stream) /\ j \in 1 .. Len(stream) /\ stream'[j] = stream[j]
        /\ stream[j].type = "BID_ACCEPTED"
  BY <1>0 DEF BidsAfter
<1>2. BidsAfter(ack.seq) \subseteq BidsAfter(ack.seq)'
  BY <1>0, <1>1 DEF BidsAfter
<1>3. ASSUME NEW j \in BidsAfter(ack.seq)'
      PROVE  \/ j \in BidsAfter(ack.seq)
             \/ j \in Len(stream) + 1 .. Len(stream) + k /\ stream'[j].type = "BID_ACCEPTED"
  <2>1. j \in ack.seq + 1 .. Len(stream') /\ stream'[j].type = "BID_ACCEPTED"
    BY DEF BidsAfter
  <2>2. j \in 1 .. Len(stream')
    BY <1>0, <2>1
  <2>3. j \in 1 .. Len(stream) \/ j \in Len(stream) + 1 .. Len(stream) + k
    BY <2>2, OldOrNew
  <2>4. j \in 1 .. Len(stream) => j \in ack.seq + 1 .. Len(stream) /\ stream[j].type = "BID_ACCEPTED"
    BY <1>0, <2>1
  <2> QED
    BY <2>1, <2>3, <2>4 DEF BidsAfter
<1> QED
  BY <1>1, <1>2, <1>3

\* The acks after an accepted bid: the new one, and old ones that are alive.
LEMMA RememberKeeps ==
  ASSUME TypeOK, NEW u \in Users, NEW r \in Reqs, NEW ack, Remember(u, r, ack)
  PROVE  /\ dedupe'[u][r] = ack
         /\ \A v \in Users, q \in Reqs :
              (v # u \/ q # r) => dedupe'[v][q] = dedupe[v][q] \/ dedupe'[v][q] = NoAck
<1>1. dedupe \in [Users -> [Reqs -> Ack]]
  BY DEF TypeOK
<1>2. dedupe' = [dedupe EXCEPT ![u] = [q \in Reqs |-> IF q = r THEN ack ELSE Cached(u, q)]]
  BY DEF Remember
<1>3. \A q \in Reqs : Cached(u, q) = dedupe[u][q] \/ Cached(u, q) = NoAck
  BY DEF Cached
<1> QED
  BY <1>1, <1>2, <1>3

\* The ack of an accepted ascending bid.
NewAck(u, a, end, st) ==
  [seq |-> seq + 1, user |-> u, amount |-> a, endAt |-> end, status |-> st, at |-> now]

\* An accepted ascending bid's ack is backed by the entry it appends, which
\* ENGLISH shows as it is; HYBRID_REVEAL makes its bidder the leader.
LEMMA NewAckBacked ==
  ASSUME CoreInv, NEW u \in Users, NEW r \in Reqs, NEW a \in Nat,
         NEW su \in Users \cup {NoUser}, NEW sa \in Nat,
         \/ rules.mode \in Plain /\ su = u /\ sa = a
         \/ rules.mode = "HYBRID_REVEAL",
         AscendingBid(u, r, a, su, sa)
  PROVE  \E ack : Remember(u, r, ack) /\ Backed(ack, u)'
<1>0. TypeOK /\ Len(stream) \in Nat /\ seq = Len(stream) /\ seq + 1 \in Nat
  BY CoreTypes DEF CoreInv, StreamLockstep
<1>1. rules' = rules /\ winner' = u /\ price' = a
  BY DEF AscendingBid, BidAccepted, BidExtended, BidSold, AcceptBid
<1>2. rules.mode \notin Sealed
  BY DEF Plain, Sealed
<1>3. PICK end, st : /\ Remember(u, r, NewAck(u, a, end, st))
                     /\ rules.mode \in Plain => stream'[Len(stream) + 1].endAt = end
  <2>1. CASE BidAccepted(u, r, a, su, sa)
    <3>1. stream'[Len(stream) + 1] = BidEvent(su, sa, endAt)
      BY <2>1, AcceptedAppends DEF CoreInv
    <3>2. stream'[Len(stream) + 1].endAt = endAt
      BY <3>1, BidEventSays
    <3> QED
      BY <2>1, <3>2 DEF BidAccepted, AcceptBid, NewAck
  <2>2. CASE BidExtended(u, r, a, su, sa)
    <3>1. stream'[Len(stream) + 1] = BidEvent(su, sa, endAt + rules.extendSec)
      BY <2>2, ExtendedAppends DEF CoreInv
    <3>2. stream'[Len(stream) + 1].endAt = endAt + rules.extendSec
      BY <3>1, BidEventSays
    <3> QED
      BY <2>2, <3>2 DEF BidExtended, AcceptBid, NewAck
  <2>3. CASE BidSold(u, r, a)
    <3>1. stream'[Len(stream) + 1] = BidEvent(u, a, endAt)
      BY <2>3, SoldAppends DEF CoreInv
    <3>2. stream'[Len(stream) + 1].endAt = endAt
      BY <3>1, BidEventSays
    <3> QED
      BY <2>3, <3>2 DEF BidSold, AcceptBid, NewAck
  <2> QED
    BY <2>1, <2>2, <2>3 DEF AscendingBid
<1>4. PICK ack : ack = NewAck(u, a, end, st)
  OBVIOUS
<1>5. ack.seq = Len(stream) + 1 /\ ack.user = u /\ ack.amount = a /\ ack.at = now /\ ack.endAt = end
  BY <1>0, <1>4 DEF NewAck
<1>6. /\ Grows(1) \/ Grows(2)
      /\ stream'[Len(stream) + 1].type = "BID_ACCEPTED"
      /\ stream'[Len(stream) + 1].at = now
      /\ \/ stream'[Len(stream) + 1].user = u /\ stream'[Len(stream) + 1].amount = a
         \/ stream'[Len(stream) + 1].user = su /\ stream'[Len(stream) + 1].amount = sa
      /\ Grows(2) => stream'[Len(stream) + 2].type # "BID_ACCEPTED"
  BY AscendingAppends
<1>7. BidsAfter(ack.seq)' = {}
  <2>1. ASSUME NEW j \in BidsAfter(ack.seq)' PROVE FALSE
    <3>1. j \in (Len(stream) + 1) + 1 .. Len(stream') /\ stream'[j].type = "BID_ACCEPTED"
      BY <1>5 DEF BidsAfter
    <3>2. Grows(2) /\ j = Len(stream) + 2
      BY <1>0, <1>6, <3>1 DEF Grows
    <3> QED
      BY <1>6, <3>1, <3>2
  <2> QED
    BY <2>1
<1>8. ack.seq \in 1 .. Len(stream')
  BY <1>0, <1>5, <1>6 DEF Grows
<1>9. Backed(ack, u)'
  <2>1. /\ stream'[ack.seq].type \in BidTypes /\ stream'[ack.seq].at = ack.at
        /\ ack.user = u
    BY <1>5, <1>6 DEF BidTypes
  <2>2. rules'.mode \in Plain =>
          /\ stream'[ack.seq].user = u /\ stream'[ack.seq].amount = ack.amount
          /\ stream'[ack.seq].endAt = ack.endAt
    <3>1. "HYBRID_REVEAL" \notin Plain
      BY DEF Plain
    <3> QED
      BY <1>1, <1>3, <1>5, <1>6, <3>1
  <2>3. ShownLate(ack, u)'
    BY <1>1, <1>5, <1>7 DEF ShownLate
  <2> QED
    BY <1>1, <1>2, <1>8, <2>1, <2>2, <2>3 DEF Backed
<1> QED
  BY <1>3, <1>4, <1>9

\* A bid shown late is shown by the next one, or a sale announces that one.
LEMMA NextBidShows ==
  ASSUME CoreInv, NEW ack, NEW v, Backed(ack, v), rules.mode = "HYBRID_REVEAL",
         NEW u \in Users, NEW r \in Reqs, NEW a \in Nat,
         AscendingBid(u, r, a, winner, price)
  PROVE  Backed(ack, v)'
<1>0. TypeOK /\ Len(stream) \in Nat /\ price \in Nat /\ winner \in Users \cup {NoUser}
  BY CoreTypes DEF CoreInv, TypeOK
<1>1. PICK k \in {1, 2} : Grows(k) /\ (k = 2 => stream'[Len(stream) + 2].type # "BID_ACCEPTED")
  BY <1>0, AscendingAppends
<1>2. /\ Len(stream') = Len(stream) + k
      /\ \A i \in 1 .. Len(stream) : stream'[i] = stream[i]
  BY <1>1 DEF Grows
<1>3. rules' = rules
  BY DEF AscendingBid, BidAccepted, BidExtended, BidSold, AcceptBid
<1>4. ack.seq \in 1 .. Len(stream) /\ ShownLate(ack, v)
  BY DEF Backed
<1>5. /\ BidsAfter(ack.seq) \subseteq BidsAfter(ack.seq)'
      /\ \A j \in BidsAfter(ack.seq)' : j \in BidsAfter(ack.seq) \/ j = Len(stream) + 1
      /\ \A j \in BidsAfter(ack.seq) : j \in 1 .. Len(stream) /\ stream'[j] = stream[j]
  <2>1. /\ BidsAfter(ack.seq) \subseteq BidsAfter(ack.seq)'
        /\ \A j \in BidsAfter(ack.seq)' :
             \/ j \in BidsAfter(ack.seq)
             \/ j \in Len(stream) + 1 .. Len(stream) + k /\ stream'[j].type = "BID_ACCEPTED"
        /\ \A j \in BidsAfter(ack.seq) : j \in 1 .. Len(stream) /\ stream'[j] = stream[j]
    <3>1. k \in Nat
      OBVIOUS
    <3>2. ack.seq \in 1 .. Len(stream)
      BY <1>4
    <3> QED
      BY <1>2, <3>1, <3>2, BidsAfterGrow
  <2>2. \A j \in Len(stream) + 1 .. Len(stream) + k :
          stream'[j].type = "BID_ACCEPTED" => j = Len(stream) + 1
    BY <1>0, <1>1
  <2> QED
    BY <2>1, <2>2
<1>6. ShownLate(ack, v)'
  <2>1. CASE BidsAfter(ack.seq) = {}
    <3>1. winner = v /\ price = ack.amount
      BY <1>4, <2>1 DEF ShownLate
    <3>2. \/ /\ stream'[Len(stream) + 1].user = v
             /\ stream'[Len(stream) + 1].amount = ack.amount
          \/ BidSold(u, r, a)
      BY <1>0, <3>1, AscendingAppends
    <3>3. stream'[Len(stream) + 1].type = "BID_ACCEPTED"
      BY <1>0, AscendingAppends
    <3>4. Len(stream) + 1 \in BidsAfter(ack.seq)'
      BY <1>0, <1>1, <1>2, <1>4, <3>3 DEF BidsAfter
    <3>5. BidSold(u, r, a) => /\ Len(stream) + 1 < Len(stream')
                              /\ stream'[(Len(stream) + 1) + 1].type = "AUCTION_SOLD"
      <4> SUFFICES ASSUME BidSold(u, r, a)
                   PROVE  /\ Len(stream) + 1 < Len(stream')
                          /\ stream'[(Len(stream) + 1) + 1].type = "AUCTION_SOLD"
        OBVIOUS
      <4>1. Grows(2) /\ stream'[Len(stream) + 2] = SaleEvent(u, a)
        BY SoldAppends DEF CoreInv
      <4>2. SaleEvent(u, a).type = "AUCTION_SOLD" /\ (Len(stream) + 1) + 1 = Len(stream) + 2
        BY <1>0 DEF SaleEvent, Entry
      <4> QED
        BY <1>0, <4>1, <4>2 DEF Grows
    <3>6. \A i \in BidsAfter(ack.seq)' : Len(stream) + 1 <= i
      BY <1>0, <1>5, <2>1
    <3> QED
      BY <3>2, <3>4, <3>5, <3>6 DEF ShownLate
  <2>2. CASE BidsAfter(ack.seq) # {}
    <3>1. PICK j \in BidsAfter(ack.seq) :
            /\ \A i \in BidsAfter(ack.seq) : j <= i
            /\ \/ stream[j].user = v /\ stream[j].amount = ack.amount
               \/ j < Len(stream) /\ stream[j + 1].type = "AUCTION_SOLD"
      BY <1>4, <2>2 DEF ShownLate
    <3>2. j \in BidsAfter(ack.seq)' /\ j \in 1 .. Len(stream) /\ stream'[j] = stream[j]
      BY <1>5
    <3>3. \A i \in BidsAfter(ack.seq)' : j <= i
      BY <1>0, <1>5, <3>1, <3>2
    <3>4. j < Len(stream) => j < Len(stream') /\ stream'[j + 1] = stream[j + 1]
      BY <1>0, <1>1, <1>2, <3>2
    <3> QED
      BY <3>1, <3>2, <3>3, <3>4 DEF ShownLate
  <2> QED
    BY <2>1, <2>2
<1> QED
  BY <1>2, <1>3, <1>6, BackedStays

\* Acks that are forgotten or kept, in a step that is nobody's ascending bid.
LEMMA AsideKeepsBacked ==
  ASSUME CoreInv, NEW k \in Nat, Aside(k), NEW ack, NEW u, Backed(ack, u)
  PROVE  Backed(ack, u)'
<1>0. Len(stream) \in Nat
  BY CoreTypes DEF CoreInv
<1>1. /\ rules' = rules /\ Len(stream') = Len(stream) + k
      /\ \A i \in 1 .. Len(stream) : stream'[i] = stream[i]
      /\ \A i \in Len(stream) + 1 .. Len(stream) + k : stream'[i].type # "BID_ACCEPTED"
  BY DEF Aside, Appends, OtherTypes
<1>2. rules.mode = "HYBRID_REVEAL" => ShownLate(ack, u)'
  <2> SUFFICES ASSUME rules.mode = "HYBRID_REVEAL" PROVE ShownLate(ack, u)'
    OBVIOUS
  <2>1. winner' = winner /\ price' = price
    BY DEF Aside, Ascending
  <2>2. ack.seq \in 1 .. Len(stream) /\ ShownLate(ack, u)
    BY DEF Backed
  <2>3. /\ BidsAfter(ack.seq)' = BidsAfter(ack.seq)
        /\ \A j \in BidsAfter(ack.seq) : j \in 1 .. Len(stream) /\ stream'[j] = stream[j]
    <3>1. \A j \in BidsAfter(ack.seq)' : j \in BidsAfter(ack.seq)
      BY <1>1, <2>2, BidsAfterGrow
    <3>2. /\ BidsAfter(ack.seq) \subseteq BidsAfter(ack.seq)'
          /\ \A j \in BidsAfter(ack.seq) : j \in 1 .. Len(stream) /\ stream'[j] = stream[j]
      BY <1>1, <2>2, BidsAfterGrow
    <3> QED
      BY <3>1, <3>2
  <2>4. \A j \in 1 .. Len(stream) : j < Len(stream) =>
          j < Len(stream') /\ stream'[j + 1] = stream[j + 1]
    BY <1>0, <1>1
  <2> QED
    BY <2>1, <2>2, <2>3, <2>4 DEF ShownLate
<1> QED
  BY <1>1, <1>2, BackedStays

\* The ack of a sealed bid names its entry, which says who and not how much.
LEMMA SealedAckBacked ==
  ASSUME CoreInv, NEW u \in Users, NEW r \in Reqs, NEW a \in Nat, rules.mode \in Sealed,
         PlaceBidSealed(u, r, a)
  PROVE  \E ack : Remember(u, r, ack) /\ Backed(ack, u)'
<1> DEFINE e == Entry("SEALED_BID_RECEIVED", seq + 1, u, 0, 0, SealedCount(u), NoScores)
<1>0. /\ TypeOK /\ Len(stream) \in Nat /\ seq = Len(stream) /\ seq + 1 \in Nat
      /\ NoScores \in [Users -> Nat] /\ "SEALED_BID_RECEIVED" \in EventTypes
  BY CoreTypes DEF CoreInv, StreamLockstep, EventTypes, BidTypes
<1>1. SealedCount(u) \in Nat
  BY UsersAssumption, FS_Subset, FS_CardinalityType DEF SealedCount
<1>2. e \in Event
  BY <1>0, <1>1, EntryIsEvent
<1>3. /\ e.type = "SEALED_BID_RECEIVED" /\ e.seq = seq + 1 /\ e.user = u /\ e.amount = 0
      /\ e.at = now
  BY DEF Entry
<1>4. Emit(e) /\ Remember(u, r, NewAck(u, a, endAt, "LIVE")) /\ rules' = rules
  BY DEF PlaceBidSealed, NewAck
<1> HIDE DEF e
<1>5. Grows(1) /\ stream'[Len(stream) + 1] = e
  BY <1>0, <1>2, <1>3, <1>4, EmitGrows
<1>6. PICK ack : ack = NewAck(u, a, endAt, "LIVE")
  OBVIOUS
<1>7. ack.seq = Len(stream) + 1 /\ ack.user = u /\ ack.at = now
  BY <1>0, <1>6 DEF NewAck
<1>8. rules.mode \notin Plain /\ rules.mode # "HYBRID_REVEAL"
  BY DEF Sealed, Plain
<1>9. Len(stream') = Len(stream) + 1
  BY <1>5 DEF Grows
<1>10. Backed(ack, u)'
  BY <1>0, <1>3, <1>4, <1>5, <1>7, <1>8, <1>9 DEF Backed, BidTypes
<1> QED
  BY <1>4, <1>6, <1>10

\* AckInv is inductive relative to CoreInv.
LEMMA NextAcks == CoreInv /\ AckInv /\ [Next]_vars => AckInv'
<1> SUFFICES ASSUME CoreInv, AckInv, [Next]_vars PROVE AckInv'
  OBVIOUS
<1>0. TypeOK /\ BidAmounts \subseteq Nat
  BY BoundsAssumption DEF CoreInv
<1>1. ASSUME NEW u \in Users, NEW r \in Reqs, NEW ack, Remember(u, r, ack), Backed(ack, u)',
             \A b, v : Backed(b, v) => Backed(b, v)'
      PROVE  AckInv'
  <2> SUFFICES ASSUME NEW v \in Users, NEW q \in Reqs, dedupe'[v][q] # NoAck
               PROVE  Backed(dedupe[v][q], v)'
    BY DEF AckInv
  <2>1. PICK b : b = dedupe'[v][q]
    OBVIOUS
  <2>2. Backed(b, v)'
    <3>1. CASE v = u /\ q = r
      BY <1>0, <1>1, <2>1, <3>1, RememberKeeps
    <3>2. CASE v # u \/ q # r
      <4>1. b = dedupe[v][q] /\ b # NoAck
        BY <1>0, <1>1, <2>1, <3>2, RememberKeeps
      <4>2. Backed(b, v)
        BY <4>1 DEF AckInv
      <4> QED
        BY <1>1, <4>2
    <3> QED
      BY <3>1, <3>2
  <2> QED
    BY <2>1, <2>2
<1>2. ASSUME UNCHANGED ackVars, \A b, v : Backed(b, v) => Backed(b, v)' PROVE AckInv'
  <2> SUFFICES ASSUME NEW v \in Users, NEW q \in Reqs, dedupe'[v][q] # NoAck
               PROVE  Backed(dedupe[v][q], v)'
    BY DEF AckInv
  <2>1. PICK b : b = dedupe'[v][q]
    OBVIOUS
  <2>2. b = dedupe[v][q] /\ b # NoAck
    BY <1>2, <2>1 DEF ackVars
  <2>3. Backed(b, v)'
    BY <1>2, <2>2 DEF AckInv
  <2> QED
    BY <2>1, <2>3
<1>3. ASSUME stream = <<>>, UNCHANGED ackVars PROVE AckInv'
  <2>1. \A b, v : ~Backed(b, v)
    BY <1>3 DEF Backed
  <2> QED
    BY <1>2, <1>3, <2>1
<1>4. ASSUME NEW u \in Users, NEW r \in Reqs, NEW a \in BidAmounts, rules.mode \in Ascending,
             \/ rules.mode \in Plain /\ AscendingBid(u, r, a, u, a)
             \/ rules.mode = "HYBRID_REVEAL" /\ AscendingBid(u, r, a, winner, price)
      PROVE  AckInv'
  <2>0. /\ a \in Nat /\ price \in Nat /\ winner \in Users \cup {NoUser}
        /\ u \in Users \cup {NoUser} /\ Len(stream) \in Nat
    BY <1>0, CoreTypes DEF TypeOK
  <2>1. CASE rules.mode \in Plain /\ AscendingBid(u, r, a, u, a)
    <3>1. rules' = rules
      BY <2>1 DEF AscendingBid, BidAccepted, BidExtended, BidSold, AcceptBid
    <3>2. rules.mode # "HYBRID_REVEAL"
      BY <2>1 DEF Plain
    <3>3. PICK k \in {1, 2} : Grows(k)
      BY <2>0, <2>1, AscendingAppends
    <3>4. \A b, v : Backed(b, v) => Backed(b, v)'
      BY <3>1, <3>2, <3>3, BackedStays DEF Grows
    <3>5. PICK ack : Remember(u, r, ack) /\ Backed(ack, u)'
      BY <2>0, <2>1, NewAckBacked
    <3> QED
      BY <1>1, <3>4, <3>5
  <2>2. CASE rules.mode = "HYBRID_REVEAL" /\ AscendingBid(u, r, a, winner, price)
    <3>1. \A b, v : Backed(b, v) => Backed(b, v)'
      BY <2>0, <2>2, NextBidShows
    <3>2. PICK ack : Remember(u, r, ack) /\ Backed(ack, u)'
      BY <2>0, <2>2, NewAckBacked
    <3> QED
      BY <1>1, <3>1, <3>2
  <2> QED
    BY <1>4, <2>1, <2>2
<1>5. ASSUME NEW k \in Nat, Aside(k) PROVE AckInv'
  <2>1. \A b, v : Backed(b, v) => Backed(b, v)'
    BY <1>5, AsideKeepsBacked
  <2>2. CASE UNCHANGED ackVars
    BY <1>2, <2>1, <2>2
  <2>3. CASE SealedBid
    <3>1. PICK u \in Users, r \in Reqs, a \in BidAmounts :
            rules.mode \in Sealed /\ PlaceBidSealed(u, r, a)
      BY <2>3 DEF SealedBid
    <3>2. PICK ack : Remember(u, r, ack) /\ Backed(ack, u)'
      BY <1>0, <3>1, SealedAckBacked
    <3> QED
      BY <1>1, <2>1, <3>2
  <2> QED
    BY <1>5, <2>2, <2>3 DEF Aside
<1>6. ASSUME \/ \E r \in RuleSet : FreezeRules(r)
             \/ \E d \in Durations : StartAuction(d)
      PROVE  UNCHANGED ackVars
  BY <1>6 DEF FreezeRules, StartAuction, ackVars
<1> QED
  BY <1>3, <1>4, <1>5, <1>6, StepShape

\* Every ack a client holds is in the log, and the room is shown what it says,
\* for any number of bidders, retries and expiries (the bid scripts' HSETs).
THEOREM AcksStayBacked == Spec => []AcksAreBacked
<1>1. Init => AckInv
  BY DEF Init, AckInv
<1> QED
  BY <1>1, CoreInvariant, NextAcks, AckInvBacks, PTL DEF Spec

\* No dedupe Hash outlives a fresh one.
TTLInv == \A u \in Users : dedupeUntil[u] <= now + DedupeTTL

\* What a step does to the acks: a bid admitted for (u, r) remembers it, every
\* other step leaves them alone.
LEMMA AckSteps ==
  ASSUME [Next]_vars
  PROVE  \/ UNCHANGED ackVars /\ (now' = now \/ now' = now + 1)
         \/ \E u \in Users, r \in Reqs : \E ack :
              Cached(u, r) = NoAck /\ Remember(u, r, ack) /\ now' = now
<1>1. ASSUME NEW u \in Users, NEW r \in Reqs, NEW a \in BidAmounts, Bid(u, r, a)
      PROVE  Cached(u, r) = NoAck /\ (\E ack : Remember(u, r, ack)) /\ now' = now
  <2>1. CASE \E su, sa : AscendingBid(u, r, a, su, sa)
    <3>1. AscendingCode(u, r, a) \in {"OK_ACCEPTED", "OK_EXTENDED", "OK_SOLD"}
      BY <2>1 DEF AscendingBid, BidAccepted, BidExtended, BidSold
    <3>2. Cached(u, r) = NoAck
      BY <3>1 DEF AscendingCode, AdmissionCode
    <3>3. (\E ack : Remember(u, r, ack)) /\ now' = now
      BY <2>1 DEF AscendingBid, BidAccepted, BidExtended, BidSold, AcceptBid
    <3> QED
      BY <3>2, <3>3
  <2>2. CASE PlaceBidSealed(u, r, a)
    BY <2>2 DEF PlaceBidSealed, SealedCode, AdmissionCode
  <2> QED
    BY <1>1, <2>1, <2>2 DEF Bid, PlaceBid, PlaceBidHybrid, AscendingBid
<1>2. CASE \E u \in Users, r \in Reqs, a \in BidAmounts : Bid(u, r, a)
  BY <1>1, <1>2
<1>3. CASE CloseAuctionDetailed
  BY <1>3 DEF CloseAuctionDetailed, CloseAuction, CloseAuctionSealed, CloseAuctionAllPay,
              CloseNoBid, RevealAndSell, ackVars
<1>4. CASE \E c \in Users : CancelAuction(c)
  BY <1>4 DEF CancelAuction, ackVars
<1>5. CASE \E r \in RuleSet : FreezeRules(r)
  BY <1>5 DEF FreezeRules, ackVars
<1>6. CASE \E d \in Durations : StartAuction(d)
  BY <1>6 DEF StartAuction, ackVars
<1>7. CASE Tick
  BY <1>7 DEF Tick, ackVars
<1>8. CASE UNCHANGED vars
  BY <1>8 DEF vars, ackVars
<1> QED
  BY <1>2, <1>3, <1>4, <1>5, <1>6, <1>7, <1>8 DEF Next

\* An accepted bid is not adjudicated again while its ack lives, and no later
\* bid of the same user evicts or shortens it (the scripts' HSET and EXPIRE).
THEOREM LiveAcksAreKept == Spec => AcksAreKept
<1> DEFINE Kept ==
      \A u \in Users, r \in Reqs : Cached(u, r) # NoAck =>
        dedupe'[u][r] = dedupe[u][r] /\ dedupeUntil'[u] >= dedupeUntil[u]
<1>1. Init => TTLInv
  BY BoundsAssumption DEF Init, TTLInv
<1>2. ASSUME TypeOK, TTLInv, [Next]_vars PROVE Kept /\ TTLInv'
  <2>0. /\ now \in Nat /\ DedupeTTL \in Nat /\ dedupeUntil \in [Users -> Nat]
        /\ dedupe \in [Users -> [Reqs -> Ack]]
    BY <1>2, BoundsAssumption DEF TypeOK
  <2>1. CASE UNCHANGED ackVars /\ (now' = now \/ now' = now + 1)
    <3>1. ASSUME NEW u \in Users PROVE dedupeUntil[u] \in Nat /\ dedupeUntil'[u] = dedupeUntil[u]
      BY <2>0, <2>1 DEF ackVars
    <3>2. ASSUME NEW u \in Users PROVE dedupeUntil'[u] <= now' + DedupeTTL
      <4>1. dedupeUntil[u] <= now + DedupeTTL
        BY <1>2 DEF TTLInv
      <4> QED
        BY <2>0, <2>1, <3>1, <4>1
    <3>3. Kept
      BY <2>0, <2>1, <3>1 DEF ackVars
    <3> QED
      BY <3>2, <3>3 DEF TTLInv
  <2>2. ASSUME NEW u \in Users, NEW r \in Reqs, NEW ack,
               Cached(u, r) = NoAck, Remember(u, r, ack), now' = now
        PROVE  Kept /\ TTLInv'
    <3>1. /\ dedupeUntil' = [dedupeUntil EXCEPT ![u] = now + DedupeTTL]
          /\ dedupe' = [dedupe EXCEPT ![u] =
                          [q \in Reqs |-> IF q = r THEN ack ELSE Cached(u, q)]]
      BY <2>2 DEF Remember
    <3>2. ASSUME NEW v \in Users
          PROVE  dedupeUntil'[v] <= now + DedupeTTL /\ dedupeUntil'[v] >= dedupeUntil[v]
      <4>1. dedupeUntil[v] <= now + DedupeTTL /\ dedupeUntil[v] \in Nat
        BY <1>2, <2>0 DEF TTLInv
      <4> QED
        BY <2>0, <3>1, <4>1
    <3>3. ASSUME NEW v \in Users, NEW q \in Reqs, Cached(v, q) # NoAck
          PROVE  dedupe'[v][q] = dedupe[v][q]
      <4>1. Cached(v, q) = dedupe[v][q]
        BY <3>3 DEF Cached
      <4>2. CASE v = u
        <5>1. q # r
          BY <2>2, <3>3, <4>2
        <5> QED
          BY <2>0, <3>1, <4>1, <4>2, <5>1
      <4>3. CASE v # u
        BY <2>0, <3>1, <4>3
      <4> QED
        BY <4>2, <4>3
    <3> QED
      BY <2>2, <3>2, <3>3 DEF TTLInv
  <2> QED
    BY <1>2, <2>1, <2>2, AckSteps
<1>3. TTLInv /\ TypeOK /\ [Next]_vars => TTLInv' /\ Kept
  BY <1>2
<1> QED
  BY <1>1, <1>3, TypeCorrect, PTL DEF Spec, AcksAreKept

-----------------------------------------------------------------------------
(***************************************************************************)
(* What a sealed sale costs.                                               *)
(***************************************************************************)

\* The runner-up of a set of sealed bids: everybody but the top member.
LEMMA RunnerUp ==
  ASSUME NEW scores \in [Users -> Nat], HasBid(scores)
  PROVE  /\ Top(scores) \in Users
         /\ \A v \in Users \ {Top(scores)} : Others(scores)[v] = scores[v]
         /\ HasBid(Others(scores)) =>
              LET w == Top(Others(scores)) IN
              /\ w \in Users \ {Top(scores)} /\ scores[w] > 0 /\ Others(scores)[w] = scores[w]
              /\ \A v \in Users \ {Top(scores)} : scores[v] <= scores[w]
         /\ ~HasBid(Others(scores)) => \A v \in Users \ {Top(scores)} : scores[v] = 0
<1> DEFINE t == Top(scores)
           rest == Others(scores)
           w == Top(rest)
<1>1. t \in Users /\ rest \in [Users -> Nat]
  BY TopIsBest, OthersType
<1>2. rest[t] = 0 /\ \A v \in Users \ {t} : rest[v] = scores[v]
  BY <1>1 DEF Others
<1> HIDE DEF rest, t
<1>3. HasBid(rest) => /\ w \in Users /\ rest[w] > 0
                      /\ \A v \in Users : rest[v] <= rest[w]
  BY <1>1, TopIsBest
<1>4. ~HasBid(rest) => \A v \in Users : ~(rest[v] > 0)
  BY DEF HasBid
<1> HIDE DEF w
<1>5. HasBid(rest) => /\ w \in Users \ {t} /\ scores[w] > 0 /\ rest[w] = scores[w]
                      /\ \A v \in Users \ {t} : scores[v] <= scores[w]
  BY <1>2, <1>3
<1>6. ~HasBid(rest) => \A v \in Users \ {t} : scores[v] = 0
  BY <1>1, <1>2, <1>4
<1> QED
  BY <1>1, <1>2, <1>5, <1>6 DEF rest, t, w

\* The forfeits in the Stream.
Forfeits == {i \in 1 .. Len(stream) : stream[i].type = "ALL_PAY_FORFEIT"}

\* What the reveal writes, when nothing was public before it.
LEMMA RevealWrites ==
  ASSUME TypeOK, SealedSecrecy, rules.mode \in Sealed, status # "SOLD", HasBid(sealed),
         NEW p \in Nat, RevealAndSell(p)
  PROVE  /\ leaderboard' = sealed /\ winner' = Top(sealed) /\ price' = p
         /\ status' = "SOLD" /\ rules' = rules
<1>1. leaderboard = NoScores /\ sealed \in [Users -> Nat]
  BY DEF SealedSecrecy, TypeOK
<1>2. \A u \in Users : (IF sealed[u] > 0 THEN sealed[u] ELSE leaderboard[u]) = sealed[u]
  BY <1>1 DEF NoScores
<1>3. Reveal(sealed) = sealed
  BY <1>1, <1>2 DEF Reveal
<1> QED
  BY <1>3 DEF RevealAndSell

\* The sale of a Vickrey auction.
LEMMA VickreySale ==
  ASSUME TypeOK, SealedSecrecy, rules.mode = "VICKREY", status # "SOLD", HasBid(sealed),
         RevealAndSell(SecondPrice(sealed))
  PROVE  VickreyPaysSecond'
<1>0. sealed \in [Users -> Nat] /\ rules.startPrice \in Nat /\ rules.mode \in Sealed
  BY CoreTypes DEF Sealed
<1>1. SecondPrice(sealed) \in Nat
  BY SecondPriceType
<1>2. /\ leaderboard' = sealed /\ winner' = Top(sealed) /\ price' = SecondPrice(sealed)
      /\ rules' = rules
  BY <1>0, <1>1, RevealWrites
<1>3. CASE HasBid(Others(sealed))
  <2>1. PICK w \in Users \ {Top(sealed)} :
          /\ Others(sealed)[Top(Others(sealed))] = sealed[w]
          /\ \A v \in Users \ {Top(sealed)} : sealed[v] <= sealed[w]
    BY <1>0, <1>3, RunnerUp
  <2> QED
    BY <1>2, <1>3, <2>1 DEF VickreyPaysSecond, SecondPrice
<1>4. CASE ~HasBid(Others(sealed))
  <2>1. \A v \in Users \ {Top(sealed)} : sealed[v] = 0
    BY <1>0, <1>4, RunnerUp
  <2> QED
    BY <1>0, <1>2, <1>4, <2>1 DEF VickreyPaysSecond, SecondPrice
<1> QED
  BY <1>3, <1>4

\* The sale of an all-pay auction.
LEMMA AllPaySale ==
  ASSUME CoreInv, SealedSecrecy, Forfeits = {}, rules.mode = "ALL_PAY", status # "SOLD",
         HasBid(sealed), CloseAuctionAllPay
  PROVE  AllPayForfeitsRunnerUp'
<1> DEFINE t == Top(sealed)
           w == Top(Others(sealed))
           sold(k) == Entry("AUCTION_SOLD", k, t, sealed[t], 0, 0, NoScores)
           forfeit == Entry("ALL_PAY_FORFEIT", seq + 2, w, sealed[w], 0, 0, NoScores)
           reveal == RevealedEvent(sealed[t])
<1>0. /\ TypeOK /\ sealed \in [Users -> Nat] /\ rules.mode \in Sealed
      /\ seq + 2 \in Nat /\ seq + 3 \in Nat /\ Len(stream) \in Nat
  BY CoreTypes DEF CoreInv, Sealed
<1>1. t \in Users /\ sealed[t] \in Nat /\ sealed[t] > 0
  BY <1>0, TopIsBest
<1>2. RevealAndSell(sealed[t])
  BY DEF CloseAuctionAllPay
<1>3. /\ leaderboard' = sealed /\ winner' = t /\ price' = sealed[t]
      /\ status' = "SOLD" /\ rules' = rules
  BY <1>0, <1>1, <1>2, RevealWrites
<1>4. /\ reveal.seq = seq + 1 /\ reveal.type = "AUCTION_REVEALED"
      /\ sold(seq + 2).seq = seq + 2 /\ sold(seq + 2).type = "AUCTION_SOLD"
      /\ sold(seq + 3).seq = seq + 3 /\ sold(seq + 3).type = "AUCTION_SOLD"
      /\ forfeit.seq = seq + 2 /\ forfeit.type = "ALL_PAY_FORFEIT"
      /\ forfeit.user = w /\ forfeit.amount = sealed[w]
  BY DEF RevealedEvent, Entry
<1>5. \/ ~HasBid(Others(sealed)) /\ Emit2(reveal, sold(seq + 2))
      \/ HasBid(Others(sealed)) /\ Emit3(reveal, forfeit, sold(seq + 3))
  BY DEF CloseAuctionAllPay
<1>6. /\ reveal \in Event /\ sold(seq + 2) \in Event /\ sold(seq + 3) \in Event
      /\ w \in Users => forfeit \in Event
  BY <1>0, <1>1, RevealEntries
<1>7. /\ HasBid(Others(sealed)) =>
           /\ w \in Users /\ w # t /\ sealed[w] > 0
           /\ \A v \in Users \ {t} : sealed[v] <= sealed[w]
      /\ ~HasBid(Others(sealed)) => \A v \in Users \ {t} : sealed[v] = 0
  BY <1>0, RunnerUp
<1> HIDE DEF sold, forfeit, reveal, t, w
<1>8. \A i \in Forfeits' : i \in Len(stream) + 1 .. Len(stream')
  <2>1. ASSUME NEW i \in Forfeits', i \in 1 .. Len(stream) PROVE FALSE
    <3>1. stream'[i] = stream[i]
      BY <1>0, <1>4, <1>5, <1>6, <1>7, <2>1, Emit2Grows, Emit3Grows DEF Grows
    <3> QED
      BY <2>1, <3>1 DEF Forfeits
  <2>2. \A i \in Forfeits' : i \in 1 .. Len(stream')
    BY DEF Forfeits
  <2>3. Len(stream') = Len(stream) + 2 \/ Len(stream') = Len(stream) + 3
    BY <1>0, <1>4, <1>5, <1>6, <1>7, Emit2Grows, Emit3Grows DEF Grows
  <2> QED
    BY <1>0, <2>1, <2>2, <2>3
<1>9. CASE ~HasBid(Others(sealed))
  <2>1. /\ Grows(2) /\ stream'[Len(stream) + 1] = reveal
        /\ stream'[Len(stream) + 2] = sold(seq + 2)
    BY <1>0, <1>4, <1>5, <1>6, <1>9, Emit2Grows
  <2>2. Forfeits' = {}
    <3>1. \A i \in Forfeits' : i = Len(stream) + 1 \/ i = Len(stream) + 2
      BY <1>0, <1>8, <2>1 DEF Grows
    <3> QED
      BY <1>4, <2>1, <3>1 DEF Forfeits
  <2>3. \A v \in Users \ {t} : sealed[v] = 0
    BY <1>7, <1>9
  <2> QED
    BY <1>1, <1>3, <2>2, <2>3 DEF AllPayForfeitsRunnerUp, Forfeits
<1>10. CASE HasBid(Others(sealed))
  <2>0. w \in Users /\ w # t /\ sealed[w] > 0 /\ \A v \in Users \ {t} : sealed[v] <= sealed[w]
    BY <1>7, <1>10
  <2>1. /\ Grows(3) /\ stream'[Len(stream) + 1] = reveal
        /\ stream'[Len(stream) + 2] = forfeit
        /\ stream'[Len(stream) + 3] = sold(seq + 3)
    BY <1>0, <1>4, <1>5, <1>6, <1>10, <2>0, Emit3Grows
  <2>2. Forfeits' = {Len(stream) + 2}
    <3>1. \A i \in Forfeits' : i = Len(stream) + 1 \/ i = Len(stream) + 2 \/ i = Len(stream) + 3
      BY <1>0, <1>8, <2>1 DEF Grows
    <3>2. \A i \in Forfeits' : i = Len(stream) + 2
      BY <1>4, <2>1, <3>1 DEF Forfeits
    <3>3. Len(stream) + 2 \in Forfeits'
      BY <1>0, <1>4, <2>1 DEF Forfeits, Grows
    <3> QED
      BY <3>2, <3>3
  <2>3. /\ stream'[Len(stream) + 2].user = w /\ stream'[Len(stream) + 2].amount = sealed[w]
    BY <1>4, <2>1
  <2>4. ~(\A v \in Users \ {t} : sealed[v] = 0)
    BY <1>0, <2>0
  <2> QED
    BY <1>3, <2>0, <2>2, <2>3, <2>4 DEF AllPayForfeitsRunnerUp, Forfeits
<1> QED
  BY <1>9, <1>10

\* Who sells: the ascending scripts, or a sealed close that has a bid.
LEMMA SellingSteps ==
  ASSUME [Next]_vars, status # "SOLD", status' = "SOLD"
  PROVE  /\ rules' = rules
         /\ \/ rules.mode \in Ascending
            \/ /\ rules.mode \in {"SEALED_FIRST", "VICKREY"}
               /\ CloseAuctionSealed /\ HasBid(sealed)
            \/ rules.mode = "ALL_PAY" /\ CloseAuctionAllPay /\ HasBid(sealed)
<1>1. ASSUME NEW u \in Users, NEW r \in Reqs, NEW a \in BidAmounts, Bid(u, r, a)
      PROVE  rules' = rules /\ rules.mode \in Ascending
  <2>1. CASE PlaceBidSealed(u, r, a)
    BY <2>1, SealedAdmits DEF PlaceBidSealed
  <2>2. CASE ~PlaceBidSealed(u, r, a)
    BY <1>1, <2>2 DEF Bid, PlaceBid, PlaceBidHybrid, BidAccepted, BidExtended, BidSold,
                      AcceptBid, Plain, Ascending
  <2> QED
    BY <2>1, <2>2
<1>2. CASE \E u \in Users, r \in Reqs, a \in BidAmounts : Bid(u, r, a)
  BY <1>1, <1>2
<1>3. CASE CloseAuctionDetailed
  BY <1>3 DEF CloseAuctionDetailed, CloseAuction, CloseAuctionSealed, CloseAuctionAllPay,
              CloseNoBid, RevealAndSell
<1>4. CASE \E r \in RuleSet : FreezeRules(r)
  BY <1>4 DEF FreezeRules
<1>5. CASE \E d \in Durations : StartAuction(d)
  BY <1>5 DEF StartAuction
<1>6. CASE \E c \in Users : CancelAuction(c)
  BY <1>6 DEF CancelAuction
<1>7. CASE Tick
  BY <1>7 DEF Tick, hash
<1>8. CASE UNCHANGED vars
  BY <1>8 DEF vars, hash
<1> QED
  BY <1>2, <1>3, <1>4, <1>5, <1>6, <1>7, <1>8 DEF Next

Charged == EventTypes \ {"ALL_PAY_FORFEIT"}

\* Only the close script of an all-pay auction with bids charges a loser.
LEMMA ForfeitSteps ==
  ASSUME CoreInv, [Next]_vars, Forfeits = {},
         ~(rules.mode = "ALL_PAY" /\ CloseAuctionAllPay /\ HasBid(sealed))
  PROVE  Forfeits' = {}
<1>0. TypeOK /\ Len(stream) \in Nat /\ seq + 1 \in Nat /\ seq + 2 \in Nat
  BY CoreTypes DEF CoreInv
<1>1. ASSUME NEW k \in Nat, Appends(k, Charged) PROVE Forfeits' = {}
  <2>1. ASSUME NEW i \in Forfeits' PROVE FALSE
    <3>1. i \in 1 .. Len(stream') /\ stream'[i].type = "ALL_PAY_FORFEIT"
      BY DEF Forfeits
    <3>2. i \in 1 .. Len(stream) \/ i \in Len(stream) + 1 .. Len(stream) + k
      BY <1>1, <3>1, OldOrNew DEF Appends
    <3> QED
      BY <1>1, <3>1, <3>2 DEF Appends, Charged, Forfeits
  <2> QED
    BY <2>1
<1>2. CASE stream' = stream
  BY <1>2 DEF Forfeits
<1>3. ASSUME NEW u \in Users, NEW r \in Reqs, NEW a \in BidAmounts, Bid(u, r, a)
      PROVE  Forfeits' = {}
  <2>0. /\ a \in Nat /\ winner \in Users \cup {NoUser} /\ price \in Nat
        /\ u \in Users \cup {NoUser}
    BY <1>0, BoundsAssumption DEF TypeOK
  <2>1. ASSUME NEW su \in Users \cup {NoUser}, NEW sa \in Nat, AscendingBid(u, r, a, su, sa)
        PROVE  Forfeits' = {}
    <3>1. PICK k \in {1, 2} :
            /\ Grows(k)
            /\ k = 2 => stream'[Len(stream) + 2].type \in {"AUCTION_EXTENDED", "AUCTION_SOLD"}
      BY <2>0, <2>1, AscendingAppends
    <3>2. stream'[Len(stream) + 1].type = "BID_ACCEPTED"
      BY <2>0, <2>1, AscendingAppends
    <3>3. \A i \in Len(stream) + 1 .. Len(stream) + k :
            i = Len(stream) + 1 \/ (k = 2 /\ i = Len(stream) + 2)
      BY <1>0, <3>1
    <3>4. {"BID_ACCEPTED", "AUCTION_EXTENDED", "AUCTION_SOLD"} \subseteq Charged
      BY DEF Charged, EventTypes, BidTypes, TerminalTypes
    <3> QED
      BY <1>1, <3>1, <3>2, <3>3, <3>4 DEF Appends, Grows
  <2>2. CASE PlaceBidSealed(u, r, a)
    <3>1. "SEALED_BID_RECEIVED" \in Charged \cap EventTypes
      BY DEF Charged, EventTypes, BidTypes
    <3>2. SealedCount(u) \in Nat
      BY UsersAssumption, FS_Subset, FS_CardinalityType DEF SealedCount
    <3>3. Emit(Entry("SEALED_BID_RECEIVED", seq + 1, u, 0, 0, SealedCount(u), NoScores))
      BY <2>2 DEF PlaceBidSealed
    <3>4. Appends(1, Charged)
      BY <1>0, <2>0, <3>1, <3>2, <3>3, EmitAside
    <3> QED
      BY <1>1, <3>4
  <2> QED
    BY <1>3, <2>0, <2>1, <2>2 DEF Bid, PlaceBid, PlaceBidHybrid, AscendingBid
<1>4. {"AUCTION_SOLD", "AUCTION_NO_BID", "AUCTION_REVEALED", "AUCTION_CANCELLED"}
        \subseteq Charged \cap EventTypes
  BY DEF Charged, EventTypes, TerminalTypes
<1>5. CASE CloseNoBid
  <2>1. Appends(1, Charged)
    BY <1>0, <1>4, <1>5, EmitAside DEF CloseNoBid
  <2> QED
    BY <1>1, <2>1
<1>6. CASE ~CloseNoBid /\ CloseAuction
  <2>1. winner \in Users \cup {NoUser} /\ price \in Nat
    BY <1>0 DEF TypeOK
  <2>2. Appends(1, Charged)
    BY <1>0, <1>4, <1>6, <2>1, EmitAside DEF CloseAuction
  <2> QED
    BY <1>1, <2>2
<1>7. CASE ~CloseNoBid /\ CloseAuctionSealed
  <2> DEFINE sold(q) == Entry("AUCTION_SOLD", seq + 2, Top(sealed), q, 0, 0, NoScores)
  <2>1. HasBid(sealed)
    BY <1>7 DEF CloseAuctionSealed
  <2>2. PICK p \in Nat : Emit2(RevealedEvent(p), sold(p))
    <3>1. sealed[Top(sealed)] \in Nat /\ SecondPrice(sealed) \in Nat
      BY <1>0, <2>1, CoreTypes, OthersType, SecondPriceType
    <3> QED
      BY <1>7, <3>1 DEF CloseAuctionSealed
  <2>3. RevealedEvent(p) \in Event /\ sold(p) \in Event
    BY <1>0, <2>1, RevealEntries
  <2>4. /\ RevealedEvent(p).seq = seq + 1 /\ RevealedEvent(p).type = "AUCTION_REVEALED"
        /\ sold(p).seq = seq + 2 /\ sold(p).type = "AUCTION_SOLD"
    BY DEF RevealedEvent, Entry
  <2> HIDE DEF sold
  <2>5. /\ Grows(2) /\ stream'[Len(stream) + 1] = RevealedEvent(p)
        /\ stream'[Len(stream) + 2] = sold(p)
    BY <1>0, <2>2, <2>3, <2>4, Emit2Grows
  <2>6. \A i \in Len(stream) + 1 .. Len(stream) + 2 : i = Len(stream) + 1 \/ i = Len(stream) + 2
    BY <1>0
  <2> QED
    BY <1>1, <1>4, <2>4, <2>5, <2>6 DEF Appends, Grows
<1>8. CASE CloseAuctionDetailed
  BY <1>5, <1>6, <1>7, <1>8 DEF CloseAuctionDetailed, CloseAuctionAllPay
<1>9. ASSUME NEW c \in Users, CancelAuction(c) PROVE Forfeits' = {}
  <2>1. Appends(1, Charged)
    BY <1>0, <1>4, <1>9, EmitAside DEF CancelAuction
  <2> QED
    BY <1>1, <2>1
<1>10. CASE \/ \E r \in RuleSet : FreezeRules(r)
            \/ \E d \in Durations : StartAuction(d)
            \/ Tick \/ UNCHANGED vars
  BY <1>2, <1>10 DEF FreezeRules, StartAuction, Tick, vars
<1> QED
  BY <1>3, <1>8, <1>9, <1>10 DEF Next

\* What a sealed sale costs is settled by the step that sells.
LEMMA NextPayment ==
  CoreInv /\ SealedSecrecy /\ SealedPayment /\ [Next]_vars => SealedPayment'
<1> SUFFICES ASSUME CoreInv, SealedSecrecy, SealedPayment, [Next]_vars PROVE SealedPayment'
  OBVIOUS
<1>0. TypeOK
  BY DEF CoreInv
<1>1. CASE status = "SOLD"
  <2>1. UNCHANGED <<hash, leaderboard, sealed, stream, dedupe>>
    BY <1>1, EndedStays DEF Terminal
  <2> QED
    BY <2>1 DEF SealedPayment, VickreyPaysSecond, AllPayForfeitsRunnerUp, hash
<1>2. CASE status # "SOLD"
  <2>1. Forfeits = {}
    BY <1>2 DEF SealedPayment, AllPayForfeitsRunnerUp, Forfeits
  <2>2. CASE rules.mode = "ALL_PAY" /\ CloseAuctionAllPay /\ HasBid(sealed)
    <3>1. AllPayForfeitsRunnerUp'
      BY <1>2, <2>1, <2>2, AllPaySale
    <3>2. rules' = rules
      BY <2>2 DEF CloseAuctionAllPay, RevealAndSell
    <3> QED
      BY <2>2, <3>1, <3>2 DEF SealedPayment, VickreyPaysSecond
  <2>3. CASE ~(rules.mode = "ALL_PAY" /\ CloseAuctionAllPay /\ HasBid(sealed))
    <3>1. Forfeits' = {}
      BY <2>1, <2>3, ForfeitSteps
    <3>2. ~(rules'.mode = "ALL_PAY" /\ status' = "SOLD")
      BY <1>2, <2>3, SellingSteps DEF Ascending
    <3>3. AllPayForfeitsRunnerUp'
      BY <3>1, <3>2 DEF AllPayForfeitsRunnerUp, Forfeits
    <3>4. VickreyPaysSecond'
      <4> SUFFICES ASSUME rules'.mode = "VICKREY", status' = "SOLD" PROVE VickreyPaysSecond'
        BY DEF VickreyPaysSecond
      <4>1. rules.mode = "VICKREY" /\ CloseAuctionSealed /\ HasBid(sealed)
        BY <1>2, SellingSteps DEF Ascending
      <4>2. RevealAndSell(SecondPrice(sealed))
        BY <4>1 DEF CloseAuctionSealed
      <4> QED
        BY <1>0, <1>2, <4>1, <4>2, VickreySale
    <3> QED
      BY <3>3, <3>4 DEF SealedPayment
  <2> QED
    BY <2>2, <2>3
<1> QED
  BY <1>1, <1>2

\* A Vickrey sale costs the best losing bid or the reserve, an all-pay sale
\* charges the two best bidders, for any bids and ties (the close scripts).
THEOREM SealedSalesCharge == Spec => []SealedPayment
<1>1. Init => SealedPayment
  <2>1. 1 .. Len(<<>>) = {}
    OBVIOUS
  <2> QED
    BY <2>1 DEF Init, SealedPayment, VickreyPaysSecond, AllPayForfeitsRunnerUp
<1> QED
  BY <1>1, CoreInvariant, SealedBidsStaySecret, NextPayment, PTL DEF Spec

-----------------------------------------------------------------------------
(***************************************************************************)
(* The scripts implement AuctionOutcome.                                   *)
(***************************************************************************)

\* The refinement mapping: a user's standing offer is the best score of the
\* user in the public and the private set.
Offers == [u \in Users |-> IF leaderboard[u] < sealed[u] THEN sealed[u] ELSE leaderboard[u]]
Buyer  == IF status = "SOLD" THEN winner ELSE NoUser
Paid   == IF status = "SOLD" THEN price ELSE 0

\* In an ascending auction the offers are the leaderboard, in a sealed one that
\* is not sold the sealed set.
LEMMA OffersAre ==
  ASSUME CoreInv, MoneyInv, SealedSecrecy
  PROVE  /\ rules.mode \in Ascending => Offers = leaderboard
         /\ rules.mode \in Sealed /\ status # "SOLD" => Offers = sealed
<1>0. TypeOK /\ leaderboard \in [Users -> Nat] /\ sealed \in [Users -> Nat]
  BY CoreTypes DEF CoreInv
<1>1. CASE sealed = NoScores
  <2>1. \A u \in Users :
          (IF leaderboard[u] < sealed[u] THEN sealed[u] ELSE leaderboard[u]) = leaderboard[u]
    BY <1>0, <1>1 DEF NoScores
  <2> QED
    BY <1>0, <2>1, <1>1 DEF Offers, NoScores, SealedSecrecy
<1>2. CASE leaderboard = NoScores
  <2>1. \A u \in Users :
          (IF leaderboard[u] < sealed[u] THEN sealed[u] ELSE leaderboard[u]) = sealed[u]
    BY <1>0, <1>2 DEF NoScores
  <2>2. Offers = sealed
    BY <1>0, <2>1 DEF Offers
  <2>3. rules.mode \in Ascending => sealed = NoScores
    BY DEF MoneyInv, LeaderHoldsPrice
  <2> QED
    BY <1>2, <2>2, <2>3
<1> QED
  BY <1>1, <1>2 DEF MoneyInv, LeaderHoldsPrice, SealedSecrecy

\* A step that changes neither offers nor status is invisible.
LEMMA Invisible ==
  ASSUME Phase' = Phase, Offers' = Offers, Buyer' = Buyer, Paid' = Paid
  PROVE  UNCHANGED Outcome!vars
  BY DEF Outcome!vars, Offers, Buyer, Paid

\* An accepted ascending bid is an offer, and a cap hit a buy-now.
LEMMA AscendingOffers ==
  ASSUME CoreInv, MoneyInv, SealedSecrecy, rules.mode \in Ascending,
         NEW u \in Users, NEW r \in Reqs, NEW a \in Nat,
         NEW su \in Users \cup {NoUser}, NEW sa \in Nat, AscendingBid(u, r, a, su, sa)
  PROVE  Outcome!Next
<1>0. TypeOK /\ leaderboard \in [Users -> Nat] /\ price \in Nat /\ MaxMoney \in Nat
  BY CoreTypes, BoundsAssumption DEF CoreInv
<1>1. /\ status = "LIVE" /\ u # Seller /\ rules' = rules
      /\ price < a /\ a <= MaxMoney /\ price' = a /\ winner' = u /\ sealed' = sealed
      /\ leaderboard' = [leaderboard EXCEPT ![u] = a]
      /\ status' \in {"LIVE", "SOLD"}
  BY AscendingRaises
<1>2. sealed = NoScores /\ \A v \in Users : leaderboard[v] \in Nat /\ leaderboard[v] <= price
  BY <1>0 DEF MoneyInv, LeaderHoldsPrice
<1>3. Offers = leaderboard
  BY OffersAre
<1>4. Offers' = [Offers EXCEPT ![u] = a]
  <2>1. leaderboard' \in [Users -> Nat] /\ sealed' = NoScores
    BY <1>0, <1>1, <1>2
  <2>2. \A v \in Users :
          (IF leaderboard'[v] < sealed'[v] THEN sealed'[v] ELSE leaderboard'[v]) = leaderboard'[v]
    BY <2>1 DEF NoScores
  <2>3. Offers' = leaderboard'
    BY <2>1, <2>2 DEF Offers
  <2> QED
    BY <1>1, <1>3, <2>3
<1>5. /\ Phase = "open" /\ Buyer = NoUser /\ Paid = 0
      /\ status' = "LIVE" => Phase' = "open" /\ Buyer' = NoUser /\ Paid' = 0
      /\ status' = "SOLD" => Phase' = "sold" /\ Buyer' = u /\ Paid' = a
  BY <1>1 DEF Phase, Buyer, Paid
<1>6. Outcome!Raised(u, a)
  <2>1. Offers[u] < a
    BY <1>0, <1>1, <1>2, <1>3
  <2> QED
    BY <1>0, <1>1, <1>4, <2>1 DEF Outcome!Raised, Offers
<1>7. a \in 0 .. MaxMoney
  BY <1>0, <1>1
<1>8. CASE status' = "LIVE"
  <2>1. Outcome!Offer(u, a)
    BY <1>5, <1>6, <1>8 DEF Outcome!Offer, Buyer, Paid
  <2> QED
    BY <1>7, <2>1 DEF Outcome!Next
<1>9. CASE status' = "SOLD"
  <2>1. /\ Offers'[u] = a /\ a > 0
        /\ \A v \in Users \ {u} : Offers'[v] <= a
    BY <1>0, <1>1, <1>2, <1>3, <1>4
  <2>2. Outcome!Award(u, a)
    BY <1>0, <1>5, <1>9, <2>1 DEF Outcome!Award, Offers, Buyer, Paid
  <2>3. Outcome!BuyNow(u, a)
    BY <1>6, <2>2 DEF Outcome!BuyNow
  <2> QED
    BY <1>7, <2>3 DEF Outcome!Next
<1> QED
  BY <1>1, <1>8, <1>9

\* A sealed bid is an offer when it beats the bidder's own best, and changes
\* nothing anybody is promised when it does not.
LEMMA SealedOffers ==
  ASSUME CoreInv, MoneyInv, SealedSecrecy, rules.mode \in Sealed,
         NEW u \in Users, NEW r \in Reqs, NEW a \in Nat, PlaceBidSealed(u, r, a)
  PROVE  Outcome!Next \/ UNCHANGED Outcome!vars
<1>0. TypeOK /\ sealed \in [Users -> Nat] /\ MaxMoney \in Nat
  BY CoreTypes, BoundsAssumption DEF CoreInv
<1>1. status = "LIVE" /\ u # Seller /\ a <= MaxMoney
  BY SealedAdmits DEF PlaceBidSealed, InRange
<1>2. /\ sealed' = Raise(sealed, u, a) /\ leaderboard' = leaderboard
      /\ status' = status /\ winner' = winner /\ price' = price
  BY DEF PlaceBidSealed
<1>3. leaderboard = NoScores /\ Offers = sealed
  BY <1>1, OffersAre DEF SealedSecrecy
<1>4. Offers' = sealed'
  <2>1. sealed' \in [Users -> Nat] /\ leaderboard' = NoScores
    BY <1>0, <1>2, <1>3 DEF Raise
  <2>2. \A v \in Users :
          (IF leaderboard'[v] < sealed'[v] THEN sealed'[v] ELSE leaderboard'[v]) = sealed'[v]
    BY <2>1 DEF NoScores
  <2> QED
    BY <2>1, <2>2 DEF Offers
<1>5. Phase = "open" /\ Phase' = Phase /\ Buyer' = Buyer /\ Paid' = Paid
  BY <1>1, <1>2 DEF Phase, Buyer, Paid
<1>6. CASE sealed[u] < a
  <2>1. Offers' = [Offers EXCEPT ![u] = a]
    BY <1>0, <1>2, <1>3, <1>4, <1>6 DEF Raise
  <2>2. Outcome!Raised(u, a)
    BY <1>0, <1>1, <1>3, <1>6, <2>1 DEF Outcome!Raised, Offers
  <2>3. Outcome!Offer(u, a)
    BY <1>5, <2>2 DEF Outcome!Offer, Buyer, Paid
  <2>4. a \in 0 .. MaxMoney
    BY <1>0, <1>1
  <2> QED
    BY <2>3, <2>4 DEF Outcome!Next
<1>7. CASE ~(sealed[u] < a)
  <2>1. Offers' = Offers
    BY <1>0, <1>2, <1>3, <1>4, <1>7 DEF Raise
  <2> QED
    BY <1>5, <2>1, Invisible
<1> QED
  BY <1>6, <1>7

\* A sale to w at p on offers that stand.
LEMMA SaleIsSell ==
  ASSUME status = "LIVE", status' = "SOLD", Offers' = Offers, NEW w \in Users, winner' = w,
         NEW p \in 0 .. MaxMoney, price' = p, Offers[w] > 0, p <= Offers[w],
         \A v \in Users \ {w} : Offers[v] <= p
  PROVE  Outcome!Next
<1>1. /\ Phase = "open" /\ Phase' = "sold" /\ Buyer' = w /\ Paid' = p
  BY DEF Phase, Buyer, Paid
<1>2. Outcome!Award(w, p)
  BY <1>1 DEF Outcome!Award, Offers, Buyer, Paid
<1>3. Outcome!Sell(w, p)
  BY <1>2 DEF Outcome!Sell, Offers
<1> QED
  BY <1>3 DEF Outcome!Next

\* A hammer that finds no bid passes the lot in.
LEMMA NoBidIsPassIn ==
  ASSUME status = "LIVE", CloseNoBid, \A u \in Users : Offers[u] = 0
  PROVE  Outcome!Next
<1>1. Phase = "open" /\ Phase' = "unsold" /\ Offers' = Offers /\ Buyer' = Buyer /\ Paid' = Paid
  BY DEF CloseNoBid, Phase, Offers, Buyer, Paid
<1>2. Outcome!PassIn
  BY <1>1 DEF Outcome!PassIn, Offers, Buyer, Paid
<1> QED
  BY <1>2 DEF Outcome!Next

\* The hammer of an ascending auction sells to the leader at the price.
LEMMA CloseAuctionSells ==
  ASSUME CoreInv, MoneyInv, SealedSecrecy, rules.mode \in Ascending, CloseAuction
  PROVE  Outcome!Next
<1>0. /\ TypeOK /\ leaderboard \in [Users -> Nat] /\ price \in Nat /\ MaxMoney \in Nat
      /\ winner \in Users \cup {NoUser}
  BY CoreTypes, BoundsAssumption DEF CoreInv, TypeOK
<1>1. status = "LIVE" /\ Offers = leaderboard /\ price <= MaxMoney
  BY CloseAdmits, OffersAre DEF CloseAuction, MoneyInv, RoomToRaise
<1>2. CASE winner = NoUser /\ CloseNoBid
  <2>1. \A u \in Users : Offers[u] = 0
    BY <1>1, <1>2 DEF MoneyInv, LeaderHoldsPrice, NoScores
  <2> QED
    BY <1>1, <1>2, <2>1, NoBidIsPassIn
<1>3. CASE winner # NoUser /\ ~CloseNoBid
  <2>1. /\ status' = "SOLD" /\ winner' = winner /\ price' = price
        /\ leaderboard' = leaderboard /\ sealed' = sealed
    BY <1>3 DEF CloseAuction
  <2>2. /\ price > 0 /\ leaderboard[winner] = price
        /\ \A v \in Users : leaderboard[v] <= price
    BY <1>3 DEF MoneyInv, LeaderHoldsPrice
  <2>3. Offers' = Offers /\ price \in 0 .. MaxMoney /\ winner \in Users
    BY <1>0, <1>1, <1>3, <2>1 DEF Offers
  <2>4. PICK w \in Users, p \in 0 .. MaxMoney : w = winner /\ p = price
    BY <2>3
  <2> QED
    BY <1>0, <1>1, <2>1, <2>2, <2>3, <2>4, SaleIsSell
<1> QED
  BY <1>2, <1>3 DEF CloseAuction, CloseNoBid

\* The hammer of a sealed auction sells to the top bid, at a price between the
\* best losing bid and its own.
LEMMA CloseSealedSells ==
  ASSUME CoreInv, MoneyInv, SealedSecrecy, rules.mode \in Sealed, CloseCode = "OK",
         \/ ~HasBid(sealed) /\ CloseNoBid
         \/ /\ HasBid(sealed)
            /\ RevealAndSell(IF rules.mode = "VICKREY"
                             THEN SecondPrice(sealed) ELSE sealed[Top(sealed)])
  PROVE  Outcome!Next
<1>0. /\ TypeOK /\ sealed \in [Users -> Nat] /\ MaxMoney \in Nat /\ rules.startPrice \in Nat
      /\ \A v \in Users : sealed[v] \in Nat
  BY CoreTypes, BoundsAssumption DEF CoreInv
<1>1. status = "LIVE" /\ Offers = sealed /\ leaderboard = NoScores
  BY CloseAdmits, OffersAre DEF SealedSecrecy
<1>2. CASE ~HasBid(sealed) /\ CloseNoBid
  <2>1. \A u \in Users : Offers[u] = 0
    BY <1>0, <1>1, <1>2 DEF HasBid
  <2> QED
    BY <1>1, <1>2, <2>1, NoBidIsPassIn
<1>3. CASE HasBid(sealed) /\ ~CloseNoBid
  <2> DEFINE q == IF rules.mode = "VICKREY" THEN SecondPrice(sealed) ELSE sealed[Top(sealed)]
  <2>1. /\ Top(sealed) \in Users /\ sealed[Top(sealed)] > 0
        /\ \A v \in Users : sealed[v] <= sealed[Top(sealed)]
    BY <1>0, <1>3, TopIsBest
  <2>2. /\ rules.startPrice <= sealed[Top(sealed)]
        /\ \A v \in Users : sealed[v] > 0 => sealed[v] <= MaxMoney
    BY <2>1 DEF MoneyInv, ReserveMet
  <2>3. /\ q \in 0 .. MaxMoney /\ q <= sealed[Top(sealed)]
        /\ \A v \in Users \ {Top(sealed)} : sealed[v] <= q
    <3>1. CASE rules.mode = "VICKREY" /\ HasBid(Others(sealed))
      <4>1. PICK w \in Users \ {Top(sealed)} :
              /\ Others(sealed)[Top(Others(sealed))] = sealed[w] /\ sealed[w] > 0
              /\ \A v \in Users \ {Top(sealed)} : sealed[v] <= sealed[w]
        BY <1>0, <1>3, <3>1, RunnerUp
      <4>2. q = sealed[w]
        BY <3>1, <4>1 DEF SecondPrice
      <4> QED
        BY <1>0, <2>1, <2>2, <4>1, <4>2
    <3>2. CASE rules.mode = "VICKREY" /\ ~HasBid(Others(sealed))
      <4>1. \A v \in Users \ {Top(sealed)} : sealed[v] = 0
        BY <1>0, <1>3, <3>2, RunnerUp
      <4>2. q = rules.startPrice
        BY <3>2 DEF SecondPrice
      <4>3. rules.startPrice <= MaxMoney
        BY <1>1 DEF MoneyInv, RulesAreValid, Validate
      <4> QED
        BY <1>0, <2>2, <4>1, <4>2, <4>3
    <3>3. CASE rules.mode # "VICKREY"
      <4>1. q = sealed[Top(sealed)]
        BY <3>3
      <4> QED
        BY <1>0, <2>1, <2>2, <4>1
    <3> QED
      BY <3>1, <3>2, <3>3
  <2>4. RevealAndSell(q)
    BY <1>3
  <2> HIDE DEF q
  <2>5. /\ leaderboard' = sealed /\ winner' = Top(sealed) /\ price' = q /\ status' = "SOLD"
        /\ sealed' = NoScores
    <3>1. q \in Nat
      BY <1>0, <2>3
    <3>2. sealed' = NoScores
      BY <2>4 DEF RevealAndSell
    <3> QED
      BY <1>0, <1>1, <1>3, <2>4, <3>1, <3>2, RevealWrites
  <2>6. Offers' = Offers
    <3>1. \A v \in Users : (IF leaderboard'[v] < sealed'[v] THEN sealed'[v] ELSE leaderboard'[v])
                           = sealed[v]
      BY <1>0, <2>5 DEF NoScores
    <3> QED
      BY <1>0, <1>1, <3>1 DEF Offers
  <2>7. PICK w \in Users, p \in 0 .. MaxMoney : w = Top(sealed) /\ p = q
    BY <2>1, <2>3
  <2> QED
    BY <1>1, <2>1, <2>3, <2>5, <2>6, <2>7, SaleIsSell
<1> QED
  BY <1>2, <1>3 DEF CloseNoBid, RevealAndSell

\* Every step of the scripts is a step of AuctionOutcome or invisible to it.
LEMMA NextOutcome ==
  ASSUME CoreInv, MoneyInv, SealedSecrecy, [Next]_vars
  PROVE  Outcome!Next \/ UNCHANGED Outcome!vars
<1>0. /\ TypeOK /\ winner \in Users \cup {NoUser} /\ price \in Nat /\ BidAmounts \subseteq Nat
  BY BoundsAssumption DEF CoreInv, TypeOK
<1>1. CASE \E r \in RuleSet : FreezeRules(r)
  <2>1. Phase' = Phase /\ Offers' = Offers /\ Buyer' = Buyer /\ Paid' = Paid
    BY <1>1 DEF FreezeRules, Phase, Offers, Buyer, Paid
  <2> QED
    BY <2>1, Invisible
<1>2. CASE \E d \in Durations : StartAuction(d)
  <2>1. Phase' = Phase /\ Offers' = Offers /\ Buyer' = Buyer /\ Paid' = Paid
    BY <1>2 DEF StartAuction, Phase, Offers, Buyer, Paid
  <2> QED
    BY <2>1, Invisible
<1>3. ASSUME NEW u \in Users, NEW r \in Reqs, NEW a \in BidAmounts, Bid(u, r, a)
      PROVE  Outcome!Next \/ UNCHANGED Outcome!vars
  <2>0. a \in Nat /\ u \in Users \cup {NoUser}
    BY <1>0
  <2>1. CASE rules.mode \in Plain /\ PlaceBid(u, r, a)
    <3>1. AscendingBid(u, r, a, u, a) /\ rules.mode \in Ascending
      BY <2>1 DEF PlaceBid, AscendingBid, Plain, Ascending
    <3> QED
      BY <2>0, <3>1, AscendingOffers
  <2>2. CASE rules.mode = "HYBRID_REVEAL" /\ PlaceBidHybrid(u, r, a)
    <3>1. AscendingBid(u, r, a, winner, price) /\ rules.mode \in Ascending
      BY <2>2 DEF PlaceBidHybrid, AscendingBid, Ascending
    <3> QED
      BY <1>0, <2>0, <3>1, AscendingOffers
  <2>3. CASE rules.mode \in Sealed /\ PlaceBidSealed(u, r, a)
    BY <2>0, <2>3, SealedOffers
  <2> QED
    BY <1>3, <2>1, <2>2, <2>3 DEF Bid
<1>4. CASE CloseAuctionDetailed
  <2>1. CASE rules.mode \in Ascending /\ CloseAuction
    BY <2>1, CloseAuctionSells
  <2>2. CASE rules.mode \in {"SEALED_FIRST", "VICKREY"} /\ CloseAuctionSealed
    BY <2>2, CloseSealedSells DEF CloseAuctionSealed, Sealed
  <2>3. CASE rules.mode = "ALL_PAY" /\ CloseAuctionAllPay
    BY <2>3, CloseSealedSells DEF CloseAuctionAllPay, Sealed
  <2> QED
    BY <1>4, <2>1, <2>2, <2>3 DEF CloseAuctionDetailed
<1>5. CASE \E c \in Users : CancelAuction(c)
  <2>1. /\ Phase = "open" /\ Phase' = "cancelled" /\ Offers' = Offers
        /\ Buyer' = Buyer /\ Paid' = Paid
    BY <1>5 DEF CancelAuction, CancelCode, Phase, Offers, Buyer, Paid, Terminal
  <2>2. Outcome!Cancel
    BY <2>1 DEF Outcome!Cancel, Offers, Buyer, Paid
  <2> QED
    BY <2>2 DEF Outcome!Next
<1>6. CASE Tick \/ UNCHANGED vars
  <2>1. Phase' = Phase /\ Offers' = Offers /\ Buyer' = Buyer /\ Paid' = Paid
    BY <1>6 DEF Tick, vars, hash, Phase, Offers, Buyer, Paid
  <2> QED
    BY <2>1, Invisible
<1> QED
  BY <1>1, <1>2, <1>3, <1>4, <1>5, <1>6 DEF Next

\* For any users, rules, amounts and bounds the nine scripts implement
\* AuctionOutcome: every run of theirs is, step for step, a run of it.
THEOREM ScriptsImplementOutcome == Spec => ImplementsOutcome
<1>1. Init => Outcome!Init
  <2> SUFFICES ASSUME Init PROVE Outcome!Init
    OBVIOUS
  <2>1. Phase = "open" /\ Offers = [u \in Users |-> 0] /\ Buyer = NoUser /\ Paid = 0
    BY DEF Init, Phase, Offers, Buyer, Paid, NoScores
  <2> QED
    BY <2>1 DEF Outcome!Init, Offers, Buyer, Paid
<1>2. (CoreInv /\ MoneyInv) /\ SealedSecrecy /\ [Next]_vars => [Outcome!Next]_Outcome!vars
  BY NextOutcome
<1> QED
  BY <1>1, <1>2, MoneyInvariant, SealedBidsStaySecret, PTL
     DEF Spec, ImplementsOutcome, Outcome!Spec
=============================================================================
