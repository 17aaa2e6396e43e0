---------------------------- MODULE Crowd_proofs ----------------------------
(***************************************************************************)
(* The engineering boundaries of the demo crowd, for every rule set, every *)
(* PATCH, every pool of sim users and every bid budget.                    *)
(*                                                                         *)
(* A PATCH may let the crowd into an auction of another mode, where its    *)
(* bids run place_bid.lua, so CoreInv is not available here either; what   *)
(* the boundaries rest on is stated for whatever auction is running.       *)
(***************************************************************************)
EXTENDS Crowd, AuctionEngine_proofs

-----------------------------------------------------------------------------
(***************************************************************************)
(* The invariant.                                                          *)
(***************************************************************************)

\* The map entry of the crowd and the locals of its loop.
Run ==
  [pc : {"gone", "begin", "loop", "bid"}, cancelled : BOOLEAN, users : SUBSET Sims,
   bidsDone : Nat, stopped : BOOLEAN, user : Sims \cup {NoUser}, amount : Nat, at : Nat]

CrowdTypes ==
  /\ TypeOK
  /\ row \in RuleRecord /\ starting \in {"", "project", "spawn"}
  /\ run \in Run /\ lost \in Nat
  /\ crowdRules \in RuleRecord /\ crowdRules.mode = "ENGLISH"

\* The crowd comes once, after the start: nothing is left of an earlier one.
CrowdComesOnce ==
  /\ status \in {"NONE", "SCHEDULED"} =>
       stream = <<>> /\ starting = "" /\ run.pc = "gone"
  /\ starting # "" => run.pc = "gone"

\* No crowd has bid yet.
Uncrowded ==
  status \in {"NONE", "SCHEDULED"} \/ starting # "" \/ run.pc = "begin"

\* What a bid in flight still guarantees: its snapshot is not too old, was
\* taken before the quiet tail of the deadline, and its amount is no buy-now.
BidInFlight ==
  run.pc = "bid" =>
    /\ run.user \in Sims /\ run.bidsDone < BidsTarget
    /\ crowdRules.cap > 0 => run.amount < crowdRules.cap
    /\ now <= run.at + CallLatency
    /\ endAt - run.at > crowdRules.extendWindow + QuietExtra

\* The bids in the log, as far as it tells whose they are.
SimBidsInBounds ==
  rules.mode # "HYBRID_REVEAL" =>
    /\ Uncrowded => SimBids = {}
    /\ crowdRules = rules => NeverBuys /\ NeverSnipes
    /\ Cardinality(SimBids) <= BidsTarget + lost
    /\ run.pc \in {"loop", "bid"} /\ status \notin Terminal =>
         Cardinality(SimBids) <= run.bidsDone + lost

CrowdInv == CrowdTypes /\ CrowdComesOnce /\ BidInFlight /\ SimBidsInBounds

\* CrowdBoundaries is the invariant without its strengthening: the crowd's own
\* rules are never those of a hybrid auction.
LEMMA CrowdInvBounds == CrowdInv => CrowdBoundaries
  BY DEF CrowdInv, CrowdTypes, SimBidsInBounds, CrowdBoundaries

-----------------------------------------------------------------------------
(***************************************************************************)
(* The engine's steps as the crowd sees them.                              *)
(***************************************************************************)

\* The step keeps the log, and no entry that it appends names a sim's bid.
NoSimBid ==
  /\ Len(stream') \in Nat /\ Len(stream) <= Len(stream')
  /\ \A i \in 1 .. Len(stream) : stream'[i] = stream[i]
  /\ \A i \in Len(stream) + 1 .. Len(stream') :
       ~(stream'[i].type \in BidTypes /\ stream'[i].user \in Sims)

\* The places of the sim bids, and what is there, stay.
LEMMA SimBidsStay ==
  ASSUME TypeOK, NoSimBid
  PROVE  SimBids' = SimBids /\ \A i \in SimBids : stream'[i] = stream[i]
<1>1. Len(stream) \in Nat
  BY CoreTypes
<1>2. ASSUME NEW i \in 1 .. Len(stream') PROVE i \in 1 .. Len(stream) \/ i \in Len(stream) + 1 .. Len(stream')
  BY <1>1 DEF NoSimBid
<1>3. ASSUME NEW i \in 1 .. Len(stream) PROVE i \in 1 .. Len(stream')
  BY <1>1 DEF NoSimBid
<1> QED
  BY <1>2, <1>3 DEF NoSimBid, SimBids

\* A script that appends entries that are no bids.
LEMMA AppendsNoSimBid ==
  ASSUME TypeOK, NEW k \in Nat, NEW T, Appends(k, T), T \cap BidTypes = {}
  PROVE  NoSimBid
<1>1. Len(stream) \in Nat /\ Len(stream') = Len(stream) + k
  BY CoreTypes DEF Appends
<1>2. Len(stream') \in Nat /\ Len(stream) <= Len(stream')
  BY <1>1
<1>3. \A i \in Len(stream) + 1 .. Len(stream') : stream'[i].type \in T
  BY <1>1 DEF Appends
<1> QED
  BY <1>2, <1>3 DEF NoSimBid, Appends

\* The entries of an ascending bid that shows its bidder, who is su.
LEMMA BidIsOwn ==
  ASSUME TypeOK, NEW u \in Users, NEW r \in Reqs, NEW a \in Nat,
         NEW su \in Users \cup {NoUser}, NEW sa \in Nat, AscendingBid(u, r, a, su, sa)
  PROVE  \E k \in {1, 2} :
           /\ Len(stream') = Len(stream) + k
           /\ \A i \in 1 .. Len(stream) : stream'[i] = stream[i]
           /\ stream'[Len(stream) + 1].type = "BID_ACCEPTED"
           /\ stream'[Len(stream) + 1].user \in {u, su}
           /\ stream'[Len(stream) + 1].amount \in {a, sa}
           /\ stream'[Len(stream) + 1].at = now
           /\ stream'[Len(stream) + 1].endAt \in {endAt, endAt + rules.extendSec}
           /\ k = 2 => stream'[Len(stream) + 2].type \notin BidTypes
<1>1. CASE BidAccepted(u, r, a, su, sa)
  <2>1. Grows(1) /\ stream'[Len(stream) + 1] = BidEvent(su, sa, endAt)
    BY <1>1, AcceptedAppends
  <2> QED
    BY <2>1, BidEventSays DEF Grows
<1>2. CASE BidExtended(u, r, a, su, sa)
  <2>1. /\ Grows(2)
        /\ stream'[Len(stream) + 1] = BidEvent(su, sa, endAt + rules.extendSec)
        /\ stream'[Len(stream) + 2] = ExtensionEvent(endAt + rules.extendSec)
    BY <1>2, ExtendedAppends
  <2>2. ExtensionEvent(endAt + rules.extendSec).type \notin BidTypes
    BY DEF ExtensionEvent, Entry, BidTypes
  <2> QED
    BY <2>1, <2>2, BidEventSays DEF Grows
<1>3. CASE BidSold(u, r, a)
  <2>1. /\ Grows(2)
        /\ stream'[Len(stream) + 1] = BidEvent(u, a, endAt)
        /\ stream'[Len(stream) + 2] = SaleEvent(u, a)
    BY <1>3, SoldAppends
  <2>2. SaleEvent(u, a).type \notin BidTypes
    BY DEF SaleEvent, Entry, BidTypes
  <2> QED
    BY <2>1, <2>2, BidEventSays DEF Grows
<1> QED
  BY <1>1, <1>2, <1>3 DEF AscendingBid

\* In every mode but the hybrid one the bid of somebody else is no sim's.
LEMMA OthersBid ==
  ASSUME TypeOK, NEW u \in Users \ Sims, NEW r \in Reqs, NEW a \in Nat, NEW sa \in Nat,
         AscendingBid(u, r, a, u, sa)
  PROVE  NoSimBid
<1>0. Len(stream) \in Nat /\ u \in Users \cup {NoUser}
  BY CoreTypes
<1>1. PICK k \in {1, 2} :
         /\ Len(stream') = Len(stream) + k
         /\ \A i \in 1 .. Len(stream) : stream'[i] = stream[i]
         /\ stream'[Len(stream) + 1].user = u
         /\ k = 2 => stream'[Len(stream) + 2].type \notin BidTypes
  BY <1>0, BidIsOwn
<1>2. \A i \in Len(stream) + 1 .. Len(stream') :
        i = Len(stream) + 1 \/ (k = 2 /\ i = Len(stream) + 2)
  BY <1>0, <1>1
<1> QED
  BY <1>0, <1>1, <1>2 DEF NoSimBid

\* What a script that is no bid of the crowd does to a running auction.
Elsewhere ==
  /\ TypeOK' /\ rules' = rules
  /\ rules.mode # "HYBRID_REVEAL" => NoSimBid
  /\ status \notin {"NONE", "SCHEDULED"} => status' \notin {"NONE", "SCHEDULED"}
  /\ status \in {"NONE", "SCHEDULED"} =>
       status' \in Terminal \/ (status' = status /\ stream' = stream)
  /\ status \in Terminal => status' \in Terminal
  /\ endAt <= endAt'

\* A human's bid is the human's in every mode but the hybrid one.
LEMMA HumanIsElsewhere ==
  ASSUME TypeOK, NEW u \in Users \ Sims, NEW r \in Reqs, NEW a \in BidAmounts, Bid(u, r, a)
  PROVE  Elsewhere /\ now' = now
<1>0. /\ a \in Nat /\ price \in Nat /\ endAt \in Nat /\ Len(stream) \in Nat
      /\ rules.extendSec \in Nat /\ NoScores \in [Users -> Nat] /\ winner \in Users \cup {NoUser}
  BY CoreTypes, BoundsAssumption DEF TypeOK
<1>1. ASSUME NEW su \in Users \cup {NoUser}, NEW sa \in Nat, su = u \/ rules.mode = "HYBRID_REVEAL",
             AscendingBid(u, r, a, su, sa)
      PROVE  Elsewhere /\ now' = now
  <2>1. TypeOK'
    BY <1>0, <1>1, AscendingType DEF AscendingBid
  <2>2. AscendingCode(u, r, a) \in {"OK_ACCEPTED", "OK_EXTENDED", "OK_SOLD"}
    BY <1>1 DEF AscendingBid, BidAccepted, BidExtended, BidSold
  <2>3. status = "LIVE"
    BY <2>2, AscendingAdmits
  <2>4. /\ status' \in {"LIVE", "SOLD"} /\ rules' = rules /\ now' = now
        /\ endAt' = endAt \/ endAt' = endAt + rules.extendSec
    BY <1>1, <2>3 DEF AscendingBid, BidAccepted, BidExtended, BidSold, AcceptBid
  <2>5. rules.mode # "HYBRID_REVEAL" => NoSimBid
    BY <1>0, <1>1, OthersBid
  <2> QED
    BY <1>0, <2>1, <2>3, <2>4, <2>5 DEF Elsewhere, Terminal
<1>2. CASE PlaceBidSealed(u, r, a)
  <2>1. TypeOK'
    BY <1>0, <1>2, SealedType
  <2>2. status = "LIVE"
    BY <1>2, SealedAdmits DEF PlaceBidSealed
  <2>3. status' = status /\ rules' = rules /\ endAt' = endAt /\ now' = now
    BY <1>2 DEF PlaceBidSealed
  <2>4. NoSimBid
    <3> DEFINE e == Entry("SEALED_BID_RECEIVED", seq + 1, u, 0, 0, SealedCount(u), NoScores)
    <3>1. SealedCount(u) \in Nat
      BY UsersAssumption, FS_Subset, FS_CardinalityType DEF SealedCount
    <3>2. e \in Event
      <4>1. "SEALED_BID_RECEIVED" \in EventTypes /\ seq + 1 \in Nat
        BY CoreTypes DEF EventTypes, BidTypes
      <4> QED
        BY <1>0, <3>1, <4>1, EntryIsEvent
    <3>3. e.seq = seq + 1 /\ e.user = u /\ Emit(e)
      BY <1>2 DEF Entry, PlaceBidSealed
    <3> HIDE DEF e
    <3>4. Grows(1) /\ stream'[Len(stream) + 1] = e
      BY <3>2, <3>3, EmitGrows
    <3>5. \A i \in Len(stream) + 1 .. Len(stream) + 1 : i = Len(stream) + 1
      BY <1>0
    <3> QED
      BY <1>0, <3>3, <3>4, <3>5 DEF NoSimBid, Grows
  <2> QED
    BY <1>0, <2>1, <2>2, <2>3, <2>4 DEF Elsewhere, Terminal
<1> QED
  BY <1>0, <1>1, <1>2 DEF Bid, PlaceBid, PlaceBidHybrid, AscendingBid

\* The hammer.
LEMMA HammerIsElsewhere ==
  ASSUME TypeOK, CloseAuctionDetailed
  PROVE  Elsewhere /\ now' = now
<1>1. PICK k \in Nat : Aside(k) /\ Appends(k, ClosingTypes)
  BY CloseAside
<1>2. ClosingTypes \cap BidTypes = {}
  BY DEF ClosingTypes, TerminalTypes, BidTypes
<1>3. NoSimBid
  BY <1>1, <1>2, AppendsNoSimBid
<1>4. status = "LIVE"
  BY CloseAdmits DEF CloseAuctionDetailed, CloseAuction, CloseAuctionSealed, CloseAuctionAllPay
<1>5. status' \in Terminal /\ now' = now
  BY DEF CloseAuctionDetailed, CloseAuction, CloseAuctionSealed, CloseAuctionAllPay,
         CloseNoBid, RevealAndSell, Terminal
<1>6. TypeOK' /\ endAt \in Nat
  BY NextType, CoreTypes DEF Next
<1> QED
  BY <1>1, <1>3, <1>4, <1>5, <1>6 DEF Elsewhere, Aside, Terminal

\* A cancel, before or after the start.
LEMMA CancelIsElsewhere ==
  ASSUME TypeOK, CancelAuction(Seller)
  PROVE  Elsewhere /\ now' = now
<1>1. TypeOK' /\ endAt \in Nat /\ Seller \in Users
  BY UsersAssumption, CancelType, CoreTypes
<1>2. "AUCTION_CANCELLED" \in ClosingTypes \cap EventTypes /\ ClosingTypes \cap BidTypes = {}
  BY DEF ClosingTypes, TerminalTypes, EventTypes, BidTypes
<1>3. Appends(1, ClosingTypes)
  BY <1>2, EmitAside DEF CancelAuction
<1>4. NoSimBid
  BY <1>2, <1>3, AppendsNoSimBid
<1>5. /\ status \notin Terminal /\ status' \in Terminal
      /\ rules' = rules /\ endAt' = endAt /\ now' = now
  BY DEF CancelAuction, CancelCode, Terminal
<1> QED
  BY <1>1, <1>4, <1>5 DEF Elsewhere, Terminal

-----------------------------------------------------------------------------
(***************************************************************************)
(* The invariant is inductive.                                             *)
(***************************************************************************)

\* An empty log holds no sim bid.
LEMMA NothingLogged == stream = <<>> => SimBids = {}
<1>1. stream = <<>> => 1 .. Len(stream) = {}
  OBVIOUS
<1> QED
  BY <1>1 DEF SimBids

\* It holds before the first request.
LEMMA CrowdInit == CInit => CrowdInv
<1> SUFFICES ASSUME CInit PROVE CrowdInv
  OBVIOUS
<1>1. TypeOK
  BY InitType DEF CInit
<1>2. NoRules \in RuleRecord /\ NoRules.mode = "ENGLISH"
  BY DEF NoRules, RuleRecord, Modes, Ascending
<1>3. NoRun \in Run /\ NoRun.pc = "gone"
  BY DEF NoRun, Run
<1>4. CrowdTypes /\ CrowdComesOnce /\ BidInFlight
  BY <1>1, <1>2, <1>3 DEF CInit, Init, CrowdTypes, CrowdComesOnce, BidInFlight
<1>5. SimBids = {} /\ Cardinality(SimBids) = 0 /\ BidsTarget \in Nat
  <2>0. stream = <<>>
    BY DEF CInit, Init
  <2>1. SimBids = {}
    BY <2>0, NothingLogged
  <2> QED
    BY <2>1, FS_EmptySet, CrowdAssumption
<1>6. lost = 0 /\ run.pc = "gone"
  BY <1>3 DEF CInit
<1>7. NeverBuys /\ NeverSnipes
  BY <1>5 DEF NeverBuys, NeverSnipes
<1>8. SimBidsInBounds
  BY <1>5, <1>6, <1>7 DEF SimBidsInBounds
<1> QED
  BY <1>4, <1>8 DEF CrowdInv

\* What the invariant says of the types.
LEMMA CrowdFacts ==
  ASSUME CrowdTypes
  PROVE  /\ run.pc \in {"gone", "begin", "loop", "bid"} /\ run.bidsDone \in Nat
         /\ run.amount \in Nat /\ run.at \in Nat /\ run.users \subseteq Sims
         /\ lost \in Nat /\ now \in Nat /\ endAt \in Nat /\ price \in Nat
         /\ Len(stream) \in Nat /\ BidsTarget \in Nat
         /\ QuietExtra \in Nat /\ CallLatency \in Nat /\ CallLatency <= QuietExtra
         /\ crowdRules.cap \in Nat /\ crowdRules.increment \in Nat
         /\ crowdRules.extendWindow \in Nat
         /\ IsFiniteSet(SimBids) /\ Cardinality(SimBids) \in Nat
         /\ Sims \subseteq Users
<1>1. /\ run.pc \in {"gone", "begin", "loop", "bid"} /\ run.bidsDone \in Nat
      /\ run.amount \in Nat /\ run.at \in Nat /\ run.users \subseteq Sims /\ lost \in Nat
  BY DEF CrowdTypes, Run
<1>2. now \in Nat /\ endAt \in Nat /\ price \in Nat /\ Len(stream) \in Nat
  BY CoreTypes DEF CrowdTypes
<1>3. /\ crowdRules.cap \in Nat /\ crowdRules.increment \in Nat
      /\ crowdRules.extendWindow \in Nat
  BY DEF CrowdTypes, RuleRecord
<1>4. IsFiniteSet(SimBids) /\ Cardinality(SimBids) \in Nat
  <2>1. IsFiniteSet(1 .. Len(stream)) /\ SimBids \subseteq 1 .. Len(stream)
    BY <1>2, FS_Interval DEF SimBids
  <2> QED
    BY <2>1, FS_Subset, FS_CardinalityType
<1>5. /\ BidsTarget \in Nat /\ Sims \subseteq Users
      /\ QuietExtra \in Nat /\ CallLatency \in Nat /\ CallLatency <= QuietExtra
  BY CrowdAssumption
<1> QED
  BY <1>1, <1>2, <1>3, <1>4, <1>5

\* The sim bids of the next state can be counted, too.
LEMMA SimBidsCount == CrowdTypes' => Cardinality(SimBids') \in Nat
<1> SUFFICES ASSUME CrowdTypes' PROVE Cardinality(SimBids') \in Nat
  OBVIOUS
<1>0. stream' \in Seq(Event)
  BY DEF CrowdTypes, TypeOK
<1>1. Len(stream') \in Nat
  BY <1>0
<1>2. IsFiniteSet(1 .. Len(stream')) /\ SimBids' \subseteq 1 .. Len(stream')
  BY <1>1, FS_Interval DEF SimBids
<1> QED
  BY <1>2, FS_Subset, FS_CardinalityType

\* The bid after m bids is within a budget above m.
LEMMA NextOfBudget == \A m, n \in Nat : m < n => m + 1 \in 1 .. n
  OBVIOUS

\* What the quiet extra is for: a bid that reaches the script at most l after
\* its snapshot still comes before the window w of the deadline e.
LEMMA QuietTailHolds ==
  \A e, t, s, w, q, l \in Nat :
    t <= s + l /\ l <= q /\ e - s > w + q => e - t > w
  OBVIOUS

\* No bids are within any budget.
LEMMA RoomForNone == \A m, n \in Nat : 0 <= m + n
  OBVIOUS

\* Neither boundary of an old bid is touched while the log and the rules stay.
LEMMA BoundsStay ==
  ASSUME SimBids' = SimBids, \A i \in SimBids : stream'[i] = stream[i], rules' = rules
  PROVE  NeverBuys' = NeverBuys /\ NeverSnipes' = NeverSnipes
  BY DEF NeverBuys, NeverSnipes

\* A script of somebody else, the crowd and the handlers standing still.
LEMMA ElsewhereKeeps ==
  ASSUME CrowdInv, Elsewhere, now' = now,
         UNCHANGED <<row, starting, run, crowdRules, lost>>
  PROVE  CrowdInv'
<1>0. CrowdTypes /\ TypeOK
  BY DEF CrowdInv, CrowdTypes
<1>1. CrowdTypes'
  BY <1>0 DEF CrowdTypes, Elsewhere
<1>2. CrowdComesOnce'
  BY DEF CrowdInv, CrowdComesOnce, Elsewhere, Terminal
<1>3. BidInFlight'
  <2>1. endAt' \in Nat /\ endAt <= endAt'
    BY DEF Elsewhere, TypeOK
  <2>2. /\ endAt \in Nat /\ run.at \in Nat
        /\ crowdRules.extendWindow \in Nat /\ QuietExtra \in Nat
    BY <1>0, CrowdFacts
  <2>3. endAt - run.at > crowdRules.extendWindow + QuietExtra =>
          endAt' - run.at > crowdRules.extendWindow + QuietExtra
    BY <2>1, <2>2
  <2> QED
    BY <2>3 DEF CrowdInv, BidInFlight
<1>4. ASSUME rules.mode # "HYBRID_REVEAL"
      PROVE  SimBidsInBounds'
  <2>1. SimBids' = SimBids /\ rules' = rules /\ NeverBuys' = NeverBuys /\ NeverSnipes' = NeverSnipes
    BY <1>0, <1>4, SimBidsStay, BoundsStay DEF Elsewhere
  <2>2. Uncrowded' => Uncrowded
    BY DEF Uncrowded, Elsewhere
  <2>3. status' \notin Terminal => status \notin Terminal
    BY DEF Elsewhere
  <2> QED
    BY <1>4, <2>1, <2>2, <2>3 DEF CrowdInv, SimBidsInBounds
<1>5. ASSUME rules.mode = "HYBRID_REVEAL"
      PROVE  SimBidsInBounds'
  BY <1>5 DEF SimBidsInBounds, Elsewhere
<1> QED
  BY <1>1, <1>2, <1>3, <1>4, <1>5 DEF CrowdInv

\* freeze_rules and start_auction come before the first bid.
LEMMA StartKeeps ==
  ASSUME CrowdInv, UNCHANGED <<run, crowdRules, lost>>,
         \/ \E r \in RuleSet : FreezeRules(r) /\ row' = r /\ starting' = starting
         \/ \E d \in Durations : StartAuction(d) /\ row' = row /\ starting' = "project"
  PROVE  CrowdInv'
<1>0. CrowdTypes /\ TypeOK
  BY DEF CrowdInv, CrowdTypes
<1>1. TypeOK'
  BY <1>0, NextType DEF Next
<1>2. CrowdTypes'
  BY <1>0, <1>1, RulesAssumption DEF CrowdTypes
<1>3. /\ status \in {"NONE", "SCHEDULED"} /\ stream' = stream /\ starting' \in {starting, "project"}
      /\ status' \in {"SCHEDULED", "LIVE"} /\ (status' = "SCHEDULED" => starting' = starting)
  BY DEF FreezeRules, StartAuction
<1>4. stream = <<>> /\ starting = "" /\ run.pc = "gone" /\ run'.pc = "gone"
  BY <1>3 DEF CrowdInv, CrowdComesOnce
<1>5. CrowdComesOnce' /\ BidInFlight'
  BY <1>3, <1>4 DEF CrowdComesOnce, BidInFlight
<1>6. SimBids' = {} /\ Cardinality(SimBids') = 0
  <2>1. stream' = <<>>
    BY <1>3, <1>4
  <2>2. 1 .. Len(stream') = {}
    BY <2>1
  <2>3. SimBids' = {}
    BY <2>2 DEF SimBids
  <2> QED
    BY <2>3, FS_EmptySet
<1>7. NeverBuys' /\ NeverSnipes'
  BY <1>6 DEF NeverBuys, NeverSnipes
<1>8. BidsTarget \in Nat /\ lost' \in Nat
  BY <1>0, CrowdFacts
<1>9. 0 <= BidsTarget + lost'
  BY <1>8, RoomForNone
<1>10. SimBidsInBounds'
  BY <1>4, <1>6, <1>7, <1>9 DEF SimBidsInBounds
<1> QED
  BY <1>2, <1>5, <1>10 DEF CrowdInv

\* The crowd or a handler moves while the engine stands still: what is left to
\* show is about the run alone.
LEMMA CrowdMoves ==
  ASSUME CrowdInv, UNCHANGED vars,
         row' \in RuleRecord, starting' \in {"", "project", "spawn"}, run' \in Run, lost' = lost,
         \/ crowdRules' = crowdRules
         \/ run.pc = "begin" /\ crowdRules' \in RuleRecord /\ crowdRules'.mode = "ENGLISH",
         CrowdComesOnce', BidInFlight',
         Uncrowded' => Uncrowded,
         run'.pc \in {"loop", "bid"} =>
           run.pc = "begin" \/ (run.pc \in {"loop", "bid"} /\ run'.bidsDone = run.bidsDone)
  PROVE  CrowdInv'
<1>0. CrowdTypes /\ TypeOK /\ run'.bidsDone \in Nat
  BY DEF CrowdInv, CrowdTypes, Run
<1>1. status' = status /\ stream' = stream /\ rules' = rules /\ endAt' = endAt
  BY DEF vars, hash
<1>2. TypeOK'
  BY <1>0, NextType
<1>3. CrowdTypes'
  BY <1>0, <1>2 DEF CrowdTypes
<1>4. SimBids' = SimBids /\ NeverBuys' = NeverBuys /\ NeverSnipes' = NeverSnipes
  BY <1>1 DEF SimBids, NeverBuys, NeverSnipes
<1>5. CASE run.pc = "begin"
  <2>1. ASSUME rules.mode # "HYBRID_REVEAL" PROVE SimBids' = {} /\ Cardinality(SimBids') = 0
    <3>1. SimBids' = {}
      BY <1>4, <1>5, <2>1 DEF CrowdInv, SimBidsInBounds, Uncrowded
    <3> QED
      BY <3>1, FS_EmptySet
  <2>2. rules'.mode # "HYBRID_REVEAL" => NeverBuys' /\ NeverSnipes'
    BY <1>1, <2>1 DEF NeverBuys, NeverSnipes
  <2>3. BidsTarget \in Nat /\ lost' \in Nat /\ run'.bidsDone \in Nat
    BY <1>0, CrowdFacts
  <2>4. 0 <= BidsTarget + lost' /\ 0 <= run'.bidsDone + lost'
    BY <2>3, RoomForNone
  <2>5. SimBidsInBounds'
    BY <1>1, <2>1, <2>2, <2>4 DEF SimBidsInBounds
  <2> QED
    BY <1>3, <2>5 DEF CrowdInv
<1>6. CASE run.pc # "begin"
  <2>1. crowdRules' = crowdRules
    BY <1>6
  <2>2. SimBidsInBounds'
    BY <1>1, <1>4, <1>6, <2>1 DEF CrowdInv, SimBidsInBounds
  <2> QED
    BY <1>3, <2>2 DEF CrowdInv
<1> QED
  BY <1>5, <1>6

\* Time passes, but not beyond a bid in flight.
LEMMA TickKeeps ==
  ASSUME CrowdInv, CrowdTick
  PROVE  CrowdInv'
<1>0. CrowdTypes /\ TypeOK
  BY DEF CrowdInv, CrowdTypes
<1>1. /\ UNCHANGED <<status, rules, endAt, stream>> /\ now' = now + 1
      /\ UNCHANGED <<row, starting, run, crowdRules, lost>>
      /\ run.pc = "bid" => now < run.at + CallLatency
  BY DEF CrowdTick, Tick, hash, handlerVars, crowdVars
<1>2. TypeOK'
  BY <1>0, NextType DEF CrowdTick, Next
<1>3. CrowdTypes'
  BY <1>0, <1>1, <1>2 DEF CrowdTypes
<1>4. CrowdComesOnce'
  BY <1>1 DEF CrowdInv, CrowdComesOnce
<1>5. BidInFlight'
  <2>1. now \in Nat /\ run.at \in Nat /\ CallLatency \in Nat
    BY <1>0, CrowdFacts
  <2>2. run.pc = "bid" => now + 1 <= run.at + CallLatency
    BY <1>1, <2>1
  <2> QED
    BY <1>1, <2>2 DEF CrowdInv, BidInFlight
<1>6. SimBids' = SimBids /\ NeverBuys' = NeverBuys /\ NeverSnipes' = NeverSnipes
  BY <1>1 DEF SimBids, NeverBuys, NeverSnipes
<1>7. SimBidsInBounds'
  BY <1>1, <1>6 DEF CrowdInv, SimBidsInBounds, Uncrowded
<1> QED
  BY <1>3, <1>4, <1>5, <1>7 DEF CrowdInv

\* A bid of the crowd is accepted: its snapshot was taken before the quiet tail,
\* and what it adds to the log is paid for by the count or by the lost reply.
LEMMA SimBidKeeps ==
  ASSUME CrowdInv, SimBid
  PROVE  CrowdInv'
<1> DEFINE u == run.user
           a == run.amount
           n == Len(stream) + 1
<1>0. CrowdTypes /\ TypeOK /\ run.pc = "bid"
  BY DEF CrowdInv, CrowdTypes, SimBid
<1>1. /\ u \in Sims /\ run.bidsDone < BidsTarget
      /\ crowdRules.cap > 0 => a < crowdRules.cap
      /\ now <= run.at + CallLatency
      /\ endAt - run.at > crowdRules.extendWindow + QuietExtra
      /\ starting = ""
  BY <1>0 DEF CrowdInv, BidInFlight, CrowdComesOnce
<1>2. /\ u \in Users /\ a \in Nat /\ n \in Nat /\ SimReq \in Reqs /\ u \in Users \cup {NoUser}
      /\ run.bidsDone \in Nat /\ lost \in Nat /\ BidsTarget \in Nat
  <2>1. /\ run.bidsDone \in Nat /\ BidsTarget \in Nat /\ Len(stream) \in Nat /\ a \in Nat
        /\ Sims \subseteq Users /\ lost \in Nat
    BY <1>0, CrowdFacts
  <2>2. run.bidsDone + 1 \in 1 .. BidsTarget
    BY <1>1, <2>1, NextOfBudget
  <2>3. SimReq \in Reqs
    BY <2>2, CrowdAssumption DEF SimReq
  <2>4. u \in Users
    BY <1>1, <2>1
  <2>5. n \in Nat
    BY <2>1
  <2> QED
    BY <2>1, <2>3, <2>4, <2>5
<1>3. AscendingBid(u, SimReq, a, u, a)
  BY DEF SimBid, PlaceBid, AscendingBid
<1>4. /\ UNCHANGED <<row, starting, crowdRules>>
      /\ \E c \in {0, 1} :
           /\ BidDone(c) /\ lost' \in {lost, lost + 1}
           /\ status' # "SOLD" => c + lost' = 1 + lost
  BY <1>2 DEF SimBid, handlerVars
<1>5. PICK c \in {0, 1} :
         /\ run' = [run EXCEPT !.pc = "loop", !.user = NoUser, !.amount = 0, !.at = 0,
                               !.bidsDone = @ + c]
         /\ lost' \in {lost, lost + 1}
         /\ status' # "SOLD" => c + lost' = 1 + lost
  BY <1>4 DEF BidDone
<1> HIDE DEF u, a, n
<1>6. run \in Run /\ run' \in Run /\ run'.pc = "loop" /\ run'.bidsDone = run.bidsDone + c /\ lost' \in Nat
  <2>1. run.bidsDone + c \in Nat /\ lost' \in Nat
    BY <1>2, <1>5
  <2> QED
    BY <1>0, <1>5, <2>1 DEF CrowdTypes, Run
<1>7. TypeOK'
  BY <1>0, <1>2, <1>3, AscendingType DEF AscendingBid
<1>8. CrowdTypes'
  BY <1>0, <1>4, <1>6, <1>7 DEF CrowdTypes
<1>9. AscendingCode(u, SimReq, a) \in {"OK_ACCEPTED", "OK_EXTENDED", "OK_SOLD"}
  BY <1>3 DEF AscendingBid, BidAccepted, BidExtended, BidSold
<1>10. status = "LIVE" /\ status' \in {"LIVE", "SOLD"} /\ rules' = rules
  <2>1. status = "LIVE"
    BY <1>9, AscendingAdmits
  <2> QED
    BY <1>3, <2>1 DEF AscendingBid, BidAccepted, BidExtended, BidSold, AcceptBid
<1>11. CrowdComesOnce' /\ BidInFlight' /\ ~Uncrowded'
  BY <1>1, <1>4, <1>6, <1>10 DEF CrowdComesOnce, BidInFlight, Uncrowded
<1>12. PICK k \in {1, 2} :
         /\ Len(stream') = Len(stream) + k
         /\ \A i \in 1 .. Len(stream) : stream'[i] = stream[i]
         /\ stream'[Len(stream) + 1].amount \in {a, a}
         /\ stream'[Len(stream) + 1].at = now
         /\ stream'[Len(stream) + 1].endAt \in {endAt, endAt + rules.extendSec}
         /\ k = 2 => stream'[Len(stream) + 2].type \notin BidTypes
  BY <1>0, <1>2, <1>3, BidIsOwn
<1>13. /\ \A i \in SimBids' : i \in SimBids \/ i = n
       /\ \A i \in SimBids : i \in 1 .. Len(stream)
  <2>1. Len(stream) \in Nat
    BY <1>0, CrowdFacts
  <2>2. ASSUME NEW i \in 1 .. Len(stream')
        PROVE  i \in 1 .. Len(stream) \/ i = n \/ (k = 2 /\ i = Len(stream) + 2)
    BY <1>12, <2>1 DEF n
  <2> QED
    BY <1>12, <2>2 DEF SimBids
<1>14. Cardinality(SimBids') <= Cardinality(SimBids) + 1
  <2>1. IsFiniteSet(SimBids)
    BY <1>0, CrowdFacts
  <2>2. /\ IsFiniteSet(SimBids \cup {n})
        /\ Cardinality(SimBids \cup {n}) \in {Cardinality(SimBids), Cardinality(SimBids) + 1}
    BY <2>1, FS_AddElement
  <2>3. Cardinality(SimBids') <= Cardinality(SimBids \cup {n})
    <3>1. SimBids' \subseteq SimBids \cup {n}
      BY <1>13
    <3> QED
      BY <2>2, <3>1, FS_Subset
  <2>4. Cardinality(SimBids) \in Nat /\ Cardinality(SimBids') \in Nat
    BY <1>0, <1>8, CrowdFacts, SimBidsCount
  <2> QED
    BY <2>2, <2>3, <2>4
<1>15. ASSUME crowdRules = rules, NeverBuys, NeverSnipes
       PROVE  NeverBuys' /\ NeverSnipes'
  <2>1. stream'[n].amount = a /\ rules'.cap > 0 => stream'[n].amount < rules'.cap
    BY <1>1, <1>10, <1>12, <1>15 DEF n
  <2>2. stream'[n].endAt - stream'[n].at > rules'.extendWindow
    <3>1. /\ now \in Nat /\ endAt \in Nat /\ run.at \in Nat /\ rules.extendWindow \in Nat
          /\ rules.extendSec \in Nat /\ CallLatency \in Nat /\ QuietExtra \in Nat
          /\ CallLatency <= QuietExtra
      BY <1>0, CrowdFacts, CoreTypes
    <3>2. endAt - now > rules.extendWindow
      <4>1. endAt - run.at > rules.extendWindow + QuietExtra /\ now <= run.at + CallLatency
        BY <1>1, <1>15
      <4> QED
        BY <3>1, <4>1, QuietTailHolds
    <3>3. endAt + rules.extendSec - now > rules.extendWindow
      BY <3>1, <3>2
    <3>4. /\ stream'[n].at = now
          /\ stream'[n].endAt = endAt \/ stream'[n].endAt = endAt + rules.extendSec
      BY <1>12 DEF n
    <3>5. rules'.extendWindow = rules.extendWindow
      BY <1>10
    <3>6. CASE stream'[n].endAt = endAt
      BY <3>2, <3>4, <3>5, <3>6
    <3>7. CASE stream'[n].endAt = endAt + rules.extendSec
      BY <3>1, <3>3, <3>4, <3>5, <3>7
    <3> QED
      BY <3>4, <3>6, <3>7
  <2>3. \A i \in SimBids : stream'[i] = stream[i]
    BY <1>12, <1>13
  <2>4. stream'[n].amount = a
    BY <1>12 DEF n
  <2> QED
    BY <1>10, <1>13, <1>15, <2>1, <2>2, <2>3, <2>4 DEF NeverBuys, NeverSnipes
<1>16. ASSUME rules.mode # "HYBRID_REVEAL"
       PROVE  SimBidsInBounds'
  <2>1. /\ crowdRules = rules => NeverBuys /\ NeverSnipes
        /\ Cardinality(SimBids) <= run.bidsDone + lost
    BY <1>0, <1>10, <1>16 DEF CrowdInv, SimBidsInBounds, Terminal
  <2>2. Cardinality(SimBids) \in Nat /\ Cardinality(SimBids') \in Nat
    BY <1>0, <1>8, CrowdFacts, SimBidsCount
  <2>3. Cardinality(SimBids') <= BidsTarget + lost'
    <3>1. Cardinality(SimBids') <= run.bidsDone + 1 + lost
      BY <1>2, <1>14, <2>1, <2>2
    <3>2. lost <= lost'
      BY <1>2, <1>5
    <3>3. run.bidsDone + 1 \in 1 .. BidsTarget
      BY <1>1, <1>2, NextOfBudget
    <3> QED
      BY <1>2, <1>6, <2>2, <3>1, <3>2, <3>3
  <2>4. status' # "SOLD" => Cardinality(SimBids') <= run'.bidsDone + lost'
    BY <1>2, <1>5, <1>6, <1>14, <2>1, <2>2
  <2>5. crowdRules' = rules' => NeverBuys' /\ NeverSnipes'
    BY <1>4, <1>10, <1>15, <2>1
  <2> QED
    BY <1>11, <2>3, <2>4, <2>5 DEF SimBidsInBounds, Terminal
<1>17. SimBidsInBounds'
  BY <1>10, <1>16 DEF SimBidsInBounds
<1> QED
  BY <1>8, <1>11, <1>17 DEF CrowdInv

\* A handler or the loop moves and keeps the count: one case per action.
LEMMA RunMoves ==
  ASSUME CrowdInv, UNCHANGED vars,
         \/ \E r \in Patches : PatchStore(r)
         \/ StartProject \/ MaybeStart \/ Stop \/ HandleDelete
         \/ LoopBegin \/ StatsTick \/ BidTickStops \/ BidTick
         \/ SimBidRefused \/ Expire \/ ContextDone
  PROVE  CrowdInv'
<1>0. CrowdTypes
  BY DEF CrowdInv
<1>1. /\ run \in Run /\ row \in RuleRecord /\ starting \in {"", "project", "spawn"}
      /\ NoRun \in Run /\ NoRun.pc = "gone" /\ BidsTarget \in Nat
  BY <1>0, CrowdFacts DEF CrowdTypes, NoRun, Run
<1>2. status' = status /\ stream' = stream /\ rules' = rules /\ endAt' = endAt /\ now' = now
      /\ price' = price
  BY DEF vars, hash
<1>3. CASE UNCHANGED <<run, crowdRules, lost, starting>> /\ row' \in RuleRecord
  <2>1. CrowdComesOnce' /\ BidInFlight' /\ (Uncrowded' => Uncrowded)
    BY <1>2, <1>3 DEF CrowdInv, CrowdComesOnce, BidInFlight, Uncrowded
  <2> QED
    BY <1>1, <1>3, <2>1, CrowdMoves DEF Run
<1>4. CASE run' = NoRun /\ UNCHANGED <<row, starting, lost>> /\ crowdRules' = crowdRules
  <2>1. CrowdComesOnce' /\ BidInFlight' /\ (Uncrowded' => Uncrowded)
    BY <1>1, <1>2, <1>4 DEF CrowdInv, CrowdComesOnce, BidInFlight, Uncrowded
  <2> QED
    BY <1>1, <1>4, <2>1, CrowdMoves
<1>5. CASE PatchStore(row') /\ row' \in Patches
  BY <1>3, <1>5, CrowdAssumption DEF PatchStore, crowdVars
<1>6. CASE StartProject \/ MaybeStart
  <2>1. /\ run.pc = "gone" /\ starting # "" /\ UNCHANGED <<row, crowdRules, lost>>
        /\ \/ run' = run /\ starting' \in {"spawn", ""}
           \/ run' = [NoRun EXCEPT !.pc = "begin"] /\ starting' = ""
    BY <1>6 DEF CrowdInv, CrowdComesOnce, StartProject, MaybeStart, crowdVars
  <2>2. run' \in Run /\ run'.pc \in {"gone", "begin"}
    BY <1>1, <2>1 DEF Run, NoRun
  <2>3. CrowdComesOnce' /\ BidInFlight' /\ (Uncrowded' => Uncrowded)
    BY <1>2, <2>1, <2>2 DEF CrowdInv, CrowdComesOnce, BidInFlight, Uncrowded
  <2> QED
    BY <1>1, <2>1, <2>2, <2>3, CrowdMoves
<1>7. ASSUME NEW pc \in {"loop", "bid"}, run.pc \in {"begin", "loop"}, run' \in Run,
             run'.pc = pc, run.pc = "loop" => run'.bidsDone = run.bidsDone,
             UNCHANGED <<row, starting, lost>>, BidInFlight',
             \/ crowdRules' = crowdRules
             \/ run.pc = "begin" /\ crowdRules' \in RuleRecord /\ crowdRules'.mode = "ENGLISH"
      PROVE  CrowdInv'
  <2>1. CrowdComesOnce' /\ (Uncrowded' => Uncrowded)
    BY <1>2, <1>7 DEF CrowdInv, CrowdComesOnce, Uncrowded
  <2> QED
    BY <1>1, <1>7, <2>1, CrowdMoves
<1>8. CASE LoopBegin /\ run' # NoRun
  <2>1. PICK pool \in SUBSET Sims : run' = [run EXCEPT !.pc = "loop", !.users = pool]
    BY <1>8 DEF LoopBegin, Exit
  <2>2. run' \in Run /\ run'.pc = "loop"
    BY <1>1, <2>1 DEF Run
  <2>3. BidInFlight'
    BY <2>2 DEF BidInFlight
  <2>4. /\ run.pc = "begin" /\ row.mode = "ENGLISH" /\ crowdRules' = row
        /\ UNCHANGED <<row, starting, lost>>
    BY <1>8 DEF LoopBegin, Exit, handlerVars
  <2> QED
    BY <1>1, <1>7, <2>2, <2>3, <2>4
<1>9. CASE BidTickStops
  <2>1. /\ run.pc = "loop" /\ run' = [run EXCEPT !.stopped = TRUE]
        /\ UNCHANGED <<row, starting, lost, crowdRules>>
    BY <1>9 DEF BidTickStops, handlerVars
  <2>2. run' \in Run /\ run'.pc = "loop" /\ run'.bidsDone = run.bidsDone
    BY <1>1, <2>1 DEF Run
  <2>3. BidInFlight'
    BY <2>2 DEF BidInFlight
  <2> QED
    BY <1>7, <2>1, <2>2, <2>3
<1>10. CASE BidTick
  <2>1. PICK u \in run.users, a \in NextCrowdAmounts(price) :
          run' = [run EXCEPT !.pc = "bid", !.user = u, !.amount = a, !.at = now]
    BY <1>10 DEF BidTick
  <2>2. /\ run.pc = "loop" /\ ~BudgetSpent /\ ~InQuietTail
        /\ UNCHANGED <<row, starting, lost, crowdRules>>
    BY <1>10 DEF BidTick, handlerVars
  <2>3. u \in Sims /\ a \in Nat /\ now \in Nat
    <3>1. price \in Nat /\ crowdRules.increment \in Nat
      BY <1>0, CrowdFacts
    <3>2. a \in {price + k * crowdRules.increment : k \in 1 .. 3}
      BY DEF NextCrowdAmounts
    <3>3. \A k \in 1 .. 3 : k = 1 \/ k = 2 \/ k = 3
      OBVIOUS
    <3>4. a \in Nat
      BY <3>1, <3>2, <3>3
    <3> QED
      BY <1>0, <3>4, CrowdFacts
  <2>4. /\ run' \in Run /\ run'.pc = "bid" /\ run'.bidsDone = run.bidsDone
        /\ run'.user = u /\ run'.amount = a /\ run'.at = now
    BY <1>1, <2>1, <2>3 DEF Run
  <2>5. crowdRules.cap > 0 => a < crowdRules.cap
    BY DEF NextCrowdAmounts
  <2>6. run.bidsDone < BidsTarget
    <3>1. run.bidsDone \in Nat /\ BidsTarget \in Nat
      BY <1>0, CrowdFacts
    <3>2. ~(run.bidsDone >= BidsTarget)
      BY <2>2 DEF BudgetSpent
    <3> QED
      BY <3>1, <3>2
  <2>7. endAt - now > crowdRules.extendWindow + QuietExtra
    <3>1. /\ endAt \in Nat /\ now \in Nat /\ crowdRules.extendWindow \in Nat /\ QuietExtra \in Nat
      BY <1>0, CrowdFacts
    <3> QED
      BY <2>2, <3>1 DEF InQuietTail
  <2>8. now <= now + CallLatency
    BY <1>0, CrowdFacts
  <2>9. BidInFlight'
    BY <1>2, <2>2, <2>3, <2>4, <2>5, <2>6, <2>7, <2>8 DEF BidInFlight
  <2> QED
    BY <1>7, <2>2, <2>4, <2>9
<1>11. CASE SimBidRefused \/ Stop \/ Expire
  <2>1. /\ UNCHANGED <<row, starting, lost, crowdRules>>
        /\ \/ run.pc = "bid"
              /\ run' = [run EXCEPT !.pc = "loop", !.user = NoUser, !.amount = 0, !.at = 0,
                                    !.bidsDone = @ + 0]
           \/ \E b \in BOOLEAN : run' = [run EXCEPT !.cancelled = b]
    BY <1>11 DEF SimBidRefused, Stop, Expire, BidDone, handlerVars
  <2>2. run.bidsDone + 0 = run.bidsDone
    BY <1>0, CrowdFacts
  <2>3. /\ run' \in Run /\ run'.bidsDone = run.bidsDone
        /\ \/ run.pc = "bid" /\ run'.pc = "loop"
           \/ /\ run'.pc = run.pc /\ run'.user = run.user /\ run'.amount = run.amount
              /\ run'.at = run.at
    <3>1. NoUser \in Sims \cup {NoUser} /\ 0 \in Nat
      OBVIOUS
    <3>2. CASE run.pc = "bid" /\ run' = [run EXCEPT !.pc = "loop", !.user = NoUser,
                                            !.amount = 0, !.at = 0, !.bidsDone = @ + 0]
      <4>1. /\ run' \in Run /\ run'.pc = "loop" /\ run'.bidsDone = run.bidsDone + 0
        BY <1>1, <2>2, <3>1, <3>2 DEF Run
      <4> QED
        BY <2>2, <3>2, <4>1
    <3>3. CASE \E b \in BOOLEAN : run' = [run EXCEPT !.cancelled = b]
      BY <1>1, <3>3 DEF Run
    <3> QED
      BY <2>1, <3>2, <3>3
  <2>4. CrowdComesOnce' /\ BidInFlight' /\ (Uncrowded' => Uncrowded)
    BY <1>2, <2>1, <2>3 DEF CrowdInv, CrowdComesOnce, BidInFlight, Uncrowded
  <2> QED
    BY <1>1, <2>1, <2>3, <2>4, CrowdMoves DEF Run
<1>12. CASE HandleDelete
  BY <1>1, <1>3, <1>12 DEF HandleDelete, crowdVars
<1>13. CASE (LoopBegin /\ run' = NoRun) \/ StatsTick \/ ContextDone
  <2>1. LoopBegin /\ run' = NoRun => crowdRules' = crowdRules
    BY <1>1 DEF LoopBegin, Exit, Run
  <2> QED
    BY <1>4, <1>13, <2>1 DEF LoopBegin, StatsTick, ContextDone, Exit, handlerVars
<1> QED
  BY <1>5, <1>6, <1>8, <1>9, <1>10, <1>11, <1>12, <1>13 DEF PatchStore

\* The invariant is inductive.
LEMMA NextCrowd == CrowdInv /\ [CNext]_cvars => CrowdInv'
<1> SUFFICES ASSUME CrowdInv, [CNext]_cvars PROVE CrowdInv'
  OBVIOUS
<1>0. TypeOK
  BY DEF CrowdInv, CrowdTypes
<1>1. ASSUME NEW r \in RuleSet, HandleFreeze(r) PROVE CrowdInv'
  BY <1>1, StartKeeps DEF HandleFreeze, crowdVars
<1>2. ASSUME NEW d \in Durations, HandleStart(d) PROVE CrowdInv'
  BY <1>2, StartKeeps DEF HandleStart, crowdVars
<1>3. ASSUME NEW u \in Users, NEW r \in HumanReqs, NEW a \in BidAmounts, HumanBid(u, r, a)
      PROVE  CrowdInv'
  <2>1. u \in Users \ Sims /\ r \in Reqs /\ Bid(u, r, a)
    BY <1>3, CrowdAssumption DEF HumanBid
  <2>2. Elsewhere /\ now' = now
    BY <1>0, <2>1, HumanIsElsewhere
  <2> QED
    BY <1>3, <2>2, ElsewhereKeeps DEF HumanBid, handlerVars, crowdVars
<1>4. CASE Hammer
  <2>1. Elsewhere /\ now' = now
    BY <1>0, <1>4, HammerIsElsewhere DEF Hammer
  <2> QED
    BY <1>4, <2>1, ElsewhereKeeps DEF Hammer, handlerVars, crowdVars
<1>5. CASE HandleCancel
  <2>1. Elsewhere /\ now' = now
    BY <1>0, <1>5, CancelIsElsewhere DEF HandleCancel
  <2> QED
    BY <1>5, <2>1, ElsewhereKeeps DEF HandleCancel, crowdVars
<1>6. CASE CrowdTick
  BY <1>6, TickKeeps
<1>7. CASE SimBid
  BY <1>7, SimBidKeeps
<1>8. ASSUME \/ \E r \in Patches : PatchStore(r)
             \/ StartProject \/ MaybeStart \/ Stop \/ HandleDelete
             \/ LoopBegin \/ StatsTick \/ BidTickStops \/ BidTick
             \/ SimBidRefused \/ Expire \/ ContextDone
      PROVE  CrowdInv'
  <2>1. UNCHANGED vars
    BY <1>8 DEF PatchStore, StartProject, MaybeStart, Stop, HandleDelete, LoopBegin, StatsTick,
                BidTickStops, BidTick, SimBidRefused, Expire, ContextDone
  <2> QED
    BY <1>8, <2>1, RunMoves
<1>9. CASE UNCHANGED cvars
  <2>1. /\ UNCHANGED vars
        /\ UNCHANGED <<row, starting, run, crowdRules, lost>>
    BY <1>9 DEF cvars, handlerVars, crowdVars
  <2>2. UNCHANGED <<status, rules, endAt, stream, now>>
    BY <2>1 DEF vars, hash
  <2>3. CrowdComesOnce' /\ BidInFlight' /\ (Uncrowded' => Uncrowded)
    BY <2>1, <2>2 DEF CrowdInv, CrowdComesOnce, BidInFlight, Uncrowded
  <2>4. run \in Run /\ row \in RuleRecord /\ starting \in {"", "project", "spawn"}
        /\ run.pc \in {"gone", "begin", "loop", "bid"}
    BY DEF CrowdInv, CrowdTypes, Run
  <2> QED
    BY <2>1, <2>3, <2>4, CrowdMoves
<1> QED
  BY <1>1, <1>2, <1>3, <1>4, <1>5, <1>6, <1>7, <1>8, <1>9 DEF CNext

\* The crowd neither buys nor snipes as long as it knows the frozen rules, and
\* never bids more often than its budget and the lost replies allow: crowd.go's
\* boundaries hold however long its calls take, whatever humans bid in between
\* and however the seller patches, cancels or deletes the auction meanwhile.
THEOREM CrowdKeepsBounds == CSpec => []CrowdBoundaries
<1>1. CSpec => []CrowdInv
  <2>1. CInit => CrowdInv
    BY CrowdInit
  <2>2. CrowdInv /\ [CNext]_cvars => CrowdInv'
    BY NextCrowd
  <2> QED
    BY <2>1, <2>2, PTL DEF CSpec
<1>2. CrowdInv => CrowdBoundaries
  BY CrowdInvBounds
<1> QED
  BY <1>1, <1>2, PTL
=============================================================================
