-------------------------- MODULE BidRouting_proofs --------------------------
(***************************************************************************)
(* Theorems about a gateway: however its reads, its fan-out, its restarts  *)
(* and the scripts interleave, what it decides from copies of the room     *)
(* state is what the engine would decide.  They are about every number of  *)
(* handlers and every mix of auction rules, clock skews and bids.          *)
(***************************************************************************)
EXTENDS BidRouting, AuctionEngine_proofs

-----------------------------------------------------------------------------
(***************************************************************************)
(* The engine as the gateway sees it.  A handler that never learned the    *)
(* mode can run place_bid.lua on any auction, so CoreInv is not available; *)
(* what the copies rest on survives such a step.                           *)
(***************************************************************************)

\* An auction that can be bid on has valid rules, a price below its cap and,
\* once it runs, a deadline.
Biddable ==
  /\ status # "NONE" => Validate(rules)
  /\ status \in {"SCHEDULED", "LIVE"} => (rules.cap > 0 => price < rules.cap)
  /\ status = "LIVE" => endAt > 0

\* No entry of the Stream is ahead of the Hash of an auction that is not over.
LogBelow ==
  /\ status \in {"NONE", "SCHEDULED"} => stream = <<>>
  /\ status \notin Terminal =>
       \A i \in 1 .. Len(stream) : stream[i].amount <= price /\ stream[i].endAt <= endAt
  /\ \A i \in 1 .. Len(stream) : stream[i].type = "BID_ACCEPTED" => stream[i].endAt > 0

EngineInv == TypeOK /\ Biddable /\ LogBelow

\* A step of the engine, a misrouted bid included.
EngineStep ==
  [Next]_vars \/ \E u \in Users, r \in Reqs, a \in BidAmounts : PlaceBid(u, r, a)

\* What any such step keeps of what a gateway may have copied before it.
MovesOn ==
  /\ Len(stream) <= Len(stream')
  /\ \A i \in 1 .. Len(stream) : stream'[i] = stream[i]
  /\ status' = "NONE" => status = "NONE"
  /\ status # "NONE" => rules' = rules
  /\ status' \in {"NONE", "SCHEDULED"} => status \in {"NONE", "SCHEDULED"}
  /\ status' \notin Terminal => status \notin Terminal
  /\ status = "LIVE" /\ status' = "LIVE" =>
       /\ price <= price' /\ endAt <= endAt'
       /\ price' = price => winner' = winner

\* An accepted bid of an ascending script beats the price, in any mode.
LEMMA BidBeatsPrice ==
  ASSUME EngineInv, NEW u \in Users, NEW r \in Reqs, NEW a \in Nat,
         NEW su \in Users \cup {NoUser}, NEW sa \in Nat, AscendingBid(u, r, a, su, sa)
  PROVE  /\ status = "LIVE" /\ endAt > 0 /\ price < a
         /\ price' = a /\ rules' = rules
         /\ status' = "LIVE" => (rules.cap > 0 => a < rules.cap)
         /\ status' \in {"LIVE", "SOLD"}
<1>1. price \in Nat /\ rules.cap \in Nat /\ rules.increment \in Nat /\ endAt \in Nat
  BY CoreTypes DEF EngineInv
<1>2. AscendingCode(u, r, a) \in {"OK_ACCEPTED", "OK_EXTENDED", "OK_SOLD"}
  BY DEF AscendingBid, BidAccepted, BidExtended, BidSold
<1>3. /\ status = "LIVE" /\ InRange(a, Required)
      /\ AscendingCode(u, r, a) = "OK_SOLD" <=> CapHit(a)
  BY <1>2, AscendingAdmits
<1>4. rules.increment > 0 /\ (rules.cap > 0 => price < rules.cap) /\ endAt > 0
  BY <1>3 DEF EngineInv, Biddable, Validate
<1>5. price < a
  BY <1>1, <1>3, <1>4 DEF InRange, Required
<1>6. \E end \in Nat, st \in {"LIVE", "SOLD"} : AcceptBid(u, r, a, end, st)
  BY CoreTypes DEF EngineInv, AscendingBid, BidAccepted, BidExtended, BidSold
<1>7. price' = a /\ rules' = rules
  BY <1>6 DEF AcceptBid
<1>8. status' = "LIVE" => ~CapHit(a)
  BY <1>3 DEF AscendingBid, BidAccepted, BidExtended, BidSold
<1>9. status' \in {"LIVE", "SOLD"}
  BY <1>3 DEF AscendingBid, BidAccepted, BidExtended, BidSold
<1>10. status' = "LIVE" => (rules.cap > 0 => a < rules.cap)
  BY <1>1, <1>8 DEF CapHit
<1> QED
  BY <1>3, <1>4, <1>5, <1>7, <1>9, <1>10

\* The deadline and the log after such a bid.
LEMMA BidMoves ==
  ASSUME EngineInv, NEW u \in Users, NEW r \in Reqs, NEW a \in Nat,
         NEW su \in Users \cup {NoUser}, NEW sa \in Nat, sa \in {a, price},
         AscendingBid(u, r, a, su, sa)
  PROVE  /\ endAt' \in Nat /\ endAt <= endAt'
         /\ \E k \in {1, 2} :
              /\ Len(stream') = Len(stream) + k
              /\ \A i \in 1 .. Len(stream) : stream'[i] = stream[i]
              /\ \A i \in Len(stream) + 1 .. Len(stream) + k :
                   /\ stream'[i].type = "BID_ACCEPTED" => stream'[i].endAt > 0
                   /\ status' = "LIVE" =>
                        stream'[i].amount <= price' /\ stream'[i].endAt <= endAt'
<1>0. TypeOK
  BY DEF EngineInv
<1>1. /\ price \in Nat /\ endAt \in Nat /\ rules.extendSec \in Nat /\ Len(stream) \in Nat
  BY <1>0, CoreTypes
<1>2. status = "LIVE" /\ endAt > 0 /\ price < a /\ price' = a
  BY BidBeatsPrice
<1>3. sa <= a /\ 0 <= a
  BY <1>1, <1>2
<1>4. CASE BidAccepted(u, r, a, su, sa)
  <2>1. Grows(1) /\ stream'[Len(stream) + 1] = BidEvent(su, sa, endAt)
    BY <1>0, <1>4, AcceptedAppends
  <2>2. endAt' = endAt
    BY <1>4 DEF BidAccepted
  <2>3. \A i \in Len(stream) + 1 .. Len(stream) + 1 : i = Len(stream) + 1
    BY <1>1
  <2> QED
    BY <1>1, <1>2, <1>3, <2>1, <2>2, <2>3, BidEventSays DEF Grows
<1>5. CASE BidExtended(u, r, a, su, sa)
  <2> DEFINE end == endAt + rules.extendSec
  <2>1. end \in Nat /\ endAt <= end /\ endAt' = end /\ end > 0
    BY <1>1, <1>2, <1>5 DEF BidExtended
  <2>2. /\ Grows(2) /\ stream'[Len(stream) + 1] = BidEvent(su, sa, end)
        /\ stream'[Len(stream) + 2] = ExtensionEvent(end)
    BY <1>0, <1>5, ExtendedAppends
  <2> HIDE DEF end
  <2>3. /\ ExtensionEvent(end).type = "AUCTION_EXTENDED"
        /\ ExtensionEvent(end).amount = 0 /\ ExtensionEvent(end).endAt = end
    BY DEF ExtensionEvent, Entry
  <2>4. \A i \in Len(stream) + 1 .. Len(stream) + 2 :
          i = Len(stream) + 1 \/ i = Len(stream) + 2
    BY <1>1
  <2> QED
    BY <1>1, <1>2, <1>3, <2>1, <2>2, <2>3, <2>4, BidEventSays DEF Grows
<1>6. CASE BidSold(u, r, a)
  <2>1. /\ Grows(2) /\ stream'[Len(stream) + 1] = BidEvent(u, a, endAt)
        /\ stream'[Len(stream) + 2] = SaleEvent(u, a)
    BY <1>0, <1>6, SoldAppends
  <2>2. SaleEvent(u, a).type = "AUCTION_SOLD"
    BY DEF SaleEvent, Entry
  <2>3. \A i \in Len(stream) + 1 .. Len(stream) + 2 :
          i = Len(stream) + 1 \/ i = Len(stream) + 2
    BY <1>1
  <2>4. endAt' = endAt /\ status' = "SOLD"
    BY <1>6 DEF BidSold
  <2> QED
    BY <1>1, <1>2, <2>1, <2>2, <2>3, <2>4, BidEventSays DEF Grows
<1> QED
  BY <1>4, <1>5, <1>6 DEF AscendingBid

\* An ascending script, on whatever auction it runs.
LEMMA AscendingMovesOn ==
  ASSUME EngineInv, NEW u \in Users, NEW r \in Reqs, NEW a \in Nat,
         NEW su \in Users \cup {NoUser}, NEW sa \in Nat, sa \in {a, price},
         AscendingBid(u, r, a, su, sa)
  PROVE  EngineInv' /\ MovesOn
<1>0. TypeOK /\ TypeOK'
  BY AscendingType DEF EngineInv, AscendingBid
<1>1. /\ status = "LIVE" /\ endAt > 0 /\ price < a /\ price' = a /\ rules' = rules
      /\ status' = "LIVE" => (rules.cap > 0 => a < rules.cap)
      /\ status' \in {"LIVE", "SOLD"}
  BY BidBeatsPrice
<1>2. price \in Nat /\ endAt \in Nat /\ Len(stream) \in Nat /\ stream \in Seq(Event)
  BY <1>0, CoreTypes
<1>3. endAt' \in Nat /\ endAt <= endAt'
  BY BidMoves
<1>4. PICK k \in {1, 2} :
        /\ Len(stream') = Len(stream) + k
        /\ \A i \in 1 .. Len(stream) : stream'[i] = stream[i]
        /\ \A i \in Len(stream) + 1 .. Len(stream) + k :
             /\ stream'[i].type = "BID_ACCEPTED" => stream'[i].endAt > 0
             /\ status' = "LIVE" =>
                  stream'[i].amount <= price' /\ stream'[i].endAt <= endAt'
  BY BidMoves
<1>5. Biddable'
  BY <1>1, <1>2, <1>3 DEF EngineInv, Biddable, Validate
<1>6. ASSUME NEW i \in 1 .. Len(stream')
      PROVE  /\ stream'[i].type = "BID_ACCEPTED" => stream'[i].endAt > 0
             /\ status' = "LIVE" =>
                  stream'[i].amount <= price' /\ stream'[i].endAt <= endAt'
  <2>1. i \in 1 .. Len(stream) \/ i \in Len(stream) + 1 .. Len(stream) + k
    BY <1>2, <1>4
  <2>2. CASE i \in 1 .. Len(stream)
    <3>1. stream'[i] = stream[i] /\ stream[i] \in Event
      BY <1>2, <1>4, <2>2
    <3>2. stream[i].amount \in Nat /\ stream[i].endAt \in Nat
      BY <3>1 DEF Event
    <3>3. /\ stream[i].amount <= price /\ stream[i].endAt <= endAt
          /\ stream[i].type = "BID_ACCEPTED" => stream[i].endAt > 0
      BY <1>1, <2>2 DEF EngineInv, LogBelow, Terminal
    <3>4. stream[i].amount <= price' /\ stream[i].endAt <= endAt'
      BY <1>1, <1>2, <1>3, <3>2, <3>3
    <3> QED
      BY <3>1, <3>3, <3>4
  <2> QED
    BY <1>4, <2>1, <2>2
<1>7. LogBelow'
  BY <1>1, <1>6 DEF LogBelow, Terminal
<1>8. MovesOn
  BY <1>1, <1>2, <1>3, <1>4 DEF MovesOn, Terminal
<1> QED
  BY <1>0, <1>5, <1>7, <1>8 DEF EngineInv

\* A step that ends the auction, whatever it appends.
LEMMA EndMovesOn ==
  ASSUME EngineInv, TypeOK', NEW k \in Nat, Appends(k, OtherTypes),
         status # "NONE", status' \in Terminal, rules' = rules
  PROVE  EngineInv' /\ MovesOn
<1>1. Len(stream) \in Nat
  BY CoreTypes DEF EngineInv
<1>2. /\ Len(stream') = Len(stream) + k
      /\ \A i \in 1 .. Len(stream) : stream'[i] = stream[i]
      /\ \A i \in Len(stream) + 1 .. Len(stream) + k : stream'[i].type # "BID_ACCEPTED"
  BY DEF Appends, OtherTypes
<1>3. ASSUME NEW i \in 1 .. Len(stream'), stream'[i].type = "BID_ACCEPTED"
      PROVE  stream'[i].endAt > 0
  <2>1. i \in 1 .. Len(stream) \/ i \in Len(stream) + 1 .. Len(stream) + k
    BY <1>1, <1>2
  <2> QED
    BY <1>2, <1>3, <2>1 DEF EngineInv, LogBelow
<1>4. LogBelow'
  BY <1>3 DEF LogBelow, Terminal
<1>5. Biddable'
  BY DEF EngineInv, Biddable, Validate, Terminal
<1>6. MovesOn
  BY <1>1, <1>2 DEF MovesOn, Terminal
<1> QED
  BY <1>4, <1>5, <1>6 DEF EngineInv

\* A sealed bid: its receipt carries neither an amount nor a deadline.
LEMMA SealedMovesOn ==
  ASSUME EngineInv, NEW u \in Users, NEW r \in Reqs, NEW a \in Nat, PlaceBidSealed(u, r, a)
  PROVE  EngineInv' /\ MovesOn
<1> DEFINE e == Entry("SEALED_BID_RECEIVED", seq + 1, u, 0, 0, SealedCount(u), NoScores)
<1>0. TypeOK /\ TypeOK'
  BY SealedType DEF EngineInv
<1>1. /\ price \in Nat /\ endAt \in Nat /\ Len(stream) \in Nat /\ stream \in Seq(Event)
      /\ seq + 1 \in Nat /\ NoScores \in [Users -> Nat]
  BY <1>0, CoreTypes
<1>2. SealedCount(u) \in Nat /\ "SEALED_BID_RECEIVED" \in EventTypes
  BY UsersAssumption, FS_Subset, FS_CardinalityType DEF SealedCount, EventTypes, BidTypes
<1>3. e \in Event
  BY <1>0, <1>1, <1>2, EntryIsEvent
<1>4. e.seq = seq + 1 /\ e.type = "SEALED_BID_RECEIVED" /\ e.amount = 0 /\ e.endAt = 0
  BY DEF Entry
<1>5. /\ Emit(e) /\ status' = status /\ rules' = rules /\ price' = price /\ endAt' = endAt
      /\ winner' = winner
  BY DEF PlaceBidSealed
<1>6. status = "LIVE"
  BY SealedAdmits DEF PlaceBidSealed
<1> HIDE DEF e
<1>7. /\ Len(stream') = Len(stream) + 1 /\ stream'[Len(stream) + 1] = e
      /\ \A i \in 1 .. Len(stream) : stream'[i] = stream[i]
  BY <1>0, <1>3, <1>4, <1>5, EmitGrows DEF Grows
<1>8. ASSUME NEW i \in 1 .. Len(stream')
      PROVE  /\ stream'[i].amount <= price /\ stream'[i].endAt <= endAt
             /\ stream'[i].type = "BID_ACCEPTED" => stream'[i].endAt > 0
  <2>1. i \in 1 .. Len(stream) \/ i = Len(stream) + 1
    BY <1>1, <1>7
  <2>2. CASE i \in 1 .. Len(stream)
    BY <1>6, <1>7, <2>2 DEF EngineInv, LogBelow, Terminal
  <2>3. CASE i = Len(stream) + 1
    BY <1>1, <1>4, <1>7, <2>3
  <2> QED
    BY <2>1, <2>2, <2>3
<1>9. LogBelow'
  BY <1>5, <1>6, <1>8 DEF LogBelow
<1>10. Biddable'
  BY <1>5 DEF EngineInv, Biddable, Validate
<1>11. MovesOn
  BY <1>1, <1>5, <1>6, <1>7 DEF MovesOn
<1> QED
  BY <1>0, <1>9, <1>10, <1>11 DEF EngineInv

\* Every step of the engine keeps EngineInv and moves the auction on only.
LEMMA EngineMovesOn ==
  ASSUME EngineInv, EngineStep
  PROVE  EngineInv' /\ MovesOn
<1>0. TypeOK
  BY DEF EngineInv
<1>00. /\ price \in Nat /\ endAt \in Nat /\ Len(stream) \in Nat /\ now \in Nat
       /\ winner \in Users \cup {NoUser} /\ NoScores \in [Users -> Nat]
  BY <1>0, CoreTypes DEF TypeOK
<1>1. ASSUME NEW r \in RuleSet, FreezeRules(r) PROVE EngineInv' /\ MovesOn
  <2>1. TypeOK'
    BY <1>0, <1>1, NextType DEF Next
  <2>2. /\ status = "NONE" /\ status' = "SCHEDULED" /\ rules' = r /\ price' = r.startPrice
        /\ stream = <<>> /\ stream' = <<>>
    BY <1>1 DEF FreezeRules, EngineInv, LogBelow
  <2>3. Validate(r)
    BY RulesAssumption
  <2>4. Biddable'
    BY <2>2, <2>3 DEF Biddable, Validate
  <2>5. LogBelow' /\ MovesOn
    BY <2>2 DEF LogBelow, MovesOn, Terminal
  <2> QED
    BY <2>1, <2>4, <2>5 DEF EngineInv
<1>2. ASSUME NEW d \in Durations, StartAuction(d) PROVE EngineInv' /\ MovesOn
  <2>1. TypeOK'
    BY <1>0, <1>2, NextType DEF Next
  <2>2. /\ status = "SCHEDULED" /\ status' = "LIVE" /\ rules' = rules /\ price' = price
        /\ stream = <<>> /\ stream' = <<>> /\ endAt' = now + d
    BY <1>2 DEF StartAuction, EngineInv, LogBelow
  <2>3. endAt' > 0
    BY <1>00, <2>2, BoundsAssumption
  <2>4. Biddable'
    BY <2>2, <2>3 DEF EngineInv, Biddable, Validate
  <2>5. LogBelow' /\ MovesOn
    BY <2>2 DEF LogBelow, MovesOn, Terminal
  <2> QED
    BY <2>1, <2>4, <2>5 DEF EngineInv
<1>3. ASSUME NEW u \in Users, NEW r \in Reqs, NEW a \in BidAmounts,
             PlaceBid(u, r, a) \/ PlaceBidHybrid(u, r, a) \/ PlaceBidSealed(u, r, a)
      PROVE  EngineInv' /\ MovesOn
  <2>1. a \in Nat
    BY BoundsAssumption
  <2>2. CASE PlaceBid(u, r, a)
    BY <2>1, <2>2, AscendingMovesOn DEF PlaceBid, AscendingBid
  <2>3. CASE PlaceBidHybrid(u, r, a)
    BY <1>00, <2>1, <2>3, AscendingMovesOn DEF PlaceBidHybrid, AscendingBid
  <2>4. CASE PlaceBidSealed(u, r, a)
    BY <2>1, <2>4, SealedMovesOn
  <2> QED
    BY <1>3, <2>2, <2>3, <2>4
<1>4. CASE CloseAuctionDetailed
  <2>1. TypeOK'
    BY <1>0, <1>4, NextType DEF Next
  <2>2. \E k \in Nat : Aside(k)
    BY <1>0, <1>4, CloseAside
  <2>3. PICK k \in Nat : Appends(k, OtherTypes) /\ rules' = rules
    BY <2>2 DEF Aside
  <2>4. status # "NONE"
    BY <1>4, CloseAdmits
       DEF CloseAuctionDetailed, CloseAuction, CloseAuctionSealed, CloseAuctionAllPay
  <2>5. status' \in Terminal
    BY <1>4 DEF CloseAuctionDetailed, CloseAuction, CloseAuctionSealed, CloseAuctionAllPay,
                CloseNoBid, RevealAndSell, Terminal
  <2> QED
    BY <2>1, <2>3, <2>4, <2>5, EndMovesOn
<1>5. ASSUME NEW c \in Users, CancelAuction(c) PROVE EngineInv' /\ MovesOn
  <2>1. TypeOK'
    BY <1>0, <1>5, CancelType
  <2>2. "AUCTION_CANCELLED" \in OtherTypes \cap EventTypes
    BY DEF OtherTypes, EventTypes, TerminalTypes
  <2>3. Appends(1, OtherTypes)
    BY <1>0, <1>5, <2>2, EmitAside DEF CancelAuction
  <2>4. status # "NONE" /\ status' \in Terminal /\ rules' = rules
    BY <1>5 DEF CancelAuction, CancelCode, Terminal
  <2> QED
    BY <2>1, <2>3, <2>4, EndMovesOn
<1>6. CASE Tick \/ UNCHANGED vars
  <2>1. TypeOK'
    BY <1>0, <1>6, NextType DEF Next
  <2>2. UNCHANGED <<status, rules, price, winner, endAt, stream>>
    BY <1>6 DEF Tick, vars, hash
  <2>3. Biddable' /\ LogBelow'
    BY <2>2 DEF EngineInv, Biddable, LogBelow, Validate
  <2>4. MovesOn
    BY <1>00, <2>2 DEF MovesOn
  <2> QED
    BY <2>1, <2>3, <2>4 DEF EngineInv
<1> QED
  BY <1>1, <1>2, <1>3, <1>4, <1>5, <1>6 DEF EngineStep, Next, Bid

-----------------------------------------------------------------------------
(***************************************************************************)
(* The copies.  A copy is safe when it is behind the Hash and a price in   *)
(* it comes with a deadline; a mode in it is the frozen one.               *)
(***************************************************************************)

RoomState == [price : Nat, endAt : Nat, terminal : BOOLEAN, mode : Modes \cup {""}]

CopyBelow(rs) ==
  /\ status \in {"NONE", "SCHEDULED"} => rs.price = 0 /\ rs.endAt = 0
  /\ status \notin Terminal => rs.price <= price /\ rs.endAt <= endAt
  /\ rs.price > 0 /\ ~rs.terminal => rs.endAt > 0

\* A mode the gateway holds is unknown or the frozen one.
ModeSeen(m) == m \in {"", rules.mode} /\ (status = "NONE" => m = "")

Copy(rs) == rs \in RoomState /\ CopyBelow(rs) /\ ModeSeen(rs.mode)

Pcs == {"idle", "joined", "lookup", "modeRead", "script", "precheck", "board", "list"}

Task ==
  [pc : Pcs, user : Users \cup {NoUser}, req : Reqs \cup {CHOOSE r \in Reqs : TRUE},
   amount : Nat, rs : RoomState, mode : Modes \cup {""}, clock : Int,
   board : [Users -> Nat]]

\* What is known of a request in each of its stages.
Served(t) ==
  /\ t \in Task /\ Copy(t.rs) /\ ModeSeen(t.mode)
  /\ t.pc \in {"lookup", "modeRead", "script", "precheck"} =>
       t.user \in Users /\ t.req \in Reqs /\ t.amount \in BidAmounts
  /\ t.pc = "precheck" => t.mode = t.rs.mode /\ Doomed(t.rs, t.amount, t.clock)
  /\ t.pc = "list" /\ status \notin Terminal => t.board = NoScores

GatewayInv ==
  /\ EngineInv
  /\ dropping \in BOOLEAN /\ joined \in BOOLEAN /\ cursor \in 0 .. Len(stream)
  /\ Copy(cache)
  /\ task \in [Handlers -> Task]
  /\ \A h \in Handlers : Served(task[h])

\* A safe copy stays safe while the auction moves on.
LEMMA CopyStays ==
  ASSUME EngineInv, EngineInv', MovesOn, NEW rs, Copy(rs)
  PROVE  Copy(rs)'
<1>1. rs.price \in Nat /\ rs.endAt \in Nat
  BY DEF Copy, RoomState
<1>2. /\ price \in Nat /\ endAt \in Nat /\ price' \in Nat /\ endAt' \in Nat
      /\ status \in Statuses /\ status' \in Statuses
  BY DEF EngineInv, TypeOK
<1>3. CopyBelow(rs)'
  <2>1. CASE status' \in {"NONE", "SCHEDULED"}
    BY <1>1, <1>2, <2>1 DEF Copy, CopyBelow, MovesOn
  <2>2. CASE status' = "LIVE" /\ status = "LIVE"
    BY <1>1, <1>2, <2>2 DEF Copy, CopyBelow, MovesOn, Terminal
  <2>3. CASE status' = "LIVE" /\ status \in {"NONE", "SCHEDULED"}
    BY <1>1, <1>2, <2>3 DEF Copy, CopyBelow, Terminal
  <2>4. CASE status' \in Terminal
    BY <1>1, <1>2, <2>4 DEF Copy, CopyBelow, Terminal
  <2>5. status' = "LIVE" => status \in {"NONE", "SCHEDULED", "LIVE"}
    BY <1>2 DEF MovesOn, Statuses, Terminal
  <2> QED
    BY <1>2, <2>1, <2>2, <2>3, <2>4, <2>5 DEF Statuses
<1>4. ModeSeen(rs.mode)'
  BY DEF Copy, ModeSeen, MovesOn
<1>5. (rs \in RoomState)'
  BY DEF Copy, RoomState
<1> QED
  BY <1>3, <1>4, <1>5 DEF Copy

\* So does what is known of a request.
LEMMA ServedStays ==
  ASSUME EngineInv, EngineInv', MovesOn, NEW t, Served(t)
  PROVE  Served(t)'
<1>1. Copy(t.rs)'
  <2>1. PICK rs : rs = t.rs
    OBVIOUS
  <2>2. Copy(rs)'
    BY <2>1, CopyStays DEF Served
  <2> QED
    BY <2>1, <2>2
<1>2. ModeSeen(t.mode)'
  BY DEF Served, ModeSeen, MovesOn
<1>3. Doomed(t.rs, t.amount, t.clock)' = Doomed(t.rs, t.amount, t.clock)
  BY DEF Doomed, UsesSealedEngine
<1>4. status' \notin Terminal => status \notin Terminal
  BY DEF MovesOn
<1> QED
  BY <1>1, <1>2, <1>3, <1>4 DEF Served, Task, RoomState, NoScores

\* A cold entry and an idle request are safe in every state.
LEMMA ColdIsSafe ==
  ASSUME EngineInv
  PROVE  Copy(Cold) /\ Served(NoTask) /\ NoTask.pc = "idle"
<1>1. price \in Nat /\ endAt \in Nat /\ NoScores \in [Users -> Nat]
  BY CoreTypes DEF EngineInv
<1>2. Copy(Cold)
  BY <1>1 DEF Copy, CopyBelow, ModeSeen, RoomState, Cold
<1>3. /\ NoTask.pc = "idle" /\ NoTask.rs = Cold /\ NoTask.mode = ""
  BY DEF NoTask
<1>4. NoTask \in Task
  <2>1. Cold \in RoomState
    BY <1>2 DEF Copy
  <2> QED
    BY <1>1, <2>1 DEF NoTask, Task, Pcs
<1>5. ModeSeen("")
  BY DEF ModeSeen
<1> QED
  BY <1>2, <1>3, <1>4, <1>5 DEF Served

\* The ratchet takes an entry of the log into a safe copy.
LEMMA RatchetIsSafe ==
  ASSUME EngineInv, NEW rs, Copy(rs), NEW p \in Nat, NEW end \in Nat,
         status \notin {"NONE", "SCHEDULED"},
         status \notin Terminal => p <= price /\ end <= endAt,
         p > 0 => end > 0 \/ rs.endAt > 0
  PROVE  Copy(Ratchet(rs, p, end))
<1> DEFINE q == Ratchet(rs, p, end)
<1>1. /\ rs \in RoomState /\ rs.price \in Nat /\ rs.endAt \in Nat /\ rs.terminal \in BOOLEAN
  BY DEF Copy, RoomState
<1>2. /\ q.price = (IF p > rs.price THEN p ELSE rs.price)
      /\ q.endAt = (IF end > rs.endAt THEN end ELSE rs.endAt)
      /\ q.mode = rs.mode /\ q.terminal = rs.terminal /\ q \in RoomState
  BY <1>1 DEF Ratchet, RoomState
<1> HIDE DEF q
<1>3. status \notin Terminal => q.price <= price /\ q.endAt <= endAt
  BY <1>1, <1>2 DEF Copy, CopyBelow
<1>4. q.price > 0 /\ ~q.terminal => q.endAt > 0
  BY <1>1, <1>2 DEF Copy, CopyBelow
<1>5. Copy(q)
  BY <1>2, <1>3, <1>4 DEF Copy, CopyBelow
<1> QED
  BY <1>5 DEF q

\* markTerminalAndUpdate leaves a safe copy whatever deadline it had.
LEMMA MarkedIsSafe ==
  ASSUME EngineInv, NEW rs, Copy(rs), NEW p \in Nat, NEW end \in Nat,
         status \notin {"NONE", "SCHEDULED"},
         status \notin Terminal => p <= price /\ end <= endAt
  PROVE  Copy(Marked(rs, p, end))
<1> DEFINE q == Marked(rs, p, end)
<1>1. /\ rs \in RoomState /\ rs.price \in Nat /\ rs.endAt \in Nat
  BY DEF Copy, RoomState
<1>2. /\ q.price = (IF p > rs.price THEN p ELSE rs.price)
      /\ q.endAt = (IF end > rs.endAt THEN end ELSE rs.endAt)
      /\ q.mode = rs.mode /\ q.terminal = TRUE /\ q \in RoomState
  BY <1>1 DEF Marked, Ratchet, RoomState
<1> HIDE DEF q
<1>3. status \notin Terminal => q.price <= price /\ q.endAt <= endAt
  BY <1>1, <1>2 DEF Copy, CopyBelow
<1>4. Copy(q)
  BY <1>2, <1>3 DEF Copy, CopyBelow
<1> QED
  BY <1>4 DEF q

\* The fan-out: every entry it may read leaves the cache safe.
LEMMA FanoutIsSafe ==
  ASSUME EngineInv, NEW rs, Copy(rs), NEW i \in 1 .. Len(stream)
  PROVE  Copy(UpdatedFrom(rs, stream[i]))
<1>0. stream \in Seq(Event) /\ Len(stream) \in Nat /\ price \in Nat /\ endAt \in Nat
  BY CoreTypes DEF EngineInv
<1>1. PICK e \in Event : e = stream[i]
  BY <1>0
<1>2. e.amount \in Nat /\ e.endAt \in Nat /\ 0 \in Nat /\ e.type \in EventTypes
  BY <1>1 DEF Event
<1>3. /\ status \notin {"NONE", "SCHEDULED"}
      /\ status \notin Terminal => /\ e.amount <= price /\ e.endAt <= endAt
                                   /\ 0 <= price /\ 0 <= endAt
      /\ e.type = "BID_ACCEPTED" => e.endAt > 0
  <2>1. stream # <<>>
    BY <1>0
  <2> QED
    BY <1>0, <1>1, <2>1 DEF EngineInv, LogBelow
<1>4. \A p \in {e.amount, 0}, end \in {e.endAt, 0} : Copy(Marked(rs, p, end))
  BY <1>2, <1>3, MarkedIsSafe
<1>5. e.type = "BID_ACCEPTED" => Copy(Ratchet(rs, e.amount, e.endAt))
  BY <1>2, <1>3, RatchetIsSafe
<1>6. Copy(Ratchet(rs, 0, e.endAt))
  <2>1. ~(0 > 0)
    OBVIOUS
  <2> QED
    BY <1>2, <1>3, <2>1, RatchetIsSafe
<1>7. Copy(UpdatedFrom(rs, e))
  <2>1. CASE e.type = "AUCTION_SOLD"
    BY <1>4, <2>1 DEF UpdatedFrom
  <2>2. CASE e.type \in {"AUCTION_NO_BID", "AUCTION_CANCELLED"}
    BY <1>4, <2>2 DEF UpdatedFrom
  <2>3. CASE e.type = "BID_ACCEPTED"
    BY <1>4, <1>5, <2>3 DEF UpdatedFrom, CapHitEvent
  <2>4. CASE e.type = "AUCTION_EXTENDED"
    BY <1>6, <2>4 DEF UpdatedFrom, CapHitEvent
  <2>5. CASE e.type = "AUCTION_REVEALED"
    BY <1>4, <2>5 DEF UpdatedFrom, CapHitEvent
  <2>6. CASE e.type \in {"SEALED_BID_RECEIVED", "ALL_PAY_FORFEIT"}
    BY <2>6 DEF UpdatedFrom, CapHitEvent
  <2> QED
    BY <1>2, <2>1, <2>2, <2>3, <2>4, <2>5, <2>6 DEF EventTypes, BidTypes, TerminalTypes
<1> QED
  BY <1>1, <1>7

\* setMode writes the frozen mode or nothing.
LEMMA WithModeIsSafe ==
  ASSUME NEW rs, Copy(rs), NEW m \in Modes \cup {""}, ModeSeen(m)
  PROVE  Copy(WithMode(rs, m))
<1> DEFINE q == [rs EXCEPT !.mode = m]
<1>1. rs \in RoomState
  BY DEF Copy
<1>2. /\ q.price = rs.price /\ q.endAt = rs.endAt /\ q.terminal = rs.terminal
      /\ q.mode = m /\ q \in RoomState
  BY <1>1 DEF RoomState
<1> HIDE DEF q
<1>3. Copy(q)
  BY <1>2 DEF Copy, CopyBelow
<1> QED
  BY <1>3 DEF WithMode, q

\* What Snapshot returns is the frozen mode.
LEMMA SnapshotModeSeen ==
  ASSUME TypeOK
  PROVE  SnapshotMode \in Modes \cup {""} /\ ModeSeen(SnapshotMode)
  BY DEF TypeOK, RuleRecord, SnapshotMode, ModeSeen

\* One handler's request is replaced by a safe one.
LEMMA BecomesSafe ==
  ASSUME GatewayInv, NEW h \in Handlers, NEW t, Served(t), Becomes(h, t)
  PROVE  task' \in [Handlers -> Task] /\ \A g \in Handlers : Served(task'[g])
<1>1. t \in Task /\ task \in [Handlers -> Task]
  BY DEF Served, GatewayInv
<1>2. task' = [task EXCEPT ![h] = t]
  BY DEF Becomes
<1>3. task' \in [Handlers -> Task]
  BY <1>1, <1>2
<1>4. ASSUME NEW g \in Handlers PROVE Served(task'[g])
  <2>1. task'[g] = IF g = h THEN t ELSE task[g]
    BY <1>1, <1>2
  <2> QED
    BY <2>1 DEF GatewayInv
<1> QED
  BY <1>3, <1>4

\* The request a bid becomes when it is received: its fields are the caller's,
\* its mode the cached one.
LEMMA BidIsServed ==
  ASSUME EngineInv, NEW u \in Users, NEW r \in Reqs, NEW a \in BidAmounts,
         NEW m \in Modes \cup {""}, ModeSeen(m), NEW pc \in {"lookup", "script"}
  PROVE  Served([NoTask EXCEPT !.pc = pc, !.user = u, !.req = r, !.amount = a, !.mode = m])
<1> DEFINE t == [NoTask EXCEPT !.pc = pc, !.user = u, !.req = r, !.amount = a, !.mode = m]
<1>1. NoTask \in Task /\ Copy(NoTask.rs) /\ a \in Nat
  BY ColdIsSafe, BoundsAssumption DEF Served
<1>2. /\ t.pc = pc /\ t.user = u /\ t.req = r /\ t.amount = a /\ t.mode = m
      /\ t.rs = NoTask.rs /\ t \in Task
  BY <1>1 DEF Task, Pcs
<1> HIDE DEF t
<1>3. Served(t)
  BY <1>1, <1>2 DEF Served
<1> QED
  BY <1>3 DEF t

\* The same, when one copy of the cache says that the bid is too low.
LEMMA DoomedIsServed ==
  ASSUME EngineInv, NEW u \in Users, NEW r \in Reqs, NEW a \in BidAmounts,
         NEW rs, Copy(rs), NEW c \in Int, Doomed(rs, a, c)
  PROVE  Served([[NoTask EXCEPT !.pc = "script", !.user = u, !.req = r, !.amount = a,
                                !.mode = rs.mode]
                   EXCEPT !.pc = "precheck", !.rs = rs, !.clock = c])
<1> DEFINE t == [[NoTask EXCEPT !.pc = "script", !.user = u, !.req = r, !.amount = a,
                                !.mode = rs.mode]
                   EXCEPT !.pc = "precheck", !.rs = rs, !.clock = c]
<1>1. NoTask \in Task /\ a \in Nat /\ rs \in RoomState /\ rs.mode \in Modes \cup {""}
  BY ColdIsSafe, BoundsAssumption DEF Served, Copy, RoomState
<1>2. /\ t.pc = "precheck" /\ t.user = u /\ t.req = r /\ t.amount = a /\ t.mode = rs.mode
      /\ t.rs = rs /\ t.clock = c /\ t \in Task
  BY <1>1 DEF Task, Pcs
<1> HIDE DEF t
<1>3. Served(t)
  BY <1>2 DEF Served, Copy
<1> QED
  BY <1>3 DEF t

\* A handler's step leaves safe copies, as of the state before it.
LEMMA ServeIsSafe ==
  ASSUME GatewayInv, NEW h \in Handlers, Serve(h)
  PROVE  /\ Copy(cache') /\ task' \in [Handlers -> Task]
         /\ \A g \in Handlers : Served(task'[g])
         /\ dropping' = dropping /\ cursor' = cursor /\ joined' \in BOOLEAN
<1>0. /\ EngineInv /\ TypeOK /\ Copy(cache) /\ task \in [Handlers -> Task]
      /\ Served(task[h]) /\ joined \in BOOLEAN
  BY DEF GatewayInv, EngineInv
<1>1. /\ Served(NoTask) /\ Copy(Cold) /\ NoTask \in Task /\ NoTask.pc = "idle"
      /\ Copy(NoTask.rs)
  BY <1>0, ColdIsSafe DEF Served
<1>2. /\ SnapshotMode \in Modes \cup {""} /\ ModeSeen(SnapshotMode)
      /\ cache.mode \in Modes \cup {""} /\ ModeSeen(cache.mode)
      /\ task[h].mode \in Modes \cup {""} /\ ModeSeen(task[h].mode)
  BY <1>0, SnapshotModeSeen DEF Copy, RoomState, Served, Task
<1>3. now \in Nat /\ leaderboard \in [Users -> Nat] /\ price \in Nat
      /\ winner \in Users \cup {NoUser} /\ NoScores \in [Users -> Nat]
  BY <1>0, CoreTypes DEF TypeOK
<1>4. task[h] \in Task /\ task[h].clock \in Int /\ Copy(task[h].rs)
  BY <1>0 DEF Served, Task
<1>5. CASE JoinRead(h)
  <2> DEFINE t == [NoTask EXCEPT !.pc = "joined", !.mode = SnapshotMode]
  <2>1. /\ t.pc = "joined" /\ t.mode = SnapshotMode /\ t.rs = NoTask.rs /\ t \in Task
    BY <1>1, <1>2 DEF Task, Pcs
  <2>2. Becomes(h, t) /\ UNCHANGED <<cache, dropping, cursor, joined>>
    BY <1>5 DEF JoinRead
  <2> HIDE DEF t
  <2>3. Served(t)
    BY <1>1, <1>2, <2>1 DEF Served
  <2> QED
    BY <1>0, <2>2, <2>3, BecomesSafe
<1>6. CASE JoinFails(h)
  BY <1>0, <1>6 DEF JoinFails, GatewayInv
<1>7. CASE SetMode(h)
  <2>1. Copy(cache') /\ dropping' = dropping /\ cursor' = cursor
    BY <1>0, <1>2, <1>7, WithModeIsSafe DEF SetMode
  <2>2. CASE task[h].pc = "joined" /\ joined' = TRUE /\ Becomes(h, NoTask)
    BY <1>1, <2>1, <2>2, BecomesSafe
  <2>3. CASE /\ task[h].pc = "modeRead" /\ joined' = joined
             /\ Becomes(h, [task[h] EXCEPT !.pc = "script"])
    <3> DEFINE t == [task[h] EXCEPT !.pc = "script"]
    <3>1. /\ t.pc = "script" /\ t.mode = task[h].mode /\ t.rs = task[h].rs
          /\ t.user = task[h].user /\ t.req = task[h].req /\ t.amount = task[h].amount
          /\ t \in Task
      BY <1>4 DEF Task, Pcs
    <3> HIDE DEF t
    <3>2. Served(t)
      BY <1>0, <2>3, <3>1 DEF Served
    <3> QED
      BY <1>0, <2>1, <2>3, <3>2, BecomesSafe DEF t
  <2> QED
    BY <1>7, <2>2, <2>3 DEF SetMode
<1>8. ASSUME NEW u \in Users, NEW r \in Reqs, NEW a \in BidAmounts, ReceiveWS(h, u, r, a)
      PROVE  /\ Copy(cache') /\ task' \in [Handlers -> Task]
             /\ \A g \in Handlers : Served(task'[g])
             /\ dropping' = dropping /\ cursor' = cursor /\ joined' \in BOOLEAN
  <2> DEFINE t == [NoTask EXCEPT !.pc = "script", !.user = u, !.req = r,
                                 !.amount = a, !.mode = cache.mode]
  <2>1. PICK s \in Skews :
          \/ /\ Doomed(cache, a, now - s)
             /\ Becomes(h, [t EXCEPT !.pc = "precheck", !.rs = cache, !.clock = now - s])
          \/ Becomes(h, t)
    BY <1>8 DEF ReceiveWS
  <2>2. now - s \in Int
    BY <1>3, RoutingAssumption
  <2>3. UNCHANGED <<cache, dropping, cursor, joined>>
    BY <1>8 DEF ReceiveWS
  <2>4. Served(t)
    BY <1>0, <1>2, BidIsServed
  <2>5. Doomed(cache, a, now - s) =>
          Served([t EXCEPT !.pc = "precheck", !.rs = cache, !.clock = now - s])
    BY <1>0, <2>2, DoomedIsServed
  <2> HIDE DEF t
  <2> QED
    BY <1>0, <2>1, <2>3, <2>4, <2>5, BecomesSafe
<1>9. ASSUME NEW u \in Users, NEW r \in Reqs, NEW a \in BidAmounts, ReceiveHTTP(h, u, r, a)
      PROVE  /\ Copy(cache') /\ task' \in [Handlers -> Task]
             /\ \A g \in Handlers : Served(task'[g])
             /\ dropping' = dropping /\ cursor' = cursor /\ joined' \in BOOLEAN
  <2>1. PICK pc \in {"lookup", "script"} :
          Becomes(h, [NoTask EXCEPT !.pc = pc, !.user = u, !.req = r,
                                    !.amount = a, !.mode = cache.mode])
    BY <1>9 DEF ReceiveHTTP
  <2>2. UNCHANGED <<cache, dropping, cursor, joined>>
    BY <1>9 DEF ReceiveHTTP
  <2>3. Served([NoTask EXCEPT !.pc = pc, !.user = u, !.req = r,
                              !.amount = a, !.mode = cache.mode])
    BY <1>0, <1>2, BidIsServed
  <2> QED
    BY <1>0, <2>1, <2>2, <2>3, BecomesSafe
<1>10. CASE \/ FastReject(h) \/ RunScript(h) \/ ScriptRejects(h)
            \/ LeaderboardGate(h) \/ LeaderboardUngated(h) \/ ListMerge(h)
  <2>1. Becomes(h, NoTask) /\ UNCHANGED <<cache, dropping, cursor, joined>>
    BY <1>10 DEF FastReject, RunScript, ScriptRejects, LeaderboardGate,
                 LeaderboardUngated, ListMerge
  <2> QED
    BY <1>0, <1>1, <2>1, BecomesSafe
<1>11. CASE DeferToScript(h)
  <2> DEFINE t == [task[h] EXCEPT !.pc = "script", !.rs = Cold, !.clock = 0]
  <2>1. /\ t.pc = "script" /\ t.mode = task[h].mode /\ t.rs = Cold
        /\ t.user = task[h].user /\ t.req = task[h].req /\ t.amount = task[h].amount
        /\ t \in Task
    <3>1. Cold \in RoomState /\ 0 \in Int /\ "script" \in Pcs
      BY <1>1 DEF Copy, Pcs
    <3> QED
      BY <1>4, <3>1 DEF Task
  <2>2. Becomes(h, t) /\ UNCHANGED <<cache, dropping, cursor, joined>>
    BY <1>11 DEF DeferToScript
  <2>3. task[h].pc = "precheck"
    BY <1>11 DEF DeferToScript
  <2> HIDE DEF t
  <2>4. Served(t)
    BY <1>0, <1>1, <2>1, <2>3 DEF Served
  <2> QED
    BY <1>0, <2>2, <2>4, BecomesSafe
<1>12. CASE ModeLookup(h) \/ ModeLookupFails(h)
  <2>1. PICK pc \in {"modeRead", "script"}, m \in {SnapshotMode, task[h].mode} :
          Becomes(h, [task[h] EXCEPT !.pc = pc, !.mode = m])
    <3>1. CASE ModeLookup(h)
      BY <3>1 DEF ModeLookup
    <3>2. CASE ModeLookupFails(h)
      <4>1. [task[h] EXCEPT !.pc = "script"] = [task[h] EXCEPT !.pc = "script", !.mode = task[h].mode]
        BY <1>4 DEF Task
      <4> QED
        BY <3>2, <4>1 DEF ModeLookupFails
    <3> QED
      BY <1>12, <3>1, <3>2
  <2>2. UNCHANGED <<cache, dropping, cursor, joined>> /\ task[h].pc = "lookup"
    BY <1>12 DEF ModeLookup, ModeLookupFails
  <2> DEFINE t == [task[h] EXCEPT !.pc = pc, !.mode = m]
  <2>3. /\ t.pc = pc /\ t.mode = m /\ t.rs = task[h].rs
        /\ t.user = task[h].user /\ t.req = task[h].req /\ t.amount = task[h].amount
        /\ t \in Task
    BY <1>2, <1>4 DEF Task, Pcs
  <2> HIDE DEF t
  <2>4. Served(t)
    BY <1>0, <1>2, <2>2, <2>3 DEF Served
  <2> QED
    BY <1>0, <2>1, <2>2, <2>4, BecomesSafe DEF t
<1>13. CASE LeaderboardRows(h) \/ ListRow(h)
  <2>1. PICK pc \in {"board", "list"}, b \in [Users -> Nat] :
          /\ Becomes(h, [NoTask EXCEPT !.pc = pc, !.board = b])
          /\ pc = "list" /\ status \notin Terminal => b = NoScores
    <3>1. CASE LeaderboardRows(h)
      BY <1>3, <3>1 DEF LeaderboardRows
    <3>2. CASE ListRow(h)
      <4>1. Standing(winner, price) \in [Users -> Nat]
        BY <1>3 DEF Standing
      <4> QED
        BY <1>3, <3>2, <4>1 DEF ListRow, Terminal
    <3> QED
      BY <1>13, <3>1, <3>2
  <2>2. UNCHANGED <<cache, dropping, cursor, joined>>
    BY <1>13 DEF LeaderboardRows, ListRow
  <2> DEFINE t == [NoTask EXCEPT !.pc = pc, !.board = b]
  <2>3. t.pc = pc /\ t.board = b /\ t.rs = NoTask.rs /\ t.mode = NoTask.mode /\ t \in Task
    BY <1>1 DEF Task, Pcs
  <2> HIDE DEF t
  <2>4. Served(t)
    BY <1>1, <2>1, <2>3 DEF Served
  <2> QED
    BY <1>0, <2>1, <2>2, <2>4, BecomesSafe DEF t
<1> QED
  BY <1>5, <1>6, <1>7, <1>8, <1>9, <1>10, <1>11, <1>12, <1>13 DEF Serve

-----------------------------------------------------------------------------
(***************************************************************************)
(* Routing.                                                                *)
(***************************************************************************)

\* The one step of a gateway that no engine run this way would take: a bid
\* whose mode was never learned reaches place_bid.lua.
Misrouted ==
  /\ rules.mode \notin Plain
  /\ \E h \in Handlers : task[h].pc = "script" /\ task[h].mode = ""

\* A handler's script is the frozen mode's own, or place_bid.lua run blind.
LEMMA ScriptIsRouted ==
  ASSUME GatewayInv, NEW h \in Handlers, RunScript(h)
  PROVE  /\ Next \/ Misrouted
         /\ EngineStep
<1> DEFINE t == task[h]
<1>1. /\ t.pc = "script" /\ seq < MaxSeq /\ Script(t)
  BY DEF RunScript
<1>2. Served(t) /\ TypeOK
  BY DEF GatewayInv, EngineInv
<1>3. /\ t.user \in Users /\ t.req \in Reqs /\ t.amount \in BidAmounts
      /\ t.mode = "" \/ t.mode = rules.mode
  BY <1>1, <1>2 DEF Served, ModeSeen
<1>4. rules.mode \in Modes
  BY <1>2 DEF TypeOK, RuleRecord
<1> HIDE DEF t
<1>5. CASE t.mode = rules.mode
  <2>1. \/ rules.mode \in Sealed /\ PlaceBidSealed(t.user, t.req, t.amount)
        \/ rules.mode = "HYBRID_REVEAL" /\ PlaceBidHybrid(t.user, t.req, t.amount)
        \/ /\ rules.mode \notin Sealed /\ rules.mode # "HYBRID_REVEAL"
           /\ PlaceBid(t.user, t.req, t.amount)
    BY <1>1, <1>5 DEF Script, UsesSealedEngine, UsesHybridEngine
  <2>2. rules.mode \notin Sealed /\ rules.mode # "HYBRID_REVEAL" => rules.mode \in Plain
    BY <1>4 DEF Modes, Ascending, Plain
  <2>3. Bid(t.user, t.req, t.amount)
    BY <1>1, <2>1, <2>2 DEF Bid
  <2>4. Next
    BY <1>3, <2>3 DEF Next
  <2> QED
    BY <2>4 DEF EngineStep
<1>6. CASE t.mode = ""
  <2>1. PlaceBid(t.user, t.req, t.amount)
    BY <1>1, <1>6 DEF Script, UsesSealedEngine, UsesHybridEngine, Sealed
  <2>2. EngineStep
    BY <1>3, <2>1 DEF EngineStep
  <2>3. CASE rules.mode \in Plain
    <3>1. Bid(t.user, t.req, t.amount)
      BY <1>1, <2>1, <2>3 DEF Bid
    <3> QED
      BY <1>3, <2>2, <3>1 DEF Next
  <2>4. CASE rules.mode \notin Plain
    BY <1>1, <1>6, <2>2, <2>4 DEF Misrouted, t
  <2> QED
    BY <2>3, <2>4
<1> QED
  BY <1>3, <1>5, <1>6

\* What a step of the gateway and its surroundings is to the engine.
LEMMA StepIsRouted ==
  ASSUME GatewayInv, [RNext]_rvars
  PROVE  /\ Next \/ UNCHANGED vars \/ Misrouted
         /\ EngineStep
<1>1. CASE EngineElsewhere
  <2>1. Next
    BY <1>1, UsersAssumption DEF EngineElsewhere, Next
  <2> QED
    BY <2>1 DEF EngineStep
<1>2. ASSUME NEW h \in Handlers, Serve(h)
      PROVE  (Next \/ UNCHANGED vars \/ Misrouted) /\ EngineStep
  <2>1. CASE RunScript(h)
    BY <2>1, ScriptIsRouted
  <2>2. CASE ~RunScript(h)
    <3>1. UNCHANGED vars
      BY <1>2, <2>2 DEF Serve, JoinRead, JoinFails, SetMode, ReceiveWS, ReceiveHTTP,
           FastReject, DeferToScript, ModeLookup, ModeLookupFails, ScriptRejects,
           LeaderboardRows, LeaderboardGate, LeaderboardUngated, ListRow, ListMerge
    <3> QED
      BY <3>1 DEF EngineStep
  <2> QED
    BY <2>1, <2>2
<1>3. CASE FanoutEvent \/ DropRoomState \/ GatewayRestart \/ UNCHANGED rvars
  <2>1. UNCHANGED vars
    BY <1>3 DEF FanoutEvent, DropRoomState, GatewayRestart, rvars
  <2> QED
    BY <2>1 DEF EngineStep
<1> QED
  BY <1>1, <1>2, <1>3 DEF RNext

\* Whatever the step, the copies it leaves are safe as of the state before it.
LEMMA StepIsSafe ==
  ASSUME GatewayInv, [RNext]_rvars
  PROVE  /\ Copy(cache') /\ task' \in [Handlers -> Task]
         /\ \A g \in Handlers : Served(task'[g])
         /\ dropping' \in BOOLEAN /\ joined' \in BOOLEAN /\ cursor' \in 0 .. Len(stream)
<1>0. /\ EngineInv /\ Copy(cache) /\ task \in [Handlers -> Task]
      /\ \A g \in Handlers : Served(task[g])
      /\ dropping \in BOOLEAN /\ joined \in BOOLEAN /\ cursor \in 0 .. Len(stream)
      /\ Len(stream) \in Nat /\ Copy(Cold) /\ Served(NoTask)
  BY CoreTypes, ColdIsSafe DEF GatewayInv, EngineInv
<1>1. CASE EngineElsewhere \/ UNCHANGED rvars
  BY <1>0, <1>1 DEF EngineElsewhere, rvars, gatewayVars
<1>2. ASSUME NEW h \in Handlers, Serve(h)
      PROVE  /\ Copy(cache') /\ task' \in [Handlers -> Task]
             /\ \A g \in Handlers : Served(task'[g])
             /\ dropping' \in BOOLEAN /\ joined' \in BOOLEAN /\ cursor' \in 0 .. Len(stream)
  BY <1>0, <1>2, ServeIsSafe
<1>3. CASE FanoutEvent
  <2>1. /\ cursor + 1 \in 1 .. Len(stream) /\ cursor' = cursor + 1
        /\ cache' = UpdatedFrom(cache, stream[cursor + 1])
        /\ dropping' \in BOOLEAN /\ joined' = joined /\ task' = task
    BY <1>0, <1>3 DEF FanoutEvent, Drops
  <2>2. Copy(UpdatedFrom(cache, stream[cursor + 1]))
    BY <1>0, <2>1, FanoutIsSafe
  <2> QED
    BY <1>0, <2>1, <2>2
<1>4. CASE DropRoomState
  BY <1>0, <1>4 DEF DropRoomState
<1>5. CASE GatewayRestart
  <2>1. NoTask \in Task /\ 0 \in 0 .. Len(stream)
    BY <1>0 DEF Served
  <2>2. /\ cache' = Cold /\ dropping' = FALSE /\ cursor' = 0 /\ joined' = FALSE
        /\ task' = [h \in Handlers |-> NoTask]
    BY <1>5 DEF GatewayRestart
  <2>3. task' \in [Handlers -> Task] /\ \A g \in Handlers : task'[g] = NoTask
    BY <2>1, <2>2
  <2> QED
    BY <1>0, <2>1, <2>2, <2>3
<1> QED
  BY <1>1, <1>2, <1>3, <1>4, <1>5 DEF RNext

\* GatewayInv is inductive: safe copies of the old state are safe in the new
\* one, because the engine only moves on.
LEMMA NextGateway == GatewayInv /\ [RNext]_rvars => GatewayInv'
<1> SUFFICES ASSUME GatewayInv, [RNext]_rvars PROVE GatewayInv'
  OBVIOUS
<1>1. EngineInv /\ EngineInv' /\ MovesOn
  BY StepIsRouted, EngineMovesOn DEF GatewayInv
<1>2. /\ Copy(cache') /\ task' \in [Handlers -> Task]
      /\ \A g \in Handlers : Served(task'[g])
      /\ dropping' \in BOOLEAN /\ joined' \in BOOLEAN /\ cursor' \in 0 .. Len(stream)
  BY StepIsSafe
<1>3. cursor' \in 0 .. Len(stream')
  <2>1. Len(stream) \in Nat /\ Len(stream') \in Nat /\ Len(stream) <= Len(stream')
    <3>1. stream \in Seq(Event) /\ stream' \in Seq(Event)
      BY <1>1 DEF EngineInv, TypeOK, Event
    <3> QED
      BY <1>1, <3>1 DEF MovesOn
  <2> QED
    BY <1>2, <2>1
<1>4. Copy(cache)'
  <2>1. PICK rs : rs = cache'
    OBVIOUS
  <2>2. Copy(rs)'
    BY <1>1, <1>2, <2>1, CopyStays
  <2> QED
    BY <2>1, <2>2
<1>5. ASSUME NEW g \in Handlers PROVE Served(task[g])'
  <2>1. PICK t : t = task'[g]
    OBVIOUS
  <2>2. Served(t)'
    BY <1>1, <1>2, <2>1, ServedStays
  <2> QED
    BY <2>1, <2>2
<1>6. (task \in [Handlers -> Task])'
  BY <1>2 DEF Task, RoomState
<1> QED
  BY <1>1, <1>2, <1>3, <1>4, <1>5, <1>6 DEF GatewayInv

\* GatewayInv holds throughout.
LEMMA GatewayInvariant == RSpec => []GatewayInv
<1>1. RInit => GatewayInv
  <2> SUFFICES ASSUME RInit PROVE GatewayInv
    OBVIOUS
  <2>1. TypeOK
    BY InitType DEF RInit
  <2>2. Biddable /\ LogBelow
    BY DEF RInit, Init, Biddable, LogBelow
  <2>3. EngineInv
    BY <2>1, <2>2 DEF EngineInv
  <2>4. Copy(Cold) /\ Served(NoTask) /\ NoTask \in Task
    BY <2>3, ColdIsSafe DEF Served
  <2>5. cursor \in 0 .. Len(stream)
    BY DEF RInit, Init
  <2> QED
    BY <2>3, <2>4, <2>5 DEF RInit, GatewayInv
<1>2. GatewayInv /\ [RNext]_rvars => GatewayInv'
  BY NextGateway
<1> QED
  BY <1>1, <1>2, PTL DEF RSpec

\* Neither the cache nor any copy a handler took of it is ahead of the Hash of
\* a running auction in price or deadline: through replays after a restart,
\* entries read late, a set mode that comes late and misrouted bids.
THEOREM CopiesStayBehind == RSpec => []CacheNeverAhead
<1>1. GatewayInv => CacheNeverAhead
  BY DEF GatewayInv, Served, Copy, CopyBelow, CacheNeverAhead, Terminal
<1> QED
  BY <1>1, GatewayInvariant, PTL

\* A bid answered ERR_TOO_LOW from the cache is one the script would answer
\* ERR_TOO_LOW, or ERR_AFTER_END after a delay of more than the margin.
THEOREM FastRejectsAgree == RSpec => FastRejectAgrees
<1>1. ASSUME GatewayInv, NEW h \in Handlers, FastReject(h)
      PROVE  LET t == task[h] IN
             \/ ScriptCode(t) = "ERR_TOO_LOW"
             \/ ScriptCode(t) = "ERR_AFTER_END" /\ now - t.clock > ExpiryMargin
  <2> DEFINE t == task[h]
  <2>1. /\ t.pc = "precheck" /\ status = "LIVE" /\ t.user # Seller
        /\ Cached(t.user, t.req) = NoAck
    BY <1>1 DEF FastReject, PrecheckClear
  <2>2. EngineInv /\ Served(t)
    BY <1>1 DEF GatewayInv
  <2>3. /\ price \in Nat /\ endAt \in Nat /\ now \in Nat
        /\ rules.cap \in Nat /\ rules.increment \in Nat
    BY <2>2, CoreTypes DEF EngineInv
  <2>4. /\ t.amount \in Nat /\ t.clock \in Int /\ t.rs.price \in Nat /\ t.rs.endAt \in Nat
    BY <2>2 DEF Served, Task, RoomState
  <2>5. /\ t.mode = t.rs.mode /\ Doomed(t.rs, t.amount, t.clock)
        /\ t.rs.price <= price /\ t.rs.endAt <= endAt
        /\ t.rs.price > 0 /\ ~t.rs.terminal => t.rs.endAt > 0
    BY <2>1, <2>2 DEF Served, Copy, CopyBelow, Terminal
  <2> HIDE DEF t
  <2>6. /\ ~UsesSealedEngine(t.mode) /\ t.amount <= t.rs.price
        /\ t.clock + ExpiryMargin < t.rs.endAt
    BY <2>4, <2>5 DEF Doomed
  <2>7. ScriptCode(t) = AscendingCode(t.user, t.req, t.amount)
    BY <2>6 DEF ScriptCode
  <2>8. CASE now >= endAt
    <3>1. AscendingCode(t.user, t.req, t.amount) = "ERR_AFTER_END"
      BY <2>1, <2>8 DEF AscendingCode, AdmissionCode
    <3>2. now - t.clock > ExpiryMargin
      BY <2>3, <2>4, <2>5, <2>6, <2>8, RoutingAssumption
    <3> QED
      BY <2>7, <3>1, <3>2 DEF t
  <2>9. CASE ~(now >= endAt)
    <3>1. rules.increment > 0 /\ (rules.cap > 0 => price < rules.cap)
      BY <2>1, <2>2 DEF EngineInv, Biddable, Validate
    <3>2. price < Required
      BY <2>3, <3>1 DEF Required
    <3>3. Required \in Nat
      BY <2>3 DEF Required
    <3>4. ~InRange(t.amount, Required)
      BY <2>3, <2>4, <2>5, <2>6, <3>2, <3>3 DEF InRange
    <3>5. AscendingCode(t.user, t.req, t.amount) = "ERR_TOO_LOW"
      BY <2>1, <2>9, <3>4 DEF AscendingCode, AdmissionCode
    <3> QED
      BY <2>7, <3>5 DEF t
  <2> QED
    BY <2>8, <2>9
<1>2. GatewayInv /\ [RNext]_rvars =>
        [\A h \in Handlers :
           LET t == task[h] IN
           FastReject(h) =>
             \/ ScriptCode(t) = "ERR_TOO_LOW"
             \/ /\ ScriptCode(t) = "ERR_AFTER_END"
                /\ now - t.clock > ExpiryMargin]_rvars
  BY <1>1
<1> QED
  BY <1>2, GatewayInvariant, PTL DEF RSpec, FastRejectAgrees

\* Every step of a gateway is a step of the engine the seller froze or none,
\* but for place_bid.lua run by a handler that never learned the mode.
THEOREM BidsAreRouted == RSpec => RoutedAsFrozen
<1>1. GatewayInv /\ [RNext]_rvars =>
        [\/ Next
         \/ UNCHANGED vars
         \/ /\ rules.mode \notin Plain
            /\ \E h \in Handlers : task[h].pc = "script" /\ task[h].mode = ""]_rvars
  BY StepIsRouted DEF Misrouted
<1> QED
  BY <1>1, GatewayInvariant, PTL DEF RSpec, RoutedAsFrozen

-----------------------------------------------------------------------------
(***************************************************************************)
(* The leaderboard and the copies of it that requests hold.  Until an      *)
(* auction ends only its leader's row is as high as the price, and outside *)
(* HYBRID_REVEAL every row is a bid the Stream has shown.                  *)
(***************************************************************************)

BoardOK(rows) ==
  /\ status \in {"NONE", "SCHEDULED"} => rows = NoScores
  /\ status \notin Terminal =>
       \A u \in Users : rows[u] > 0 => rows[u] <= price /\ (rows[u] < price \/ u = winner)
  /\ status \notin Terminal => Broadcast(rows) \/ rules.mode = "HYBRID_REVEAL"

BoardInv ==
  /\ BoardOK(leaderboard)
  /\ \A h \in Handlers : task[h].pc = "board" => BoardOK(task[h].board)

\* Rows read before a step are as good after it.
LEMMA BoardStays ==
  ASSUME EngineInv, EngineInv', MovesOn, NEW rows \in [Users -> Nat], BoardOK(rows)
  PROVE  BoardOK(rows)'
<1>1. /\ price \in Nat /\ price' \in Nat /\ status \in Statuses /\ status' \in Statuses
      /\ Len(stream) \in Nat /\ Len(stream') \in Nat
  <2>1. TypeOK /\ TypeOK'
    BY DEF EngineInv
  <2>2. stream \in Seq(Event) /\ stream' \in Seq(Event)
    BY <2>1 DEF TypeOK, Event
  <2>3. price \in Nat /\ price' \in Nat /\ status \in Statuses /\ status' \in Statuses
    BY <2>1 DEF TypeOK
  <2>4. Len(stream) \in Nat /\ Len(stream') \in Nat
    BY <2>2
  <2> QED
    BY <2>3, <2>4
<1>2. CASE status' \in Terminal
  BY <1>2 DEF BoardOK, Terminal
<1>3. CASE status \in {"NONE", "SCHEDULED"}
  <2>1. rows = NoScores /\ \A u \in Users : ~(rows[u] > 0)
    BY <1>3 DEF BoardOK, NoScores
  <2>2. NoScores' = NoScores
    BY DEF NoScores
  <2> QED
    BY <2>1, <2>2 DEF BoardOK, Broadcast
<1>4. CASE status = "LIVE" /\ status' = "LIVE"
  <2>1. /\ price <= price' /\ (price' = price => winner' = winner) /\ rules' = rules
        /\ Len(stream) <= Len(stream')
        /\ \A i \in 1 .. Len(stream) : stream'[i] = stream[i]
    BY <1>4 DEF MovesOn
  <2>2. Broadcast(rows) => Broadcast(rows)'
    <3> SUFFICES ASSUME Broadcast(rows), NEW u \in Users, rows[u] > 0
                 PROVE  \E i \in 1 .. Len(stream') :
                          /\ stream'[i].type = "BID_ACCEPTED"
                          /\ stream'[i].user = u /\ stream'[i].amount = rows[u]
      BY DEF Broadcast
    <3>1. PICK i \in 1 .. Len(stream) :
            /\ stream[i].type = "BID_ACCEPTED"
            /\ stream[i].user = u /\ stream[i].amount = rows[u]
      BY DEF Broadcast
    <3>2. i \in 1 .. Len(stream') /\ stream'[i] = stream[i]
      BY <1>1, <2>1
    <3> QED
      BY <3>1, <3>2
  <2>3. ASSUME NEW u \in Users, rows[u] > 0
        PROVE  rows[u] <= price' /\ (rows[u] < price' \/ u = winner')
    <3>1. rows[u] <= price /\ (rows[u] < price \/ u = winner) /\ rows[u] \in Nat
      BY <1>4, <2>3 DEF BoardOK, Terminal
    <3> QED
      BY <1>1, <2>1, <3>1
  <2> QED
    BY <1>4, <2>1, <2>2, <2>3 DEF BoardOK, Terminal
<1> QED
  BY <1>1, <1>2, <1>3, <1>4 DEF MovesOn, Statuses, Terminal

\* An accepted ascending bid raises its bidder's row to the new price, and shows
\* it to the room unless place_bid_hybrid.lua ran it.
LEMMA BidRaisesBoard ==
  ASSUME EngineInv, EngineInv', MovesOn, BoardOK(leaderboard),
         NEW u \in Users, NEW r \in Reqs, NEW a \in Nat,
         NEW su \in Users \cup {NoUser}, NEW sa \in Nat,
         (su = u /\ sa = a) \/ rules.mode = "HYBRID_REVEAL",
         AscendingBid(u, r, a, su, sa)
  PROVE  BoardOK(leaderboard)'
<1>0. TypeOK
  BY DEF EngineInv
<1>1. /\ price \in Nat /\ price < a /\ price' = a /\ rules' = rules
      /\ status = "LIVE" /\ status' \in {"LIVE", "SOLD"}
      /\ leaderboard \in [Users -> Nat] /\ Len(stream) \in Nat
  BY <1>0, CoreTypes, BidBeatsPrice
<1>2. winner' = u /\ leaderboard' = Raise(leaderboard, u, a)
  BY DEF AscendingBid, BidAccepted, BidExtended, BidSold, AcceptBid
<1>3. \A v \in Users : leaderboard[v] <= price
  <2> SUFFICES ASSUME NEW v \in Users PROVE leaderboard[v] <= price
    OBVIOUS
  <2>1. leaderboard[v] \in Nat /\ (leaderboard[v] > 0 => leaderboard[v] <= price)
    BY <1>1 DEF BoardOK, Terminal
  <2> QED
    BY <1>1, <2>1
<1>4. \A v \in Users : leaderboard'[v] = IF v = u THEN a ELSE leaderboard[v]
  <2>1. leaderboard[u] < a
    BY <1>1, <1>3
  <2> QED
    BY <1>1, <1>2, <2>1 DEF Raise
<1>5. CASE status' = "SOLD"
  BY <1>5 DEF BoardOK, Terminal
<1>6. CASE status' = "LIVE"
  <2>1. \A v \in Users : leaderboard'[v] <= price' /\ (leaderboard'[v] < price' \/ v = winner')
    BY <1>1, <1>2, <1>3, <1>4
  <2>2. ASSUME rules.mode # "HYBRID_REVEAL" PROVE Broadcast(leaderboard)'
    <3>1. /\ Len(stream') >= Len(stream) + 1
          /\ \E end : stream'[Len(stream) + 1] = BidEvent(u, a, end)
      <4>1. CASE BidAccepted(u, r, a, su, sa)
        BY <1>0, <1>1, <2>2, <4>1, AcceptedAppends DEF Grows
      <4>2. CASE BidExtended(u, r, a, su, sa)
        BY <1>0, <1>1, <2>2, <4>2, ExtendedAppends DEF Grows
      <4>3. CASE BidSold(u, r, a)
        BY <1>6, <4>3 DEF BidSold
      <4> QED
        BY <4>1, <4>2, <4>3 DEF AscendingBid
    <3>2. Len(stream') \in Nat
      BY DEF EngineInv, TypeOK
    <3> SUFFICES ASSUME NEW v \in Users, leaderboard'[v] > 0
                 PROVE  \E i \in 1 .. Len(stream') :
                          /\ stream'[i].type = "BID_ACCEPTED"
                          /\ stream'[i].user = v /\ stream'[i].amount = leaderboard'[v]
      BY DEF Broadcast
    <3>3. CASE v = u
      <4>1. Len(stream) + 1 \in 1 .. Len(stream')
        BY <1>1, <3>1, <3>2
      <4> QED
        BY <1>4, <3>1, <3>3, <4>1, BidEventSays
    <3>4. CASE v # u
      <4>1. leaderboard'[v] = leaderboard[v] /\ Broadcast(leaderboard)
        BY <1>1, <1>4, <2>2, <3>4 DEF BoardOK, Terminal
      <4>2. PICK i \in 1 .. Len(stream) :
              /\ stream[i].type = "BID_ACCEPTED"
              /\ stream[i].user = v /\ stream[i].amount = leaderboard[v]
        BY <4>1 DEF Broadcast
      <4>3. i \in 1 .. Len(stream') /\ stream'[i] = stream[i]
        BY <1>1, <3>2 DEF MovesOn
      <4> QED
        BY <4>1, <4>2, <4>3
    <3> QED
      BY <3>3, <3>4
  <2> QED
    BY <1>1, <1>6, <2>1, <2>2 DEF BoardOK, Terminal
<1> QED
  BY <1>1, <1>5, <1>6

\* No step of the engine spoils the leaderboard itself.
LEMMA EngineKeepsBoard ==
  ASSUME EngineInv, BoardOK(leaderboard), EngineStep
  PROVE  BoardOK(leaderboard)'
<1>0. EngineInv' /\ MovesOn
  BY EngineMovesOn
<1>1. /\ leaderboard \in [Users -> Nat] /\ price \in Nat /\ winner \in Users \cup {NoUser}
  BY CoreTypes DEF EngineInv, TypeOK
<1>2. ASSUME leaderboard' = leaderboard PROVE BoardOK(leaderboard)'
  <2>1. PICK rows \in [Users -> Nat] : rows = leaderboard
    BY <1>1
  <2>2. BoardOK(rows)'
    BY <1>0, <2>1, BoardStays
  <2> QED
    BY <1>2, <2>1, <2>2
<1>3. ASSUME status' \in Terminal PROVE BoardOK(leaderboard)'
  BY <1>3 DEF BoardOK, Terminal
<1>4. ASSUME NEW u \in Users, NEW r \in Reqs, NEW a \in BidAmounts,
             PlaceBid(u, r, a) \/ Bid(u, r, a)
      PROVE  BoardOK(leaderboard)'
  <2>1. a \in Nat
    BY BoundsAssumption
  <2>2. CASE PlaceBid(u, r, a)
    BY <1>0, <2>1, <2>2, BidRaisesBoard DEF PlaceBid, AscendingBid
  <2>3. CASE PlaceBidHybrid(u, r, a) /\ rules.mode = "HYBRID_REVEAL"
    BY <1>0, <1>1, <2>1, <2>3, BidRaisesBoard DEF PlaceBidHybrid, AscendingBid
  <2>4. CASE PlaceBidSealed(u, r, a)
    BY <1>2, <2>4 DEF PlaceBidSealed
  <2> QED
    BY <1>4, <2>2, <2>3, <2>4 DEF Bid
<1>5. CASE \/ \E r \in RuleSet : FreezeRules(r)
           \/ \E d \in Durations : StartAuction(d)
           \/ \E c \in Users : CancelAuction(c)
           \/ Tick \/ UNCHANGED vars
  BY <1>2, <1>5 DEF FreezeRules, StartAuction, CancelAuction, Tick, vars, hash
<1>6. CASE CloseAuctionDetailed
  BY <1>3, <1>6 DEF CloseAuctionDetailed, CloseAuction, CloseAuctionSealed,
                    CloseAuctionAllPay, CloseNoBid, RevealAndSell, Terminal
<1> QED
  BY <1>4, <1>5, <1>6 DEF EngineStep, Next

\* A request that holds rows has read them in this step or holds them still.
LEMMA BoardIsRead ==
  ASSUME GatewayInv, [RNext]_rvars, NEW g \in Handlers, task'[g].pc = "board"
  PROVE  \/ task'[g].board = leaderboard
         \/ task[g].pc = "board" /\ task'[g] = task[g]
<1>0. /\ task \in [Handlers -> Task] /\ NoTask.pc = "idle"
  BY ColdIsSafe DEF GatewayInv
<1>1. CASE task' = task
  BY <1>1
<1>2. CASE GatewayRestart
  BY <1>0, <1>2 DEF GatewayRestart
<1>3. ASSUME NEW h \in Handlers, Serve(h), task' # task
      PROVE  /\ \A k \in Handlers : k # h => task'[k] = task[k]
             /\ task'[h].pc = "board" => task'[h].board = leaderboard
  <2>0. /\ NoTask \in Task /\ task[h] \in Task
        /\ \A t : Becomes(h, t) =>
             task'[h] = t /\ \A k \in Handlers : k # h => task'[k] = task[k]
    BY <1>0, ColdIsSafe DEF Served, GatewayInv, Becomes
  <2>1. CASE JoinRead(h)
    <3> DEFINE t == [NoTask EXCEPT !.pc = "joined", !.mode = SnapshotMode]
    <3>1. Becomes(h, t) /\ t.pc = "joined"
      BY <2>0, <2>1 DEF JoinRead, Task
    <3> QED
      BY <2>0, <3>1
  <2>2. CASE JoinFails(h)
    BY <1>3, <2>2 DEF JoinFails
  <2>3. CASE SetMode(h)
    <3> DEFINE t == [task[h] EXCEPT !.pc = "script"]
    <3>1. (Becomes(h, NoTask) \/ Becomes(h, t)) /\ t.pc = "script"
      BY <2>0, <2>3 DEF SetMode, Task
    <3> QED
      BY <1>0, <2>0, <3>1
  <2>4. ASSUME NEW u \in Users, NEW r \in Reqs, NEW a \in BidAmounts, ReceiveHTTP(h, u, r, a)
        PROVE  /\ \A k \in Handlers : k # h => task'[k] = task[k]
               /\ task'[h].pc # "board"
    <3> DEFINE pc == IF cache.mode = "" THEN "lookup" ELSE "script"
               t == [NoTask EXCEPT !.pc = pc, !.user = u, !.req = r, !.amount = a,
                                   !.mode = cache.mode]
    <3>1. Becomes(h, t) /\ t.pc # "board"
      BY <2>0, <2>4 DEF ReceiveHTTP, Task
    <3> QED
      BY <2>0, <3>1
  <2>5. ASSUME NEW u \in Users, NEW r \in Reqs, NEW a \in BidAmounts, ReceiveWS(h, u, r, a)
        PROVE  /\ \A k \in Handlers : k # h => task'[k] = task[k]
               /\ task'[h].pc # "board"
    <3> DEFINE t == [NoTask EXCEPT !.pc = "script", !.user = u, !.req = r, !.amount = a,
                                   !.mode = cache.mode]
               d(s) == [t EXCEPT !.pc = "precheck", !.rs = cache, !.clock = now - s]
    <3>1. t.pc = "script" /\ \A s : d(s).pc = "precheck"
      BY <2>0 DEF Task
    <3>2. Becomes(h, t) \/ \E s \in Skews : Becomes(h, d(s))
      BY <2>5 DEF ReceiveWS
    <3> HIDE DEF t, d
    <3> QED
      BY <2>0, <3>1, <3>2
  <2>6. CASE \/ FastReject(h) \/ RunScript(h) \/ ScriptRejects(h) \/ LeaderboardGate(h)
             \/ LeaderboardUngated(h) \/ ListMerge(h)
    <3>1. Becomes(h, NoTask)
      BY <2>6 DEF FastReject, RunScript, ScriptRejects, LeaderboardGate,
                  LeaderboardUngated, ListMerge
    <3> QED
      BY <1>0, <2>0, <3>1
  <2>7. CASE DeferToScript(h)
    <3> DEFINE t == [task[h] EXCEPT !.pc = "script", !.rs = Cold, !.clock = 0]
    <3>1. Becomes(h, t) /\ t.pc = "script"
      BY <2>0, <2>7 DEF DeferToScript, Task
    <3> QED
      BY <2>0, <3>1
  <2>8. CASE ModeLookup(h)
    <3> DEFINE t == [task[h] EXCEPT !.pc = "modeRead", !.mode = SnapshotMode]
    <3>1. Becomes(h, t) /\ t.pc = "modeRead"
      BY <2>0, <2>8 DEF ModeLookup, Task
    <3> QED
      BY <2>0, <3>1
  <2>9. CASE ModeLookupFails(h)
    <3> DEFINE t == [task[h] EXCEPT !.pc = "script"]
    <3>1. Becomes(h, t) /\ t.pc = "script"
      BY <2>0, <2>9 DEF ModeLookupFails, Task
    <3> QED
      BY <2>0, <3>1
  <2>10. CASE LeaderboardRows(h)
    <3> DEFINE t == [NoTask EXCEPT !.pc = "board", !.board = leaderboard]
    <3>1. Becomes(h, t) /\ t.board = leaderboard
      BY <2>0, <2>10 DEF LeaderboardRows, Task
    <3> QED
      BY <2>0, <3>1
  <2>11. CASE ListRow(h)
    <3> DEFINE t(b) == [NoTask EXCEPT !.pc = "list", !.board = b]
    <3>1. \A b : t(b).pc = "list"
      BY <2>0 DEF Task
    <3>2. \E b : Becomes(h, t(b))
      BY <2>11 DEF ListRow
    <3> HIDE DEF t
    <3> QED
      BY <2>0, <3>1, <3>2
  <2> QED
    BY <1>3, <2>1, <2>2, <2>3, <2>4, <2>5, <2>6, <2>7, <2>8, <2>9, <2>10, <2>11 DEF Serve
<1>5. CASE \E h \in Handlers : Serve(h)
  BY <1>1, <1>3, <1>5
<1>6. CASE EngineElsewhere \/ FanoutEvent \/ DropRoomState \/ UNCHANGED rvars
  BY <1>1, <1>6 DEF EngineElsewhere, FanoutEvent, DropRoomState, rvars, gatewayVars
<1> QED
  BY <1>2, <1>5, <1>6 DEF RNext

\* The boards hold throughout.
LEMMA BoardInvariant == RSpec => []BoardInv
<1>1. RInit => BoardInv
  <2> SUFFICES ASSUME RInit PROVE BoardInv
    OBVIOUS
  <2>1. leaderboard = NoScores /\ status = "NONE" /\ \A u \in Users : ~(leaderboard[u] > 0)
    BY DEF RInit, Init, NoScores
  <2>2. BoardOK(leaderboard)
    BY <2>1 DEF BoardOK, Broadcast
  <2>3. \A h \in Handlers : task[h].pc = "idle"
    BY DEF RInit, NoTask
  <2> QED
    BY <2>2, <2>3 DEF BoardInv
<1>2. GatewayInv /\ GatewayInv' /\ BoardInv /\ [RNext]_rvars => BoardInv'
  <2> SUFFICES ASSUME GatewayInv, GatewayInv', BoardInv, [RNext]_rvars PROVE BoardInv'
    OBVIOUS
  <2>1. EngineInv /\ EngineInv' /\ MovesOn /\ EngineStep
    BY StepIsRouted, EngineMovesOn DEF GatewayInv
  <2>2. BoardOK(leaderboard)'
    BY <2>1, EngineKeepsBoard DEF BoardInv
  <2>3. ASSUME NEW g \in Handlers, task'[g].pc = "board" PROVE BoardOK(task[g].board)'
    <3>1. PICK rows : rows = task'[g].board
      OBVIOUS
    <3>2. rows \in [Users -> Nat] /\ BoardOK(rows)
      <4>1. task'[g] \in Task /\ leaderboard \in [Users -> Nat]
        BY <2>1, StepIsSafe, CoreTypes DEF EngineInv
      <4> QED
        BY <2>3, <3>1, <4>1, BoardIsRead DEF BoardInv, Task
    <3>3. BoardOK(rows)'
      BY <2>1, <3>2, BoardStays
    <3> QED
      BY <3>1, <3>3
  <2> QED
    BY <2>2, <2>3 DEF BoardInv
<1> QED
  BY <1>1, <1>2, GatewayInvariant, PTL DEF RSpec

\* The REST reads publish no more of a running auction than the room was shown,
\* though rows and gate are read at different times and the gate may not be read.
THEOREM StandingsAreHidden == RSpec => StandingsStayHidden
<1>1. ASSUME GatewayInv, BoardInv, NEW h \in Handlers, status = "LIVE"
      PROVE  LET rows == task[h].board IN
             /\ LeaderboardGate(h) => GateHides(rows)
             /\ LeaderboardUngated(h) => Broadcast(rows) \/ rules.mode = "HYBRID_REVEAL"
             /\ ListMerge(h) =>
                  \/ rules.mode \in Plain
                  \/ rows = NoScores /\ Merged(rows) = NoScores
  <2> DEFINE rows == task[h].board
  <2>1. Served(task[h]) /\ TypeOK
    BY <1>1 DEF GatewayInv, EngineInv
  <2>2. /\ rows \in [Users -> Nat] /\ winner \in Users \cup {NoUser} /\ price \in Nat
        /\ NoUser \notin Users /\ rules.mode \in Modes
    BY <2>1, UsersAssumption DEF Served, Task, TypeOK, RuleRecord
  <2>3. task[h].pc = "list" => rows = NoScores
    BY <1>1, <2>1 DEF Served, Terminal
  <2>4. task[h].pc = "board" => BoardOK(rows)
    BY <1>1 DEF BoardInv
  <2> HIDE DEF rows
  <2>5. ASSUME LeaderboardGate(h) PROVE GateHides(rows)
    <3>1. rules.mode \in Sealed => Shown(rows) = NoScores
      BY <1>1 DEF Shown
    <3>2. ASSUME rules.mode = "HYBRID_REVEAL", NEW u \in Users, Shown(rows)[u] > 0
          PROVE  u # winner /\ rows[u] < price
      <4>1. u # winner /\ Shown(rows)[u] = rows[u]
        BY <1>1, <2>2, <3>2 DEF Shown, Sealed
      <4>2. BoardOK(rows)
        BY <2>4, <2>5 DEF LeaderboardGate
      <4> QED
        BY <1>1, <3>2, <4>1, <4>2 DEF BoardOK, Terminal
    <3> QED
      BY <3>1, <3>2 DEF GateHides
  <2>6. LeaderboardUngated(h) => Broadcast(rows) \/ rules.mode = "HYBRID_REVEAL"
    BY <1>1, <2>4 DEF LeaderboardUngated, BoardOK, Terminal
  <2>7. ListMerge(h) => rules.mode \in Plain \/ (rows = NoScores /\ Merged(rows) = NoScores)
    BY <1>1, <2>2, <2>3 DEF ListMerge, Merged, Modes, Ascending, Plain
  <2> QED
    BY <2>5, <2>6, <2>7 DEF rows
<1>2. GatewayInv /\ BoardInv /\ [RNext]_rvars =>
        [\A h \in Handlers :
           LET rows == task[h].board IN
           status = "LIVE" =>
             /\ LeaderboardGate(h) => GateHides(rows)
             /\ LeaderboardUngated(h) => Broadcast(rows) \/ rules.mode = "HYBRID_REVEAL"
             /\ ListMerge(h) =>
                  \/ rules.mode \in Plain
                  \/ rows = NoScores /\ Merged(rows) = NoScores]_rvars
  BY <1>1
<1> QED
  BY <1>2, GatewayInvariant, BoardInvariant, PTL DEF RSpec, StandingsStayHidden
=============================================================================
