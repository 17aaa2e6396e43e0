--------------------------- MODULE AuctionEngine ---------------------------
(***************************************************************************)
(* The Redis adjudication core of one auction: the state Hash, the public  *)
(* leaderboard ZSET, the private sealed-bid ZSET, the event Stream and the *)
(* per-user dedupe Hash, and the Lua scripts that are their only writers.  *)
(* A script runs atomically in Redis, so each one is one action; what it   *)
(* answers is the operator named after it with the suffix Code, and a      *)
(* script that answers an error or DUPLICATE writes nothing.               *)
(*                                                                         *)
(* Auctions share no key, so one auction is modelled.  Times are whole     *)
(* units of Redis TIME, user ids are positive integers whose order stands  *)
(* for the byte order Redis breaks ZSET ties with, and a display name is   *)
(* represented by its user.                                                *)
(***************************************************************************)
EXTENDS Integers, Sequences, FiniteSets

CONSTANTS
  Users,       \* everyone who may send a bid, the seller included
  Seller,      \* the owner of the auction
  Reqs,        \* clientBidIds a client draws from
  BidAmounts,  \* amounts a bid may carry after canonicalAmount
  RuleSet,     \* rules a seller may freeze (they passed Rules.Validate)
  Durations,   \* durations handed to start_auction.lua
  MaxMoney,    \* MAX_MONEY of the scripts (2^53-1 in the code)
  DedupeTTL,   \* lifetime of a dedupe Hash after its last accepted bid (24h)
  MaxTime,     \* bound: the clock stops here
  MaxSeq       \* bound: no bid is sent once the Stream is this long

NoUser == 0

\* PREQUALIFY is a valid value without an engine of its own: it runs as ENGLISH.
Plain     == {"ENGLISH", "SUDDEN_DEATH", "PREQUALIFY"}
Ascending == {"ENGLISH", "SUDDEN_DEATH", "PREQUALIFY", "HYBRID_REVEAL"}
Sealed    == {"SEALED_FIRST", "VICKREY", "ALL_PAY"}
Modes     == Ascending \cup Sealed

RuleRecord ==
  [mode : Modes, startPrice : Nat, increment : Nat, cap : Nat,
   extendWindow : Nat, extendSec : Nat, maxExtensions : Nat]

\* Rules.Validate on the fields the scripts read; the duration is StartAuction's.
Validate(r) ==
  /\ r.increment > 0
  /\ r.cap > 0 => r.cap > r.startPrice
  /\ r.startPrice <= MaxMoney /\ r.increment <= MaxMoney /\ r.cap <= MaxMoney
  /\ r.cap = 0 => r.startPrice + r.increment <= MaxMoney

\* What modeFor(r.Mode).NormalizeRules does when an auction is created: Sudden
\* Death switches anti-snipe off, every other mode bounds it (boundAntiSnipe).
NormalizeRules(r) ==
  IF r.mode = "SUDDEN_DEATH"
  THEN [r EXCEPT !.extendWindow = 0, !.extendSec = 0, !.maxExtensions = 0]
  ELSE [r EXCEPT !.maxExtensions =
          IF r.extendWindow > 0 /\ r.extendSec > 0 /\ @ = 0 THEN 10 ELSE @]

\* The fields of a Hash that does not exist yet, as the scripts read them.
NoRules ==
  [mode |-> "ENGLISH", startPrice |-> 0, increment |-> 0, cap |-> 0,
   extendWindow |-> 0, extendSec |-> 0, maxExtensions |-> 0]

ASSUME UsersAssumption ==
  /\ Users \subseteq Nat \ {NoUser}
  /\ IsFiniteSet(Users)
  /\ Seller \in Users

ASSUME RulesAssumption ==
  \A r \in RuleSet : r \in RuleRecord /\ Validate(r)

ASSUME BoundsAssumption ==
  /\ BidAmounts \subseteq Nat
  /\ Durations \subseteq Nat \ {0}
  /\ MaxMoney \in Nat /\ DedupeTTL \in Nat \ {0}
  /\ MaxTime \in Nat /\ MaxSeq \in Nat

VARIABLES
  status,       \* state Hash: status ("NONE" while the Hash is absent)
  rules,        \* state Hash: the frozen rules
  price,        \* state Hash: currentPriceCents
  winner,       \* state Hash: winnerId
  endAt,        \* state Hash: endAtMs
  extendCount,  \* state Hash: extendCount
  bidCount,     \* state Hash: bidCount
  seq,          \* state Hash: seq
  leaderboard,  \* public ZSET: score per user, 0 when absent
  sealed,       \* private sealed ZSET: score per user, 0 when absent
  stream,       \* event Stream; the i-th entry
  dedupe,       \* dedupe Hash of each user: clientBidId -> original ack
  dedupeUntil,  \* when each user's dedupe Hash expires
  now           \* Redis TIME

hash  == <<status, rules, price, winner, endAt, extendCount, bidCount, seq>>
ackVars == <<dedupe, dedupeUntil>>
vars  == <<hash, leaderboard, sealed, stream, ackVars, now>>

Terminal == {"SOLD", "NO_BID", "CANCELLED"}
Statuses == {"NONE", "SCHEDULED", "LIVE"} \cup Terminal

BidTypes      == {"BID_ACCEPTED", "SEALED_BID_RECEIVED"}
TerminalTypes == {"AUCTION_SOLD", "AUCTION_NO_BID", "AUCTION_CANCELLED"}
EventTypes    == BidTypes \cup TerminalTypes \cup
                 {"AUCTION_EXTENDED", "AUCTION_REVEALED", "ALL_PAY_FORFEIT"}

NoScores == [u \in Users |-> 0]

\* An event's payload; a field the type does not carry is NoUser, 0 or NoScores.
\* n is bidCount, the sealed count or extendCount; bids is the revealed list.
Event ==
  [type : EventTypes, seq : Nat, user : Users \cup {NoUser}, amount : Nat,
   endAt : Nat, n : Nat, bids : [Users -> Nat], at : Nat]

Ack == [seq : Nat, user : Users \cup {NoUser}, amount : Nat,
        endAt : Nat, status : {"LIVE", "SOLD"}, at : Nat]

\* The dedupe field is absent.
NoAck == [seq |-> 0, user |-> NoUser, amount |-> 0,
          endAt |-> 0, status |-> "LIVE", at |-> 0]

TypeOK ==
  /\ status \in Statuses
  /\ rules \in RuleRecord
  /\ price \in Nat
  /\ winner \in Users \cup {NoUser}
  /\ endAt \in Nat
  /\ extendCount \in Nat
  /\ bidCount \in Nat
  /\ seq \in Nat
  /\ leaderboard \in [Users -> Nat]
  /\ sealed \in [Users -> Nat]
  /\ stream \in Seq(Event)
  /\ dedupe \in [Users -> [Reqs -> Ack]]
  /\ dedupeUntil \in [Users -> Nat]
  /\ now \in Nat

Init ==
  /\ status = "NONE"
  /\ rules = NoRules
  /\ price = 0
  /\ winner = NoUser
  /\ endAt = 0
  /\ extendCount = 0
  /\ bidCount = 0
  /\ seq = 0
  /\ leaderboard = NoScores
  /\ sealed = NoScores
  /\ stream = <<>>
  /\ dedupe = [u \in Users |-> [r \in Reqs |-> NoAck]]
  /\ dedupeUntil = [u \in Users |-> 0]
  /\ now = 0

-----------------------------------------------------------------------------
(***************************************************************************)
(* Reads the scripts share.                                                *)
(***************************************************************************)

\* The seq of the newest Stream entry: XREVRANGE + - COUNT 1, 0 when empty.
LastStreamSeq == IF stream = <<>> THEN 0 ELSE stream[Len(stream)].seq

\* HGET on the user's dedupe Hash, which Redis drops when its TTL has run out.
Cached(u, r) == IF now < dedupeUntil[u] THEN dedupe[u][r] ELSE NoAck

\* Mutation of Remember: one key per user, so a new ack replaces the others.
Remember_Replaces(u, r, ack) ==
  /\ dedupe' = [dedupe EXCEPT ![u] = [q \in Reqs |-> IF q = r THEN ack ELSE NoAck]]
  /\ dedupeUntil' = [dedupeUntil EXCEPT ![u] = now + DedupeTTL]

\* HSET + EXPIRE of an accepted bid's ack; an expired Hash starts afresh.
Remember(u, r, ack) ==
  /\ dedupe' = [dedupe EXCEPT ![u] =
       [q \in Reqs |-> IF q = r THEN ack ELSE Cached(u, q)]]
  /\ dedupeUntil' = [dedupeUntil EXCEPT ![u] = now + DedupeTTL]

\* Scores keep each member's maximum.
Raise(scores, u, a) ==
  [scores EXCEPT ![u] = IF scores[u] < a THEN a ELSE scores[u]]

Entry(type, k, u, a, end, n, bids) ==
  [type |-> type, seq |-> k, user |-> u, amount |-> a,
   endAt |-> end, n |-> n, bids |-> bids, at |-> now]

\* Explicit <seq>-0 XADDs, each under its own HINCRBY of seq.
Emit(e) ==
  /\ stream' = Append(stream, e)
  /\ seq' = seq + 1
\* Mutation of Emit2: the second event reuses the first one's HINCRBY.
Emit2_OneIncr(e, f) ==
  /\ stream' = Append(Append(stream, e), f)
  /\ seq' = seq + 1

Emit2(e, f) ==
  /\ stream' = Append(Append(stream, e), f)
  /\ seq' = seq + 2
Emit3(e, f, g) ==
  /\ stream' = Append(Append(Append(stream, e), f), g)
  /\ seq' = seq + 3

(***************************************************************************)
(* freeze_rules.lua and start_auction.lua.                                 *)
(***************************************************************************)

FreezeRules(r) ==
  /\ status = "NONE"
  /\ status' = "SCHEDULED"
  /\ rules' = r
  /\ price' = r.startPrice
  /\ winner' = NoUser
  /\ extendCount' = 0
  /\ seq' = 0
  /\ UNCHANGED <<endAt, bidCount, leaderboard, sealed, stream, ackVars, now>>

StartAuction(d) ==
  /\ status = "SCHEDULED"
  /\ status' = "LIVE"
  /\ endAt' = now + d
  /\ UNCHANGED <<rules, price, winner, extendCount, bidCount, seq,
                 leaderboard, sealed, stream, ackVars, now>>

(***************************************************************************)
(* place_bid.lua and place_bid_hybrid.lua: one adjudication, two payloads. *)
(***************************************************************************)

\* Mutation of AdmissionCode: the boundary is > instead of >=.
AdmissionCode_Boundary(u, r) ==
  IF Cached(u, r) # NoAck THEN "DUPLICATE"
  ELSE IF status # "LIVE" THEN "ERR_NOT_LIVE"
  ELSE IF u = Seller THEN "ERR_NOT_ALLOWED"
  ELSE IF now > endAt THEN "ERR_AFTER_END"
  ELSE "OK"

\* The guards every bid script runs first, in the scripts' order.
AdmissionCode(u, r) ==
  IF Cached(u, r) # NoAck THEN "DUPLICATE"
  ELSE IF status # "LIVE" THEN "ERR_NOT_LIVE"
  ELSE IF u = Seller THEN "ERR_NOT_ALLOWED"
  ELSE IF now >= endAt THEN "ERR_AFTER_END"
  ELSE "OK"

\* Mutation of Required: the increment is forgotten.
Required_NoIncrement ==
  IF rules.cap > 0 /\ price > rules.cap THEN rules.cap ELSE price

\* Cap-aware required price.
Required ==
  IF rules.cap > 0 /\ price + rules.increment > rules.cap
  THEN rules.cap
  ELSE price + rules.increment

InRange(a, floor) ==
  /\ 0 < a /\ a <= MaxMoney
  /\ floor <= a
  /\ rules.cap > 0 => a <= rules.cap

CapHit(a) == rules.cap > 0 /\ a >= rules.cap

\* Mutation of Extends: maxExtensions is compared with <=.
Extends_OneMore(a) ==
  /\ ~CapHit(a)
  /\ rules.extendWindow > 0 /\ rules.extendSec > 0
  /\ endAt - now <= rules.extendWindow
  /\ rules.maxExtensions = 0 \/ extendCount <= rules.maxExtensions

Extends(a) ==
  /\ ~CapHit(a)
  /\ rules.extendWindow > 0 /\ rules.extendSec > 0
  /\ endAt - now <= rules.extendWindow
  /\ rules.maxExtensions = 0 \/ extendCount < rules.maxExtensions

AscendingCode(u, r, a) ==
  IF AdmissionCode(u, r) # "OK" THEN AdmissionCode(u, r)
  ELSE IF ~InRange(a, Required) THEN "ERR_TOO_LOW"
  ELSE IF LastStreamSeq # seq THEN "ERR_INTERNAL"
  ELSE IF CapHit(a) THEN "OK_SOLD"
  ELSE IF Extends(a) THEN "OK_EXTENDED"
  ELSE "OK_ACCEPTED"

\* Mutation of AcceptBid: the ack is built from the seq read before HINCRBY.
AcceptBid_StaleSeq(u, r, a, end, st) ==
  /\ price' = a
  /\ winner' = u
  /\ bidCount' = bidCount + 1
  /\ leaderboard' = Raise(leaderboard, u, a)
  /\ Remember(u, r, [seq |-> seq, user |-> u, amount |-> a,
                     endAt |-> end, status |-> st, at |-> now])
  /\ UNCHANGED <<rules, sealed, now>>

\* The writes common to the three accepting outcomes.
AcceptBid(u, r, a, end, st) ==
  /\ price' = a
  /\ winner' = u
  /\ bidCount' = bidCount + 1
  /\ leaderboard' = Raise(leaderboard, u, a)
  /\ Remember(u, r, [seq |-> seq + 1, user |-> u, amount |-> a,
                     endAt |-> end, status |-> st, at |-> now])
  /\ UNCHANGED <<rules, sealed, now>>

BidEvent(su, sa, end) ==
  Entry("BID_ACCEPTED", seq + 1, su, sa, end, bidCount + 1, NoScores)

\* su and sa are the identity and the amount the Stream entry shows the room.
BidAccepted(u, r, a, su, sa) ==
  /\ AscendingCode(u, r, a) = "OK_ACCEPTED"
  /\ AcceptBid(u, r, a, endAt, "LIVE")
  /\ Emit(BidEvent(su, sa, endAt))
  /\ UNCHANGED <<status, endAt, extendCount>>

BidExtended(u, r, a, su, sa) ==
  LET end == endAt + rules.extendSec IN
  /\ AscendingCode(u, r, a) = "OK_EXTENDED"
  /\ AcceptBid(u, r, a, end, "LIVE")
  /\ endAt' = end
  /\ extendCount' = extendCount + 1
  /\ Emit2(BidEvent(su, sa, end),
           Entry("AUCTION_EXTENDED", seq + 2, NoUser, 0, end, extendCount + 1, NoScores))
  /\ UNCHANGED status

\* Cap-hit buy-now: both scripts show the true winner and price.
BidSold(u, r, a) ==
  /\ AscendingCode(u, r, a) = "OK_SOLD"
  /\ AcceptBid(u, r, a, endAt, "SOLD")
  /\ status' = "SOLD"
  /\ Emit2(BidEvent(u, a, endAt),
           Entry("AUCTION_SOLD", seq + 2, u, a, 0, 0, NoScores))
  /\ UNCHANGED <<endAt, extendCount>>

PlaceBid(u, r, a) ==
  \/ BidAccepted(u, r, a, u, a)
  \/ BidExtended(u, r, a, u, a)
  \/ BidSold(u, r, a)

\* The room is shown the prior leader and price.
PlaceBidHybrid(u, r, a) ==
  \/ BidAccepted(u, r, a, winner, price)
  \/ BidExtended(u, r, a, winner, price)
  \/ BidSold(u, r, a)

(***************************************************************************)
(* place_bid_sealed.lua                                                    *)
(***************************************************************************)

SealedCode(u, r, a) ==
  IF AdmissionCode(u, r) # "OK" THEN AdmissionCode(u, r)
  ELSE IF ~InRange(a, rules.startPrice) THEN "ERR_TOO_LOW"
  ELSE IF LastStreamSeq # seq THEN "ERR_INTERNAL"
  ELSE "OK_ACCEPTED"

\* ZCARD of the sealed ZSET once u is in it.
SealedCount(u) == Cardinality({v \in Users : v = u \/ sealed[v] > 0})

\* Mutation of PlaceBidSealed: the bid is also ranked in the public leaderboard.
PlaceBidSealed_Public(u, r, a) ==
  /\ SealedCode(u, r, a) = "OK_ACCEPTED"
  /\ sealed' = Raise(sealed, u, a)
  /\ leaderboard' = Raise(leaderboard, u, a)
  /\ Emit(Entry("SEALED_BID_RECEIVED", seq + 1, u, 0, 0, SealedCount(u), NoScores))
  /\ Remember(u, r, [seq |-> seq + 1, user |-> u, amount |-> a,
                     endAt |-> endAt, status |-> "LIVE", at |-> now])
  /\ UNCHANGED <<status, rules, price, winner, endAt, extendCount, bidCount, now>>

PlaceBidSealed(u, r, a) ==
  /\ SealedCode(u, r, a) = "OK_ACCEPTED"
  /\ sealed' = Raise(sealed, u, a)
  /\ Emit(Entry("SEALED_BID_RECEIVED", seq + 1, u, 0, 0, SealedCount(u), NoScores))
  /\ Remember(u, r, [seq |-> seq + 1, user |-> u, amount |-> a,
                     endAt |-> endAt, status |-> "LIVE", at |-> now])
  /\ UNCHANGED <<status, rules, price, winner, endAt, extendCount, bidCount,
                 leaderboard, now>>

(***************************************************************************)
(* close_auction.lua, close_auction_sealed.lua, close_auction_allpay.lua   *)
(***************************************************************************)

\* Mutation of CloseCode: only a missing Hash counts as already closed.
CloseCode_AnyStatus ==
  IF status = "NONE" THEN "ERR_ALREADY_TERMINAL"
  ELSE IF now < endAt THEN "ERR_NOT_DUE"
  ELSE IF LastStreamSeq # seq THEN "ERR_INTERNAL"
  ELSE "OK"

CloseCode ==
  IF status # "LIVE" THEN "ERR_ALREADY_TERMINAL"
  ELSE IF now < endAt THEN "ERR_NOT_DUE"
  ELSE IF LastStreamSeq # seq THEN "ERR_INTERNAL"
  ELSE "OK"

CloseNoBid ==
  /\ status' = "NO_BID"
  /\ Emit(Entry("AUCTION_NO_BID", seq + 1, NoUser, 0, 0, 0, NoScores))
  /\ UNCHANGED <<rules, price, winner, endAt, extendCount, bidCount,
                 leaderboard, sealed, ackVars, now>>

CloseAuction ==
  /\ CloseCode = "OK"
  /\ \/ /\ winner = NoUser
        /\ CloseNoBid
     \/ /\ winner # NoUser
        /\ status' = "SOLD"
        /\ Emit(Entry("AUCTION_SOLD", seq + 1, winner, price, 0, 0, NoScores))
        /\ UNCHANGED <<rules, price, winner, endAt, extendCount, bidCount,
                       leaderboard, sealed, ackVars, now>>

\* Mutation of Top: ZRANGE instead of ZREVRANGE.
Top_Lowest(scores) ==
  CHOOSE u \in Users :
    /\ scores[u] > 0
    /\ \A v \in Users : scores[v] > 0 => scores[v] >= scores[u]

\* First member of ZREVRANGE: highest score, ties to the greater id.
Top(scores) ==
  CHOOSE u \in Users :
    /\ scores[u] > 0
    /\ \A v \in Users : scores[v] < scores[u] \/ (scores[v] = scores[u] /\ v <= u)

HasBid(scores) == \E u \in Users : scores[u] > 0

\* Mutation of Others: the runner-up is read from the winner's slot.
Others_KeepsTop(scores) == scores

\* The scores without the top member.
Others(scores) == [scores EXCEPT ![Top(scores)] = 0]

SecondPrice(scores) ==
  IF HasBid(Others(scores))
  THEN Others(scores)[Top(Others(scores))]
  ELSE rules.startPrice

\* ZADD of every sealed bid into the public leaderboard.
Reveal(scores) ==
  [u \in Users |-> IF scores[u] > 0 THEN scores[u] ELSE leaderboard[u]]

RevealAndSell(p) ==
  /\ status' = "SOLD"
  /\ winner' = Top(sealed)
  /\ price' = p
  /\ leaderboard' = Reveal(sealed)
  /\ sealed' = NoScores
  /\ UNCHANGED <<rules, endAt, extendCount, bidCount, ackVars, now>>

RevealedEvent(p) ==
  Entry("AUCTION_REVEALED", seq + 1, Top(sealed), p, 0, 0, sealed)

CloseAuctionSealed ==
  LET p == IF rules.mode = "VICKREY" THEN SecondPrice(sealed) ELSE sealed[Top(sealed)] IN
  /\ CloseCode = "OK"
  /\ \/ /\ ~HasBid(sealed)
        /\ CloseNoBid
     \/ /\ HasBid(sealed)
        /\ RevealAndSell(p)
        /\ Emit2(RevealedEvent(p),
                 Entry("AUCTION_SOLD", seq + 2, Top(sealed), p, 0, 0, NoScores))

CloseAuctionAllPay ==
  LET p      == sealed[Top(sealed)]
      second == Top(Others(sealed)) IN
  /\ CloseCode = "OK"
  /\ \/ /\ ~HasBid(sealed)
        /\ CloseNoBid
     \/ /\ HasBid(sealed)
        /\ ~HasBid(Others(sealed))
        /\ RevealAndSell(p)
        /\ Emit2(RevealedEvent(p),
                 Entry("AUCTION_SOLD", seq + 2, Top(sealed), p, 0, 0, NoScores))
     \/ /\ HasBid(sealed)
        /\ HasBid(Others(sealed))
        /\ RevealAndSell(p)
        /\ Emit3(RevealedEvent(p),
                 Entry("ALL_PAY_FORFEIT", seq + 2, second, sealed[second], 0, 0, NoScores),
                 Entry("AUCTION_SOLD", seq + 3, Top(sealed), p, 0, 0, NoScores))

(***************************************************************************)
(* cancel_auction.lua                                                      *)
(***************************************************************************)

\* Mutation of CancelCode: ORDER_CREATED and SOLD are not treated as terminal.
CancelCode_AfterSold(caller) ==
  IF status \in {"NONE", "NO_BID", "CANCELLED"} THEN "ERR_ALREADY_TERMINAL"
  ELSE IF caller # Seller THEN "ERR_NOT_ALLOWED"
  ELSE IF LastStreamSeq # seq THEN "ERR_INTERNAL"
  ELSE "OK_CANCELLED"

CancelCode(caller) ==
  IF status = "NONE" \/ status \in Terminal THEN "ERR_ALREADY_TERMINAL"
  ELSE IF caller # Seller THEN "ERR_NOT_ALLOWED"
  ELSE IF LastStreamSeq # seq THEN "ERR_INTERNAL"
  ELSE "OK_CANCELLED"

\* Mutation of CancelAuction: a status string the state machine does not know.
CancelAuction_Misspelt(caller) ==
  /\ CancelCode(caller) = "OK_CANCELLED"
  /\ status' = "CANCELED"
  /\ Emit(Entry("AUCTION_CANCELLED", seq + 1, NoUser, 0, 0, 0, NoScores))
  /\ UNCHANGED <<rules, price, winner, endAt, extendCount, bidCount,
                 leaderboard, sealed, ackVars, now>>

CancelAuction(caller) ==
  /\ CancelCode(caller) = "OK_CANCELLED"
  /\ status' = "CANCELLED"
  /\ Emit(Entry("AUCTION_CANCELLED", seq + 1, NoUser, 0, 0, 0, NoScores))
  /\ UNCHANGED <<rules, price, winner, endAt, extendCount, bidCount,
                 leaderboard, sealed, ackVars, now>>

(***************************************************************************)
(* Who calls which script.  The store picks the close script from the mode *)
(* in the Hash; the gateway picks the bid script from the room's mode.     *)
(***************************************************************************)

Bid(u, r, a) ==
  /\ seq < MaxSeq
  /\ \/ rules.mode \in Plain /\ PlaceBid(u, r, a)
     \/ rules.mode = "HYBRID_REVEAL" /\ PlaceBidHybrid(u, r, a)
     \/ rules.mode \in Sealed /\ PlaceBidSealed(u, r, a)

CloseAuctionDetailed ==
  \/ rules.mode \in {"SEALED_FIRST", "VICKREY"} /\ CloseAuctionSealed
  \/ rules.mode = "ALL_PAY" /\ CloseAuctionAllPay
  \/ rules.mode \in Ascending /\ CloseAuction

Tick ==
  /\ now < MaxTime
  /\ now' = now + 1
  /\ UNCHANGED <<hash, leaderboard, sealed, stream, ackVars>>

Next ==
  \/ \E r \in RuleSet : FreezeRules(r)
  \/ \E d \in Durations : StartAuction(d)
  \/ \E u \in Users, r \in Reqs, a \in BidAmounts : Bid(u, r, a)
  \/ CloseAuctionDetailed
  \/ \E c \in Users : CancelAuction(c)
  \/ Tick

Spec == Init /\ [][Next]_vars

-----------------------------------------------------------------------------
(***************************************************************************)
(* Properties                                                              *)
(***************************************************************************)

\* Every Stream entry carries its own position as its seq and the Hash's seq
\* is the Stream's length: the log is gap-free, no two scripts ever take the
\* same <seq>-0 id, and the scripts' seq_stream_mismatch exit is never taken.
StreamLockstep ==
  /\ seq = Len(stream)
  /\ \A i \in 1 .. Len(stream) : stream[i].seq = i

TerminalType == [SOLD |-> "AUCTION_SOLD", NO_BID |-> "AUCTION_NO_BID",
                 CANCELLED |-> "AUCTION_CANCELLED"]

\* The Hash and the log agree on how the auction ended: a terminal status is
\* always announced by its own terminal event, that event is the last entry of
\* the Stream, and no terminal event is in the Stream of a running auction.
TerminalEventLast ==
  /\ \A i \in 1 .. Len(stream) :
       stream[i].type \in TerminalTypes => i = Len(stream) /\ status \in Terminal
  /\ status \in Terminal =>
       stream # <<>> /\ stream[Len(stream)].type = TerminalType[status]

\* The deadline separates the bids from the hammer: whichever way bids and
\* the Timer interleave and however often anti-snipe moves endAtMs, every bid
\* in the log was adjudicated before the final endAtMs, and a hammer came at
\* or after it.  Only a cap-hit sale may end the auction early.
HammerSeparatesBids ==
  /\ \A i \in 1 .. Len(stream) :
       stream[i].type \in BidTypes => stream[i].at < endAt
  /\ status = "NO_BID" => stream[Len(stream)].at >= endAt
  /\ status = "SOLD" =>
       \/ stream[Len(stream)].at >= endAt
       \/ rules.mode \in Ascending /\ rules.cap > 0 /\ price = rules.cap

\* The ascending bids the log holds after its i-th entry.
BidsAfter(i) ==
  {j \in i + 1 .. Len(stream) : stream[j].type = "BID_ACCEPTED"}

\* What HYBRID_REVEAL owes the bidder u of an ack: u leads at its amount until
\* the next bid, whose entry shows u and the amount or is itself a sale.
ShownLate(ack, u) ==
  \/ BidsAfter(ack.seq) = {} /\ winner = u /\ price = ack.amount
  \/ \E j \in BidsAfter(ack.seq) :
       /\ \A k \in BidsAfter(ack.seq) : j <= k
       /\ \/ stream[j].user = u /\ stream[j].amount = ack.amount
          \/ j < Len(stream) /\ stream[j + 1].type = "AUCTION_SOLD"

\* An ack a client has been given is backed by the log: its seq is a bid entry
\* of the Stream adjudicated at the time the ack states, and what the ack says
\* is what the room is shown - at once in ENGLISH, by the next bid or by the
\* sale in HYBRID_REVEAL, never the amount in a sealed mode.
AcksAreBacked ==
  \A u \in Users, r \in Reqs :
    LET ack == dedupe[u][r]
        e   == stream[ack.seq]
    IN ack # NoAck =>
      /\ ack.seq \in 1 .. Len(stream)
      /\ e.type \in BidTypes /\ e.at = ack.at /\ ack.user = u
      /\ rules.mode \in Plain =>
           e.user = u /\ e.amount = ack.amount /\ e.endAt = ack.endAt
      /\ rules.mode = "HYBRID_REVEAL" => ShownLate(ack, u)
      /\ rules.mode \in Sealed => e.user = u /\ e.amount = 0

\* In an ascending auction every accepted bid raises the price by at least the
\* increment or lands on the cap, so the amounts the room is shown never fall
\* and, whatever the dedupe Hash has forgotten, no amount is accepted twice.
PriceLadder ==
  rules.mode \in Plain =>
    \A i, j \in 1 .. Len(stream) :
      /\ i < j
      /\ stream[i].type = "BID_ACCEPTED"
      /\ stream[j].type = "BID_ACCEPTED"
      => \/ stream[j].amount >= stream[i].amount + rules.increment
         \/ rules.cap > 0 /\ stream[j].amount = rules.cap /\ stream[i].amount < rules.cap

\* Anti-snipe: extendCount counts the AUCTION_EXTENDED entries and stays
\* within maxExtensions; the newest of them states the current endAtMs; and a
\* bid that arrived inside the window went unextended only because the cap on
\* extensions was used up or the bid itself ended the auction.
ExtensionsBounded ==
  LET exts == {i \in 1 .. Len(stream) : stream[i].type = "AUCTION_EXTENDED"} IN
  /\ extendCount = Cardinality(exts)
  /\ rules.maxExtensions > 0 => extendCount <= rules.maxExtensions
  /\ \A i \in exts : stream[i].n = extendCount => stream[i].endAt = endAt
  /\ \A i \in 1 .. Len(stream) :
       /\ stream[i].type = "BID_ACCEPTED"
       /\ rules.extendWindow > 0 /\ rules.extendSec > 0
       /\ stream[i].endAt - stream[i].at <= rules.extendWindow
       /\ i + 1 \notin exts
       => \/ rules.maxExtensions > 0
             /\ Cardinality({j \in exts : j < i}) = rules.maxExtensions
          \/ i < Len(stream) /\ stream[i + 1].type = "AUCTION_SOLD"

\* While a sealed auction runs, nothing the room can read depends on an
\* amount: the price is the reserve, there is no leader, the leaderboard is
\* empty, and no entry of the Stream carries one.  After a cancel it stays so.
SealedSecrecy ==
  rules.mode \in Sealed /\ status # "SOLD" =>
    /\ price = rules.startPrice \/ status = "NONE"
    /\ winner = NoUser
    /\ leaderboard = NoScores
    /\ \A i \in 1 .. Len(stream) :
         stream[i].amount = 0 /\ stream[i].bids = NoScores

\* A Vickrey sale costs the winner the best bid of somebody else, or the
\* reserve when nobody else bid - computed here from the published
\* leaderboard, not from the private set the script ranked.
VickreyPaysSecond ==
  rules.mode = "VICKREY" /\ status = "SOLD" =>
    /\ \A v \in Users \ {winner} : leaderboard[v] <= price
    /\ \/ price = rules.startPrice
       \/ \E v \in Users \ {winner} : leaderboard[v] = price

\* An all-pay sale charges exactly the two best bidders: one forfeit entry
\* when there is a second bidder and none otherwise, naming somebody other
\* than the winner whose bid no other loser beats.
AllPayForfeitsRunnerUp ==
  LET fs == {i \in 1 .. Len(stream) : stream[i].type = "ALL_PAY_FORFEIT"} IN
  /\ fs # {} => rules.mode = "ALL_PAY" /\ status = "SOLD"
  /\ rules.mode = "ALL_PAY" /\ status = "SOLD" =>
       /\ price = leaderboard[winner]
       /\ (fs = {}) = (\A v \in Users \ {winner} : leaderboard[v] = 0)
       /\ \A i \in fs :
            /\ fs = {i}
            /\ stream[i].user # winner
            /\ stream[i].amount = leaderboard[stream[i].user]
            /\ \A v \in Users \ {winner} : leaderboard[v] <= stream[i].amount

\* What a sealed sale costs, and whom, in each sealed mode and with ties.
SealedPayment == VickreyPaysSecond /\ AllPayForfeitsRunnerUp

\* The outcome as AuctionOutcome sees it.
Phase ==
  CASE status = "SOLD"      -> "sold"
    [] status = "NO_BID"    -> "unsold"
    [] status = "CANCELLED" -> "cancelled"
    [] OTHER                -> "open"

\* Once the auction has ended no script of any caller changes the outcome or
\* appends to the log: a late bid, a second hammer and a late cancel are no-ops.
TerminalIsFinal ==
  [][Phase # "open" =>
       UNCHANGED <<hash, leaderboard, sealed, stream, dedupe>>]_vars

\* A request that was given a seq is given no other while its ack lives: no
\* script replaces or drops a live ack - not a later bid of the same user under
\* another request id, which rewrites the shared Hash, nor the end of the
\* auction - and its lifetime never shrinks, so every retry finds it.
AcksAreKept ==
  [][\A u \in Users, r \in Reqs : Cached(u, r) # NoAck =>
       dedupe'[u][r] = dedupe[u][r] /\ dedupeUntil'[u] >= dedupeUntil[u]]_vars

Outcome == INSTANCE AuctionOutcome WITH
  Money <- 0 .. MaxMoney,
  phase <- Phase,
  offer <- [u \in Users |-> IF leaderboard[u] < sealed[u]
                            THEN sealed[u] ELSE leaderboard[u]],
  buyer <- IF status = "SOLD" THEN winner ELSE NoUser,
  paid  <- IF status = "SOLD" THEN price ELSE 0

\* Whatever the mode, the scripts implement AuctionOutcome: it ends once, it
\* sells exactly when a bid was accepted, to a highest bidder who is not the
\* seller, at a price between the best losing bid and the winner's own.
ImplementsOutcome == Outcome!Spec
=============================================================================
