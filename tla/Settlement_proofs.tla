-------------------------- MODULE Settlement_proofs --------------------------
(***************************************************************************)
(* Theorems about Settlement.  The handlers and the workers add nothing to *)
(* what the scripts do to Redis, so the engine's theorems carry over; and  *)
(* what they write to MySQL - order, ledger, log and status - agrees with  *)
(* the sale, for any number of workers, restarts, failed statements and    *)
(* PATCHes.  The workers' part of the invariant rests on the log: a sale   *)
(* is its last entry, so a worker that holds it has the complete evidence. *)
(***************************************************************************)
EXTENDS Settlement, AuctionEngine_proofs

-----------------------------------------------------------------------------
(***************************************************************************)
(* What a sale announces.                                                  *)
(***************************************************************************)

\* The last entry of a sold auction's log names the buyer and the price that
\* the Hash holds.
SaleAnnounced ==
  status = "SOLD" =>
    /\ winner # NoUser
    /\ stream[Len(stream)].user = winner
    /\ stream[Len(stream)].amount = price

\* A reveal's last entry, with and without a forfeit before it.
LEMMA RevealAnnounces ==
  ASSUME TypeOK, HasBid(sealed), NEW p \in Nat, NEW second \in Users, RevealAndSell(p),
         \/ Emit2(RevealedEvent(p), Entry("AUCTION_SOLD", seq + 2, Top(sealed), p, 0, 0, NoScores))
         \/ Emit3(RevealedEvent(p),
                  Entry("ALL_PAY_FORFEIT", seq + 2, second, sealed[second], 0, 0, NoScores),
                  Entry("AUCTION_SOLD", seq + 3, Top(sealed), p, 0, 0, NoScores))
  PROVE  SaleAnnounced'
<1> DEFINE e == RevealedEvent(p)
           f == Entry("ALL_PAY_FORFEIT", seq + 2, second, sealed[second], 0, 0, NoScores)
           g(k) == Entry("AUCTION_SOLD", k, Top(sealed), p, 0, 0, NoScores)
<1>1. /\ stream \in Seq(Event) /\ Len(stream) \in Nat
      /\ seq \in Nat /\ seq + 2 \in Nat /\ seq + 3 \in Nat /\ sealed \in [Users -> Nat]
  BY CoreTypes
<1>2. e \in Event /\ f \in Event /\ g(seq + 2) \in Event /\ g(seq + 3) \in Event
  BY <1>1, RevealEntries
<1>3. /\ e.seq = seq + 1 /\ f.seq = seq + 2
      /\ g(seq + 2).seq = seq + 2 /\ g(seq + 2).user = Top(sealed) /\ g(seq + 2).amount = p
      /\ g(seq + 3).seq = seq + 3 /\ g(seq + 3).user = Top(sealed) /\ g(seq + 3).amount = p
  BY DEF RevealedEvent, Entry
<1>4. winner' = Top(sealed) /\ price' = p /\ Top(sealed) # NoUser
  BY <1>1, TopIsBest, UsersAssumption DEF RevealAndSell
<1>5. Emit2(e, g(seq + 2)) \/ Emit3(e, f, g(seq + 3))
  OBVIOUS
<1> HIDE DEF e, f, g
<1>6. CASE Emit2(e, g(seq + 2))
  <2>1. stream'[Len(stream')] = g(seq + 2)
    BY <1>2, <1>3, <1>6, Emit2Grows DEF Grows
  <2> QED
    BY <1>3, <1>4, <2>1 DEF SaleAnnounced
<1>7. CASE Emit3(e, f, g(seq + 3))
  <2>1. stream'[Len(stream')] = g(seq + 3)
    BY <1>2, <1>3, <1>7, Emit3Grows DEF Grows
  <2> QED
    BY <1>3, <1>4, <2>1 DEF SaleAnnounced
<1> QED
  BY <1>5, <1>6, <1>7

\* A cap hit announces its bidder and amount.
LEMMA CapHitAnnounces ==
  ASSUME TypeOK, NEW u \in Users, NEW r \in Reqs, NEW a \in Nat, BidSold(u, r, a)
  PROVE  SaleAnnounced'
<1>1. stream'[Len(stream')] = SaleEvent(u, a)
  BY SoldAppends DEF Grows
<1>2. SaleEvent(u, a).user = u /\ SaleEvent(u, a).amount = a
  BY DEF SaleEvent, Entry
<1>3. winner' = u /\ price' = a /\ u # NoUser
  BY UsersAssumption DEF BidSold, AcceptBid
<1> QED
  BY <1>1, <1>2, <1>3 DEF SaleAnnounced

\* So does every hammer that sells.
LEMMA HammerAnnounces ==
  ASSUME TypeOK, CloseAuctionDetailed
  PROVE  SaleAnnounced'
<1>0. /\ sealed \in [Users -> Nat] /\ price \in Nat /\ winner \in Users \cup {NoUser}
      /\ seq + 1 \in Nat /\ NoScores \in [Users -> Nat] /\ "AUCTION_SOLD" \in EventTypes
  BY CoreTypes DEF TypeOK, EventTypes, TerminalTypes
<1>1. CASE CloseNoBid
  BY <1>1 DEF CloseNoBid, SaleAnnounced
<1>2. CASE CloseAuction /\ ~CloseNoBid
  <2> DEFINE e == Entry("AUCTION_SOLD", seq + 1, winner, price, 0, 0, NoScores)
  <2>1. winner # NoUser /\ Emit(e) /\ winner' = winner /\ price' = price
    BY <1>2 DEF CloseAuction
  <2>2. e.user = winner /\ e.amount = price /\ e.seq = seq + 1
    BY DEF Entry
  <2>3. e \in Event
    BY <1>0, EntryIsEvent
  <2> HIDE DEF e
  <2>4. stream'[Len(stream')] = e
    BY <2>1, <2>2, <2>3, EmitGrows DEF Grows
  <2> QED
    BY <2>1, <2>2, <2>4 DEF SaleAnnounced
<1>3. CASE CloseAuctionSealed /\ ~CloseNoBid
  <2> DEFINE p == IF rules.mode = "VICKREY" THEN SecondPrice(sealed) ELSE sealed[Top(sealed)]
  <2>1. /\ HasBid(sealed) /\ RevealAndSell(p)
        /\ Emit2(RevealedEvent(p),
                 Entry("AUCTION_SOLD", seq + 2, Top(sealed), p, 0, 0, NoScores))
    BY <1>3 DEF CloseAuctionSealed
  <2>2. p \in Nat
    BY <1>0, <2>1, OthersType, SecondPriceType
  <2> HIDE DEF p
  <2> QED
    BY <2>1, <2>2, UsersAssumption, RevealAnnounces
<1>4. CASE CloseAuctionAllPay /\ ~CloseNoBid
  <2> DEFINE p == sealed[Top(sealed)]
             second == Top(Others(sealed))
             sold(k) == Entry("AUCTION_SOLD", k, Top(sealed), p, 0, 0, NoScores)
             forfeit == Entry("ALL_PAY_FORFEIT", seq + 2, second, sealed[second], 0, 0, NoScores)
  <2>1. /\ HasBid(sealed) /\ RevealAndSell(p)
        /\ \/ Emit2(RevealedEvent(p), sold(seq + 2))
           \/ HasBid(Others(sealed)) /\ Emit3(RevealedEvent(p), forfeit, sold(seq + 3))
    BY <1>4 DEF CloseAuctionAllPay
  <2>2. p \in Nat /\ Others(sealed) \in [Users -> Nat]
    BY <1>0, <2>1, OthersType
  <2>3. HasBid(Others(sealed)) => second \in Users
    BY <2>2, TopIsBest
  <2> HIDE DEF p, second
  <2>4. CASE Emit2(RevealedEvent(p), sold(seq + 2))
    BY <2>1, <2>2, <2>4, UsersAssumption, RevealAnnounces
  <2>5. CASE HasBid(Others(sealed)) /\ Emit3(RevealedEvent(p), forfeit, sold(seq + 3))
    BY <2>1, <2>2, <2>3, <2>5, RevealAnnounces
  <2> QED
    BY <2>1, <2>4, <2>5
<1> QED
  BY <1>1, <1>2, <1>3, <1>4 DEF CloseAuctionDetailed

\* Every step keeps the announcement.
LEMMA NextAnnounced == TypeOK /\ SaleAnnounced /\ [Next]_vars => SaleAnnounced'
<1> SUFFICES ASSUME TypeOK, SaleAnnounced, [Next]_vars PROVE SaleAnnounced'
  OBVIOUS
<1>1. CASE status \in Terminal
  BY <1>1, EndedStays DEF SaleAnnounced, hash
<1>2. CASE status \notin Terminal
  <2>1. CASE status' # "SOLD"
    BY <2>1 DEF SaleAnnounced
  <2>2. ASSUME NEW u \in Users, NEW r \in Reqs, NEW a \in BidAmounts, Bid(u, r, a),
               status' = "SOLD"
        PROVE  SaleAnnounced'
    <3>1. a \in Nat
      BY BoundsAssumption
    <3>2. BidSold(u, r, a)
      <4>1. CASE \E su, sa : BidAccepted(u, r, a, su, sa) \/ BidExtended(u, r, a, su, sa)
        BY <1>2, <2>2, <4>1 DEF BidAccepted, BidExtended, Terminal
      <4>2. CASE PlaceBidSealed(u, r, a)
        BY <1>2, <2>2, <4>2 DEF PlaceBidSealed, Terminal
      <4> QED
        BY <2>2, <4>1, <4>2 DEF Bid, PlaceBid, PlaceBidHybrid
    <3> QED
      BY <3>1, <3>2, CapHitAnnounces
  <2>3. CASE CloseAuctionDetailed
    BY <2>3, HammerAnnounces
  <2>4. ASSUME \/ \E r \in RuleSet : FreezeRules(r)
               \/ \E d \in Durations : StartAuction(d)
               \/ \E c \in Users : CancelAuction(c)
               \/ Tick \/ UNCHANGED vars
        PROVE  status' # "SOLD"
    BY <1>2, <2>4 DEF FreezeRules, StartAuction, CancelAuction, Tick, vars, hash, Terminal
  <2> QED
    BY <2>1, <2>2, <2>3, <2>4 DEF Next
<1> QED
  BY <1>1, <1>2

\* The facts about the engine that settlement rests on.
EngineFacts == CoreInv /\ SaleAnnounced /\ SealedPayment

\* They hold of every behaviour of the scripts.
LEMMA EngineFactsHold == Spec => []EngineFacts
<1>1. Init => SaleAnnounced
  BY DEF Init, SaleAnnounced
<1> QED
  BY <1>1, TypeCorrect, NextAnnounced, CoreInvariant, SealedSalesCharge, PTL
     DEF Spec, EngineFacts

-----------------------------------------------------------------------------
(***************************************************************************)
(* The handlers and the workers on top of the scripts.                     *)
(***************************************************************************)

\* Whatever is stored or about to be frozen passed Rules.Validate.
StoredRules ==
  /\ dbRules \in RuleSet
  /\ patching \in RuleSet \cup {NoRules}
  /\ freezer \in [pc : {"none", "read", "frozen"}, rules : RuleSet \cup {NoRules}]
  /\ freezer.pc = "read" => freezer.rules \in RuleSet

\* A worker's step: it touches neither Redis nor the rules.
LEMMA ProjectAlone ==
  ASSUME NEW w \in Writers, Project(w) \/ StatementFails(w) \/ WriterRestarts(w)
  PROVE  UNCHANGED <<vars, dbRules, handlers>>
  BY DEF Project, ReadEventsAfter, InsertEvent, FillEventHash, ProjectStatus,
         ProjectAllPayForfeit, GetAuction, SoldProject, GetRules, ProjectAllPayWin,
         CreateOrderFromSold, OrderProject, StatementFails, WriterRestarts, Debit, tables

\* The stored rules stay valid through every PATCH and freeze.
LEMMA NextStored == StoredRules /\ [SNext]_svars => StoredRules'
<1> SUFFICES ASSUME StoredRules, [SNext]_svars PROVE StoredRules'
  OBVIOUS
<1>1. CASE UNCHANGED <<dbRules, handlers>>
  BY <1>1 DEF StoredRules, handlers
<1>2. CASE FreezeRead
  BY <1>2 DEF FreezeRead, StoredRules, tables
<1>3. CASE FreezeLocked \/ FreezeProject \/ ProjectionFails
  BY <1>3 DEF FreezeLocked, FreezeProject, ProjectionFails, NotFreezing, StoredRules, tables
<1>4. ASSUME NEW r \in Patches, PatchRead(r) PROVE StoredRules'
  BY <1>4, SettlementAssumption DEF PatchRead, StoredRules, tables
<1>5. CASE UpdateRules
  BY <1>5 DEF UpdateRules, StoredRules
<1>6. CASE \/ \E d \in Durations : HandleStart(d)
           \/ StartProject \/ CancelRead \/ CancelLocked \/ CancelLua \/ CancelProject
  BY <1>6 DEF HandleStart, StartProject, CancelRead, CancelLocked, CancelLua, CancelProject,
              StoredRules, tables
<1>7. CASE \E u \in Users : HandlePayOrder(u)
  BY <1>1, <1>7 DEF HandlePayOrder
<1>8. CASE \/ \E u \in Users, r \in Reqs, a \in BidAmounts : Bid(u, r, a) /\ UNCHANGED sqlVars
           \/ CloseAuctionDetailed /\ UNCHANGED sqlVars
           \/ Tick /\ UNCHANGED sqlVars
           \/ UNCHANGED svars
  BY <1>1, <1>8 DEF sqlVars, svars, tables
<1>9. CASE \E w \in Writers : Project(w) \/ StatementFails(w) \/ WriterRestarts(w)
  BY <1>1, <1>9, ProjectAlone
<1> QED
  BY <1>2, <1>3, <1>4, <1>5, <1>6, <1>7, <1>8, <1>9 DEF SNext

\* Every step is a script's or leaves Redis alone.
LEMMA StepIsScript == StoredRules /\ [SNext]_svars => [Next]_vars
<1> SUFFICES ASSUME StoredRules, [SNext]_svars PROVE [Next]_vars
  OBVIOUS
<1>1. CASE FreezeLocked
  BY <1>1 DEF FreezeLocked, StoredRules, Next
<1>2. CASE \/ FreezeRead \/ FreezeProject \/ StartProject
           \/ CancelRead \/ CancelLocked \/ CancelProject \/ UpdateRules \/ ProjectionFails
           \/ \E r \in Patches : PatchRead(r)
           \/ \E u \in Users : HandlePayOrder(u)
  BY <1>2 DEF FreezeRead, FreezeProject, StartProject, CancelRead, CancelLocked,
              CancelProject, UpdateRules, ProjectionFails, PatchRead, HandlePayOrder
<1>3. CASE \E d \in Durations : HandleStart(d)
  BY <1>3 DEF HandleStart, Next
<1>4. CASE CancelLua
  BY <1>4, UsersAssumption DEF CancelLua, Next
<1>5. CASE \E w \in Writers : Project(w) \/ StatementFails(w) \/ WriterRestarts(w)
  BY <1>5, ProjectAlone
<1>6. CASE \/ \E u \in Users, r \in Reqs, a \in BidAmounts : Bid(u, r, a) /\ UNCHANGED sqlVars
           \/ CloseAuctionDetailed /\ UNCHANGED sqlVars
           \/ Tick /\ UNCHANGED sqlVars
           \/ UNCHANGED svars
  BY <1>6 DEF Next, svars
<1> QED
  BY <1>1, <1>2, <1>3, <1>4, <1>5, <1>6 DEF SNext

\* The REST handlers and the Persistence Workers add no behaviour to the
\* scripts: Redis decides, whatever MySQL holds and whichever writes fail.
THEOREM SettlementRefinesEngine == SSpec => Spec /\ []StoredRules
<1>1. SInit => Init
  BY DEF SInit
<1>2. SInit => StoredRules
  BY SettlementAssumption DEF SInit, StoredRules, NotFreezing
<1> QED
  BY <1>1, <1>2, NextStored, StepIsScript, PTL DEF SSpec, Spec

\* The log only grows, what has ended stays, and a Hash is never dropped.
LEMMA LogGrows ==
  ASSUME CoreInv, [Next]_vars
  PROVE  /\ Len(stream) \in Nat /\ Len(stream') \in Nat /\ Len(stream) <= Len(stream')
         /\ \A i \in 1 .. Len(stream) : stream'[i] = stream[i]
         /\ status \in Terminal =>
              UNCHANGED <<status, price, winner, leaderboard, stream>>
         /\ status # "NONE" => status' # "NONE"
<1>0. TypeOK /\ Len(stream) \in Nat /\ BidAmounts \subseteq Nat
      /\ winner \in Users \cup {NoUser} /\ price \in Nat
  BY CoreTypes, BoundsAssumption DEF CoreInv, TypeOK
<1>1. status \in Terminal => UNCHANGED <<status, price, winner, leaderboard, stream>>
  BY EndedStays DEF hash
<1>2. ASSUME NEW u \in Users, NEW r \in Reqs, NEW a \in Nat,
             NEW su \in Users \cup {NoUser}, NEW sa \in Nat, AscendingBid(u, r, a, su, sa)
      PROVE  (Grows(1) \/ Grows(2)) /\ status' # "NONE"
  <2>1. CASE BidAccepted(u, r, a, su, sa)
    BY <1>0, <2>1, AcceptedAppends, AscendingAdmits DEF BidAccepted
  <2>2. CASE BidExtended(u, r, a, su, sa)
    <3>1. status = "LIVE" /\ status' = status
      BY <2>2, AscendingAdmits DEF BidExtended
    <3> QED
      BY <1>0, <1>2, <2>2, <3>1, ExtendedAppends
  <2>3. CASE BidSold(u, r, a)
    BY <1>0, <2>3, SoldAppends DEF BidSold
  <2> QED
    BY <1>2, <2>1, <2>2, <2>3 DEF AscendingBid
<1>3. /\ Len(stream') \in Nat /\ Len(stream) <= Len(stream')
      /\ \A i \in 1 .. Len(stream) : stream'[i] = stream[i]
      /\ status # "NONE" => status' # "NONE"
  <2>1. CASE /\ stream = <<>> /\ stream' = <<>>
             /\ \/ \E r \in RuleSet : FreezeRules(r)
                \/ \E d \in Durations : StartAuction(d)
    BY <1>0, <2>1 DEF FreezeRules, StartAuction
  <2>2. CASE \E u \in Users, r \in Reqs, a \in BidAmounts :
               \/ AscendingBid(u, r, a, u, a)
               \/ AscendingBid(u, r, a, winner, price)
    <3>1. (Grows(1) \/ Grows(2)) /\ status' # "NONE"
      BY <1>0, <1>2, <2>2
    <3> QED
      BY <1>0, <3>1 DEF Grows
  <2>3. CASE \E k \in Nat : Aside(k)
    BY <1>0, <2>3 DEF Aside, Appends, Terminal
  <2> QED
    BY <2>1, <2>2, <2>3, StepShape
<1> QED
  BY <1>0, <1>1, <1>3

-----------------------------------------------------------------------------
(***************************************************************************)
(* The invariant of the tables.                                            *)
(***************************************************************************)

RowStatuses == {"DRAFT", "SCHEDULED", "LIVE", "SOLD", "NO_BID", "CANCELLED", "ORDER_CREATED"}

SalePcs == {"get", "sold", "rules", "win", "order", "ordered"}
WriterPcs == {"idle", "insert", "hash", "status", "forfeit"} \cup SalePcs

Place == [pc : WriterPcs, cursor : Nat, upto : Nat, seen : RowStatuses]

\* A row that reports an end reports the one Redis decided; a sale is written
\* only once its event is in the log.  A cancel whose script has committed
\* cannot be overtaken by another end.
RowFollows ==
  /\ row \in RowStatuses
  /\ row \in {"SOLD", "ORDER_CREATED"} => status = "SOLD" /\ Len(stream) \in events
  /\ row = "NO_BID" => status = "NO_BID"
  /\ row = "CANCELLED" => status \in {"NONE", "CANCELLED"}
  /\ canceller = "project" => status = "CANCELLED"

\* The event table is a prefix of the Stream, the chain a prefix of the table,
\* and no cursor is ahead of the chain.
Prefixes ==
  \E k \in 0 .. Len(stream) : \E m \in 0 .. k :
    /\ events = 1 .. k /\ chained = 1 .. m
    /\ \A w \in Writers : writer[w].cursor <= m

\* What a worker knows about the event it is projecting: it was in the Stream
\* when the batch was read, it is in the table once inserted and in the chain
\* once hashed, and it is of the type that brought the worker here.
Working(t, evs, chain, log) ==
  LET n == t.cursor + 1 IN
  /\ t.pc # "idle" => n <= t.upto /\ t.upto <= Len(log)
  /\ t.pc \notin {"idle", "insert"} => n \in evs
  /\ t.pc \notin {"idle", "insert", "hash"} => n \in chain
  /\ t.pc \in SalePcs => log[n].type = "AUCTION_SOLD"
  /\ t.pc = "forfeit" => log[n].type = "ALL_PAY_FORFEIT"
  /\ t.pc = "status" => log[n].type \in {"AUCTION_NO_BID", "AUCTION_CANCELLED"}

WritersWork ==
  /\ writer \in [Writers -> Place]
  /\ \A w \in Writers : Working(writer[w], events, chained, stream)

OrderFollows ==
  /\ order \in [buyer : Users \cup {NoUser}, amount : Nat, status : {"none", "created", "paid"}]
  /\ order # NoOrder =>
       /\ status = "SOLD" /\ order.buyer = winner /\ order.amount = price
       /\ chained = 1 .. Len(stream)

DebitOf(s, reason) ==
  [user |-> stream[s].user, coins |-> stream[s].amount, seq |-> s, reason |-> reason]

\* A debit is keyed by the Stream entry it was made from.
LedgerFollows ==
  \A d \in ledger : \E s \in 1 .. Len(stream) :
    \/ stream[s].type = "AUCTION_SOLD" /\ d = DebitOf(s, "WIN")
    \/ stream[s].type = "ALL_PAY_FORFEIT" /\ d = DebitOf(s, "RUNNER_UP_FORFEIT")

SettleInv == RowFollows /\ Prefixes /\ WritersWork /\ OrderFollows /\ LedgerFollows

\* A terminal event is the log's last, and says how the auction ended.
LEMMA TerminalIsLast ==
  ASSUME EngineFacts, NEW n \in 1 .. Len(stream)
  PROVE  /\ stream[n].type = "AUCTION_SOLD" =>
              /\ n = Len(stream) /\ status = "SOLD" /\ winner # NoUser
              /\ stream[n].user = winner /\ stream[n].amount = price
         /\ stream[n].type = "AUCTION_NO_BID" => n = Len(stream) /\ status = "NO_BID"
         /\ stream[n].type = "AUCTION_CANCELLED" => n = Len(stream) /\ status = "CANCELLED"
<1>1. stream[n].type \in TerminalTypes =>
        n = Len(stream) /\ status \in Terminal /\ stream[n].type = TerminalType[status]
  BY DEF EngineFacts, CoreInv, TerminalEventLast
<1>2. /\ TerminalType["SOLD"] = "AUCTION_SOLD" /\ TerminalType["NO_BID"] = "AUCTION_NO_BID"
      /\ TerminalType["CANCELLED"] = "AUCTION_CANCELLED"
  BY DEF TerminalType
<1>3. stream[n].type \in TerminalTypes =>
        /\ n = Len(stream)
        /\ stream[n].type = "AUCTION_SOLD" => status = "SOLD"
        /\ stream[n].type = "AUCTION_NO_BID" => status = "NO_BID"
        /\ stream[n].type = "AUCTION_CANCELLED" => status = "CANCELLED"
  BY <1>1, <1>2 DEF Terminal
<1>4. SaleAnnounced
  BY DEF EngineFacts
<1> QED
  BY <1>3, <1>4 DEF TerminalTypes, SaleAnnounced

\* What a worker knows stays true as table, chain and Stream grow.
LEMMA WorkingStays ==
  ASSUME NEW t \in Place, NEW evs, NEW chain, NEW log, Working(t, evs, chain, log),
         NEW evs2, NEW chain2, NEW log2, evs \subseteq evs2, chain \subseteq chain2,
         Len(log) \in Nat, Len(log2) \in Nat, Len(log) <= Len(log2),
         \A i \in 1 .. Len(log) : log2[i] = log[i]
  PROVE  Working(t, evs2, chain2, log2)
<1>1. t.cursor \in Nat /\ t.upto \in Nat
  BY DEF Place
<1>2. t.pc # "idle" => t.cursor + 1 \in 1 .. Len(log)
  BY <1>1 DEF Working
<1>3. t.pc \in SalePcs \cup {"forfeit", "status"} => log2[t.cursor + 1] = log[t.cursor + 1]
  BY <1>2 DEF SalePcs
<1>4. t.pc # "idle" => t.upto <= Len(log2)
  BY <1>1 DEF Working
<1> QED
  BY <1>3, <1>4 DEF Working

\* At the start nothing is projected.
LEMMA InitSettle == SInit => SettleInv
<1> SUFFICES ASSUME SInit PROVE SettleInv
  OBVIOUS
<1>0. stream = <<>> /\ Len(stream) = 0
  BY DEF SInit, Init
<1>1. RowFollows
  BY DEF SInit, RowFollows, RowStatuses
<1>2. WritersWork
  <2>1. Restarted \in Place /\ Restarted.pc = "idle"
    BY DEF Restarted, Place, WriterPcs, RowStatuses
  <2>2. writer = [w \in Writers |-> Restarted]
    BY DEF SInit
  <2> QED
    BY <2>1, <2>2 DEF WritersWork, Working, SalePcs
<1>3. Prefixes
  <2>1. events = 1 .. 0 /\ chained = 1 .. 0
    BY DEF SInit
  <2>2. \A w \in Writers : writer[w].cursor <= 0
    BY DEF SInit, Restarted
  <2>3. 0 \in 0 .. Len(stream) /\ 0 \in 0 .. 0
    BY <1>0
  <2> QED
    BY <2>1, <2>2, <2>3 DEF Prefixes
<1>4. OrderFollows
  BY DEF SInit, OrderFollows, NoOrder
<1>5. LedgerFollows
  BY DEF SInit, LedgerFollows
<1> QED
  BY <1>1, <1>2, <1>3, <1>4, <1>5 DEF SettleInv

\* A script's step leaves the tables behind, never wrong.
LEMMA ScriptKeepsTables ==
  ASSUME EngineFacts, SettleInv, [Next]_vars,
         UNCHANGED <<row, events, chained, order, ledger, writer>>,
         row = "CANCELLED" /\ status = "NONE" => status' = "NONE",
         canceller' = "project" => status' = "CANCELLED"
  PROVE  SettleInv'
<1>0. CoreInv
  BY DEF EngineFacts
<1>1. /\ Len(stream) \in Nat /\ Len(stream') \in Nat /\ Len(stream) <= Len(stream')
      /\ \A i \in 1 .. Len(stream) : stream'[i] = stream[i]
  BY <1>0, LogGrows
<1>2. status \in Terminal => UNCHANGED <<status, price, winner, leaderboard, stream>>
  BY <1>0, LogGrows
<1>3. RowFollows'
  BY <1>2 DEF SettleInv, RowFollows, Terminal
<1>4. Prefixes'
  <2>1. \A k \in 0 .. Len(stream) : k \in 0 .. Len(stream')
    BY <1>1
  <2> QED
    BY <2>1 DEF SettleInv, Prefixes
<1>5. WritersWork'
  BY <1>1, WorkingStays DEF SettleInv, WritersWork
<1>6. OrderFollows'
  BY <1>2 DEF SettleInv, OrderFollows, Terminal
<1>7. LedgerFollows'
  <2>1. \A s \in 1 .. Len(stream) : s \in 1 .. Len(stream') /\ stream'[s] = stream[s]
    BY <1>1
  <2> QED
    BY <2>1 DEF SettleInv, LedgerFollows, DebitOf
<1> QED
  BY <1>3, <1>4, <1>5, <1>6, <1>7 DEF SettleInv

\* The handlers of the auction and the scripts they call.
LEMMA HandlersKeepTables ==
  ASSUME EngineFacts, StoredRules, SettleInv,
         \/ FreezeRead \/ FreezeLocked \/ FreezeProject
         \/ \E d \in Durations : HandleStart(d)
         \/ StartProject
         \/ CancelRead \/ CancelLocked \/ CancelLua \/ CancelProject
         \/ \E r \in Patches : PatchRead(r)
         \/ UpdateRules
         \/ ProjectionFails
         \/ \E u \in Users, r \in Reqs, a \in BidAmounts : Bid(u, r, a) /\ UNCHANGED sqlVars
         \/ CloseAuctionDetailed /\ UNCHANGED sqlVars
         \/ Tick /\ UNCHANGED sqlVars
         \/ UNCHANGED svars
  PROVE  SettleInv'
<1>0. [Next]_vars
  BY StepIsScript DEF SNext
<1>1. ASSUME UNCHANGED <<vars, events, chained, order, ledger, writer>>, RowFollows'
      PROVE  SettleInv'
  BY <1>1 DEF SettleInv, Prefixes, WritersWork, OrderFollows, LedgerFollows, DebitOf,
              vars, hash
<1>2. RowFollows
  BY DEF SettleInv
<1>3. CASE FreezeRead \/ CancelRead \/ UpdateRules \/ ProjectionFails
           \/ \E r \in Patches : PatchRead(r)
  <2>1. /\ UNCHANGED <<vars, row, events, chained, order, ledger, writer>>
        /\ canceller' = "project" => canceller = "project"
    BY <1>3 DEF FreezeRead, CancelRead, UpdateRules, ProjectionFails, PatchRead, tables
  <2>2. RowFollows'
    BY <1>2, <2>1 DEF RowFollows, vars, hash
  <2> QED
    BY <1>1, <2>1, <2>2
<1>4. CASE FreezeProject \/ StartProject \/ CancelLocked \/ CancelProject
  <2>1. /\ UNCHANGED <<vars, events, chained, order, ledger, writer>>
        /\ canceller' = "project" => canceller = "project"
    BY <1>4 DEF FreezeProject, StartProject, CancelLocked, CancelProject
  <2>2. \/ row' \in {"SCHEDULED", "LIVE", row}
        \/ row' = "CANCELLED" /\ status \in {"NONE", "CANCELLED"}
    BY <1>2, <1>4 DEF FreezeProject, StartProject, CancelLocked, CancelProject, RowFollows,
                      UpdateAuctionStatus, UpdateAuctionStatusIf
  <2>3. RowFollows'
    BY <1>2, <2>1, <2>2 DEF RowFollows, RowStatuses, vars, hash
  <2> QED
    BY <1>1, <2>1, <2>3
<1>5. CASE FreezeLocked
  <2>1. /\ UNCHANGED <<row, events, chained, order, ledger, writer, canceller>>
        /\ row = "DRAFT" \/ UNCHANGED vars
    BY <1>5 DEF FreezeLocked, tables
  <2>2. canceller' = "project" => status' = "CANCELLED"
    <3>1. canceller = "project" => UNCHANGED status
      BY <1>0, <1>2, EndedStays DEF RowFollows, Terminal, hash
    <3> QED
      BY <1>2, <2>1, <3>1 DEF RowFollows
  <2> QED
    BY <1>0, <2>1, <2>2, ScriptKeepsTables DEF vars, hash
<1>6. CASE CancelLua
  <2>1. UNCHANGED <<row, events, chained, order, ledger, writer>>
    BY <1>6 DEF CancelLua, tables
  <2>2. /\ status = "NONE" => UNCHANGED vars
        /\ canceller' = "project" => status' = "CANCELLED"
    BY <1>6 DEF CancelLua, CancelAuction, CancelCode
  <2> QED
    BY <1>0, <2>1, <2>2, ScriptKeepsTables DEF vars, hash
<1>7. CASE \/ \E d \in Durations : HandleStart(d)
           \/ \E u \in Users, r \in Reqs, a \in BidAmounts : Bid(u, r, a) /\ UNCHANGED sqlVars
           \/ CloseAuctionDetailed /\ UNCHANGED sqlVars
           \/ Tick /\ UNCHANGED sqlVars
           \/ UNCHANGED svars
  <2>1. UNCHANGED <<row, events, chained, order, ledger, writer, canceller>>
    BY <1>7 DEF HandleStart, sqlVars, svars, tables, handlers
  <2>2. status = "NONE" => status' = "NONE"
    <3>1. ASSUME NEW u \in Users, NEW r \in Reqs, NEW a \in BidAmounts, Bid(u, r, a)
          PROVE  status # "NONE"
      <4>1. CASE \E su, sa : AscendingBid(u, r, a, su, sa)
        BY <4>1, AscendingAdmits DEF AscendingBid, BidAccepted, BidExtended, BidSold
      <4>2. CASE PlaceBidSealed(u, r, a)
        BY <4>2, SealedAdmits DEF PlaceBidSealed
      <4> QED
        BY <3>1, <4>1, <4>2 DEF Bid, PlaceBid, PlaceBidHybrid, AscendingBid
    <3>2. CloseAuctionDetailed => status # "NONE"
      BY CloseAdmits DEF CloseAuctionDetailed, CloseAuction, CloseAuctionSealed,
                         CloseAuctionAllPay
    <3>3. CASE \/ \E d \in Durations : HandleStart(d)
               \/ Tick /\ UNCHANGED sqlVars
               \/ UNCHANGED svars
      BY <3>3 DEF HandleStart, StartAuction, Tick, hash, svars, vars
    <3> QED
      BY <1>7, <3>1, <3>2, <3>3
  <2>3. canceller = "project" => status' = "CANCELLED"
    BY <1>0, <1>2, EndedStays DEF RowFollows, Terminal, hash
  <2> QED
    BY <1>0, <2>1, <2>2, <2>3, ScriptKeepsTables
<1> QED
  BY <1>3, <1>4, <1>5, <1>6, <1>7

\* A payment changes the order's status alone.
LEMMA PayKeepsTables ==
  ASSUME SettleInv, NEW u \in Users, HandlePayOrder(u)
  PROVE  SettleInv'
<1>1. UNCHANGED <<vars, row, events, chained, ledger, canceller, writer>>
  BY DEF HandlePayOrder, handlers
<1>2. OrderFollows'
  <2>1. OrderFollows
    BY DEF SettleInv
  <2>2. CASE order.status = "created"
    <3>1. order' = [order EXCEPT !.status = "paid"] /\ order # NoOrder
      BY <2>2 DEF HandlePayOrder, PayOrder, OwnOrder
    <3> QED
      BY <1>1, <2>1, <3>1 DEF OrderFollows, vars, hash
  <2>3. CASE order.status # "created"
    BY <1>1, <2>1, <2>3 DEF HandlePayOrder, PayOrder, OrderFollows, vars, hash
  <2> QED
    BY <2>2, <2>3
<1>3. RowFollows' /\ Prefixes' /\ WritersWork' /\ LedgerFollows'
  BY <1>1 DEF SettleInv, RowFollows, Prefixes, WritersWork, LedgerFollows, DebitOf, vars, hash
<1> QED
  BY <1>2, <1>3 DEF SettleInv

-----------------------------------------------------------------------------
(***************************************************************************)
(* The workers.                                                            *)
(***************************************************************************)

\* The worker w is at t afterwards.
At(w, t) == writer' = [writer EXCEPT ![w] = t]

\* A step within the projection of one event.
LEMMA MoveTo ==
  ASSUME WritersWork, NEW w \in Writers, NEW pc \in WriterPcs, Move(w, pc)
  PROVE  \E t \in Place : /\ At(w, t)
                          /\ t.pc = pc /\ t.cursor = writer[w].cursor /\ t.upto = writer[w].upto
<1> DEFINE t == [writer[w] EXCEPT !.pc = pc]
<1>1. writer[w] \in Place
  BY DEF WritersWork
<1>2. /\ t \in Place /\ t.pc = pc /\ t.cursor = writer[w].cursor /\ t.upto = writer[w].upto
  BY <1>1 DEF Place
<1>3. At(w, t)
  BY DEF Move, At
<1> QED
  BY <1>2, <1>3

\* The end of the projection of one event.
LEMMA AdvanceTo ==
  ASSUME WritersWork, NEW w \in Writers, Advance(w), writer[w].pc # "idle",
         NEW evs, NEW chain, Len(stream) \in Nat
  PROVE  \E t \in Place : /\ At(w, t) /\ t.cursor = writer[w].cursor + 1
                          /\ Working(t, evs, chain, stream)
<1> DEFINE c == writer[w].cursor + 1
           t == [pc |-> IF c < writer[w].upto THEN "insert" ELSE "idle",
                 cursor |-> c, upto |-> IF c < writer[w].upto THEN writer[w].upto ELSE 0,
                 seen |-> "DRAFT"]
<1>1. writer[w] \in Place /\ writer[w].cursor \in Nat /\ writer[w].upto \in Nat
  BY DEF WritersWork, Place
<1>2. writer[w].upto <= Len(stream)
  BY DEF WritersWork, Working
<1>3. t \in Place
  BY <1>1 DEF Place, WriterPcs, RowStatuses
<1>4. At(w, t)
  BY DEF Advance, At
<1>5. Working(t, evs, chain, stream)
  <2>1. t.pc \in {"insert", "idle"}
    OBVIOUS
  <2>2. t.pc = "insert" => t.cursor + 1 <= t.upto /\ t.upto <= Len(stream)
    BY <1>1, <1>2
  <2> HIDE DEF t
  <2> QED
    BY <2>1, <2>2 DEF Working, SalePcs
<1> QED
  BY <1>3, <1>4, <1>5

\* What a worker's step owes the invariant.
LEMMA WriterStep ==
  ASSUME EngineFacts, SettleInv, NEW w \in Writers, NEW t \in Place, At(w, t),
         UNCHANGED <<vars, canceller>>,
         NEW k \in 0 .. Len(stream), NEW m \in 0 .. k, events' = 1 .. k, chained' = 1 .. m,
         events \subseteq events', chained \subseteq chained',
         t.cursor \in 0 .. m, Working(t, events', chained', stream),
         RowFollows', OrderFollows', LedgerFollows'
  PROVE  SettleInv'
<1>0. Len(stream) \in Nat /\ stream' = stream
  BY CoreTypes DEF EngineFacts, CoreInv, vars
<1>1. /\ writer' \in [Writers -> Place]
      /\ \A v \in Writers : writer'[v] = IF v = w THEN t ELSE writer[v]
  BY DEF SettleInv, WritersWork, At
<1>2. ASSUME NEW v \in Writers, v # w
      PROVE  Working(writer[v], events', chained', stream)
  <2>1. Working(writer[v], events, chained, stream) /\ writer[v] \in Place
    BY DEF SettleInv, WritersWork
  <2>2. Len(stream) <= Len(stream) /\ \A i \in 1 .. Len(stream) : stream[i] = stream[i]
    BY <1>0
  <2>3. events \subseteq events' /\ chained \subseteq chained'
    OBVIOUS
  <2> QED
    BY <1>0, <2>1, <2>2, <2>3, WorkingStays
<1>3. WritersWork'
  BY <1>0, <1>1, <1>2 DEF WritersWork
<1>4. Prefixes'
  <2>1. PICK k0 \in 0 .. Len(stream) : \E m0 \in 0 .. k0 :
          chained = 1 .. m0 /\ \A v \in Writers : writer[v].cursor <= m0
    BY DEF SettleInv, Prefixes
  <2>2. PICK m0 \in 0 .. k0 :
          chained = 1 .. m0 /\ \A v \in Writers : writer[v].cursor <= m0
    BY <2>1
  <2>3. m0 <= m
    <3>1. m0 > 0 => m0 \in chained
      BY <2>2
    <3> QED
      BY <2>2, <3>1
  <2>4. \A v \in Writers : writer[v].cursor \in Nat
    BY DEF SettleInv, WritersWork, Place
  <2>5. \A v \in Writers : writer'[v].cursor <= m
    BY <1>1, <2>2, <2>3, <2>4
  <2> QED
    BY <1>0, <2>5 DEF Prefixes
<1> QED
  BY <1>3, <1>4 DEF SettleInv

\* The tables and a worker's place in them.
LEMMA WriterAt ==
  ASSUME EngineFacts, SettleInv, NEW w \in Writers
  PROVE  /\ Len(stream) \in Nat /\ writer[w] \in Place /\ writer[w].cursor \in Nat
         /\ Working(writer[w], events, chained, stream)
         /\ writer[w].pc # "idle" => NextSeq(w) \in 1 .. Len(stream)
         /\ \E k \in 0 .. Len(stream) : \E m \in 0 .. k :
              events = 1 .. k /\ chained = 1 .. m /\ writer[w].cursor \in 0 .. m
<1>1. Len(stream) \in Nat
  BY CoreTypes DEF EngineFacts, CoreInv
<1>2. /\ writer[w] \in Place /\ writer[w].cursor \in Nat /\ writer[w].upto \in Nat
      /\ Working(writer[w], events, chained, stream)
  BY DEF SettleInv, WritersWork, Place
<1>3. writer[w].pc # "idle" => NextSeq(w) \in 1 .. Len(stream)
  BY <1>1, <1>2 DEF Working, NextSeq
<1>4. \E k \in 0 .. Len(stream) : \E m \in 0 .. k :
        events = 1 .. k /\ chained = 1 .. m /\ writer[w].cursor <= m
  BY DEF SettleInv, Prefixes
<1> QED
  BY <1>1, <1>2, <1>3, <1>4

\* A worker's step that leaves the event table alone.
LEMMA QuietStep ==
  ASSUME EngineFacts, SettleInv, NEW w \in Writers, NEW t \in Place, At(w, t),
         UNCHANGED <<vars, canceller, events, chained>>,
         t.cursor \in {0, writer[w].cursor} \cup chained,
         Working(t, events, chained, stream),
         RowFollows', OrderFollows', LedgerFollows'
  PROVE  SettleInv'
<1>1. PICK k \in 0 .. Len(stream) : \E m \in 0 .. k :
        events = 1 .. k /\ chained = 1 .. m /\ writer[w].cursor \in 0 .. m
  BY WriterAt
<1>2. PICK m \in 0 .. k :
        events = 1 .. k /\ chained = 1 .. m /\ writer[w].cursor \in 0 .. m
  BY <1>1
<1>3. t.cursor \in 0 .. m
  BY <1>1, <1>2
<1>4. events' = 1 .. k /\ chained' = 1 .. m /\ events \subseteq events' /\ chained \subseteq chained'
  BY <1>2
<1>5. Working(t, events', chained', stream)
  <2>1. events' = events /\ chained' = chained
    OBVIOUS
  <2> QED
    BY <2>1
<1> QED
  BY <1>3, <1>4, <1>5, WriterStep

\* What a step leaves alone it does not break.
LEMMA UntouchedTables ==
  ASSUME SettleInv, UNCHANGED <<vars, canceller>>
  PROVE  /\ row' = row /\ events \subseteq events' => RowFollows'
         /\ order' = order /\ chained' = chained => OrderFollows'
         /\ ledger' = ledger => LedgerFollows'
<1>1. row' = row /\ events \subseteq events' => RowFollows'
  BY DEF SettleInv, RowFollows, vars, hash
<1>2. order' = order /\ chained' = chained => OrderFollows'
  BY DEF SettleInv, OrderFollows, vars, hash
<1>3. ledger' = ledger => LedgerFollows'
  BY DEF SettleInv, LedgerFollows, DebitOf, vars
<1> QED
  BY <1>1, <1>2, <1>3

\* A pass begins.
LEMMA ReadKeepsTables ==
  ASSUME EngineFacts, SettleInv, NEW w \in Writers, ReadEventsAfter(w)
  PROVE  SettleInv'
<1> DEFINE t == [writer[w] EXCEPT !.pc = "insert", !.upto = Len(stream)]
<1>1. UNCHANGED <<vars, canceller, row, order, ledger, events, chained>>
  BY DEF ReadEventsAfter, tables, handlers
<1>2. /\ Len(stream) \in Nat /\ writer[w] \in Place /\ writer[w].cursor \in Nat
      /\ writer[w].cursor < Len(stream)
  BY WriterAt DEF ReadEventsAfter
<1>3. /\ t \in Place /\ t.pc = "insert" /\ t.cursor = writer[w].cursor /\ t.upto = Len(stream)
  BY <1>2 DEF Place, WriterPcs
<1>4. At(w, t)
  BY DEF ReadEventsAfter, At, SettleInv, WritersWork
<1> HIDE DEF t
<1>5. Working(t, events, chained, stream)
  BY <1>2, <1>3 DEF Working, SalePcs
<1>6. RowFollows' /\ OrderFollows' /\ LedgerFollows'
  BY <1>1, UntouchedTables
<1> QED
  BY <1>1, <1>3, <1>4, <1>5, <1>6, QuietStep

\* The event's row is inserted, or already there.
LEMMA InsertKeepsTables ==
  ASSUME EngineFacts, SettleInv, NEW w \in Writers, InsertEvent(w)
  PROVE  SettleInv'
<1> DEFINE n == NextSeq(w)
<1>1. /\ UNCHANGED <<vars, canceller, row, order, ledger, chained>>
      /\ events' = events \cup {n} /\ writer[w].pc = "insert" /\ Move(w, "hash")
  BY DEF InsertEvent, handlers
<1>2. /\ Len(stream) \in Nat /\ writer[w].cursor \in Nat /\ n \in 1 .. Len(stream)
      /\ n = writer[w].cursor + 1 /\ Working(writer[w], events, chained, stream)
  BY <1>1, WriterAt DEF NextSeq
<1>3. PICK k \in 0 .. Len(stream) : \E m \in 0 .. k :
        events = 1 .. k /\ chained = 1 .. m /\ writer[w].cursor \in 0 .. m
  BY WriterAt
<1>4. PICK m \in 0 .. k :
        events = 1 .. k /\ chained = 1 .. m /\ writer[w].cursor \in 0 .. m
  BY <1>3
<1>5. PICK t \in Place : /\ At(w, t) /\ t.pc = "hash"
                         /\ t.cursor = writer[w].cursor /\ t.upto = writer[w].upto
  BY <1>1, MoveTo DEF SettleInv, WriterPcs
<1> HIDE DEF n
<1>6. PICK k2 \in k .. Len(stream) : events' = 1 .. k2
  <2>1. CASE n <= k
    BY <1>1, <1>2, <1>4, <2>1
  <2>2. CASE n = k + 1
    BY <1>1, <1>2, <1>4, <2>2
  <2> QED
    BY <1>2, <1>4, <2>1, <2>2
<1>7. Working(t, events', chained', stream)
  <2>1. t.cursor + 1 = n /\ n \in events' /\ n <= t.upto /\ t.upto <= Len(stream)
    BY <1>1, <1>2, <1>5 DEF Working
  <2> QED
    BY <1>5, <2>1 DEF Working, SalePcs
<1>8. RowFollows' /\ OrderFollows' /\ LedgerFollows'
  BY <1>1, UntouchedTables
<1>9. k2 \in 0 .. Len(stream) /\ m \in 0 .. k2 /\ t.cursor \in 0 .. m
  BY <1>2, <1>4, <1>5, <1>6
<1>10. chained' = 1 .. m /\ events \subseteq events' /\ chained \subseteq chained'
  BY <1>1, <1>4
<1> QED
  BY <1>1, <1>5, <1>6, <1>7, <1>8, <1>9, <1>10, WriterStep

\* A pass is given up: the cursor stays.
LEMMA GiveUpTo ==
  ASSUME WritersWork, NEW w \in Writers, GiveUp(w), NEW evs, NEW chain, NEW log
  PROVE  \E t \in Place : /\ At(w, t) /\ t.cursor = writer[w].cursor
                          /\ Working(t, evs, chain, log)
<1> DEFINE t == [Restarted EXCEPT !.cursor = writer[w].cursor]
<1>1. t \in Place /\ t.pc = "idle" /\ t.cursor = writer[w].cursor
  BY DEF WritersWork, Restarted, Place, WriterPcs, RowStatuses
<1>2. At(w, t)
  BY DEF GiveUp, At
<1> HIDE DEF t
<1>3. Working(t, evs, chain, log)
  BY <1>1 DEF Working, SalePcs
<1> QED
  BY <1>1, <1>2, <1>3

\* The event joins the chain; its predecessor is always there.
LEMMA HashKeepsTables ==
  ASSUME EngineFacts, SettleInv, NEW w \in Writers, FillEventHash(w)
  PROVE  SettleInv'
<1> DEFINE n == NextSeq(w)
<1>1. /\ UNCHANGED <<vars, canceller, row, order, ledger, events>> /\ writer[w].pc = "hash"
  BY DEF FillEventHash, handlers
<1>2. /\ Len(stream) \in Nat /\ writer[w].cursor \in Nat /\ n \in 1 .. Len(stream)
      /\ n = writer[w].cursor + 1 /\ Working(writer[w], events, chained, stream)
      /\ WritersWork
  BY <1>1, WriterAt DEF NextSeq, SettleInv
<1>3. PICK k \in 0 .. Len(stream) : \E m \in 0 .. k :
        events = 1 .. k /\ chained = 1 .. m /\ writer[w].cursor \in 0 .. m
  BY WriterAt
<1>4. PICK m \in 0 .. k :
        events = 1 .. k /\ chained = 1 .. m /\ writer[w].cursor \in 0 .. m
  BY <1>3
<1>5. n \in events /\ n <= writer[w].upto /\ writer[w].upto <= Len(stream)
  BY <1>1, <1>2 DEF Working
<1>6. n \in chained \/ CanChain(n)
  <2> HIDE DEF n
  <2>1. n = 1 \/ n - 1 \in chained
    BY <1>2, <1>4
  <2> QED
    BY <2>1 DEF CanChain
<1>7. chained' = chained \cup {n} /\ AfterHash(w)
  BY <1>6 DEF FillEventHash
<1> HIDE DEF n
<1>8. PICK m2 \in m .. k : chained' = 1 .. m2 /\ n \in 0 .. m2
  <2>1. CASE n <= m
    BY <1>2, <1>4, <1>7, <2>1
  <2>2. CASE n = m + 1
    <3>1. m + 1 \in m .. k /\ chained' = 1 .. m + 1 /\ n \in 0 .. m + 1
      BY <1>2, <1>4, <1>5, <1>7, <2>2
    <3> QED
      BY <3>1
  <2> QED
    BY <1>2, <1>4, <2>1, <2>2
<1>9. PICK t \in Place : /\ At(w, t) /\ t.cursor \in {n - 1, n}
                         /\ Working(t, events', chained', stream)
  <2>1. ASSUME NEW pc \in {"get", "forfeit", "status"}, Move(w, pc),
               pc = "get" => stream[n].type = "AUCTION_SOLD",
               pc = "forfeit" => stream[n].type = "ALL_PAY_FORFEIT",
               pc = "status" => stream[n].type \in {"AUCTION_NO_BID", "AUCTION_CANCELLED"}
        PROVE  \E t \in Place : /\ At(w, t) /\ t.cursor \in {n - 1, n}
                                /\ Working(t, events', chained', stream)
    <3>1. PICK t \in Place : /\ At(w, t) /\ t.pc = pc
                             /\ t.cursor = writer[w].cursor /\ t.upto = writer[w].upto
      BY <1>2, <2>1, MoveTo DEF WriterPcs, SalePcs
    <3>2. t.cursor + 1 = n /\ n \in events' /\ n \in chained'
      BY <1>1, <1>2, <1>5, <1>7, <3>1
    <3>3. Working(t, events', chained', stream)
      BY <1>5, <2>1, <3>1, <3>2 DEF Working, SalePcs
    <3>4. t.cursor = n - 1
      BY <1>2, <3>1
    <3> QED
      BY <3>1, <3>3, <3>4
  <2>2. CASE Advance(w)
    <3>1. PICK t \in Place : /\ At(w, t) /\ t.cursor = writer[w].cursor + 1
                             /\ Working(t, events', chained', stream)
      BY <1>1, <1>2, <2>2, AdvanceTo
    <3> QED
      BY <1>2, <3>1
  <2> QED
    BY <1>7, <2>1, <2>2 DEF AfterHash, Projected, n
<1>10. OrderFollows'
  <2>1. CASE order = NoOrder
    BY <1>1, <2>1 DEF SettleInv, OrderFollows
  <2>2. CASE order # NoOrder
    <3>1. chained = 1 .. Len(stream)
      BY <2>2 DEF SettleInv, OrderFollows
    <3>2. chained' = chained
      BY <1>2, <1>7, <3>1
    <3> QED
      BY <1>1, <3>2, UntouchedTables
  <2> QED
    BY <2>1, <2>2
<1>11. RowFollows' /\ LedgerFollows'
  BY <1>1, UntouchedTables
<1>12. k \in 0 .. Len(stream) /\ m2 \in 0 .. k /\ t.cursor \in 0 .. m2
  BY <1>2, <1>4, <1>8, <1>9
<1>13. events' = 1 .. k /\ events \subseteq events' /\ chained \subseteq chained'
  BY <1>1, <1>4, <1>7
<1> QED
  BY <1>1, <1>8, <1>9, <1>10, <1>11, <1>12, <1>13, WriterStep

\* The terminal status of an auction that was not sold.
LEMMA StatusKeepsTables ==
  ASSUME EngineFacts, SettleInv, NEW w \in Writers, ProjectStatus(w)
  PROVE  SettleInv'
<1>1. /\ UNCHANGED <<vars, canceller, order, ledger, events, chained>>
      /\ writer[w].pc = "status" /\ Advance(w) /\ row' = TerminalStatus(stream[NextSeq(w)].type)
  BY DEF ProjectStatus, handlers, UpdateAuctionStatus, Projected
<1>2. /\ Len(stream) \in Nat /\ NextSeq(w) \in 1 .. Len(stream) /\ WritersWork
      /\ NextSeq(w) \in chained
      /\ stream[NextSeq(w)].type \in {"AUCTION_NO_BID", "AUCTION_CANCELLED"}
  BY <1>1, WriterAt DEF SettleInv, Working, NextSeq, SalePcs
<1>3. \/ row' = "NO_BID" /\ status = "NO_BID"
      \/ row' = "CANCELLED" /\ status = "CANCELLED"
  BY <1>1, <1>2, TerminalIsLast DEF TerminalStatus
<1>4. RowFollows'
  BY <1>1, <1>3 DEF SettleInv, RowFollows, RowStatuses, vars, hash
<1>5. PICK t \in Place : /\ At(w, t) /\ t.cursor = writer[w].cursor + 1
                         /\ Working(t, events, chained, stream)
  BY <1>1, <1>2, AdvanceTo
<1>6. t.cursor \in chained
  BY <1>2, <1>5 DEF NextSeq
<1>7. OrderFollows' /\ LedgerFollows'
  BY <1>1, UntouchedTables
<1> QED
  BY <1>1, <1>4, <1>5, <1>6, <1>7, QuietStep

\* A debit of the winner or the runner-up.
LEMMA DebitKeepsTables ==
  ASSUME EngineFacts, SettleInv, NEW w \in Writers, ProjectAllPayForfeit(w) \/ ProjectAllPayWin(w)
  PROVE  SettleInv'
<1> DEFINE n == NextSeq(w)
<1>0. \/ writer[w].pc = "forfeit" /\ Debit(w, "RUNNER_UP_FORFEIT")
      \/ writer[w].pc = "win" /\ Debit(w, "WIN")
  BY DEF ProjectAllPayForfeit, ProjectAllPayWin
<1>1. /\ UNCHANGED <<vars, canceller, row, order, events, chained>>
      /\ Advance(w) /\ writer[w].pc \in {"forfeit", "win"}
  BY <1>0 DEF Debit, handlers
<1>2. /\ Len(stream) \in Nat /\ n \in 1 .. Len(stream) /\ WritersWork /\ n \in chained
      /\ writer[w].pc = "forfeit" => stream[n].type = "ALL_PAY_FORFEIT"
      /\ writer[w].pc = "win" => stream[n].type = "AUCTION_SOLD"
  BY <1>1, WriterAt DEF SettleInv, Working, NextSeq, SalePcs
<1>3. \/ stream[n].type = "ALL_PAY_FORFEIT"
         /\ ledger' = ledger \cup {DebitOf(n, "RUNNER_UP_FORFEIT")}
      \/ stream[n].type = "AUCTION_SOLD" /\ ledger' = ledger \cup {DebitOf(n, "WIN")}
  BY <1>0, <1>2 DEF Debit, DebitOf, Projected
<1>4. LedgerFollows'
  <2> HIDE DEF n
  <2>1. stream' = stream
    BY <1>1 DEF vars
  <2> QED
    BY <1>2, <1>3, <2>1 DEF SettleInv, LedgerFollows, DebitOf
<1>5. PICK t \in Place : /\ At(w, t) /\ t.cursor = writer[w].cursor + 1
                         /\ Working(t, events, chained, stream)
  BY <1>1, <1>2, AdvanceTo
<1>6. t.cursor \in chained
  BY <1>2, <1>5 DEF NextSeq
<1>7. RowFollows' /\ OrderFollows'
  BY <1>1, UntouchedTables
<1> QED
  BY <1>1, <1>4, <1>5, <1>6, <1>7, QuietStep

\* A worker that moves on within the sale's event.
LEMMA SaleMove ==
  ASSUME EngineFacts, SettleInv, NEW w \in Writers, NEW pc \in SalePcs, writer[w].pc \in SalePcs,
         NEW t \in Place, t.pc = pc, t.cursor = writer[w].cursor, t.upto = writer[w].upto
  PROVE  Working(t, events, chained, stream)
<1>1. Working(writer[w], events, chained, stream)
  BY WriterAt
<1> QED
  BY <1>1 DEF Working, SalePcs

\* The entry a worker in projectSold holds is the sale.
LEMMA HoldsSale ==
  ASSUME EngineFacts, SettleInv, NEW w \in Writers, writer[w].pc \in SalePcs
  PROVE  /\ NextSeq(w) = Len(stream) /\ Len(stream) \in Nat
         /\ Len(stream) \in events /\ chained = 1 .. Len(stream)
         /\ status = "SOLD" /\ winner # NoUser
         /\ Projected(w).user = winner /\ Projected(w).amount = price
<1>1. /\ Len(stream) \in Nat /\ NextSeq(w) \in 1 .. Len(stream)
      /\ NextSeq(w) \in events /\ NextSeq(w) \in chained
      /\ stream[NextSeq(w)].type = "AUCTION_SOLD"
  BY WriterAt DEF Working, NextSeq, SalePcs
<1>2. /\ NextSeq(w) = Len(stream) /\ status = "SOLD" /\ winner # NoUser
      /\ Projected(w).user = winner /\ Projected(w).amount = price
  BY <1>1, TerminalIsLast DEF Projected
<1>3. \E k \in 0 .. Len(stream) : \E m \in 0 .. k : chained = 1 .. m
  BY WriterAt
<1>4. chained = 1 .. Len(stream)
  BY <1>1, <1>2, <1>3
<1> QED
  BY <1>1, <1>2, <1>4

\* projectSold up to the decision between the ledger and an order.
LEMMA SoldKeepsTables ==
  ASSUME EngineFacts, SettleInv, NEW w \in Writers, GetAuction(w) \/ SoldProject(w) \/ GetRules(w)
  PROVE  SettleInv'
<1>0. WritersWork /\ RowFollows /\ writer[w] \in Place
  BY WriterAt DEF SettleInv
<1>1. /\ UNCHANGED <<vars, canceller, order, ledger, events, chained>>
      /\ writer[w].pc \in SalePcs
  BY DEF GetAuction, SoldProject, GetRules, tables, handlers, SalePcs
<1>2. \E t \in Place, pc \in SalePcs :
        /\ At(w, t)
        /\ t.pc = pc /\ t.cursor = writer[w].cursor /\ t.upto = writer[w].upto
  <2>1. CASE GetAuction(w)
    <3> DEFINE t == [writer[w] EXCEPT !.pc = "sold", !.seen = row]
    <3>1. t \in Place /\ t.pc = "sold" /\ t.cursor = writer[w].cursor /\ t.upto = writer[w].upto
      BY <1>0 DEF Place, RowFollows, WriterPcs, SalePcs
    <3>2. At(w, t)
      BY <1>0, <2>1 DEF GetAuction, At, WritersWork
    <3> QED
      BY <3>1, <3>2 DEF SalePcs
  <2>2. ASSUME NEW pc \in SalePcs, Move(w, pc)
        PROVE  \E t \in Place : /\ At(w, t) /\ t.pc = pc
                                /\ t.cursor = writer[w].cursor /\ t.upto = writer[w].upto
    <3>1. pc \in WriterPcs
      BY DEF WriterPcs
    <3> QED
      BY <1>0, <2>2, <3>1, MoveTo
  <2>3. CASE SoldProject(w)
    BY <2>2, <2>3 DEF SoldProject, SalePcs
  <2>4. CASE GetRules(w)
    BY <2>2, <2>4 DEF GetRules, SalePcs
  <2> QED
    BY <2>1, <2>3, <2>4
<1>3. PICK t \in Place, pc \in SalePcs :
        /\ At(w, t)
        /\ t.pc = pc /\ t.cursor = writer[w].cursor /\ t.upto = writer[w].upto
  BY <1>2
<1>4. Working(t, events, chained, stream)
  BY <1>1, <1>3, SaleMove
<1>5. RowFollows'
  <2>1. status = "SOLD" /\ Len(stream) \in events
    BY <1>1, HoldsSale
  <2>2. row' = row \/ row' = "SOLD"
    BY DEF GetAuction, SoldProject, GetRules, tables, UpdateAuctionStatus
  <2> QED
    BY <1>0, <1>1, <2>1, <2>2 DEF RowFollows, RowStatuses, vars, hash
<1>6. OrderFollows' /\ LedgerFollows'
  BY <1>1, UntouchedTables
<1> QED
  BY <1>1, <1>3, <1>4, <1>5, <1>6, QuietStep

\* The order is created for the winner at the price, or left as it is.
LEMMA OrderKeepsTables ==
  ASSUME EngineFacts, SettleInv, NEW w \in Writers, CreateOrderFromSold(w)
  PROVE  SettleInv'
<1> DEFINE new == [buyer |-> Projected(w).user, amount |-> Projected(w).amount,
                   status |-> "created"]
<1>0. WritersWork
  BY DEF SettleInv
<1>1. /\ UNCHANGED <<vars, canceller, row, ledger, events, chained>>
      /\ writer[w].pc = "order" /\ writer[w].pc \in SalePcs
      /\ order' = order \/ order' = new
      /\ Move(w, "ordered") \/ Advance(w)
  BY DEF CreateOrderFromSold, handlers, SalePcs
<1>2. /\ NextSeq(w) = Len(stream) /\ Len(stream) \in Nat /\ NextSeq(w) \in chained
      /\ chained = 1 .. Len(stream) /\ status = "SOLD"
      /\ Projected(w).user = winner /\ Projected(w).amount = price
  <2>1. NextSeq(w) \in 1 .. Len(stream)
    BY <1>1, WriterAt
  <2> QED
    BY <1>1, <2>1, HoldsSale
<1>3. OrderFollows'
  <2>1. CASE order' = order
    BY <1>1, <2>1, UntouchedTables
  <2>2. CASE order' = new
    <3>1. winner \in Users \cup {NoUser} /\ price \in Nat
      BY DEF EngineFacts, CoreInv, TypeOK
    <3>2. order' = [buyer |-> winner, amount |-> price, status |-> "created"]
      BY <1>2, <2>2
    <3> QED
      BY <1>1, <1>2, <3>1, <3>2 DEF OrderFollows, vars, hash
  <2> QED
    BY <1>1, <2>1, <2>2
<1>4. RowFollows' /\ LedgerFollows'
  BY <1>1, UntouchedTables
<1>5. CASE Move(w, "ordered")
  <2>1. PICK t \in Place : /\ At(w, t) /\ t.pc = "ordered"
                           /\ t.cursor = writer[w].cursor /\ t.upto = writer[w].upto
    BY <1>0, <1>5, MoveTo DEF WriterPcs, SalePcs
  <2>2. Working(t, events, chained, stream)
    BY <1>1, <2>1, SaleMove DEF SalePcs
  <2> QED
    BY <1>1, <1>3, <1>4, <2>1, <2>2, QuietStep
<1>6. CASE Advance(w)
  <2>1. PICK t \in Place : /\ At(w, t) /\ t.cursor = writer[w].cursor + 1
                           /\ Working(t, events, chained, stream)
    BY <1>0, <1>1, <1>2, <1>6, AdvanceTo
  <2>2. t.cursor \in chained
    BY <1>2, <2>1 DEF NextSeq
  <2> QED
    BY <1>1, <1>3, <1>4, <2>1, <2>2, QuietStep
<1> QED
  BY <1>1, <1>5, <1>6

\* The row follows the order.
LEMMA OrderedKeepsTables ==
  ASSUME EngineFacts, SettleInv, NEW w \in Writers, OrderProject(w)
  PROVE  SettleInv'
<1>1. /\ UNCHANGED <<vars, canceller, order, ledger, events, chained>>
      /\ writer[w].pc = "ordered" /\ writer[w].pc \in SalePcs
      /\ row' = "ORDER_CREATED" /\ Advance(w)
  BY DEF OrderProject, handlers, SalePcs, UpdateAuctionStatus
<1>2. /\ Len(stream) \in Nat /\ NextSeq(w) \in chained /\ Len(stream) \in events
      /\ status = "SOLD" /\ WritersWork
  <2>1. NextSeq(w) \in 1 .. Len(stream)
    BY <1>1, WriterAt
  <2> QED
    BY <1>1, <2>1, HoldsSale DEF SettleInv
<1>3. RowFollows'
  BY <1>1, <1>2 DEF SettleInv, RowFollows, RowStatuses, vars, hash
<1>4. PICK t \in Place : /\ At(w, t) /\ t.cursor = writer[w].cursor + 1
                         /\ Working(t, events, chained, stream)
  BY <1>1, <1>2, AdvanceTo
<1>5. t.cursor \in chained
  BY <1>2, <1>4 DEF NextSeq
<1>6. OrderFollows' /\ LedgerFollows'
  BY <1>1, UntouchedTables
<1> QED
  BY <1>1, <1>3, <1>4, <1>5, <1>6, QuietStep

\* A failed statement or a restart.
LEMMA FaultKeepsTables ==
  ASSUME EngineFacts, SettleInv, NEW w \in Writers, StatementFails(w) \/ WriterRestarts(w)
  PROVE  SettleInv'
<1>0. WritersWork
  BY DEF SettleInv
<1>1. UNCHANGED <<vars, canceller, row, order, ledger, events, chained>>
  BY DEF StatementFails, WriterRestarts, tables, handlers
<1>2. RowFollows' /\ OrderFollows' /\ LedgerFollows'
  BY <1>1, UntouchedTables
<1>3. CASE writer[w].pc = "rules" /\ Move(w, "order")
  <2>1. PICK t \in Place : /\ At(w, t) /\ t.pc = "order"
                           /\ t.cursor = writer[w].cursor /\ t.upto = writer[w].upto
    BY <1>0, <1>3, MoveTo DEF WriterPcs, SalePcs
  <2>2. Working(t, events, chained, stream)
    BY <1>3, <2>1, SaleMove DEF SalePcs
  <2> QED
    BY <1>1, <1>2, <2>1, <2>2, QuietStep
<1>4. CASE GiveUp(w)
  <2>1. PICK t \in Place : /\ At(w, t) /\ t.cursor = writer[w].cursor
                           /\ Working(t, events, chained, stream)
    BY <1>0, <1>4, GiveUpTo
  <2> QED
    BY <1>1, <1>2, <2>1, QuietStep
<1>5. CASE At(w, Restarted)
  <2>1. Restarted \in Place /\ Restarted.cursor = 0 /\ Restarted.pc = "idle"
    BY DEF Restarted, Place, WriterPcs, RowStatuses
  <2>2. Working(Restarted, events, chained, stream)
    BY <2>1 DEF Working, SalePcs
  <2> QED
    BY <1>1, <1>2, <1>5, <2>1, <2>2, QuietStep
<1> QED
  BY <1>3, <1>4, <1>5 DEF StatementFails, WriterRestarts, At

\* Every step keeps the invariant.
LEMMA NextSettle ==
  EngineFacts /\ StoredRules /\ SettleInv /\ [SNext]_svars => SettleInv'
<1> SUFFICES ASSUME EngineFacts, StoredRules, SettleInv, [SNext]_svars PROVE SettleInv'
  OBVIOUS
<1>1. ASSUME NEW w \in Writers, Project(w) \/ StatementFails(w) \/ WriterRestarts(w)
      PROVE  SettleInv'
  BY <1>1, ReadKeepsTables, InsertKeepsTables, HashKeepsTables, StatusKeepsTables,
     DebitKeepsTables, SoldKeepsTables, OrderKeepsTables, OrderedKeepsTables, FaultKeepsTables
     DEF Project
<1> QED
  BY <1>1, HandlersKeepTables, PayKeepsTables DEF SNext

\* The invariant holds of every behaviour.
LEMMA SettleInvariant == SSpec => [](EngineFacts /\ SettleInv)
  BY SettlementRefinesEngine, EngineFactsHold, InitSettle, NextSettle, PTL DEF SSpec

-----------------------------------------------------------------------------
(***************************************************************************)
(* The theorems.                                                           *)
(***************************************************************************)

\* The ledger never holds a debit that the sale does not justify, nor one
\* twice: a row's key is the seq of the only entry it can come from.
LEMMA LedgerAgrees == EngineFacts /\ SettleInv => LedgerMatchesSale
<1> SUFFICES ASSUME EngineFacts, SettleInv PROVE LedgerMatchesSale
  OBVIOUS
<1>1. ASSUME NEW s \in 1 .. Len(stream), stream[s].type = "ALL_PAY_FORFEIT"
      PROVE  /\ status = "SOLD" /\ stream[s].user # winner
             /\ stream[s].amount = leaderboard[stream[s].user]
             /\ \A i \in 1 .. Len(stream) : stream[i].type = "ALL_PAY_FORFEIT" => i = s
  <2> DEFINE fs == {i \in 1 .. Len(stream) : stream[i].type = "ALL_PAY_FORFEIT"}
  <2>1. s \in fs
    BY <1>1
  <2>2. /\ fs # {} => rules.mode = "ALL_PAY" /\ status = "SOLD"
        /\ rules.mode = "ALL_PAY" /\ status = "SOLD" =>
             \A i \in fs : /\ fs = {i} /\ stream[i].user # winner
                           /\ stream[i].amount = leaderboard[stream[i].user]
    BY DEF EngineFacts, SealedPayment, AllPayForfeitsRunnerUp
  <2> HIDE DEF fs
  <2>3. status = "SOLD" /\ fs = {s} /\ stream[s].user # winner
        /\ stream[s].amount = leaderboard[stream[s].user]
    BY <2>1, <2>2
  <2> QED
    BY <2>3 DEF fs
<1>2. ASSUME NEW d \in ledger
      PROVE  \E s \in 1 .. Len(stream) :
               \/ stream[s].type = "AUCTION_SOLD" /\ d = DebitOf(s, "WIN")
               \/ stream[s].type = "ALL_PAY_FORFEIT" /\ d = DebitOf(s, "RUNNER_UP_FORFEIT")
  BY DEF SettleInv, LedgerFollows
<1>3. \A s, reason : /\ DebitOf(s, reason).user = stream[s].user
                     /\ DebitOf(s, reason).coins = stream[s].amount
                     /\ DebitOf(s, reason).reason = reason
  BY DEF DebitOf
<1>4. ASSUME NEW d \in ledger
      PROVE  /\ status = "SOLD"
             /\ d.coins = IF d.reason = "WIN" THEN price ELSE leaderboard[d.user]
             /\ (d.reason = "WIN") = (d.user = winner)
  <2>1. PICK s \in 1 .. Len(stream) :
          \/ stream[s].type = "AUCTION_SOLD" /\ d = DebitOf(s, "WIN")
          \/ stream[s].type = "ALL_PAY_FORFEIT" /\ d = DebitOf(s, "RUNNER_UP_FORFEIT")
    BY <1>2
  <2>2. CASE stream[s].type = "AUCTION_SOLD" /\ d = DebitOf(s, "WIN")
    BY <1>3, <2>2, TerminalIsLast
  <2>3. CASE stream[s].type = "ALL_PAY_FORFEIT" /\ d = DebitOf(s, "RUNNER_UP_FORFEIT")
    BY <1>1, <1>3, <2>3
  <2> QED
    BY <2>1, <2>2, <2>3
<1>5. ASSUME NEW d \in ledger, NEW e \in ledger, d.reason = e.reason PROVE d = e
  <2>1. PICK s \in 1 .. Len(stream) :
          \/ stream[s].type = "AUCTION_SOLD" /\ d = DebitOf(s, "WIN")
          \/ stream[s].type = "ALL_PAY_FORFEIT" /\ d = DebitOf(s, "RUNNER_UP_FORFEIT")
    BY <1>2
  <2>2. PICK i \in 1 .. Len(stream) :
          \/ stream[i].type = "AUCTION_SOLD" /\ e = DebitOf(i, "WIN")
          \/ stream[i].type = "ALL_PAY_FORFEIT" /\ e = DebitOf(i, "RUNNER_UP_FORFEIT")
    BY <1>2
  <2>3. s = i
    BY <1>1, <1>3, <1>5, <2>1, <2>2, TerminalIsLast
  <2> QED
    BY <1>3, <1>5, <2>1, <2>2, <2>3
<1> QED
  BY <1>4, <1>5 DEF LedgerMatchesSale

\* Whatever restarts, racing workers and PATCHed rules do, coins are taken
\* from the winner once, at the price, and from an all-pay runner-up once.
THEOREM LedgerFollowsSale == SSpec => []LedgerMatchesSale
  BY SettleInvariant, LedgerAgrees, PTL

\* The newest of some Stream positions.
LEMMA NewestOf ==
  ASSUME NEW N \in Nat, NEW ns \in SUBSET (1 .. N)
  PROVE  /\ N \in ns => Max(ns \cup {0}) = N
         /\ ns = {} => Max(ns \cup {0}) = 0
<1>1. ASSUME NEW x \in ns \cup {0}, \A y \in ns \cup {0} : x >= y
      PROVE  Max(ns \cup {0}) = x
  <2> DEFINE S == ns \cup {0}
  <2>1. Max(S) = CHOOSE z \in S : \A y \in S : z >= y
    BY DEF Max
  <2>2. \A z \in S : z \in Nat
    OBVIOUS
  <2>3. Max(S) \in S /\ \A y \in S : Max(S) >= y
    BY <1>1, <2>1
  <2>4. Max(S) >= x /\ x >= Max(S)
    BY <1>1, <2>3
  <2>5. Max(S) \in Nat /\ x \in Nat
    BY <1>1, <2>2, <2>3
  <2> QED
    BY <2>4, <2>5
<1>2. N \in ns => Max(ns \cup {0}) = N
  BY <1>1
<1>3. ns = {} => Max(ns \cup {0}) = 0
  BY <1>1
<1> QED
  BY <1>2, <1>3

\* Order, row and evidence card agree with the sale.
LEMMA RecordsAgree == EngineFacts /\ SettleInv => RecordsMatchSale
<1> SUFFICES ASSUME EngineFacts, SettleInv PROVE RecordsMatchSale
  OBVIOUS
<1> DEFINE prices == {n \in events : stream[n].type \in {"BID_ACCEPTED", "AUCTION_SOLD"}}
           names  == {n \in prices : stream[n].user # NoUser}
           ends   == {n \in events : stream[n].type \in TerminalTypes}
           priced == Max(prices \cup {0})
           named  == Max(names \cup {0})
           ended  == Max(ends \cup {0})
           end    == IF ended = 0 THEN "none" ELSE stream[ended].type
           last   == Len(stream)
           card   == EvidenceSummary(row, events, order)
<1>1. last \in Nat /\ events \subseteq 1 .. last
  <2>1. last \in Nat
    BY CoreTypes DEF EngineFacts, CoreInv
  <2>2. \E k \in 0 .. last : events = 1 .. k
    BY DEF SettleInv, Prefixes
  <2> QED
    BY <2>1, <2>2
<1>2. RowFollows /\ OrderFollows
  BY DEF SettleInv
<1>3. ends # {} => last \in ends
  BY <1>1, TerminalIsLast DEF TerminalTypes
<1>4. end = IF last \in ends THEN stream[last].type ELSE "none"
  <2>1. ends \in SUBSET (1 .. last)
    BY <1>1
  <2> HIDE DEF ends
  <2>2. CASE last \in ends
    <3>1. ended = last
      BY <1>1, <2>1, <2>2, NewestOf
    <3>2. last # 0
      BY <2>1, <2>2
    <3> QED
      BY <2>2, <3>1, <3>2
  <2>3. CASE ends = {}
    <3>1. ended = 0
      BY <1>1, <2>1, <2>3, NewestOf
    <3> QED
      BY <2>3, <3>1
  <2> QED
    BY <1>3, <2>2, <2>3
<1>5. /\ end = "AUCTION_SOLD" => status = "SOLD" /\ last \in names /\ last \in prices
      /\ end = "AUCTION_NO_BID" => status = "NO_BID"
      /\ end = "AUCTION_CANCELLED" => status = "CANCELLED"
      /\ end = "AUCTION_SOLD" => stream[last].user = winner /\ stream[last].amount = price
  <2> HIDE DEF end
  <2>1. end # "none" => last \in events /\ last \in 1 .. last /\ end = stream[last].type
    BY <1>1, <1>4
  <2> QED
    BY <2>1, TerminalIsLast
<1>6. end = "AUCTION_SOLD" => priced = last /\ named = last /\ last # 0
  <2>1. prices \in SUBSET (1 .. last) /\ names \in SUBSET (1 .. last)
    BY <1>1
  <2> HIDE DEF prices, names, end
  <2> QED
    BY <1>1, <1>5, <2>1, NewestOf
<1>7. row \in {"SOLD", "ORDER_CREATED"} => end = "AUCTION_SOLD"
  <2> HIDE DEF end
  <2>1. row \in {"SOLD", "ORDER_CREATED"} => status = "SOLD" /\ last \in events
    BY <1>2 DEF RowFollows
  <2>2. status = "SOLD" => stream[last].type = "AUCTION_SOLD"
    BY DEF EngineFacts, CoreInv, TerminalEventLast, TerminalType, Terminal
  <2> QED
    BY <1>4, <2>1, <2>2 DEF TerminalTypes
<1>8. card =
        CASE order # NoOrder ->
               [status |-> "ORDER_CREATED", price |-> order.amount, winner |-> order.buyer]
          [] order = NoOrder /\ end = "AUCTION_CANCELLED" ->
               [status |-> "CANCELLED", price |-> 0, winner |-> NoUser]
          [] OTHER ->
               [status |-> CASE end = "AUCTION_SOLD"   -> "SOLD"
                             [] end = "AUCTION_NO_BID" -> "NO_BID"
                             [] OTHER                  -> row,
                price  |-> IF priced = 0 THEN 0 ELSE stream[priced].amount,
                winner |-> IF named = 0 THEN NoUser ELSE stream[named].user]
  BY DEF EvidenceSummary
<1> HIDE DEF prices, names, ends, priced, named, ended, end, card
<1>9. order # NoOrder =>
        /\ status = "SOLD" /\ order.buyer = winner /\ order.amount = price
        /\ chained = 1 .. Len(stream)
  BY <1>2 DEF OrderFollows
<1>10. CASE order # NoOrder
  <2>1. card.status = "ORDER_CREATED" /\ card.price = order.amount /\ card.winner = order.buyer
    BY <1>8, <1>10
  <2> QED
    BY <1>9, <1>10, <2>1 DEF RecordsMatchSale, card
<1>11. CASE order = NoOrder /\ end = "AUCTION_CANCELLED"
  <2>1. card.status = "CANCELLED"
    BY <1>8, <1>11
  <2> QED
    BY <1>5, <1>11, <2>1 DEF RecordsMatchSale, card
<1>12. CASE order = NoOrder /\ end # "AUCTION_CANCELLED"
  <2>1. card = [status |-> CASE end = "AUCTION_SOLD"   -> "SOLD"
                             [] end = "AUCTION_NO_BID" -> "NO_BID"
                             [] OTHER                  -> row,
                price  |-> IF priced = 0 THEN 0 ELSE stream[priced].amount,
                winner |-> IF named = 0 THEN NoUser ELSE stream[named].user]
    BY <1>8, <1>12
  <2>2. CASE end = "AUCTION_SOLD"
    <3>1. card.status = "SOLD" /\ card.price = price /\ card.winner = winner
      BY <1>5, <1>6, <2>1, <2>2
    <3> QED
      BY <1>5, <1>12, <2>2, <3>1 DEF RecordsMatchSale, card
  <2>3. CASE end = "AUCTION_NO_BID"
    <3>1. card.status = "NO_BID"
      BY <2>1, <2>3
    <3> QED
      BY <1>5, <1>12, <2>3, <3>1 DEF RecordsMatchSale, card
  <2>4. CASE end \notin {"AUCTION_SOLD", "AUCTION_NO_BID"}
    <3>1. card.status = row
      BY <2>1, <2>4
    <3> QED
      BY <1>2, <1>7, <1>12, <2>4, <3>1 DEF RecordsMatchSale, RowFollows, card
  <2> QED
    BY <2>2, <2>3, <2>4
<1> QED
  BY <1>10, <1>11, <1>12

\* An order exists only for a sale, for its winner and price and over its
\* complete, chained evidence; the card never reports an end that did not
\* happen - for any number of workers, restarts, failed and late writes.
THEOREM RecordsFollowSale == SSpec => []RecordsMatchSale
  BY SettleInvariant, RecordsAgree, PTL

\* A worker that re-projects a sale, and a second payment, leave a paid order.
THEOREM PaymentsAreFinal == SSpec => PaidStaysPaid
<1>1. ASSUME [SNext]_svars, order.status = "paid" PROVE order' = order
  <2>1. order # NoOrder
    BY <1>1 DEF NoOrder
  <2>2. CASE \E u \in Users : HandlePayOrder(u)
    BY <1>1, <2>2 DEF HandlePayOrder, PayOrder
  <2>3. ASSUME NEW w \in Writers, Project(w) \/ StatementFails(w) \/ WriterRestarts(w)
        PROVE  order' = order
    BY <2>1, <2>3 DEF Project, ReadEventsAfter, InsertEvent, FillEventHash, ProjectStatus,
         ProjectAllPayForfeit, GetAuction, SoldProject, GetRules, ProjectAllPayWin,
         CreateOrderFromSold, OrderProject, StatementFails, WriterRestarts, Debit, tables
  <2>4. CASE \/ FreezeRead \/ FreezeLocked \/ FreezeProject
             \/ \E d \in Durations : HandleStart(d)
             \/ StartProject
             \/ CancelRead \/ CancelLocked \/ CancelLua \/ CancelProject
             \/ \E r \in Patches : PatchRead(r)
             \/ UpdateRules
             \/ ProjectionFails
    BY <2>4 DEF FreezeRead, FreezeLocked, FreezeProject, HandleStart, StartProject,
                CancelRead, CancelLocked, CancelLua, CancelProject, PatchRead, UpdateRules,
                ProjectionFails, tables
  <2>5. CASE UNCHANGED sqlVars \/ UNCHANGED svars
    BY <2>5 DEF sqlVars, svars, tables
  <2> QED
    BY <1>1, <2>2, <2>3, <2>4, <2>5 DEF SNext
<1>2. [SNext]_svars => [order.status = "paid" => UNCHANGED order]_svars
  BY <1>1
<1> QED
  BY <1>2, PTL DEF SSpec, PaidStaysPaid
=============================================================================
