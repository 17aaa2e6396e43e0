----------------------------- MODULE Settlement -----------------------------
(***************************************************************************)
(* The MySQL side of an auction: the auctions row, its rules, the event    *)
(* log with its hash chain, the order and the coin ledger.  Redis decides; *)
(* MySQL is written by the REST handlers around the scripts and by the     *)
(* Persistence Workers that project the Stream.  The two stores share no   *)
(* transaction, so every script call and every SQL statement is an action, *)
(* and between two of them any other handler or worker may run, a          *)
(* statement may fail, and a worker may restart and lose its cursor.       *)
(*                                                                         *)
(* The row's columns other than status, and the ids of orders and ledger   *)
(* rows, are left out.                                                     *)
(***************************************************************************)
EXTENDS AuctionEngine, FiniteSetsExt

CONSTANTS
  Writers,   \* processes running runPersistenceWorker
  Patches,   \* rules a PATCH may store
  MaxFaults  \* bound: failed statements and restarts in a behaviour

\* The rules handleCreateAuction stores: PREQUALIFY is not in modeRegistry.
CreatedRules == {NormalizeRules(r) : r \in {q \in RuleSet : q.mode # "PREQUALIFY"}}

ASSUME SettlementAssumption ==
  /\ Writers # {}
  /\ Patches \subseteq RuleSet
  /\ CreatedRules \subseteq RuleSet
  /\ MaxFaults \in Nat

VARIABLES
  row,       \* auctions.status
  dbRules,   \* auction_rules
  events,    \* seqs with an auction_events row
  chained,   \* those of them whose event_hash is filled
  order,     \* the orders row
  ledger,    \* coin_ledger rows
  freezer,   \* the freeze handler: none, rules read, or script committed
  starting,  \* a start handler has yet to write LIVE
  canceller, \* the cancel handler: none, lock, lua or project
  patching,  \* rules a PATCH has yet to store, NoRules for none
  writer,    \* each worker: where it is, its cursor, batch and status read
  faults     \* faults so far

tables   == <<row, dbRules, events, chained, order, ledger>>
handlers == <<freezer, starting, canceller, patching>>
sqlVars  == <<tables, handlers, writer, faults>>
svars    == <<vars, sqlVars>>

NoOrder == [buyer |-> NoUser, amount |-> 0, status |-> "none"]

RowTerminal == Terminal \cup {"ORDER_CREATED"}

Restarted == [pc |-> "idle", cursor |-> 0, upto |-> 0, seen |-> "DRAFT"]

NotFreezing == [pc |-> "none", rules |-> NoRules]

SInit ==
  /\ Init
  /\ row = "DRAFT"
  /\ dbRules \in CreatedRules
  /\ events = {} /\ chained = {}
  /\ order = NoOrder
  /\ ledger = {}
  /\ freezer = NotFreezing
  /\ starting = FALSE
  /\ canceller = "none"
  /\ patching = NoRules
  /\ writer = [w \in Writers |-> Restarted]
  /\ faults = 0

-----------------------------------------------------------------------------
(* The auctions row.                                                       *)

\* A plain UPDATE: whatever the status was, it is s now.
UpdateAuctionStatus(s) == row' = s

\* Compare and set.
UpdateAuctionStatusIf(s, expected) == row' = IF row = expected THEN s ELSE row

\* The advisory lock: the freeze handler holds it from its row check on, until
\* its status write or its end.
TransitionLockFree == freezer.pc # "frozen"

(* handleFreeze: GetRules, then under the transition lock the row check,   *)
(* freeze_rules.lua and the SCHEDULED write.  A row never becomes DRAFT    *)
(* again, so a handler that reads the rules later is refused in any case.  *)

FreezeRead ==
  /\ freezer = NotFreezing
  /\ row = "DRAFT"
  /\ freezer' = [pc |-> "read", rules |-> dbRules]
  /\ UNCHANGED <<vars, tables, starting, canceller, patching, writer, faults>>

FreezeLocked ==
  /\ freezer.pc = "read"
  /\ \/ /\ row = "DRAFT"
        /\ FreezeRules(freezer.rules)
        /\ freezer' = [freezer EXCEPT !.pc = "frozen"]
     \/ /\ row # "DRAFT" \/ status # "NONE"
        /\ freezer' = NotFreezing
        /\ UNCHANGED vars
  /\ UNCHANGED <<tables, starting, canceller, patching, writer, faults>>

FreezeProject ==
  /\ freezer.pc = "frozen"
  /\ UpdateAuctionStatus("SCHEDULED")
  /\ freezer' = NotFreezing
  /\ UNCHANGED <<vars, dbRules, events, chained, order, ledger,
                 starting, canceller, patching, writer, faults>>

\* handleStart: start_auction.lua, then UpdateAuctionStatus(LIVE).
HandleStart(d) ==
  /\ StartAuction(d)
  /\ starting' = TRUE
  /\ UNCHANGED <<tables, freezer, canceller, patching, writer, faults>>

StartProject ==
  /\ starting
  /\ UpdateAuctionStatus("LIVE")
  /\ starting' = FALSE
  /\ UNCHANGED <<vars, dbRules, events, chained, order, ledger,
                 freezer, canceller, patching, writer, faults>>

(* handleCancel.  A DRAFT is cancelled in MySQL alone, under the lock and  *)
(* only if there is no Redis state; everything else goes to the script.    *)

CancelRead ==
  /\ canceller = "none"
  /\ row \notin RowTerminal
  /\ canceller' = IF row = "DRAFT" THEN "lock" ELSE "lua"
  /\ UNCHANGED <<vars, tables, freezer, starting, patching, writer, faults>>

\* Redis state under a DRAFT row means a freeze whose status write was lost.
CancelLocked ==
  /\ canceller = "lock"
  /\ TransitionLockFree
  /\ \/ /\ row \in RowTerminal
        /\ canceller' = "none"
        /\ UNCHANGED row
     \/ /\ row \notin RowTerminal
        /\ row # "DRAFT" \/ status # "NONE"
        /\ canceller' = "lua"
        /\ UNCHANGED row
     \/ /\ row = "DRAFT" /\ status = "NONE"
        /\ UpdateAuctionStatusIf("CANCELLED", "DRAFT")
        /\ canceller' = IF row' = "CANCELLED" THEN "none" ELSE "lua"
  /\ UNCHANGED <<vars, dbRules, events, chained, order, ledger,
                 freezer, starting, patching, writer, faults>>

CancelLua ==
  /\ canceller = "lua"
  /\ \/ /\ CancelAuction(Seller)
        /\ canceller' = "project"
     \/ /\ CancelCode(Seller) # "OK_CANCELLED"
        /\ canceller' = "none"
        /\ UNCHANGED vars
  /\ UNCHANGED <<tables, freezer, starting, patching, writer, faults>>

CancelProject ==
  /\ canceller = "project"
  /\ UpdateAuctionStatus("CANCELLED")
  /\ canceller' = "none"
  /\ UNCHANGED <<vars, dbRules, events, chained, order, ledger,
                 freezer, starting, patching, writer, faults>>

\* handlePatchAuction: the row is checked, the rules are stored later.
PatchRead(r) ==
  /\ patching = NoRules
  /\ row \in {"DRAFT", "SCHEDULED"}
  /\ patching' = r
  /\ UNCHANGED <<vars, tables, freezer, starting, canceller, writer, faults>>

UpdateRules ==
  /\ patching # NoRules
  /\ dbRules' = patching
  /\ patching' = NoRules
  /\ UNCHANGED <<vars, row, events, chained, order, ledger,
                 freezer, starting, canceller, writer, faults>>

\* GetOrder finds an order, and it is u's.
OwnOrder(u) == order # NoOrder /\ order.buyer = u

\* UPDATE ... WHERE status = 'created': paying twice is a no-op.
PayOrder ==
  order' = IF order.status = "created" THEN [order EXCEPT !.status = "paid"] ELSE order

\* handlePayOrder; an order keeps its buyer, so the check holds at the update.
HandlePayOrder(u) ==
  /\ OwnOrder(u)
  /\ PayOrder
  /\ UNCHANGED <<vars, row, dbRules, events, chained, ledger,
                 handlers, writer, faults>>

-----------------------------------------------------------------------------
(* runPersistenceWorker: project(aid), event by event.  A statement that   *)
(* fails leaves the cursor, so the next sweep reads from that event again. *)

Move(w, pc) == writer' = [writer EXCEPT ![w].pc = pc]

\* On to the next event of the batch, or the end of the pass.
Advance(w) ==
  LET c == writer[w].cursor + 1 IN
  writer' = [writer EXCEPT ![w] =
    [pc |-> IF c < writer[w].upto THEN "insert" ELSE "idle",
     cursor |-> c, upto |-> IF c < writer[w].upto THEN writer[w].upto ELSE 0,
     seen |-> "DRAFT"]]

\* Mutation of GiveUp: the cursor moves past the event that failed.
GiveUp_Skips(w) == Advance(w)

GiveUp(w) == writer' = [writer EXCEPT ![w] = [Restarted EXCEPT !.cursor = writer[w].cursor]]

NextSeq(w) == writer[w].cursor + 1
Projected(w) == stream[NextSeq(w)]

\* A sweep or a Pub/Sub hint: ReadEventsAfter the cursor.
ReadEventsAfter(w) ==
  /\ writer[w].pc = "idle"
  /\ writer[w].cursor < Len(stream)
  /\ writer' = [writer EXCEPT ![w].pc = "insert", ![w].upto = Len(stream)]
  /\ UNCHANGED <<vars, tables, handlers, faults>>

\* Mutation of InsertEvent: a row that exists is taken to be chained.
InsertEvent_SkipsHash(w) ==
  /\ writer[w].pc = "insert"
  /\ events' = events \cup {NextSeq(w)}
  /\ IF NextSeq(w) \in events /\ Projected(w).type = "AUCTION_SOLD"
     THEN Move(w, "get") ELSE Move(w, "hash")
  /\ UNCHANGED <<vars, row, dbRules, chained, order, ledger, handlers, faults>>

\* INSERT IGNORE on UNIQUE(auction_id, seq).
InsertEvent(w) ==
  /\ writer[w].pc = "insert"
  /\ events' = events \cup {NextSeq(w)}
  /\ Move(w, "hash")
  /\ UNCHANGED <<vars, row, dbRules, chained, order, ledger, handlers, faults>>

\* fillEventHash links to the immediately preceding, already chained row.
CanChain(n) == n = 1 \/ n - 1 \in chained

\* Where the projection of an event goes once it is in the log.
AfterHash(w) ==
  CASE Projected(w).type = "AUCTION_SOLD"    -> Move(w, "get")
    [] Projected(w).type = "ALL_PAY_FORFEIT" -> Move(w, "forfeit")
    [] Projected(w).type \in {"AUCTION_NO_BID", "AUCTION_CANCELLED"} -> Move(w, "status")
    [] OTHER -> Advance(w)

FillEventHash(w) ==
  /\ writer[w].pc = "hash"
  /\ IF NextSeq(w) \in chained \/ CanChain(NextSeq(w))
     THEN chained' = chained \cup {NextSeq(w)} /\ AfterHash(w)
     ELSE UNCHANGED chained /\ GiveUp(w)
  /\ UNCHANGED <<vars, row, dbRules, events, order, ledger, handlers, faults>>

TerminalStatus(type) == IF type = "AUCTION_NO_BID" THEN "NO_BID" ELSE "CANCELLED"

ProjectStatus(w) ==
  /\ writer[w].pc = "status"
  /\ UpdateAuctionStatus(TerminalStatus(Projected(w).type))
  /\ Advance(w)
  /\ UNCHANGED <<vars, dbRules, events, chained, order, ledger, handlers, faults>>

\* Mutation of Debit: rows are keyed by a fresh number, not by the event's seq.
Debit_FreshKey(w, reason) ==
  /\ ledger' = ledger \cup {[user |-> Projected(w).user, coins |-> Projected(w).amount,
                             seq |-> Cardinality(ledger), reason |-> reason]}
  /\ Advance(w)
  /\ UNCHANGED <<vars, row, dbRules, events, chained, order, handlers, faults>>

\* INSERT IGNORE on UNIQUE(auction_id, user_id, seq).
Debit(w, reason) ==
  /\ ledger' = ledger \cup {[user |-> Projected(w).user, coins |-> Projected(w).amount,
                             seq |-> NextSeq(w), reason |-> reason]}
  /\ Advance(w)
  /\ UNCHANGED <<vars, row, dbRules, events, chained, order, handlers, faults>>

ProjectAllPayForfeit(w) ==
  /\ writer[w].pc = "forfeit"
  /\ Debit(w, "RUNNER_UP_FORFEIT")

(* projectSold: GetAuction, the SOLD write unless the order exists, then   *)
(* GetRules decides between the ledger and an order.                       *)

GetAuction(w) ==
  /\ writer[w].pc = "get"
  /\ writer' = [writer EXCEPT ![w].pc = "sold", ![w].seen = row]
  /\ UNCHANGED <<vars, tables, handlers, faults>>

SoldProject(w) ==
  /\ writer[w].pc = "sold"
  /\ IF writer[w].seen = "ORDER_CREATED" THEN UNCHANGED row
     ELSE UpdateAuctionStatus("SOLD")
  /\ Move(w, "rules")
  /\ UNCHANGED <<vars, dbRules, events, chained, order, ledger, handlers, faults>>

GetRules(w) ==
  /\ writer[w].pc = "rules"
  /\ Move(w, IF dbRules.mode = "ALL_PAY" THEN "win" ELSE "order")
  /\ UNCHANGED <<vars, tables, handlers, faults>>

ProjectAllPayWin(w) ==
  /\ writer[w].pc = "win"
  /\ Debit(w, "WIN")

\* Mutation of CreateOrderFromSold: an upsert instead of INSERT IGNORE.
CreateOrderFromSold_Upsert(w) ==
  /\ writer[w].pc = "order"
  /\ order' = [buyer |-> Projected(w).user, amount |-> Projected(w).amount,
               status |-> "created"]
  /\ Move(w, "ordered")
  /\ UNCHANGED <<vars, row, dbRules, events, chained, ledger, handlers, faults>>

\* INSERT IGNORE; an order that is already there must be the same and unpaid,
\* or the event is poison and the cursor moves past it.
CreateOrderFromSold(w) ==
  LET new == [buyer |-> Projected(w).user, amount |-> Projected(w).amount,
              status |-> "created"] IN
  /\ writer[w].pc = "order"
  /\ \/ /\ order = NoOrder
        /\ order' = new
        /\ Move(w, "ordered")
     \/ /\ order = new
        /\ Move(w, "ordered")
        /\ UNCHANGED order
     \/ /\ order \notin {NoOrder, new}
        /\ Advance(w)
        /\ UNCHANGED order
  /\ UNCHANGED <<vars, row, dbRules, events, chained, ledger, handlers, faults>>

OrderProject(w) ==
  /\ writer[w].pc = "ordered"
  /\ UpdateAuctionStatus("ORDER_CREATED")
  /\ Advance(w)
  /\ UNCHANGED <<vars, dbRules, events, chained, order, ledger, handlers, faults>>

-----------------------------------------------------------------------------
(* The evidence card.                                                      *)

\* What the card says of an auction whose row has this status, given the
\* projected events (seqs) and the order.
EvidenceSummary(mysqlStatus, timeline, o) ==
  LET Newest(ns) == Max(ns \cup {0})
      prices == {n \in timeline : stream[n].type \in {"BID_ACCEPTED", "AUCTION_SOLD"}}
      priced == Newest(prices)
      named  == Newest({n \in prices : stream[n].user # NoUser})
      ended  == Newest({n \in timeline : stream[n].type \in TerminalTypes})
      end    == IF ended = 0 THEN "none" ELSE stream[ended].type
  IN CASE o # NoOrder ->
            [status |-> "ORDER_CREATED", price |-> o.amount, winner |-> o.buyer]
       [] o = NoOrder /\ end = "AUCTION_CANCELLED" ->
            [status |-> "CANCELLED", price |-> 0, winner |-> NoUser]
       [] OTHER ->
            [status |-> CASE end = "AUCTION_SOLD"   -> "SOLD"
                          [] end = "AUCTION_NO_BID" -> "NO_BID"
                          [] OTHER                  -> mysqlStatus,
             price  |-> IF priced = 0 THEN 0 ELSE stream[priced].amount,
             winner |-> IF named = 0 THEN NoUser ELSE stream[named].user]

-----------------------------------------------------------------------------
(* Faults.                                                                 *)

Faulty == faults < MaxFaults /\ faults' = faults + 1

\* A handler's status write fails, or its process dies, after the script.
ProjectionFails ==
  /\ Faulty
  /\ \/ /\ freezer.pc = "frozen"
        /\ freezer' = NotFreezing
        /\ UNCHANGED <<starting, canceller>>
     \/ /\ starting
        /\ starting' = FALSE
        /\ UNCHANGED <<freezer, canceller>>
     \/ /\ canceller = "project"
        /\ canceller' = "none"
        /\ UNCHANGED <<freezer, starting>>
  /\ UNCHANGED <<vars, tables, patching, writer>>

\* A statement fails and the pass is abandoned; the mode read is the one whose
\* error is not looked at.
StatementFails(w) ==
  /\ Faulty
  /\ writer[w].pc # "idle"
  /\ IF writer[w].pc = "rules" THEN Move(w, "order") ELSE GiveUp(w)
  /\ UNCHANGED <<vars, tables, handlers>>

\* The cursor is in memory.
WriterRestarts(w) ==
  /\ Faulty
  /\ writer[w] # Restarted
  /\ writer' = [writer EXCEPT ![w] = Restarted]
  /\ UNCHANGED <<vars, tables, handlers>>

-----------------------------------------------------------------------------
Project(w) ==
  \/ ReadEventsAfter(w) \/ InsertEvent(w) \/ FillEventHash(w)
  \/ ProjectStatus(w) \/ ProjectAllPayForfeit(w)
  \/ GetAuction(w) \/ SoldProject(w) \/ GetRules(w) \/ ProjectAllPayWin(w)
  \/ CreateOrderFromSold(w) \/ OrderProject(w)

SNext ==
  \/ FreezeRead \/ FreezeLocked \/ FreezeProject
  \/ \E d \in Durations : HandleStart(d)
  \/ StartProject
  \/ CancelRead \/ CancelLocked \/ CancelLua \/ CancelProject
  \/ \E r \in Patches : PatchRead(r)
  \/ UpdateRules
  \/ \E u \in Users : HandlePayOrder(u)
  \/ ProjectionFails
  \/ \E u \in Users, r \in Reqs, a \in BidAmounts : Bid(u, r, a) /\ UNCHANGED sqlVars
  \/ CloseAuctionDetailed /\ UNCHANGED sqlVars
  \/ Tick /\ UNCHANGED sqlVars
  \/ \E w \in Writers : Project(w) \/ StatementFails(w) \/ WriterRestarts(w)

(* The sweep ticker makes every worker come back to a Stream it has not    *)
(* finished; a statement is answered, or fails and is counted as a fault.  *)
SSpec == SInit /\ [][SNext]_svars /\ \A w \in Writers : WF_svars(Project(w))

-----------------------------------------------------------------------------
\* Money and record follow the hammer.  An order exists only for an auction
\* that Redis sold, names its winner and its price, and was created after the
\* complete evidence of the sale was chained; an evidence card that reports an
\* end reports the one that happened - whatever restarts, failed statements,
\* late status writes and second workers did in between.
RecordsMatchSale ==
  LET card == EvidenceSummary(row, events, order) IN
  /\ order # NoOrder =>
       /\ status = "SOLD"
       /\ order.buyer = winner /\ order.amount = price
       /\ chained = 1 .. Len(stream)
  /\ card.status \in {"SOLD", "ORDER_CREATED"} =>
       status = "SOLD" /\ card.winner = winner /\ card.price = price
  /\ card.status = "CANCELLED" => status \in {"NONE", "CANCELLED"}
  /\ card.status = "NO_BID" => status = "NO_BID"

\* The coin ledger holds at most the winner's debit, for the sale's price, and
\* the runner-up's, for what they bid, each once however often the events are
\* projected and whatever mode a PATCH has left in the row.
LedgerMatchesSale ==
  /\ \A d \in ledger :
       /\ status = "SOLD"
       /\ d.coins = IF d.reason = "WIN" THEN price ELSE leaderboard[d.user]
       /\ (d.reason = "WIN") = (d.user = winner)
  /\ \A d, e \in ledger : d.reason = e.reason => d = e

\* No re-projection, restart or second worker takes back a payment.
PaidStaysPaid == [][order.status = "paid" => UNCHANGED order]_svars

\* Once the Stream stops growing, the log holds all of it, chained without a
\* gap, and keeps it: no restart, failed statement or worker that ran ahead
\* leaves an event that nobody comes back to.
EvidenceCatchesUp == <>[](chained = 1 .. Len(stream))

\* Every sale is eventually settled, by an order or by the winner's debit.
SaleSettles == status = "SOLD" ~> (order # NoOrder \/ \E d \in ledger : d.reason = "WIN")

\* projectSold's money-safety gate: an ALL_PAY auction never has an order.
NoOrderForAllPay == rules.mode = "ALL_PAY" => order = NoOrder

=============================================================================
