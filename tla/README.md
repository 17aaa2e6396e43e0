# Verification of the live-auction system

TLA+ specifications, model-checking instances and machine-checked proofs for the
auction service `apps/lumen` of the live-auction system and the price advisor of
`apps/ai-sidecar`. The reference is the code; paths below are relative to
`apps/lumen/internal/` unless they start with `apps/`.

## 1. The system

### Components, their state and operations

| Component | State | Operations | Interacts through |
|---|---|---|---|
| Redis adjudication core (`lua/*.lua`, `store/store.go`) | state Hash, leaderboard ZSET, private sealed ZSET, event Stream, per-user dedupe Hash | freeze, start, place bid (plain, hybrid, sealed), close (plain, sealed, all-pay), cancel: nine Lua scripts, each atomic | called by handlers, gateway and Timer; every accepted change is an entry of the Stream and a Pub/Sub hint |
| Timer Worker (`server/timer.go`) | none of its own; the global ZSET `auction:active` | scan for due auctions (100 ms), close, refresh or remove the index entry, reconcile (5 s) | Redis commands, one at a time |
| Persistence Worker (`server/persistence.go`, `store/storedb.go`) | a cursor in memory; MySQL tables `auction_events`, `auctions`, `orders`, `coin_ledger` | project each Stream entry: insert, chain the hash, write the outcome, create the order or debit coins | reads the Stream, writes MySQL; several processes may run one |
| Auction REST handlers (`server/api.go`, `server/mode.go`) | rows in MySQL | create, patch, freeze, start, cancel, pay, delete, bid, list, leaderboard, evidence card, spawn-formal | scripts, then MySQL; an advisory lock guards freeze and DRAFT cancel only |
| WebSocket gateway (`server/ws*.go`, `seqguard/`, `store/store_singleflight.go`) | rooms, cached room state, a cursor per room, three lanes per socket | join with snapshot and catch-up, fan-out, patches, direct acks, fast reject, choice of the bid script | Pub/Sub hints, Stream reads and the scripts |
| Evidence (`store/storedb.go`, `server/verify*.go`) | hash chain over `auction_events`, a verified-prefix cache | chain, verify, evidence card, delete | MySQL and the Stream |
| Simulated crowd (`server/crowd.go`) | one run per auction | start, stop, snapshot and bid, statistics | the ordinary bid script |
| Auctioneer (`server/auctioneer.go`) | debounce maps, calls in flight | open, surge, cold, hammer; sidecar call, guardrail, canned fallback | fan-out, Timer's reconcile pass, `handleStart` |
| Formal auctions, price advice (`server/api.go`, `apps/ai-sidecar/internal/advisor`) | rows of child auctions | recommend a floor from a sealed phase, spawn-formal, advise a price | Stream, MySQL |
| Social frames, sidecar listing and vision, web clients, tools | none that decides an auction | – | – |

### What is hard

* The two stores share no transaction: a script commits, and a MySQL or index
  write follows, which may be delayed, fail, or be lost with its process.
* Bids, the hammer, a cap-hit sale and a cancel race at the deadline, and
  anti-snipe moves the deadline meanwhile.
* Timer and Persistence Workers run in several processes, restart, and lose the
  cursor they keep in memory.
* Clients retry; a retry may arrive after the auction has moved on.
* The gateway decides from copies: a cached room state, a mode learned at join,
  a snapshot shared by joins, a member list snapshotted before a fan-out.
* Sockets are slow, lanes are bounded, Pub/Sub hints get lost, and the socket's
  own ack takes a faster way than the broadcast.
* In the sealed and hybrid modes what an observer may see depends on the order
  of bids.

### What makes each component correct

* Core: a gap-free log in lockstep with the state, one outcome, announced once
  and last; bids strictly before the final deadline and the hammer not before
  it; retries replay the original answer; prices climb by the increment or reach
  the cap; extensions bounded; sealed amounts invisible until the sale; the
  price rule of each mode.
* Timer: no live auction is forgotten, none is indexed too late, finished ones
  leave the index.
* Settlement: an order, a debit or an evidence card only for the sale that
  happened, money once and after the evidence is complete; payments are not
  undone; every sale is settled and every event ends up in the chain.
* Gateway: a member sees every event in order or is disconnected and so told to
  come back; the end always arrives; no acceptable bid is rejected by a stale
  cache; public reads hide what the mode hides.
* Evidence: no hash across a gap, no event passed over by a worker's cursor before
  it is chained; a verdict was true during the call it answers.
* Crowd, auctioneer, advice: bots never buy, extend or outlive an auction; a sale
  is announced in a room that keeps a connection, nothing unfit is; retries of
  spawn-formal agree up to the second in which a formal auction was created; advice
  can be taken as it is.

## 2. Modules

| Module | Models | Composes |
|---|---|---|
| `AuctionOutcome` | what an auction promises: it ends once, sells exactly when a bid was accepted, to a highest bidder who is not the seller, at a price between the best losing bid and the winner's own | – |
| `AuctionEngine` | the nine scripts over the Redis keys of one auction | implements `AuctionOutcome` |
| `HammerTimer` | the Timer Workers and the active index | extends `AuctionEngine` |
| `Settlement` | REST handlers around the scripts, Persistence Workers, MySQL, the evidence card | extends `AuctionEngine` |
| `BidRouting` | the gateway's cached room state, choice of script, fast reject, HTTP bid, leaderboard and list | extends `AuctionEngine` |
| `RoomDelivery` | from the Stream to a client: join, catch-up, fan-out, lanes, write pump, seq guard | takes the gap-free log that `AuctionEngine` shows |
| `Evidence` | chaining, verification and its cache, deletion | the same log |
| `Crowd` | the demo crowd and the handlers that start and stop it | extends `AuctionEngine` |
| `Commentary` | the auctioneer hooks, sidecar calls and their fallbacks | extends `AuctionEngine` |
| `Formal` | floor from a sealed phase, spawn-formal, the sidecar's advice | extends `AuctionEngine` |
| `AuctionEngine_proofs`, `HammerTimer_proofs`, `BidRouting_proofs`, `Settlement_proofs`, `Crowd_proofs`, `RoomDelivery_proofs`, `Evidence_proofs`, `Sidecar_proofs` | theorems | extend the module they are named after, `Sidecar_proofs` the two that face the AI sidecar, `Commentary` and `Formal`; all but `RoomDelivery_proofs` and `Evidence_proofs` build on `AuctionEngine_proofs` |
| `MC_*` | rule sets and instances | extend the modules they check |

**AuctionEngine.** A script is one action, because Redis runs it atomically.
Its guards are an operator (`AdmissionCode`, `AscendingCode`, `SealedCode`,
`CloseCode`, `CancelCode`) that yields the code the script answers, in the
script's order; a script that answers an error or `DUPLICATE` changes nothing.
The plain and the hybrid script share one adjudication and differ in the payload
they show the room. Auctions share no key, so one auction is modelled. Time is
Redis TIME in whole units (`Tick`, external). User ids are numbers whose order
stands for the byte order that breaks ties in a ZSET. A display name is
represented by its user. A ZSET is a function from users to scores with 0 for
absent, which is exact because accepted amounts are positive.

`PREQUALIFY` passes `ValidMode` but has no engine; the store and the gateway run
such an auction as a plain one, and so does the model.

Which script a bid reaches is the gateway's choice. The core's `Bid` takes the
script of the frozen mode; `BidRouting` lifts this assumption, and
`RoutedAsFrozen` says exactly when it fails: a handler that never learned the
mode. Outside that case what is shown about the core holds behind a gateway.

Left out of the core: `paused` (no code sets it to `true`), the type guards on
keys (only a writer outside the scripts can trip them), `ensure_dedupe_ttl` (a
dedupe Hash always has its TTL, set by the same script that creates it).

**HammerTimer.** Every Redis command of a worker or handler is an action; a
worker's program counter and the one value it holds are `timer[w]`. Commands may
fail (`TrackFails`, `UntrackFails`, `TimerCommandFails`), a worker may die and
start again with the initial reconcile pass (`TimerRestarts`). The `ERR_INTERNAL`
branch of `closeDue` with its suppression window is left out: theorem
`TimerKeepsLog` shows the mismatch that leads there is unreachable.

**Settlement.** Every script call and every SQL statement is an action. Handlers:
freeze (rules read before the lock, then lock, script, status write), start,
cancel (row check, DRAFT path under the lock, script, status write), patch (check
and later store), pay. Creating an auction is the initial state: the stored rules
are those `NormalizeRules` of the mode produces. A Persistence Worker has a cursor
and a batch; `Advance` moves past an event, `GiveUp` abandons the pass and leaves
the cursor. A status write after a script may fail (`ProjectionFails`), a
projection statement may fail (`StatementFails`), a worker may restart with an
empty cursor (`WriterRestarts`). Of the auctions row only `status` is kept. One
freeze, one cancel and one patch handler are in flight at a time.
`EvidenceSummary` is the outcome part of the evidence card, computed from the row
and the events projected so far.

**BidRouting.** A handler holds no lock across its Redis calls: each call is an
action, and `task[h]` holds what was read before it. The cache is written by the
fan-out (`FanoutEvent`) and by the late `SetMode` of a join; a restart empties
it and replays the Stream. The gateway's clock may lag Redis by less than the
expiry margin (`Skews`). `GET /leaderboard` reads the rows and then the state that
decides what is shown of them (`LeaderboardGate`); when this second read fails the
rows go out as they are (`LeaderboardUngated`).

**RoomDelivery.** Payloads are left out except for the event type. The subscribe
goroutine, the write pumps, the handlers and the shared `Snapshot` call are
separate actors; frames of a socket pass through its two must-deliver lanes and, while
a join is in progress, through `pend`. A broadcast works on the member list taken when
it began; the epoch check is modelled by dropping a socket from the targets when
it leaves or joins. A full must-deliver lane closes the socket. A frame that was
written reaches the client in order or the socket dies: the coalescing buffer
below the write pump (`ws_coalesce.go`) keeps the order and is not modelled.

**Evidence.** One action is one SQL statement, one transaction or one Stream read.
The HMAC is symbolic and injective: a hash is the sequence of the rows it covers.
The only key source of the repository has one key version, so keys are constant.
`Edit` and `Remove` are an operator's changes behind the program's back;
`Removals` says when rows may be removed.

**Crowd.** The crowd's decision and its bid are two steps, at most `CallLatency`
apart: both Redis calls time out after `redisUnavailableTimeout` (1 s, no retries,
`store/store.go:47,114`), well below `crowdQuietExtraMs` (8 s). The rules it uses
are those of the MySQL row, which a PATCH may change. A reply may be lost
(`MaxLost`). Likes, chat lines and viewer curves are left out.

**Commentary.** A sidecar call is an element of `firing` and ends with any reply,
or with its timeout. A text is what the guardrails tell apart (clean, empty,
caught). The fan-out's cursor is a local: after a panic of its goroutine or a
restart of the process it has no entry for the room. Without affinity it then
replays the Stream from its first event; with affinity it does nothing while the
room has no connection (`hosted`) and is seeded with the current seq when it first
has one (`Seed`; a failed seeding read replays). `began` is where the run of the
fan-out in progress began. A panic leaves hooks, calls and connections in place, a
restart of the process forgets them. Hints reach a room whether or not it has a
connection, the sweep only rooms that have one.

**Formal.** The parent is the auction of `AuctionEngine`; a child is its rules, the
second of its `created_at`, its link and whether its row is still there. The three
database calls of spawn-formal are three actions of a request. `created_at` is
the clock of the process that serves the request, cut to whole seconds by the
column, so `CreateChild` may stamp any second, earlier ones included, and of the
children that tie in the oldest second the lookup may return any. A child that has
ended may be deleted (`DeleteChild`), also between its insert and its link; an
UPDATE that meets no row is not noticed. The mode that admits the recommendation is
the row's, which a PATCH may have changed (`PatchedModes`). A reply counts as given
at its lookup. `settled` and `reply` are history: the child of the first reply given
while no other request was between lookup and link, and that of the last reply
since; the deletion of the settled child begins the history anew. Deleting the parent
only makes further requests fail and is left out. The backend's recommendation and the sidecar's advice are operators over the
revealed bids, translated separately from the two implementations.

## 3. Runs

| Run | Instance | Shows |
|---|---|---|
| `engine` | 2 buyers and the seller, 2 request ids, 6 amounts incl. 0 and above the cap, all seven modes | `TypeOK`, `StreamLockstep`, `TerminalEventLast`, `HammerSeparatesBids`, `AcksAreBacked`, `AcksAreKept`, `PriceLadder`, `ExtensionsBounded`, `SealedSecrecy`, `TerminalIsFinal`, refinement of `AuctionOutcome` |
| `hammer_timer` | 2 workers, 1 fault, an auction that extends | `IndexNeverLate`, `HammerFalls`, `IndexDrains`, no deadlock |
| `settlement_workers` | 2 workers, 1 fault, English | `RecordsMatchSale`, `PaidStaysPaid`, `EvidenceCatchesUp` |
| `settlement_patched` | 1 worker, 1 fault, English and all-pay with 2 buyers, patches | `LedgerMatchesSale`, `SaleSettles` |
| `room` | one client and any number of others, lanes of 2, 3 events, 2 joins, 1 fault | `NoSilentLoss`, `NoGap`, `NeverRegresses`, `EndIsDelivered` |
| `bid_routing` | 2 buyers, 1 request in flight, a plain, a hybrid and a sealed auction | `CacheNeverAhead`, `FastRejectAgrees`, `RoutedAsFrozen`, `StandingsStayHidden` |
| `evidence` | 1 worker, 1 reader, 2 events, 1 restart or edit or removal, a delete | `ChainHasNoGap`, `VerdictIsHonest`, `GreenMeansProjected`, `NothingSkipped` |
| `crowd` | 2 bots and a human, an auction with cap and anti-snipe and a sealed one, patches, 1 lost reply | `CrowdBoundaries`, `CrowdEnds` |
| `commentary` | 1 buyer, 2 bids, a room that empties and fills, affinity on and off, 1 restart of fan-out or process | `CommentaryIsFit`, `NoColdAfterEnd`, `HammerAired` |
| `formal` | 4 sealed bidders with ties and an outlier, 2 racing requests, 2 children in 2 seconds, deletions | `SealedPayment`, `FloorIsMet`, `AdviceIsUsable`, `RetriesAgree` |
| `sealed_routing`, `allpay_patch` | smallest instances | each refutes one sentence of the repository, see below |

Each property is stated in words above its definition.

**Bounds.** `MaxTime` stops the clock late enough for the deadline, one extension
of it and the hammer after it; in `engine` and `commentary`, `DedupeTTL` is short
enough for the dedupe Hash to expire within it. `MaxSeq` stops bids once the Stream is that long: in `engine`
enough for two bids that extend and a third, or for three sealed bids and a raise.
`MaxMoney` lies just above the largest cap so that every amount check has both
outcomes. `MaxFaults`, `MaxCrashes`, `MaxRestarts`, `MaxLost` count failures of
one behaviour; one suffices to separate any two statements, and the two-worker
instances repeat every projection even without it. In the proofs these bounds
are arbitrary naturals.

* `room`: lanes of 2 fill with one frame waiting behind another, and a gap of 2
  exceeds `CatchupMaxGap`, so replay, skipped replay and overflow all happen
  within 3 events. Two joins are needed for the re-join during a fan-out. One
  client suffices because clients meet only in the shared `Snapshot`, the viewer
  count and the order of service, which the module leaves open. With affinity on,
  a cursor seeded at 0 behaves as without affinity. `MaxLag` is 0: a read that
  someone else's call made earlier is still met, in the gateway's own seeding call.
* `bid_routing`: one request at a time next to the auction that goes on by itself;
  handlers share only the cache, which the fan-out writes in between anyway.
* `evidence`: one worker races the deleter, the verifier and the operator, and one
  fault (a restart, an edit or a removal) happens. Any number of workers is covered
  by the theorems (`ChainIsGapFree`, `CursorsPassChained`), and that two of them
  chain everything in the end by `EvidenceCatchesUp` in `settlement_workers`. Rows are
  removed only while no verification runs, see below.
* `crowd`: an auction that starts at 0 ends and is extended within the clock.
* `crowd`: acks outlive the clock; their expiry is a matter of `engine`.
* `commentary`: two bids of one buyer at different times, because an ack has
  expired by then; a cold call needs both units of the clock.
* `formal`: the outlier rule (13/10 of the second bid) makes a difference from
  four bids on; the two requests are interchangeable, hence the symmetry.
  `MaxChildren` counts formal auctions created, deleted ones included: two can race,
  tie or not, be linked in either order and be deleted in either order.

Deadlock is checked in `hammer_timer`, whose workers scan for ever. Elsewhere a
finished auction whose events are handled has nothing left to do.

**Fairness.** No fairness is assumed of clients, sellers, buyers, operators,
hints, faults or of what the sidecar answers.

* `HammerTimer`: the clock advances; a worker that sent a command gets an answer
  or an error and is restarted by `goSupervised` (weak fairness); in the `select`
  the scan and reconcile tickers keep one tick buffered and Go picks among ready
  cases at random, so neither is passed over for ever (strong fairness on
  `RedisNowMs` and `ReconcileActive`).
* `Settlement`: the sweep ticker brings each worker back to an unfinished Stream.
* `RoomDelivery`: the 2 s ticker fires, goroutines run, Redis answers.
* `Commentary`: the 2 s ticker sweeps the rooms with a connection, and nothing is owed
  to the others; a call ends at its timeout at the latest.
* `Crowd`: a handler that has begun goes on, the goroutine is scheduled, its calls
  return.
* `BidRouting`, `Evidence` and `Formal` state safety only and need none.

### Disagreements between the code and what the repository says

Shown by a run:

1. `sealed_routing`: a bid that reaches the gateway while it does not know the
   mode is run by `place_bid.lua`, which publishes its amount
   (`server/ws.go:1650`, against `lua/place_bid_sealed.lua:4`). The mode is unknown
   to a socket that joined before the freeze, or whose mode read failed.
2. `allpay_patch`: rules patched after the freeze change the mode settlement
   reads, not the mode the scripts ran (`server/api.go:848`, against
   `server/persistence.go:137`).

Met while modelling; the modules contain the behaviour, the properties are stated
so that it is not excluded:

* A hybrid leader who raises the own bid is named to the room, because "the prior
  leader" is the leader (`lua/place_bid_hybrid.lua:147`). `GET /auctions/{id}` and
  `ROOM_SNAPSHOT` return the Snapshot of a hybrid auction unmasked, while list and
  leaderboard hide price and leader.
* When the HMGET for status, mode and winner fails, `GET /leaderboard` returns the
  rows unfiltered (`store/store.go:873`), so the leader and the price of a live
  hybrid auction are shown; the comment above it wants the read to survive a partial
  failure. In a plain auction the rows are what the room was told anyway, and those
  of a sealed one are empty before the sale.
* `handleStart` writes LIVE unconditionally, also over a terminal status
  (`server/api.go:1000`, against `store/storedb.go:429`).
* A failed `GetRules` lets an all-pay sale fall through to `CreateOrderFromSold`
  (`server/persistence.go:141`).
* `PATCH` skips the mode's `NormalizeRules` (`server/api.go:875`, against
  `server/mode.go:46`).
* A paid order makes the re-projection of its sale a poison event
  (`store/storedb.go:1009`); the row can then stay at SOLD for good.
* Until the cancel event is projected, the evidence card of a cancelled auction
  can show the last bidder as its winner.
* A join that shares a Snapshot call read before it became a member can miss the
  events in between until the next frame (`store/store_singleflight.go:16` calls
  the sharing staleness-free). A gateway that seeds its cursor skips the events
  between a member's snapshot and the seed (`server/ws.go:530`). The delivery
  properties are stated for the other sockets.
* A row removed while a verification runs can leave a cache entry whose count does
  not fit the rows (`store/storedb.go:852`).
* A batch in a worker's memory re-creates event rows after `DeleteAuction`
  (`store/storedb.go:432`); `ChainHasNoGap` shows they are not chained.
* Crowd: after a PATCH of cap or mode the bots can reach the frozen cap or bid in
  a sealed auction; after a delete the run lives until its 2 h limit.
* Commentary: the open call uses the request's context and is cancelled when
  `handleStart` returns, though the comment at `server/auctioneer.go:250` calls it
  independent; after a restart the hammer is announced again (`proto/ai-events.md`:
  "Once per auction"), and the limits there (surge 30 s, cold 60 s) are not the
  code's (5 s, 30 s); a cold call in flight may be aired after the hammer.
* Commentary: in a room without a connection nobody is owed the dispatch of the sale
  (`server/ws.go:622`); with affinity a process restarted around the sale, or one
  that first hosts the room after it, seeds its cursor behind the sale
  (`server/ws.go:530`) and never announces it.
* Formal: `idx_auctions_parent` is not unique, so racing requests can create
  several children; a crash between create and link leaves an orphan. Children of
  the same second tie, because `auctions.created_at` is a plain `DATETIME`
  (`infra/mysql/init/01-schema.sql:38`) and the lookup has no second sort key
  (`store/storedb.go:197`): replies may then alternate between them. `SetParentAuction`
  ignores the number of rows it changed, so a reply can name a child that was
  deleted meanwhile.

## 4. Proofs

All for arbitrary `Users` (finite), rules that passed `Validate`, amounts,
durations, numbers of workers, handlers, readers, clients and bots, and bounds. The assumptions
are `UsersAssumption`, `RulesAssumption`, `BoundsAssumption`, `TimerAssumption`,
`RoutingAssumption`, `SettlementAssumption`, `CrowdAssumption`, `DeliveryAssumption`,
`EvidenceAssumption`, `CommentaryAssumption` and `FormalAssumption`; TLC evaluates them in the runs.

### The log (`AuctionEngine_proofs`)

* `TypeCorrect`. The only hard part is the sealed winner: `Top` is a `CHOOSE`,
  so its existence is needed (`TopIsBest`): among finitely many positive scores
  there is a greatest, and among its holders a greatest id, by well-founded
  descent over a bound minus the score (`LeastNatural`, `FirstRanked`).
* `CoreInvariant`: `CoreInv`, the conjunction of type, `StreamLockstep`,
  `TerminalEventLast`, `HammerSeparatesBids` and `Pristine` (an auction that is
  not yet LIVE has an empty log), is inductive. The parts need each other: the
  terminal event is last only because scripts refuse a non-LIVE status, its
  position is known only through the lockstep, and the deadline part needs
  `Pristine` when start sets the first deadline. `LogIsGapFree`,
  `LogEndsWithOutcome`, `HammerAfterBids` are its parts.
* `OutcomeIsFinal`: in a terminal status every code operator yields an error.
* `SealedBidsStaySecret`: from the core invariant, since the sale is the only
  step that copies an amount out of the private set.

### The bids (`AuctionEngine_proofs`)

Every step is an accepted ascending bid or appends entries of other types
(`Appends`, `Aside`); the invariants below are proved over these shapes.

* `PricesClimb`: `PriceLadder` needs `MoneyInv`: the rules are valid, an unfinished
  ascending auction is below its cap, the leader is the best of the leaderboard at
  the current price and the room was shown nothing higher, and sealed bids are
  only in sealed auctions and none is below the reserve.
* `ExtensionsAreBounded`: by `ExtensionInv` the counter is the number of
  `AUCTION_EXTENDED` entries and within the limit, each entry carries its count,
  the last one set the deadline in force, and every bid inside the window
  extended the auction, sold it or met the limit.
* `AcksStayBacked`: `AckInv` says that an ack in a dedupe Hash
  is the answer of an entry of the log. The hybrid clause (`ShownLate`) is the
  one that depends on the order of bids.
* `LiveAcksAreKept` (`AcksAreKept`) is an action property of its own: no step
  evicts, changes or shortens an ack that has not expired, so a retry is answered
  `DUPLICATE` with the original ack until then. With `TTLInv`, a later bid of the same
  user only prolongs it.
* `SealedSalesCharge`: the close scripts find the best and the second bid of the
  private set for any ties; the forfeit entry names the second best bidder.
* `ScriptsImplementOutcome`: each script is a step or a stutter of
  `AuctionOutcome`, under the refinement mapping of `AuctionEngine`. A user's
  offer is the greater of its entries in the leaderboard and the private set
  (`Offers`).

### The composition (`HammerTimer_proofs`, `BidRouting_proofs`, `Settlement_proofs`, `Crowd_proofs`)

* `TimerRefinesEngine`: every step of the composition is a step or a stutter of
  the core, so the core's invariants hold there; `IndexIsNeverLate` by an
  invariant over everything that may still be written to the index: the start
  handler's pending value and each worker's held time are at most the deadline,
  which only moves forward. `TimerKeepsLog` follows.
* `CopiesStayBehind`, `FastRejectsAgree`, `BidsAreRouted`, `StandingsAreHidden`. A
  gateway may run the plain script on a sealed auction, so `CoreInv` is not
  available; what is kept is `EngineInv` (type; valid rules, a price below the cap
  and a deadline when LIVE; no log entry ahead of the Hash). `GatewayInv` says of every copy - cache, join in
  progress, request in flight - that it is below the engine (`Copy`), and the
  engine only moves on (`MovesOn`), so a rejection computed from a copy stays
  right. Standings stay hidden because the board is read before the state that gates
  it: a state that is still LIVE vouches for it. An unfiltered board is harmless in a plain auction because every row on it
  is a bid of the Stream (`BoardInv`), and in a sealed one because it is empty.
* `SettlementRefinesEngine`: handlers, workers, faults and PATCHes add nothing to
  Redis; the frozen rules are ones that were stored valid (`StoredRules`).
* `LedgerFollowsSale`, `RecordsFollowSale`, `PaymentsAreFinal`: `SettleInv`. What a
  worker holds is a prefix of the log (`Prefixes`, `Working`); a sale is the last
  entry of the log, so a worker that reaches it has projected and chained every
  event before it. Row, order and ledger follow from the sale that the log
  announces (`SaleAnnounced`) and, for all-pay, from `SealedPayment`. By-product:
  inside the invariant the predecessor of an event is always chained, so a worker
  of this module never finds it unchained.

* `CrowdKeepsBounds`: `CrowdInv`. A bot's bid carries from its snapshot that the
  deadline is further away than window and quiet extra, and that the amount is
  below the cap (`BidInFlight`); deadlines only move on and the script runs within
  `CallLatency`, at most the quiet extra, so neither boundary is met when it is
  accepted. For the budget, bids in the log are at most the counted ones and the
  lost replies while the auction runs; the one that may sell is not counted but
  is the last. Neither holds of a crowd that came twice, which the handlers
  exclude (`CrowdComesOnce`). `HYBRID_REVEAL` is an exception the property names:
  after a PATCH to ENGLISH the bots can be in a hybrid auction, where a human's
  entry names the bot that led before, so the log does not count bids per bidder.
  `CSpec` is not shown to implement `Spec`: a plain bid in a sealed auction is
  no step of it.

### The room (`RoomDelivery_proofs`)

`SnapshotsNeverRegress`, `NoGapIsShown` and `NothingIsLostSilently` follow from one
invariant, `RoomInv`, for any number of clients and any lane capacity above
`CatchupMaxGap`. None of the three is inductive: each speaks of a moment (a snapshot
written, a lane drained, a quiet gateway), and what makes it true is spread over
both lanes, the barrier, the join in progress and the fan-out.

* `Pipeline`: what the fan-out has read, holds back in the patch and broadcasts is
  one run of events that ends at the cursor, and nothing of it exists before the
  cursor is seeded.
* `NoHole` says of a sound socket who owes it each event: applied, in the priority
  lane, brought by the join in progress (`JoinLevel`), in the broadcast lane or behind
  the barrier (`Queue`), or not yet out of the fan-out (`Passed`). No queued frame starts
  beyond what the frames before it cover (`Unbroken`), and neither will the next one
  (`Meets`). Every step only passes an event from one of them to the next: the
  lemmas about lanes (`QueueShrinks`, `PriorityShrinks`, `CoverageGrows`) say so once for all.
* `SnapshotsAdvance`: a snapshot that a socket will be handed is no older than
  anything it is shown before, because the read began after it became a member.
* `HealedBySnapshot`: a replay is followed by its snapshot, and a socket that was
  shown a gap still has a snapshot to come.
* `OthersUntouched`: a step of one socket leaves the others' lanes alone, so the
  proof is one lemma for each action and the socket it moves.

TLC checked `RoomInv` exhaustively with one client and by random simulation with
two before it was proved.

### The evidence (`Evidence_proofs`)

* `ChainIsGapFree`: with no edits, a row that has a hash has a good chain below it
  (`GapFree`); `fillEventHash` extends it by one row, an INSERT fills a hole no
  chained row lies above.
* `CursorsPassChained`: a cursor moves over an event only when its row is hashed
  (`SkipInv`), whichever worker inserted or hashed it, and a hashed row stays so until
  it is deleted.
* `VerdictsAreHonest`, under the hypothesis that rows are not removed one by one
  while a verification runs (`Removals # "any"`; see the disagreements above for
  what happens otherwise). A certificate - the cache row, the copy of it that a
  call builds on, or what a call has verified so far - says that rows 1..k which
  are all there and older than `at` are good (`Certified`). It outlives every
  write, because a write stamps `updated_at` with a time at or after `at`
  (`CertifiedStays`). The rest of `VerdictInv` is about its use: the rows of a
  running call stay or the auction was deleted (`Solid`), the count in the cache
  fits or its last row has been replaced (`Stale`), the head below the first row
  read is still the hash of that row or the row was seen missing (`HeadHolds`),
  and a call that took its statistics before another one wrote the cache has
  itself seen those rows good (`Meets`, `CacheMeets`).
* `GreenRunsAreProjected`: in addition, what a verify run found projected stays so
  until a `DeleteAuction` begins (`FloorInv`).

### The auctioneer and the formal auctions (`Sidecar_proofs`)

`AuctioneerRefinesEngine` and `FormalRefinesEngine`: both compositions take only
steps of the core, so its invariants hold there.

* `RoomHearsFitCommentary`, `EndedRoomIsNotCold`: `AuctioneerInv`. The properties
  speak of calls in flight and aired, the guards of debounce maps that a restart
  empties, so the invariant ties each call to the mark it leaves: within the life
  of a process the map is at or after the call, a hammer has its sale in the
  Stream, and behind the cursor too unless the fan-out restarted since
  (`CallsAreNoted`). Hence the next surge, cold or hammer cannot be too early.
  `StallIsYoung` is the race of the last property: a reconcile pass that still
  believes in LIVE began before the fan-out saw the end, and
  `CommentaryAssumption` says that a pass takes less than the suppression.
* `FloorsAreMet`. The recommendation is read from the Stream, the property speaks
  of the leaderboard. `RevealPublished` (an invariant of the core) says that an
  `AUCTION_REVEALED` entry exists only when a sealed auction was sold and lists the
  leaderboard the close wrote, and `EndedStays` keeps both
  (`SummariesArePublished`). That a rank is taken and how many bidders reach it
  is `RankedIs`, `RankedFalls` and `RecommendationIs`, by finite sets.
* `AdviceStaysUsable`: advisor and backend compute the floor with different code,
  so it needs the order of maximum, second and median and their presence
  (`RecommendationIs`), and of the prices that none exceeds the clamp
  (`SanePricesAreValid`). `FormalAssumption` demands what the code's constants
  satisfy with room to spare (1e15 cents against 2^53 - 1): the clamp, a hundredth
  of it and one grid step are together at most `MaxMoney`.
* `RetriesConverge`: `SettledIsFirst`. The reply that settles named a linked child of
  the oldest second while nobody was between lookup and link. As long as that
  child is there every lookup finds one, so nobody enters that window again, no link
  is added, and the oldest second stays, whatever the clocks of the processes say.
  Deleting another child leaves the settled one among the oldest. An orphan, whose
  link was never written, is not in the way.

### Only model-checked

Liveness (`HammerFalls`, `IndexDrains`, `EvidenceCatchesUp`, `SaleSettles`,
`EndIsDelivered`, `CrowdEnds`, `HammerAired`): fairness is out
of the prover's reach. Every other property of a passing run is a theorem.

## 5. Not modelled

Parts of modelled components left out:

* Gateway: the admission cap (`tryReserveWS`), the write buffer of
  `ws_coalesce.go`, keepalive and idle timers.
* REST: product and stream endpoints, which decide nothing.
* Evidence: key versions, since the only key source has one.
* Advice: the numeric range of the sidecar (its ceiling lies below `MaxMoney`).

Left out for good: social frames (lossy, nothing else reads them), the sidecar's
listing and vision calls (stateless calls to models), web clients, load, chaos
and demo tools (drivers of the system above), login, uploads, metrics and
configuration.
