----------------------------- MODULE BidRouting -----------------------------
(***************************************************************************)
(* How one gateway gets a bid to the engine: the room state it caches from *)
(* the Stream it fans out, the WebSocket and the HTTP bid handlers that    *)
(* choose a script by the cached mode, the fast reject that answers        *)
(* without a script, and the reads that publish standings: the two-read    *)
(* leaderboard and the auction list.                                       *)
(*                                                                         *)
(* A handler holds no lock across its Redis calls, so every call is a step *)
(* of its own and what was read before it is a copy in the handler's task. *)
(* Several handlers run at once (one read loop per socket, one goroutine   *)
(* per HTTP request).  The cache is written by the fan-out and by setMode; *)
(* a restarted gateway starts cold and reads the Stream from its start     *)
(* (room affinity off).                                                    *)
(***************************************************************************)
EXTENDS AuctionEngine

CONSTANTS
  Handlers,      \* requests the gateway may be serving at the same time
  ExpiryMargin,  \* fastRejectExpiryMarginMs
  Skews          \* how far the gateway's clock may be behind Redis TIME

ASSUME RoutingAssumption ==
  /\ ExpiryMargin \in Nat
  /\ Skews \subseteq 0 .. ExpiryMargin

VARIABLES
  cache,     \* Hub.state[aid]: the room state the fan-out has seen
  dropping,  \* the fan-out is between markTerminalAndUpdate and dropRoomState
  cursor,    \* lastSeq[aid] of the fan-out
  joined,    \* some socket's ROOM_JOIN has been handled by this gateway
  task       \* what each request being served has read and what it does next

gatewayVars == <<cache, dropping, cursor, joined, task>>
rvars == <<vars, gatewayVars>>

\* An absent entry reads as the zero roomState: no price, no deadline, no mode.
Cold == [price |-> 0, endAt |-> 0, terminal |-> FALSE, mode |-> ""]

\* amount: the canonical amount; mode: the mode the script is chosen by; rs and
\* clock: what a fast reject is decided from, the copied room state and the
\* gateway's time; board: the rows the leaderboard read returned.
NoTask == [pc |-> "idle", user |-> NoUser, req |-> CHOOSE r \in Reqs : TRUE,
           amount |-> 0, rs |-> Cold, mode |-> "", clock |-> 0,
           board |-> NoScores]

RInit ==
  /\ Init
  /\ cache = Cold
  /\ dropping = FALSE
  /\ cursor = 0
  /\ joined = FALSE
  /\ task = [h \in Handlers |-> NoTask]

-----------------------------------------------------------------------------
(***************************************************************************)
(* The cache.                                                              *)
(***************************************************************************)

\* The price ratchet and the deadline ratchet; 0 stands for a missing field.
Ratchet(rs, p, end) ==
  [rs EXCEPT !.price = IF p > @ THEN p ELSE @,
             !.endAt = IF end > @ THEN end ELSE @]

\* What markTerminalAndUpdate leaves, in one critical section.
Marked(rs, p, end) == [Ratchet(rs, p, end) EXCEPT !.terminal = TRUE]

\* A BID_ACCEPTED payload with status SOLD: only a cap hit writes one.
CapHitEvent(e) ==
  e.type = "BID_ACCEPTED" /\ rules.cap > 0 /\ e.amount >= rules.cap

\* Events after which dropRoomState frees the entry.
Drops(e) == e.type \in TerminalTypes \/ CapHitEvent(e)

UpdatedFrom(rs, e) ==
  CASE e.type = "AUCTION_SOLD"      -> Marked(rs, e.amount, 0)
    [] e.type \in {"AUCTION_NO_BID", "AUCTION_CANCELLED"} -> Marked(rs, 0, 0)
    [] CapHitEvent(e)               -> Marked(rs, e.amount, e.endAt)
    [] e.type = "BID_ACCEPTED"      -> Ratchet(rs, e.amount, e.endAt)
    [] e.type = "AUCTION_EXTENDED"  -> Ratchet(rs, 0, e.endAt)
    [] e.type = "AUCTION_REVEALED"  -> Marked(rs, e.amount, 0)
    [] OTHER                        -> rs

\* The fan-out reads the next Stream entry and ratchets the cache from it.
FanoutEvent ==
  LET e == stream[cursor + 1] IN
  /\ ~dropping
  /\ cursor < Len(stream)
  /\ cache' = UpdatedFrom(cache, e)
  /\ dropping' = Drops(e)
  /\ cursor' = cursor + 1
  /\ UNCHANGED <<vars, joined, task>>

\* The second critical section of a terminal event.
DropRoomState ==
  /\ dropping
  /\ cache' = Cold
  /\ dropping' = FALSE
  /\ UNCHANGED <<vars, cursor, joined, task>>

\* setMode keeps what it has for "" and for ENGLISH.
WithMode(rs, m) == IF m \in {"", "ENGLISH"} THEN rs ELSE [rs EXCEPT !.mode = m]

\* Snapshot().Rules.Mode; "" while the Hash is absent and Rules is nil.
SnapshotMode == IF status = "NONE" THEN "" ELSE rules.mode

Becomes(h, t) == task' = [task EXCEPT ![h] = t]

\* ROOM_JOIN reads the snapshot; SetMode below caches what it read.
JoinRead(h) ==
  /\ task[h] = NoTask
  /\ Becomes(h, [NoTask EXCEPT !.pc = "joined", !.mode = SnapshotMode])
  /\ UNCHANGED <<vars, cache, dropping, cursor, joined>>

\* The read fails: the socket stays in the room, its mode unknown.
JoinFails(h) ==
  /\ task[h] = NoTask
  /\ joined' = TRUE
  /\ UNCHANGED <<vars, cache, dropping, cursor, task>>

SetMode(h) ==
  /\ cache' = WithMode(cache, task[h].mode)
  /\ \/ /\ task[h].pc = "joined"
        /\ joined' = TRUE
        /\ Becomes(h, NoTask)
     \/ /\ task[h].pc = "modeRead"
        /\ joined' = joined
        /\ Becomes(h, [task[h] EXCEPT !.pc = "script"])
  /\ UNCHANGED <<vars, dropping, cursor>>

GatewayRestart ==
  /\ cache' = Cold
  /\ dropping' = FALSE
  /\ cursor' = 0
  /\ joined' = FALSE
  /\ task' = [h \in Handlers |-> NoTask]
  /\ UNCHANGED vars

(***************************************************************************)
(* The bid handlers.  An amount that is not canonical is answered          *)
(* ERR_BAD_INPUT and goes no further.                                      *)
(***************************************************************************)

\* canonicalAmount: a positive integer of at most MaxMoneyCents.
Canonical(a) == 0 < a /\ a <= MaxMoney

\* Mutation of UsesSealedEngine: one sealed mode is forgotten in the switch.
UsesSealedEngine_NoVickrey(m) == m \in {"SEALED_FIRST", "ALL_PAY"}

UsesSealedEngine(m) == m \in Sealed
UsesHybridEngine(m) == m = "HYBRID_REVEAL"

\* Mutation of Doomed: the skew margin is dropped.
Doomed_NoMargin(rs, a, clock) ==
  /\ ~UsesSealedEngine(rs.mode)
  /\ rs.price > 0
  /\ ~rs.terminal
  /\ a <= rs.price
  /\ rs.endAt = 0 \/ clock < rs.endAt

\* The cached state alone says the bid is too low, well before the deadline.
Doomed(rs, a, clock) ==
  /\ ~UsesSealedEngine(rs.mode)
  /\ rs.price > 0
  /\ ~rs.terminal
  /\ a <= rs.price
  /\ rs.endAt = 0 \/ clock + ExpiryMargin < rs.endAt

\* Mutation of ReceiveWS: the cache is ratcheted by a bid not yet adjudicated.
ReceiveWS_Optimistic(h, u, r, a) ==
  /\ joined
  /\ task[h] = NoTask
  /\ Canonical(a)
  /\ cache' = Ratchet(cache, a, 0)
  /\ Becomes(h, [NoTask EXCEPT !.pc = "script", !.user = u, !.req = r,
                               !.amount = a, !.mode = cache.mode])
  /\ UNCHANGED <<vars, dropping, cursor, joined>>

\* BID_PLACE on a socket: one copy of the cache decides the script and whether
\* the fast reject is tried.
ReceiveWS(h, u, r, a) ==
  /\ joined
  /\ task[h] = NoTask
  /\ Canonical(a)
  /\ \E s \in Skews :
       LET t == [NoTask EXCEPT !.pc = "script", !.user = u, !.req = r,
                               !.amount = a, !.mode = cache.mode]
       IN IF Doomed(cache, a, now - s)
          THEN Becomes(h, [t EXCEPT !.pc = "precheck", !.rs = cache, !.clock = now - s])
          ELSE Becomes(h, t)
  /\ UNCHANGED <<vars, cache, dropping, cursor, joined>>

PrecheckClear(t) ==
  status = "LIVE" /\ t.user # Seller /\ Cached(t.user, t.req) = NoAck

\* The bid is answered ERR_TOO_LOW without a script.
FastReject(h) ==
  /\ task[h].pc = "precheck"
  /\ PrecheckClear(task[h])
  /\ Becomes(h, NoTask)
  /\ UNCHANGED <<vars, cache, dropping, cursor, joined>>

\* A guard is violated, or the round trip failed: the script decides.
DeferToScript(h) ==
  /\ task[h].pc = "precheck"
  /\ Becomes(h, [task[h] EXCEPT !.pc = "script", !.rs = Cold, !.clock = 0])
  /\ UNCHANGED <<vars, cache, dropping, cursor, joined>>

\* POST /bids: only a cold mode is looked up.
ReceiveHTTP(h, u, r, a) ==
  /\ task[h] = NoTask
  /\ Canonical(a)
  /\ Becomes(h, [NoTask EXCEPT
       !.pc = IF cache.mode = "" THEN "lookup" ELSE "script",
       !.user = u, !.req = r, !.amount = a, !.mode = cache.mode])
  /\ UNCHANGED <<vars, cache, dropping, cursor, joined>>

ModeLookup(h) ==
  /\ task[h].pc = "lookup"
  /\ Becomes(h, [task[h] EXCEPT !.pc = "modeRead", !.mode = SnapshotMode])
  /\ UNCHANGED <<vars, cache, dropping, cursor, joined>>

\* Snapshot returned an error: the bid goes on with no mode.
ModeLookupFails(h) ==
  /\ task[h].pc = "lookup"
  /\ Becomes(h, [task[h] EXCEPT !.pc = "script"])
  /\ UNCHANGED <<vars, cache, dropping, cursor, joined>>

\* The script the handler would call, and what it would answer now.
ScriptCode(t) ==
  IF UsesSealedEngine(t.mode) THEN SealedCode(t.user, t.req, t.amount)
  ELSE AscendingCode(t.user, t.req, t.amount)

Script(t) ==
  \/ UsesSealedEngine(t.mode) /\ PlaceBidSealed(t.user, t.req, t.amount)
  \/ UsesHybridEngine(t.mode) /\ PlaceBidHybrid(t.user, t.req, t.amount)
  \/ /\ ~UsesSealedEngine(t.mode) /\ ~UsesHybridEngine(t.mode)
     /\ PlaceBid(t.user, t.req, t.amount)

\* The script accepts; the ack (or, the reply being lost, ERR_AUCTION_PAUSED)
\* goes back to the bidder.
RunScript(h) ==
  /\ task[h].pc = "script"
  /\ seq < MaxSeq
  /\ Script(task[h])
  /\ Becomes(h, NoTask)
  /\ UNCHANGED <<cache, dropping, cursor, joined>>

\* The script answers an error or DUPLICATE, or never ran.
ScriptRejects(h) ==
  /\ task[h].pc = "script"
  /\ Becomes(h, NoTask)
  /\ UNCHANGED <<vars, cache, dropping, cursor, joined>>

(***************************************************************************)
(* GET /leaderboard: ZREVRANGE, then status, mode and winner.              *)
(***************************************************************************)

LeaderboardRows(h) ==
  /\ task[h] = NoTask
  /\ Becomes(h, [NoTask EXCEPT !.pc = "board", !.board = leaderboard])
  /\ UNCHANGED <<vars, cache, dropping, cursor, joined>>

\* Mutation of Shown: only the sealed modes are gated.
Shown_NoHybrid(rows) ==
  IF status = "LIVE" /\ rules.mode \in Sealed THEN NoScores ELSE rows

\* The rows that leave the gateway, gated by the state read after them.
Shown(rows) ==
  IF status # "LIVE" THEN rows
  ELSE IF rules.mode \in Sealed THEN NoScores
  ELSE IF rules.mode = "HYBRID_REVEAL" /\ winner # NoUser
  THEN [rows EXCEPT ![winner] = 0]
  ELSE rows

\* The state read succeeds: Shown(task[h].board) is the answer.
LeaderboardGate(h) ==
  /\ task[h].pc = "board"
  /\ Becomes(h, NoTask)
  /\ UNCHANGED <<vars, cache, dropping, cursor, joined>>

\* The state read fails: the rows are the answer, as they were read.
LeaderboardUngated(h) ==
  /\ task[h].pc = "board"
  /\ Becomes(h, NoTask)
  /\ UNCHANGED <<vars, cache, dropping, cursor, joined>>

(***************************************************************************)
(* GET /auctions: the MySQL row, then for a LIVE row the Redis snapshot.   *)
(***************************************************************************)

\* A standing of one: the price and who holds it.
Standing(u, p) == IF u = NoUser THEN NoScores ELSE [NoScores EXCEPT ![u] = p]

\* A row has the start price and no winner until the Persistence Worker, which
\* may lag, writes the outcome of the sale.
ListRow(h) ==
  /\ task[h] = NoTask
  /\ \E finalized \in BOOLEAN :
       /\ finalized => status = "SOLD"
       /\ Becomes(h, [NoTask EXCEPT !.pc = "list",
            !.board = IF finalized THEN Standing(winner, price) ELSE NoScores])
  /\ UNCHANGED <<vars, cache, dropping, cursor, joined>>

\* The listed standing of a row read as LIVE: only ENGLISH shows the current one.
Merged(listed) ==
  IF status # "NONE" /\ rules.mode = "ENGLISH" /\ winner # NoUser
  THEN Standing(winner, price) ELSE listed

\* A row that is not LIVE, or whose snapshot cannot be read, is listed as it is.
ListMerge(h) ==
  /\ task[h].pc = "list"
  /\ Becomes(h, NoTask)
  /\ UNCHANGED <<vars, cache, dropping, cursor, joined>>

-----------------------------------------------------------------------------

\* The REST handlers, the Timer Worker, and bids through other gateways.
EngineElsewhere ==
  /\ \/ \E r \in RuleSet : FreezeRules(r)
     \/ \E d \in Durations : StartAuction(d)
     \/ \E u \in Users, r \in Reqs, a \in BidAmounts : Bid(u, r, a)
     \/ CloseAuctionDetailed
     \/ CancelAuction(Seller)
     \/ Tick
  /\ UNCHANGED gatewayVars

Serve(h) ==
  \/ JoinRead(h) \/ JoinFails(h) \/ SetMode(h)
  \/ \E u \in Users, r \in Reqs, a \in BidAmounts :
       ReceiveWS(h, u, r, a) \/ ReceiveHTTP(h, u, r, a)
  \/ FastReject(h) \/ DeferToScript(h)
  \/ ModeLookup(h) \/ ModeLookupFails(h)
  \/ RunScript(h) \/ ScriptRejects(h)
  \/ LeaderboardRows(h) \/ LeaderboardGate(h) \/ LeaderboardUngated(h)
  \/ ListRow(h) \/ ListMerge(h)

RNext ==
  \/ EngineElsewhere
  \/ \E h \in Handlers : Serve(h)
  \/ FanoutEvent
  \/ DropRoomState
  \/ GatewayRestart

RSpec == RInit /\ [][RNext]_rvars

-----------------------------------------------------------------------------
(***************************************************************************)
(* Properties                                                              *)
(***************************************************************************)

\* The claim the fast reject rests on (ws.go, BID_PLACE): while the auction
\* runs, neither the cache nor any copy a handler took of it is ahead of the
\* Hash in price or deadline, through replays after a restart, out-of-date
\* copies and the late setMode of a join.
CacheNeverAhead ==
  status = "LIVE" =>
    \A rs \in {cache} \cup {task[h].rs : h \in Handlers} :
      rs.price <= price /\ rs.endAt <= endAt

\* A bid answered ERR_TOO_LOW without a script is one the script would answer
\* ERR_TOO_LOW at that moment: never an acceptable bid, a retry of an accepted
\* one, the seller's or one for an auction that is not live.  Past the
\* deadline only when the handler was held up, after reading its clock, for
\* the margin less the skew of that clock.
FastRejectAgrees ==
  [][\A h \in Handlers :
       LET t == task[h] IN
       FastReject(h) =>
         \/ ScriptCode(t) = "ERR_TOO_LOW"
         \/ /\ ScriptCode(t) = "ERR_AFTER_END"
            /\ now - t.clock > ExpiryMargin]_rvars

\* Every step of the gateway is a step of the engine or none, except one: a
\* handler that never learned the mode runs place_bid.lua on an auction that
\* is not run that way.
RoutedAsFrozen ==
  [][\/ Next
     \/ UNCHANGED vars
     \/ /\ rules.mode \notin Plain
        /\ \E h \in Handlers : task[h].pc = "script" /\ task[h].mode = ""]_rvars

\* The Stream has shown the room each of these rows.
Broadcast(rows) ==
  \A u \in Users : rows[u] > 0 =>
    \E i \in 1 .. Len(stream) :
      /\ stream[i].type = "BID_ACCEPTED"
      /\ stream[i].user = u /\ stream[i].amount = rows[u]

\* What a gated answer keeps back, whenever its rows were read.
GateHides(rows) ==
  /\ rules.mode \in Sealed => Shown(rows) = NoScores
  /\ rules.mode = "HYBRID_REVEAL" =>
       \A u \in Users : Shown(rows)[u] > 0 => u # winner /\ rows[u] < price

\* While an auction runs the REST reads publish no more than the room was shown,
\* although a row and the state that gates it are read at different times.  GET
\* /leaderboard shows nothing of a sealed auction, and of a HYBRID_REVEAL one
\* neither its leader nor any amount as high as the price.  When the state read
\* fails the rows go out unfiltered: then, in every mode but HYBRID_REVEAL, each
\* is a bid the Stream has broadcast.  GET /auctions lists an auction of these
\* modes without its price and leader.
StandingsStayHidden ==
  [][\A h \in Handlers :
       LET rows == task[h].board IN
       status = "LIVE" =>
         /\ LeaderboardGate(h) => GateHides(rows)
         /\ LeaderboardUngated(h) => Broadcast(rows) \/ rules.mode = "HYBRID_REVEAL"
         /\ ListMerge(h) =>
              \/ rules.mode \in Plain
              \/ rows = NoScores /\ Merged(rows) = NoScores]_rvars
=============================================================================
