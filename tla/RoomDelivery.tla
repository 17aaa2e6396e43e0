---------------------------- MODULE RoomDelivery ----------------------------
(***************************************************************************)
(* How one gateway brings the event Stream of one auction to its sockets:  *)
(* admission, ROOM_JOIN with its barrier, single-flight snapshot and       *)
(* catch-up, the subscribe goroutine that reads the Stream and fans it out *)
(* over a lock-free snapshot of the room, the patch coalescer, the two     *)
(* must-deliver lanes of a socket, its write pump, and the seq guard of    *)
(* the client at the other end.                                            *)
(*                                                                         *)
(* The Stream is the log the scripts append to (AuctionEngine shows it is  *)
(* gap-free); a payload is left out except for its type.  A frame written  *)
(* to a socket reaches its client in order or the socket dies.  The epoch  *)
(* of a membership is modelled by dropping a socket from the targets of a  *)
(* running fan-out when it leaves or joins.                                *)
(***************************************************************************)
EXTENDS Integers, Sequences, FiniteSets

CONSTANTS
  Clients,        \* the clients watched, each with at most one socket at a time
  LaneCap,        \* sendBufFrames: capacity of crit, broadcast and pending
  CatchupMaxGap,  \* largest lastSeq delta replayed from the Stream
  MinViewers,     \* ROOM_STATE_PATCH_MIN_VIEWERS, 0 switches patches off
  Affinities,     \* values GATEWAY_ROOM_AFFINITY may have
  MaxLog,         \* bound: the log stops growing here
  MaxJoins,       \* bound: ROOM_JOINs in a behaviour
  MaxFaults,      \* bound: lost sockets, failed upgrades and failed reads
  MaxLag          \* bound: how far a read made for someone else may be behind

Gateway == "gateway"
NoOne   == "none"

ASSUME DeliveryAssumption ==
  /\ {Gateway, NoOne} \cap Clients = {} /\ IsFiniteSet(Clients)
  /\ LaneCap \in Nat /\ CatchupMaxGap \in Nat /\ CatchupMaxGap < LaneCap
  /\ MinViewers \in Nat
  /\ Affinities \subseteq BOOLEAN
  /\ MaxLog \in Nat /\ MaxJoins \in Nat /\ MaxFaults \in Nat /\ MaxLag \in Nat

VARIABLES
  log,       \* event types of the Stream; a BID_ACCEPTED that sells is CAP_BID
  affinity,  \* gatewayRoomAffinity
  cursor,    \* lastSeq[aid] of the subscribe goroutine
  seeded,    \* lastSeq has an entry for the room
  seeding,   \* the goroutine waits for the Snapshot that seeds its cursor
  out,       \* frames it has yet to broadcast, the first one in progress
  todo,      \* members in the snapshot of that broadcast, still current
  sending,   \* the member whose epoch has been checked, if any
  patch,     \* pending state patch, NoPatch for none
  flight,    \* the in-flight Snapshot call
  conn,      \* the socket of each client and the state of its read loop
  crit,      \* priority lane of each socket
  bcast,     \* broadcast lane
  pend,      \* frames held back by the join barrier
  last,      \* the client's seq guard
  gap,       \* a broadcast frame of a sound join made the client jump over an event
  joins,     \* ROOM_JOINs so far
  faults     \* faults so far

streamVars == <<cursor, seeded, seeding, out, todo, sending, patch>>
lanes      == <<crit, bcast, pend>>
client     == <<last, gap>>
dvars      == <<log, affinity, streamVars, flight, conn, lanes, client, joins, faults>>

NoPatch == [from |-> 0, to |-> 0]

Frame(type, from, to) == [type |-> type, from |-> from, to |-> to]

\* open: done is not closed.  served: the last ROOM_JOIN was answered.
\* fresh: from a read of the Hash made after hub.join.  seededOver: the cursor
\* was seeded past events the init frames do not have.
Offline == [pc |-> "off", open |-> FALSE, member |-> FALSE, joining |-> FALSE,
            arg |-> 0, snap |-> 0, served |-> FALSE, fresh |-> FALSE,
            seededOver |-> FALSE]
NoFlight == [pc |-> "none", seq |-> 0, who |-> {}]

DeliveryInit ==
  /\ log = <<>> /\ affinity \in Affinities
  /\ cursor = 0 /\ seeded = FALSE
  /\ seeding = FALSE
  /\ out = <<>> /\ todo = {} /\ sending = NoOne
  /\ patch = NoPatch /\ flight = NoFlight
  /\ conn = [c \in Clients |-> Offline]
  /\ crit = [c \in Clients |-> <<>>]
  /\ bcast = [c \in Clients |-> <<>>]
  /\ pend = [c \in Clients |-> <<>>]
  /\ last = [c \in Clients |-> 0]
  /\ gap = [c \in Clients |-> FALSE]
  /\ joins = 0 /\ faults = 0

\* What c joined with is followed up without a hole.
Sound(c) == conn[c].served /\ conn[c].fresh /\ ~conn[c].seededOver

Members == {c \in Clients : conn[c].member}
Faulty  == faults < MaxFaults /\ faults' = faults + 1
Ended   == log # <<>> /\ log[Len(log)] = "SOLD"

-----------------------------------------------------------------------------
(* The writers of the Stream: what one script appends.                     *)

Appended(es) ==
  /\ ~Ended
  /\ Len(log) + Len(es) <= MaxLog
  /\ log' = log \o es

BidAppends == {<<"BID">>, <<"BID", "EXTENDED">>, <<"CAP_BID", "SOLD">>}

\* A bid over HTTP or another gateway, the hammer or a cancel.
ScriptElsewhere ==
  /\ \E es \in BidAppends \cup {<<"SOLD">>} : Appended(es)
  /\ UNCHANGED <<affinity, streamVars, flight, conn, lanes, client, joins, faults>>

-----------------------------------------------------------------------------
(* Sockets: handleWS around the read loop.                                 *)

\* A closed socket's lanes are never drained again.
Drop(c) ==
  /\ crit'  = [crit EXCEPT ![c] = <<>>]
  /\ bcast' = [bcast EXCEPT ![c] = <<>>]
  /\ pend'  = [pend EXCEPT ![c] = <<>>]

\* A read or write error, a missed PONG, a schema mismatch.
SocketLost(c) ==
  /\ Faulty
  /\ conn[c].open
  /\ conn' = [conn EXCEPT ![c].open = FALSE]
  /\ Drop(c)
  /\ UNCHANGED <<log, affinity, streamVars, flight, client, joins>>

\* The deferred leave, close and release, once the handler is back in its loop.
Teardown(c) ==
  /\ conn[c].pc = "idle" /\ ~conn[c].open
  /\ conn' = [conn EXCEPT ![c] = Offline]
  /\ todo' = todo \ {c}
  /\ UNCHANGED <<log, affinity, cursor, seeded, seeding, out, sending, patch,
                 flight, lanes, client, joins, faults>>

-----------------------------------------------------------------------------
(* The lanes of a socket.                                                  *)

\* enqueueCritical of several frames: past the capacity the socket is closed.
PushCritical(c, fs, closed) ==
  /\ closed = (conn[c].open /\ Len(crit[c]) + Len(fs) > LaneCap)
  /\ IF closed THEN Drop(c)
     ELSE /\ crit' = IF conn[c].open THEN [crit EXCEPT ![c] = @ \o fs] ELSE crit
          /\ UNCHANGED <<bcast, pend>>

\* Mutation of Held: the barrier is gone.
Held_Never(c) == FALSE

\* The join barrier is up.
Held(c) == conn[c].joining

\* Mutation of EnqueueBroadcast: a full lane drops the frame.
EnqueueBroadcast_DropsFrame(c, f) ==
  /\ UNCHANGED <<conn, crit>>
  /\ IF ~conn[c].open THEN UNCHANGED <<bcast, pend>>
     ELSE IF Held(c)
     THEN /\ pend' = IF Len(pend[c]) < LaneCap THEN [pend EXCEPT ![c] = Append(@, f)] ELSE pend
          /\ UNCHANGED bcast
     ELSE /\ bcast' = IF Len(bcast[c]) < LaneCap THEN [bcast EXCEPT ![c] = Append(@, f)] ELSE bcast
          /\ UNCHANGED pend

\* Held back while joining, else on the broadcast lane; a full one closes.
EnqueueBroadcast(c, f) ==
  IF ~conn[c].open THEN UNCHANGED <<conn, lanes>>
  ELSE IF Len(IF Held(c) THEN pend[c] ELSE bcast[c]) >= LaneCap
  THEN conn' = [conn EXCEPT ![c].open = FALSE] /\ Drop(c)
  ELSE /\ pend'  = IF Held(c) THEN [pend EXCEPT ![c] = Append(@, f)] ELSE pend
       /\ bcast' = IF Held(c) THEN bcast ELSE [bcast EXCEPT ![c] = Append(@, f)]
       /\ UNCHANGED <<conn, crit>>

\* The client's guard.  A snapshot replaces the state; any other frame counts
\* when it is newer.  What an own ack overtakes is not a gap.
Apply(c, f) ==
  IF f.type = "snapshot"
  THEN last' = [last EXCEPT ![c] = f.to] /\ gap' = [gap EXCEPT ![c] = FALSE]
  ELSE IF f.to <= last[c] THEN UNCHANGED client
  ELSE /\ last' = [last EXCEPT ![c] = f.to]
       /\ gap' = [gap EXCEPT ![c] =
            @ \/ (f.type # "ack" /\ f.from > last[c] + 1 /\ Sound(c))]

\* writePump: direct frames first, then one broadcast.
WriteCritical(c) ==
  /\ conn[c].open /\ crit[c] # <<>>
  /\ Apply(c, Head(crit[c]))
  /\ crit' = [crit EXCEPT ![c] = Tail(@)]
  /\ UNCHANGED <<log, affinity, streamVars, flight, conn, bcast, pend, joins, faults>>

WriteBroadcast(c) ==
  /\ conn[c].open /\ crit[c] = <<>> /\ bcast[c] # <<>>
  /\ Apply(c, Head(bcast[c]))
  /\ bcast' = [bcast EXCEPT ![c] = Tail(@)]
  /\ UNCHANGED <<log, affinity, streamVars, flight, conn, crit, pend, joins, faults>>

-----------------------------------------------------------------------------
(* dispatchWS: ROOM_JOIN and the direct ack of BID_PLACE.                  *)

\* snapFlight.Do: lead a read of the Hash or share the one in flight.  A call of
\* someone else (an HTTP bid, the crowd, a socket outside Clients) may be in
\* flight with its read already made, when the log had s entries.
CallSnapshot(callers) ==
  \/ /\ flight.pc = "none"
     /\ flight' = [pc |-> "asked", seq |-> 0, who |-> callers]
  \/ /\ flight.pc = "none"
     /\ \E s \in 0 .. Len(log) :
          Len(log) - s <= MaxLag /\ flight' = [pc |-> "read", seq |-> s, who |-> callers]
  \/ /\ flight.pc # "none"
     /\ flight' = [flight EXCEPT !.who = @ \cup callers]

\* The first frame of a new socket (tryReserveWS had a slot for it), or a re-JOIN
\* on an open one.  Leave the old membership, raise the barrier, hub.join, call
\* Snapshot.
RoomJoin(c) ==
  /\ conn[c].pc = "off" \/ (conn[c].pc = "idle" /\ conn[c].open)
  /\ joins < MaxJoins
  /\ joins' = joins + 1
  /\ CallSnapshot({c})
  /\ conn' = [conn EXCEPT ![c] =
       [@ EXCEPT !.pc = "wait", !.open = TRUE, !.member = TRUE, !.joining = TRUE,
                 !.arg = last[c], !.served = FALSE, !.seededOver = FALSE,
                 !.fresh = /\ flight'.pc = "read" => flight'.seq = Len(log)
                           /\ crit[c] = <<>> \/ conn[c].fresh]]
  /\ pend' = [pend EXCEPT ![c] = <<>>]
  /\ todo' = todo \ {c}
  /\ UNCHANGED <<log, affinity, cursor, seeded, seeding, out, sending, patch,
                 crit, bcast, client, faults>>

\* HGETALL executes in Redis.
SnapshotRead ==
  /\ flight.pc = "asked"
  /\ flight' = [flight EXCEPT !.pc = "read", !.seq = Len(log)]
  /\ UNCHANGED <<log, affinity, streamVars, conn, lanes, client, joins, faults>>

\* The init frames of c take its client to event k.
Reached(c, k) ==
  \/ last[c] >= k \/ (conn[c].pc = "init" /\ conn[c].snap >= k)
  \/ \E i \in 1 .. Len(crit[c]) : crit[c][i].to >= k

\* The leader and everyone who shared the call get the value.  A gateway that
\* hosts the room for the first time seeds its cursor from it.
SnapshotDone ==
  LET seeds == Gateway \in flight.who IN
  /\ flight.pc = "read"
  /\ conn' = [c \in Clients |->
       [conn[c] EXCEPT
          !.pc    = IF c \in flight.who THEN "init" ELSE @,
          !.snap  = IF c \in flight.who THEN flight.seq ELSE @,
          !.seededOver = @ \/ (seeds /\ c \notin flight.who /\ ~Reached(c, flight.seq))]]
  /\ cursor' = IF seeds THEN flight.seq ELSE cursor
  /\ seeded' = (seeded \/ seeds)
  /\ seeding' = (seeding /\ ~seeds)
  /\ flight' = NoFlight
  /\ UNCHANGED <<log, affinity, out, todo, sending, patch, lanes, client, joins, faults>>

\* The handler returns without a snapshot; the gateway reads from the start.
SnapshotFails ==
  /\ Faulty
  /\ flight.pc # "none"
  /\ conn' = [c \in Clients |->
       [conn[c] EXCEPT !.pc = IF c \in flight.who THEN "splice" ELSE @,
                       !.arg = IF c \in flight.who THEN 0 ELSE @,
                       !.fresh = @ /\ c \notin flight.who]]
  /\ seeding' = (seeding /\ Gateway \notin flight.who)
  /\ seeded' = (seeded \/ (Gateway \in flight.who /\ log # <<>>))
  /\ flight' = NoFlight
  /\ UNCHANGED <<log, affinity, cursor, out, todo, sending, patch,
                 lanes, client, joins>>

\* The Stream events replayed to a client that has seen up to k.
Catchup(k, snap) ==
  IF snap > k /\ snap - k <= CatchupMaxGap
  THEN [i \in 1 .. snap - k |-> Frame("event", k + i, k + i)]
  ELSE <<>>

\* Catch-up, unless its read fails, then ROOM_SNAPSHOT.
PushInit(c, replay) ==
  \E closed \in BOOLEAN :
    /\ conn[c].pc = "init"
    /\ PushCritical(c, replay \o <<Frame("snapshot", 0, conn[c].snap)>>, closed)
    /\ conn' = [conn EXCEPT ![c].pc = "splice", ![c].served = TRUE,
                            ![c].arg = 0, ![c].snap = 0, ![c].open = @ /\ ~closed]

JoinInit(c) ==
  /\ PushInit(c, Catchup(conn[c].arg, conn[c].snap))
  /\ UNCHANGED <<log, affinity, streamVars, flight, client, joins, faults>>

CatchupReadFails(c) ==
  /\ Faulty
  /\ Catchup(conn[c].arg, conn[c].snap) # <<>>
  /\ PushInit(c, <<>>)
  /\ UNCHANGED <<log, affinity, streamVars, flight, client, joins>>

SpliceAndGoLive(c) ==
  LET fits == Len(bcast[c]) + Len(pend[c]) <= LaneCap IN
  /\ conn[c].pc = "splice"
  /\ conn' = [conn EXCEPT ![c].pc = "idle", ![c].joining = FALSE, ![c].open = @ /\ fits]
  /\ IF fits THEN /\ bcast' = [bcast EXCEPT ![c] = @ \o pend[c]]
                  /\ pend'  = [pend EXCEPT ![c] = <<>>]
                  /\ UNCHANGED crit
     ELSE Drop(c)
  /\ UNCHANGED <<log, affinity, streamVars, flight, client, joins, faults>>

\* A bid of this socket is accepted, then acknowledged on the priority lane.
BidPlace(c) ==
  /\ conn[c].pc = "idle" /\ conn[c].open /\ conn[c].member
  /\ \E es \in BidAppends : Appended(es)
  /\ conn' = [conn EXCEPT ![c].pc = "ack", ![c].arg = Len(log) + 1]
  /\ UNCHANGED <<affinity, streamVars, flight, lanes, client, joins, faults>>

PushAck(c) ==
  \E closed \in BOOLEAN :
    /\ conn[c].pc = "ack"
    /\ PushCritical(c, <<Frame("ack", conn[c].arg, conn[c].arg)>>, closed)
    /\ conn' = [conn EXCEPT ![c].pc = "idle", ![c].arg = 0, ![c].open = @ /\ ~closed]
    /\ UNCHANGED <<log, affinity, streamVars, flight, client, joins, faults>>

-----------------------------------------------------------------------------
(* The subscribe goroutine.  It broadcasts one event after the other; that *)
(* one read of the Stream returns several of them is left out.             *)

\* The room also has others sockets, which are not modelled.
Viewers(others) == Cardinality(Members) + others

\* A hint or the sweep finds the goroutine waiting.  With affinity a room is
\* looked at only while it has members here.
Waiting == ~seeding /\ out = <<>>
Hosted(others) == affinity => Viewers(others) > 0

\* The first time this gateway hosts the room it asks for the current seq.
SeedCursor(others) ==
  /\ Waiting /\ Hosted(others)
  /\ affinity /\ ~seeded
  /\ seeding' = TRUE
  /\ CallSnapshot({Gateway})
  /\ UNCHANGED <<log, affinity, cursor, seeded, out, todo, sending, patch,
                 conn, lanes, client, joins, faults>>

Crowded(others) == MinViewers > 0 /\ Viewers(others) >= MinViewers

\* offer: a bid joins or opens the pending patch, an extension only joins one.
Coalesced(k, others) ==
  /\ Crowded(others)
  /\ \/ log[k] = "BID"
     \/ log[k] = "EXTENDED" /\ patch # NoPatch

PatchFrames == IF patch = NoPatch THEN <<>> ELSE <<Frame("patch", patch.from, patch.to)>>

\* Mutation of EventFrames: flushAid does not run before the event.
EventFrames_NoFlush(k) == <<Frame("event", k, k)>>

\* flushAid, then the event itself.
EventFrames(k) == PatchFrames \o <<Frame("event", k, k)>>

\* fanout: the next event after the cursor is coalesced or broadcast.
Fanout(others) ==
  LET k == cursor + 1 IN
  /\ Waiting /\ Hosted(others) /\ (affinity => seeded)
  /\ cursor < Len(log)
  /\ IF Coalesced(k, others)
     THEN /\ patch' = [from |-> IF patch = NoPatch THEN k ELSE patch.from, to |-> k]
          /\ UNCHANGED <<out, todo>>
     ELSE /\ out' = EventFrames(k)
          /\ todo' = Members
          /\ patch' = NoPatch
  /\ cursor' = k
  /\ seeded' = TRUE
  /\ UNCHANGED <<log, affinity, seeding, sending, flight, conn, lanes,
                 client, joins, faults>>

\* Mutation of Sweep: the backstop is gone and only hints wake the goroutine.
Sweep_Never == FALSE

\* A Pub/Sub hint may be late or lost; the sweep looks at rooms with members.
Wake  == \E others \in 0 .. MinViewers : SeedCursor(others) \/ Fanout(others)
Sweep == Members # {} /\ Wake

\* The patch ticker.
FlushAll ==
  /\ Waiting
  /\ patch # NoPatch
  /\ out' = PatchFrames
  /\ todo' = Members
  /\ patch' = NoPatch
  /\ UNCHANGED <<log, affinity, cursor, seeded, seeding, sending,
                 flight, conn, lanes, client, joins, faults>>

(* Hub.broadcast of the frame at the head of out: todo was copied under    *)
(* the lock; each one's epoch is checked and the frame enqueued without it. *)

EpochMatches(c) ==
  /\ sending = NoOne /\ c \in todo
  /\ sending' = c
  /\ todo' = todo \ {c}
  /\ UNCHANGED <<log, affinity, cursor, seeded, seeding, out, patch,
                 flight, conn, lanes, client, joins, faults>>

TrySendPrepared(c) ==
  /\ sending = c
  /\ EnqueueBroadcast(c, Head(out))
  /\ sending' = NoOne
  /\ UNCHANGED <<log, affinity, cursor, seeded, seeding, out, todo, patch,
                 flight, client, joins, faults>>

\* On to the next frame, with the members of that moment.
BroadcastDone ==
  /\ out # <<>> /\ sending = NoOne /\ todo = {}
  /\ out' = Tail(out)
  /\ todo' = IF Tail(out) = <<>> THEN {} ELSE Members
  /\ UNCHANGED <<log, affinity, cursor, seeded, seeding, sending, patch,
                 flight, conn, lanes, client, joins, faults>>

-----------------------------------------------------------------------------
Handler(c) == JoinInit(c) \/ SpliceAndGoLive(c) \/ PushAck(c) \/ Teardown(c)
WritePump(c) == WriteCritical(c) \/ WriteBroadcast(c)
Subscriber ==
  \/ FlushAll \/ BroadcastDone
  \/ \E c \in Clients : EpochMatches(c) \/ TrySendPrepared(c)
Snapshot == SnapshotRead \/ SnapshotDone

DeliveryNext ==
  \/ ScriptElsewhere
  \/ Wake \/ Subscriber
  \/ Snapshot \/ SnapshotFails
  \/ \E c \in Clients :
       \/ SocketLost(c) \/ RoomJoin(c) \/ BidPlace(c) \/ CatchupReadFails(c)
       \/ Handler(c) \/ WritePump(c)

\* Goroutines run, Redis answers and the 2 s ticker fires; clients, scripts,
\* hints and faults are not obliged to do anything.
Fairness ==
  /\ WF_dvars(Sweep) /\ WF_dvars(Subscriber) /\ WF_dvars(Snapshot)
  /\ \A c \in Clients : WF_dvars(Handler(c)) /\ WF_dvars(WritePump(c))

DeliverySpec == DeliveryInit /\ [][DeliveryNext]_dvars /\ Fairness

-----------------------------------------------------------------------------
(***************************************************************************)
(* Properties                                                              *)
(***************************************************************************)

\* The gateway has nothing left to do for the room.
Quiet == Waiting /\ cursor = Len(log) /\ patch = NoPatch

\* The newest event has reached the client or is on its way to it.
Synced(c) ==
  \/ last[c] = Len(log)
  \/ \E i \in 1 .. Len(crit[c]) : crit[c][i].to = Len(log)
  \/ \E i \in 1 .. Len(bcast[c]) : bcast[c][i].to = Len(log)

\* The gateway is quiet and c's open socket has its ROOM_JOIN behind it.
Settled(c) == Quiet /\ conn[c].open /\ conn[c].pc = "idle" /\ conn[c].served

\* Never a silent loss: however joins, fan-outs, patches, full lanes and
\* membership changes interleave, an open socket whose join was answered from
\* a read made after it became a member (and not seeded over) ends up with the
\* newest event, or it has been closed so that its client reconnects.
NoSilentLoss ==
  \A c \in Clients : Settled(c) /\ Sound(c) => Synced(c)

\* The order on the wire: no broadcast frame makes such a client jump over an
\* event it was not shown; only the client's own ack overtakes, and the seq
\* guard then drops what was overtaken.
NoGap ==
  \A c \in Clients : conn[c].open /\ Sound(c) /\ crit[c] = <<>> => ~gap[c]

\* The barrier keeps live events behind the init frames: the snapshot, which
\* resets the client's guard, never takes a client back to an older seq.
NeverRegresses ==
  [][\A c \in Clients : conn[c].fresh => last'[c] >= last[c]]_dvars

\* The end of the auction reaches every such client that stays connected,
\* although every Pub/Sub hint may be lost.
EndIsDelivered ==
  \A c \in Clients :
    Ended /\ Sound(c) ~> last[c] = Len(log) \/ ~conn[c].open \/ ~Sound(c)

=============================================================================
