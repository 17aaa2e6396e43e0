---------------------------- MODULE Commentary ----------------------------
(***************************************************************************)
(* The AI auctioneer of one gateway process: detectors fed by the fan-out, *)
(* by the Timer Worker's reconcile pass and by handleStart, calls to the   *)
(* sidecar that run on goroutines of their own, and what the room is shown *)
(* (AI_COMMENTARY) when the sidecar is slow, wrong or dead.                *)
(*                                                                         *)
(* The fan-out keeps its cursor in a local: when its goroutine panics and  *)
(* is restarted, or the process is, it begins the Stream anew: at the      *)
(* first event, or, with room affinity, at whatever the seq is when the    *)
(* room is first seen to have a connection.  It is owed to come back to a  *)
(* room only while the room has a connection.                              *)
(* A text is represented by what the guardrails tell apart.                *)
(***************************************************************************)
EXTENDS AuctionEngine

CONSTANTS
  RapidPair,      \* two bids closer than this are a rapid pair (2 s)
  SurgeGap,       \* debounce of surge (5 s)
  ColdGap,        \* silence before cold, and its debounce (30 s)
  Suppression,    \* no cold for this long after a terminal event (5 s)
  CallTimeout,    \* the longest sidecar call (5 s)
  StallLatency,   \* longest time from the reconcile's snapshot to OnTickStall
  Affinities,     \* settings of GATEWAY_ROOM_AFFINITY the process may run with
  MaxRestarts     \* bound: restarts of the fan-out or of the process

\* The reconcile pass makes one Redis call of at most redisUnavailableTimeout
\* for the suppression and one for the index between the two.
ASSUME CommentaryAssumption ==
  /\ {RapidPair, SurgeGap, ColdGap, Suppression, CallTimeout} \subseteq Nat \ {0}
  /\ StallLatency \in Nat /\ StallLatency < Suppression
  /\ MaxRestarts \in Nat
  /\ Affinities \subseteq BOOLEAN

Triggers == {"open", "surge", "cold", "hammer"}

\* What a reply can carry: a clean line, an empty one, and one that a rule of
\* the guardrail catches; canned is the fallback line of the trigger.
Texts == {"clean", "empty", "bad", "canned"}

Never == -1

VARIABLES
  opening,    \* handleStart: "" , "project" (LIVE write), "hook", "reply"
  affinity,   \* gatewayRoomAffinity
  hosted,     \* the room has a connection on this gateway
  cursor,     \* lastSeq[aid] of the fan-out
  began,      \* where this run of the fan-out began, Never without an entry
  hooks,      \* the detectors' maps, under mu
  stepKnown,  \* auctioneerStepCache holds the auction's step
  stall,      \* when the reconcile pass read LIVE, Never if no pass is between
  firing,     \* sidecar calls in flight
  aired,      \* calls whose commentary the room was shown
  lastText,   \* the commentary shown last
  restarts    \* restarts so far, and how many of them were of the process

airVars  == <<aired, lastText>>
roomVars == <<affinity, hosted, cursor, began>>
hookVars == <<opening, roomVars, hooks, stepKnown, stall, firing, airVars, restarts>>
avars == <<vars, hookVars>>

NoHooks == [lastBidAt |-> Never, lastBid |-> 0, surgeAt |-> Never,
            coldAt |-> Never, terminalAt |-> Never, openFired |-> FALSE]

AInit ==
  /\ Init
  /\ opening = ""
  /\ affinity \in Affinities /\ hosted = FALSE
  /\ cursor = 0 /\ began = Never
  /\ hooks = NoHooks
  /\ stepKnown = FALSE
  /\ stall = Never
  /\ firing = {}
  /\ aired = {}
  /\ lastText = "canned"
  /\ restarts = [all |-> 0, process |-> 0]

\* The dispatch of a call: go a.fire(...).
Fire(trigger) ==
  firing' = firing \cup {[trigger |-> trigger, at |-> now,
                          born |-> restarts.all, life |-> restarts.process]}

\* At least d has passed since t; a map entry that was never written is 0,
\* the beginning of time.
Since(t, d) == t = Never \/ now - t >= d

-----------------------------------------------------------------------------
(***************************************************************************)
(* handleStart: start_auction.lua, the LIVE write, the hook, the reply.    *)
(***************************************************************************)

HandleStart(d) ==
  /\ StartAuction(d)
  /\ opening' = "project"
  /\ UNCHANGED <<roomVars, hooks, stepKnown, stall, firing, airVars, restarts>>

\* A failed LIVE write ends the handler.
StartProject ==
  /\ opening = "project"
  /\ opening' \in {"hook", ""}
  /\ UNCHANGED <<vars, roomVars, hooks, stepKnown, stall, firing, airVars, restarts>>

OnAuctionStart ==
  /\ opening = "hook"
  /\ opening' = "reply"
  /\ \/ hooks.openFired /\ UNCHANGED <<hooks, firing>>
     \/ /\ ~hooks.openFired
        /\ hooks' = [hooks EXCEPT !.openFired = TRUE]
        /\ Fire("open")
  /\ UNCHANGED <<vars, roomVars, stepKnown, stall, airVars, restarts>>

\* The handler returns and net/http cancels the request's context.
StartReplies ==
  /\ opening = "reply"
  /\ opening' = ""
  /\ UNCHANGED <<vars, roomVars, hooks, stepKnown, stall, firing, airVars, restarts>>

(***************************************************************************)
(* dispatchAuctioneer, called by the fan-out for each event.               *)
(***************************************************************************)

DeltaAtLeastThreeSteps(cur, prev) == cur - prev >= 3 * rules.increment

\* Mutation of IsSurge: the debounce is forgotten.
IsSurge_NoDebounce(e) ==
  /\ hooks.lastBid # 0
  /\ now - hooks.lastBidAt < RapidPair
  /\ DeltaAtLeastThreeSteps(e.amount, hooks.lastBid)

IsSurge(e) ==
  /\ hooks.lastBid # 0
  /\ now - hooks.lastBidAt < RapidPair
  /\ DeltaAtLeastThreeSteps(e.amount, hooks.lastBid)
  /\ Since(hooks.surgeAt, SurgeGap)

OnBidAccepted(e) ==
  /\ hooks' = [hooks EXCEPT !.lastBidAt = now, !.lastBid = e.amount,
                            !.surgeAt = IF IsSurge(e) THEN now ELSE @]
  /\ IF IsSurge(e) THEN Fire("surge") ELSE firing' = firing

OnAuctionSold ==
  /\ hooks' = [hooks EXCEPT !.terminalAt = now]
  /\ Fire("hammer")

\* Mutation of OnAuctionTerminalNonSold: the suppression is not armed.
OnAuctionTerminalNonSold_NoSuppression == UNCHANGED <<hooks, firing>>

OnAuctionTerminalNonSold ==
  /\ hooks' = [hooks EXCEPT !.terminalAt = now]
  /\ UNCHANGED firing

\* The first and the last connection of the room on this gateway.  A last one
\* that leaves during a pass counts as leaving when the pass is over.
JoinOrLeave ==
  /\ hosted' = ~hosted
  /\ UNCHANGED <<vars, opening, affinity, cursor, began, hooks, stepKnown, stall,
                 firing, airVars, restarts>>

\* Without affinity a hint wakes every room; with it the room must be hosted.
GatewayHostsRoom == affinity => hosted

\* With affinity a room without an entry is entered at the seq of the state
\* Hash, and what the Stream holds by then is not dispatched.
Seed ==
  /\ affinity /\ GatewayHostsRoom /\ began = Never
  /\ cursor' = Len(stream) /\ began' = Len(stream)
  /\ UNCHANGED <<vars, opening, affinity, hosted, hooks, stepKnown, stall,
                 firing, airVars, restarts>>

Advance ==
  /\ GatewayHostsRoom
  /\ cursor' = cursor + 1
  /\ began' = IF began = Never THEN cursor ELSE began

\* The step is read from the state Hash once; an unreadable step skips a bid.
\* A first dispatch with affinity is that of a pass whose seeding read failed.
Dispatch ==
  LET e == stream[cursor + 1] IN
  /\ cursor < Len(stream)
  /\ Advance
  /\ \/ e.type = "BID_ACCEPTED" /\ OnBidAccepted(e) /\ stepKnown' = TRUE
     \/ /\ e.type = "BID_ACCEPTED" /\ ~stepKnown
        /\ UNCHANGED <<hooks, firing, stepKnown>>
     \/ e.type = "AUCTION_SOLD" /\ OnAuctionSold /\ UNCHANGED stepKnown
     \/ /\ e.type \in {"AUCTION_NO_BID", "AUCTION_CANCELLED"}
        /\ OnAuctionTerminalNonSold /\ UNCHANGED stepKnown
     \/ /\ e.type \notin {"BID_ACCEPTED"} \cup TerminalTypes
        /\ UNCHANGED <<hooks, firing, stepKnown>>
  /\ UNCHANGED <<vars, opening, affinity, hosted, stall, airVars, restarts>>

\* goSupervised restarts the fan-out goroutine after a panic; the Hub and its
\* connections stay.
FanoutRestarts ==
  /\ restarts.all < MaxRestarts
  /\ restarts' = [restarts EXCEPT !.all = @ + 1]
  /\ cursor' = 0 /\ began' = Never
  /\ UNCHANGED <<vars, opening, affinity, hosted, hooks, stepKnown, stall, firing, airVars>>

ProcessRestarts ==
  /\ restarts.all < MaxRestarts
  /\ restarts' = [all |-> restarts.all + 1, process |-> restarts.process + 1]
  /\ hosted' = FALSE
  /\ cursor' = 0 /\ began' = Never
  /\ hooks' = NoHooks
  /\ stepKnown' = FALSE
  /\ opening' = ""
  /\ stall' = Never
  /\ firing' = {}
  /\ UNCHANGED <<vars, affinity, airVars>>

(***************************************************************************)
(* The reconcile pass: it reads the snapshot, then calls OnTickStall.      *)
(***************************************************************************)

ReconcileReads ==
  /\ stall = Never
  /\ status = "LIVE"
  /\ stall' = now
  /\ UNCHANGED <<vars, opening, roomVars, hooks, stepKnown, firing, airVars, restarts>>

IsCold ==
  /\ Since(hooks.terminalAt, Suppression)
  /\ hooks.lastBidAt # Never
  /\ now - hooks.lastBidAt >= ColdGap
  /\ Since(hooks.coldAt, ColdGap)

OnTickStall ==
  /\ stall # Never
  /\ stall' = Never
  /\ \/ IsCold /\ hooks' = [hooks EXCEPT !.coldAt = now] /\ Fire("cold")
     \/ ~IsCold /\ UNCHANGED <<hooks, firing>>
  /\ UNCHANGED <<vars, opening, roomVars, stepKnown, airVars, restarts>>

(***************************************************************************)
(* The sidecar and fire.                                                   *)
(***************************************************************************)

\* failsGuardrail of the sidecar has no rule for an empty line.
FailsGuardrail(text) == text = "bad"

\* generateWithGuardrail: the model answers a text or fails.
GenerateWithGuardrail(gen) ==
  IF gen = "error" \/ FailsGuardrail(gen) THEN "canned" ELSE gen

\* llm.Complete: a trimmed text that is not empty, or an error.
Complete == {"clean", "bad", "error"}

\* What the call may come back with: the sidecar's answer, no usable answer
\* (transport error, timeout, non-200, undecodable body), or any text at all
\* from a sidecar that does not run its guardrail.
Replies == {GenerateWithGuardrail(g) : g \in Complete}
             \cup {"none"} \cup Texts

FailsAuctioneerGuardrail(text) == text \in {"empty", "bad"}

\* fire: the canned line unless the reply passes the backend's guardrail.
CommentaryFor(answer) ==
  IF answer = "none" \/ FailsAuctioneerGuardrail(answer) THEN "canned" ELSE answer

Broadcast(c, text) ==
  /\ aired' = aired \cup {c}
  /\ lastText' = text

\* Mutation of CallEnds: an unusable answer is only logged.
CallEnds_NoFallback(c, answer) ==
  /\ c \in firing
  /\ c.trigger = "open" /\ opening = "" => answer = "none"
  /\ firing' = firing \ {c}
  /\ IF answer = "none" THEN UNCHANGED airVars ELSE Broadcast(c, CommentaryFor(answer))
  /\ UNCHANGED <<vars, opening, roomVars, hooks, stepKnown, stall, restarts>>

\* The call of open runs under the request's context: once the handler has
\* returned, no answer reaches it any more.
CallEnds(c, answer) ==
  /\ c \in firing
  /\ c.trigger = "open" /\ opening = "" => answer = "none"
  /\ firing' = firing \ {c}
  /\ Broadcast(c, CommentaryFor(answer))
  /\ UNCHANGED <<vars, opening, roomVars, hooks, stepKnown, stall, restarts>>

\* Everything else that moves the auction.
EngineStep ==
  /\ \/ \E r \in RuleSet : FreezeRules(r)
     \/ \E u \in Users, r \in Reqs, a \in BidAmounts : Bid(u, r, a)
     \/ CloseAuctionDetailed
     \/ CancelAuction(Seller)
  /\ UNCHANGED hookVars

\* A call does not outlive its timeout, nor a reconcile pass its latency.
ATick ==
  /\ \A c \in firing : now < c.at + CallTimeout
  /\ stall # Never => now < stall + StallLatency
  /\ Tick
  /\ UNCHANGED hookVars

ANext ==
  \/ EngineStep
  \/ \E d \in Durations : HandleStart(d)
  \/ StartProject
  \/ OnAuctionStart
  \/ StartReplies
  \/ JoinOrLeave
  \/ Seed
  \/ Dispatch
  \/ FanoutRestarts
  \/ ProcessRestarts
  \/ ReconcileReads
  \/ OnTickStall
  \/ \E c \in firing, answer \in Replies : CallEnds(c, answer)
  \/ ATick

\* Every two seconds the fan-out sweeps the rooms with a connection, and only
\* those; a call ends at its timeout at the latest.  Nothing is assumed of what
\* the sidecar answers, of hints, or of anybody joining the room.
CommentaryFairness ==
  /\ WF_avars(hosted /\ (Seed \/ Dispatch))
  /\ WF_avars(\E c \in firing, answer \in Replies : CallEnds(c, answer))

ASpec == AInit /\ [][ANext]_avars /\ CommentaryFairness

-----------------------------------------------------------------------------
(***************************************************************************)
(* Properties                                                              *)
(***************************************************************************)

Calls == firing \cup aired

\* No surge or cold within the debounce of another of its kind.
Debounced ==
  \A c, d \in Calls :
    /\ c # d /\ c.trigger = d.trigger /\ c.life = d.life
    => /\ c.trigger = "surge" => c.at - d.at >= SurgeGap \/ d.at - c.at >= SurgeGap
       /\ c.trigger = "cold"  => c.at - d.at >= ColdGap \/ d.at - c.at >= ColdGap

\* A hammer only for a sale, and once unless the sale was dispatched again.
HammerOnce ==
  LET hammers == {c \in Calls : c.trigger = "hammer"} IN
  /\ hammers # {} => status = "SOLD"
  /\ \A c, d \in hammers : c.born = d.born => c = d

\* What the room hears is fit to be heard: surge and cold keep their debounce
\* also when the fan-out is restarted and dispatches every bid once more to
\* the same hooks, the hammer is called once unless the fan-out or the process
\* was restarted since, and no text that the guardrails catch is shown,
\* whatever the sidecar sent.
CommentaryIsFit == Debounced /\ HammerOnce /\ lastText \in {"clean", "canned"}

\* This run of the fan-out has dispatched the end, and was not seeded past it.
EndSeen == status \in Terminal /\ cursor = Len(stream) /\ began < Len(stream)

\* Once the fan-out has seen the auction end, the reconcile pass does not call
\* the room cold, although the snapshot it holds still says LIVE.
NoColdAfterEnd == [][OnTickStall /\ EndSeen => firing' = firing]_avars

\* In a room that keeps a connection every sale is announced: the hammer line
\* is shown although the sidecar may never answer, hints may be lost, and the
\* fan-out or the process may restart before or during the call.  Only with
\* affinity may a run of the fan-out pass over the sale, by seeding its cursor
\* after it.
HammerAired ==
  <>[]hosted =>
    <>[](status = "SOLD" => \/ \E c \in aired : c.trigger = "hammer"
                            \/ affinity /\ began = Len(stream))
=============================================================================
