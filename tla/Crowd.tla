------------------------------- MODULE Crowd -------------------------------
(***************************************************************************)
(* The demo crowd: a goroutine per auction that bids through the same      *)
(* script as a human, next to humans, the hammer, the seller's start,      *)
(* cancel, delete and PATCH handlers.                                      *)
(*                                                                         *)
(* handleStart spawns the crowd two calls after start_auction.lua and      *)
(* handleCancel stops it after cancel_auction.lua, so either may find the  *)
(* other half done.  The crowd reads the rules from the MySQL row, which a *)
(* PATCH may have taken away from the frozen rules, and decides each bid   *)
(* from a snapshot that is up to CallLatency old when the script runs.     *)
(***************************************************************************)
EXTENDS AuctionEngine

CONSTANTS
  Sims,         \* the sim identities, members of Users
  HumanReqs,    \* clientBidIds of humans; the crowd's are 1 .. BidsTarget
  DefaultOn,    \* LUMEN_DEMO_CROWD
  BidsTarget,   \* LUMEN_CROWD_BIDS
  QuietExtra,   \* crowdQuietExtraMs
  CallLatency,  \* longest time from a snapshot read to the bid it leads to
  Patches,      \* rules a PATCH may store
  MaxLost       \* bound: replies to accepted sim bids that get lost

\* A snapshot read and a script call time out after redisUnavailableTimeout
\* each, without retries: together below the 8 s of the quiet extra.
ASSUME CrowdAssumption ==
  /\ Sims \subseteq Users \ {Seller}
  /\ BidsTarget \in Nat /\ QuietExtra \in Nat /\ MaxLost \in Nat
  /\ CallLatency \in 0 .. QuietExtra
  /\ 1 .. BidsTarget \subseteq Reqs /\ HumanReqs \subseteq Reqs \ (1 .. BidsTarget)
  /\ \A r \in Patches : r \in RuleRecord /\ Validate(r)

VARIABLES
  row,        \* the auction_rules row
  starting,   \* what handleStart does next: "", "project", "spawn"
  stopping,   \* handleCancel has yet to call Stop
  deleted,    \* DeleteAuction has purged the Redis keys
  run,        \* CrowdSim.runs[aid] and the locals of its loop
  crowdRules, \* the rules the loop read, NoRules before
  lost        \* accepted sim bids whose reply was lost

handlerVars == <<row, starting, stopping, deleted>>
crowdVars   == <<run, crowdRules, lost>>
cvars == <<vars, handlerVars, crowdVars>>

NoRun == [pc |-> "gone", cancelled |-> FALSE, users |-> {}, bidsDone |-> 0,
          stopped |-> FALSE, user |-> NoUser, amount |-> 0, at |-> 0]

CInit ==
  /\ Init
  /\ row = NoRules /\ crowdRules = NoRules
  /\ starting = "" /\ stopping = FALSE /\ deleted = FALSE
  /\ run = NoRun
  /\ lost = 0

-----------------------------------------------------------------------------
(***************************************************************************)
(* The handlers around the crowd.                                          *)
(***************************************************************************)

\* handleFreeze freezes the rules of the row.
HandleFreeze(r) ==
  /\ FreezeRules(r)
  /\ row' = r
  /\ UNCHANGED <<starting, stopping, deleted, crowdVars>>

\* PATCH checks the status of the row and stores later, without a lock: a
\* request checked before the start may store at any time after it.
PatchStore(r) ==
  /\ status # "NONE"
  /\ row' = r
  /\ UNCHANGED <<vars, starting, stopping, deleted, crowdVars>>

HandleStart(d) ==
  /\ StartAuction(d)
  /\ starting' = "project"
  /\ UNCHANGED <<row, stopping, deleted, crowdVars>>

\* The LIVE write; when it fails the handler answers 500 and no crowd starts.
StartProject ==
  /\ starting = "project"
  /\ starting' \in {"spawn", ""}
  /\ UNCHANGED <<vars, row, stopping, deleted, crowdVars>>

\* The request's demoCrowd field, when present, overrides the environment.
CrowdEnabled(override) == IF override = "nil" THEN DefaultOn ELSE override = "on"

MaybeStart ==
  /\ starting = "spawn"
  /\ starting' = ""
  /\ \E override \in {"nil", "on", "off"} :
       run' = IF CrowdEnabled(override) /\ run.pc = "gone"
              THEN [NoRun EXCEPT !.pc = "begin"]
              ELSE run
  /\ UNCHANGED <<vars, row, stopping, deleted, crowdRules, lost>>

HandleCancel ==
  /\ CancelAuction(Seller)
  /\ stopping' = TRUE
  /\ UNCHANGED <<row, starting, deleted, crowdVars>>

\* Stop cancels the run's context when there is a run.
Stop ==
  /\ stopping
  /\ stopping' = FALSE
  /\ run' = [run EXCEPT !.cancelled = run.pc # "gone"]
  /\ UNCHANGED <<vars, row, starting, deleted, crowdRules, lost>>

\* DeleteAuction purges the Redis keys of a finished auction.
HandleDelete ==
  /\ status \in Terminal
  /\ ~deleted
  /\ deleted' = TRUE
  /\ UNCHANGED <<vars, row, starting, stopping, crowdVars>>

HumanBid(u, r, a) ==
  /\ u \notin Sims
  /\ Bid(u, r, a)
  /\ UNCHANGED <<handlerVars, crowdVars>>

Hammer ==
  /\ CloseAuctionDetailed
  /\ UNCHANGED <<handlerVars, crowdVars>>

-----------------------------------------------------------------------------
(***************************************************************************)
(* CrowdSim.loop.                                                          *)
(***************************************************************************)

\* Store.Snapshot's status, "" when the Hash is gone.
SnapshotStatus == IF deleted THEN "" ELSE status

\* The goroutine returns and its deferred functions delete the map entry.
Exit == run' = NoRun

\* GetRules and ensureSimUsers; the pool is what the upserts let through.
LoopBegin ==
  /\ run.pc = "begin"
  /\ \/ /\ Exit
        /\ UNCHANGED crowdRules
     \/ /\ row.mode = "ENGLISH"
        /\ \E pool \in SUBSET Sims \ {{}} :
             run' = [run EXCEPT !.pc = "loop", !.users = pool]
        /\ crowdRules' = row
  /\ UNCHANGED <<vars, handlerVars, lost>>

\* Mutation of StatsTick: only a sale ends the crowd.
StatsTick_SoldOnly ==
  /\ run.pc = "loop"
  /\ SnapshotStatus = "SOLD"
  /\ Exit
  /\ UNCHANGED <<vars, handlerVars, crowdRules, lost>>

\* The stats ticker notices the end; before, it only broadcasts a stats frame.
StatsTick ==
  /\ run.pc = "loop"
  /\ SnapshotStatus \notin {"", "LIVE"}
  /\ Exit
  /\ UNCHANGED <<vars, handlerVars, crowdRules, lost>>

\* nextCrowdAmount: k steps up, k drawn from 1 .. 3 and lowered until the bid
\* stays below the cap and in the money range; these are its possible results.
NextCrowdAmounts(cur) ==
  {a \in {cur + k * crowdRules.increment : k \in 1 .. 3} :
     a <= MaxMoney /\ (crowdRules.cap > 0 => a < crowdRules.cap)}

\* Mutation of InQuietTail: the tail is the anti-snipe window alone.
InQuietTail_WindowOnly == endAt - now <= crowdRules.extendWindow

InQuietTail == endAt - now <= crowdRules.extendWindow + QuietExtra

BudgetSpent == run.bidsDone >= BidsTarget

\* The bid timer fires for the last time: it is not re-armed.
BidTickStops ==
  /\ run.pc = "loop" /\ ~run.stopped
  /\ \/ BudgetSpent
     \/ SnapshotStatus = "LIVE" /\ (InQuietTail \/ NextCrowdAmounts(price) = {})
  /\ run' = [run EXCEPT !.stopped = TRUE]
  /\ UNCHANGED <<vars, handlerVars, crowdRules, lost>>

\* The bid timer fires and the snapshot leads to a bid.
BidTick ==
  /\ run.pc = "loop" /\ ~run.stopped /\ ~BudgetSpent
  /\ SnapshotStatus = "LIVE" /\ ~InQuietTail
  /\ \E u \in run.users, a \in NextCrowdAmounts(price) :
       run' = [run EXCEPT !.pc = "bid", !.user = u, !.amount = a, !.at = now]
  /\ UNCHANGED <<vars, handlerVars, crowdRules, lost>>

\* The clientBidId of the next sim bid, numbered by the bids counted so far.
SimReq == run.bidsDone + 1

\* After PlaceBid the timer is re-armed; counted is what bidsDone grows by.
BidDone(counted) ==
  run' = [run EXCEPT !.pc = "loop", !.user = NoUser, !.amount = 0, !.at = 0,
                     !.bidsDone = @ + counted]

\* The script accepts; the reply arrives or is lost.  A sale is not counted.
SimBid ==
  /\ run.pc = "bid" /\ ~deleted
  /\ PlaceBid(run.user, SimReq, run.amount)
  /\ \/ BidDone(IF status' = "SOLD" THEN 0 ELSE 1) /\ lost' = lost
     \/ lost < MaxLost /\ BidDone(0) /\ lost' = lost + 1
  /\ UNCHANGED <<handlerVars, crowdRules>>

\* The script rejects, answers DUPLICATE, or is never reached.
SimBidRefused ==
  /\ run.pc = "bid"
  /\ BidDone(0)
  /\ UNCHANGED <<vars, handlerVars, crowdRules, lost>>

\* crowdMaxLifetime ends the context.
Expire ==
  /\ run.pc # "gone" /\ ~run.cancelled
  /\ run' = [run EXCEPT !.cancelled = TRUE]
  /\ UNCHANGED <<vars, handlerVars, crowdRules, lost>>

\* The select sees ctx.Done; so does every call made with the context.
ContextDone ==
  /\ run.pc # "gone" /\ run.cancelled
  /\ Exit
  /\ UNCHANGED <<vars, handlerVars, crowdRules, lost>>

\* Time does not pass a bid whose snapshot is CallLatency old.
CrowdTick ==
  /\ run.pc = "bid" => now < run.at + CallLatency
  /\ Tick
  /\ UNCHANGED <<handlerVars, crowdVars>>

CNext ==
  \/ \E r \in RuleSet : HandleFreeze(r)
  \/ \E r \in Patches : PatchStore(r)
  \/ \E d \in Durations : HandleStart(d)
  \/ StartProject
  \/ MaybeStart
  \/ HandleCancel
  \/ Stop
  \/ HandleDelete
  \/ \E u \in Users, r \in HumanReqs, a \in BidAmounts : HumanBid(u, r, a)
  \/ Hammer
  \/ LoopBegin
  \/ StatsTick
  \/ BidTickStops
  \/ BidTick
  \/ SimBid
  \/ SimBidRefused
  \/ Expire
  \/ ContextDone
  \/ CrowdTick

\* A handler that has begun goes on, the goroutine is scheduled and its calls
\* return; nothing is assumed of the lifetime, of sellers and of humans.
CrowdFairness ==
  /\ WF_cvars(StartProject) /\ WF_cvars(MaybeStart)
  /\ WF_cvars(LoopBegin)
  /\ WF_cvars(StatsTick)
  /\ WF_cvars(SimBid \/ SimBidRefused)
  /\ WF_cvars(ContextDone)

CSpec == CInit /\ [][CNext]_cvars /\ CrowdFairness

-----------------------------------------------------------------------------
(***************************************************************************)
(* Properties                                                              *)
(***************************************************************************)

SimBids == {i \in 1 .. Len(stream) :
              stream[i].type \in BidTypes /\ stream[i].user \in Sims}

\* Buy-now is reserved for humans: no sim bid reaches the cap.
NeverBuys == rules.cap > 0 => \A i \in SimBids : stream[i].amount < rules.cap

\* The quiet tail: no sim bid is accepted inside the anti-snipe window.
NeverSnipes == \A i \in SimBids : stream[i].endAt - stream[i].at > rules.extendWindow

\* The engineering boundaries of crowd.go.  As long as the row that the crowd
\* read is what was frozen, a bot neither buys nor extends the auction nor
\* outbids a human at the wire, although humans bid and time passes between
\* its snapshot and its bid; and the bid budget holds across lost replies,
\* DUPLICATE answers and reused clientBidIds: only a bid whose reply was lost
\* escapes the count.  In HYBRID_REVEAL, where a PATCH may have let the crowd
\* in, an entry names the previous leader and the log does not tell the bids
\* of the crowd.
CrowdBoundaries ==
  /\ crowdRules = rules => NeverBuys /\ NeverSnipes
  /\ rules.mode # "HYBRID_REVEAL" => Cardinality(SimBids) <= BidsTarget + lost

\* Once the auction has ended the crowd goes away by itself, also when the
\* cancel's Stop ran before handleStart had spawned it; a deleted auction is
\* the exception, its crowd lives until crowdMaxLifetime.
CrowdEnds ==
  status \in Terminal ~> (deleted \/ (run.pc = "gone" /\ starting = ""))
=============================================================================
