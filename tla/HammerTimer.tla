---------------------------- MODULE HammerTimer ----------------------------
(***************************************************************************)
(* Who drops the hammer.  The Timer Workers close auctions that the global *)
(* index auction:active reports as due.  The index is not written by the   *)
(* scripts: the start and cancel handlers and the Timer maintain it with   *)
(* Redis commands of their own, each of which may be delayed, fail, or be  *)
(* lost with the process that was about to send it.                        *)
(*                                                                         *)
(* Between two Redis commands anything may happen, so every command is an  *)
(* action; a worker's program counter and its one local are in timer.  The *)
(* mode a close reads first is frozen and is read with the script.         *)
(***************************************************************************)
EXTENDS AuctionEngine

CONSTANTS
  Workers,   \* processes running runTimerWorker
  MaxFaults  \* bound: failed Redis commands and crashes in a behaviour

ASSUME TimerAssumption == Workers # {} /\ MaxFaults \in Nat

VARIABLES
  active,     \* the auction's score in auction:active, 0 when absent
  starting,   \* endAtMs the start handler has yet to track, 0 for none
  cancelling, \* the cancel handler has yet to untrack
  timer,      \* each worker: where it is and the time it holds
  faults      \* faults so far

index == <<active, starting, cancelling, timer, faults>>
tvars == <<vars, index>>

At(pc, ms) == [pc |-> pc, ms |-> ms]
Idle == At("idle", 0)
Boot == At("boot", 0)

TimerTypeOK ==
  /\ active \in Nat /\ starting \in Nat
  /\ cancelling \in BOOLEAN
  /\ timer \in [Workers -> [pc : {"boot", "idle", "due", "close", "untrack", "track"}, ms : Nat]]
  /\ faults \in 0 .. MaxFaults

TInit ==
  /\ Init
  /\ active = 0
  /\ starting = 0
  /\ cancelling = FALSE
  /\ timer = [w \in Workers |-> Boot]
  /\ faults = 0

Goto(w, t) == timer' = [timer EXCEPT ![w] = t]

-----------------------------------------------------------------------------
\* StartAuction: the script commits LIVE, the ZADD follows.
HandleStart(d) ==
  /\ StartAuction(d)
  /\ starting' = now + d
  /\ UNCHANGED <<active, cancelling, timer, faults>>

TrackStarted ==
  /\ starting # 0
  /\ active' = starting
  /\ starting' = 0
  /\ UNCHANGED <<vars, cancelling, timer, faults>>

\* handleCancel: the script commits CANCELLED, the ZREM follows.
HandleCancel(c) ==
  /\ CancelAuction(c)
  /\ cancelling' = TRUE
  /\ UNCHANGED <<active, starting, timer, faults>>

UntrackCancelled ==
  /\ cancelling
  /\ active' = 0
  /\ cancelling' = FALSE
  /\ UNCHANGED <<vars, starting, timer, faults>>

\* hammerDue: RedisNowMs, then DueAuctions up to that time.
RedisNowMs(w) ==
  /\ timer[w].pc = "idle"
  /\ Goto(w, At("due", now))
  /\ UNCHANGED <<vars, active, starting, cancelling, faults>>

DueAuctions(w) ==
  /\ timer[w].pc = "due"
  /\ Goto(w, IF active # 0 /\ active <= timer[w].ms THEN At("close", 0) ELSE Idle)
  /\ UNCHANGED <<vars, active, starting, cancelling, faults>>

\* Mutation of AfterClose: the refreshed score guesses one more extension.
AfterClose_Guess(code) ==
  IF code = "ERR_NOT_DUE" THEN At("track", endAt + rules.extendSec) ELSE At("untrack", 0)

\* Mutation of AfterClose: only a hammer of its own makes the Timer untrack.
AfterClose_OwnOnly(code) ==
  CASE code = "ERR_NOT_DUE" -> At("track", endAt)
    [] code = "OK" -> At("untrack", 0)
    [] OTHER -> Idle

\* What closeDue does to the index next.
AfterClose(code) ==
  IF code = "ERR_NOT_DUE" THEN At("track", endAt) ELSE At("untrack", 0)

\* closeDue.  ERR_INTERNAL does not occur: see StreamLockstep.
CloseDue(w) ==
  /\ timer[w].pc = "close"
  /\ Goto(w, AfterClose(CloseCode))
  /\ \/ CloseAuctionDetailed
     \/ CloseCode # "OK" /\ UNCHANGED vars
  /\ UNCHANGED <<active, starting, cancelling, faults>>

UntrackActive(w) ==
  /\ timer[w].pc = "untrack"
  /\ active' = 0
  /\ Goto(w, Idle)
  /\ UNCHANGED <<vars, starting, cancelling, faults>>

TrackActive(w) ==
  /\ timer[w].pc = "track"
  /\ active' = timer[w].ms
  /\ Goto(w, Idle)
  /\ UNCHANGED <<vars, starting, cancelling, faults>>

\* Mutation of ReconcileActive: the index is rebuilt at startup only.
ReconcileActive_BootOnly(w) ==
  /\ timer[w].pc = "boot"
  /\ Goto(w, IF status = "LIVE" /\ endAt > 0 THEN At("track", endAt) ELSE Idle)
  /\ UNCHANGED <<vars, active, starting, cancelling, faults>>

\* reconcileActive up to its TrackActive: the Snapshot decides; a pass over an
\* auction that is not LIVE changes nothing except that startup is over.
ReconcileActive(w) ==
  /\ timer[w].pc \in {"boot", "idle"}
  /\ Goto(w, IF status = "LIVE" /\ endAt > 0 THEN At("track", endAt) ELSE Idle)
  /\ UNCHANGED <<vars, active, starting, cancelling, faults>>

-----------------------------------------------------------------------------
(* Faults: a Redis command that returns an error is logged and dropped; a  *)
(* process that dies loses what it was about to send, and its Timer starts *)
(* again with the initial reconcile pass.                                  *)

Faulty == faults < MaxFaults /\ faults' = faults + 1

TrackFails ==
  /\ Faulty
  /\ starting # 0
  /\ starting' = 0
  /\ UNCHANGED <<vars, active, cancelling, timer>>

UntrackFails ==
  /\ Faulty
  /\ cancelling
  /\ cancelling' = FALSE
  /\ UNCHANGED <<vars, active, starting, timer>>

\* The command answers an error: the worker gives up this pass.
TimerCommandFails(w) ==
  /\ Faulty
  /\ timer[w].pc \notin {"boot", "idle"}
  /\ Goto(w, Idle)
  /\ UNCHANGED <<vars, active, starting, cancelling>>

\* A script may have committed when the worker dies: CloseDue, then this.
TimerRestarts(w) ==
  /\ Faulty
  /\ timer[w] # Boot
  /\ Goto(w, Boot)
  /\ UNCHANGED <<vars, active, starting, cancelling>>

-----------------------------------------------------------------------------
TNext ==
  \/ \E r \in RuleSet : FreezeRules(r) /\ UNCHANGED index
  \/ \E d \in Durations : HandleStart(d)
  \/ TrackStarted
  \/ \E u \in Users, r \in Reqs, a \in BidAmounts : Bid(u, r, a) /\ UNCHANGED index
  \/ \E c \in Users : HandleCancel(c)
  \/ UntrackCancelled
  \/ \E w \in Workers :
       \/ RedisNowMs(w) \/ DueAuctions(w) \/ CloseDue(w)
       \/ UntrackActive(w) \/ TrackActive(w) \/ ReconcileActive(w)
       \/ TimerCommandFails(w) \/ TimerRestarts(w)
  \/ TrackFails
  \/ UntrackFails
  \/ Tick /\ UNCHANGED index

(***************************************************************************)
(* Fairness.  Redis TIME advances.  A worker that sent a command gets its  *)
(* answer or an error, and goSupervised restarts it after a panic, so each *)
(* command is weakly fair.  At the select the scan and the reconcile ticks *)
(* compete: each ticker keeps one tick buffered and Go chooses among ready *)
(* cases at random, so neither is passed over for ever - strong fairness.  *)
(***************************************************************************)
TimerFairness ==
  /\ WF_tvars(Tick /\ UNCHANGED index)
  /\ WF_tvars(TrackStarted)
  /\ WF_tvars(UntrackCancelled)
  /\ \A w \in Workers :
       /\ SF_tvars(RedisNowMs(w))
       /\ SF_tvars(ReconcileActive(w))
       /\ WF_tvars(DueAuctions(w))
       /\ WF_tvars(CloseDue(w))
       /\ WF_tvars(UntrackActive(w))
       /\ WF_tvars(TrackActive(w))

TSpec == TInit /\ [][TNext]_tvars /\ TimerFairness

-----------------------------------------------------------------------------
\* A score in the index may be early but never late: however anti-snipe, the
\* start handler's delayed ZADD, refreshes and reconciles interleave, a LIVE
\* auction that is indexed is reported due no later than its endAtMs.
IndexNeverLate == status = "LIVE" /\ active # 0 => active <= endAt

\* A live auction ends without the help of another bid, although the ZADD of
\* its start was lost, its score went stale or its worker died mid-close
\* (endAt > MaxTime: the bounded clock never gets there).
HammerFalls == status = "LIVE" ~> (status \in Terminal \/ endAt > MaxTime)

\* The index forgets a finished auction for good, although delayed commands
\* may put it back after it was removed.
IndexDrains == (status \in Terminal /\ endAt <= MaxTime) ~> [](active = 0)
=============================================================================
