------------------------- MODULE HammerTimer_proofs -------------------------
(***************************************************************************)
(* Theorems about HammerTimer: the composition is still the engine, so its *)
(* theorems carry over, and the index is never late.                       *)
(***************************************************************************)
EXTENDS HammerTimer, AuctionEngine_proofs

\* Every step of the composition is a step of the engine or leaves it alone.
LEMMA StepIsEngineStep == TNext => [Next]_vars
  BY DEF TNext, HandleStart, TrackStarted, HandleCancel, UntrackCancelled, RedisNowMs,
         DueAuctions, CloseDue, UntrackActive, TrackActive, ReconcileActive,
         TimerCommandFails, TimerRestarts, TrackFails, UntrackFails, Next

\* Handlers, workers and faults add no behaviour to the scripts: whatever is
\* proved of the engine holds with any number of Timers, races and crashes.
THEOREM TimerRefinesEngine == TSpec => Spec
<1>1. TInit => Init
  BY DEF TInit
<1>2. [TNext]_tvars => [Next]_vars
  BY StepIsEngineStep DEF tvars
<1> QED
  BY <1>1, <1>2, PTL DEF TSpec, Spec

\* The engine's endAtMs never moves back, and is 0 until the start.
EndIsZero == status \in {"NONE", "SCHEDULED"} => endAt = 0

\* endAtMs only grows.
LEMMA EndAtMonotone ==
  ASSUME TypeOK, EndIsZero, [Next]_vars
  PROVE  EndIsZero' /\ endAt <= endAt'
<1>0. endAt \in Nat /\ now \in Nat
  BY DEF TypeOK
<1>1. ASSUME NEW r \in RuleSet, FreezeRules(r) PROVE EndIsZero' /\ endAt <= endAt'
  BY <1>0, <1>1 DEF FreezeRules, EndIsZero
<1>2. ASSUME NEW d \in Durations, StartAuction(d) PROVE EndIsZero' /\ endAt <= endAt'
  <2>1. endAt = 0 /\ endAt' = now + d /\ d \in Nat /\ status' = "LIVE"
    BY <1>2, BoundsAssumption DEF StartAuction, EndIsZero
  <2> QED
    BY <1>0, <2>1 DEF EndIsZero
<1>3. ASSUME NEW u \in Users, NEW r \in Reqs, NEW a \in BidAmounts, Bid(u, r, a)
      PROVE  EndIsZero' /\ endAt <= endAt'
  <2>0. rules.extendSec \in Nat
    BY DEF TypeOK, RuleRecord
  <2>1. CASE \E su, sa : \/ BidAccepted(u, r, a, su, sa)
                         \/ BidExtended(u, r, a, su, sa)
                         \/ BidSold(u, r, a)
    <3>1. status = "LIVE" /\ status' \in {"LIVE", "SOLD"}
      BY <2>1, AscendingAdmits DEF BidAccepted, BidExtended, BidSold
    <3>2. endAt' = endAt \/ endAt' = endAt + rules.extendSec
      BY <2>1 DEF BidAccepted, BidExtended, BidSold
    <3> QED
      BY <1>0, <2>0, <3>1, <3>2 DEF EndIsZero
  <2>2. CASE PlaceBidSealed(u, r, a)
    BY <1>0, <2>2 DEF PlaceBidSealed, EndIsZero
  <2> QED
    BY <1>3, <2>1, <2>2 DEF Bid, PlaceBid, PlaceBidHybrid
<1>4. CASE CloseAuctionDetailed
  <2>1. endAt' = endAt /\ status' \in {"SOLD", "NO_BID"}
    BY <1>4 DEF CloseAuctionDetailed, CloseAuction, CloseAuctionSealed,
                CloseAuctionAllPay, CloseNoBid, RevealAndSell
  <2> QED
    BY <1>0, <2>1 DEF EndIsZero
<1>5. ASSUME NEW c \in Users, CancelAuction(c) PROVE EndIsZero' /\ endAt <= endAt'
  BY <1>0, <1>5 DEF CancelAuction, EndIsZero
<1>6. CASE Tick
  BY <1>0, <1>6 DEF Tick, hash, EndIsZero
<1>7. CASE UNCHANGED vars
  BY <1>0, <1>7 DEF vars, hash, EndIsZero
<1> QED
  BY <1>1, <1>2, <1>3, <1>4, <1>5, <1>6, <1>7 DEF Next

\* Every time anybody holds for the index is at most the current endAtMs.
TimesBehindEnd ==
  /\ EndIsZero
  /\ active <= endAt
  /\ starting <= endAt
  /\ \A w \in Workers : timer[w].pc = "track" => timer[w].ms <= endAt

\* The inductive invariant of the index.
IndexInv == TypeOK /\ TimerTypeOK /\ TimesBehindEnd

\* It holds at the start.
LEMMA IndexInit == TInit => IndexInv
<1> SUFFICES ASSUME TInit PROVE IndexInv
  OBVIOUS
<1>1. TypeOK
  BY InitType DEF TInit
<1>2. TimerTypeOK
  <2>1. timer \in [Workers -> [pc : {"boot", "idle", "due", "close", "untrack", "track"}, ms : Nat]]
    BY DEF TInit, Boot, At
  <2>2. cancelling \in BOOLEAN
    BY DEF TInit
  <2>3. active \in Nat /\ starting \in Nat /\ faults \in 0 .. MaxFaults
    BY TimerAssumption DEF TInit
  <2> QED
    BY <2>1, <2>2, <2>3 DEF TimerTypeOK
<1>3. TimesBehindEnd
  BY DEF TInit, Init, TimesBehindEnd, EndIsZero, Boot, At
<1> QED
  BY <1>1, <1>2, <1>3 DEF IndexInv

\* A worker is moved to a typed place.
LEMMA GotoType ==
  ASSUME TimerTypeOK, NEW w \in Workers, NEW t, Goto(w, t),
         t \in [pc : {"boot", "idle", "due", "close", "untrack", "track"}, ms : Nat]
  PROVE  /\ timer' \in [Workers -> [pc : {"boot", "idle", "due", "close", "untrack", "track"}, ms : Nat]]
         /\ \A v \in Workers : timer'[v] = IF v = w THEN t ELSE timer[v]
  BY DEF TimerTypeOK, Goto

\* Every step keeps it.
LEMMA IndexNext == IndexInv /\ [TNext]_tvars => IndexInv'
<1> SUFFICES ASSUME IndexInv, [TNext]_tvars PROVE IndexInv'
  OBVIOUS
<1> DEFINE Place == [pc : {"boot", "idle", "due", "close", "untrack", "track"}, ms : Nat]
<1>0. TypeOK /\ TimerTypeOK /\ TimesBehindEnd
  BY DEF IndexInv
<1>1. [Next]_vars
  BY StepIsEngineStep DEF tvars
<1>2. TypeOK' /\ EndIsZero' /\ endAt <= endAt' /\ endAt \in Nat /\ endAt' \in Nat
  <2>1. TypeOK' /\ EndIsZero' /\ endAt <= endAt'
    BY <1>0, <1>1, NextType, EndAtMonotone DEF TimesBehindEnd
  <2>2. endAt \in Nat
    BY <1>0 DEF TypeOK
  <2>3. endAt' \in Nat
    BY <2>1 DEF TypeOK
  <2> QED
    BY <2>1, <2>2, <2>3
<1>3. /\ active \in Nat /\ starting \in Nat /\ now \in Nat /\ faults \in Nat
      /\ \A w \in Workers : timer[w] \in Place
  BY <1>0, TimerAssumption DEF TypeOK, TimerTypeOK
<1>4. ASSUME UNCHANGED index PROVE IndexInv'
  <2>1. TimerTypeOK'
    BY <1>0, <1>4 DEF TimerTypeOK, index
  <2>2. TimesBehindEnd'
    BY <1>0, <1>2, <1>3, <1>4 DEF TimesBehindEnd, index
  <2> QED
    BY <1>2, <2>1, <2>2 DEF IndexInv
<1>5. ASSUME NEW d \in Durations, HandleStart(d) PROVE IndexInv'
  <2>1. /\ starting' = now + d /\ endAt' = now + d /\ d \in Nat
        /\ UNCHANGED <<active, cancelling, timer, faults>>
    BY <1>5, BoundsAssumption DEF HandleStart, StartAuction
  <2>2. TimerTypeOK'
    BY <1>0, <1>3, <2>1 DEF TimerTypeOK
  <2>3. TimesBehindEnd'
    BY <1>0, <1>2, <1>3, <2>1 DEF TimesBehindEnd
  <2> QED
    BY <1>2, <2>2, <2>3 DEF IndexInv
<1>6. ASSUME TrackStarted \/ UntrackCancelled \/ TrackFails \/ UntrackFails
             \/ \E c \in Users : HandleCancel(c)
      PROVE  IndexInv'
  <2>0. timer' = timer /\ cancelling' \in BOOLEAN
    BY <1>0, <1>6 DEF TimerTypeOK, TrackStarted, UntrackCancelled, TrackFails, UntrackFails,
                      HandleCancel
  <2>01. active' \in Nat /\ starting' \in Nat
    BY <1>3, <1>6 DEF TrackStarted, UntrackCancelled, TrackFails, UntrackFails, HandleCancel
  <2>02. faults' \in 0 .. MaxFaults
    <3>1. faults \in 0 .. MaxFaults /\ MaxFaults \in Nat
      BY <1>0, TimerAssumption DEF TimerTypeOK
    <3> QED
      BY <1>6, <3>1 DEF TrackStarted, UntrackCancelled, TrackFails, UntrackFails, Faulty,
                        HandleCancel
  <2>1. TimerTypeOK'
    BY <1>0, <2>0, <2>01, <2>02 DEF TimerTypeOK
  <2>2. TimesBehindEnd'
    BY <1>0, <1>2, <1>3, <1>6
       DEF TimesBehindEnd, TrackStarted, UntrackCancelled, TrackFails, UntrackFails,
           HandleCancel
  <2> QED
    BY <1>2, <2>1, <2>2 DEF IndexInv
<1>7. ASSUME NEW w \in Workers, NEW t \in Place, Goto(w, t),
             t.pc = "track" => t.ms <= endAt',
             active' = active \/ active' = 0 \/ (timer[w].pc = "track" /\ active' = timer[w].ms),
             UNCHANGED <<starting, cancelling>>, faults' \in 0 .. MaxFaults
      PROVE  IndexInv'
  <2>1. /\ timer' \in [Workers -> Place]
        /\ \A v \in Workers : timer'[v] = IF v = w THEN t ELSE timer[v]
    BY <1>0, <1>7, GotoType
  <2>2. active' \in Nat /\ active' <= endAt
    BY <1>0, <1>2, <1>3, <1>7 DEF TimesBehindEnd
  <2>3. TimerTypeOK'
    BY <1>0, <1>7, <2>1, <2>2 DEF TimerTypeOK
  <2>4. active' <= endAt' /\ starting' <= endAt'
    BY <1>0, <1>2, <1>3, <1>7, <2>2 DEF TimesBehindEnd
  <2>5. ASSUME NEW v \in Workers, timer'[v].pc = "track" PROVE timer'[v].ms <= endAt'
    <3>1. CASE v = w
      BY <1>7, <2>1, <2>5, <3>1
    <3>2. CASE v # w
      <4>1. timer'[v] = timer[v] /\ timer[v].ms \in Nat /\ timer[v].ms <= endAt
        BY <1>0, <1>3, <2>1, <2>5, <3>2 DEF TimesBehindEnd
      <4> QED
        BY <1>2, <4>1
    <3> QED
      BY <3>1, <3>2
  <2>6. TimesBehindEnd'
    BY <1>2, <2>4, <2>5 DEF TimesBehindEnd
  <2> QED
    BY <1>2, <2>3, <2>6 DEF IndexInv
<1>8. /\ Idle \in Place /\ Boot \in Place /\ At("close", 0) \in Place
      /\ At("untrack", 0) \in Place
      /\ \A ms \in Nat : At("due", ms) \in Place /\ At("track", ms) \in Place
      /\ Idle.pc = "idle" /\ Boot.pc = "boot" /\ At("close", 0).pc = "close"
      /\ At("untrack", 0).pc = "untrack"
      /\ \A ms : At("due", ms).pc = "due" /\ At("track", ms).ms = ms
  BY DEF Idle, Boot, At
<1>9. ASSUME NEW w \in Workers,
             \/ RedisNowMs(w) \/ DueAuctions(w) \/ CloseDue(w)
             \/ UntrackActive(w) \/ TrackActive(w) \/ ReconcileActive(w)
             \/ TimerCommandFails(w) \/ TimerRestarts(w)
      PROVE  IndexInv'
  <2> HIDE DEF Place
  <2>0. endAt <= endAt' /\ faults \in 0 .. MaxFaults /\ MaxFaults \in Nat
    BY <1>0, <1>2, TimerAssumption DEF TimerTypeOK
  <2>1. CASE RedisNowMs(w)
    BY <1>3, <1>7, <1>8, <2>0, <2>1 DEF RedisNowMs
  <2>2. CASE DueAuctions(w)
    BY <1>7, <1>8, <2>0, <2>2 DEF DueAuctions
  <2>3. CASE CloseDue(w)
    BY <1>2, <1>7, <1>8, <2>0, <2>3 DEF CloseDue, AfterClose
  <2>4. CASE UntrackActive(w)
    BY <1>7, <1>8, <2>0, <2>4 DEF UntrackActive
  <2>5. CASE TrackActive(w)
    BY <1>7, <1>8, <2>0, <2>5 DEF TrackActive
  <2>6. CASE ReconcileActive(w)
    BY <1>2, <1>7, <1>8, <2>0, <2>6 DEF ReconcileActive
  <2>7. CASE TimerCommandFails(w)
    BY <1>7, <1>8, <2>0, <2>7 DEF TimerCommandFails, Faulty
  <2>8. CASE TimerRestarts(w)
    BY <1>7, <1>8, <2>0, <2>8 DEF TimerRestarts, Faulty
  <2> QED
    BY <1>9, <2>1, <2>2, <2>3, <2>4, <2>5, <2>6, <2>7, <2>8
<1>10. CASE UNCHANGED tvars
  BY <1>4, <1>10 DEF tvars
<1> QED
  BY <1>4, <1>5, <1>6, <1>9, <1>10 DEF TNext

\* A LIVE auction in the index is reported due no later than its endAtMs, for
\* any number of workers, faults and extensions.
THEOREM IndexIsNeverLate == TSpec => []IndexNeverLate
<1>1. IndexInv => IndexNeverLate
  BY DEF IndexInv, TimesBehindEnd, IndexNeverLate
<1>2. TInit => IndexInv
  BY IndexInit
<1>3. IndexInv /\ [TNext]_tvars => IndexInv'
  BY IndexNext
<1> QED
  BY <1>1, <1>2, <1>3, PTL DEF TSpec

\* The log of an auction hammered by racing, crashing Timers is still gap-free
\* and ends in its outcome, with every bid before and the hammer after the end.
THEOREM TimerKeepsLog == TSpec => [](StreamLockstep /\ TerminalEventLast /\ HammerSeparatesBids)
<1>1. CoreInv => StreamLockstep /\ TerminalEventLast /\ HammerSeparatesBids
  BY DEF CoreInv
<1> QED
  BY <1>1, TimerRefinesEngine, CoreInvariant, PTL
=============================================================================
