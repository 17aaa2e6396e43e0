--------------------------- MODULE Sidecar_proofs ---------------------------
(***************************************************************************)
(* Theorems about the two components that face the AI sidecar: what the    *)
(* auctioneer says and when (Commentary), and the floor and the advice a   *)
(* formal auction starts from (Formal).  Both compose with the engine, so  *)
(* its invariants carry over; the two specifications are independent.      *)
(***************************************************************************)
EXTENDS Commentary, Formal, AuctionEngine_proofs, SequenceTheorems

-----------------------------------------------------------------------------
(***************************************************************************)
(* The engine under the auctioneer.                                        *)
(***************************************************************************)

\* Every step of the auctioneer is a step of the engine or leaves it alone.
LEMMA AuctioneerStepIsEngineStep == [ANext]_avars => [Next]_vars
<1>1. EngineStep => Next
  BY UsersAssumption DEF EngineStep, Next
<1>2. ASSUME NEW d \in Durations, HandleStart(d) PROVE Next
  BY <1>2 DEF HandleStart, Next
<1>3. ATick => Next
  BY DEF ATick, Next
<1> QED
  BY <1>1, <1>2, <1>3
     DEF ANext, avars, StartProject, OnAuctionStart, StartReplies, JoinOrLeave, Seed,
         Dispatch, FanoutRestarts, ProcessRestarts, ReconcileReads, OnTickStall, CallEnds

\* Detectors, calls and restarts add no behaviour to the scripts.
THEOREM AuctioneerRefinesEngine == ASpec => Spec
<1>1. AInit => Init
  BY DEF AInit
<1> QED
  BY <1>1, AuctioneerStepIsEngineStep, PTL DEF ASpec, Spec

\* The log only grows, and no ended auction adds to it.
LEMMA LogGrows ==
  ASSUME CoreInv, [Next]_vars
  PROVE  /\ Len(stream) \in Nat /\ Len(stream') \in Nat /\ Len(stream) <= Len(stream')
         /\ \A i \in 1 .. Len(stream) : stream'[i] = stream[i]
         /\ status' \in Terminal /\ status \notin Terminal => Len(stream) < Len(stream')
         /\ status \in Terminal => stream' = stream /\ status' = status
<1>0. TypeOK /\ CoreInv'
  BY NextCore DEF CoreInv
<1>1. Len(stream) \in Nat /\ Len(stream') \in Nat
  <2>1. TypeOK'
    BY <1>0 DEF CoreInv
  <2>2. stream \in Seq(Event) /\ stream' \in Seq(Event)
    BY <1>0, <2>1 DEF TypeOK
  <2> QED
    BY <2>2
<1>2. \E k \in Nat : /\ Len(stream') = Len(stream) + k
                     /\ \A i \in 1 .. Len(stream) : stream'[i] = stream[i]
  <2>1. CASE stream = <<>> /\ stream' = <<>>
    BY <1>1, <2>1
  <2>2. ASSUME NEW u \in Users, NEW r \in Reqs, NEW a \in BidAmounts,
               NEW su \in Users \cup {NoUser}, NEW sa \in Nat, AscendingBid(u, r, a, su, sa)
        PROVE  Grows(1) \/ Grows(2)
    BY <2>2, AscendingAppends, BoundsAssumption
  <2>3. winner \in Users \cup {NoUser} /\ price \in Nat
    BY <1>0 DEF TypeOK
  <2>4. CASE \E u \in Users, r \in Reqs, a \in BidAmounts :
               \/ AscendingBid(u, r, a, u, a)
               \/ AscendingBid(u, r, a, winner, price)
    <3>1. Grows(1) \/ Grows(2)
      BY <2>2, <2>3, <2>4, BoundsAssumption
    <3> QED
      BY <3>1 DEF Grows
  <2>5. CASE \E k \in Nat : Aside(k)
    BY <2>5 DEF Aside, Appends
  <2> QED
    BY <2>1, <2>4, <2>5, StepShape
<1>3. ASSUME status' \in Terminal, status \notin Terminal PROVE Len(stream) < Len(stream')
  <2>1. /\ stream' # <<>> /\ stream'[Len(stream')].type = TerminalType[status']
        /\ TerminalType[status'] \in TerminalTypes
    BY <1>0, <1>3 DEF CoreInv, TerminalEventLast, TerminalType, TerminalTypes, Terminal
  <2>2. Len(stream') # 0
    <3>1. stream' \in Seq(Event)
      BY <1>0 DEF CoreInv, TypeOK
    <3> QED
      BY <2>1, <3>1
  <2>3. Len(stream') # Len(stream)
    <3> SUFFICES ASSUME Len(stream') = Len(stream) PROVE FALSE
      OBVIOUS
    <3>1. Len(stream) \in 1 .. Len(stream)
      BY <1>1, <2>2
    <3>2. stream[Len(stream)].type \in TerminalTypes
      BY <1>2, <2>1, <3>1
    <3> QED
      BY <1>3, <3>1, <3>2 DEF CoreInv, TerminalEventLast
  <2> QED
    BY <1>1, <1>2, <2>3
<1>4. ASSUME status \in Terminal PROVE stream' = stream /\ status' = status
  BY <1>4, EndedStays DEF hash
<1> QED
  BY <1>1, <1>2, <1>3, <1>4

-----------------------------------------------------------------------------
(***************************************************************************)
(* What the detectors remember of the calls they made.                     *)
(***************************************************************************)

Instant == Nat \cup {Never}

CallRecord == [trigger : Triggers, at : Nat, born : Nat, life : Nat]

HookRecord ==
  [lastBidAt : Instant, lastBid : Nat, surgeAt : Instant, coldAt : Instant,
   terminalAt : Instant, openFired : BOOLEAN]

AuctioneerTypeOK ==
  /\ cursor \in Nat /\ cursor <= Len(stream) /\ began \in Instant
  /\ hooks \in HookRecord
  /\ stall \in Instant
  /\ firing \in SUBSET CallRecord /\ aired \in SUBSET CallRecord
  /\ restarts \in [all : Nat, process : Nat]

\* The fan-out has passed the announcement of the sale.
SaleSeen(upto) == \E i \in 1 .. upto : stream[i].type = "AUCTION_SOLD"

\* A call leaves a mark behind which the detectors and the cursor stay: the
\* debounce maps within the life of the process, the sale in the Stream.
CallsAreNoted ==
  \A c \in Calls :
    /\ c.born <= restarts.all /\ c.life <= restarts.process
    /\ c.trigger = "surge" /\ c.life = restarts.process => c.at <= hooks.surgeAt
    /\ c.trigger = "cold" /\ c.life = restarts.process => c.at <= hooks.coldAt
    /\ c.trigger = "hammer" => SaleSeen(Len(stream))
    /\ c.trigger = "hammer" /\ c.born = restarts.all => SaleSeen(cursor)

\* At most one hammer between two restarts.
HammerUnique ==
  \A c, d \in Calls :
    c.trigger = "hammer" /\ d.trigger = "hammer" /\ c.born = d.born => c = d

\* A reconcile pass that still believes the auction LIVE is younger than the
\* suppression: it began before the fan-out saw the end.
StallIsYoung ==
  stall # Never =>
    /\ stall <= now /\ now <= stall + StallLatency
    /\ EndSeen => stall <= hooks.terminalAt

\* The invariant of the auctioneer, inductive relative to the engine's CoreInv.
AuctioneerInv ==
  /\ AuctioneerTypeOK
  /\ CallsAreNoted
  /\ HammerUnique
  /\ Debounced
  /\ StallIsYoung
  /\ lastText \in {"clean", "canned"}

\* A sale in the Stream is its last entry, and the status.
LEMMA SaleIsLast ==
  ASSUME CoreInv, NEW n \in Nat, n <= Len(stream), SaleSeen(n)
  PROVE  n = Len(stream) /\ status = "SOLD"
<1>0. Len(stream) \in Nat
  BY CoreTypes DEF CoreInv
<1>1. PICK i \in 1 .. n : stream[i].type = "AUCTION_SOLD"
  BY DEF SaleSeen
<1>2. i \in 1 .. Len(stream) /\ stream[i].type \in TerminalTypes
  BY <1>0, <1>1 DEF TerminalTypes
<1>3. i = Len(stream) /\ status \in Terminal
  BY <1>2 DEF CoreInv, TerminalEventLast
<1>4. status = "SOLD"
  BY <1>1, <1>3 DEF CoreInv, TerminalEventLast, TerminalType, Terminal
<1> QED
  BY <1>0, <1>1, <1>3, <1>4

\* The typed facts about a call that is dispatched now.
NewCall(trigger) ==
  [trigger |-> trigger, at |-> now, born |-> restarts.all, life |-> restarts.process]

LEMMA FireAdds ==
  ASSUME CoreInv, AuctioneerTypeOK, NEW trigger \in Triggers, Fire(trigger), aired' = aired
  PROVE  /\ NewCall(trigger) \in CallRecord
         /\ Calls' = Calls \cup {NewCall(trigger)}
         /\ firing' \in SUBSET CallRecord
<1>1. now \in Nat /\ restarts.all \in Nat /\ restarts.process \in Nat
  BY CoreTypes DEF CoreInv, AuctioneerTypeOK
<1>2. NewCall(trigger) \in CallRecord
  BY <1>1 DEF NewCall, CallRecord
<1>3. firing' = firing \cup {NewCall(trigger)}
  BY DEF Fire, NewCall
<1> QED
  BY <1>2, <1>3 DEF Calls, AuctioneerTypeOK

\* It holds at the start.
LEMMA AuctioneerInit == AInit => AuctioneerInv
<1> SUFFICES ASSUME AInit PROVE AuctioneerInv
  OBVIOUS
<1>2. Calls = {} /\ stall = Never /\ lastText = "canned"
  BY DEF AInit, Calls
<1>3. AuctioneerTypeOK
  <2>1. cursor = 0 /\ Len(stream) = 0
    BY DEF AInit, Init
  <2>2. NoHooks \in HookRecord
    BY DEF NoHooks, HookRecord, Instant
  <2>3. hooks = NoHooks /\ began = Never /\ stall = Never /\ firing = {} /\ aired = {}
    BY DEF AInit
  <2>4. restarts \in [all : Nat, process : Nat]
    BY DEF AInit
  <2> QED
    BY <2>1, <2>2, <2>3, <2>4 DEF AuctioneerTypeOK, Instant
<1> QED
  BY <1>2, <1>3 DEF AuctioneerInv, CallsAreNoted, HammerUnique, Debounced, StallIsYoung

\* The typed facts the steps need.
LEMMA AuctioneerTypes ==
  ASSUME CoreInv, AuctioneerTypeOK
  PROVE  /\ now \in Nat /\ Len(stream) \in Nat /\ cursor \in Nat /\ cursor <= Len(stream)
         /\ restarts.all \in Nat /\ restarts.process \in Nat
         /\ hooks.surgeAt \in Instant /\ hooks.coldAt \in Instant
         /\ hooks.terminalAt \in Instant /\ stall \in Instant
         /\ \A c \in Calls : c \in CallRecord /\ c.at \in Nat /\ c.born \in Nat /\ c.life \in Nat
         /\ \A t \in Instant : t \in Int
         /\ {SurgeGap, ColdGap, Suppression} \subseteq Nat \ {0}
         /\ StallLatency \in Nat /\ StallLatency < Suppression
<1>1. now \in Nat /\ Len(stream) \in Nat
  BY CoreTypes DEF CoreInv
<1>2. \A c \in Calls : c \in CallRecord /\ c.at \in Nat /\ c.born \in Nat /\ c.life \in Nat
  BY DEF AuctioneerTypeOK, Calls, CallRecord
<1>3. \A t \in Instant : t \in Int
  BY DEF Instant, Never
<1> QED
  BY <1>1, <1>2, <1>3, CommentaryAssumption DEF AuctioneerTypeOK, HookRecord

\* What CallsAreNoted says of one call.
Noted(c) ==
  /\ c.born <= restarts.all /\ c.life <= restarts.process
  /\ c.trigger = "surge" /\ c.life = restarts.process => c.at <= hooks.surgeAt
  /\ c.trigger = "cold" /\ c.life = restarts.process => c.at <= hooks.coldAt
  /\ c.trigger = "hammer" => SaleSeen(Len(stream))
  /\ c.trigger = "hammer" /\ c.born = restarts.all => SaleSeen(cursor)

\* The three statements about the calls.
CallsInv == CallsAreNoted /\ HammerUnique /\ Debounced

\* A step that dispatches no call keeps them, whether the log grows, the cursor
\* advances, a call ends, or the fan-out or the process restarts.
LEMMA NoNewCall ==
  ASSUME CoreInv, AuctioneerTypeOK, CallsInv, [Next]_vars, Calls' \subseteq Calls,
         \/ /\ restarts' = restarts /\ cursor <= cursor' /\ cursor' \in Nat
            /\ hooks'.surgeAt = hooks.surgeAt /\ hooks'.coldAt = hooks.coldAt
         \/ /\ restarts' = [restarts EXCEPT !.all = @ + 1]
            /\ hooks' = hooks
         \/ restarts' = [all |-> restarts.all + 1, process |-> restarts.process + 1]
  PROVE  CallsInv'
<1>0. /\ restarts.all \in Nat /\ restarts.process \in Nat /\ cursor \in Nat
      /\ restarts \in [all : Nat, process : Nat]
      /\ \A c \in Calls : c.born \in Nat /\ c.life \in Nat
  BY AuctioneerTypes DEF AuctioneerTypeOK
<1>1. HammerUnique' /\ Debounced'
  BY DEF CallsInv, HammerUnique, Debounced
<1>2. ASSUME NEW c \in Calls' PROVE Noted(c)'
  <2>1. c \in Calls /\ Noted(c) /\ c.born \in Nat /\ c.life \in Nat
    BY <1>0, <1>2 DEF CallsInv, CallsAreNoted, Noted
  <2>2. SaleSeen(Len(stream)) => SaleSeen(Len(stream))'
    BY LogGrows DEF SaleSeen
  <2>3. CASE /\ restarts' = restarts /\ cursor <= cursor' /\ cursor' \in Nat
             /\ hooks'.surgeAt = hooks.surgeAt /\ hooks'.coldAt = hooks.coldAt
    <3>1. SaleSeen(cursor) => SaleSeen(cursor)'
      <4>1. cursor \in Nat /\ cursor <= Len(stream) /\ Len(stream) \in Nat
        BY AuctioneerTypes
      <4> QED
        BY <2>3, <4>1, LogGrows DEF SaleSeen
    <3> QED
      BY <2>1, <2>2, <2>3, <3>1 DEF Noted
  <2>4. CASE restarts' = [restarts EXCEPT !.all = @ + 1] /\ hooks' = hooks
    <3>1. restarts'.all = restarts.all + 1 /\ restarts'.process = restarts.process
      BY <1>0, <2>4
    <3>2. c.born # restarts'.all /\ c.born <= restarts'.all
      BY <1>0, <2>1, <3>1 DEF Noted
    <3> QED
      BY <2>1, <2>2, <2>4, <3>1, <3>2 DEF Noted
  <2>5. CASE restarts' = [all |-> restarts.all + 1, process |-> restarts.process + 1]
    <3>1. restarts'.all = restarts.all + 1 /\ restarts'.process = restarts.process + 1
      BY <2>5
    <3>2. /\ c.born # restarts'.all /\ c.born <= restarts'.all
          /\ c.life # restarts'.process /\ c.life <= restarts'.process
      BY <1>0, <2>1, <3>1 DEF Noted
    <3> QED
      BY <2>1, <2>2, <3>2 DEF Noted
  <2> QED
    BY <2>3, <2>4, <2>5
<1>3. CallsAreNoted'
  BY <1>2 DEF CallsAreNoted, Noted
<1> QED
  BY <1>1, <1>3 DEF CallsInv

\* A dispatched call keeps them when its detector let it through.
LEMMA NewCallKeeps ==
  ASSUME CoreInv, AuctioneerTypeOK, CallsInv, UNCHANGED <<vars, aired, restarts>>,
         NEW t \in Triggers, Fire(t), cursor <= cursor', cursor' \in Nat,
         hooks'.surgeAt = IF t = "surge" THEN now ELSE hooks.surgeAt,
         hooks'.coldAt = IF t = "cold" THEN now ELSE hooks.coldAt,
         t = "surge" => Since(hooks.surgeAt, SurgeGap),
         t = "cold" => Since(hooks.coldAt, ColdGap),
         t = "hammer" => ~SaleSeen(cursor) /\ SaleSeen(cursor)' /\ SaleSeen(Len(stream))
  PROVE  CallsInv'
<1>n. PICK n : n = NewCall(t)
  OBVIOUS
<1>0. /\ now \in Nat /\ cursor \in Nat /\ restarts.all \in Nat /\ restarts.process \in Nat
      /\ hooks.surgeAt \in Int /\ hooks.coldAt \in Int
      /\ hooks.surgeAt \in Instant /\ hooks.coldAt \in Instant
      /\ \A c \in Calls : c.at \in Nat /\ c.born \in Nat /\ c.life \in Nat
      /\ SurgeGap \in Nat \ {0} /\ ColdGap \in Nat \ {0}
  BY AuctioneerTypes
<1>1. Calls' = Calls \cup {n}
  BY <1>n, FireAdds
<1>2. n.trigger = t /\ n.at = now /\ n.born = restarts.all /\ n.life = restarts.process
  BY <1>n DEF NewCall
<1>3. stream' = stream /\ now' = now /\ restarts' = restarts
  BY DEF vars
<1>4. \A c \in Calls : Noted(c)
  BY DEF CallsInv, CallsAreNoted, Noted
<1>5. t = "surge" => \A c \in Calls : c.trigger = "surge" /\ c.life = restarts.process
                                      => now - c.at >= SurgeGap
  BY <1>0, <1>4 DEF Noted, Since, Never
<1>6. t = "cold" => \A c \in Calls : c.trigger = "cold" /\ c.life = restarts.process
                                     => now - c.at >= ColdGap
  BY <1>0, <1>4 DEF Noted, Since, Never
<1>7. t = "hammer" => \A c \in Calls : ~(c.trigger = "hammer" /\ c.born = restarts.all)
  BY <1>4 DEF Noted
<1>8. Debounced'
  <2> SUFFICES ASSUME NEW c \in Calls', NEW d \in Calls', c # d,
                      c.trigger = d.trigger, c.life = d.life
               PROVE  /\ c.trigger = "surge" => c.at - d.at >= SurgeGap \/ d.at - c.at >= SurgeGap
                      /\ c.trigger = "cold" => c.at - d.at >= ColdGap \/ d.at - c.at >= ColdGap
    BY DEF Debounced
  <2>1. CASE c \in Calls /\ d \in Calls
    BY <2>1 DEF CallsInv, Debounced
  <2>2. CASE c = n /\ d \in Calls
    BY <1>2, <1>5, <1>6, <2>2
  <2>3. CASE d = n /\ c \in Calls
    BY <1>2, <1>5, <1>6, <2>3
  <2> QED
    BY <1>1, <2>1, <2>2, <2>3
<1>9. HammerUnique'
  <2> SUFFICES ASSUME NEW c \in Calls', NEW d \in Calls',
                      c.trigger = "hammer", d.trigger = "hammer", c.born = d.born
               PROVE  c = d
    BY DEF HammerUnique
  <2>1. CASE c \in Calls /\ d \in Calls
    BY <2>1 DEF CallsInv, HammerUnique
  <2> QED
    BY <1>1, <1>2, <1>7, <2>1
<1>10. CallsAreNoted'
  <2>1. hooks.surgeAt <= hooks'.surgeAt /\ hooks.coldAt <= hooks'.coldAt
    BY <1>0 DEF Since, Never
  <2>2. SaleSeen(cursor) => SaleSeen(cursor)'
    BY <1>0, <1>3 DEF SaleSeen
  <2>3. hooks'.surgeAt \in Int /\ hooks'.coldAt \in Int
    BY <1>0
  <2>4. ASSUME NEW c \in Calls PROVE Noted(c)'
    <3>1. Noted(c) /\ c.at \in Nat
      BY <1>0, <1>4
    <3> QED
      BY <1>0, <1>3, <2>1, <2>2, <2>3, <3>1 DEF Noted, SaleSeen
  <2>5. Noted(n)'
    BY <1>0, <1>2, <1>3 DEF Noted, SaleSeen
  <2>6. \A c \in Calls' : Noted(c)'
    BY <1>1, <2>4, <2>5
  <2> QED
    BY <2>6 DEF CallsAreNoted, Noted
<1> QED
  BY <1>8, <1>9, <1>10 DEF CallsInv

\* A step of the auction, of time within the latency, or of the handler: the
\* detectors, the cursor and the calls stay as they are.
LEMMA AuctionMoves ==
  ASSUME CoreInv, AuctioneerInv, [Next]_vars,
         UNCHANGED <<cursor, began, hooks, stall, firing, airVars, restarts>>,
         now' = now \/ (now' = now + 1 /\ (stall # Never => now < stall + StallLatency))
  PROVE  AuctioneerInv'
<1>0. AuctioneerTypeOK /\ CallsInv /\ StallIsYoung /\ lastText \in {"clean", "canned"}
  BY DEF AuctioneerInv, CallsInv
<1>1. /\ now \in Nat /\ stall \in Instant /\ (stall \in Instant => stall \in Int)
      /\ cursor \in Nat /\ cursor <= Len(stream)
      /\ StallLatency \in Nat
  BY <1>0, AuctioneerTypes
<1>2. AuctioneerTypeOK'
  BY <1>0, <1>1, LogGrows DEF AuctioneerTypeOK, airVars
<1>3. CallsInv'
  BY <1>0, <1>1, NoNewCall DEF Calls, airVars
<1>4. StallIsYoung'
  <2> SUFFICES ASSUME stall # Never
               PROVE  /\ stall <= now' /\ now' <= stall + StallLatency
                      /\ EndSeen' => stall <= hooks.terminalAt
    BY DEF StallIsYoung
  <2>1. stall <= now' /\ now' <= stall + StallLatency
    BY <1>0, <1>1 DEF StallIsYoung
  <2>2. ASSUME EndSeen' PROVE stall <= hooks.terminalAt
    <3>1. cursor = Len(stream') /\ status' \in Terminal /\ began < Len(stream')
      BY <2>2 DEF EndSeen
    <3>2. status \in Terminal
      BY <1>1, <3>1, LogGrows
    <3>3. EndSeen
      BY <3>1, <3>2, LogGrows DEF EndSeen
    <3> QED
      BY <1>0, <3>3 DEF StallIsYoung
  <2> QED
    BY <2>1, <2>2
<1> QED
  BY <1>0, <1>2, <1>3, <1>4 DEF AuctioneerInv, CallsInv, airVars

\* handleStart's hook: the opening line is asked for once per process.
LEMMA OpeningKeeps ==
  ASSUME CoreInv, AuctioneerInv, OnAuctionStart
  PROVE  AuctioneerInv'
<1>0. AuctioneerTypeOK /\ CallsInv /\ StallIsYoung
  BY DEF AuctioneerInv, CallsInv
<1>1. UNCHANGED <<vars, stream, status, now, cursor, began, stall, airVars, aired, lastText, restarts>>
  BY DEF OnAuctionStart, vars, hash, roomVars, airVars
<1>2. CASE UNCHANGED <<hooks, firing>>
  BY <1>1, <1>2, AuctionMoves
<1>3. CASE hooks' = [hooks EXCEPT !.openFired = TRUE] /\ Fire("open")
  <2>1. /\ hooks' \in HookRecord /\ hooks'.surgeAt = hooks.surgeAt
        /\ hooks'.coldAt = hooks.coldAt /\ hooks'.terminalAt = hooks.terminalAt
    BY <1>0, <1>3 DEF AuctioneerTypeOK, HookRecord
  <2>2. "open" \in Triggers /\ cursor \in Nat
    BY <1>0 DEF Triggers, AuctioneerTypeOK
  <2>3. firing' \in SUBSET CallRecord
    BY <1>0, <1>1, <1>3, <2>2, FireAdds
  <2>4. AuctioneerTypeOK'
    BY <1>0, <1>1, <2>1, <2>3 DEF AuctioneerTypeOK
  <2>5. CallsInv'
    BY <1>0, <1>1, <1>3, <2>1, <2>2, NewCallKeeps
  <2>6. StallIsYoung'
    BY <1>0, <1>1, <2>1 DEF StallIsYoung, EndSeen
  <2> QED
    BY <1>1, <2>4, <2>5, <2>6 DEF AuctioneerInv, CallsInv
<1> QED
  BY <1>2, <1>3 DEF OnAuctionStart

\* The fan-out dispatches one entry: the bid detectors, the hammer, the
\* suppression, or nothing.
LEMMA DispatchKeeps ==
  ASSUME CoreInv, AuctioneerInv, Dispatch
  PROVE  AuctioneerInv'
<1> DEFINE e == stream[cursor + 1]
<1>0. AuctioneerTypeOK /\ CallsInv /\ StallIsYoung
  BY DEF AuctioneerInv, CallsInv
<1>1. /\ UNCHANGED <<vars, stream, status, now, stall, aired, lastText, restarts>>
      /\ cursor < Len(stream) /\ cursor' = cursor + 1
      /\ began' = IF began = Never THEN cursor ELSE began
  BY DEF Dispatch, Advance, vars, hash, airVars
<1>2. /\ now \in Nat /\ cursor \in Nat /\ Len(stream) \in Nat
      /\ cursor' \in Nat /\ cursor' <= Len(stream)
      /\ cursor + 1 \in 1 .. Len(stream) /\ cursor <= cursor'
      /\ now \in Instant
  <2>1. now \in Nat /\ cursor \in Nat /\ Len(stream) \in Nat
    BY <1>0, AuctioneerTypes
  <2>2. now \in Instant
    BY <2>1 DEF Instant
  <2> QED
    BY <1>1, <2>1, <2>2
<1>3. e \in Event
  <2>1. stream \in Seq(Event)
    BY DEF CoreInv, TypeOK
  <2> QED
    BY <1>2, <2>1
<1>4. hooks' \in HookRecord
  <2>1. e.amount \in Nat
    BY <1>3 DEF Event
  <2> QED
    BY <1>0, <1>2, <2>1
       DEF Dispatch, OnBidAccepted, OnAuctionSold, OnAuctionTerminalNonSold,
           AuctioneerTypeOK, HookRecord
<1>5. ASSUME firing' \in SUBSET CallRecord PROVE AuctioneerTypeOK'
  BY <1>0, <1>1, <1>2, <1>4, <1>5 DEF AuctioneerTypeOK, Instant
<1>6. StallIsYoung'
  <2> SUFFICES ASSUME stall # Never, cursor + 1 = Len(stream), status \in Terminal
               PROVE  stall <= hooks'.terminalAt
    BY <1>0, <1>1 DEF StallIsYoung, EndSeen
  <2>1. e.type \in TerminalTypes
    BY DEF CoreInv, TerminalEventLast, TerminalType, TerminalTypes, Terminal
  <2>2. hooks'.terminalAt = now
    BY <1>0, <2>1
       DEF Dispatch, OnAuctionSold, OnAuctionTerminalNonSold, TerminalTypes,
           AuctioneerTypeOK, HookRecord
  <2> QED
    BY <1>0, <2>2 DEF StallIsYoung
<1>7. CallsInv' /\ firing' \in SUBSET CallRecord
  <2>1. CASE firing' = firing /\ hooks'.surgeAt = hooks.surgeAt /\ hooks'.coldAt = hooks.coldAt
    <3>1. Calls' = Calls
      BY <1>1, <2>1 DEF Calls
    <3> QED
      BY <1>0, <1>1, <1>2, <2>1, <3>1, NoNewCall DEF AuctioneerTypeOK
  <2>2. CASE OnBidAccepted(e) /\ IsSurge(e)
    <3>1. /\ Fire("surge") /\ hooks'.surgeAt = now /\ hooks'.coldAt = hooks.coldAt
          /\ Since(hooks.surgeAt, SurgeGap) /\ "surge" \in Triggers
      BY <1>0, <2>2 DEF OnBidAccepted, IsSurge, Triggers, AuctioneerTypeOK, HookRecord
    <3> QED
      BY <1>0, <1>1, <1>2, <3>1, NewCallKeeps, FireAdds
  <2>3. CASE e.type = "AUCTION_SOLD" /\ OnAuctionSold
    <3>1. /\ Fire("hammer") /\ hooks'.surgeAt = hooks.surgeAt /\ hooks'.coldAt = hooks.coldAt
          /\ "hammer" \in Triggers
      BY <1>0, <2>3 DEF OnAuctionSold, Triggers, AuctioneerTypeOK, HookRecord
    <3>2. SaleSeen(cursor)' /\ SaleSeen(Len(stream))
      BY <1>1, <1>2, <2>3 DEF SaleSeen
    <3>3. ~SaleSeen(cursor)
      BY <1>1, <1>2, SaleIsLast
    <3> QED
      BY <1>0, <1>1, <1>2, <3>1, <3>2, <3>3, NewCallKeeps, FireAdds
  <2>4. CASE OnBidAccepted(e) /\ ~IsSurge(e)
    <3>1. firing' = firing /\ hooks'.surgeAt = hooks.surgeAt /\ hooks'.coldAt = hooks.coldAt
      BY <1>0, <2>4 DEF OnBidAccepted, AuctioneerTypeOK, HookRecord
    <3> QED
      BY <2>1, <3>1
  <2>5. CASE OnAuctionTerminalNonSold
    <3>1. firing' = firing /\ hooks'.surgeAt = hooks.surgeAt /\ hooks'.coldAt = hooks.coldAt
      BY <1>0, <2>5 DEF OnAuctionTerminalNonSold, AuctioneerTypeOK, HookRecord
    <3> QED
      BY <2>1, <3>1
  <2> QED
    BY <2>1, <2>2, <2>3, <2>4, <2>5 DEF Dispatch
<1> QED
  BY <1>1, <1>5, <1>6, <1>7 DEF AuctioneerInv, CallsInv

\* The fan-out enters the room at the current seq: no call, and this run has
\* not seen what came before.
LEMMA SeedKeeps ==
  ASSUME CoreInv, AuctioneerInv, Seed
  PROVE  AuctioneerInv'
<1>0. AuctioneerTypeOK /\ CallsInv /\ StallIsYoung
  BY DEF AuctioneerInv, CallsInv
<1>1. /\ UNCHANGED <<vars, stream, status, now, hooks, stall, firing, aired, lastText, restarts>>
      /\ cursor' = Len(stream) /\ began' = Len(stream) /\ [Next]_vars /\ Calls' = Calls
  BY DEF Seed, vars, hash, airVars, Calls
<1>2. Len(stream) \in Nat /\ Len(stream) \in Instant /\ cursor <= cursor' /\ cursor' \in Nat
  BY <1>0, <1>1, AuctioneerTypes DEF Instant
<1>3. AuctioneerTypeOK'
  BY <1>0, <1>1, <1>2 DEF AuctioneerTypeOK
<1>4. CallsInv'
  BY <1>0, <1>1, <1>2, NoNewCall
<1>5. ~EndSeen'
  BY <1>1, <1>2 DEF EndSeen
<1>6. StallIsYoung'
  BY <1>0, <1>1, <1>5 DEF StallIsYoung
<1> QED
  BY <1>1, <1>3, <1>4, <1>6 DEF AuctioneerInv, CallsInv

\* A restart of the fan-out or of the process.
LEMMA RestartKeeps ==
  ASSUME CoreInv, AuctioneerInv, FanoutRestarts \/ ProcessRestarts
  PROVE  AuctioneerInv'
<1>0. AuctioneerTypeOK /\ CallsInv /\ StallIsYoung
  BY DEF AuctioneerInv, CallsInv
<1>1. /\ UNCHANGED <<vars, stream, status, now, aired, lastText>> /\ cursor' = 0
      /\ began' \in Instant /\ [Next]_vars
  BY DEF FanoutRestarts, ProcessRestarts, vars, hash, airVars, Instant
<1>2. /\ restarts \in [all : Nat, process : Nat]
      /\ restarts.all + 1 \in Nat /\ restarts.process + 1 \in Nat
      /\ Len(stream) \in Nat
  <2>1. restarts.all \in Nat /\ restarts.process \in Nat /\ Len(stream) \in Nat
    BY <1>0, AuctioneerTypes
  <2> QED
    BY <1>0, <2>1 DEF AuctioneerTypeOK
<1>3. CASE FanoutRestarts
  <2>1. /\ restarts' = [restarts EXCEPT !.all = @ + 1]
        /\ UNCHANGED <<hooks, stall, firing>> /\ Calls' = Calls
    BY <1>1, <1>3 DEF FanoutRestarts, Calls
  <2>2. AuctioneerTypeOK'
    BY <1>0, <1>1, <1>2, <2>1 DEF AuctioneerTypeOK
  <2>3. CallsInv'
    BY <1>0, <1>1, <2>1, NoNewCall
  <2>4. StallIsYoung'
    <3>1. cursor' = Len(stream') => status \notin Terminal
      <4>1. stream \in Seq(Event)
        BY DEF CoreInv, TypeOK
      <4> QED
        BY <1>1, <4>1 DEF CoreInv, TerminalEventLast
    <3> QED
      BY <1>0, <1>1, <2>1, <3>1 DEF StallIsYoung, EndSeen
  <2> QED
    BY <1>1, <2>2, <2>3, <2>4 DEF AuctioneerInv, CallsInv
<1>4. CASE ProcessRestarts
  <2>1. /\ restarts' = [all |-> restarts.all + 1, process |-> restarts.process + 1]
        /\ hooks' = NoHooks /\ stall' = Never /\ firing' = {} /\ Calls' \subseteq Calls
    BY <1>1, <1>4 DEF ProcessRestarts, Calls
  <2>2. NoHooks \in HookRecord
    BY DEF NoHooks, HookRecord, Instant
  <2>3. AuctioneerTypeOK'
    BY <1>0, <1>1, <1>2, <2>1, <2>2 DEF AuctioneerTypeOK, Instant
  <2>4. CallsInv'
    BY <1>0, <1>1, <2>1, NoNewCall
  <2>5. StallIsYoung'
    BY <2>1 DEF StallIsYoung
  <2> QED
    BY <1>1, <2>3, <2>4, <2>5 DEF AuctioneerInv, CallsInv
<1> QED
  BY <1>3, <1>4

\* The reconcile pass reads the snapshot while the auction is LIVE.
LEMMA ReconcileKeeps ==
  ASSUME CoreInv, AuctioneerInv, ReconcileReads
  PROVE  AuctioneerInv'
<1>0. AuctioneerTypeOK /\ CallsInv
  BY DEF AuctioneerInv, CallsInv
<1>1. /\ UNCHANGED <<vars, stream, status, now, cursor, began, hooks, firing, aired, lastText, restarts>>
      /\ stall' = now /\ status = "LIVE" /\ [Next]_vars /\ Calls' = Calls
  BY DEF ReconcileReads, vars, hash, roomVars, airVars, Calls
<1>2. now \in Nat /\ StallLatency \in Nat /\ cursor \in Nat
  BY <1>0, AuctioneerTypes
<1>3. AuctioneerTypeOK'
  BY <1>0, <1>1, <1>2 DEF AuctioneerTypeOK, Instant
<1>4. CallsInv'
  BY <1>0, <1>1, <1>2, NoNewCall
<1>5. StallIsYoung'
  BY <1>1, <1>2 DEF StallIsYoung, EndSeen, Terminal
<1> QED
  BY <1>1, <1>3, <1>4, <1>5 DEF AuctioneerInv, CallsInv

\* OnTickStall: a cold call passes its debounce.
LEMMA TickStallKeeps ==
  ASSUME CoreInv, AuctioneerInv, OnTickStall
  PROVE  AuctioneerInv'
<1>0. AuctioneerTypeOK /\ CallsInv
  BY DEF AuctioneerInv, CallsInv
<1>1. /\ UNCHANGED <<vars, stream, status, now, cursor, began, aired, lastText, restarts>>
      /\ stall' = Never /\ [Next]_vars
  BY DEF OnTickStall, vars, hash, roomVars, airVars
<1>2. now \in Nat /\ now \in Instant /\ cursor \in Nat
  BY <1>0, AuctioneerTypes DEF Instant
<1>3. StallIsYoung'
  BY <1>1 DEF StallIsYoung
<1>4. CASE UNCHANGED <<hooks, firing>>
  <2>1. Calls' = Calls
    BY <1>1, <1>4 DEF Calls
  <2>2. AuctioneerTypeOK'
    BY <1>0, <1>1, <1>4 DEF AuctioneerTypeOK, Instant
  <2>3. CallsInv'
    BY <1>0, <1>1, <1>2, <1>4, <2>1, NoNewCall
  <2> QED
    BY <1>1, <1>3, <2>2, <2>3 DEF AuctioneerInv, CallsInv
<1>5. CASE IsCold /\ hooks' = [hooks EXCEPT !.coldAt = now] /\ Fire("cold")
  <2>1. /\ hooks' \in HookRecord /\ hooks'.surgeAt = hooks.surgeAt /\ hooks'.coldAt = now
        /\ Since(hooks.coldAt, ColdGap) /\ "cold" \in Triggers
    BY <1>0, <1>2, <1>5 DEF AuctioneerTypeOK, HookRecord, IsCold, Triggers
  <2>2. firing' \in SUBSET CallRecord
    BY <1>0, <1>1, <1>5, <2>1, FireAdds
  <2>3. AuctioneerTypeOK'
    BY <1>0, <1>1, <2>1, <2>2 DEF AuctioneerTypeOK, Instant
  <2>4. CallsInv'
    BY <1>0, <1>1, <1>2, <1>5, <2>1, NewCallKeeps
  <2> QED
    BY <1>1, <1>3, <2>3, <2>4 DEF AuctioneerInv, CallsInv
<1> QED
  BY <1>4, <1>5 DEF OnTickStall

\* What fire shows the room passed the guardrail or is canned.
LEMMA CommentaryIsClean ==
  ASSUME NEW answer \in Replies
  PROVE  CommentaryFor(answer) \in {"clean", "canned"}
  BY DEF Replies, CommentaryFor, FailsAuctioneerGuardrail, GenerateWithGuardrail,
         FailsGuardrail, Complete, Texts

\* A call comes back and the room hears it.
LEMMA CallEndKeeps ==
  ASSUME CoreInv, AuctioneerInv, NEW c \in firing, NEW answer \in Replies, CallEnds(c, answer)
  PROVE  AuctioneerInv'
<1>0. AuctioneerTypeOK /\ CallsInv /\ StallIsYoung
  BY DEF AuctioneerInv, CallsInv
<1>1. /\ UNCHANGED <<vars, stream, status, now, cursor, began, hooks, stall, restarts>>
      /\ firing' = firing \ {c} /\ aired' = aired \cup {c}
      /\ lastText' = CommentaryFor(answer) /\ [Next]_vars
  BY DEF CallEnds, Broadcast, roomVars, vars, hash
<1>2. Calls' \subseteq Calls
  BY <1>1 DEF Calls
<1>3. AuctioneerTypeOK'
  BY <1>0, <1>1 DEF AuctioneerTypeOK
<1>4. CallsInv'
  BY <1>0, <1>1, <1>2, NoNewCall DEF AuctioneerTypeOK
<1>5. StallIsYoung'
  BY <1>0, <1>1 DEF StallIsYoung, EndSeen
<1> QED
  BY <1>1, <1>3, <1>4, <1>5, CommentaryIsClean DEF AuctioneerInv, CallsInv

\* The scripts other than the clock take no time.
LEMMA EngineKeepsTime ==
  ASSUME EngineStep
  PROVE  now' = now
<1>1. ASSUME NEW u \in Users, NEW r \in Reqs, NEW a \in BidAmounts, Bid(u, r, a)
      PROVE  now' = now
  BY <1>1 DEF Bid, PlaceBid, PlaceBidHybrid, PlaceBidSealed, BidAccepted, BidExtended,
              BidSold, AcceptBid
<1>2. CASE CloseAuctionDetailed
  BY <1>2 DEF CloseAuctionDetailed, CloseAuction, CloseAuctionSealed, CloseAuctionAllPay,
              CloseNoBid, RevealAndSell
<1> QED
  BY <1>1, <1>2 DEF EngineStep, FreezeRules, CancelAuction

\* Every step keeps the invariant.
LEMMA AuctioneerNext == CoreInv /\ AuctioneerInv /\ [ANext]_avars => AuctioneerInv'
<1> SUFFICES ASSUME CoreInv, AuctioneerInv, [ANext]_avars PROVE AuctioneerInv'
  OBVIOUS
<1>0. [Next]_vars
  BY AuctioneerStepIsEngineStep
<1>1. CASE EngineStep
  <2>1. now' = now
    BY <1>1, EngineKeepsTime
  <2> QED
    BY <1>0, <1>1, <2>1, AuctionMoves DEF EngineStep, hookVars, roomVars
<1>2. ASSUME NEW d \in Durations, HandleStart(d) PROVE AuctioneerInv'
  BY <1>0, <1>2, AuctionMoves DEF HandleStart, StartAuction, roomVars
<1>3. CASE StartProject \/ StartReplies \/ JoinOrLeave \/ UNCHANGED avars
  BY <1>0, <1>3, AuctionMoves
     DEF StartProject, StartReplies, JoinOrLeave, avars, hookVars, roomVars, vars
<1>4. CASE OnAuctionStart
  BY <1>4, OpeningKeeps
<1>5. CASE Dispatch
  BY <1>5, DispatchKeeps
<1>6. CASE FanoutRestarts \/ ProcessRestarts
  BY <1>6, RestartKeeps
<1>7. CASE ReconcileReads
  BY <1>7, ReconcileKeeps
<1>8. CASE OnTickStall
  BY <1>8, TickStallKeeps
<1>9. ASSUME NEW c \in firing, NEW answer \in Replies, CallEnds(c, answer) PROVE AuctioneerInv'
  BY <1>9, CallEndKeeps
<1>10. CASE ATick
  BY <1>0, <1>10, AuctionMoves DEF ATick, Tick, hookVars, roomVars
<1>11. CASE Seed
  BY <1>11, SeedKeeps
<1> QED
  BY <1>1, <1>2, <1>3, <1>4, <1>5, <1>6, <1>7, <1>8, <1>9, <1>10, <1>11 DEF ANext

\* The auctioneer's invariant holds throughout.
THEOREM AuctioneerInvariant == ASpec => [](CoreInv /\ AuctioneerInv)
<1>1. ASpec => []CoreInv
  BY AuctioneerRefinesEngine, CoreInvariant, PTL
<1> QED
  BY <1>1, AuctioneerInit, AuctioneerNext, PTL DEF ASpec

\* Whatever the sidecar answers and whenever the fan-out or the process
\* restarts, surge and cold keep their debounce, a hammer is called for a sale
\* and once between two restarts, and the room hears no text that the
\* guardrails catch (auctioneer.go: the detectors and fire).
THEOREM RoomHearsFitCommentary == ASpec => []CommentaryIsFit
<1>1. ASSUME CoreInv, AuctioneerInv PROVE CommentaryIsFit
  <2>1. HammerOnce
    <3>1. ASSUME NEW c \in Calls, c.trigger = "hammer" PROVE status = "SOLD"
      <4>1. Len(stream) \in Nat /\ SaleSeen(Len(stream))
        BY <1>1, <3>1, CoreTypes DEF CoreInv, AuctioneerInv, CallsAreNoted
      <4> QED
        BY <1>1, <4>1, SaleIsLast
    <3> QED
      BY <1>1, <3>1 DEF HammerOnce, AuctioneerInv, HammerUnique
  <2> QED
    BY <1>1, <2>1 DEF CommentaryIsFit, AuctioneerInv
<1> QED
  BY <1>1, AuctioneerInvariant, PTL

\* The suppression outlasts a reconcile pass, so a pass that read LIVE before
\* the end calls no cold once the fan-out has seen the end (timer.go reconcile,
\* auctioneer.go OnTickStall).
THEOREM EndedRoomIsNotCold == ASpec => NoColdAfterEnd
<1>1. ASSUME CoreInv, AuctioneerInv, OnTickStall, EndSeen
      PROVE  firing' = firing
  <2>1. /\ stall # Never /\ stall <= now /\ now <= stall + StallLatency
        /\ stall <= hooks.terminalAt
    BY <1>1 DEF OnTickStall, AuctioneerInv, StallIsYoung
  <2>2. /\ now \in Nat /\ stall \in Instant /\ hooks.terminalAt \in Instant
        /\ StallLatency \in Nat /\ StallLatency < Suppression /\ Suppression \in Nat \ {0}
    BY <1>1, AuctioneerTypes DEF AuctioneerInv
  <2>3. ~Since(hooks.terminalAt, Suppression)
    BY <2>1, <2>2 DEF Since, Instant, Never
  <2> QED
    BY <1>1, <2>3 DEF OnTickStall, IsCold
<1>2. CoreInv /\ AuctioneerInv /\ [ANext]_avars
        => [OnTickStall /\ EndSeen => firing' = firing]_avars
  BY <1>1
<1> QED
  BY <1>2, AuctioneerInvariant, PTL DEF ASpec, NoColdAfterEnd

-----------------------------------------------------------------------------
(***************************************************************************)
(* The order statistics of the revealed bids.                              *)
(***************************************************************************)

Amounts(bids) == {bids[u] : u \in Bidders(bids)}

\* The bidders who reach an amount.
Reaching(bids, a) == {v \in Bidders(bids) : bids[v] >= a}

\* Sets of bidders are finite and counted by naturals.
LEMMA BidderSets ==
  ASSUME NEW bids \in [Users -> Nat]
  PROVE  /\ Bidders(bids) \in SUBSET Users
         /\ \A S \in SUBSET Users : IsFiniteSet(S) /\ Cardinality(S) \in Nat
         /\ \A a : Reaching(bids, a) \in SUBSET Users
         /\ Amounts(bids) \in SUBSET Nat
         /\ \A a \in Amounts(bids) : 0 < a /\ a <= MaxMoney
  BY UsersAssumption, FS_Subset, FS_CardinalityType DEF Bidders, Reaching, Amounts

\* A lower amount is reached by no fewer bidders.
LEMMA ReachingShrinks ==
  ASSUME NEW bids \in [Users -> Nat], NEW a \in Nat, NEW b \in Nat, a <= b
  PROVE  Cardinality(Reaching(bids, b)) <= Cardinality(Reaching(bids, a))
<1>1. ASSUME NEW v \in Reaching(bids, b) PROVE v \in Reaching(bids, a)
  BY DEF Reaching, Bidders
<1>2. Reaching(bids, b) \in SUBSET Reaching(bids, a)
  BY <1>1
<1> QED
  BY <1>2, BidderSets, FS_Subset

\* A nonempty bounded set of naturals has a greatest element.
LEMMA GreatestNatural ==
  ASSUME NEW R \in SUBSET Nat, R # {}, NEW bound \in Nat, \A a \in R : a <= bound
  PROVE  \E a \in R : \A b \in R : b <= a
<1> DEFINE Gaps == {bound - a : a \in R}
<1>1. Gaps \in SUBSET Nat /\ Gaps # {}
  <2>1. ASSUME NEW a \in R PROVE bound - a \in Nat
    <3>1. a \in Nat /\ a <= bound
      OBVIOUS
    <3> QED
      BY <3>1
  <2>2. Gaps # {}
    OBVIOUS
  <2> QED
    BY <2>1, <2>2
<1>2. PICK g \in Gaps : \A h \in Gaps : g <= h
  BY <1>1, LeastNatural
<1>3. PICK a \in R : g = bound - a
  BY <1>2
<1>4. ASSUME NEW b \in R PROVE b <= a
  <2>1. bound - b \in Gaps
    OBVIOUS
  <2>2. bound - a <= bound - b
    BY <1>2, <1>3, <2>1
  <2> QED
    BY <2>2
<1> QED
  BY <1>4

\* Ranked is what its comment says, for every rank that is taken.
LEMMA RankedIs ==
  ASSUME NEW bids \in [Users -> Nat], NEW k \in Nat \ {0}, k <= Cardinality(Bidders(bids))
  PROVE  /\ Ranked(bids, k) \in Amounts(bids)
         /\ k <= Cardinality(Reaching(bids, Ranked(bids, k)))
         /\ \A b \in Amounts(bids) : k <= Cardinality(Reaching(bids, b)) => b <= Ranked(bids, k)
<1> DEFINE R == {a \in Amounts(bids) : Cardinality(Reaching(bids, a)) >= k}
<1>1. Amounts(bids) # {}
  <2>1. Bidders(bids) # {}
    BY FS_EmptySet
  <2> QED
    BY <2>1 DEF Amounts
<1>2. PICK least \in Amounts(bids) : \A a \in Amounts(bids) : least <= a
  BY <1>1, BidderSets, LeastNatural
<1>3. Reaching(bids, least) = Bidders(bids)
  <2>1. ASSUME NEW v \in Bidders(bids) PROVE bids[v] >= least
    <3>1. bids[v] \in Amounts(bids)
      BY DEF Amounts
    <3>2. bids[v] \in Nat /\ least \in Nat
      BY <3>1, BidderSets
    <3> QED
      BY <1>2, <3>1, <3>2
  <2> QED
    BY <2>1 DEF Reaching
<1>4. least \in R
  <2>1. Cardinality(Bidders(bids)) \in Nat
    BY BidderSets
  <2> QED
    BY <1>2, <1>3, <2>1
<1>5. PICK top \in R : \A b \in R : b <= top
  BY <1>4, BidderSets, BoundsAssumption, GreatestNatural
<1>6. \E a \in Amounts(bids) :
        /\ Cardinality(Reaching(bids, a)) >= k
        /\ \A b \in Amounts(bids) : Cardinality(Reaching(bids, b)) >= k => b <= a
  BY <1>5
<1>7. Ranked(bids, k) =
        CHOOSE a \in Amounts(bids) :
          /\ Cardinality(Reaching(bids, a)) >= k
          /\ \A b \in Amounts(bids) : Cardinality(Reaching(bids, b)) >= k => b <= a
  BY DEF Ranked, Amounts, Reaching
<1>8. /\ Ranked(bids, k) \in Amounts(bids)
      /\ Cardinality(Reaching(bids, Ranked(bids, k))) >= k
      /\ \A b \in Amounts(bids) : Cardinality(Reaching(bids, b)) >= k => b <= Ranked(bids, k)
  BY <1>6, <1>7
<1>9. \A a : Cardinality(Reaching(bids, a)) \in Nat
  BY BidderSets
<1> QED
  BY <1>8, <1>9

\* A greater rank is no greater amount.
LEMMA RankedFalls ==
  ASSUME NEW bids \in [Users -> Nat], NEW k \in Nat \ {0}, NEW m \in Nat,
         k <= m, m <= Cardinality(Bidders(bids))
  PROVE  Ranked(bids, m) <= Ranked(bids, k)
<1>1. k <= Cardinality(Bidders(bids)) /\ m \in Nat \ {0}
  <2>1. Cardinality(Bidders(bids)) \in Nat
    BY BidderSets
  <2> QED
    BY <2>1
<1>2. /\ Ranked(bids, m) \in Amounts(bids)
      /\ m <= Cardinality(Reaching(bids, Ranked(bids, m)))
  BY <1>1, RankedIs
<1>3. Cardinality(Reaching(bids, Ranked(bids, m))) \in Nat
  BY BidderSets
<1>4. k <= Cardinality(Reaching(bids, Ranked(bids, m)))
  BY <1>2, <1>3
<1> QED
  BY <1>1, <1>2, <1>4, RankedIs

\* What a recommendation says of the bids it was made from: its figures are
\* amounts, in descending order, and enough bidders reach each of them.
LEMMA RecommendationIs ==
  ASSUME NEW bids \in [Users -> Nat], Bidders(bids) # {}
  PROVE  LET n   == Cardinality(Bidders(bids))
             rec == Recommendation(bids)
         IN  /\ n \in Nat \ {0} /\ rec.count = n
             /\ rec.max \in Amounts(bids) /\ rec.median \in Amounts(bids)
             /\ rec.median <= rec.max
             /\ n = 1 => rec.second = 0 /\ rec.median = rec.max /\ rec.reserve = rec.max
             /\ n > 1 =>
                  /\ rec.second \in Amounts(bids) /\ rec.second <= rec.max
                  /\ Cardinality(Reaching(bids, rec.second)) >= 2
                  /\ Cardinality(Reaching(bids, rec.median)) >= 2
                  /\ rec.median <= rec.second
                  /\ rec.reserve = IF rec.max >= (rec.second * 13) \div 10
                                   THEN rec.second ELSE rec.median
             /\ 2 * Cardinality(Reaching(bids, rec.median)) >= n
<1> DEFINE n == Cardinality(Bidders(bids))
           m == n \div 2 + 1
<1>1. n \in Nat /\ n # 0
  BY BidderSets, FS_EmptySet
<1>2. PICK max, second, median :
        /\ max = Ranked(bids, 1) /\ second = Ranked(bids, 2) /\ median = Ranked(bids, m)
  OBVIOUS
<1>3. Recommendation(bids) =
        [count |-> n, max |-> max, second |-> IF n > 1 THEN second ELSE 0, median |-> median,
         reserve |-> IF n = 1 THEN max
                     ELSE IF max >= ((IF n > 1 THEN second ELSE 0) * 13) \div 10
                     THEN IF n > 1 THEN second ELSE 0 ELSE median]
  BY <1>2 DEF Recommendation, Median
<1>4. m \in Nat /\ 1 <= m /\ m <= n /\ 2 * m >= n /\ (n = 1 => m = 1) /\ (n > 1 => 2 <= m)
  <2> HIDE DEF n
  <2> QED
    BY <1>1
<1> HIDE DEF n, m
<1>5. /\ max \in Amounts(bids) /\ median \in Amounts(bids) /\ median <= max
      /\ n = 1 => median = max
      /\ m <= Cardinality(Reaching(bids, median))
  <2>1. 1 \in Nat \ {0} /\ m \in Nat \ {0} /\ 1 <= m /\ m <= n /\ 1 <= n
    BY <1>1, <1>4
  <2>2. max \in Amounts(bids) /\ median \in Amounts(bids)
        /\ m <= Cardinality(Reaching(bids, median))
    BY <1>2, <2>1, RankedIs DEF n
  <2>3. median <= max
    BY <1>2, <2>1, RankedFalls DEF n
  <2> QED
    BY <1>2, <1>4, <2>2, <2>3
<1>6. ASSUME n > 1
      PROVE  /\ second \in Amounts(bids) /\ second <= max /\ median <= second
             /\ 2 <= Cardinality(Reaching(bids, second))
  <2>1. /\ 1 \in Nat \ {0} /\ 2 \in Nat \ {0} /\ 2 \in Nat /\ m \in Nat
        /\ 1 <= 2 /\ 2 <= n /\ 2 <= m /\ m <= n
    BY <1>1, <1>4, <1>6
  <2>2. second \in Amounts(bids) /\ 2 <= Cardinality(Reaching(bids, second))
    BY <1>2, <2>1, RankedIs DEF n
  <2>3. second <= max
    BY <1>2, <2>1, RankedFalls DEF n
  <2>4. median <= second
    BY <1>2, <2>1, RankedFalls DEF n
  <2> QED
    BY <2>2, <2>3, <2>4
<1>7. Cardinality(Reaching(bids, median)) \in Nat /\ Cardinality(Reaching(bids, second)) \in Nat
  BY BidderSets
<1>8. PICK rec : rec = Recommendation(bids)
  OBVIOUS
<1>9. /\ rec.count = n /\ rec.max = max /\ rec.median = median
      /\ n = 1 => rec.second = 0 /\ rec.reserve = max
      /\ n > 1 => /\ rec.second = second
                  /\ rec.reserve = IF max >= (second * 13) \div 10 THEN second ELSE median
  BY <1>1, <1>3, <1>8
<1>10. /\ n > 1 => Cardinality(Reaching(bids, median)) >= 2
       /\ 2 * Cardinality(Reaching(bids, median)) >= n
  BY <1>1, <1>4, <1>5, <1>7
<1>11. /\ n \in Nat \ {0} /\ rec.count = n
       /\ rec.max \in Amounts(bids) /\ rec.median \in Amounts(bids)
       /\ rec.median <= rec.max
       /\ n = 1 => rec.second = 0 /\ rec.median = rec.max /\ rec.reserve = rec.max
       /\ n > 1 =>
            /\ rec.second \in Amounts(bids) /\ rec.second <= rec.max
            /\ Cardinality(Reaching(bids, rec.second)) >= 2
            /\ Cardinality(Reaching(bids, rec.median)) >= 2
            /\ rec.median <= rec.second
            /\ rec.reserve = IF rec.max >= (rec.second * 13) \div 10
                             THEN rec.second ELSE rec.median
       /\ 2 * Cardinality(Reaching(bids, rec.median)) >= n
  BY <1>1, <1>5, <1>6, <1>7, <1>9, <1>10
<1> QED
  BY <1>8, <1>11 DEF n

-----------------------------------------------------------------------------
(***************************************************************************)
(* The published bids: what LastAuctionReveal finds in the Stream is the   *)
(* leaderboard of the sale.                                                *)
(***************************************************************************)

\* A reveal is in the Stream of a sold auction only, and lists its leaderboard.
RevealPublished ==
  \A i \in 1 .. Len(stream) :
    stream[i].type = "AUCTION_REVEALED" =>
      /\ status = "SOLD" /\ rules.mode \in Sealed
      /\ stream[i].bids = leaderboard
      /\ \A u \in Users : leaderboard[u] <= MaxMoney

\* A sealed close with bids.
RevealingClose ==
  /\ rules.mode \in Sealed
  /\ CloseAuctionSealed \/ CloseAuctionAllPay
  /\ HasBid(sealed)

\* Only a sealed close with bids appends a reveal.
LEMMA RevealSteps ==
  ASSUME CoreInv, [Next]_vars, Reveals = {}, ~RevealingClose
  PROVE  Reveals' = {}
<1> DEFINE Mute == EventTypes \ {"AUCTION_REVEALED"}
<1>0. TypeOK /\ Len(stream) \in Nat
  BY CoreTypes DEF CoreInv
<1>1. ASSUME NEW k \in Nat, Appends(k, Mute) PROVE Reveals' = {}
  <2>1. ASSUME NEW i \in Reveals' PROVE FALSE
    <3>1. i \in 1 .. Len(stream') /\ stream'[i].type = "AUCTION_REVEALED"
      BY DEF Reveals
    <3>2. i \in 1 .. Len(stream) \/ i \in Len(stream) + 1 .. Len(stream) + k
      BY <1>1, <3>1, OldOrNew DEF Appends
    <3> QED
      BY <1>1, <3>1, <3>2 DEF Appends, Reveals
  <2> QED
    BY <2>1
<1>2. CASE stream' = stream
  BY <1>2 DEF Reveals
<1>3. {"BID_ACCEPTED", "SEALED_BID_RECEIVED", "AUCTION_EXTENDED", "AUCTION_SOLD",
       "AUCTION_NO_BID", "AUCTION_CANCELLED"} \subseteq Mute \cap EventTypes
  BY DEF EventTypes, TerminalTypes, BidTypes
<1> HIDE DEF Mute
<1>4. winner \in Users \cup {NoUser} /\ price \in Nat
  BY <1>0 DEF TypeOK
<1>5. ASSUME NEW u \in Users, NEW r \in Reqs, NEW a \in BidAmounts, Bid(u, r, a)
      PROVE  Reveals' = {}
  <2>0. a \in Nat /\ u \in Users \cup {NoUser}
    BY BoundsAssumption
  <2>1. ASSUME NEW su \in Users \cup {NoUser}, NEW sa \in Nat, AscendingBid(u, r, a, su, sa)
        PROVE  Reveals' = {}
    <3>1. PICK k \in {1, 2} :
            /\ Grows(k)
            /\ k = 2 => stream'[Len(stream) + 2].type \in {"AUCTION_EXTENDED", "AUCTION_SOLD"}
      BY <2>0, <2>1, AscendingAppends
    <3>2. stream'[Len(stream) + 1].type = "BID_ACCEPTED"
      BY <2>0, <2>1, AscendingAppends
    <3>3. \A i \in Len(stream) + 1 .. Len(stream) + k :
            i = Len(stream) + 1 \/ (k = 2 /\ i = Len(stream) + 2)
      BY <1>0, <3>1
    <3> QED
      BY <1>1, <1>3, <3>1, <3>2, <3>3 DEF Appends, Grows
  <2>2. CASE PlaceBidSealed(u, r, a)
    <3>1. SealedCount(u) \in Nat
      BY UsersAssumption, FS_Subset, FS_CardinalityType DEF SealedCount
    <3>2. Appends(1, Mute)
      BY <1>0, <1>3, <2>2, <3>1, EmitAside DEF PlaceBidSealed
    <3> QED
      BY <1>1, <3>2
  <2> QED
    BY <1>4, <1>5, <2>0, <2>1, <2>2 DEF Bid, PlaceBid, PlaceBidHybrid, AscendingBid
<1>6. CASE CloseNoBid
  <2>1. Appends(1, Mute)
    BY <1>0, <1>3, <1>6, EmitAside DEF CloseNoBid
  <2> QED
    BY <1>1, <2>1
<1>7. CASE ~CloseNoBid /\ CloseAuction
  <2>1. Appends(1, Mute)
    BY <1>0, <1>3, <1>4, <1>7, EmitAside DEF CloseAuction
  <2> QED
    BY <1>1, <2>1
<1>8. CASE CloseAuctionDetailed
  BY <1>6, <1>7, <1>8
     DEF CloseAuctionDetailed, CloseAuctionSealed, CloseAuctionAllPay, RevealingClose, Sealed
<1>9. ASSUME NEW c \in Users, CancelAuction(c) PROVE Reveals' = {}
  <2>1. Appends(1, Mute)
    BY <1>0, <1>3, <1>9, EmitAside DEF CancelAuction
  <2> QED
    BY <1>1, <2>1
<1>10. CASE \/ \E r \in RuleSet : FreezeRules(r)
            \/ \E d \in Durations : StartAuction(d)
            \/ Tick \/ UNCHANGED vars
  BY <1>2, <1>10 DEF FreezeRules, StartAuction, Tick, vars
<1> QED
  BY <1>5, <1>8, <1>9, <1>10 DEF Next

\* The entries of a sealed close with bids: the reveal lists the sealed set.
LEMMA RevealAppends ==
  ASSUME CoreInv, RevealingClose
  PROVE  /\ \E p \in Nat : RevealAndSell(p)
         /\ \E k \in Nat : Len(stream') = Len(stream) + k
         /\ \A i \in 1 .. Len(stream) : stream'[i] = stream[i]
         /\ \A i \in 1 .. Len(stream') :
              i \notin 1 .. Len(stream) /\ stream'[i].type = "AUCTION_REVEALED"
                => stream'[i].bids = sealed
<1> DEFINE second == Top(Others(sealed))
           sold(k, q) == Entry("AUCTION_SOLD", k, Top(sealed), q, 0, 0, NoScores)
           forfeit == Entry("ALL_PAY_FORFEIT", seq + 2, second, sealed[second], 0, 0, NoScores)
<1>0. /\ TypeOK /\ sealed \in [Users -> Nat] /\ seq + 2 \in Nat /\ seq + 3 \in Nat
      /\ Len(stream) \in Nat /\ HasBid(sealed)
  BY CoreTypes DEF CoreInv, RevealingClose
<1>1. PICK p \in Nat :
        /\ RevealAndSell(p)
        /\ \/ Emit2(RevealedEvent(p), sold(seq + 2, p))
           \/ HasBid(Others(sealed)) /\ Emit3(RevealedEvent(p), forfeit, sold(seq + 3, p))
  <2>1. sealed[Top(sealed)] \in Nat /\ SecondPrice(sealed) \in Nat
    BY <1>0, OthersType, SecondPriceType
  <2> QED
    BY <1>0, <2>1 DEF RevealingClose, CloseAuctionSealed, CloseAuctionAllPay
<1>2. HasBid(Others(sealed)) => second \in Users
  BY <1>0, OthersType, TopIsBest
<1> HIDE DEF second
<1>3. /\ RevealedEvent(p) \in Event
      /\ sold(seq + 2, p) \in Event /\ sold(seq + 3, p) \in Event
      /\ HasBid(Others(sealed)) => forfeit \in Event
  BY <1>0, <1>2, RevealEntries
<1>4. /\ RevealedEvent(p).seq = seq + 1 /\ RevealedEvent(p).bids = sealed
      /\ sold(seq + 2, p).seq = seq + 2 /\ sold(seq + 2, p).type = "AUCTION_SOLD"
      /\ sold(seq + 3, p).seq = seq + 3 /\ sold(seq + 3, p).type = "AUCTION_SOLD"
      /\ forfeit.seq = seq + 2 /\ forfeit.type = "ALL_PAY_FORFEIT"
  BY DEF RevealedEvent, Entry
<1> HIDE DEF sold, forfeit
<1>5. PICK k \in {2, 3} :
        /\ Len(stream') = Len(stream) + k
        /\ \A i \in 1 .. Len(stream) : stream'[i] = stream[i]
        /\ stream'[Len(stream) + 1].bids = sealed
        /\ stream'[Len(stream) + 2].type # "AUCTION_REVEALED"
        /\ k = 3 => stream'[Len(stream) + 3].type # "AUCTION_REVEALED"
  <2>1. CASE Emit2(RevealedEvent(p), sold(seq + 2, p))
    <3>1. /\ Grows(2) /\ stream'[Len(stream) + 1] = RevealedEvent(p)
          /\ stream'[Len(stream) + 2] = sold(seq + 2, p)
      BY <1>0, <1>3, <1>4, <2>1, Emit2Grows
    <3> QED
      BY <1>4, <3>1 DEF Grows
  <2>2. CASE HasBid(Others(sealed)) /\ Emit3(RevealedEvent(p), forfeit, sold(seq + 3, p))
    <3>1. /\ Grows(3) /\ stream'[Len(stream) + 1] = RevealedEvent(p)
          /\ stream'[Len(stream) + 2] = forfeit
          /\ stream'[Len(stream) + 3] = sold(seq + 3, p)
      BY <1>0, <1>3, <1>4, <2>2, Emit3Grows
    <3> QED
      BY <1>4, <3>1 DEF Grows
  <2> QED
    BY <1>1, <2>1, <2>2
<1>6. \A i \in 1 .. Len(stream') :
        \/ i \in 1 .. Len(stream) \/ i = Len(stream) + 1
        \/ i = Len(stream) + 2 \/ (k = 3 /\ i = Len(stream) + 3)
  BY <1>0, <1>5
<1>7. k \in Nat
  BY <1>5
<1> QED
  BY <1>1, <1>5, <1>6, <1>7

\* Every step of the engine keeps what was published.
LEMMA NextPublished ==
  CoreInv /\ SealedSecrecy /\ MoneyInv /\ RevealPublished /\ [Next]_vars => RevealPublished'
<1> SUFFICES ASSUME CoreInv, SealedSecrecy, MoneyInv, RevealPublished, [Next]_vars
             PROVE  RevealPublished'
  OBVIOUS
<1>0. TypeOK /\ sealed \in [Users -> Nat]
  BY CoreTypes DEF CoreInv
<1>1. CASE status = "SOLD"
  <2>1. UNCHANGED <<status, rules, leaderboard, stream>>
    BY <1>1, EndedStays DEF Terminal, hash
  <2> QED
    BY <2>1 DEF RevealPublished
<1>2. CASE status # "SOLD" /\ ~RevealingClose
  <2>1. Reveals = {}
    BY <1>2 DEF RevealPublished, Reveals
  <2>2. Reveals' = {}
    BY <1>2, <2>1, RevealSteps
  <2> QED
    BY <2>2 DEF RevealPublished, Reveals
<1>3. CASE status # "SOLD" /\ RevealingClose
  <2>1. PICK p \in Nat : RevealAndSell(p)
    BY <1>3, RevealAppends
  <2>2. leaderboard' = sealed /\ status' = "SOLD" /\ rules' = rules
    BY <1>0, <1>3, <2>1, RevealWrites DEF RevealingClose
  <2>3. \A u \in Users : sealed[u] <= MaxMoney
    <3>1. MaxMoney \in Nat
      BY BoundsAssumption
    <3>2. ASSUME NEW u \in Users PROVE sealed[u] <= MaxMoney
      <4>1. sealed[u] \in Nat
        BY <1>0
      <4> QED
        BY <3>1, <4>1 DEF MoneyInv, ReserveMet
    <3> QED
      BY <3>2
  <2>4. ASSUME NEW i \in 1 .. Len(stream'), stream'[i].type = "AUCTION_REVEALED"
        PROVE  stream'[i].bids = sealed
    <3>1. i \notin 1 .. Len(stream)
      BY <1>3, <2>4, RevealAppends DEF RevealPublished
    <3> QED
      BY <1>3, <2>4, <3>1, RevealAppends
  <2> QED
    BY <1>3, <2>2, <2>3, <2>4 DEF RevealPublished, RevealingClose
<1> QED
  BY <1>1, <1>2, <1>3

\* The engine keeps the published bids.
LEMMA PublishedInvariant ==
  Spec => [](CoreInv /\ SealedSecrecy /\ MoneyInv /\ RevealPublished)
<1>1. Init => RevealPublished
  <2>1. Init => Len(stream) = 0
    BY DEF Init
  <2>2. 1 .. 0 = {}
    OBVIOUS
  <2> QED
    BY <2>1, <2>2 DEF RevealPublished
<1> QED
  BY <1>1, MoneyInvariant, SealedBidsStaySecret, NextPublished, PTL DEF Spec

-----------------------------------------------------------------------------
(***************************************************************************)
(* The engine under spawn-formal.                                          *)
(***************************************************************************)

\* Every step of the formal flow is a step of the engine or leaves it alone.
LEMMA FormalStepIsEngineStep == [FNext]_fvars => [Next]_vars
  BY DEF FNext, fvars, ParentStep, LoadRecommendation, ReuseChild, NoChild, CreateChild,
         SetParentAuction, RequestFails, DeleteChild

\* Requests, crashes and children add no behaviour to the parent's scripts.
THEOREM FormalRefinesEngine == FSpec => Spec
<1>1. FInit => Init
  BY DEF FInit
<1> QED
  BY <1>1, FormalStepIsEngineStep, PTL DEF FSpec, Spec

Summary == [count : Nat, max : Nat, second : Nat, median : Nat, reserve : Nat]

TaskRecord ==
  [pc : {"idle", "loaded", "create", "link"}, rec : Summary, child : Nat]

ChildRecord == [rules : RuleRecord, at : Nat, linked : BOOLEAN, there : BOOLEAN]

FormalTypeOK ==
  /\ task \in [Requests -> TaskRecord]
  /\ children \in Seq(ChildRecord)
  /\ \A q \in Requests : task[q].pc = "link" => task[q].child \in 1 .. Len(children)

\* The settled reply named one of the oldest linked children; nobody is about to
\* link another, and the last reply named one created in the same second.
SettledIsFirst ==
  settled # 0 =>
    /\ settled \in ChildAuctionByParent
    /\ reply \in DOMAIN children /\ children[reply].at = children[settled].at
    /\ \A q \in Requests : task[q].pc \notin {"create", "link"}

\* A summary is that of the leaderboard a close has published.
Published(rec) ==
  /\ status = "SOLD" /\ Bidders(leaderboard) # {}
  /\ \A u \in Users : leaderboard[u] <= MaxMoney
  /\ rec = Recommendation(leaderboard)

SummariesArePublished ==
  \A q \in Requests : task[q].rec # NoSummary => Published(task[q].rec)

\* The invariant of the formal flow, inductive relative to the engine's.
FormalInv == FormalTypeOK /\ SettledIsFirst /\ SummariesArePublished

ParentInv == CoreInv /\ SealedSecrecy /\ MoneyInv /\ RevealPublished

\* A recommendation is typed.
LEMMA RecommendationType ==
  ASSUME NEW bids \in [Users -> Nat], Bidders(bids) # {}
  PROVE  Recommendation(bids) \in Summary
<1>1. PICK rec : rec = Recommendation(bids)
  OBVIOUS
<1>2. /\ rec.count \in Nat /\ rec.max \in Nat /\ rec.median \in Nat
      /\ rec.second \in Nat /\ rec.reserve \in Nat
  <2>1. Amounts(bids) \in SUBSET Nat
    BY BidderSets
  <2>2. Cardinality(Bidders(bids)) = 1 \/ Cardinality(Bidders(bids)) > 1
    BY RecommendationIs
  <2> QED
    BY <1>1, <2>1, <2>2, RecommendationIs
<1>3. \E a, b, c, d, e : rec = [count |-> a, max |-> b, second |-> c, median |-> d, reserve |-> e]
  BY <1>1 DEF Recommendation
<1> QED
  BY <1>1, <1>2, <1>3 DEF Summary

\* It holds at the start.
LEMMA FormalInit == FInit => FormalInv
<1> SUFFICES ASSUME FInit PROVE FormalInv
  OBVIOUS
<1>1. /\ task = [q \in Requests |-> NoTask] /\ children = <<>>
      /\ settled = 0
  BY DEF FInit
<1>2. NoTask \in TaskRecord /\ NoTask.rec = NoSummary /\ NoTask.pc = "idle"
  BY DEF NoTask, TaskRecord, Summary, NoSummary
<1>3. \A q \in Requests : task[q] = NoTask
  BY <1>1
<1>4. FormalTypeOK
  BY <1>1, <1>2, <1>3 DEF FormalTypeOK
<1> QED
  BY <1>1, <1>2, <1>3, <1>4 DEF FormalInv, SettledIsFirst, SummariesArePublished

\* A request moves to a typed place with its own or no summary.
LEMMA TaskMoves ==
  ASSUME FormalInv, NEW q \in Requests, NEW t \in TaskRecord,
         task' = [task EXCEPT ![q] = t],
         UNCHANGED <<status, leaderboard>>,
         t.rec # NoSummary => Published(t.rec)
  PROVE  /\ task' \in [Requests -> TaskRecord]
         /\ \A p \in Requests : task'[p] = IF p = q THEN t ELSE task[p]
         /\ SummariesArePublished'
<1>1. task \in [Requests -> TaskRecord] /\ SummariesArePublished
  BY DEF FormalInv, FormalTypeOK
<1>2. /\ task' \in [Requests -> TaskRecord]
      /\ \A p \in Requests : task'[p] = IF p = q THEN t ELSE task[p]
  BY <1>1
<1>3. ASSUME NEW p \in Requests, task'[p].rec # NoSummary PROVE Published(task'[p].rec)
  BY <1>1, <1>2, <1>3 DEF SummariesArePublished
<1>4. ASSUME NEW p \in Requests, task'[p].rec # NoSummary
      PROVE  /\ status' = "SOLD" /\ Bidders(leaderboard') # {}
             /\ \A u \in Users : leaderboard'[u] <= MaxMoney
             /\ task'[p].rec = Recommendation(leaderboard')
  BY <1>3, <1>4 DEF Published
<1>5. SummariesArePublished'
  BY <1>4 DEF SummariesArePublished, Published
<1> QED
  BY <1>2, <1>5

\* The parent goes on: what was published stays.
LEMMA ParentKeeps ==
  ASSUME ParentInv, FormalInv, [Next]_vars, UNCHANGED formalVars
  PROVE  FormalInv'
<1>1. FormalTypeOK' /\ SettledIsFirst'
  BY DEF FormalInv, FormalTypeOK, SettledIsFirst, formalVars, ChildAuctionByParent, Linked
<1>2. ASSUME NEW q \in Requests, task'[q].rec # NoSummary PROVE Published(task[q].rec)'
  <2>1. Published(task[q].rec) /\ task'[q] = task[q]
    BY <1>2 DEF FormalInv, SummariesArePublished, formalVars
  <2>2. UNCHANGED <<status, leaderboard>>
    BY <2>1, EndedStays DEF Published, Terminal, hash
  <2>3. task' = task
    BY DEF formalVars
  <2> QED
    BY <2>1, <2>2, <2>3 DEF Published
<1> QED
  BY <1>1, <1>2 DEF FormalInv, SummariesArePublished

\* The last reveal in the Stream lists the leaderboard.
LEMMA LastRevealIsLeaderboard ==
  ASSUME ParentInv, Reveals # {}
  PROVE  LastAuctionReveal = leaderboard /\ \A u \in Users : leaderboard[u] <= MaxMoney
<1>1. Len(stream) \in Nat /\ Reveals \in SUBSET Nat /\ \A i \in Reveals : i <= Len(stream)
  <2>1. Len(stream) \in Nat
    BY CoreTypes DEF ParentInv, CoreInv
  <2> QED
    BY <2>1 DEF Reveals
<1>2. \E i \in Reveals : \A j \in Reveals : j <= i
  BY <1>1, GreatestNatural
<1>3. PICK i \in Reveals : LastAuctionReveal = stream[i].bids
  BY <1>2 DEF LastAuctionReveal
<1> QED
  BY <1>3 DEF ParentInv, RevealPublished, Reveals

\* loadPrequalifyRecommendation.
LEMMA LoadKeeps ==
  ASSUME ParentInv, FormalInv, NEW q \in Requests, LoadRecommendation(q)
  PROVE  FormalInv'
<1>1. PICK t : t = [NoTask EXCEPT !.pc = "loaded", !.rec = Recommendation(LastAuctionReveal)]
  OBVIOUS
<1>2. /\ task' = [task EXCEPT ![q] = t]
      /\ status = "SOLD" /\ Reveals # {} /\ Bidders(LastAuctionReveal) # {}
      /\ UNCHANGED <<vars, status, leaderboard, children, reply, settled>>
  BY <1>1 DEF LoadRecommendation, vars, hash
<1>3. /\ LastAuctionReveal = leaderboard /\ leaderboard \in [Users -> Nat]
      /\ \A u \in Users : leaderboard[u] <= MaxMoney
  BY <1>2, LastRevealIsLeaderboard, CoreTypes DEF ParentInv, CoreInv
<1>4. /\ t \in TaskRecord /\ t.pc = "loaded" /\ t.rec = Recommendation(leaderboard)
  BY <1>1, <1>2, <1>3, RecommendationType DEF NoTask, TaskRecord
<1>5. Published(t.rec)
  BY <1>2, <1>3, <1>4 DEF Published
<1>6. /\ task' \in [Requests -> TaskRecord]
      /\ \A p \in Requests : task'[p] = IF p = q THEN t ELSE task[p]
      /\ SummariesArePublished'
  BY <1>2, <1>4, <1>5, TaskMoves
<1>7. FormalTypeOK'
  BY <1>2, <1>4, <1>6 DEF FormalInv, FormalTypeOK
<1>8. SettledIsFirst'
  BY <1>2, <1>4, <1>6 DEF FormalInv, SettledIsFirst, ChildAuctionByParent, Linked
<1> QED
  BY <1>6, <1>7, <1>8 DEF FormalInv

\* The linked children are places of the list.
LEMMA LinkedPlaces ==
  ASSUME FormalTypeOK
  PROVE  /\ Len(children) \in Nat /\ Linked \in SUBSET (1 .. Len(children))
         /\ Linked \in SUBSET Nat
  BY DEF FormalTypeOK, Linked

\* The oldest linked children were created in the same second.
LEMMA OldestTie ==
  ASSUME FormalTypeOK, NEW c \in ChildAuctionByParent, NEW d \in ChildAuctionByParent
  PROVE  children[c].at = children[d].at
<1>1. /\ c \in Linked /\ d \in Linked
      /\ children[c].at <= children[d].at /\ children[d].at <= children[c].at
  BY DEF ChildAuctionByParent
<1>2. children[c] \in ChildRecord /\ children[d] \in ChildRecord
  BY <1>1 DEF FormalTypeOK, Linked
<1> QED
  BY <1>1, <1>2 DEF ChildRecord

\* The idle place.
LEMMA IdleTask ==
  NoTask \in TaskRecord /\ NoTask.rec = NoSummary /\ NoTask.pc = "idle"
  BY DEF NoTask, TaskRecord, Summary, NoSummary

\* The reply names the child that is there.
LEMMA ReuseKeeps ==
  ASSUME FormalInv, NEW q \in Requests, ReuseChild(q)
  PROVE  FormalInv'
<1>1. PICK c \in ChildAuctionByParent :
        /\ settled' = IF settled = 0 /\ Quiet(q) THEN c ELSE settled
        /\ settled' # 0 => reply' = c
  BY DEF ReuseChild, Reply
<1>2. /\ task' = [task EXCEPT ![q] = NoTask]
      /\ task[q].pc = "loaded"
      /\ UNCHANGED <<vars, status, leaderboard, children>>
  BY DEF ReuseChild, Done, vars, hash
<1>3. /\ task' \in [Requests -> TaskRecord]
      /\ \A p \in Requests : task'[p] = IF p = q THEN NoTask ELSE task[p]
      /\ SummariesArePublished'
  BY <1>2, IdleTask, TaskMoves
<1>4. FormalTypeOK'
  BY <1>2, <1>3, IdleTask DEF FormalInv, FormalTypeOK
<1>5. SettledIsFirst'
  <2>1. c \in ChildAuctionByParent'
    BY <1>2 DEF ChildAuctionByParent, Linked
  <2>2. CASE settled = 0 /\ Quiet(q)
    <3>1. \A p \in Requests : task'[p].pc \notin {"create", "link"}
      BY <1>3, <2>2, IdleTask DEF Quiet
    <3>2. settled' \in ChildAuctionByParent' /\ settled' \in DOMAIN children'
      BY <1>1, <2>1, <2>2 DEF ChildAuctionByParent, Linked
    <3> QED
      BY <1>1, <2>2, <3>1, <3>2 DEF SettledIsFirst
  <2>3. CASE settled = 0 /\ ~Quiet(q)
    BY <1>1, <2>3 DEF SettledIsFirst
  <2>4. CASE settled # 0
    <3>1. settled \in ChildAuctionByParent /\ \A p \in Requests : task[p].pc \notin {"create", "link"}
      BY <2>4 DEF FormalInv, SettledIsFirst
    <3>2. children[c].at = children[settled].at /\ settled' = settled
      BY <1>1, <2>4, <3>1, OldestTie DEF FormalInv
    <3>3. \A p \in Requests : task'[p].pc \notin {"create", "link"}
      BY <1>3, <3>1, IdleTask
    <3>4. /\ settled' \in ChildAuctionByParent' /\ reply' = c /\ children' = children
          /\ c \in DOMAIN children
      BY <1>1, <1>2, <2>4, <3>1, <3>2 DEF ChildAuctionByParent, Linked
    <3> QED
      BY <3>2, <3>3, <3>4 DEF SettledIsFirst
  <2> QED
    BY <2>2, <2>3, <2>4
<1> QED
  BY <1>3, <1>4, <1>5 DEF FormalInv

\* Once a reply is settled nobody creates or links any more.
LEMMA SettledStops ==
  ASSUME FormalInv, NEW q \in Requests, settled # 0
  PROVE  Linked # {} /\ task[q].pc \notin {"create", "link"}
  BY DEF FormalInv, SettledIsFirst, ChildAuctionByParent

\* The lookup that finds nothing.
LEMMA NoChildKeeps ==
  ASSUME FormalInv, NEW q \in Requests, NoChild(q)
  PROVE  FormalInv'
<1>1. PICK t : t = [task[q] EXCEPT !.pc = "create"]
  OBVIOUS
<1>2. task[q] \in TaskRecord /\ task \in [Requests -> TaskRecord]
  BY DEF FormalInv, FormalTypeOK
<1>3. t \in TaskRecord /\ t.pc = "create" /\ t.rec = task[q].rec
  BY <1>1, <1>2 DEF TaskRecord
<1>4. /\ task' = [task EXCEPT ![q] = t] /\ Linked = {}
      /\ UNCHANGED <<vars, status, leaderboard, children, reply, settled>>
  BY <1>1, <1>2 DEF NoChild, vars, hash
<1>5. /\ task' \in [Requests -> TaskRecord]
      /\ \A p \in Requests : task'[p] = IF p = q THEN t ELSE task[p]
      /\ SummariesArePublished'
  BY <1>3, <1>4, TaskMoves DEF FormalInv, SummariesArePublished
<1>6. settled = 0
  BY <1>4, SettledStops
<1> QED
  BY <1>3, <1>4, <1>5, <1>6 DEF FormalInv, FormalTypeOK, SettledIsFirst

\* The insert: a new child that is not linked.
LEMMA CreateKeeps ==
  ASSUME FormalInv, NEW q \in Requests, NEW b \in Bodies, NEW at \in Seconds,
         CreateChild(q, b, at)
  PROVE  FormalInv'
<1>1. PICK rec, new :
        /\ rec = NormalizeRules(Seeded(task[q].rec, b))
        /\ new = [rules |-> rec, at |-> at, linked |-> FALSE, there |-> TRUE]
  OBVIOUS
<1>2. /\ task[q] \in TaskRecord /\ task \in [Requests -> TaskRecord]
      /\ children \in Seq(ChildRecord) /\ Len(children) \in Nat
      /\ task[q].rec \in Summary
  BY DEF FormalInv, FormalTypeOK, TaskRecord
<1>3. new \in ChildRecord
  <2>1. b \in RuleRecord /\ task[q].rec.reserve \in Nat
    BY <1>2, FormalAssumption DEF Summary
  <2>2. Seeded(task[q].rec, b) \in RuleRecord
    BY <2>1 DEF Seeded, RuleRecord
  <2>3. rec \in RuleRecord
    BY <1>1, <2>2 DEF NormalizeRules, RuleRecord
  <2> QED
    BY <1>1, <2>3, FormalAssumption DEF ChildRecord
<1>4. PICK t : t = [task[q] EXCEPT !.pc = "link", !.child = Len(children) + 1]
  OBVIOUS
<1>5. /\ t \in TaskRecord /\ t.pc = "link" /\ t.child = Len(children) + 1
      /\ t.rec = task[q].rec
  <2>1. Len(children) + 1 \in Nat
    BY <1>2
  <2>2. \A k \in Nat : [task[q] EXCEPT !.pc = "link", !.child = k] \in TaskRecord
    BY <1>2 DEF TaskRecord
  <2>3. t \in TaskRecord
    BY <1>4, <2>1, <2>2
  <2> QED
    BY <1>2, <1>4, <2>3 DEF TaskRecord
<1>6. /\ task' = [task EXCEPT ![q] = t] /\ children' = Append(children, new)
      /\ task[q].pc = "create"
      /\ UNCHANGED <<vars, status, leaderboard, reply, settled>>
  BY <1>1, <1>2, <1>4 DEF CreateChild, vars, hash
<1>7. /\ task' \in [Requests -> TaskRecord]
      /\ \A p \in Requests : task'[p] = IF p = q THEN t ELSE task[p]
      /\ SummariesArePublished'
  BY <1>5, <1>6, TaskMoves DEF FormalInv, SummariesArePublished
<1>8. children' \in Seq(ChildRecord) /\ Len(children') = Len(children) + 1
  BY <1>2, <1>3, <1>6
<1>9. ASSUME NEW p \in Requests, task'[p].pc = "link"
      PROVE  task'[p].child \in 1 .. Len(children')
  <2>1. CASE p = q
    BY <1>2, <1>5, <1>7, <1>8, <2>1
  <2>2. CASE p # q
    <3>1. task[p].child \in 1 .. Len(children) /\ task'[p] = task[p]
      BY <1>7, <1>9, <2>2 DEF FormalInv, FormalTypeOK
    <3> QED
      BY <1>2, <1>8, <3>1
  <2> QED
    BY <2>1, <2>2
<1>10. settled = 0
  BY <1>6, SettledStops
<1> QED
  BY <1>6, <1>7, <1>8, <1>9, <1>10 DEF FormalInv, FormalTypeOK, SettledIsFirst

\* The link.
LEMMA LinkKeeps ==
  ASSUME FormalInv, NEW q \in Requests, task[q].pc = "link",
         children' = [children EXCEPT ![task[q].child].linked = TRUE],
         task' = [task EXCEPT ![q] = NoTask],
         UNCHANGED <<vars, settled>>
  PROVE  FormalInv'
<1>1. PICK c \in 1 .. Len(children) : c = task[q].child
  BY DEF FormalInv, FormalTypeOK
<1>2. children \in Seq(ChildRecord) /\ children[c] \in ChildRecord
  BY DEF FormalInv, FormalTypeOK
<1>3. PICK new : new = [children[c] EXCEPT !.linked = TRUE]
  OBVIOUS
<1>4. new \in ChildRecord
  BY <1>2, <1>3 DEF ChildRecord
<1>5. children' = [children EXCEPT ![c] = new]
  BY <1>1, <1>3
<1>6. children' \in Seq(ChildRecord) /\ Len(children') = Len(children)
  <2>1. /\ [children EXCEPT ![c] = new] \in Seq(ChildRecord)
        /\ Len([children EXCEPT ![c] = new]) = Len(children)
    BY <1>2, <1>4, ExceptSeq
  <2> QED
    BY <1>5, <2>1
<1>7. /\ task' \in [Requests -> TaskRecord]
      /\ \A p \in Requests : task'[p] = IF p = q THEN NoTask ELSE task[p]
      /\ SummariesArePublished'
  BY IdleTask, TaskMoves DEF vars, hash
<1>8. FormalTypeOK'
  BY <1>6, <1>7, IdleTask DEF FormalInv, FormalTypeOK
<1>9. settled = 0
  BY SettledStops
<1> QED
  BY <1>7, <1>8, <1>9 DEF FormalInv, SettledIsFirst

\* A failed request: without an effect on the children, or after the link.
LEMMA FailKeeps ==
  ASSUME FormalInv, NEW q \in Requests, RequestFails(q)
  PROVE  FormalInv'
<1>1. /\ task' = [task EXCEPT ![q] = NoTask]
      /\ UNCHANGED <<vars, status, leaderboard, reply, settled>>
  BY DEF RequestFails, Done, vars, hash
<1>2. CASE children' = children
  <2>1. /\ task' \in [Requests -> TaskRecord]
        /\ \A p \in Requests : task'[p] = IF p = q THEN NoTask ELSE task[p]
        /\ SummariesArePublished'
    BY <1>1, IdleTask, TaskMoves
  <2>2. FormalTypeOK'
    BY <1>1, <1>2, <2>1, IdleTask DEF FormalInv, FormalTypeOK
  <2>3. SettledIsFirst'
    BY <1>1, <1>2, <2>1, IdleTask
    DEF FormalInv, SettledIsFirst, ChildAuctionByParent, Linked
  <2> QED
    BY <2>1, <2>2, <2>3 DEF FormalInv
<1>3. CASE /\ task[q].pc = "link"
           /\ children' = [children EXCEPT ![task[q].child].linked = TRUE]
  BY <1>1, <1>3, LinkKeeps
<1> QED
  BY <1>2, <1>3 DEF RequestFails

\* The deletion: a settled child that stays is still among the oldest.
LEMMA DeleteKeeps ==
  ASSUME FormalInv, NEW c \in DOMAIN children, DeleteChild(c)
  PROVE  FormalInv'
<1>1. /\ children \in Seq(ChildRecord) /\ c \in 1 .. Len(children)
      /\ children[c] \in ChildRecord
  BY DEF FormalInv, FormalTypeOK
<1>2. PICK new : new = [children[c] EXCEPT !.there = FALSE]
  OBVIOUS
<1>3. new \in ChildRecord /\ new.at = children[c].at /\ new.linked = children[c].linked
      /\ new.there = FALSE
  BY <1>1, <1>2 DEF ChildRecord
<1>4. /\ children' = [children EXCEPT ![c] = new]
      /\ settled' = IF c = settled THEN 0 ELSE settled
      /\ settled' # 0 => reply' = reply
      /\ UNCHANGED <<vars, status, leaderboard, task>>
  BY <1>2 DEF DeleteChild, Reply, vars, hash
<1>5. /\ children' \in Seq(ChildRecord) /\ Len(children') = Len(children)
      /\ DOMAIN children' = DOMAIN children
  <2>1. /\ [children EXCEPT ![c] = new] \in Seq(ChildRecord)
        /\ Len([children EXCEPT ![c] = new]) = Len(children)
    BY <1>1, <1>3, ExceptSeq
  <2> QED
    BY <1>1, <1>4, <2>1
<1>6. FormalTypeOK' /\ SummariesArePublished'
  BY <1>4, <1>5 DEF FormalInv, FormalTypeOK, SummariesArePublished, Published
<1>7. /\ \A d \in DOMAIN children : children'[d].at = children[d].at
      /\ Linked' = Linked \ {c}
  <2>1. \A d \in DOMAIN children : children'[d] = IF d = c THEN new ELSE children[d]
    BY <1>1, <1>4
  <2> QED
    BY <1>3, <1>5, <2>1 DEF Linked
<1>8. SettledIsFirst'
  <2> SUFFICES ASSUME settled' # 0
               PROVE  /\ settled' \in ChildAuctionByParent'
                      /\ reply' \in DOMAIN children'
                      /\ children'[reply'].at = children'[settled'].at
                      /\ \A q \in Requests : task'[q].pc \notin {"create", "link"}
    BY DEF SettledIsFirst
  <2>1. settled' = settled /\ settled # c /\ settled # 0 /\ reply' = reply
    BY <1>4
  <2>2. /\ settled \in ChildAuctionByParent
        /\ reply \in DOMAIN children /\ settled \in DOMAIN children
        /\ children[reply].at = children[settled].at
        /\ \A q \in Requests : task[q].pc \notin {"create", "link"}
    BY <2>1 DEF FormalInv, SettledIsFirst, ChildAuctionByParent, Linked
  <2>3. settled' \in ChildAuctionByParent'
    BY <1>7, <2>1, <2>2 DEF ChildAuctionByParent, Linked
  <2> QED
    BY <1>4, <1>5, <1>7, <2>1, <2>2, <2>3
<1> QED
  BY <1>6, <1>8 DEF FormalInv

\* Every step keeps it.
LEMMA FormalNext == ParentInv /\ FormalInv /\ [FNext]_fvars => FormalInv'
<1> SUFFICES ASSUME ParentInv, FormalInv, [FNext]_fvars PROVE FormalInv'
  OBVIOUS
<1>1. CASE ParentStep \/ UNCHANGED fvars
  BY <1>1, ParentKeeps DEF ParentStep, fvars
<1>2. ASSUME NEW q \in Requests, LoadRecommendation(q) PROVE FormalInv'
  BY <1>2, LoadKeeps
<1>3. ASSUME NEW q \in Requests, ReuseChild(q) PROVE FormalInv'
  BY <1>3, ReuseKeeps
<1>4. ASSUME NEW q \in Requests, NoChild(q) PROVE FormalInv'
  BY <1>4, NoChildKeeps
<1>5. ASSUME NEW q \in Requests, NEW b \in Bodies, NEW at \in Seconds, CreateChild(q, b, at)
      PROVE  FormalInv'
  BY <1>5, CreateKeeps
<1>6. ASSUME NEW q \in Requests, SetParentAuction(q) PROVE FormalInv'
  BY <1>6, LinkKeeps DEF SetParentAuction, Done
<1>7. ASSUME NEW q \in Requests, RequestFails(q) PROVE FormalInv'
  BY <1>7, FailKeeps
<1>8. ASSUME NEW c \in DOMAIN children, DeleteChild(c) PROVE FormalInv'
  BY <1>8, DeleteKeeps
<1> QED
  BY <1>1, <1>2, <1>3, <1>4, <1>5, <1>6, <1>7, <1>8 DEF FNext

\* The formal flow keeps its invariant: replies settle on an oldest linked
\* child, and summaries are those of the published leaderboard.
THEOREM FormalInvariant == FSpec => [](ParentInv /\ FormalInv)
<1>1. FSpec => []ParentInv
  BY FormalRefinesEngine, PublishedInvariant, PTL DEF ParentInv
<1> QED
  BY <1>1, FormalInit, FormalNext, PTL DEF FSpec

\* Once a reply has named an existing formal auction with nothing in flight,
\* every spawn-formal reply until that auction is deleted names one created in
\* the same second, whatever failed, raced, was retried or deleted before, and
\* whatever the clocks of the processes showed (storedb.go ChildAuctionByParent).
THEOREM RetriesConverge == FSpec => []RetriesAgree
<1>1. FormalInv => RetriesAgree
  BY DEF FormalInv, SettledIsFirst, RetriesAgree
<1> QED
  BY <1>1, FormalInvariant, PTL

\* A summary in use is the recommendation of the leaderboard.
LEMMA SummaryIs ==
  ASSUME ParentInv, FormalInv, NEW rec \in Recommended
  PROVE  /\ leaderboard \in [Users -> Nat] /\ Bidders(leaderboard) # {}
         /\ \A u \in Users : leaderboard[u] <= MaxMoney
         /\ rec = Recommendation(leaderboard) /\ rec \in Summary
<1>1. leaderboard \in [Users -> Nat]
  BY CoreTypes DEF ParentInv, CoreInv
<1>2. PICK q \in Requests : rec = task[q].rec /\ rec # NoSummary
  BY DEF Recommended
<1>3. Published(rec)
  BY <1>2 DEF FormalInv, SummariesArePublished
<1> QED
  BY <1>1, <1>3, RecommendationType DEF Published

\* The floor handed to a formal auction is an amount somebody bid in the sealed
\* phase, and the bidders who can climb from it are as many as promised, in
\* every state and for every number of bidders and bids.
THEOREM FloorsAreMet == FSpec => []FloorIsMet
<1>1. ParentInv /\ FormalInv => FloorIsMet
  <2> SUFFICES ASSUME ParentInv, FormalInv, NEW rec \in Recommended,
                      NEW met, met = {u \in Users : leaderboard[u] >= rec.reserve}
               PROVE  /\ \E u \in Users : leaderboard[u] = rec.reserve
                      /\ rec.count = Cardinality({u \in Users : leaderboard[u] > 0})
                      /\ rec.count > 1 => Cardinality(met) >= 2
                      /\ rec.reserve < rec.second => 2 * Cardinality(met) >= rec.count
    BY DEF FloorIsMet
  <2>1. /\ leaderboard \in [Users -> Nat] /\ Bidders(leaderboard) # {}
        /\ \A u \in Users : leaderboard[u] <= MaxMoney
        /\ rec = Recommendation(leaderboard)
    BY SummaryIs
  <2>2. PICK n : n = Cardinality(Bidders(leaderboard))
    OBVIOUS
  <2>3. n \in Nat \ {0} /\ rec.count = n
    BY <2>1, <2>2, RecommendationIs
  <2>4. Bidders(leaderboard) = {u \in Users : leaderboard[u] > 0}
    BY <2>1 DEF Bidders
  <2>5. CASE n = 1
    <3>1. rec.second = 0 /\ rec.reserve = rec.max /\ rec.max \in Amounts(leaderboard)
      BY <2>1, <2>2, <2>5, RecommendationIs
    <3>2. rec.reserve \in Nat
      BY <2>1, <3>1, BidderSets
    <3>3. \E u \in Users : leaderboard[u] = rec.reserve
      BY <3>1 DEF Amounts, Bidders
    <3>4. ~(rec.count > 1) /\ ~(rec.reserve < rec.second)
      BY <2>3, <2>5, <3>1, <3>2
    <3> QED
      BY <2>2, <2>3, <2>4, <3>3, <3>4
  <2>6. CASE n > 1
    <3>1. /\ rec.reserve \in {rec.second, rec.median}
          /\ {rec.second, rec.median} \subseteq Amounts(leaderboard)
          /\ Cardinality(Reaching(leaderboard, rec.second)) >= 2
          /\ Cardinality(Reaching(leaderboard, rec.median)) >= 2
          /\ 2 * Cardinality(Reaching(leaderboard, rec.median)) >= n
      BY <2>1, <2>2, <2>6, RecommendationIs
    <3>2. rec.reserve \in Amounts(leaderboard) /\ rec.reserve \in Nat /\ 0 < rec.reserve
      BY <2>1, <3>1, BidderSets
    <3>3. met = Reaching(leaderboard, rec.reserve)
      BY <2>1, <3>2 DEF Reaching, Bidders
    <3>4. \E u \in Users : leaderboard[u] = rec.reserve
      BY <3>2 DEF Amounts, Bidders
    <3>5. Cardinality(met) >= 2
      BY <3>1, <3>3
    <3>6. rec.reserve < rec.second => rec.reserve = rec.median
      BY <3>1, <3>2
    <3> QED
      BY <2>2, <2>3, <2>4, <3>1, <3>3, <3>4, <3>5, <3>6
  <2> QED
    BY <2>3, <2>5, <2>6
<1> QED
  BY <1>1, FormalInvariant, PTL

\* A step is positive and hardly above what was asked for.
LEMMA RoundStepIs ==
  ASSUME NEW raw \in Nat
  PROVE  RoundStep(raw) \in Nat \ {0} /\ RoundStep(raw) <= raw + StepUnit
<1>1. StepUnit \in Nat \ {0}
  BY FormalAssumption
<1>2. PICK k : k = raw \div StepUnit
  OBVIOUS
<1>3. k \in Nat /\ k * StepUnit <= raw /\ raw < k * StepUnit + StepUnit
  BY <1>1, <1>2
<1>4. CASE raw < StepUnit
  BY <1>1, <1>4 DEF RoundStep
<1>5. CASE ~(raw < StepUnit)
  <2>1. RoundStep(raw) = k * StepUnit
    BY <1>2, <1>5 DEF RoundStep
  <2>2. k * StepUnit \in Nat
    BY <1>1, <1>3
  <2>3. k * StepUnit # 0
    BY <1>1, <1>3, <1>5, <2>2
  <2> QED
    BY <1>1, <1>3, <2>1, <2>2, <2>3
<1> QED
  BY <1>4, <1>5

\* Prices below the clamp, with a step for one of them, make valid rules.
LEMMA SanePricesAreValid ==
  ASSUME NEW start \in Nat, start <= MaxSane, NEW from \in Nat, from <= MaxSane
  PROVE  Validate([NoRules EXCEPT !.startPrice = start,
                                  !.increment = RoundStep(from \div 100)])
<1>1. from \div 100 \in Nat /\ from \div 100 <= MaxSane \div 100 /\ MaxSane \div 100 \in Nat
  BY FormalAssumption
<1>2. PICK step : step = RoundStep(from \div 100)
  OBVIOUS
<1>3. /\ step \in Nat \ {0} /\ step <= from \div 100 + StepUnit
  BY <1>1, <1>2, RoundStepIs
<1>4. MaxSane \in Nat /\ StepUnit \in Nat /\ MaxMoney \in Nat
      /\ MaxSane + MaxSane \div 100 + StepUnit <= MaxMoney
  BY FormalAssumption, BoundsAssumption
<1>5. start + step <= MaxMoney /\ start <= MaxMoney /\ step <= MaxMoney
  BY <1>1, <1>3, <1>4
<1> QED
  BY <1>2, <1>3, <1>4, <1>5 DEF Validate, NoRules

\* The advice from an anchor: parts of it that do not exceed it.
LEMMA AnchoredAdviceIsUsable ==
  ASSUME NEW anchor \in Nat, anchor <= MaxSane, NEW fallback
  PROVE  LET advice == AnchoredAdvice(anchor, fallback) IN
         /\ advice.start <= advice.reserve
         /\ Validate([NoRules EXCEPT !.startPrice = advice.start, !.increment = advice.step])
<1>1. /\ (anchor * 60) \div 100 \in Nat /\ (anchor * 60) \div 100 <= anchor
      /\ (anchor * 60) \div 100 <= (anchor * 80) \div 100
  OBVIOUS
<1>2. MaxSane \in Nat
  BY FormalAssumption
<1>3. (anchor * 60) \div 100 <= MaxSane
  BY <1>1, <1>2
<1> QED
  BY <1>1, <1>3, SanePricesAreValid DEF AnchoredAdvice

\* The advice from a summary of published bids: one price, the backend's floor
\* when nothing was clamped.
LEMMA SealedAdviceIsUsable ==
  ASSUME ParentInv, FormalInv, NEW s \in Recommended
  PROVE  LET advice == AdviceFromSealed(s) IN
         /\ s.count > 0 /\ ParseCents(s.max) > 0
         /\ advice.start <= advice.reserve
         /\ Validate([NoRules EXCEPT !.startPrice = advice.start, !.increment = advice.step])
         /\ s.max <= MaxSane => advice.reserve = s.reserve
<1>1. /\ leaderboard \in [Users -> Nat] /\ Bidders(leaderboard) # {}
      /\ s = Recommendation(leaderboard) /\ s \in Summary
  BY SummaryIs
<1>2. PICK n : n = Cardinality(Bidders(leaderboard))
  OBVIOUS
<1>3. /\ n \in Nat \ {0} /\ s.count = n
      /\ s.max \in Nat /\ s.median \in Nat /\ s.second \in Nat /\ s.reserve \in Nat
      /\ 0 < s.max /\ 0 < s.median /\ s.median <= s.max /\ s.second <= s.max
      /\ n = 1 => s.second = 0 /\ s.median = s.max /\ s.reserve = s.max
      /\ n > 1 => /\ 0 < s.second
                  /\ s.reserve = IF s.max >= (s.second * 13) \div 10
                                 THEN s.second ELSE s.median
  <2>1. n \in Nat \ {0} /\ s.count = n /\ s.median <= s.max
        /\ s.max \in Amounts(leaderboard) /\ s.median \in Amounts(leaderboard)
    BY <1>1, <1>2, RecommendationIs
  <2>2. \A a \in Amounts(leaderboard) : a \in Nat /\ 0 < a
    BY <1>1, BidderSets
  <2>3. CASE n = 1
    <3>1. s.second = 0 /\ s.median = s.max /\ s.reserve = s.max
      BY <1>1, <1>2, <2>3, RecommendationIs
    <3> QED
      BY <2>1, <2>2, <2>3, <3>1
  <2>4. CASE n > 1
    <3>1. /\ s.second \in Amounts(leaderboard) /\ s.second <= s.max
          /\ s.reserve = IF s.max >= (s.second * 13) \div 10 THEN s.second ELSE s.median
      BY <1>1, <1>2, <2>4, RecommendationIs
    <3> QED
      BY <2>1, <2>2, <2>4, <3>1
  <2> QED
    BY <2>1, <2>3, <2>4
<1>4. MaxSane \in Nat /\ 0 < MaxSane
  BY FormalAssumption
<1>5. \A a \in Nat : /\ ParseCents(a) \in Nat /\ ParseCents(a) <= MaxSane
                     /\ (0 < a => 0 < ParseCents(a)) /\ (a <= MaxSane => ParseCents(a) = a)
  BY <1>4 DEF ParseCents
<1>6. PICK max, second, median :
        /\ max = ParseCents(s.max) /\ second = ParseCents(s.second)
        /\ median = ParseCents(s.median)
  OBVIOUS
<1>7. /\ {max, second, median} \subseteq Nat /\ 0 < max /\ 0 < median
      /\ max <= MaxSane /\ second <= MaxSane /\ median <= MaxSane
      /\ s.max <= MaxSane => max = s.max /\ second = s.second /\ median = s.median
  BY <1>3, <1>4, <1>5, <1>6
<1>8. PICK floor : floor = IF IsOutlier(max, second) THEN second ELSE median
  OBVIOUS
<1>9. AdviceFromSealed(s) = [start |-> floor, step |-> RoundStep(max \div 100),
                             reserve |-> floor, fallback |-> FALSE]
  BY <1>6, <1>7, <1>8 DEF AdviceFromSealed
<1>10. floor \in Nat /\ floor <= MaxSane
  BY <1>7, <1>8
<1>11. ASSUME s.max <= MaxSane PROVE floor = s.reserve
  <2>1. max = s.max /\ second = s.second /\ median = s.median
    BY <1>7, <1>11
  <2> QED
    BY <1>3, <1>8, <2>1 DEF IsOutlier
<1>12. Validate([NoRules EXCEPT !.startPrice = floor, !.increment = RoundStep(max \div 100)])
  BY <1>7, <1>10, SanePricesAreValid
<1>13. PICK a : a = AdviceFromSealed(s)
  OBVIOUS
<1>14. a.start = floor /\ a.reserve = floor /\ a.step = RoundStep(max \div 100)
  BY <1>9, <1>13
<1>15. Validate([NoRules EXCEPT !.startPrice = a.start, !.increment = a.step])
  BY <1>12, <1>14
<1>16. s.count > 0 /\ ParseCents(s.max) > 0
  BY <1>3, <1>6, <1>7
<1> QED
  BY <1>10, <1>11, <1>13, <1>14, <1>15, <1>16

\* The sidecar's advice can be taken as it is: with any estimate, past price
\* and published summary its prices pass Rules.Validate and its start is not
\* above its reserve, and the reserve is the floor of the backend.
THEOREM AdviceStaysUsable == FSpec => []AdviceIsUsable
<1>1. ParentInv /\ FormalInv => AdviceIsUsable
  <2> SUFFICES ASSUME ParentInv, FormalInv, NEW e \in Estimates, NEW p \in Estimates,
                      NEW s \in Recommended \cup {NoSummary},
                      NEW advice, advice = Recommend(e, p, s)
               PROVE  /\ advice.start <= advice.reserve
                      /\ Validate([NoRules EXCEPT !.startPrice = advice.start,
                                                  !.increment = advice.step])
                      /\ s # NoSummary /\ s.max <= MaxSane => advice.reserve = s.reserve
    BY DEF AdviceIsUsable
  <2>1. CASE s \in Recommended
    <3>1. advice = AdviceFromSealed(s)
      BY <2>1, SealedAdviceIsUsable DEF Recommend
    <3> QED
      BY <2>1, <3>1, SealedAdviceIsUsable
  <2>2. CASE s = NoSummary
    <3>1. PICK anchor, fallback :
            /\ anchor \in {ParseCents(p), ParseCents(e), Placeholder}
            /\ advice = AnchoredAdvice(anchor, fallback)
      <4>1. PICK above : above = IF ParseCents(p) > ParseCents(e) THEN ParseCents(p)
                                 ELSE ParseCents(e)
        OBVIOUS
      <4>2. ~(s.count > 0)
        BY <2>2 DEF NoSummary
      <4>3. \E fallback : advice = IF above > 0 THEN AnchoredAdvice(above, fallback)
                                  ELSE AnchoredAdvice(Placeholder, TRUE)
        BY <4>1, <4>2, Zenon DEF Recommend
      <4>4. above \in {ParseCents(p), ParseCents(e)}
        BY <4>1
      <4>5. PICK f : advice = IF above > 0 THEN AnchoredAdvice(above, f)
                              ELSE AnchoredAdvice(Placeholder, TRUE)
        BY <4>3
      <4>6. \/ advice = AnchoredAdvice(above, f)
            \/ advice = AnchoredAdvice(Placeholder, TRUE)
        BY <4>5
      <4> DEFINE Sane == {ParseCents(p), ParseCents(e), Placeholder}
      <4>7. above \in Sane /\ Placeholder \in Sane
        BY <4>4
      <4> HIDE DEF Sane
      <4>8. \E anchor, fallback : anchor \in Sane /\ advice = AnchoredAdvice(anchor, fallback)
        BY <4>6, <4>7, Zenon
      <4> QED
        BY <4>8 DEF Sane
    <3>2. anchor \in Nat /\ anchor <= MaxSane
      BY <3>1, FormalAssumption DEF ParseCents
    <3> QED
      BY <2>2, <3>1, <3>2, AnchoredAdviceIsUsable
  <2> QED
    BY <2>1, <2>2
<1> QED
  BY <1>1, FormalInvariant, PTL

\* A sealed parent charges what its mode promises, under the formal flow too.
THEOREM FormalParentCharges == FSpec => []SealedPayment
  BY FormalRefinesEngine, SealedSalesCharge, PTL
=============================================================================
