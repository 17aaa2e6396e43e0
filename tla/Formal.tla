------------------------------- MODULE Formal -------------------------------
(***************************************************************************)
(* Prequalification: a sealed auction that was sold seeds a formal one.    *)
(* The backend derives a floor from the revealed bids and spawn-formal     *)
(* creates the formal auction in three database calls (look for a child,   *)
(* insert the auction, link it to its parent) that no lock holds together; *)
(* the sidecar's advisor gives the seller a price from the same summary or *)
(* from an estimate and past sales.                                        *)
(*                                                                         *)
(* The parent is the auction of AuctionEngine.  A child is represented by  *)
(* its rules, the second it was created in, its link and whether its row   *)
(* is there; its own life is an auction like any other, at whose end the   *)
(* seller may delete it.                                                   *)
(***************************************************************************)
EXTENDS AuctionEngine

CONSTANTS
  Requests,     \* spawn-formal requests being served at the same time
  Bodies,       \* rules a request may carry
  PatchedModes, \* modes a PATCH may have stored in the parent's row
  Seconds,      \* values of created_at, a DATETIME in whole seconds
  MaxChildren,  \* bound: formal auctions created in a behaviour
  Estimates,    \* estimates and past prices an advice request may carry
  MaxSane,      \* maxSaneCents
  StepUnit,     \* the grid of roundStep
  Placeholder   \* the anchor of an advice without any signal

ASSUME FormalAssumption ==
  /\ \A b \in Bodies : b \in RuleRecord
  /\ PatchedModes \subseteq Modes
  /\ Seconds \subseteq Nat
  /\ Estimates \subseteq Nat
  /\ {MaxChildren, MaxSane} \subseteq Nat
  /\ {StepUnit, Placeholder} \subseteq Nat \ {0} /\ Placeholder <= MaxSane
  /\ MaxSane + MaxSane \div 100 + StepUnit <= MaxMoney

VARIABLES
  task,      \* what each spawn-formal request has done
  children,  \* auctions created by spawn-formal, in the order they were inserted
  settled,   \* the child of the first reply about which nothing is in flight,
             \* 0 before and from its deletion to the next such reply
  reply      \* the child named by the last reply since then

formalVars == <<task, children, reply, settled>>
fvars == <<vars, formalVars>>

NoSummary == [count |-> 0, max |-> 0, second |-> 0, median |-> 0, reserve |-> 0]
NoTask    == [pc |-> "idle", rec |-> NoSummary, child |-> 0]

FInit ==
  /\ Init
  /\ task = [q \in Requests |-> NoTask]
  /\ children = <<>>
  /\ reply = 0
  /\ settled = 0

-----------------------------------------------------------------------------
(***************************************************************************)
(* The recommendation.                                                     *)
(***************************************************************************)

Bidders(bids) == {u \in Users : bids[u] > 0 /\ bids[u] <= MaxMoney}

\* The k-th amount of the descending order: the greatest that k bids reach.
Ranked(bids, k) ==
  LET Reached(a) == Cardinality({v \in Bidders(bids) : bids[v] >= a}) >= k
      amounts    == {bids[u] : u \in Bidders(bids)} IN
  CHOOSE a \in amounts : Reached(a) /\ \A b \in amounts : Reached(b) => b <= a

\* Mutation of Median: the upper median.
Median_Upper(bids) == Ranked(bids, (Cardinality(Bidders(bids)) + 1) \div 2)

\* amounts[len/2] of the descending order, the lower median.
Median(bids) == Ranked(bids, Cardinality(Bidders(bids)) \div 2 + 1)

\* prequalifyRecommendationFromReveal.
Recommendation(bids) ==
  LET n      == Cardinality(Bidders(bids))
      max    == Ranked(bids, 1)
      second == IF n > 1 THEN Ranked(bids, 2) ELSE 0
      median == Median(bids) IN
  [count |-> n, max |-> max, second |-> second, median |-> median,
   reserve |-> IF n = 1 THEN max
               ELSE IF max >= (second * 13) \div 10 THEN second
               ELSE median]

\* LastAuctionReveal: the last AUCTION_REVEALED of the Stream.
Reveals == {i \in 1 .. Len(stream) : stream[i].type = "AUCTION_REVEALED"}
LastAuctionReveal == stream[CHOOSE i \in Reveals : \A j \in Reveals : j <= i].bids

\* loadPrequalifyRecommendation by the owner.  The mode is that of the row,
\* which a PATCH may have changed; what else it reads is final.
LoadRecommendation(q) ==
  /\ task[q].pc = "idle"
  /\ ({rules.mode} \cup PatchedModes) \cap (Sealed \ {"ALL_PAY"}) # {}
  /\ status = "SOLD"
  /\ Reveals # {} /\ Bidders(LastAuctionReveal) # {}
  /\ task' = [task EXCEPT ![q] = [NoTask EXCEPT
       !.pc = "loaded", !.rec = Recommendation(LastAuctionReveal)]]
  /\ UNCHANGED <<vars, children, reply, settled>>

-----------------------------------------------------------------------------
(***************************************************************************)
(* handleSpawnFormal.                                                      *)
(***************************************************************************)

Linked == {c \in DOMAIN children : children[c].linked /\ children[c].there}

\* Mutation of ChildAuctionByParent: without ORDER BY any row may be returned.
ChildAuctionByParent_AnyRow == Linked

\* ORDER BY created_at LIMIT 1: any of those that tie in the oldest second.
ChildAuctionByParent ==
  {c \in Linked : \A d \in Linked : children[c].at <= children[d].at}

\* No other request is between its lookup and its link.
Quiet(q) == \A p \in Requests \ {q} : task[p].pc \notin {"create", "link"}

Done(q) == task' = [task EXCEPT ![q] = NoTask]

Reply(c) == reply' = IF settled' = 0 THEN 0 ELSE c

\* The reply counts as given at the lookup it reports.
ReuseChild(q) ==
  /\ task[q].pc = "loaded"
  /\ \E c \in ChildAuctionByParent :
       /\ settled' = IF settled = 0 /\ Quiet(q) THEN c ELSE settled
       /\ Reply(c)
  /\ Done(q)
  /\ UNCHANGED <<vars, children>>

NoChild(q) ==
  /\ task[q].pc = "loaded"
  /\ Linked = {}
  /\ task' = [task EXCEPT ![q].pc = "create"]
  /\ UNCHANGED <<vars, children, reply, settled>>

\* A positive start price in the body overrides the recommendation.
Seeded(rec, body) ==
  [body EXCEPT !.startPrice = IF @ > 0 THEN @ ELSE rec.reserve]

\* modeFor knows the mode, and the seeded and normalised rules are valid.
Acceptable(rec, body) ==
  /\ body.mode # "PREQUALIFY"
  /\ Validate(NormalizeRules(Seeded(rec, body)))

\* created_at is the wall clock of the process that serves the request.
CreateChild(q, body, at) ==
  /\ task[q].pc = "create" /\ Len(children) < MaxChildren
  /\ Acceptable(task[q].rec, body)
  /\ children' = Append(children, [rules  |-> NormalizeRules(Seeded(task[q].rec, body)),
                                   at |-> at, linked |-> FALSE, there |-> TRUE])
  /\ task' = [task EXCEPT ![q].pc = "link", ![q].child = Len(children) + 1]
  /\ UNCHANGED <<vars, reply, settled>>

\* An UPDATE that meets no row any more is not noticed.
SetParentAuction(q) ==
  /\ task[q].pc = "link"
  /\ children' = [children EXCEPT ![task[q].child].linked = TRUE]
  /\ settled' = settled
  /\ Reply(task[q].child)
  /\ Done(q)
  /\ UNCHANGED vars

\* An error or a crash ends a request; its link may have been written.
RequestFails(q) ==
  /\ task[q].pc # "idle"
  /\ \/ children' = children
     \/ /\ task[q].pc = "link"
        /\ children' = [children EXCEPT ![task[q].child].linked = TRUE]
  /\ Done(q)
  /\ UNCHANGED <<vars, reply, settled>>

\* DeleteAuction of a child that has ended.
DeleteChild(c) ==
  /\ children[c].there
  /\ children' = [children EXCEPT ![c].there = FALSE]
  /\ settled' = IF c = settled THEN 0 ELSE settled
  /\ Reply(reply)
  /\ UNCHANGED <<vars, task>>

-----------------------------------------------------------------------------
(***************************************************************************)
(* The sidecar's advisor, which keeps no state.                            *)
(***************************************************************************)

ParseCents(n) == IF n > MaxSane THEN MaxSane ELSE n

RoundStep(raw) == IF raw < StepUnit THEN StepUnit ELSE (raw \div StepUnit) * StepUnit

\* Mutation of IsOutlier: the factor is applied to the wrong side of the bound.
IsOutlier_Strict(max, second) == second > 0 /\ max > (second * 13) \div 10

IsOutlier(max, second) == second > 0 /\ max >= (second * 13) \div 10

AdviceFromSealed(s) ==
  LET max    == ParseCents(s.max)
      second == ParseCents(s.second)
      median == ParseCents(s.median)
      floor  == IF IsOutlier(max, second) THEN second
                ELSE IF median > 0 THEN median
                ELSE IF second > 0 THEN second ELSE max IN
  [start |-> floor, step |-> RoundStep(max \div 100), reserve |-> floor,
   fallback |-> FALSE]

\* MockGenerator's and fallbackResponse's prices for an anchor.
AnchoredAdvice(anchor, fallback) ==
  [start |-> (anchor * 60) \div 100, step |-> RoundStep(anchor \div 100),
   reserve |-> (anchor * 80) \div 100, fallback |-> fallback]

\* recommendWithGuardrail: the generator fails on a summary without a maximum
\* and without any signal, and the fallback takes over.
Recommend(est, past, s) ==
  LET anchor == IF ParseCents(past) > ParseCents(est) THEN ParseCents(past)
                ELSE ParseCents(est) IN
  IF s.count > 0 /\ ParseCents(s.max) > 0 THEN AdviceFromSealed(s)
  ELSE IF anchor > 0 THEN AnchoredAdvice(anchor, s.count > 0)
  ELSE AnchoredAdvice(Placeholder, TRUE)

-----------------------------------------------------------------------------
ParentStep ==
  /\ Next
  /\ UNCHANGED formalVars

FNext ==
  \/ ParentStep
  \/ \E q \in Requests :
       \/ LoadRecommendation(q)
       \/ ReuseChild(q)
       \/ NoChild(q)
       \/ \E b \in Bodies, at \in Seconds : CreateChild(q, b, at)
       \/ SetParentAuction(q)
       \/ RequestFails(q)
  \/ \E c \in DOMAIN children : DeleteChild(c)

FSpec == FInit /\ [][FNext]_fvars

-----------------------------------------------------------------------------
(***************************************************************************)
(* Properties                                                              *)
(***************************************************************************)

Recommended == {task[q].rec : q \in Requests} \ {NoSummary}

\* The recommended floor is an amount somebody bid, and enough bidders of the
\* sealed phase reach it to climb from it: two of them, the lone one when
\* there is one, and never fewer than half.  It is derived from the Stream; the
\* bids it must agree with are those of the leaderboard the close published.
FloorIsMet ==
  \A rec \in Recommended :
    LET met == {u \in Users : leaderboard[u] >= rec.reserve} IN
    /\ \E u \in Users : leaderboard[u] = rec.reserve
    /\ rec.count = Cardinality({u \in Users : leaderboard[u] > 0})
    /\ rec.count > 1 => Cardinality(met) >= 2
    /\ rec.reserve < rec.second => 2 * Cardinality(met) >= rec.count

\* Retries converge: after one reply named an existing formal auction while no
\* other request was about to create one, every reply, until that auction is
\* deleted, names one created in the same second: the same one, unless racing
\* requests created several within that second.
RetriesAgree == settled # 0 => children[reply].at = children[settled].at

\* Advice can be taken as it is: an auction with the advised start price and
\* step passes Rules.Validate and does not start above the reserve, whatever
\* signals the request carries and also when it carries none; and for a sealed
\* phase the sidecar advises the floor that the backend, with code of its own,
\* recommends to the seller.
AdviceIsUsable ==
  \A e, p \in Estimates, s \in Recommended \cup {NoSummary} :
    LET advice == Recommend(e, p, s) IN
    /\ advice.start <= advice.reserve
    /\ Validate([NoRules EXCEPT !.startPrice = advice.start, !.increment = advice.step])
    /\ s # NoSummary /\ s.max <= MaxSane => advice.reserve = s.reserve
=============================================================================
