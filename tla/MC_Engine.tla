----------------------------- MODULE MC_Engine -----------------------------
(***************************************************************************)
(* Small instances of AuctionEngine.  Three users, one of them the seller; *)
(* two clientBidIds per user.                                              *)
(***************************************************************************)
EXTENDS AuctionEngine

MCRule(mode, cap, window, maxExt) ==
  [mode |-> mode, startPrice |-> 1, increment |-> 2, cap |-> cap,
   extendWindow |-> window, extendSec |-> 1, maxExtensions |-> maxExt]

\* A cap below start + 2 * increment, so that the required price is clamped;
\* anti-snipe with one extension and with no limit; no cap and no anti-snipe.
AscendingRules ==
  {MCRule("ENGLISH", 6, 1, 1), MCRule("ENGLISH", 0, 2, 0),
   MCRule("SUDDEN_DEATH", 4, 0, 0), MCRule("PREQUALIFY", 4, 0, 0),
   MCRule("HYBRID_REVEAL", 6, 1, 1)}

SealedRules ==
  {[MCRule(m, 4, 0, 0) EXCEPT !.startPrice = 3] : m \in Sealed}

MCRules == AscendingRules \cup SealedRules
=============================================================================
