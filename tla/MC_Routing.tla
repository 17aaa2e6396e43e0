----------------------------- MODULE MC_Routing -----------------------------
(***************************************************************************)
(* Small instances of BidRouting.                                          *)
(***************************************************************************)
EXTENDS BidRouting

MCRule(mode, cap, window) ==
  [mode |-> mode, startPrice |-> 1, increment |-> 1, cap |-> cap,
   extendWindow |-> window, extendSec |-> 1, maxExtensions |-> 1]

\* A capped auction with anti-snipe, the hybrid engine and a sealed one.
RoutedRules ==
  {MCRule("ENGLISH", 3, 1), MCRule("HYBRID_REVEAL", 0, 0), MCRule("VICKREY", 0, 0)}

SealedRules == {MCRule("VICKREY", 0, 0)}
=============================================================================
