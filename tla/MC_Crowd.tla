------------------------------ MODULE MC_Crowd ------------------------------
(***************************************************************************)
(* A small instance of Crowd: one human, two sim users, the seller.        *)
(***************************************************************************)
EXTENDS Crowd

MCRule(mode, cap, window) ==
  [mode |-> mode, startPrice |-> 1, increment |-> 1, cap |-> cap,
   extendWindow |-> window, extendSec |-> 1, maxExtensions |-> 1]

\* A capped auction with anti-snipe and a sealed one the crowd stays out of.
FrozenRules == {MCRule("ENGLISH", 4, 1), MCRule("VICKREY", 0, 0)}

\* A PATCH of the first raises its cap, one of the second changes its mode.
PatchedRules == {MCRule("ENGLISH", 5, 1)}
=============================================================================
