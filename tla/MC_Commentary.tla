--------------------------- MODULE MC_Commentary ---------------------------
(***************************************************************************)
(* A small instance of Commentary.  Times are scaled: a cold room takes    *)
(* longer than a debounced surge, a call is shorter than an auction.       *)
(***************************************************************************)
EXTENDS Commentary

\* A bid of 5 after one of 2 is three steps up, and buys the item.
SpokenRules ==
  {[mode |-> "ENGLISH", startPrice |-> 1, increment |-> 1, cap |-> 5,
    extendWindow |-> 0, extendSec |-> 0, maxExtensions |-> 0]}
=============================================================================
