------------------------------ MODULE MC_Timer ------------------------------
(***************************************************************************)
(* Two Timer Workers, one bidder, one extension: started at time 0 or 1,   *)
(* the auction and its extension end within the clock's reach.             *)
(***************************************************************************)
EXTENDS HammerTimer

TimerRules ==
  {[mode |-> "ENGLISH", startPrice |-> 1, increment |-> 2, cap |-> 5,
    extendWindow |-> 1, extendSec |-> 1, maxExtensions |-> 1]}
=============================================================================
