----------------------------- MODULE MC_Formal -----------------------------
(***************************************************************************)
(* A small instance of Formal: four sealed bidders, two requests.          *)
(***************************************************************************)
EXTENDS Formal, TLC

Sym == Permutations(Requests)

MCRule(mode, start, cap, window) ==
  [mode |-> mode, startPrice |-> start, increment |-> 1, cap |-> cap,
   extendWindow |-> window, extendSec |-> 1, maxExtensions |-> 0]

ParentRules == {MCRule("VICKREY", 9, 0, 0), MCRule("ALL_PAY", 10, 0, 0)}

\* The floor is left to the recommendation, under a cap that the higher floors
\* reach; a mode that cannot be created.
FormalBodies == {MCRule("ENGLISH", 0, 10, 1), MCRule("PREQUALIFY", 5, 0, 0)}
=============================================================================
