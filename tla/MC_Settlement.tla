--------------------------- MODULE MC_Settlement ---------------------------
(***************************************************************************)
(* Small instances of Settlement: one rule set per way of settling.        *)
(***************************************************************************)
EXTENDS Settlement

MCRules(m) ==
  [mode |-> m, startPrice |-> 1, increment |-> 1, cap |-> 2,
   extendWindow |-> 0, extendSec |-> 0, maxExtensions |-> 0]

SettledRules == {MCRules("ENGLISH"), MCRules("ALL_PAY")}
EnglishRules == {MCRules("ENGLISH")}
AllPayRules  == {MCRules("ALL_PAY")}
=============================================================================
