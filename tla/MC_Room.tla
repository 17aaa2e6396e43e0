------------------------------- MODULE MC_Room -------------------------------
(***************************************************************************)
(* One client of a room that others watch too.  Clients meet only in the   *)
(* shared Snapshot call, the number of viewers and the order in which the  *)
(* gateway serves them, all of which RoomDelivery leaves open.  With room  *)
(* affinity on, a gateway that seeds its cursor before the first event and *)
(* always has another viewer behaves as one without affinity does, so the  *)
(* one setting covers both.                                                *)
(***************************************************************************)
EXTENDS RoomDelivery

CONSTANT ana
OneClient == {ana}
=============================================================================
