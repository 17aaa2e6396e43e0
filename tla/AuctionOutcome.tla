--------------------------- MODULE AuctionOutcome ---------------------------
(***************************************************************************)
(* What an auction promises, whatever its format and however it is run:    *)
(* bidders other than the seller raise their own standing offer while it   *)
(* is open; it ends once; it sells exactly when somebody has an offer, to  *)
(* a holder of the highest offer, at a price between the best losing offer *)
(* and the winner's own; after that nothing changes.                       *)
(***************************************************************************)
EXTENDS Naturals

CONSTANTS
  Users,   \* everyone who may take part
  Seller,  \* the owner, who may not
  NoUser,  \* nobody
  Money    \* amounts of money

VARIABLES
  phase,  \* "open", "sold", "unsold" or "cancelled"
  offer,  \* each user's standing offer, 0 for none
  buyer,  \* who bought, NoUser before the sale
  paid    \* what the buyer pays, 0 before the sale

vars == <<phase, offer, buyer, paid>>

Init ==
  /\ phase = "open"
  /\ offer = [u \in Users |-> 0]
  /\ buyer = NoUser
  /\ paid = 0

\* u raises its own offer to a.
Raised(u, a) ==
  /\ u # Seller
  /\ a > offer[u]
  /\ offer' = [offer EXCEPT ![u] = a]

Offer(u, a) ==
  /\ phase = "open"
  /\ Raised(u, a)
  /\ UNCHANGED <<phase, buyer, paid>>

\* A sale to w at price p on the offers as they stand after the step.
Award(w, p) ==
  /\ phase = "open"
  /\ phase' = "sold"
  /\ buyer' = w
  /\ paid' = p
  /\ offer'[w] > 0
  /\ p <= offer'[w]
  /\ \A v \in Users \ {w} : offer'[v] <= p

Sell(w, p) ==
  /\ Award(w, p)
  /\ UNCHANGED offer

\* Buy-now: the last offer and the sale are one step.
BuyNow(w, p) ==
  /\ Raised(w, p)
  /\ Award(w, p)

PassIn ==
  /\ phase = "open"
  /\ \A u \in Users : offer[u] = 0
  /\ phase' = "unsold"
  /\ UNCHANGED <<offer, buyer, paid>>

Cancel ==
  /\ phase = "open"
  /\ phase' = "cancelled"
  /\ UNCHANGED <<offer, buyer, paid>>

Next ==
  \/ \E u \in Users : \E a \in Money : Offer(u, a)
  \/ \E w \in Users : \E p \in Money : Sell(w, p) \/ BuyNow(w, p)
  \/ PassIn
  \/ Cancel

Spec == Init /\ [][Next]_vars
=============================================================================
