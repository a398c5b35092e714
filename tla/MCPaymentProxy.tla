---------------------------- MODULE MCPaymentProxy ----------------------------
(***************************************************************************)
(* Instances of PaymentProxy for TLC: two processes, two or three          *)
(* requests, offers within and outside of the policy.  The window is       *)
(* shorter than the ceiling, so that they bound different lifetimes.       *)
(***************************************************************************)
EXTENDS PaymentProxy, TLC

CONSTANTS p1, p2, p3, c1, c2, agent, trip, shop, thief

\* The agent repeats its request.
MCIntentOf == [p \in Ids |-> trip]

Offer(payTo, amount, horizon) ==
  [scheme |-> "exact", network |-> "base-sepolia", asset |-> "usdc",
   payTo |-> payTo, amount |-> amount, horizon |-> horizon, resource |-> None]

\* One offer is within the policy.  Of the others one is to another payee, one
\* too dear, one has no amount, one would outlive the window though not the
\* ceiling, one names no number for its lifetime, and one is on another network.
MCOffers ==
  {Offer(shop, 1, 1), Offer(thief, 1, 1), Offer(shop, 2, 1), Offer(shop, -1, 1),
   Offer(shop, 1, 2), Offer(shop, 1, NotANumber),
   [Offer(shop, 1, 1) EXCEPT !.network = "base"]}

\* And one that leaves its lifetime out.
OffersWithoutLifetime == MCOffers \cup {Offer(shop, 1, None)}

OneOffer == {Offer(shop, 1, 1)}

Pin == [payTo |-> shop, maxAmount |-> 1]

Environment == [window |-> 1, ceiling |-> 3, maxPayment |-> 1, pin |-> Pin]

MCConfigs == {Environment}

MCConfigOf == [c \in Procs |-> Environment]

Symmetry == Permutations(Ids)
=============================================================================
