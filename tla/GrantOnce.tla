------------------------------ MODULE GrantOnce ------------------------------
(***************************************************************************)
(* What a claim store promises (store.ts, ClaimStore): each payment key    *)
(* gets at most one grant, and the grant it gets is never replaced, taken  *)
(* back or served to another key.                                          *)
(***************************************************************************)
CONSTANTS PaymentKeys, Grants, None

VARIABLE stored  \* [PaymentKeys -> Grants or None]

GrantInit == stored = [k \in PaymentKeys |-> None]

StoreGrant(k, g) ==
  /\ stored[k] = None
  /\ stored' = [stored EXCEPT ![k] = g]

GrantNext == \E k \in PaymentKeys, g \in Grants : StoreGrant(k, g)

GrantSpec == GrantInit /\ [][GrantNext]_stored
=============================================================================
