---------------------------- MODULE MCGuardMandates ----------------------------
(***************************************************************************)
(* Instance of GuardHooks for TLC: three payments with one requirements    *)
(* signature, of which the second is made under another mandate.           *)
(***************************************************************************)
EXTENDS GuardHooks

CONSTANTS p1, p2, p3, m1, m2, agent, payee

MCRequestOf ==
  [p \in Ids |-> [principal |-> agent, mandate |-> IF p = p2 THEN m2 ELSE m1,
                  payee |-> payee, amount |-> 1, window |-> 1, validity |-> 3]]

MCKeyOf == [p \in Ids |-> None]
=============================================================================
