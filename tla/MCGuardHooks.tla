----------------------------- MODULE MCGuardHooks -----------------------------
(***************************************************************************)
(* Instance of GuardHooks for TLC: three payments of one requirements      *)
(* signature.  Two of them are the same purchase, the third has no key.    *)
(***************************************************************************)
EXTENDS GuardHooks, TLC

CONSTANTS p1, p2, p3, k1, agent, mandate, payee

MCRequestOf ==
  [p \in Ids |-> [principal |-> agent, mandate |-> mandate, payee |-> payee,
                  amount |-> 1, window |-> 1,
                  validity |-> CHOOSE v \in Validities : TRUE]]

MCKeyOf == [p \in Ids |-> IF p = p2 THEN None ELSE k1]

\* The payments for one purchase are interchangeable.
Symmetry == Permutations({p1, p3})
=============================================================================
