------------------------------- MODULE Evaluate -------------------------------
(***************************************************************************)
(* The pure part of agentpay-guard's decision (evaluate.ts, policy/): which *)
(* offers of a merchant may be paid under a policy and a verified mandate, *)
(* for how long they are priced, and by which key a repeated purchase is   *)
(* recognised.  All of it runs before the first store operation.  Only the *)
(* reason of a refusal depends on the order of the checks.                 *)
(*                                                                         *)
(* An offer is what toResolvedPayment makes of the merchant's              *)
(* requirements: its strings in lower case, an amount that does not parse  *)
(* turned into -1.  Time is counted in seconds.                            *)
(***************************************************************************)
EXTENDS Integers

CONSTANTS
  None,        \* undefined
  NotANumber,  \* a horizon that is NaN, infinite or not a number at all
  Margin       \* reorgMarginMs + maxClockSkewMs

Least(a, b) == IF a <= b THEN a ELSE b

-----------------------------------------------------------------------------
(* What may be paid.                                                       *)

CheckEnvelope(o, policy) ==
  /\ o.scheme \in policy.schemes
  /\ o.network \in policy.networks
  /\ o.asset \in policy.assets

CheckResolvedFields(o) == o.payTo # None /\ o.amount >= 0

CheckMaxPayment(o, policy) ==
  policy.maxPayment # None => /\ policy.maxPayment >= 0
                              /\ o.amount <= policy.maxPayment

CeilingOnly(policy) == policy.ceiling

HorizonCeiling(policy) == Least(policy.ceiling, policy.window)

\* Nothing but a number from zero to the ceiling passes; no horizon passes too.
CheckHorizon(o, policy) ==
  o.horizon # None => o.horizon \in 0..HorizonCeiling(policy)

\* Without a requested horizon the policy's own ceiling is used, which the
\* window does not bound.
HorizonSeconds(o, policy) ==
  IF o.horizon = None THEN policy.ceiling ELSE o.horizon

CheckPayee(o, policy) == policy.payees # {} => o.payTo \in policy.payees

\* A constraint that the mandate leaves out is None.
CheckIntent(o, mandate, policy, at) ==
  policy.profile = "mandate-required" =>
    /\ mandate # None
    /\ mandate.expiry # None => at <= mandate.expiry
    /\ mandate.payTo # None => o.payTo = mandate.payTo
    /\ mandate.maxAmount # None => o.amount <= mandate.maxAmount
    /\ mandate.asset # None => o.asset = mandate.asset
    /\ mandate.network # None => o.network = mandate.network

Payable(o, mandate, policy, at) ==
  /\ CheckEnvelope(o, policy)
  /\ CheckResolvedFields(o)
  /\ CheckMaxPayment(o, policy)
  /\ CheckHorizon(o, policy)
  /\ CheckPayee(o, policy)
  /\ CheckIntent(o, mandate, policy, at)

\* safeReleaseAt, counted from the instant of the decision.
Validity(o, policy) == HorizonSeconds(o, policy) + Margin

-----------------------------------------------------------------------------
(* Which purchase it is.                                                   *)

MandateId(mandate, ctx) == IF mandate = None THEN ctx.mandateId ELSE mandate.id

\* The strongest identity that the payer owns, and none of what the merchant
\* can vary from one presentation to the next.  An empty identifier is None.
DeriveDedupKey(o, ctx, mandateId) ==
  CASE ctx.paymentIdentifier # None -> <<"pid", ctx.paymentIdentifier>>
    [] ctx.paymentIdentifier = None /\ ctx.intentId # None ->
         <<"intent", ctx.intentId, o.asset>>
    [] ctx.paymentIdentifier = None /\ ctx.intentId = None
         /\ ~(mandateId = None /\ o.resource = None) ->
         <<"mandate", mandateId, o.resource, o.asset>>
    [] OTHER -> None
=============================================================================
