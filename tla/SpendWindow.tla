----------------------------- MODULE SpendWindow -----------------------------
(***************************************************************************)
(* What the store's accounting is for: the money that really leaves.  The  *)
(* store of ReservationStore is composed with the chain that redeems the   *)
(* authorizations it has recorded as signed.  A signed authorization may   *)
(* be redeemed at any chain time up to its validBefore (a reorganisation   *)
(* may move it by the reorg margin), whether or not the guard ever hears   *)
(* of it and whatever restarts happen in between.  The local clock may run *)
(* ahead of chain time by the clock skew of the policy; it may be slow.    *)
(***************************************************************************)
EXTENDS ReservationStore

CONSTANTS
  ReorgMargin,  \* reorgMarginMs
  ClockSkew     \* maxClockSkewMs

ASSUME MarginBounds == ReorgMargin \in Nat /\ ClockSkew \in Nat
ASSUME NonemptyWindow == MinWindow > 0

VARIABLES
  chain,        \* chain time
  validBefore,  \* [Ids -> Int or None]: what the row's payment was signed with
  paidAt        \* [Ids -> Nat or None]: local time at which it was redeemed

chainVars == <<chain, validBefore, paidAt>>
vars == <<rows, now, chain, validBefore, paidAt>>

-----------------------------------------------------------------------------
\* Local-clock time at which a payment signed with validBefore v is dead.
SafeReleaseWithoutSkew(v) == v + ReorgMargin

SafeReleaseAt(v) == v + ReorgMargin + ClockSkew

\* The after hook: the payment was signed d later than it was priced for, no
\* more than the tolerance of the validBefore check, and its row records it.
SignPayment(i, d, f) ==
  LET v == rows[i].safe - ReorgMargin - ClockSkew + d IN
  /\ i \in Live(rows)
  /\ Sign(i, SafeReleaseAt(v), f)
  /\ validBefore' = [validBefore EXCEPT ![i] = v]
  /\ UNCHANGED <<chain, paidAt>>

\* The authorization is redeemed, once, while the token contract accepts it.
Redeem(i) ==
  /\ validBefore[i] # None
  /\ paidAt[i] = None
  /\ chain <= validBefore[i] + ReorgMargin
  /\ paidAt' = [paidAt EXCEPT ![i] = now]
  /\ UNCHANGED <<rows, now, chain, validBefore>>

\* The response hook of a payment that was redeemed reads the clock later.
SettlePayment(i, at) ==
  /\ paidAt[i] # None
  /\ paidAt[i] <= at
  /\ Settle(i, at)
  /\ UNCHANGED chainVars

\* Chain time passes; the local clock follows it, at most the skew ahead.
TickChain ==
  /\ chain < MaxNow
  /\ chain' = chain + 1
  /\ UNCHANGED <<rows, now, validBefore, paidAt>>

TickLocal ==
  /\ now < chain + ClockSkew
  /\ Tick
  /\ UNCHANGED chainVars

Init ==
  /\ StoreInit
  /\ chain = 0
  /\ validBefore = [i \in Ids |-> None]
  /\ paidAt = [i \in Ids |-> None]

Next ==
  \/ \E q \in Request, at \in Readings : TryReserve(q, at) /\ UNCHANGED chainVars
  \/ \E i \in Ids, d \in 0..Tolerance, f \in Refs \cup {None} : SignPayment(i, d, f)
  \/ \E i \in Ids : Release(i) /\ UNCHANGED chainVars
  \/ \E i \in Ids, at \in Readings : SettlePayment(i, at)
  \/ \E i \in Ids : LoseTrack(i) /\ UNCHANGED chainVars
  \/ \E at \in Readings, w \in Windows : ReleaseExpired(at, w) /\ UNCHANGED chainVars
  \/ \E at \in Readings, w \in Windows :
       RecoverAfterRestart(at, w) /\ UNCHANGED chainVars
  \/ \E i \in Ids : Redeem(i)
  \/ TickLocal
  \/ TickChain

Spec == Init /\ [][Next]_vars

-----------------------------------------------------------------------------
(* Properties.                                                             *)

TypeOK ==
  /\ StoreTypeOK
  /\ chain \in Nat
  /\ validBefore \in [Ids -> Int \cup {None}]
  /\ paidAt \in [Ids -> Nat \cup {None}]

\* Payments that left in the rolling window that ends now, or may still leave.
Exposed ==
  {i \in Live(rows) :
     \/ paidAt[i] # None /\ paidAt[i] > now - MinWindow
     \/ paidAt[i] = None /\ validBefore[i] # None
                         /\ chain <= validBefore[i] + ReorgMargin}

ExposedOf(p, ms) ==
  {i \in Exposed : rows[i].principal = p /\ rows[i].mandate \in ms}

\* Even if every authorization that is still good were redeemed at once, what
\* leaves in any rolling window stays within the mandate's cap and within the
\* principal's: withheld settlements, lost responses, restarts, late signing
\* and a fast local clock cannot make the store forget a payment in time.
OutflowWithinCaps ==
  \A p \in Principals :
    /\ \A m \in Mandates : Total(rows, ExposedOf(p, {m})) <= Cap
    /\ Total(rows, ExposedOf(p, Mandates)) <= AggregateCap

\* What keeps the two clocks and the three records of one payment together.  A
\* row whose payment was signed is never released; its safeReleaseAt covers
\* the validBefore really signed, so that no payment is redeemed after it; the
\* row expires only when a whole window has passed since then, and settles only
\* with a payment that was redeemed, no earlier than it was.
PaymentHeld(r, v, t) ==
  /\ v # None =>
       /\ r.status \in Uncertain \cup {"settled", "expired"}
       /\ SafeReleaseAt(v) <= r.safe
       /\ r.status = "expired" => now >= r.safe + MinWindow
  /\ t # None => v # None /\ t <= r.safe
  /\ r.status = "settled" => t # None /\ t <= r.settledAt

\* Every payment stays held by its row across late signing, settlement, lost
\* responses, sweeps and restarts, and no row is reused for another payment.
PaymentsHeld ==
  /\ now <= chain + ClockSkew
  /\ \A i \in Ids \ Live(rows) : validBefore[i] = None /\ paidAt[i] = None
  /\ \A i \in Live(rows) : PaymentHeld(rows[i], validBefore[i], paidAt[i])
=============================================================================
