--------------------------- MODULE ReservationStore ---------------------------
(***************************************************************************)
(* The reservation half of the atomic store of agentpay-guard, as the      *)
(* in-memory store implements it (store/memory.ts) and as every store must *)
(* (store/types.ts).  A row is a hold on a budget: it is written before a  *)
(* payment is signed and counts against the caps until the store is sure   *)
(* that the authorization can no longer move money.                        *)
(*                                                                         *)
(* Every operation of the store runs inside one mutex, so an operation is  *)
(* one step.  The caller reads the clock before it waits for the mutex:    *)
(* the instant a request carries may lie up to MaxLag in the past.         *)
(***************************************************************************)
EXTENDS Integers, FiniteSets

CONSTANTS
  Ids,           \* reservation ids that randomUUID() may return
  Principals,    \* whose budget is spent
  Mandates,      \* mandate ids, "__no_mandate__" among them
  Payees,        \* payTo addresses
  Refs,          \* signed authorization references (asset, from, nonce)
  None,          \* a field that is undefined, an id without a row
  MaxAmount,     \* largest amount of one payment, in atomic token units
  Amounts,       \* the amounts that requests carry
  Windows,       \* rolling windows (windowMs) that requests carry
  MinWindow,     \* the shortest of them
  Validities,    \* safeReleaseAt - now of a request
  Tolerance,     \* how far a signed payment may outlive the one it was priced for
  Cap,           \* perMandateCap
  AggregateCap,  \* principalAggregateCap
  PayeeLimit,    \* perPayeeReservationLimit
  MaxLag,        \* how stale the instant of a request may be
  MaxNow         \* bound: the clock stops here

ASSUME FiniteIds == IsFiniteSet(Ids)
ASSUME AmountBounds == MaxAmount \in Nat /\ Amounts \subseteq 0..MaxAmount
ASSUME WindowBounds ==
  /\ Windows \subseteq Nat
  /\ MinWindow \in Nat
  /\ \A w \in Windows : MinWindow <= w
ASSUME ValidityBounds == Validities \subseteq Nat /\ Tolerance \in Nat
ASSUME CapBounds == Cap \in Nat /\ AggregateCap \in Nat /\ PayeeLimit \in Nat
ASSUME ClockBounds == MaxNow \in Nat /\ MaxLag \in Nat

VARIABLES
  rows,  \* [Ids -> Reservation or None]: the `reservations` map
  now    \* the local clock

storeVars == <<rows, now>>

-----------------------------------------------------------------------------
(* Rows.                                                                   *)

\* Outcome unknown to the guard: money may have moved or may yet move.
Uncertain == {"signed", "submitted", "unknown"}

\* PENDING_STATUSES: a row in one of these occupies the cap at any age.
Pending == {"reserved"} \cup Uncertain

\* TERMINAL_STATUSES: no transition leaves these.
Terminal == {"settled", "expired", "released"}

Reservation ==
  [principal : Principals, mandate : Mandates, payee : Payees,
   amount : 0..MaxAmount, status : Pending \cup Terminal,
   safe : Nat, recovery : Nat, window : Nat,
   settledAt : Nat \cup {None}, ref : Refs \cup {None}]

Request ==
  [principal : Principals, mandate : Mandates, payee : Payees,
   amount : Amounts, window : Windows, validity : Validities]

ASSUME NoneIsNoRow == None \notin Reservation

MaxOf(a, b) == IF a >= b THEN a ELSE b

Live(rs) == {i \in Ids : rs[i] # None}

\* The instants a caller may have read from the clock before it got the mutex.
Readings == {t \in 0..now : now - t <= MaxLag}

-----------------------------------------------------------------------------
(* Expiry.                                                                 *)

DueAtSafe(r, at) == r.status \in Pending /\ at >= r.safe

\* A reserved row was never signed and dies with the authorization it priced;
\* the other pending rows wait until no rolling window can hold their payment.
Deadline(r) == IF r.status = "reserved" THEN r.safe ELSE r.recovery

Due(r, at) == r.status \in Pending /\ at >= Deadline(r)

\* The recovery deadline of an uncertain row grows with the window asked for.
Extended(r, w) ==
  IF r.status \in Uncertain
    THEN [r EXCEPT !.recovery = MaxOf(@, r.safe + MaxOf(r.window, w))]
    ELSE r

Expired(r, at) == IF Due(r, at) THEN [r EXCEPT !.status = "expired"] ELSE r

ExpiredThenExtended(r, at, w) == Extended(Expired(r, at), w)

SweptRow(r, at, w) == Expired(Extended(r, w), at)

\* What every operation does first, to the rows of the principals ps.
Swept(rs, ps, at, w) ==
  [i \in Ids |-> IF i \in Live(rs) /\ rs[i].principal \in ps
                   THEN SweptRow(rs[i], at, w) ELSE rs[i]]

-----------------------------------------------------------------------------
(* Accounting.                                                             *)

\* An amount is a set of units, one pair for each: the sum of the amounts of a
\* set of rows is the number of units.
Units(rs, is) == {u \in is \X (1..MaxAmount) : u[2] <= rs[u[1]].amount}

Total(rs, is) == Cardinality(Units(rs, is))

\* A row counts while it is pending, whatever its age, and after settlement
\* for the longer of its own window and the requested one.
Occupies(r, at, w) ==
  \/ r.status \in Pending
  \/ r.status = "settled" /\ r.settledAt > at - MaxOf(r.window, w)

Counted(rs, p, ms, at, w) ==
  {i \in Live(rs) : /\ rs[i].principal = p
                    /\ rs[i].mandate \in ms
                    /\ Occupies(rs[i], at, w)}

Committed(rs, p, ms, at, w) == Total(rs, Counted(rs, p, ms, at, w))

PendingFor(rs, p, y) ==
  {i \in Live(rs) : /\ rs[i].principal = p
                    /\ rs[i].payee = y
                    /\ rs[i].status \in Pending}

CapBeforeAmount(rs, q, at) ==
  /\ Cardinality(PendingFor(rs, q.principal, q.payee)) < PayeeLimit
  /\ Committed(rs, q.principal, {q.mandate}, at, q.window) < Cap
  /\ Committed(rs, q.principal, Mandates, at, q.window) < AggregateCap

\* The three refusals of tryReserve, none of which may apply.
Admits(rs, q, at) ==
  /\ Cardinality(PendingFor(rs, q.principal, q.payee)) < PayeeLimit
  /\ Committed(rs, q.principal, {q.mandate}, at, q.window) + q.amount <= Cap
  /\ Committed(rs, q.principal, Mandates, at, q.window) + q.amount
       <= AggregateCap

NewRow(q, at) ==
  [principal |-> q.principal, mandate |-> q.mandate, payee |-> q.payee,
   amount |-> q.amount, status |-> "reserved",
   safe |-> at + q.validity, recovery |-> at + q.validity + q.window,
   window |-> q.window, settledAt |-> None, ref |-> None]

-----------------------------------------------------------------------------
(* Operations.                                                             *)

\* tryReserve: sweep the principal's rows, then insert a row or refuse.
TryReserve(q, at) ==
  /\ LET rs == Swept(rows, {q.principal}, at, q.window) IN
       \/ /\ Admits(rs, q, at)
          /\ \E i \in Ids \ Live(rs) :
               rows' = [rs EXCEPT ![i] = NewRow(q, at)]
       \/ /\ ~Admits(rs, q, at)
          /\ rows' = rs
  /\ UNCHANGED now

\* The transition succeeds only from the status its caller expects: a failed
\* compare-and-set leaves the store as it is.
InStatus(i, from) == i \in Live(rows) /\ rows[i].status = from

RefUnusedAmongUncertain(i, f) ==
  \A j \in Live(rows) \ {i} :
    rows[j].status \in Uncertain => f = None \/ rows[j].ref # f

\* A signed reference is unique over the rows of the store, in any status.
RefUnused(i, f) == \A j \in Live(rows) \ {i} : f = None \/ rows[j].ref # f

SignedWithoutRecovery(r, safe, f) ==
  [r EXCEPT !.status = "signed", !.safe = MaxOf(r.safe, safe), !.ref = f]

\* safeReleaseAt only grows, to cover the validBefore really signed, and the
\* recovery deadline grows with it.
Signed(r, safe, f) ==
  [r EXCEPT !.status = "signed",
            !.safe = MaxOf(r.safe, safe),
            !.recovery = IF safe > r.safe
                           THEN MaxOf(@, safe + r.window) ELSE @,
            !.ref = f]

\* transition(i, "reserved", "signed", {safeReleaseAt, authorization}).
Sign(i, safe, f) ==
  /\ InStatus(i, "reserved")
  /\ RefUnused(i, f)
  /\ rows' = [rows EXCEPT ![i] = Signed(rows[i], safe, f)]
  /\ UNCHANGED now

\* transition(i, "reserved", "released").
Release(i) ==
  /\ InStatus(i, "reserved")
  /\ rows' = [rows EXCEPT ![i].status = "released"]
  /\ UNCHANGED now

SettleUndated(i, settledAt) ==
  /\ InStatus(i, "signed")
  /\ rows' = [rows EXCEPT ![i].status = "settled"]
  /\ UNCHANGED now

\* transition(i, "signed", "settled", {settledAt}).
Settle(i, settledAt) ==
  /\ InStatus(i, "signed")
  /\ rows' = [rows EXCEPT ![i].status = "settled", ![i].settledAt = settledAt]
  /\ UNCHANGED now

\* transition(i, "signed", "unknown"): the response failed or was lost.
LoseTrack(i) ==
  /\ InStatus(i, "signed")
  /\ rows' = [rows EXCEPT ![i].status = "unknown"]
  /\ UNCHANGED now

\* releaseExpired: the same sweep over the rows of every principal.
ReleaseExpired(at, w) ==
  /\ rows' = Swept(rows, Principals, at, w)
  /\ UNCHANGED now

FreedByRestart(r) ==
  IF r.status \in Pending THEN [r EXCEPT !.status = "released"] ELSE r

\* After a restart no row knows whether its payment was signed.
UnknownRow(r) ==
  IF r.status \in Pending THEN [r EXCEPT !.status = "unknown"] ELSE r

\* recoverAfterRestart: every pending row becomes unknown, then the sweep.
RecoverAfterRestart(at, w) ==
  /\ rows' = [i \in Ids |-> IF i \in Live(rows)
                              THEN SweptRow(UnknownRow(rows[i]), at, w)
                              ELSE None]
  /\ UNCHANGED now

Tick ==
  /\ now < MaxNow
  /\ now' = now + 1
  /\ UNCHANGED rows

-----------------------------------------------------------------------------
StoreInit ==
  /\ rows = [i \in Ids |-> None]
  /\ now = 0

StoreNext ==
  \/ \E q \in Request, at \in Readings : TryReserve(q, at)
  \/ \E i \in Ids, d \in 0..Tolerance, f \in Refs \cup {None} :
       Sign(i, rows[i].safe + d, f)
  \/ \E i \in Ids : Release(i)
  \/ \E i \in Ids, at \in Readings : Settle(i, at)
  \/ \E i \in Ids : LoseTrack(i)
  \/ \E at \in Readings, w \in Windows : ReleaseExpired(at, w)
  \/ \E at \in Readings, w \in Windows : RecoverAfterRestart(at, w)
  \/ Tick

StoreSpec == StoreInit /\ [][StoreNext]_storeVars

-----------------------------------------------------------------------------
(* Properties.                                                             *)

StoreTypeOK ==
  /\ rows \in [Ids -> Reservation \cup {None}]
  /\ now \in Nat
  /\ \A i \in Live(rows) : rows[i].status = "settled" => rows[i].settledAt \in Nat

\* Whatever the interleaving of requests, lifecycle transitions, sweeps and
\* restarts, and however stale the instants they carry, the spend that counts
\* in the rolling window never exceeds a mandate's cap, nor the principal's
\* aggregate cap over all of its mandates; and no payee holds more pending
\* payments of a principal than the policy allows.
LimitsHold ==
  \A p \in Principals :
    /\ \A y \in Payees : Cardinality(PendingFor(rows, p, y)) <= PayeeLimit
    /\ \A m \in Mandates : Committed(rows, p, {m}, now, MinWindow) <= Cap
    /\ Committed(rows, p, Mandates, now, MinWindow) <= AggregateCap

\* The recovery deadline covers a whole rolling window after the last instant
\* at which the authorization may still be spent (the CHECK of the SQLite
\* schema, the precondition of tryReserve): signing later than priced, window
\* changes and restarts all keep it.
RecoveryCoversWindow ==
  \A i \in Live(rows) : rows[i].recovery >= rows[i].safe + rows[i].window

\* Two rows never carry the same signed authorization: one payment is counted
\* and settled through one row, also after the first row is settled or expired.
OneRowPerReference ==
  \A i, j \in Live(rows) :
    rows[i].ref # None /\ rows[i].ref = rows[j].ref => i = j

\* A hold is given up in three ways only: released before it was signed,
\* settled after it was, or expired no sooner than its deadline: that of its
\* authorization if it was never signed, and the recovery deadline, a window
\* later, if it may have been.  No sweep, no restart and no refused request
\* drops one otherwise, and no terminal row comes back.
HoldsUntilAccounted ==
  [][\A i \in Live(rows) :
       /\ i \in Live(rows')
       /\ rows[i].status # rows'[i].status =>
            CASE rows'[i].status = "released" -> rows[i].status = "reserved"
              [] rows'[i].status = "settled"  -> rows[i].status = "signed"
              [] rows'[i].status = "expired"  -> /\ rows[i].status \in Pending
                                                 /\ now >= Deadline(rows[i])
              [] OTHER -> /\ rows[i].status \in Pending
                          /\ rows'[i].status \in Uncertain]_storeVars

\* A sweep that asks for window w gives up no uncertain row while a window of
\* length w that ends at the sweep could still hold its payment: expansion of
\* the window comes before every expiry decision, on the request path, in
\* reconciliation and after a restart.
SweepWaitsOutWindow ==
  \A at \in Readings, w \in Windows, i \in Live(rows) :
    \A r \in {rows[i], UnknownRow(rows[i])} :
      /\ r.status \in Uncertain
      /\ SweptRow(r, at, w).status = "expired"
      => at >= r.safe + MaxOf(r.window, w)
=============================================================================
