----------------------------- MODULE StoreLedger -----------------------------
(***************************************************************************)
(* The in-memory store of ReservationStore as an implementation of the     *)
(* ledger of SpendLedger, which the SQLite store implements as well: the   *)
(* two stores promise the same about money.                                *)
(***************************************************************************)
EXTENDS ReservationStore

LedgerState(r) ==
  IF r.status \in Uncertain THEN "uncertain"
  ELSE IF r.status = "settled" THEN "spent"
  ELSE IF r.status = "reserved" THEN "reserved" ELSE "void"

LedgerEntry(r) ==
  [principal |-> r.principal, mandate |-> r.mandate, amount |-> r.amount,
   window |-> r.window, due |-> r.safe, state |-> LedgerState(r),
   spentAt |-> r.settledAt]

LedgerEntries == [i \in Ids |-> IF rows[i] = None THEN None ELSE LedgerEntry(rows[i])]

Ledger == INSTANCE SpendLedger WITH entries <- LedgerEntries

ASSUME NoneIsNoLedgerEntry == None \notin Ledger!Entry

\* The store implements the ledger: a row is only written while the caps hold
\* with it, at the clock and not only at the stale instant of its request, and
\* no sweep, restart or transition moves a row otherwise than the ledger allows.
ImplementsLedger == Ledger!LedgerSpec
=============================================================================
