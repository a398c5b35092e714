----------------------------- MODULE SqliteStore -----------------------------
(***************************************************************************)
(* The SQLite store of agentpay-guard (store/sqlite/store.ts, schema.ts):  *)
(* reservations and dedup keys in one file that several connections share. *)
(* It differs from the in-memory store in what it makes durable and in     *)
(* what it deletes: every request prunes expired keys, closed rows after   *)
(* a retention time, and settled rows once a durable ceiling on the        *)
(* accounting windows says that no request can count them any more.        *)
(*                                                                         *)
(* A transaction holds the write lock of the file from BEGIN to COMMIT, so *)
(* its operation is one step here (SqliteTransaction models the lock, the  *)
(* retries and the failures).  The instant it carries was read before.     *)
(***************************************************************************)
EXTENDS Integers, FiniteSets

CONSTANTS
  Ids,           \* what randomUUID() returns, never the same twice
  Principals, Mandates, Payees,
  Refs,          \* signed references (asset, payer, nonce), None for a payload
                 \* from which none can be read
  Keys,          \* dedup keys
  Conns,         \* connections to the file, of one process or of several
  None,          \* NULL, undefined, an id without a row
  MaxAmount, Amounts,
  Windows,       \* windowMs of requests
  MinWindow,     \* the shortest of them
  Ceilings,      \* values of the option maxAccountingWindowMs
  Validities,    \* safeReleaseAt - now of a request
  Drifts,        \* how far a signed validBefore lies from the priced one
  Cap, AggregateCap, PayeeLimit,
  Retention,     \* TERMINAL_RETENTION_MS
  Ttl,           \* time to live of a dedup key
  MaxLag,        \* how stale the instant of a request may be
  MaxNow         \* bound: the clock stops here

ASSUME SqliteIdsFinite == IsFiniteSet(Ids)
ASSUME SqliteNumbers ==
  /\ MaxAmount \in Nat /\ Amounts \subseteq 0..MaxAmount
  /\ Validities \subseteq Nat /\ Drifts \subseteq Int
  /\ Cap \in Nat /\ AggregateCap \in Nat /\ PayeeLimit \in Nat
  /\ Retention \in Nat /\ Ttl \in Nat /\ MaxLag \in Nat /\ MaxNow \in Nat
ASSUME SqliteWindows ==
  /\ Windows \subseteq Nat \ {0} /\ Ceilings \subseteq Nat \ {0}
  /\ MinWindow \in Nat /\ \A w \in Windows : MinWindow <= w

VARIABLES
  file,     \* the schema the file holds
  rows,     \* table reservations: [Ids -> Row or None]
  dedup,    \* table dedup: key -> expires_at_ms
  ceiling,  \* schema_meta.max_accounting_window_ms
  open,     \* the connections that are open
  pruned,   \* history: the ledger entries of the deleted rows
  now       \* the clock

tables == <<rows, dedup, pruned>>
sqliteVars == <<file, rows, dedup, ceiling, open, pruned, now>>

Uncertain == {"signed", "submitted", "unknown"}
Pending == {"reserved"} \cup Uncertain

Row ==
  [principal : Principals, mandate : Mandates, payee : Payees,
   amount : 0..MaxAmount,
   status : Pending \cup {"settled", "expired", "released"},
   safe : Nat, recovery : Nat, window : Windows,
   settledAt : Nat \cup {None}, ref : Refs \cup {None}, updated : Nat]

Request ==
  [principal : Principals, mandate : Mandates, payee : Payees,
   amount : Amounts, window : Windows, validity : Validities]

ASSUME NullIsNoRow == None \notin Row /\ None \notin Nat

Greatest(a, b) == IF a >= b THEN a ELSE b

Stored(rs) == {i \in Ids : rs[i] # None}

Readings == {t \in 0..now : now - t <= MaxLag}

-----------------------------------------------------------------------------
(* Opening: migration, then the accounting window, in one transaction.     *)

\* migrateSchema creates an empty file, alters version 1 and leaves version 2;
\* it throws on a newer version and on a schema that it does not recognise.
Migratable == {"empty", "v1", "v2"}

\* The first option that is given becomes durable, and bounds later ones.
AdmitsOption(requested) ==
  requested # None /\ ceiling # None => requested <= ceiling

LatestWindow(requested) == IF requested = None THEN ceiling ELSE requested

ConfiguredWindow(requested) == IF ceiling = None THEN requested ELSE ceiling

\* The last check may still close the connection; the migration stays.
Open(c, requested) ==
  /\ c \notin open
  /\ file \in Migratable
  /\ AdmitsOption(requested)
  /\ file' = "v2"
  /\ ceiling' = ConfiguredWindow(requested)
  /\ open' = open \cup {c} \/ open' = open
  /\ UNCHANGED <<tables, now>>

\* close, or the death of the process: what was committed stays.
Close(c) ==
  /\ c \in open
  /\ open' = open \ {c}
  /\ UNCHANGED <<file, tables, ceiling, now>>

Usable == open # {}

AnyWindowAllowed(w) == w \in Windows

\* A request for a longer window than the ceiling is refused: rows that it
\* would have to count may be gone.
AssertWindowAllowed(w) == ceiling # None => w <= ceiling

-----------------------------------------------------------------------------
(* Statements.                                                             *)

DueIn(r, at) ==
  \/ r.status = "reserved" /\ r.safe <= at
  \/ r.status \in Uncertain /\ r.recovery <= at

\* expireEligible.
ExpiredRow(r, at) ==
  IF DueIn(r, at)
    THEN [r EXCEPT !.status = "expired", !.updated = Greatest(@, at)]
    ELSE r

\* extendUncertainRecovery: the window asked for may be longer than the one a
\* row was written with.
ExtendedRow(r, at, w) ==
  IF r.status \in Uncertain
    THEN [r EXCEPT !.recovery = Greatest(@, r.safe + Greatest(r.window, w)),
                   !.updated = Greatest(@, at)]
    ELSE r

\* The deadlines grow before any expiry is decided.
Swept(rs, ps, at, w) ==
  [i \in Ids |-> IF rs[i] # None /\ rs[i].principal \in ps
                   THEN ExpiredRow(ExtendedRow(rs[i], at, w), at)
                   ELSE rs[i]]

ClosedLongAgo(r, at) ==
  r.status \in {"expired", "released"} /\ r.updated <= at - Retention

SettledPastCeiling(r, at) ==
  /\ ceiling # None
  /\ r.status = "settled"
  /\ r.settledAt <= at - ceiling

SettledLongAgo(r, at) ==
  /\ ceiling # None
  /\ r.status = "settled"
  /\ r.settledAt <= at - Greatest(r.window, ceiling)

Prunable(r, at) == r # None /\ (ClosedLongAgo(r, at) \/ SettledLongAgo(r, at))

KeysLeft(at) ==
  [k \in Keys |-> IF dedup[k] # None /\ dedup[k] <= at THEN None ELSE dedup[k]]

\* The entry of the ledger (SpendLedger) that a row stands for.
LedgerState(r) ==
  CASE r.status = "reserved"              -> "reserved"
    [] r.status \in Uncertain             -> "uncertain"
    [] r.status = "settled"               -> "spent"
    [] r.status \in {"expired", "released"} -> "void"

LedgerEntry(r) ==
  [principal |-> r.principal, mandate |-> r.mandate, amount |-> r.amount,
   window |-> r.window, due |-> r.safe, state |-> LedgerState(r),
   spentAt |-> r.settledAt]

\* pruneExpiredData deletes rows of every principal.
PruneExpiredData(rs, at) ==
  [i \in Ids |-> IF Prunable(rs[i], at) THEN None ELSE rs[i]]

Forgotten(rs, at) ==
  [i \in Ids |-> IF Prunable(rs[i], at) THEN LedgerEntry(rs[i]) ELSE pruned[i]]

-----------------------------------------------------------------------------
(* Accounting.                                                             *)

AccountingRows(rs, p, ms) ==
  {i \in Stored(rs) : /\ rs[i].principal = p /\ rs[i].mandate \in ms
                      /\ rs[i].status \in Pending \cup {"settled"}}

Units(rs, is) == {u \in is \X (1..MaxAmount) : u[2] <= rs[u[1]].amount}

Committed(rs, p, ms, at, w) ==
  Cardinality(Units(rs,
    {i \in AccountingRows(rs, p, ms) :
       rs[i].status = "settled" =>
         rs[i].settledAt > at - Greatest(rs[i].window, w)}))

PendingCount(rs, p, y) ==
  Cardinality({i \in Stored(rs) : /\ rs[i].principal = p /\ rs[i].payee = y
                                  /\ rs[i].status \in Pending})

Admits(rs, q, at) ==
  /\ PendingCount(rs, q.principal, q.payee) < PayeeLimit
  /\ Committed(rs, q.principal, {q.mandate}, at, q.window) + q.amount <= Cap
  /\ Committed(rs, q.principal, Mandates, at, q.window) + q.amount <= AggregateCap

Inserted(q, at) ==
  [principal |-> q.principal, mandate |-> q.mandate, payee |-> q.payee,
   amount |-> q.amount, status |-> "reserved",
   safe |-> at + q.validity, recovery |-> at + q.validity + q.window,
   window |-> q.window, settledAt |-> None, ref |-> None, updated |-> at]

-----------------------------------------------------------------------------
(* Transactions.                                                           *)

FreshIds == {i \in Ids : rows[i] = None /\ pruned[i] = None}

\* A refusal returns normally: the sweep before it is committed all the same.
TryReserve(q, at) ==
  /\ Usable
  /\ AssertWindowAllowed(q.window)
  /\ LET swept == Swept(rows, {q.principal}, at, q.window)
         kept  == PruneExpiredData(swept, at)
     IN /\ \/ /\ Admits(kept, q, at)
              /\ \E i \in FreshIds : rows' = [kept EXCEPT ![i] = Inserted(q, at)]
           \/ /\ ~Admits(kept, q, at)
              /\ rows' = kept
        /\ pruned' = Forgotten(swept, at)
  /\ dedup' = KeysLeft(at)
  /\ UNCHANGED <<file, ceiling, open, now>>

\* transition: UPDATE ... WHERE id = ? AND status = ?, no row changes when the
\* status is another one.
Transition(i, from, row) ==
  /\ Usable
  /\ i \in Stored(rows) /\ rows[i].status = from
  /\ rows' = [rows EXCEPT ![i] = row]
  /\ UNCHANGED <<file, dedup, ceiling, open, pruned, now>>

SignedDeadlineKept(r, at, safe, f) ==
  [r EXCEPT !.status = "signed",
            !.safe = Greatest(@, safe),
            !.ref = IF f = None THEN @ ELSE f,
            !.updated = Greatest(@, at)]

SignedRow(r, at, safe, f) ==
  [r EXCEPT !.status = "signed",
            !.safe = Greatest(@, safe),
            !.recovery = Greatest(@, safe + r.window),
            !.ref = IF f = None THEN @ ELSE f,
            !.updated = Greatest(@, at)]

\* The unique index over the authorization makes a second row with it throw.
IndexAdmits(i, f) ==
  f # None => \A j \in Stored(rows) \ {i} : rows[j].ref # f

Sign(i, at, safe, f) ==
  /\ IndexAdmits(i, f)
  /\ Transition(i, "reserved", SignedRow(rows[i], at, safe, f))

Release(i, at) ==
  Transition(i, "reserved",
    [rows[i] EXCEPT !.status = "released", !.updated = Greatest(@, at)])

Settle(i, at) ==
  Transition(i, "signed",
    [rows[i] EXCEPT !.status = "settled", !.settledAt = at,
                    !.updated = Greatest(@, at)])

LoseTrack(i, at) ==
  Transition(i, "signed",
    [rows[i] EXCEPT !.status = "unknown", !.updated = Greatest(@, at)])

InsertOrReplace(keys, k, at) == [keys EXCEPT ![k] = at + Ttl]

\* INSERT OR IGNORE after the pruning of what has expired.
Insert(keys, k, at) == IF keys[k] = None THEN [keys EXCEPT ![k] = at + Ttl] ELSE keys

PutIfAbsent(k, at) ==
  /\ Usable
  /\ dedup' = Insert(KeysLeft(at), k, at)
  /\ rows' = PruneExpiredData(rows, at)
  /\ pruned' = Forgotten(rows, at)
  /\ UNCHANGED <<file, ceiling, open, now>>

RemoveDedup(k) ==
  /\ Usable
  /\ dedup' = [dedup EXCEPT ![k] = None]
  /\ UNCHANGED <<file, rows, ceiling, open, pruned, now>>

\* What releaseExpired and recoverAfterRestart have in common.
SweepAll(rs, at, w) ==
  /\ Usable
  /\ AssertWindowAllowed(w)
  /\ LET swept == Swept(rs, Principals, at, w)
     IN /\ rows' = PruneExpiredData(swept, at)
        /\ pruned' = Forgotten(swept, at)
  /\ dedup' = KeysLeft(at)
  /\ UNCHANGED <<file, ceiling, open, now>>

ReleaseExpired(at, w) == SweepAll(rows, at, w)

\* No row that was pending is known to be unsigned after a restart.
MarkedUnknown(at) ==
  [i \in Ids |->
     IF i \in Stored(rows) /\ rows[i].status \in {"reserved", "signed", "submitted"}
       THEN [rows[i] EXCEPT !.status = "unknown", !.updated = Greatest(@, at)]
       ELSE rows[i]]

RecoverAfterRestart(at, w) == SweepAll(MarkedUnknown(at), at, w)

Tick ==
  /\ now < MaxNow
  /\ now' = now + 1
  /\ UNCHANGED <<file, tables, ceiling, open>>

-----------------------------------------------------------------------------
SqliteInit ==
  /\ file \in {"empty", "v1", "newer"}
  /\ rows = [i \in Ids |-> None]
  /\ dedup = [k \in Keys |-> None]
  /\ ceiling = None
  /\ open = {}
  /\ pruned = [i \in Ids |-> None]
  /\ now = 0

SqliteNext ==
  \/ \E c \in Conns, requested \in Ceilings \cup {None} : Open(c, requested)
  \/ \E c \in Conns : Close(c)
  \/ \E q \in Request, at \in Readings : TryReserve(q, at)
  \/ \E i \in Stored(rows), at \in Readings, d \in Drifts, f \in Refs :
       Sign(i, at, rows[i].safe + d, f)
  \/ \E i \in Ids, at \in Readings : Release(i, at) \/ Settle(i, at) \/ LoseTrack(i, at)
  \/ \E k \in Keys, at \in Readings : PutIfAbsent(k, at)
  \/ \E k \in Keys : RemoveDedup(k)
  \/ \E at \in Readings, w \in Windows : ReleaseExpired(at, w)
  \/ \E at \in Readings, w \in Windows : RecoverAfterRestart(at, w)
  \/ Tick

SqliteSpec == SqliteInit /\ [][SqliteNext]_sqliteVars

-----------------------------------------------------------------------------
(* Properties.                                                             *)

\* The tables have their types, and no statement ever runs into the CHECK of
\* the schema on the recovery deadline.
SqliteTypeOK ==
  /\ file \in {"empty", "v1", "v2", "newer"}
  /\ rows \in [Ids -> Row \cup {None}]
  /\ dedup \in [Keys -> Nat \cup {None}]
  /\ ceiling \in Ceilings \cup {None}
  /\ open \subseteq Conns
  /\ now \in Nat
  /\ \A i \in Stored(rows) :
       /\ rows[i].recovery >= rows[i].safe + rows[i].window
       /\ rows[i].status = "settled" => rows[i].settledAt \in 0..now

\* README: rows are pruned only after no allowed future window can count them.
\* Whatever ceilings the connections were opened with, in which order, and
\* however stale the instants of the requests, a deleted row is closed and lies
\* outside every window that a request may still ask for, now and later.
PrunedNeverCounts ==
  \A i \in Stored(pruned) :
    LET e == pruned[i] IN
      /\ rows[i] = None
      /\ e.state \in {"spent", "void"}
      /\ e.state = "spent" =>
           \A w \in {w \in Windows : AssertWindowAllowed(w)} :
             e.spentAt <= now - Greatest(e.window, w)

\* The ceiling is durable and immutable: no connection opened later, with a
\* longer window or with none, after a crash or beside an open one, changes it.
CeilingIsImmutable ==
  [][ceiling # None => ceiling' = ceiling]_sqliteVars

\* A dedup key that was accepted blocks until it expires on the clock or is
\* removed by its holder: neither the pruning that every call does with an instant
\* of its own nor a second claim takes it away or moves its expiry.
KeyBlocksUntilExpiry ==
  [][\A k \in Keys :
       dedup[k] # None /\ dedup'[k] # dedup[k]
         => now >= dedup[k] \/ RemoveDedup(k)]_sqliteVars

\* The ledger that the store implements: a deleted row keeps its place in it.
LedgerEntries ==
  [i \in Ids |-> IF rows[i] # None THEN LedgerEntry(rows[i])
                 ELSE pruned[i]]

Ledger == INSTANCE SpendLedger WITH entries <- LedgerEntries

ASSUME NullIsNoEntry == None \notin Ledger!Entry

\* The store implements the ledger that forgets nothing: what it prunes, and
\* what restarts and refused requests do to its rows, never lets a reservation
\* through that the whole history would refuse.
ImplementsLedger == Ledger!LedgerSpec
=============================================================================
