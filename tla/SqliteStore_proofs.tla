-------------------------- MODULE SqliteStore_proofs --------------------------
(***************************************************************************)
(* Proofs about the SQLite store of agentpay-guard, for any number of      *)
(* rows, connections and mandates, any windows and ceilings, and requests  *)
(* as stale as one likes: the inductive invariant, pruning, the durable    *)
(* ceiling, and every step as a step of SpendLedger or none.               *)
(***************************************************************************)
EXTENDS SqliteStore, FiniteSetTheorems, TLAPS

USE DEF Greatest

\* A row as the schema and the operations keep it: what is settled has its
\* instant, what is pending has none, and the recovery deadline covers a window.
RowOK(r) ==
  /\ r \in Row
  /\ r.recovery >= r.safe + r.window
  /\ r.status = "settled" => r.settledAt \in 0..now
  /\ r.status \in Pending => r.settledAt = None

TableOK(rs) ==
  /\ rs \in [Ids -> Row \cup {None}]
  /\ \A i \in Stored(rs) : RowOK(rs[i])

\* A deleted row keeps its entry, which no window still allowed can count.
PrunedOK(rs, ps) ==
  /\ ps \in Ledger!Entries
  /\ \A i \in Stored(ps) :
       /\ rs[i] = None
       /\ ps[i].state \in {"spent", "void"}
       /\ ps[i].state = "spent" =>
            /\ ps[i].spentAt \in Nat
            /\ \A w \in {w \in Windows : AssertWindowAllowed(w)} :
                 ps[i].spentAt <= now - Greatest(ps[i].window, w)

SchemaOK ==
  /\ file \in {"empty", "v1", "v2", "newer"}
  /\ dedup \in [Keys -> Nat \cup {None}]
  /\ ceiling \in Ceilings \cup {None}
  /\ open \subseteq Conns
  /\ now \in Nat

IInv == SchemaOK /\ TableOK(rows) /\ PrunedOK(rows, pruned)

-----------------------------------------------------------------------------
(* One row.                                                                *)

\* What the assumptions say of a window, a validity and a drift.
LEMMA Numbers ==
  /\ MaxAmount \in Nat /\ MinWindow \in Nat /\ Retention \in Nat /\ Ttl \in Nat
  /\ Cap \in Nat /\ AggregateCap \in Nat
  /\ \A w \in Windows : w \in Nat /\ MinWindow <= w
  /\ \A v \in Validities : v \in Nat
  /\ \A d \in Drifts : d \in Int
  /\ \A a \in Amounts : a \in 0..MaxAmount
  /\ \A c \in Ceilings : c \in Nat
BY SqliteNumbers, SqliteWindows

\* The instant a request carries is not later than the clock.
LEMMA ReadingsAreInstants ==
  ASSUME now \in Nat, NEW at \in Readings
  PROVE  at \in Nat /\ at <= now
BY DEF Readings

\* The state of a row in the ledger, by its status.
LEMMA LedgerStates ==
  ASSUME NEW r \in Row
  PROVE  /\ r.status = "reserved" <=> LedgerState(r) = "reserved"
         /\ r.status \in Uncertain <=> LedgerState(r) = "uncertain"
         /\ r.status = "settled" <=> LedgerState(r) = "spent"
         /\ r.status \in {"expired", "released"} <=> LedgerState(r) = "void"
         /\ r.status \in Pending <=> LedgerState(r) \in {"reserved", "uncertain"}
         /\ LedgerState(r) \in {"reserved", "uncertain", "spent", "void"}
<1>1. \/ r.status = "reserved"
      \/ r.status \in Uncertain
      \/ r.status = "settled"
      \/ r.status \in {"expired", "released"}
  BY DEF Row, Pending
<1>2. CASE r.status = "reserved"
  BY <1>2 DEF LedgerState, Uncertain, Pending
<1>3. CASE r.status \in Uncertain
  <2>1. r.status \notin {"reserved", "settled", "expired", "released"}
    BY <1>3 DEF Uncertain
  <2>2. LedgerState(r) = "uncertain"
    BY <1>3, <2>1 DEF LedgerState
  <2> QED
    BY <1>3, <2>1, <2>2 DEF Pending
<1>4. CASE r.status = "settled"
  BY <1>4 DEF LedgerState, Uncertain, Pending
<1>5. CASE r.status \in {"expired", "released"}
  BY <1>5 DEF LedgerState, Uncertain, Pending
<1> QED
  BY <1>1, <1>2, <1>3, <1>4, <1>5

\* The fields of the entry of a row.
LEMMA EntryOfRow ==
  ASSUME NEW r, RowOK(r)
  PROVE  /\ LedgerEntry(r) \in Ledger!Entry
         /\ LedgerEntry(r) # None
         /\ LedgerEntry(r).principal = r.principal
         /\ LedgerEntry(r).mandate = r.mandate
         /\ LedgerEntry(r).amount = r.amount
         /\ LedgerEntry(r).window = r.window
         /\ LedgerEntry(r).due = r.safe
         /\ LedgerEntry(r).state = LedgerState(r)
         /\ LedgerEntry(r).spentAt = r.settledAt
<1>1. r \in Row
  BY DEF RowOK
<1>2. r.window \in {w \in Nat : w >= MinWindow}
  BY <1>1, Numbers DEF Row
<1>3. LedgerState(r) \in Ledger!Open \cup {"spent", "void"}
  BY <1>1, LedgerStates DEF Ledger!Open
<1>4. LedgerEntry(r) \in Ledger!Entry
  BY <1>1, <1>2, <1>3 DEF LedgerEntry, Ledger!Entry, Row
<1> QED
  BY <1>4, NullIsNoEntry DEF LedgerEntry

\* A row whose entry moves: same payment, still a row.
RowMoves(r, s) == RowOK(s) /\ Ledger!Moves(LedgerEntry(r), LedgerEntry(s))

\* Two rows with the same payment, deadline and settlement differ, for the
\* ledger, in their state only.
LEMMA SamePayment ==
  ASSUME NEW r, NEW s, RowOK(r), RowOK(s),
         s.principal = r.principal, s.mandate = r.mandate, s.amount = r.amount,
         s.window = r.window, s.safe >= r.safe
  PROVE  /\ Ledger!SameEntry(LedgerEntry(r), LedgerEntry(s))
         /\ s.safe = r.safe /\ s.settledAt = r.settledAt
            /\ LedgerState(s) = LedgerState(r) => RowMoves(r, s)
         /\ r.status = "reserved" /\ s.status \in Uncertain => RowMoves(r, s)
         /\ s.safe = r.safe /\ r.status \in Uncertain /\ s.status = "settled"
              => RowMoves(r, s)
         /\ /\ s.safe = r.safe /\ s.settledAt = r.settledAt
            /\ s.status \in {"expired", "released"}
            /\ \/ r.status = "reserved"
               \/ r.status \in Uncertain /\ now >= r.safe + r.window
            => RowMoves(r, s)
<1>1. r \in Row /\ s \in Row
  BY DEF RowOK
<1>2. Ledger!SameEntry(LedgerEntry(r), LedgerEntry(s))
  BY EntryOfRow DEF Ledger!SameEntry
<1>3. ASSUME s.safe = r.safe, s.settledAt = r.settledAt, LedgerState(s) = LedgerState(r)
      PROVE  RowMoves(r, s)
  BY <1>3 DEF RowMoves, Ledger!Moves, LedgerEntry
<1>4. ASSUME r.status = "reserved", s.status \in Uncertain
      PROVE  RowMoves(r, s)
  <2>1. LedgerState(r) = "reserved" /\ LedgerState(s) = "uncertain"
    BY <1>1, <1>4, LedgerStates
  <2>2. s.settledAt = None
    BY <1>4 DEF RowOK, Pending
  <2>3. Ledger!Signs(LedgerEntry(r), LedgerEntry(s))
    BY <2>1, <2>2, EntryOfRow DEF Ledger!Signs
  <2> QED
    BY <1>2, <2>3, EntryOfRow DEF RowMoves, Ledger!Moves
<1>5. ASSUME s.safe = r.safe, r.status \in Uncertain, s.status = "settled"
      PROVE  RowMoves(r, s)
  <2>1. LedgerState(r) = "uncertain" /\ LedgerState(s) = "spent"
    BY <1>1, <1>5, LedgerStates
  <2>2. s.settledAt \in 0..now
    BY <1>5 DEF RowOK
  <2>3. Ledger!Settles(LedgerEntry(r), LedgerEntry(s))
    BY <1>5, <2>1, <2>2, EntryOfRow DEF Ledger!Settles
  <2> QED
    BY <1>2, <2>3, EntryOfRow DEF RowMoves, Ledger!Moves
<1>6. ASSUME s.safe = r.safe, s.settledAt = r.settledAt,
             s.status \in {"expired", "released"},
             r.status = "reserved" \/ (r.status \in Uncertain /\ now >= r.safe + r.window)
      PROVE  RowMoves(r, s)
  <2>1. /\ LedgerState(s) = "void"
        /\ r.status = "reserved" => LedgerState(r) = "reserved"
        /\ r.status \in Uncertain => LedgerState(r) = "uncertain"
    BY <1>1, <1>6, LedgerStates
  <2>2. Ledger!Lapses(LedgerEntry(r), LedgerEntry(s))
    BY <1>6, <2>1, EntryOfRow DEF Ledger!Lapses
  <2> QED
    BY <1>2, <2>2, EntryOfRow DEF RowMoves, Ledger!Moves
<1> QED
  BY <1>2, <1>3, <1>4, <1>5, <1>6

\* Extending the recovery deadline keeps the row, and covers the window asked for.
LEMMA ExtendedRowKeeps ==
  ASSUME NEW r, RowOK(r), NEW at \in Nat, NEW w \in Nat
  PROVE  LET e == ExtendedRow(r, at, w) IN
         /\ RowOK(e)
         /\ e.principal = r.principal /\ e.mandate = r.mandate /\ e.amount = r.amount
         /\ e.window = r.window /\ e.safe = r.safe /\ e.settledAt = r.settledAt
         /\ e.status = r.status
<1> DEFINE e == ExtendedRow(r, at, w)
<1>1. /\ r \in Row /\ r.window \in Nat /\ r.safe \in Nat /\ r.recovery \in Nat
      /\ r.updated \in Nat
  BY Numbers DEF RowOK, Row
<1>2. CASE r.status \in Uncertain
  <2> DEFINE d == Greatest(r.recovery, r.safe + Greatest(r.window, w))
  <2>1. d \in Nat /\ d >= r.safe + r.window /\ Greatest(r.updated, at) \in Nat
    BY <1>1
  <2>2. e = [r EXCEPT !.recovery = d, !.updated = Greatest(r.updated, at)]
    BY <1>1, <1>2 DEF ExtendedRow, Row
  <2> HIDE DEF d, e
  <2>3. e \in Row /\ e.recovery = d
    BY <1>1, <2>1, <2>2 DEF Row
  <2>4. /\ e.principal = r.principal /\ e.mandate = r.mandate /\ e.amount = r.amount
        /\ e.window = r.window /\ e.safe = r.safe /\ e.settledAt = r.settledAt
        /\ e.status = r.status
    BY <1>1, <2>2 DEF Row
  <2> QED
    BY <2>1, <2>3, <2>4 DEF RowOK, e
<1>3. CASE r.status \notin Uncertain
  BY <1>3 DEF ExtendedRow
<1> QED
  BY <1>2, <1>3

\* A sweep moves the entry of a row as the ledger allows.
LEMMA SweptRowMoves ==
  ASSUME now \in Nat, NEW r, RowOK(r), NEW at \in Nat, at <= now, NEW w \in Nat
  PROVE  LET s == ExpiredRow(ExtendedRow(r, at, w), at) IN
         /\ RowMoves(r, s)
         /\ s.principal = r.principal /\ s.mandate = r.mandate /\ s.amount = r.amount
         /\ s.window = r.window /\ s.safe = r.safe /\ s.settledAt = r.settledAt
         /\ s.status \in {r.status, "expired"}
<1> DEFINE e == ExtendedRow(r, at, w)
           s == ExpiredRow(e, at)
           SamePaymentSwept ==
             /\ s.principal = r.principal /\ s.mandate = r.mandate
             /\ s.amount = r.amount /\ s.window = r.window /\ s.safe = r.safe
             /\ s.settledAt = r.settledAt /\ s.status \in {r.status, "expired"}
<1>1. /\ RowOK(e)
      /\ e.principal = r.principal /\ e.mandate = r.mandate /\ e.amount = r.amount
      /\ e.window = r.window /\ e.safe = r.safe /\ e.settledAt = r.settledAt
      /\ e.status = r.status
  BY ExtendedRowKeeps
<1> HIDE DEF e
<1>2. e \in Row /\ e.window \in Nat /\ e.safe \in Nat /\ e.recovery \in Nat
  BY <1>1, Numbers DEF RowOK, Row
<1>3. ASSUME DueIn(e, at)
      PROVE  RowMoves(r, s) /\ SamePaymentSwept
  <2>0. s = [e EXCEPT !.status = "expired", !.updated = Greatest(e.updated, at)]
    BY <1>2, <1>3 DEF ExpiredRow, Row
  <2>1. /\ s.status = "expired"
        /\ s.principal = e.principal /\ s.mandate = e.mandate /\ s.amount = e.amount
        /\ s.window = e.window /\ s.safe = e.safe /\ s.settledAt = e.settledAt
        /\ s.recovery = e.recovery
    BY <1>2, <2>0 DEF Row
  <2> HIDE DEF s
  <2>2. RowOK(s)
    <3>1. Greatest(e.updated, at) \in Nat
      BY <1>2 DEF Row
    <3>2. s \in Row
      BY <1>2, <2>0, <3>1 DEF Row
    <3> QED
      BY <1>1, <2>1, <3>2 DEF RowOK, Pending, Uncertain
  <2>3. r.status = "reserved" \/ (r.status \in Uncertain /\ now >= r.safe + r.window)
    BY <1>1, <1>2, <1>3 DEF DueIn, RowOK
  <2> QED
    BY <1>1, <1>2, <2>1, <2>2, <2>3, SamePayment
<1>4. ASSUME ~DueIn(e, at)
      PROVE  RowMoves(r, s) /\ SamePaymentSwept
  <2>1. s = e
    BY <1>4 DEF ExpiredRow
  <2>2. LedgerEntry(e) = LedgerEntry(r)
    BY <1>1 DEF LedgerEntry, LedgerState
  <2> QED
    BY <1>1, <2>1, <2>2 DEF RowMoves, Ledger!Moves
<1> QED
  BY <1>3, <1>4 DEF e

\* A restart that forgets whether a row was signed, and the sweep after it, move
\* the entry of the row as the ledger allows.
LEMMA RecoveredRowMoves ==
  ASSUME now \in Nat, NEW r, RowOK(r), NEW at \in Nat, at <= now, NEW w \in Nat,
         r.status \in {"reserved", "signed", "submitted"}
  PROVE  LET u == [r EXCEPT !.status = "unknown", !.updated = Greatest(@, at)] IN
         RowOK(u) /\ RowMoves(r, ExpiredRow(ExtendedRow(u, at, w), at))
<1> DEFINE u == [r EXCEPT !.status = "unknown", !.updated = Greatest(r.updated, at)]
           s == ExpiredRow(ExtendedRow(u, at, w), at)
<1>1. /\ r \in Row /\ r.updated \in Nat /\ r.settledAt = None /\ r.safe \in Nat
      /\ r.recovery \in Nat /\ r.window \in Nat
  BY Numbers DEF RowOK, Row, Pending, Uncertain
<1>2. /\ u.principal = r.principal /\ u.mandate = r.mandate /\ u.amount = r.amount
      /\ u.window = r.window /\ u.safe = r.safe /\ u.settledAt = r.settledAt
      /\ u.recovery = r.recovery /\ u.status = "unknown"
  BY <1>1 DEF Row
<1>3. u \in Row
  <2>1. Greatest(r.updated, at) \in Nat
    BY <1>1
  <2> QED
    BY <1>1, <2>1 DEF Row, Pending, Uncertain
<1> HIDE DEF u
<1>4. RowOK(u)
  BY <1>1, <1>2, <1>3 DEF RowOK
<1>5. /\ RowOK(s)
      /\ RowMoves(u, s)
      /\ s.principal = u.principal /\ s.mandate = u.mandate /\ s.amount = u.amount
      /\ s.window = u.window /\ s.safe = u.safe /\ s.settledAt = u.settledAt
      /\ s.status \in {"unknown", "expired"}
  BY <1>2, <1>4, SweptRowMoves DEF RowMoves
<1> HIDE DEF s
<1>6. ASSUME r.status = "reserved"
      PROVE  RowMoves(r, s)
  <2>1. s.status \in Uncertain \/ s.status \in {"expired", "released"}
    BY <1>5 DEF Uncertain
  <2>2. s.safe >= r.safe
    BY <1>1, <1>2, <1>5
  <2> QED
    BY <1>2, <1>5, <1>6, <2>1, <2>2, SamePayment
<1>7. ASSUME r.status \in {"signed", "submitted"}
      PROVE  RowMoves(r, s)
  <2>1. LedgerState(u) = "uncertain" /\ LedgerState(r) = "uncertain"
    BY <1>1, <1>2, <1>3, <1>7, LedgerStates DEF Uncertain
  <2>2. LedgerEntry(u) = LedgerEntry(r)
    BY <1>2, <2>1 DEF LedgerEntry
  <2> QED
    BY <1>5, <2>2 DEF RowMoves
<1>8. [r EXCEPT !.status = "unknown", !.updated = Greatest(@, at)] = u
  BY <1>1 DEF u, Row
<1> QED
  BY <1>4, <1>6, <1>7, <1>8 DEF s

-----------------------------------------------------------------------------
(* The table.                                                              *)

\* What a transaction has made of the table before it prunes: no row is gone or
\* new, and every row has moved.
TableMoves(ss) ==
  /\ TableOK(ss)
  /\ \A i \in Ids : (ss[i] = None) <=> (rows[i] = None)
  /\ \A i \in Stored(rows) : RowMoves(rows[i], ss[i])

\* The ledger after a transaction that leaves these tables.
EntriesOf(ks, ps) == [i \in Ids |-> IF ks[i] # None THEN LedgerEntry(ks[i]) ELSE ps[i]]

\* A stored row is one, and a row is stored.
LEMMA RowsAreStored ==
  ASSUME NEW r \in Row
  PROVE  r # None
BY NullIsNoRow

\* The table itself, untouched.
LEMMA UntouchedTableMoves ==
  ASSUME TableOK(rows)
  PROVE  TableMoves(rows)
BY DEF TableMoves, TableOK, RowMoves, Ledger!Moves

\* The sweep of some principals' rows.
LEMMA SweptTableMoves ==
  ASSUME now \in Nat, TableOK(rows), NEW ps, NEW at \in Nat, at <= now, NEW w \in Nat
  PROVE  TableMoves(Swept(rows, ps, at, w))
<1> DEFINE ss == Swept(rows, ps, at, w)
<1>1. ASSUME NEW i \in Ids
      PROVE  /\ rows[i] = None => ss[i] = None
             /\ rows[i] # None => ss[i] \in Row /\ RowOK(ss[i]) /\ RowMoves(rows[i], ss[i])
  <2>1. CASE rows[i] = None
    BY <2>1 DEF Swept
  <2>2. CASE rows[i] # None
    <3>1. RowOK(rows[i])
      BY <2>2 DEF TableOK, Stored
    <3>2. RowMoves(rows[i], rows[i])
      BY <3>1 DEF RowMoves, Ledger!Moves
    <3>3. RowMoves(rows[i], ExpiredRow(ExtendedRow(rows[i], at, w), at))
      BY <3>1, SweptRowMoves
    <3>4. \/ ss[i] = rows[i]
          \/ ss[i] = ExpiredRow(ExtendedRow(rows[i], at, w), at)
      BY DEF Swept
    <3>5. RowMoves(rows[i], ss[i])
      BY <3>2, <3>3, <3>4
    <3> HIDE DEF ss
    <3> QED
      BY <2>2, <3>5 DEF RowMoves, RowOK
  <2> QED
    BY <2>1, <2>2
<1>2. ss = [i \in Ids |-> ss[i]]
  BY DEF Swept
<1> HIDE DEF ss
<1>3. ss \in [Ids -> Row \cup {None}]
  BY <1>1, <1>2
<1> QED
  BY <1>1, <1>3, RowsAreStored DEF TableMoves, TableOK, Stored, ss

\* The restart: pending rows become unknown, then the sweep of all of them.
LEMMA RecoveredTableMoves ==
  ASSUME now \in Nat, TableOK(rows), NEW at \in Nat, at <= now, NEW w \in Nat
  PROVE  TableMoves(Swept(MarkedUnknown(at), Principals, at, w))
<1> DEFINE ms == MarkedUnknown(at)
           ss == Swept(ms, Principals, at, w)
<1>1. ASSUME NEW i \in Ids
      PROVE  /\ rows[i] = None => ss[i] = None
             /\ rows[i] # None => RowMoves(rows[i], ss[i])
  <2>1. CASE rows[i] = None
    BY <2>1 DEF Swept, MarkedUnknown, Stored
  <2>2. CASE rows[i] # None
    <3>1. RowOK(rows[i]) /\ i \in Stored(rows)
      BY <2>2 DEF TableOK, Stored
    <3>2. CASE rows[i].status \in {"reserved", "signed", "submitted"}
      <4> DEFINE u == [rows[i] EXCEPT !.status = "unknown", !.updated = Greatest(@, at)]
      <4>1. ms[i] = u
        BY <3>1, <3>2 DEF MarkedUnknown
      <4>2. RowOK(u) /\ RowMoves(rows[i], ExpiredRow(ExtendedRow(u, at, w), at))
        BY <3>1, <3>2, RecoveredRowMoves
      <4> HIDE DEF u, ms
      <4>3. u # None /\ u.principal \in Principals
        BY <4>2, RowsAreStored DEF RowOK, Row
      <4>4. ss[i] = ExpiredRow(ExtendedRow(u, at, w), at)
        BY <4>1, <4>3 DEF Swept
      <4> QED
        BY <2>2, <4>2, <4>4
    <3>3. CASE rows[i].status \notin {"reserved", "signed", "submitted"}
      <4>1. ms[i] = rows[i]
        BY <3>3 DEF MarkedUnknown
      <4> HIDE DEF ms
      <4>2. rows[i].principal \in Principals
        BY <3>1 DEF RowOK, Row
      <4>3. ss[i] = ExpiredRow(ExtendedRow(rows[i], at, w), at)
        BY <2>2, <4>1, <4>2 DEF Swept
      <4> QED
        BY <2>2, <3>1, <4>3, SweptRowMoves
    <3> QED
      BY <3>2, <3>3
  <2> QED
    BY <2>1, <2>2
<1>2. ss = [i \in Ids |-> ss[i]]
  BY DEF Swept
<1> HIDE DEF ss
<1>3. \A i \in Ids : rows[i] # None => ss[i] \in Row /\ RowOK(ss[i])
  BY <1>1 DEF RowMoves, RowOK
<1>4. ss \in [Ids -> Row \cup {None}]
  BY <1>1, <1>2, <1>3
<1> QED
  BY <1>1, <1>3, <1>4, RowsAreStored DEF TableMoves, TableOK, Stored, ss

\* Pruning takes out closed rows that no allowed window can count, and the
\* ledger does not see it.
LEMMA PruningIsInvisible ==
  ASSUME IInv, NEW at \in Nat, at <= now, NEW ss, TableMoves(ss)
  PROVE  LET ks == PruneExpiredData(ss, at)
             ps == Forgotten(ss, at)
         IN /\ TableOK(ks)
            /\ PrunedOK(ks, ps)
            /\ EntriesOf(ks, ps) \in Ledger!Entries
            /\ \A i \in Ids : Ledger!Moves(LedgerEntries[i], EntriesOf(ks, ps)[i])
<1> DEFINE ks == PruneExpiredData(ss, at)
           ps == Forgotten(ss, at)
<1>1. /\ now \in Nat /\ ceiling \in Ceilings \cup {None}
      /\ TableOK(rows) /\ PrunedOK(rows, pruned)
  BY DEF IInv, SchemaOK
<1>2. TableOK(ks)
  BY DEF TableMoves, TableOK, Stored, PruneExpiredData
<1>3. ASSUME NEW i \in Ids, Prunable(ss[i], at)
      PROVE  /\ ps[i] \in Ledger!Entry /\ ps[i] # None
             /\ ks[i] = None
             /\ ps[i] = LedgerEntry(ss[i])
             /\ ps[i].state \in {"spent", "void"}
             /\ ps[i].state = "spent" =>
                  /\ ps[i].spentAt \in Nat
                  /\ \A w \in {w \in Windows : AssertWindowAllowed(w)} :
                       ps[i].spentAt <= now - Greatest(ps[i].window, w)
  <2>1. RowOK(ss[i]) /\ ss[i] \in Row
    BY <1>3 DEF TableMoves, TableOK, Stored, Prunable, RowOK
  <2>2. ks[i] = None /\ ps[i] = LedgerEntry(ss[i])
    BY <1>3 DEF PruneExpiredData, Forgotten
  <2>3. /\ ps[i] \in Ledger!Entry /\ ps[i] # None
        /\ ps[i].window = ss[i].window /\ ps[i].spentAt = ss[i].settledAt
        /\ ps[i].state = LedgerState(ss[i])
    BY <2>1, <2>2, EntryOfRow
  <2>4. CASE ss[i].status \in {"expired", "released"}
    BY <2>1, <2>2, <2>3, <2>4, LedgerStates
  <2>5. CASE ss[i].status = "settled" /\ SettledLongAgo(ss[i], at)
    <3>1. ps[i].state = "spent" /\ ps[i].spentAt \in Nat
      BY <1>1, <2>1, <2>3, <2>5, LedgerStates DEF RowOK
    <3>2. ceiling \in Nat /\ ss[i].window \in Nat
      BY <1>1, <2>1, <2>5, Numbers DEF SettledLongAgo, Row
    <3>3. \A w \in Windows : AssertWindowAllowed(w) => w \in Nat /\ w <= ceiling
      BY <2>5, Numbers DEF AssertWindowAllowed, SettledLongAgo
    <3>4. ps[i].spentAt <= at - Greatest(ps[i].window, ceiling)
      BY <2>3, <2>5 DEF SettledLongAgo
    <3> HIDE DEF ps
    <3>5. \A w \in {w \in Windows : AssertWindowAllowed(w)} :
            ps[i].spentAt <= now - Greatest(ps[i].window, w)
      BY <1>1, <2>3, <3>1, <3>2, <3>3, <3>4
    <3> QED
      BY <2>2, <2>3, <3>1, <3>5
  <2> QED
    BY <1>3, <2>4, <2>5 DEF Prunable, ClosedLongAgo, SettledLongAgo
<1>4. ASSUME NEW i \in Ids, ~Prunable(ss[i], at)
      PROVE  ks[i] = ss[i] /\ ps[i] = pruned[i]
  BY <1>4 DEF PruneExpiredData, Forgotten
<1>5. /\ pruned \in Ledger!Entries
      /\ \A i \in Stored(pruned) :
           /\ ss[i] = None
           /\ pruned[i].state \in {"spent", "void"}
           /\ pruned[i].state = "spent" =>
                /\ pruned[i].spentAt \in Nat
                /\ \A w \in {w \in Windows : AssertWindowAllowed(w)} :
                     pruned[i].spentAt <= now - Greatest(pruned[i].window, w)
  BY <1>1 DEF PrunedOK, TableMoves, Stored
<1>6. ps = [i \in Ids |-> ps[i]]
  BY DEF Forgotten
<1> HIDE DEF ks, ps
<1>7. PrunedOK(ks, ps)
  <2>1. ps \in Ledger!Entries
    BY <1>3, <1>4, <1>5, <1>6 DEF Ledger!Entries
  <2>2. ASSUME NEW i \in Stored(ps)
        PROVE  /\ ks[i] = None
               /\ ps[i].state \in {"spent", "void"}
               /\ ps[i].state = "spent" =>
                    /\ ps[i].spentAt \in Nat
                    /\ \A w \in {w \in Windows : AssertWindowAllowed(w)} :
                         ps[i].spentAt <= now - Greatest(ps[i].window, w)
    <3>1. i \in Ids /\ ps[i] # None
      BY DEF Stored
    <3>2. CASE Prunable(ss[i], at)
      BY <1>3, <3>1, <3>2
    <3>3. CASE ~Prunable(ss[i], at)
      <4>1. ks[i] = ss[i] /\ ps[i] = pruned[i]
        BY <1>4, <3>1, <3>3
      <4>2. i \in Stored(pruned)
        BY <3>1, <4>1 DEF Stored
      <4> QED
        BY <1>5, <4>1, <4>2
    <3> QED
      BY <3>2, <3>3
  <2> QED
    BY <2>1, <2>2 DEF PrunedOK
<1>8. ASSUME NEW i \in Ids
      PROVE  /\ EntriesOf(ks, ps)[i] = IF ss[i] # None THEN LedgerEntry(ss[i])
                                       ELSE pruned[i]
             /\ Ledger!Moves(LedgerEntries[i], EntriesOf(ks, ps)[i])
             /\ EntriesOf(ks, ps)[i] \in Ledger!Entry \cup {None}
  <2>1. EntriesOf(ks, ps)[i] = IF ss[i] # None THEN LedgerEntry(ss[i]) ELSE pruned[i]
    BY <1>3, <1>4 DEF EntriesOf, Prunable
  <2>2. CASE ss[i] = None
    <3>1. rows[i] = None
      BY <2>2 DEF TableMoves
    <3>2. LedgerEntries[i] = pruned[i] /\ EntriesOf(ks, ps)[i] = pruned[i]
      BY <2>1, <2>2, <3>1 DEF LedgerEntries
    <3>3. pruned[i] \in Ledger!Entry \cup {None}
      BY <1>5 DEF Ledger!Entries
    <3> QED
      BY <2>1, <3>2, <3>3 DEF Ledger!Moves
  <2>3. CASE ss[i] # None
    <3>1. rows[i] # None /\ i \in Stored(rows) /\ i \in Stored(ss)
      BY <2>3 DEF TableMoves, Stored
    <3>2. RowMoves(rows[i], ss[i]) /\ RowOK(ss[i])
      BY <3>1 DEF TableMoves, RowMoves
    <3>3. LedgerEntries[i] = LedgerEntry(rows[i])
      BY <3>1 DEF LedgerEntries
    <3>4. EntriesOf(ks, ps)[i] = LedgerEntry(ss[i])
      BY <2>1, <2>3
    <3>5. LedgerEntry(ss[i]) \in Ledger!Entry
      BY <3>2, EntryOfRow
    <3>6. Ledger!Moves(LedgerEntry(rows[i]), LedgerEntry(ss[i]))
      BY <3>2 DEF RowMoves
    <3> QED
      BY <2>1, <3>3, <3>4, <3>5, <3>6
  <2> QED
    BY <2>2, <2>3
<1>9. EntriesOf(ks, ps) \in Ledger!Entries
  <2>1. EntriesOf(ks, ps) = [i \in Ids |-> EntriesOf(ks, ps)[i]]
    BY DEF EntriesOf
  <2> HIDE DEF EntriesOf
  <2> QED
    BY <1>8, <2>1 DEF Ledger!Entries
<1> QED
  BY <1>2, <1>7, <1>8, <1>9 DEF ks, ps

-----------------------------------------------------------------------------
(* Accounting.                                                             *)

\* The rows whose amounts Committed sums up.
CountedRows(rs, p, ms, at, w) ==
  {i \in AccountingRows(rs, p, ms) :
     rs[i].status = "settled" => rs[i].settledAt > at - Greatest(rs[i].window, w)}

\* The instance of the ledger counts as this module does.
LEMMA SameCardinality == \A S : Ledger!Cardinality(S) = Cardinality(S)
BY DEF Ledger!Cardinality, Cardinality

\* The units of a set of rows are finitely many.
LEMMA UnitsFinite ==
  ASSUME NEW rs, NEW is \in SUBSET Ids
  PROVE  IsFiniteSet(Units(rs, is)) /\ Cardinality(Units(rs, is)) \in Nat
<1>1. IsFiniteSet(is)
  BY SqliteIdsFinite, FS_Subset
<1>2. IsFiniteSet(1..MaxAmount)
  BY Numbers, FS_Interval
<1>3. IsFiniteSet(is \X (1..MaxAmount))
  BY <1>1, <1>2, FS_Product
<1>4. Units(rs, is) \in SUBSET (is \X (1..MaxAmount))
  BY DEF Units
<1>5. IsFiniteSet(Units(rs, is))
  BY <1>3, <1>4, FS_Subset
<1> QED
  BY <1>5, FS_CardinalityType

\* One row has as many units as its amount says.
LEMMA UnitsOfOneRow ==
  ASSUME NEW n, NEW a \in Nat
  PROVE  IsFiniteSet({n} \X (1..a)) /\ Cardinality({n} \X (1..a)) = a
<1>1. IsFiniteSet({n}) /\ Cardinality({n}) = 1
  BY FS_Singleton
<1>2. /\ IsFiniteSet(1..a)
      /\ Cardinality(1..a) = IF 1 > a THEN 0 ELSE a - 1 + 1
  BY FS_Interval
<1>3. Cardinality(1..a) = a
  BY <1>2
<1>4. /\ IsFiniteSet({n} \X (1..a))
      /\ Cardinality({n} \X (1..a)) = Cardinality({n}) * Cardinality(1..a)
  BY <1>1, <1>2, FS_Product
<1> QED
  BY <1>1, <1>3, <1>4

\* The entries that weigh, but for a new one, are among the rows counted: then
\* their sum is at most what was committed and the new amount.
LEMMA SumWithNew ==
  ASSUME NEW es, NEW rs, NEW is \in SUBSET Ids, NEW js \in SUBSET Ids,
         NEW n \in Ids, es[n].amount \in 0..MaxAmount,
         \A j \in js \ {n} : j \in is /\ rs[j].amount = es[j].amount
  PROVE  Ledger!Sum(es, js) <= Cardinality(Units(rs, is)) + es[n].amount
<1> DEFINE a == es[n].amount
           new == {n} \X (1..a)
           old == Units(rs, is)
<1>1. Units(es, js) \in SUBSET (old \cup new)
  <2> SUFFICES ASSUME NEW u \in Units(es, js), u \notin old
               PROVE  u \in new
    OBVIOUS
  <2>1. /\ u = <<u[1], u[2]>> /\ u[1] \in js /\ u[2] \in 1..MaxAmount
        /\ u[2] <= es[u[1]].amount
    BY DEF Units
  <2>2. u[1] = n
    BY <2>1 DEF Units
  <2> QED
    BY <2>1, <2>2, Numbers
<1>2. IsFiniteSet(old) /\ Cardinality(old) \in Nat
  BY UnitsFinite
<1>3. IsFiniteSet(new) /\ Cardinality(new) = a
  <2>1. a \in Nat
    BY Numbers
  <2> HIDE DEF a
  <2> QED
    BY <2>1, UnitsOfOneRow
<1>4. /\ IsFiniteSet(old \cup new)
      /\ Cardinality(old \cup new) = Cardinality(old) + Cardinality(new)
                                     - Cardinality(old \cap new)
  BY <1>2, <1>3, FS_Union
<1>5. Cardinality(old \cap new) \in Nat
  BY <1>2, FS_Intersection, FS_CardinalityType
<1>6. Cardinality(Units(es, js)) <= Cardinality(old \cup new)
  BY <1>1, <1>4, FS_Subset
<1>7. Cardinality(Units(es, js)) \in Nat
  BY UnitsFinite
<1>8. Ledger!Sum(es, js) = Cardinality(Units(es, js))
  BY SameCardinality DEF Ledger!Sum, Units
<1> QED
  BY <1>2, <1>3, <1>4, <1>5, <1>6, <1>7, <1>8, Numbers

\* What the ledger weighs at the clock, the transaction has counted at its own
\* instant: the deleted rows weigh nothing in a window that is allowed.
LEMMA WeighingIsCounted ==
  ASSUME now \in Nat, NEW at \in Nat, at <= now, NEW w \in Windows,
         AssertWindowAllowed(w), NEW ks, TableOK(ks), NEW ps, PrunedOK(ks, ps),
         NEW es, NEW n \in Ids, \A j \in Ids \ {n} : es[j] = EntriesOf(ks, ps)[j],
         NEW p, NEW ms, NEW j \in Ledger!Weighing(es, p, ms, w), j # n
  PROVE  j \in CountedRows(ks, p, ms, at, w) /\ ks[j].amount = es[j].amount
<1>1. /\ j \in Ids /\ es[j] # None
      /\ es[j].principal = p /\ es[j].mandate \in ms
      /\ Ledger!Weighs(es[j], w)
      /\ es[j] = IF ks[j] # None THEN LedgerEntry(ks[j]) ELSE ps[j]
  BY DEF Ledger!Weighing, EntriesOf
<1>2. w \in Nat
  BY Numbers
<1>3. CASE ks[j] # None
  <2>1. /\ j \in Stored(ks) /\ RowOK(ks[j]) /\ ks[j] \in Row /\ ks[j].window \in Nat
        /\ es[j] = LedgerEntry(ks[j])
    BY <1>1, <1>3, Numbers DEF Stored, TableOK, RowOK, Row
  <2>2. /\ es[j].principal = ks[j].principal /\ es[j].mandate = ks[j].mandate
        /\ es[j].amount = ks[j].amount /\ es[j].window = ks[j].window
        /\ es[j].state = LedgerState(ks[j]) /\ es[j].spentAt = ks[j].settledAt
    BY <2>1, EntryOfRow
  <2>3. CASE es[j].state \in Ledger!Open
    <3>1. ks[j].status \in Pending
      BY <2>1, <2>2, <2>3, LedgerStates DEF Ledger!Open
    <3>2. ks[j].status # "settled"
      BY <3>1 DEF Pending, Uncertain
    <3> QED
      BY <1>1, <2>1, <2>2, <3>1, <3>2 DEF CountedRows, AccountingRows
  <2>4. CASE es[j].state = "spent" /\ es[j].spentAt > now - Ledger!Longer(es[j].window, w)
    <3>0. ks[j].status = "settled"
      BY <2>1, <2>2, <2>4, LedgerStates
    <3>1. ks[j].settledAt \in Nat
      BY <2>1, <3>0 DEF RowOK
    <3>2. ks[j].settledAt > at - Greatest(ks[j].window, w)
      BY <1>2, <2>1, <2>2, <2>4, <3>1 DEF Ledger!Longer
    <3> QED
      BY <1>1, <2>1, <2>2, <3>0, <3>2 DEF CountedRows, AccountingRows
  <2> QED
    BY <1>1, <2>3, <2>4 DEF Ledger!Weighs
<1>4. CASE ks[j] = None
  <2>1. j \in Stored(ps) /\ es[j] = ps[j]
    BY <1>1, <1>4 DEF Stored
  <2>2. /\ ps[j].state = "spent" /\ ps[j].spentAt \in Nat
        /\ ps[j].spentAt <= now - Greatest(ps[j].window, w)
    BY <1>1, <2>1 DEF PrunedOK, Ledger!Weighs, Ledger!Open
  <2>3. ps[j].spentAt > now - Ledger!Longer(ps[j].window, w)
    BY <1>1, <2>1, <2>2 DEF Ledger!Weighs, Ledger!Open
  <2>4. ps[j].window \in Nat
    BY <1>1, <2>1 DEF PrunedOK, Ledger!Entries, Ledger!Entry
  <2> QED
    BY <1>2, <2>2, <2>3, <2>4 DEF Ledger!Longer
<1> QED
  BY <1>3, <1>4

\* A request that the transaction admits fits the caps of the ledger.
LEMMA AdmittedFits ==
  ASSUME now \in Nat, NEW at \in Nat, at <= now, NEW q \in Request,
         AssertWindowAllowed(q.window),
         NEW ks, TableOK(ks), NEW ps, PrunedOK(ks, ps), Admits(ks, q, at),
         NEW es, NEW n \in Ids, \A j \in Ids \ {n} : es[j] = EntriesOf(ks, ps)[j],
         es[n].principal = q.principal, es[n].mandate = q.mandate,
         es[n].amount = q.amount, es[n].window = q.window
  PROVE  Ledger!FitsCaps(es, es[n])
<1>1. q.window \in Windows /\ q.amount \in 0..MaxAmount /\ q.amount \in Nat
  BY Numbers DEF Request
<1>2. ASSUME NEW ms
      PROVE  /\ Ledger!Sum(es, Ledger!Weighing(es, q.principal, ms, q.window))
                  <= Committed(ks, q.principal, ms, at, q.window) + q.amount
             /\ Ledger!Sum(es, Ledger!Weighing(es, q.principal, ms, q.window)) \in Nat
             /\ Committed(ks, q.principal, ms, at, q.window) \in Nat
  <2> DEFINE js == Ledger!Weighing(es, q.principal, ms, q.window)
             is == CountedRows(ks, q.principal, ms, at, q.window)
  <2>1. js \in SUBSET Ids /\ is \in SUBSET Ids
    BY DEF Ledger!Weighing, CountedRows, AccountingRows, Stored
  <2>2. \A j \in js \ {n} : j \in is /\ ks[j].amount = es[j].amount
    BY <1>1, WeighingIsCounted
  <2>3. Committed(ks, q.principal, ms, at, q.window) = Cardinality(Units(ks, is))
    BY DEF Committed, CountedRows
  <2> HIDE DEF js, is
  <2>4. Ledger!Sum(es, js) <= Cardinality(Units(ks, is)) + q.amount
    BY <1>1, <2>1, <2>2, SumWithNew
  <2>5. Ledger!Sum(es, js) = Cardinality(Units(es, js))
    BY SameCardinality DEF Ledger!Sum, Units
  <2> QED
    BY <2>1, <2>3, <2>4, <2>5, UnitsFinite DEF js
<1>3. /\ Committed(ks, q.principal, {q.mandate}, at, q.window) + q.amount <= Cap
      /\ Committed(ks, q.principal, Mandates, at, q.window) + q.amount <= AggregateCap
  BY DEF Admits
<1> QED
  BY <1>1, <1>2, <1>3, Numbers DEF Ledger!FitsCaps

-----------------------------------------------------------------------------
(* Steps.                                                                  *)

\* The conjuncts of the invariant.
LEMMA InvParts ==
  ASSUME IInv
  PROVE  /\ now \in Nat /\ dedup \in [Keys -> Nat \cup {None}]
         /\ ceiling \in Ceilings \cup {None}
         /\ TableOK(rows) /\ PrunedOK(rows, pruned)
         /\ LedgerEntries \in Ledger!Entries
<1>1. /\ now \in Nat /\ dedup \in [Keys -> Nat \cup {None}]
      /\ ceiling \in Ceilings \cup {None}
      /\ TableOK(rows) /\ PrunedOK(rows, pruned)
  BY DEF IInv, SchemaOK
<1>2. \A i \in Ids : rows[i] # None => LedgerEntry(rows[i]) \in Ledger!Entry
  BY <1>1, EntryOfRow DEF TableOK, Stored
<1>3. LedgerEntries \in Ledger!Entries
  BY <1>1, <1>2 DEF LedgerEntries, Ledger!Entries, PrunedOK
<1> QED
  BY <1>1, <1>3

\* Keys that are left over from pruning have their type.
LEMMA KeysTyped ==
  ASSUME dedup \in [Keys -> Nat \cup {None}], NEW at \in Nat, NEW k \in Keys
  PROVE  /\ KeysLeft(at) \in [Keys -> Nat \cup {None}]
         /\ Insert(KeysLeft(at), k, at) \in [Keys -> Nat \cup {None}]
<1>1. KeysLeft(at) \in [Keys -> Nat \cup {None}]
  BY DEF KeysLeft
<1>2. at + Ttl \in Nat
  BY Numbers
<1> QED
  BY <1>1, <1>2 DEF Insert

\* A transition of one row.
LEMMA TransitionSteps ==
  ASSUME IInv, NEW i \in Ids, NEW from, NEW s, Transition(i, from, s),
         RowMoves(rows[i], s)
  PROVE  IInv' /\ Ledger!Amend
<1>1. /\ i \in Stored(rows) /\ rows[i] # None
      /\ rows' = [rows EXCEPT ![i] = s]
      /\ UNCHANGED <<file, dedup, ceiling, open, pruned, now>>
  BY DEF Transition, Stored
<1>2. /\ TableOK(rows) /\ PrunedOK(rows, pruned) /\ LedgerEntries \in Ledger!Entries
  BY InvParts
<1>3. RowOK(s) /\ s \in Row /\ s # None
  BY RowsAreStored DEF RowMoves, RowOK
<1>4. TableOK(rows)'
  BY <1>1, <1>2, <1>3 DEF TableOK, RowOK, Stored
<1>5. PrunedOK(rows, pruned)'
  BY <1>1, <1>2 DEF PrunedOK, Stored, AssertWindowAllowed
<1>6. SchemaOK'
  BY <1>1 DEF IInv, SchemaOK
<1>7. /\ LedgerEntries' = [LedgerEntries EXCEPT ![i] = LedgerEntry(s)]
      /\ LedgerEntries[i] = LedgerEntry(rows[i])
      /\ LedgerEntry(s) \in Ledger!Entry
  BY <1>1, <1>2, <1>3, EntryOfRow DEF LedgerEntries, TableOK
<1>8. LedgerEntries' \in Ledger!Entries
  BY <1>2, <1>7 DEF Ledger!Entries
<1>9. \A j \in Ids : Ledger!Moves(LedgerEntries[j], LedgerEntries'[j])
  <2>1. Ledger!Moves(LedgerEntry(rows[i]), LedgerEntry(s))
    BY DEF RowMoves
  <2>2. \A e : Ledger!Moves(e, e)
    BY DEF Ledger!Moves
  <2>3. \A j \in Ids \ {i} : LedgerEntries'[j] = LedgerEntries[j]
    BY <1>2, <1>7 DEF Ledger!Entries
  <2>4. LedgerEntries'[i] = LedgerEntry(s)
    BY <1>2, <1>7 DEF Ledger!Entries
  <2> QED
    BY <1>7, <2>1, <2>2, <2>3, <2>4
<1> QED
  BY <1>1, <1>4, <1>5, <1>6, <1>8, <1>9 DEF IInv, Ledger!Amend

\* A transaction that moves rows and prunes, and inserts none.
LEMMA PruningSteps ==
  ASSUME IInv, NEW at \in Nat, at <= now, NEW ss, TableMoves(ss),
         rows' = PruneExpiredData(ss, at), pruned' = Forgotten(ss, at),
         dedup' \in [Keys -> Nat \cup {None}], UNCHANGED <<file, ceiling, open, now>>
  PROVE  IInv' /\ Ledger!Amend
<1>1. /\ TableOK(rows')
      /\ PrunedOK(rows', pruned')
      /\ EntriesOf(rows', pruned') \in Ledger!Entries
      /\ \A i \in Ids : Ledger!Moves(LedgerEntries[i], EntriesOf(rows', pruned')[i])
  BY PruningIsInvisible
<1>2. LedgerEntries' = EntriesOf(rows', pruned')
  BY DEF LedgerEntries, EntriesOf
<1>3. SchemaOK'
  BY DEF IInv, SchemaOK
<1>4. TableOK(rows)'
  BY <1>1 DEF TableOK, RowOK
<1>5. PrunedOK(rows, pruned)'
  BY <1>1 DEF PrunedOK, AssertWindowAllowed
<1> QED
  BY <1>1, <1>2, <1>3, <1>4, <1>5 DEF IInv, Ledger!Amend

\* A request that is admitted.
LEMMA InsertSteps ==
  ASSUME IInv, NEW q \in Request, NEW at \in Nat, at <= now,
         AssertWindowAllowed(q.window), NEW ss, TableMoves(ss),
         Admits(PruneExpiredData(ss, at), q, at), NEW i \in FreshIds,
         rows' = [PruneExpiredData(ss, at) EXCEPT ![i] = Inserted(q, at)],
         pruned' = Forgotten(ss, at),
         dedup' \in [Keys -> Nat \cup {None}], UNCHANGED <<file, ceiling, open, now>>
  PROVE  IInv' /\ Ledger!Post(i)
<1> DEFINE ks == PruneExpiredData(ss, at)
           r == Inserted(q, at)
<1>1. /\ TableOK(ks) /\ PrunedOK(ks, pruned')
      /\ EntriesOf(ks, pruned') \in Ledger!Entries
      /\ \A j \in Ids : Ledger!Moves(LedgerEntries[j], EntriesOf(ks, pruned')[j])
  BY PruningIsInvisible
<1>2. /\ i \in Ids /\ rows[i] = None /\ pruned[i] = None /\ ss[i] = None
      /\ pruned'[i] = None
  BY DEF FreshIds, TableMoves, Forgotten, Prunable
<1>3. /\ q.window \in Windows /\ q.window \in Nat /\ q.validity \in Nat
      /\ q.amount \in 0..MaxAmount /\ q.principal \in Principals
      /\ q.mandate \in Mandates /\ q.payee \in Payees
  BY Numbers DEF Request
<1>4. /\ RowOK(r) /\ r \in Row /\ r # None
      /\ r.principal = q.principal /\ r.mandate = q.mandate /\ r.amount = q.amount
      /\ r.window = q.window /\ r.status = "reserved"
  <2>1. at + q.validity \in Nat /\ at + q.validity + q.window \in Nat
    BY <1>3
  <2>2. r \in Row
    BY <1>3, <2>1 DEF Inserted, Row, Pending
  <2>3. RowOK(r)
    BY <1>3, <2>1, <2>2 DEF Inserted, RowOK
  <2> QED
    BY <2>2, <2>3, RowsAreStored DEF Inserted
<1>5. rows' = [ks EXCEPT ![i] = r] /\ UNCHANGED now
  OBVIOUS
<1> HIDE DEF ks, r
<1>6. ks \in [Ids -> Row \cup {None}]
  BY <1>1 DEF TableOK
<1>7. TableOK(rows)'
  BY <1>1, <1>4, <1>5, <1>6 DEF TableOK, RowOK, Stored
<1>8. PrunedOK(rows, pruned)'
  BY <1>1, <1>2, <1>5, <1>6 DEF PrunedOK, AssertWindowAllowed, Stored
<1>9. SchemaOK'
  BY DEF IInv, SchemaOK
<1>10. /\ \A j \in Ids \ {i} : LedgerEntries'[j] = EntriesOf(ks, pruned')[j]
       /\ LedgerEntries'[i] = LedgerEntry(r)
  BY <1>2, <1>4, <1>5, <1>6 DEF LedgerEntries, EntriesOf
<1>11. LedgerEntry(r) \in Ledger!Entry /\ LedgerEntry(r) # None
  BY <1>4, EntryOfRow
<1>12. LedgerEntries' \in Ledger!Entries
  <2>1. LedgerEntries' = [j \in Ids |-> LedgerEntries'[j]]
    BY DEF LedgerEntries
  <2>2. \A j \in Ids : LedgerEntries'[j] \in Ledger!Entry \cup {None}
    BY <1>1, <1>10, <1>11 DEF Ledger!Entries
  <2> QED
    BY <2>1, <2>2 DEF Ledger!Entries
<1>13. LedgerEntries'[i].state = "reserved"
  BY <1>4, <1>10, LedgerStates, EntryOfRow
<1>14. Ledger!FitsCaps(LedgerEntries', LedgerEntries'[i])
  <2> DEFINE es == LedgerEntries'
             ps == pruned'
  <2>1. /\ \A j \in Ids \ {i} : es[j] = EntriesOf(ks, ps)[j]
        /\ es[i].principal = q.principal /\ es[i].mandate = q.mandate
        /\ es[i].amount = q.amount /\ es[i].window = q.window
    BY <1>4, <1>10, EntryOfRow
  <2>2. now \in Nat /\ TableOK(ks) /\ PrunedOK(ks, ps) /\ Admits(ks, q, at)
    BY <1>1, InvParts DEF ks
  <2> HIDE DEF es, ps
  <2>3. Ledger!FitsCaps(es, es[i])
    BY <1>2, <2>1, <2>2, AdmittedFits
  <2> QED
    BY <2>3 DEF es
<1>15. LedgerEntries[i] = None
  BY <1>2 DEF LedgerEntries
<1> QED
  BY <1>1, <1>7, <1>8, <1>9, <1>10, <1>11, <1>12, <1>13, <1>14, <1>15
  DEF IInv, Ledger!Post

\* Signing moves a row: both deadlines cover the authorization really signed.
LEMMA SignedRowMoves ==
  ASSUME now \in Nat, NEW r, RowOK(r), r.status = "reserved", NEW at \in Nat,
         NEW safe \in Int, NEW f \in Refs
  PROVE  RowMoves(r, SignedRow(r, at, safe, f))
<1> DEFINE d == Greatest(r.safe, safe)
           v == Greatest(r.recovery, safe + r.window)
           n == Greatest(r.updated, at)
           g == IF f = None THEN r.ref ELSE f
           s == SignedRow(r, at, safe, f)
<1>1. /\ r \in Row /\ r.safe \in Nat /\ r.recovery \in Nat /\ r.window \in Nat
      /\ r.updated \in Nat /\ r.ref \in Refs \cup {None} /\ r.settledAt = None
      /\ r.recovery >= r.safe + r.window
  BY Numbers DEF RowOK, Row, Pending
<1>2. /\ d \in Nat /\ d >= r.safe /\ v \in Nat /\ v >= d + r.window /\ n \in Nat
      /\ g \in Refs \cup {None}
  BY <1>1
<1>3. s = [r EXCEPT !.status = "signed", !.safe = d, !.recovery = v, !.ref = g,
                    !.updated = n]
  BY <1>1 DEF SignedRow, Row
<1> HIDE DEF d, v, n, g, s
<1>4. s \in Row
  BY <1>1, <1>2, <1>3 DEF Row, Pending, Uncertain
<1>5. /\ s.principal = r.principal /\ s.mandate = r.mandate /\ s.amount = r.amount
      /\ s.window = r.window /\ s.safe = d /\ s.recovery = v /\ s.status = "signed"
      /\ s.settledAt = None
  BY <1>1, <1>3 DEF Row
<1>6. RowOK(s)
  BY <1>2, <1>4, <1>5 DEF RowOK
<1> QED
  BY <1>2, <1>5, <1>6, SamePayment DEF s, Uncertain

\* So do a release, a settlement and a lost response.
LEMMA ClosedRowMoves ==
  ASSUME now \in Nat, NEW r, RowOK(r), NEW at \in Nat, at <= now
  PROVE  /\ r.status = "reserved" =>
              RowMoves(r, [r EXCEPT !.status = "released", !.updated = Greatest(@, at)])
         /\ r.status = "signed" =>
              RowMoves(r, [r EXCEPT !.status = "settled", !.settledAt = at,
                                    !.updated = Greatest(@, at)])
         /\ r.status = "signed" =>
              RowMoves(r, [r EXCEPT !.status = "unknown", !.updated = Greatest(@, at)])
<1> DEFINE n == Greatest(r.updated, at)
<1>1. /\ r \in Row /\ r.safe \in Nat /\ r.updated \in Nat /\ n \in Nat
      /\ r.recovery >= r.safe + r.window
  BY DEF RowOK, Row
<1>2. ASSUME r.status = "reserved"
      PROVE  RowMoves(r, [r EXCEPT !.status = "released", !.updated = n])
  <2> DEFINE s == [r EXCEPT !.status = "released", !.updated = n]
  <2> HIDE DEF n
  <2>1. s \in Row /\ s.status = "released"
    BY <1>1 DEF Row
  <2>2. /\ s.principal = r.principal /\ s.mandate = r.mandate /\ s.amount = r.amount
        /\ s.window = r.window /\ s.safe = r.safe /\ s.settledAt = r.settledAt
        /\ s.recovery = r.recovery
    BY <1>1 DEF Row
  <2> HIDE DEF s
  <2>3. RowOK(s)
    BY <1>1, <2>1, <2>2 DEF RowOK, Pending, Uncertain
  <2>4. RowMoves(r, s)
    BY <1>1, <1>2, <2>1, <2>2, <2>3, SamePayment
  <2> QED
    BY <2>4 DEF s
<1>3. ASSUME r.status = "signed"
      PROVE  RowMoves(r, [r EXCEPT !.status = "settled", !.settledAt = at, !.updated = n])
  <2> DEFINE s == [r EXCEPT !.status = "settled", !.settledAt = at, !.updated = n]
  <2> HIDE DEF n
  <2>1. s \in Row /\ s.status = "settled" /\ s.settledAt = at
    BY <1>1 DEF Row
  <2>2. /\ s.principal = r.principal /\ s.mandate = r.mandate /\ s.amount = r.amount
        /\ s.window = r.window /\ s.safe = r.safe /\ s.recovery = r.recovery
    BY <1>1 DEF Row
  <2> HIDE DEF s
  <2>3. RowOK(s)
    BY <1>1, <2>1, <2>2 DEF RowOK, Pending, Uncertain
  <2>4. RowMoves(r, s)
    BY <1>1, <1>3, <2>1, <2>2, <2>3, SamePayment DEF Uncertain
  <2> QED
    BY <2>4 DEF s
<1>4. ASSUME r.status = "signed"
      PROVE  RowMoves(r, [r EXCEPT !.status = "unknown", !.updated = n])
  <2> DEFINE s == [r EXCEPT !.status = "unknown", !.updated = n]
  <2> HIDE DEF n
  <2>1. s \in Row /\ s.status = "unknown"
    BY <1>1 DEF Row, Pending, Uncertain
  <2>2. /\ s.principal = r.principal /\ s.mandate = r.mandate /\ s.amount = r.amount
        /\ s.window = r.window /\ s.safe = r.safe /\ s.settledAt = r.settledAt
        /\ s.recovery = r.recovery
    BY <1>1 DEF Row
  <2> HIDE DEF s
  <2>3. RowOK(s)
    BY <1>1, <1>4, <2>1, <2>2 DEF RowOK, Pending, Uncertain
  <2>4. LedgerState(s) = LedgerState(r)
    BY <1>1, <1>4, <2>1, LedgerStates DEF Uncertain
  <2>5. RowMoves(r, s)
    BY <1>1, <2>2, <2>3, <2>4, SamePayment
  <2> QED
    BY <2>5 DEF s
<1>5. /\ [r EXCEPT !.status = "released", !.updated = Greatest(@, at)]
           = [r EXCEPT !.status = "released", !.updated = n]
      /\ [r EXCEPT !.status = "settled", !.settledAt = at, !.updated = Greatest(@, at)]
           = [r EXCEPT !.status = "settled", !.settledAt = at, !.updated = n]
      /\ [r EXCEPT !.status = "unknown", !.updated = Greatest(@, at)]
           = [r EXCEPT !.status = "unknown", !.updated = n]
  BY <1>1 DEF Row
<1> QED
  BY <1>2, <1>3, <1>4, <1>5

\* A request: admitted, or refused after its sweep.
LEMMA TryReserveSteps ==
  ASSUME IInv, NEW q \in Request, NEW at \in Readings, TryReserve(q, at)
  PROVE  IInv' /\ Ledger!LedgerNext
<1> DEFINE ss == Swept(rows, {q.principal}, at, q.window)
           ks == PruneExpiredData(ss, at)
<1>1. /\ now \in Nat /\ at \in Nat /\ at <= now /\ q.window \in Nat
      /\ TableOK(rows) /\ dedup \in [Keys -> Nat \cup {None}]
  BY InvParts, ReadingsAreInstants, Numbers DEF Request
<1>2. TableMoves(ss)
  BY <1>1, SweptTableMoves
<1>3. /\ AssertWindowAllowed(q.window)
      /\ pruned' = Forgotten(ss, at)
      /\ dedup' = KeysLeft(at)
      /\ UNCHANGED <<file, ceiling, open, now>>
  BY DEF TryReserve
<1>4. dedup' \in [Keys -> Nat \cup {None}]
  BY <1>1, <1>3 DEF KeysLeft
<1>5. \/ Admits(ks, q, at) /\ \E i \in FreshIds : rows' = [ks EXCEPT ![i] = Inserted(q, at)]
      \/ rows' = ks
  BY DEF TryReserve
<1> HIDE DEF ss
<1>6. ASSUME Admits(ks, q, at), NEW i \in FreshIds,
             rows' = [ks EXCEPT ![i] = Inserted(q, at)]
      PROVE  IInv' /\ Ledger!LedgerNext
  <2>1. IInv' /\ Ledger!Post(i)
    BY <1>1, <1>2, <1>3, <1>4, <1>6, InsertSteps
  <2>2. i \in Ids
    BY DEF FreshIds
  <2> QED
    BY <2>1, <2>2 DEF Ledger!LedgerNext
<1>7. ASSUME rows' = ks
      PROVE  IInv' /\ Ledger!LedgerNext
  BY <1>1, <1>2, <1>3, <1>4, <1>7, PruningSteps DEF Ledger!LedgerNext
<1> QED
  BY <1>5, <1>6, <1>7

\* The other transactions that prune: reconciliation, recovery, a dedup key.
LEMMA SweepSteps ==
  ASSUME IInv, NEW at \in Readings
  PROVE  /\ \A w \in Windows : ReleaseExpired(at, w) => IInv' /\ Ledger!Amend
         /\ \A w \in Windows : RecoverAfterRestart(at, w) => IInv' /\ Ledger!Amend
         /\ \A k \in Keys : PutIfAbsent(k, at) => IInv' /\ Ledger!Amend
<1>1. /\ now \in Nat /\ at \in Nat /\ at <= now
      /\ TableOK(rows) /\ dedup \in [Keys -> Nat \cup {None}]
  BY InvParts, ReadingsAreInstants
<1>2. KeysLeft(at) \in [Keys -> Nat \cup {None}]
  BY <1>1 DEF KeysLeft
<1>3. ASSUME NEW w \in Windows, ReleaseExpired(at, w)
      PROVE  IInv' /\ Ledger!Amend
  <2>1. TableMoves(Swept(rows, Principals, at, w))
    BY <1>1, SweptTableMoves, Numbers
  <2> QED
    BY <1>1, <1>2, <1>3, <2>1, PruningSteps DEF ReleaseExpired, SweepAll
<1>4. ASSUME NEW w \in Windows, RecoverAfterRestart(at, w)
      PROVE  IInv' /\ Ledger!Amend
  <2>1. TableMoves(Swept(MarkedUnknown(at), Principals, at, w))
    BY <1>1, RecoveredTableMoves, Numbers
  <2> QED
    BY <1>1, <1>2, <1>4, <2>1, PruningSteps DEF RecoverAfterRestart, SweepAll
<1>5. ASSUME NEW k \in Keys, PutIfAbsent(k, at)
      PROVE  IInv' /\ Ledger!Amend
  BY <1>1, <1>5, UntouchedTableMoves, KeysTyped, PruningSteps DEF PutIfAbsent
<1> QED
  BY <1>3, <1>4, <1>5

\* Opening sets the ceiling at most once, and so forbids windows only.
LEMMA OpenKeepsIInv ==
  ASSUME IInv, NEW c \in Conns, NEW requested \in Ceilings \cup {None},
         Open(c, requested)
  PROVE  IInv' /\ UNCHANGED <<LedgerEntries, now>>
<1>1. /\ TableOK(rows) /\ PrunedOK(rows, pruned) /\ SchemaOK
  BY DEF IInv
<1>2. UNCHANGED <<rows, dedup, pruned, now>>
  BY DEF Open, tables
<1>3. \A w : AssertWindowAllowed(w)' => AssertWindowAllowed(w)
  BY DEF Open, AssertWindowAllowed, ConfiguredWindow
<1>4. SchemaOK'
  BY <1>1, <1>2 DEF SchemaOK, Open, ConfiguredWindow
<1>5. TableOK(rows)'
  BY <1>1, <1>2 DEF TableOK, RowOK
<1>6. PrunedOK(rows, pruned)'
  BY <1>1, <1>2, <1>3 DEF PrunedOK
<1> QED
  BY <1>2, <1>4, <1>5, <1>6 DEF IInv, LedgerEntries

\* The steps that touch no row: closing, forgetting a key, time.
LEMMA OtherSteps ==
  ASSUME IInv,
         \/ \E c \in Conns : Close(c)
         \/ \E k \in Keys : RemoveDedup(k)
         \/ UNCHANGED sqliteVars
  PROVE  IInv' /\ UNCHANGED <<LedgerEntries, now>>
<1>1. UNCHANGED <<file, rows, ceiling, pruned, now>>
  BY DEF Close, RemoveDedup, tables, sqliteVars
<1>2. SchemaOK'
  BY <1>1 DEF IInv, SchemaOK, Close, RemoveDedup, tables, sqliteVars
<1>3. TableOK(rows)' /\ PrunedOK(rows, pruned)'
  BY <1>1 DEF IInv, TableOK, RowOK, PrunedOK, AssertWindowAllowed
<1> QED
  BY <1>1, <1>2, <1>3 DEF IInv, LedgerEntries

\* Time brings nothing back into a window.
LEMMA TickSteps ==
  ASSUME IInv, Tick
  PROVE  IInv' /\ Ledger!Tick
<1>1. /\ now \in Nat /\ now' = now + 1 /\ TableOK(rows) /\ PrunedOK(rows, pruned)
      /\ UNCHANGED <<file, rows, dedup, pruned, ceiling, open>>
  BY InvParts DEF Tick, tables
<1>2. TableOK(rows)'
  BY <1>1 DEF TableOK, RowOK
<1>3. PrunedOK(rows, pruned)'
  <2>1. \A i \in Stored(pruned), w \in Windows :
          pruned[i].window \in Nat /\ w \in Nat
    BY <1>1, Numbers DEF PrunedOK, Stored, Ledger!Entries, Ledger!Entry
  <2> QED
    BY <1>1, <2>1 DEF PrunedOK, AssertWindowAllowed, Stored
<1>4. SchemaOK'
  BY <1>1 DEF IInv, SchemaOK
<1> QED
  BY <1>1, <1>2, <1>3, <1>4 DEF IInv, Ledger!Tick, LedgerEntries

\* Every step keeps the invariant, and is a step of the ledger or none.
LEMMA NextSteps ==
  ASSUME IInv, [SqliteNext]_sqliteVars
  PROVE  IInv' /\ [Ledger!LedgerNext]_<<LedgerEntries, now>>
<1>1. now \in Nat /\ TableOK(rows)
  BY InvParts
<1>2. ASSUME NEW q \in Request, NEW at \in Readings, TryReserve(q, at)
      PROVE  IInv' /\ Ledger!LedgerNext
  BY <1>2, TryReserveSteps
<1>3. ASSUME NEW i \in Stored(rows), NEW at \in Readings, NEW d \in Drifts,
             NEW f \in Refs, Sign(i, at, rows[i].safe + d, f)
      PROVE  IInv' /\ Ledger!Amend
  <2>1. i \in Ids /\ RowOK(rows[i]) /\ rows[i].status = "reserved"
    BY <1>1, <1>3 DEF TableOK, Stored, Sign, Transition
  <2>2. rows[i].safe + d \in Int
    BY <2>1, Numbers DEF RowOK, Row
  <2>3. RowMoves(rows[i], SignedRow(rows[i], at, rows[i].safe + d, f))
    BY <1>1, <2>1, <2>2, SignedRowMoves, ReadingsAreInstants
  <2> QED
    BY <1>3, <2>1, <2>3, TransitionSteps DEF Sign
<1>4. ASSUME NEW i \in Ids, NEW at \in Readings,
             Release(i, at) \/ Settle(i, at) \/ LoseTrack(i, at)
      PROVE  IInv' /\ Ledger!Amend
  <2>1. RowOK(rows[i]) /\ at \in Nat /\ at <= now
    BY <1>1, <1>4, ReadingsAreInstants DEF TableOK, Release, Settle, LoseTrack, Transition
  <2>2. CASE Release(i, at)
    BY <1>1, <2>1, <2>2, ClosedRowMoves, TransitionSteps DEF Release, Transition
  <2>3. CASE Settle(i, at)
    BY <1>1, <2>1, <2>3, ClosedRowMoves, TransitionSteps DEF Settle, Transition
  <2>4. CASE LoseTrack(i, at)
    BY <1>1, <2>1, <2>4, ClosedRowMoves, TransitionSteps DEF LoseTrack, Transition
  <2> QED
    BY <1>4, <2>2, <2>3, <2>4
<1>5. ASSUME NEW k \in Keys, NEW at \in Readings, PutIfAbsent(k, at)
      PROVE  IInv' /\ Ledger!Amend
  BY <1>5, SweepSteps
<1>6. ASSUME NEW at \in Readings, NEW w \in Windows,
             ReleaseExpired(at, w) \/ RecoverAfterRestart(at, w)
      PROVE  IInv' /\ Ledger!Amend
  BY <1>6, SweepSteps
<1>7. ASSUME NEW c \in Conns, NEW requested \in Ceilings \cup {None}, Open(c, requested)
      PROVE  IInv' /\ UNCHANGED <<LedgerEntries, now>>
  BY <1>7, OpenKeepsIInv
<1>8. ASSUME \/ \E c \in Conns : Close(c)
             \/ \E k \in Keys : RemoveDedup(k)
             \/ UNCHANGED sqliteVars
      PROVE  IInv' /\ UNCHANGED <<LedgerEntries, now>>
  BY <1>8, OtherSteps
<1>9. CASE Tick
  BY <1>9, TickSteps DEF Ledger!LedgerNext
<1> QED
  BY <1>2, <1>3, <1>4, <1>5, <1>6, <1>7, <1>8, <1>9 DEF SqliteNext, Ledger!LedgerNext

-----------------------------------------------------------------------------
(* Theorems.                                                               *)

\* Initially there is nothing.
LEMMA InitIInv == SqliteInit => IInv /\ Ledger!LedgerInit
<1> SUFFICES ASSUME SqliteInit
             PROVE  IInv /\ Ledger!LedgerInit
  OBVIOUS
<1>1. SchemaOK
  BY DEF SqliteInit, SchemaOK
<1>2. TableOK(rows) /\ PrunedOK(rows, pruned)
  BY DEF SqliteInit, TableOK, PrunedOK, Stored, Ledger!Entries
<1>3. Ledger!LedgerInit
  BY DEF SqliteInit, LedgerEntries, Ledger!LedgerInit
<1> QED
  BY <1>1, <1>2, <1>3 DEF IInv

\* The invariant holds in every reachable state.
LEMMA Invariance == SqliteSpec => []IInv
BY InitIInv, NextSteps, PTL DEF SqliteSpec

\* The tables have their types; no statement runs into the CHECK on the
\* recovery deadline, whatever windows and signed deadlines are asked for.
THEOREM SqliteTypeCorrect == SqliteSpec => []SqliteTypeOK
<1>1. IInv => SqliteTypeOK
  BY DEF IInv, SchemaOK, TableOK, RowOK, SqliteTypeOK
<1> QED
  BY <1>1, Invariance, PTL

\* Whatever ceilings the connections were opened with and however stale the
\* instants of the requests: a deleted row is closed, and lies outside every
\* window that a request may still ask for.
THEOREM PrunedStaysOutside == SqliteSpec => []PrunedNeverCounts
<1>1. IInv => PrunedNeverCounts
  BY DEF IInv, PrunedOK, PrunedNeverCounts
<1> QED
  BY <1>1, Invariance, PTL

\* No connection, crash or later option changes the ceiling once it is set.
THEOREM CeilingStays == SqliteSpec => CeilingIsImmutable
<1>1. [SqliteNext]_sqliteVars =>
        [ceiling # None => ceiling' = ceiling]_sqliteVars
  BY DEF SqliteNext, sqliteVars, Open, ConfiguredWindow, Close, TryReserve, Sign,
         Release, Settle, LoseTrack, Transition, PutIfAbsent, RemoveDedup,
         ReleaseExpired, RecoverAfterRestart, SweepAll, Tick
<1> QED
  BY <1>1, PTL DEF SqliteSpec, CeilingIsImmutable

\* A dedup key blocks until it expires or its holder removes it, although every
\* call prunes keys with an instant of its own.
THEOREM KeysBlock == SqliteSpec => KeyBlocksUntilExpiry
<1>1. IInv /\ [SqliteNext]_sqliteVars =>
        [\A k \in Keys :
           dedup[k] # None /\ dedup'[k] # dedup[k]
             => now >= dedup[k] \/ RemoveDedup(k)]_sqliteVars
  <2> SUFFICES ASSUME IInv, SqliteNext, NEW k \in Keys,
                      dedup[k] # None, dedup'[k] # dedup[k]
               PROVE  now >= dedup[k] \/ RemoveDedup(k)
    OBVIOUS
  <2>1. dedup \in [Keys -> Nat \cup {None}] /\ now \in Nat
    BY InvParts
  <2>2. \A at \in Readings : KeysLeft(at)[k] # dedup[k] => now >= dedup[k]
    BY <2>1, ReadingsAreInstants DEF KeysLeft
  <2>3. ASSUME NEW at \in Readings, dedup' = KeysLeft(at)
        PROVE  now >= dedup[k]
    BY <2>2, <2>3
  <2>4. ASSUME NEW at \in Readings, NEW j \in Keys, PutIfAbsent(j, at)
        PROVE  now >= dedup[k]
    <3>1. dedup' = Insert(KeysLeft(at), j, at)
      BY <2>4 DEF PutIfAbsent
    <3>2. KeysLeft(at) \in [Keys -> Nat \cup {None}]
      BY <2>1, KeysTyped, ReadingsAreInstants
    <3>3. dedup'[k] # KeysLeft(at)[k] => KeysLeft(at)[k] = None
      BY <3>1, <3>2 DEF Insert
    <3> QED
      BY <2>2, <3>3
  <2>5. ASSUME NEW j \in Keys, RemoveDedup(j)
        PROVE  RemoveDedup(k)
    <3>1. j = k
      BY <2>1, <2>5 DEF RemoveDedup
    <3> QED
      BY <2>5, <3>1
  <2>6. \/ \E at \in Readings : dedup' = KeysLeft(at)
        \/ \E at \in Readings, j \in Keys : PutIfAbsent(j, at)
        \/ \E j \in Keys : RemoveDedup(j)
        \/ UNCHANGED dedup
    BY DEF SqliteNext, Open, Close, TryReserve, Sign, Release, Settle, LoseTrack,
           Transition, ReleaseExpired, RecoverAfterRestart, SweepAll, Tick, tables
  <2> QED
    BY <2>3, <2>4, <2>5, <2>6
<1> QED
  BY <1>1, Invariance, PTL DEF SqliteSpec, KeyBlocksUntilExpiry

\* The store implements the ledger that forgets nothing: pruning, restarts,
\* refused requests and stale instants are invisible in it, so that no
\* reservation is let through that the whole history would refuse.
THEOREM SqliteImplementsLedger == SqliteSpec => ImplementsLedger
<1>1. IInv /\ [SqliteNext]_sqliteVars => [Ledger!LedgerNext]_Ledger!ledgerVars
  BY NextSteps DEF Ledger!ledgerVars
<1> QED
  BY <1>1, InitIInv, Invariance, PTL DEF SqliteSpec, ImplementsLedger, Ledger!LedgerSpec

\* The theorem about the ledger, for the ledger of this store.
LedgerProofs == INSTANCE SpendLedger_proofs WITH entries <- LedgerEntries

\* The spend of the whole history of the file, deleted rows included, that lies
\* in the shortest rolling window stays within the caps of the mandates and of
\* the principals.
THEOREM SqliteKeepsCaps == SqliteSpec => []Ledger!SpendWithinCaps
<1>1. LedgerProofs!LedgerConstants
  BY Numbers, SqliteIdsFinite, NullIsNoRow, NullIsNoEntry
  DEF LedgerProofs!LedgerConstants, LedgerProofs!Entry, Ledger!Entry,
      LedgerProofs!Open, Ledger!Open, LedgerProofs!IsFiniteSet, IsFiniteSet
<1>2. LedgerProofs!LedgerSpec => []LedgerProofs!SpendWithinCaps
  BY <1>1, LedgerProofs!LedgerKeepsCaps
<1>3. \A es, is : LedgerProofs!Sum(es, is) = Ledger!Sum(es, is)
  <2>1. \A S : LedgerProofs!Cardinality(S) = Ledger!Cardinality(S)
    BY DEF LedgerProofs!Cardinality, Ledger!Cardinality
  <2> QED
    BY <2>1 DEF LedgerProofs!Sum, Ledger!Sum
<1>4. \A es, p, ms, w : LedgerProofs!Weighing(es, p, ms, w) = Ledger!Weighing(es, p, ms, w)
  BY DEF LedgerProofs!Weighing, Ledger!Weighing, LedgerProofs!Weighs, Ledger!Weighs,
         LedgerProofs!Open, Ledger!Open, LedgerProofs!Longer, Ledger!Longer
<1>5. /\ \A es, e : LedgerProofs!FitsCaps(es, e) <=> Ledger!FitsCaps(es, e)
      /\ LedgerProofs!SpendWithinCaps <=> Ledger!SpendWithinCaps
  BY <1>3, <1>4 DEF LedgerProofs!FitsCaps, Ledger!FitsCaps,
                    LedgerProofs!SpendWithinCaps, Ledger!SpendWithinCaps
<1>6. \A e, f : LedgerProofs!Moves(e, f) <=> Ledger!Moves(e, f)
  BY DEF LedgerProofs!Moves, Ledger!Moves, LedgerProofs!SameEntry, Ledger!SameEntry,
         LedgerProofs!Signs, Ledger!Signs, LedgerProofs!Settles, Ledger!Settles,
         LedgerProofs!Lapses, Ledger!Lapses
<1>7. LedgerProofs!Entries = Ledger!Entries
  BY DEF LedgerProofs!Entries, Ledger!Entries, LedgerProofs!Entry, Ledger!Entry,
         LedgerProofs!Open, Ledger!Open
<1>8. Ledger!LedgerInit => LedgerProofs!LedgerInit
  BY DEF Ledger!LedgerInit, LedgerProofs!LedgerInit
<1>9. [Ledger!LedgerNext]_Ledger!ledgerVars
        => [LedgerProofs!LedgerNext]_LedgerProofs!ledgerVars
  BY <1>5, <1>6, <1>7
  DEF Ledger!LedgerNext, LedgerProofs!LedgerNext, Ledger!Post, LedgerProofs!Post,
      Ledger!Amend, LedgerProofs!Amend, Ledger!Tick, LedgerProofs!Tick,
      Ledger!ledgerVars, LedgerProofs!ledgerVars
<1> QED
  BY <1>2, <1>5, <1>8, <1>9, SqliteImplementsLedger, PTL
  DEF ImplementsLedger, Ledger!LedgerSpec, LedgerProofs!LedgerSpec
=============================================================================
