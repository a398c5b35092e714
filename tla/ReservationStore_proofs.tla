----------------------- MODULE ReservationStore_proofs -----------------------
(***************************************************************************)
(* Proofs about ReservationStore, for every value of its constants.        *)
(***************************************************************************)
EXTENDS StoreLedger, FiniteSetTheorems, TLAPS

USE DEF MaxOf

-----------------------------------------------------------------------------
(* The sweep, one row at a time.                                           *)

\* What no operation may do to a row, apart from its deadlines: change who
\* pays whom and how much, bring a row back, or move its settlement.
Keeps(r, s) ==
  /\ s.principal = r.principal /\ s.mandate = r.mandate /\ s.payee = r.payee
  /\ s.amount = r.amount /\ s.window = r.window
  /\ s.status \in Pending => r.status \in Pending
  /\ s.status = "settled" =>
       \/ r.status \in Pending
       \/ r.status = "settled" /\ s.settledAt = r.settledAt

\* A sweep yields a row of the same type that keeps what it must, and does not
\* shorten a deadline.
LEMMA SweptRowKeeps ==
  ASSUME NEW r \in Reservation, NEW at \in Nat, NEW w \in Nat
  PROVE  /\ SweptRow(r, at, w) \in Reservation
         /\ Keeps(r, SweptRow(r, at, w))
         /\ SweptRow(r, at, w).settledAt = r.settledAt
         /\ SweptRow(r, at, w).ref = r.ref
         /\ SweptRow(r, at, w).safe = r.safe
         /\ SweptRow(r, at, w).recovery >= r.recovery
         /\ SweptRow(r, at, w).status = "settled" <=> r.status = "settled"
  BY DEF SweptRow, Expired, Extended, Reservation, Keeps, Due, Pending,
         Uncertain, Terminal

\* Forgetting whether a row was signed keeps it, and leaves settled rows alone.
LEMMA UnknownRowKeeps ==
  ASSUME NEW r \in Reservation
  PROVE  /\ UnknownRow(r) \in Reservation
         /\ Keeps(r, UnknownRow(r))
         /\ UnknownRow(r).settledAt = r.settledAt
         /\ UnknownRow(r).ref = r.ref
         /\ UnknownRow(r).safe = r.safe
         /\ UnknownRow(r).recovery = r.recovery
         /\ UnknownRow(r).status = "settled" <=> r.status = "settled"
  BY DEF UnknownRow, Reservation, Keeps, Pending, Uncertain, Terminal

\* The restart sweep, one row: forget, then sweep.
LEMMA RecoveredRowKeeps ==
  ASSUME NEW r \in Reservation, NEW at \in Nat, NEW w \in Nat
  PROVE  LET s == SweptRow(UnknownRow(r), at, w) IN
         /\ s \in Reservation
         /\ Keeps(r, s)
         /\ s.settledAt = r.settledAt
         /\ s.ref = r.ref
         /\ s.safe = r.safe
         /\ s.recovery >= r.recovery
         /\ s.status = "settled" <=> r.status = "settled"
  <1> DEFINE u == UnknownRow(r)
  <1>1. /\ u \in Reservation /\ Keeps(r, u) /\ u.settledAt = r.settledAt
        /\ u.ref = r.ref /\ u.safe = r.safe /\ u.recovery = r.recovery
        /\ u.status = "settled" <=> r.status = "settled"
    BY UnknownRowKeeps
  <1> HIDE DEF u
  <1> DEFINE s == SweptRow(u, at, w)
  <1>2. /\ s \in Reservation /\ Keeps(u, s) /\ s.settledAt = u.settledAt
        /\ s.ref = u.ref /\ s.safe = u.safe /\ s.recovery >= u.recovery
        /\ s.status = "settled" <=> u.status = "settled"
    BY <1>1, SweptRowKeeps
  <1> HIDE DEF s
  <1>3. Keeps(r, s)
    BY <1>1, <1>2 DEF Keeps
  <1> QED
    BY <1>1, <1>2, <1>3 DEF s, u

RowMap == [Ids -> Reservation \cup {None}]

\* A sweep of any principals' rows keeps every row, and adds none.
LEMMA SweptKeeps ==
  ASSUME NEW rs \in RowMap, NEW ps, NEW at \in Nat, NEW w \in Nat
  PROVE  /\ Swept(rs, ps, at, w) \in RowMap
         /\ \A i \in Live(Swept(rs, ps, at, w)) :
              /\ i \in Live(rs)
              /\ Keeps(rs[i], Swept(rs, ps, at, w)[i])
              /\ Swept(rs, ps, at, w)[i].settledAt = rs[i].settledAt
              /\ Swept(rs, ps, at, w)[i].status = "settled" <=> rs[i].status = "settled"
  <1>1. ASSUME NEW i \in Ids
        PROVE  LET s == Swept(rs, ps, at, w)[i] IN
               /\ s \in Reservation \cup {None}
               /\ s # None => /\ rs[i] # None
                              /\ Keeps(rs[i], s)
                              /\ s.settledAt = rs[i].settledAt
                              /\ s.status = "settled" <=> rs[i].status = "settled"
    <2>1. CASE i \in Live(rs) /\ rs[i].principal \in ps
      <3>1. rs[i] \in Reservation
        BY <2>1 DEF Live, RowMap
      <3>2. Swept(rs, ps, at, w)[i] = SweptRow(rs[i], at, w)
        BY <2>1 DEF Swept
      <3> QED
        BY <2>1, <3>1, <3>2, SweptRowKeeps DEF Live
    <2>2. CASE ~(i \in Live(rs) /\ rs[i].principal \in ps)
      <3>1. Swept(rs, ps, at, w)[i] = rs[i] /\ rs[i] \in Reservation \cup {None}
        BY <2>2 DEF Swept, RowMap
      <3>2. rs[i] # None => Keeps(rs[i], rs[i])
        BY <3>1 DEF Keeps, Reservation, Terminal
      <3> QED
        BY <3>1, <3>2
    <2> QED
      BY <2>1, <2>2
  <1>2. Swept(rs, ps, at, w) = [i \in Ids |-> Swept(rs, ps, at, w)[i]]
    BY DEF Swept
  <1> QED
    BY <1>1, <1>2 DEF Live, RowMap

-----------------------------------------------------------------------------
(* Type correctness.                                                       *)

LEMMA ReadingsAreInstants ==
  ASSUME now \in Nat, NEW at \in Readings
  PROVE  at \in Nat /\ at <= now
  BY DEF Readings

\* Membership of the statuses, stated once so that the sets stay folded.
LEMMA Statuses ==
  /\ {"reserved", "signed", "submitted", "unknown"} \subseteq Pending
  /\ {"settled", "expired", "released"} \subseteq Terminal
  /\ \A st \in Terminal : st \notin Pending
  BY DEF Pending, Uncertain, Terminal

LEMMA WithStatusType ==
  ASSUME NEW r \in Reservation, NEW st \in Pending \cup Terminal
  PROVE  /\ [r EXCEPT !.status = st] \in Reservation
         /\ [r EXCEPT !.status = st].status = st
         /\ [r EXCEPT !.status = st].settledAt = r.settledAt
  BY DEF Reservation

LEMMA NewRowType ==
  ASSUME NEW q \in Request, NEW at \in Nat
  PROVE  /\ NewRow(q, at) \in Reservation
         /\ NewRow(q, at).status # "settled"
  <1>1. q.window \in Nat /\ q.validity \in Nat
    BY WindowBounds, ValidityBounds DEF Request
  <1>2. at + q.validity \in Nat /\ at + q.validity + q.window \in Nat
    BY <1>1
  <1>3. /\ q.principal \in Principals /\ q.mandate \in Mandates
        /\ q.payee \in Payees /\ q.amount \in 0..MaxAmount
    BY AmountBounds DEF Request
  <1> QED
    BY <1>1, <1>2, <1>3, Statuses DEF NewRow, Reservation

LEMMA SignedType ==
  ASSUME NEW r \in Reservation, NEW safe \in Nat, NEW f \in Refs \cup {None}
  PROVE  /\ Signed(r, safe, f) \in Reservation
         /\ Signed(r, safe, f).status = "signed"
  <1>1. MaxOf(r.safe, safe) \in Nat
    BY DEF Reservation
  <1>2. (IF safe > r.safe THEN MaxOf(r.recovery, safe + r.window)
                          ELSE r.recovery) \in Nat
    BY DEF Reservation
  <1> QED
    BY <1>1, <1>2, Statuses DEF Signed, Reservation

LEMMA InitType == StoreInit => StoreTypeOK
  BY DEF StoreInit, StoreTypeOK, Live

LEMMA NextType == StoreTypeOK /\ [StoreNext]_storeVars => StoreTypeOK'
  <1> SUFFICES ASSUME StoreTypeOK, [StoreNext]_storeVars PROVE StoreTypeOK'
    OBVIOUS
  <1> USE DEF StoreTypeOK, Live
  <1>1. ASSUME NEW q \in Request, NEW at \in Readings, TryReserve(q, at)
        PROVE  StoreTypeOK'
    <2> DEFINE rs == Swept(rows, {q.principal}, at, q.window)
    <2>1. at \in Nat /\ q.window \in Nat /\ q.validity \in Nat
      BY <1>1, ReadingsAreInstants, WindowBounds, ValidityBounds DEF Request
    <2>2. /\ rs \in RowMap
          /\ \A i \in Live(rs) : rs[i].status = "settled" => rs[i].settledAt \in Nat
      <3>1. rows \in RowMap
        BY DEF RowMap
      <3>2. \A i \in Live(rs) :
              /\ i \in Live(rows)
              /\ rs[i].settledAt = rows[i].settledAt
              /\ rs[i].status = "settled" <=> rows[i].status = "settled"
        BY <2>1, <3>1, SweptKeeps
      <3> QED
        BY <2>1, <3>1, <3>2, SweptKeeps
    <2>3. NewRow(q, at) \in Reservation /\ NewRow(q, at).status # "settled"
      BY <2>1, NewRowType
    <2>4. CASE \E i \in Ids \ Live(rs) : rows' = [rs EXCEPT ![i] = NewRow(q, at)]
      BY <1>1, <2>2, <2>3, <2>4 DEF TryReserve, RowMap
    <2>5. CASE rows' = rs
      BY <1>1, <2>2, <2>5 DEF TryReserve, RowMap
    <2> QED
      BY <1>1, <2>4, <2>5 DEF TryReserve
  <1>2. ASSUME NEW i \in Ids, NEW d \in 0..Tolerance,
               NEW f \in Refs \cup {None}, Sign(i, rows[i].safe + d, f)
        PROVE  StoreTypeOK'
    <2>1. rows[i].safe + d \in Nat /\ rows[i] \in Reservation
      BY <1>2, ValidityBounds DEF Sign, InStatus, Reservation
    <2>2. /\ Signed(rows[i], rows[i].safe + d, f) \in Reservation
          /\ Signed(rows[i], rows[i].safe + d, f).status = "signed"
      BY <1>2, <2>1, SignedType
    <2> QED
      BY <1>2, <2>2 DEF Sign
  <1>3. ASSUME NEW i \in Ids, Release(i)
        PROVE  StoreTypeOK'
    <2>1. rows[i] \in Reservation
      BY <1>3 DEF Release, InStatus
    <2>2. rows' = [rows EXCEPT ![i] = [rows[i] EXCEPT !.status = "released"]]
      BY <1>3 DEF Release
    <2> QED
      BY <1>3, <2>1, <2>2, WithStatusType, Statuses DEF Release
  <1>4. ASSUME NEW i \in Ids, NEW at \in Readings, Settle(i, at)
        PROVE  StoreTypeOK'
    <2> DEFINE s == [rows[i] EXCEPT !.status = "settled", !.settledAt = at]
    <2>1. rows[i] \in Reservation /\ at \in Nat
      BY <1>4, ReadingsAreInstants DEF Settle, InStatus
    <2>2. rows' = [rows EXCEPT ![i] = s]
      BY <1>4 DEF Settle
    <2>3. s \in Reservation /\ s.settledAt \in Nat
      BY <2>1, Statuses DEF Reservation
    <2> QED
      BY <1>4, <2>2, <2>3 DEF Settle
  <1>5. ASSUME NEW i \in Ids, LoseTrack(i)
        PROVE  StoreTypeOK'
    <2>1. rows[i] \in Reservation
      BY <1>5 DEF LoseTrack, InStatus
    <2>2. rows' = [rows EXCEPT ![i] = [rows[i] EXCEPT !.status = "unknown"]]
      BY <1>5 DEF LoseTrack
    <2> QED
      BY <1>5, <2>1, <2>2, WithStatusType, Statuses DEF LoseTrack
  <1>6. ASSUME NEW at \in Readings, NEW w \in Windows, ReleaseExpired(at, w)
        PROVE  StoreTypeOK'
    <2>1. at \in Nat /\ w \in Nat
      BY <1>6, ReadingsAreInstants, WindowBounds
    <2>2. \A i \in Live(rows') :
            /\ i \in Live(rows)
            /\ rows'[i].settledAt = rows[i].settledAt
            /\ rows'[i].status = "settled" <=> rows[i].status = "settled"
      BY <1>6, <2>1, SweptKeeps DEF ReleaseExpired, RowMap
    <2> QED
      BY <1>6, <2>1, <2>2, SweptKeeps DEF ReleaseExpired, RowMap
  <1>7. ASSUME NEW at \in Readings, NEW w \in Windows, RecoverAfterRestart(at, w)
        PROVE  StoreTypeOK'
    <2>1. at \in Nat /\ w \in Nat
      BY <1>7, ReadingsAreInstants, WindowBounds
    <2>2. ASSUME NEW i \in Live(rows)
          PROVE  LET s == SweptRow(UnknownRow(rows[i]), at, w) IN
                 /\ s \in Reservation
                 /\ s.status = "settled" => s.settledAt \in Nat
      <3>1. rows[i] \in Reservation
        OBVIOUS
      <3>2. rows[i].status = "settled" => rows[i].settledAt \in Nat
        OBVIOUS
      <3> QED
        BY <2>1, <3>1, <3>2, RecoveredRowKeeps
    <2> QED
      BY <1>7, <2>2 DEF RecoverAfterRestart
  <1>8. CASE Tick
    BY <1>8 DEF Tick
  <1>9. CASE UNCHANGED storeVars
    BY <1>9 DEF storeVars
  <1> QED
    BY <1>1, <1>2, <1>3, <1>4, <1>5, <1>6, <1>7, <1>8, <1>9 DEF StoreNext

\* Every reachable state of the store is well typed: rows stay rows, a settled
\* row has its settlement time.
THEOREM StoreTypeCorrect == StoreSpec => []StoreTypeOK
  BY InitType, NextType, PTL DEF StoreSpec

-----------------------------------------------------------------------------
(* Sums of amounts.                                                        *)

\* ss has no row that rs lacks, and keeps the rows it has.
KeptFrom(rs, ss) ==
  \A i \in Live(ss) : i \in Live(rs) /\ Keeps(rs[i], ss[i])

SettledTyped(rs) ==
  \A i \in Live(rs) : rs[i].status = "settled" => rs[i].settledAt \in Nat

LEMMA UnitsFinite ==
  ASSUME NEW rs, NEW is \in SUBSET Ids
  PROVE  IsFiniteSet(Units(rs, is)) /\ Total(rs, is) \in Nat
  <1>1. IsFiniteSet(is)
    BY FiniteIds, FS_Subset
  <1>2. IsFiniteSet(1..MaxAmount)
    BY AmountBounds, FS_Interval
  <1>3. IsFiniteSet(is \X (1..MaxAmount))
    BY <1>1, <1>2, FS_Product
  <1>4. Units(rs, is) \in SUBSET (is \X (1..MaxAmount))
    BY DEF Units
  <1>5. IsFiniteSet(Units(rs, is))
    BY <1>3, <1>4, FS_Subset
  <1> QED
    BY <1>5, FS_CardinalityType DEF Total

\* More rows of the same amounts never sum to less.
LEMMA TotalMonotone ==
  ASSUME NEW rs, NEW ss, NEW is \in SUBSET Ids, NEW js \in SUBSET Ids,
         \A i \in is : i \in js /\ rs[i].amount = ss[i].amount
  PROVE  Total(rs, is) <= Total(ss, js)
  <1>1. Units(rs, is) \in SUBSET Units(ss, js)
    BY DEF Units
  <1>2. IsFiniteSet(Units(ss, js))
    BY UnitsFinite
  <1> QED
    BY <1>1, <1>2, FS_Subset DEF Total

LEMMA UnitsOfOneRow ==
  ASSUME NEW n, NEW a \in Nat
  PROVE  IsFiniteSet({n} \X (1..a)) /\ Cardinality({n} \X (1..a)) = a
  <1>1. IsFiniteSet({n}) /\ Cardinality({n}) = 1
    BY FS_Singleton
  <1>2. /\ IsFiniteSet(1..a)
        /\ Cardinality(1..a) = IF 1 > a THEN 0 ELSE a - 1 + 1
    BY FS_Interval
  <1>3. Cardinality(1..a) = a
    BY <1>2
  <1>4. /\ IsFiniteSet({n} \X (1..a))
        /\ Cardinality({n} \X (1..a)) = Cardinality({n}) * Cardinality(1..a)
    BY <1>1, <1>2, FS_Product
  <1> QED
    BY <1>1, <1>3, <1>4

\* One more row adds at most its amount.
LEMMA TotalWithNew ==
  ASSUME NEW rs, NEW ss, NEW is \in SUBSET Ids, NEW js \in SUBSET Ids,
         NEW n \in Ids, ss[n].amount \in 0..MaxAmount,
         \A j \in js \ {n} : j \in is /\ rs[j].amount = ss[j].amount
  PROVE  Total(ss, js) <= Total(rs, is) + ss[n].amount
  <1> DEFINE a == ss[n].amount
             new == {n} \X (1..a)
             old == Units(rs, is)
  <1>1. Units(ss, js) \in SUBSET (old \cup new)
    <2> SUFFICES ASSUME NEW u \in Units(ss, js), u \notin old
                 PROVE  u \in new
      OBVIOUS
    <2>1. u = <<u[1], u[2]>> /\ u[1] \in js /\ u[2] \in 1..MaxAmount
          /\ u[2] <= ss[u[1]].amount
      BY DEF Units
    <2>2. u[1] = n
      BY <2>1 DEF Units
    <2> QED
      BY <2>1, <2>2, AmountBounds
  <1>2. IsFiniteSet(old) /\ Cardinality(old) \in Nat
    BY UnitsFinite DEF Total
  <1>3. IsFiniteSet(new) /\ Cardinality(new) = a
    <2>1. a \in Nat
      BY AmountBounds
    <2> HIDE DEF a
    <2> QED
      BY <2>1, UnitsOfOneRow
  <1>4. /\ IsFiniteSet(old \cup new)
        /\ Cardinality(old \cup new) = Cardinality(old) + Cardinality(new)
                                       - Cardinality(old \cap new)
    BY <1>2, <1>3, FS_Union
  <1>5. Cardinality(old \cap new) \in Nat
    BY <1>2, FS_Intersection, FS_CardinalityType
  <1>6. Cardinality(Units(ss, js)) <= Cardinality(old \cup new)
    BY <1>1, <1>4, FS_Subset
  <1>7. Cardinality(Units(ss, js)) \in Nat
    BY UnitsFinite DEF Total
  <1> QED
    BY <1>2, <1>3, <1>4, <1>5, <1>6, <1>7, AmountBounds DEF Total

\* A row that counts later, in a shorter window, counted before it was kept.
LEMMA OccupiesKept ==
  ASSUME NEW r \in Reservation, NEW s \in Reservation, Keeps(r, s),
         s.status = "settled" => s.settledAt \in Nat,
         NEW at \in Nat, NEW later \in Nat, at <= later,
         NEW v \in Nat, NEW w \in Nat, v <= w, Occupies(s, later, v)
  PROVE  Occupies(r, at, w)
  <1>1. r.window \in Nat /\ s.window = r.window
    BY DEF Reservation, Keeps
  <1>2. CASE s.status \in Pending
    BY <1>2 DEF Keeps, Occupies
  <1>3. CASE s.status = "settled" /\ s.settledAt > later - MaxOf(s.window, v)
    <2>1. CASE r.status \in Pending
      BY <2>1 DEF Occupies
    <2>2. CASE r.status = "settled" /\ s.settledAt = r.settledAt
      BY <1>1, <1>3, <2>2 DEF Occupies
    <2> QED
      BY <1>3, <2>1, <2>2 DEF Keeps
  <1> QED
    BY <1>2, <1>3 DEF Occupies

LEMMA CountedKept ==
  ASSUME NEW rs \in RowMap, NEW ss \in RowMap, NEW p, NEW ms,
         NEW at \in Nat, NEW later \in Nat, at <= later,
         NEW v \in Nat, NEW w \in Nat, v <= w,
         NEW i \in Counted(ss, p, ms, later, v), SettledTyped(ss),
         i \in Live(rs), Keeps(rs[i], ss[i])
  PROVE  i \in Counted(rs, p, ms, at, w) /\ rs[i].amount = ss[i].amount
  <1>1. i \in Ids /\ rs[i] \in Reservation /\ ss[i] \in Reservation
    BY DEF Counted, Live, RowMap
  <1>2. ss[i].status = "settled" => ss[i].settledAt \in Nat
    BY DEF Counted, SettledTyped
  <1>3. Occupies(rs[i], at, w)
    BY <1>1, <1>2, OccupiesKept DEF Counted
  <1> QED
    BY <1>3 DEF Counted, Keeps

LEMMA CountedAreIds == \A rs, p, ms, at, w : Counted(rs, p, ms, at, w) \in SUBSET Ids
  BY DEF Counted, Live

\* Time, transitions and sweeps never raise what is committed.
LEMMA CommittedKept ==
  ASSUME NEW rs \in RowMap, NEW ss \in RowMap, NEW p, NEW ms,
         NEW at \in Nat, NEW later \in Nat, at <= later,
         NEW v \in Nat, NEW w \in Nat, v <= w,
         SettledTyped(ss), KeptFrom(rs, ss)
  PROVE  /\ Committed(ss, p, ms, later, v) <= Committed(rs, p, ms, at, w)
         /\ Committed(ss, p, ms, later, v) \in Nat
         /\ Committed(rs, p, ms, at, w) \in Nat
  <1> DEFINE is == Counted(ss, p, ms, later, v)
             js == Counted(rs, p, ms, at, w)
  <1>1. is \in SUBSET Ids /\ js \in SUBSET Ids
    BY CountedAreIds
  <1>2. \A i \in is : i \in js /\ ss[i].amount = rs[i].amount
    <2> TAKE i \in is
    <2>1. i \in Live(rs) /\ Keeps(rs[i], ss[i])
      BY DEF KeptFrom, Counted
    <2> QED
      BY <2>1, CountedKept
  <1>3. Total(ss, is) <= Total(rs, js)
    BY <1>1, <1>2, TotalMonotone
  <1> QED
    BY <1>1, <1>3, UnitsFinite DEF Committed

-----------------------------------------------------------------------------
(* The limits of the policy.                                               *)

LEMMA PendingForFinite ==
  ASSUME NEW rs, NEW p, NEW y
  PROVE  /\ PendingFor(rs, p, y) \in SUBSET Ids
         /\ IsFiniteSet(PendingFor(rs, p, y))
         /\ Cardinality(PendingFor(rs, p, y)) \in Nat
  <1>1. PendingFor(rs, p, y) \in SUBSET Ids
    BY DEF PendingFor, Live
  <1> QED
    BY <1>1, FiniteIds, FS_Subset, FS_CardinalityType

LEMMA PendingKept ==
  ASSUME NEW rs, NEW ss, KeptFrom(rs, ss), NEW p, NEW y
  PROVE  Cardinality(PendingFor(ss, p, y)) <= Cardinality(PendingFor(rs, p, y))
  <1>1. PendingFor(ss, p, y) \in SUBSET PendingFor(rs, p, y)
    BY DEF PendingFor, KeptFrom, Keeps
  <1> QED
    BY <1>1, PendingForFinite, FS_Subset

\* Every operation but an admitted request only keeps rows.
LEMMA SignKeeps ==
  ASSUME StoreTypeOK, NEW i \in Ids, NEW safe, NEW f, Sign(i, safe, f)
  PROVE  KeptFrom(rows, rows')
  <1>1. rows[i] \in Reservation /\ rows[i].status = "reserved"
    BY DEF StoreTypeOK, Sign, InStatus, Live
  <1>2. Keeps(rows[i], Signed(rows[i], safe, f))
    BY <1>1, Statuses DEF Keeps, Signed, Reservation
  <1>3. \A j \in Live(rows) : Keeps(rows[j], rows[j])
    BY Statuses DEF Keeps, StoreTypeOK, Live, Reservation
  <1> QED
    BY <1>1, <1>2, <1>3 DEF KeptFrom, Sign, InStatus, StoreTypeOK, Live

LEMMA StatusKeeps ==
  ASSUME StoreTypeOK, NEW i \in Live(rows), NEW s \in Reservation,
         Keeps(rows[i], s), rows' = [rows EXCEPT ![i] = s]
  PROVE  KeptFrom(rows, rows')
  <1>1. \A j \in Live(rows) : Keeps(rows[j], rows[j])
    BY Statuses DEF Keeps, StoreTypeOK, Live, Reservation
  <1> QED
    BY <1>1 DEF KeptFrom, StoreTypeOK, Live

LEMMA NextKeeps ==
  ASSUME StoreTypeOK, [StoreNext]_storeVars,
         ~\E q \in Request, at \in Readings : TryReserve(q, at)
  PROVE  KeptFrom(rows, rows') /\ now' \in Nat /\ now <= now'
  <1> USE DEF StoreTypeOK
  <1>0. \A j \in Live(rows) : rows[j] \in Reservation /\ Keeps(rows[j], rows[j])
    BY Statuses DEF Keeps, Live, Reservation
  <1>2. ASSUME NEW i \in Ids, NEW d \in 0..Tolerance,
               NEW f \in Refs \cup {None}, Sign(i, rows[i].safe + d, f)
        PROVE  KeptFrom(rows, rows') /\ now' = now
    BY <1>2, SignKeeps DEF Sign
  <1>3. ASSUME NEW i \in Ids, Release(i)
        PROVE  KeptFrom(rows, rows') /\ now' = now
    <2> DEFINE s == [rows[i] EXCEPT !.status = "released"]
    <2>1. i \in Live(rows) /\ rows' = [rows EXCEPT ![i] = s] /\ now' = now
      BY <1>3 DEF Release, InStatus
    <2>2. s \in Reservation /\ Keeps(rows[i], s)
      BY <1>0, <2>1, Statuses DEF Keeps, Reservation
    <2> QED
      BY <2>1, <2>2, StatusKeeps
  <1>4. ASSUME NEW i \in Ids, NEW at \in Readings, Settle(i, at)
        PROVE  KeptFrom(rows, rows') /\ now' = now
    <2> DEFINE s == [rows[i] EXCEPT !.status = "settled", !.settledAt = at]
    <2>1. i \in Live(rows) /\ rows' = [rows EXCEPT ![i] = s] /\ now' = now
      BY <1>4 DEF Settle, InStatus
    <2>2. rows[i].status \in Pending /\ at \in Nat
      BY <1>4, Statuses, ReadingsAreInstants DEF Settle, InStatus
    <2>3. s \in Reservation /\ Keeps(rows[i], s)
      BY <1>0, <2>1, <2>2, Statuses DEF Keeps, Reservation
    <2> QED
      BY <2>1, <2>3, StatusKeeps
  <1>5. ASSUME NEW i \in Ids, LoseTrack(i)
        PROVE  KeptFrom(rows, rows') /\ now' = now
    <2> DEFINE s == [rows[i] EXCEPT !.status = "unknown"]
    <2>1. /\ i \in Live(rows) /\ rows' = [rows EXCEPT ![i] = s] /\ now' = now
          /\ rows[i].status \in Pending
      BY <1>5, Statuses DEF LoseTrack, InStatus
    <2>2. s \in Reservation /\ Keeps(rows[i], s)
      BY <1>0, <2>1, Statuses DEF Keeps, Reservation
    <2> QED
      BY <2>1, <2>2, StatusKeeps
  <1>6. ASSUME NEW at \in Readings, NEW w \in Windows, ReleaseExpired(at, w)
        PROVE  KeptFrom(rows, rows') /\ now' = now
    <2>1. at \in Nat /\ w \in Nat
      BY <1>6, ReadingsAreInstants, WindowBounds
    <2> QED
      BY <1>6, <2>1, SweptKeeps DEF ReleaseExpired, KeptFrom, RowMap
  <1>7. ASSUME NEW at \in Readings, NEW w \in Windows, RecoverAfterRestart(at, w)
        PROVE  KeptFrom(rows, rows') /\ now' = now
    <2>1. at \in Nat /\ w \in Nat
      BY <1>7, ReadingsAreInstants, WindowBounds
    <2>2. ASSUME NEW j \in Live(rows)
          PROVE  Keeps(rows[j], SweptRow(UnknownRow(rows[j]), at, w))
      BY <1>0, <2>1, RecoveredRowKeeps
    <2> QED
      BY <1>7, <2>2 DEF RecoverAfterRestart, KeptFrom, Live
  <1>8. CASE Tick
    BY <1>0, <1>8 DEF Tick, KeptFrom
  <1>9. CASE UNCHANGED storeVars
    BY <1>0, <1>9 DEF storeVars, KeptFrom
  <1> QED
    BY <1>2, <1>3, <1>4, <1>5, <1>6, <1>7, <1>8, <1>9 DEF StoreNext

\* What only keeps rows keeps the limits.
LEMMA LimitsKept ==
  ASSUME StoreTypeOK, StoreTypeOK', LimitsHold, KeptFrom(rows, rows'), now <= now'
  PROVE  LimitsHold'
  <1>1. /\ rows \in RowMap /\ rows' \in RowMap /\ now \in Nat /\ now' \in Nat
        /\ SettledTyped(rows') /\ MinWindow \in Nat
    BY WindowBounds DEF StoreTypeOK, RowMap, SettledTyped
  <1>2. ASSUME NEW p \in Principals, NEW ms
        PROVE  /\ Committed(rows', p, ms, now', MinWindow)
                    <= Committed(rows, p, ms, now, MinWindow)
               /\ Committed(rows', p, ms, now', MinWindow) \in Nat
               /\ Committed(rows, p, ms, now, MinWindow) \in Nat
    BY <1>1, CommittedKept
  <1>3. ASSUME NEW p \in Principals, NEW y \in Payees
        PROVE  /\ Cardinality(PendingFor(rows', p, y))
                    <= Cardinality(PendingFor(rows, p, y))
               /\ Cardinality(PendingFor(rows', p, y)) \in Nat
               /\ Cardinality(PendingFor(rows, p, y)) \in Nat
    BY PendingKept, PendingForFinite
  <1> QED
    BY <1>2, <1>3, CapBounds DEF LimitsHold

\* An admitted request keeps the limits: the sums it was admitted on bound
\* those of any shorter window at any later instant.
LEMMA ReserveKeepsLimits ==
  ASSUME StoreTypeOK, StoreTypeOK', LimitsHold,
         NEW q \in Request, NEW at \in Readings, TryReserve(q, at)
  PROVE  LimitsHold'
  <1> DEFINE rs == Swept(rows, {q.principal}, at, q.window)
  <1>1. /\ at \in Nat /\ at <= now /\ now \in Nat /\ now' = now
        /\ q.window \in Nat /\ MinWindow \in Nat /\ MinWindow <= q.window
        /\ q.amount \in 0..MaxAmount
    BY ReadingsAreInstants, WindowBounds, AmountBounds
       DEF StoreTypeOK, TryReserve, Request
  <1>2. rows \in RowMap /\ rows' \in RowMap /\ SettledTyped(rows')
    BY DEF StoreTypeOK, RowMap, SettledTyped
  <1>3. rs \in RowMap /\ KeptFrom(rows, rs)
    BY <1>1, <1>2, SweptKeeps DEF KeptFrom
  <1>4. CASE rows' = rs
    BY <1>1, <1>3, <1>4, LimitsKept
  <1>5. CASE \E n \in Ids \ Live(rs) : /\ Admits(rs, q, at)
                                       /\ rows' = [rs EXCEPT ![n] = NewRow(q, at)]
    <2>1. PICK n \in Ids \ Live(rs) : /\ Admits(rs, q, at)
                                      /\ rows' = [rs EXCEPT ![n] = NewRow(q, at)]
      BY <1>5
    <2> HIDE DEF rs
    <2>2. /\ rows'[n].principal = q.principal /\ rows'[n].mandate = q.mandate
          /\ rows'[n].payee = q.payee /\ rows'[n].amount = q.amount
      BY <1>3, <2>1 DEF NewRow, RowMap
    <2>3. \A i \in Live(rows') \ {n} : i \in Live(rs) /\ rs[i] = rows'[i]
      BY <1>3, <2>1 DEF Live, RowMap
    <2>4. \A i \in Live(rs) : Keeps(rs[i], rs[i])
      BY <1>3, Statuses DEF Keeps, RowMap, Live, Reservation
    <2>5. ASSUME NEW p, NEW ms
          PROVE  Committed(rows', p, ms, now, MinWindow)
                   <= Committed(rs, p, ms, at, q.window) + q.amount
      <3> DEFINE is == Counted(rs, p, ms, at, q.window)
                 js == Counted(rows', p, ms, now, MinWindow)
      <3>1. is \in SUBSET Ids /\ js \in SUBSET Ids
        BY CountedAreIds
      <3>2. \A j \in js \ {n} : j \in is /\ rs[j].amount = rows'[j].amount
        <4> TAKE j \in js \ {n}
        <4>1. j \in Live(rs) /\ Keeps(rs[j], rows'[j])
          BY <2>3, <2>4 DEF Counted
        <4> QED
          BY <1>1, <1>2, <1>3, <4>1, CountedKept
      <3> HIDE DEF is, js
      <3>3. Total(rows', js) <= Total(rs, is) + rows'[n].amount
        BY <1>1, <2>2, <3>1, <3>2, TotalWithNew
      <3> QED
        BY <2>2, <3>3 DEF Committed, is, js
    <2>6. ASSUME NEW p, NEW ms, ~(p = q.principal /\ q.mandate \in ms)
          PROVE  Committed(rows', p, ms, now, MinWindow)
                   <= Committed(rows, p, ms, now, MinWindow)
      <3> DEFINE is == Counted(rows, p, ms, now, MinWindow)
                 js == Counted(rows', p, ms, now, MinWindow)
      <3>1. is \in SUBSET Ids /\ js \in SUBSET Ids
        BY CountedAreIds
      <3>2. \A j \in js : j \in is /\ rows'[j].amount = rows[j].amount
        <4> TAKE j \in js
        <4>1. j # n
          BY <2>2, <2>6 DEF Counted
        <4>2. j \in Live(rows) /\ Keeps(rows[j], rows'[j])
          BY <1>3, <2>3, <4>1 DEF Counted, KeptFrom
        <4> QED
          BY <1>1, <1>2, <4>2, CountedKept
      <3> QED
        BY <3>1, <3>2, TotalMonotone DEF Committed
    <2>7. \A p, ms : /\ Committed(rows', p, ms, now, MinWindow) \in Nat
                     /\ Committed(rows, p, ms, now, MinWindow) \in Nat
                     /\ Committed(rs, p, ms, at, q.window) \in Nat
      BY CountedAreIds, UnitsFinite DEF Committed
    <2>8. ASSUME NEW p \in Principals, NEW y \in Payees
          PROVE  Cardinality(PendingFor(rows', p, y)) <= PayeeLimit
      <3>1. CASE p = q.principal /\ y = q.payee
        <4>1. PendingFor(rows', p, y) \in SUBSET (PendingFor(rs, p, y) \cup {n})
          BY <2>3 DEF PendingFor
        <4>2. Cardinality(PendingFor(rs, p, y)) < PayeeLimit
          BY <2>1, <3>1 DEF Admits
        <4>3. /\ IsFiniteSet(PendingFor(rs, p, y) \cup {n})
              /\ Cardinality(PendingFor(rs, p, y) \cup {n})
                   <= Cardinality(PendingFor(rs, p, y)) + 1
          <5> DEFINE S == PendingFor(rs, p, y)
          <5>1. IsFiniteSet(S) /\ Cardinality(S) \in Nat
            BY PendingForFinite
          <5> HIDE DEF S
          <5>2. /\ IsFiniteSet(S \cup {n})
                /\ Cardinality(S \cup {n}) =
                     IF n \in S THEN Cardinality(S) ELSE Cardinality(S) + 1
            BY <5>1, FS_AddElement
          <5> QED
            BY <5>1, <5>2 DEF S
        <4>4. Cardinality(PendingFor(rows', p, y))
                <= Cardinality(PendingFor(rs, p, y) \cup {n})
          BY <4>1, <4>3, FS_Subset
        <4>5. Cardinality(PendingFor(rs, p, y) \cup {n}) \in Nat
          BY <4>3, FS_CardinalityType
        <4> QED
          BY <4>2, <4>3, <4>4, <4>5, PendingForFinite, CapBounds
      <3>2. CASE ~(p = q.principal /\ y = q.payee)
        <4>1. PendingFor(rows', p, y) \in SUBSET PendingFor(rows, p, y)
          BY <1>3, <2>2, <2>3, <3>2 DEF PendingFor, KeptFrom, Keeps
        <4>2. Cardinality(PendingFor(rows', p, y)) <= Cardinality(PendingFor(rows, p, y))
          BY <4>1, PendingForFinite, FS_Subset
        <4> QED
          BY <4>2, PendingForFinite, CapBounds DEF LimitsHold
      <3> QED
        BY <3>1, <3>2
    <2>9. ASSUME NEW p \in Principals, NEW m \in Mandates
          PROVE  Committed(rows', p, {m}, now, MinWindow) <= Cap
      <3>1. CASE p = q.principal /\ m = q.mandate
        <4>1. Committed(rs, p, {m}, at, q.window) + q.amount <= Cap
          BY <2>1, <3>1 DEF Admits
        <4> QED
          BY <1>1, <2>5, <2>7, <4>1, CapBounds, AmountBounds
      <3>2. CASE ~(p = q.principal /\ m = q.mandate)
        <4>1. Committed(rows', p, {m}, now, MinWindow)
                <= Committed(rows, p, {m}, now, MinWindow)
          BY <2>6, <3>2
        <4> QED
          BY <2>7, <4>1, CapBounds DEF LimitsHold
      <3> QED
        BY <3>1, <3>2
    <2>10. ASSUME NEW p \in Principals
           PROVE  Committed(rows', p, Mandates, now, MinWindow) <= AggregateCap
      <3>1. CASE p = q.principal
        <4>1. Committed(rs, p, Mandates, at, q.window) + q.amount <= AggregateCap
          BY <2>1, <3>1 DEF Admits
        <4> QED
          BY <1>1, <2>5, <2>7, <4>1, CapBounds, AmountBounds
      <3>2. CASE p # q.principal
        <4>1. Committed(rows', p, Mandates, now, MinWindow)
                <= Committed(rows, p, Mandates, now, MinWindow)
          BY <2>6, <3>2
        <4> QED
          BY <2>7, <4>1, CapBounds DEF LimitsHold
      <3> QED
        BY <3>1, <3>2
    <2> QED
      BY <1>1, <2>8, <2>9, <2>10 DEF LimitsHold
  <1> QED
    BY <1>4, <1>5 DEF TryReserve

LEMMA InitLimits == StoreInit => LimitsHold
  <1> SUFFICES ASSUME StoreInit PROVE LimitsHold
    OBVIOUS
  <1>1. \A p, y : PendingFor(rows, p, y) = {}
    BY DEF StoreInit, PendingFor, Live
  <1>2. \A p, ms : Units(rows, Counted(rows, p, ms, now, MinWindow)) = {}
    BY DEF StoreInit, Counted, Live, Units
  <1>3. Cardinality({}) = 0
    BY FS_EmptySet
  <1> QED
    BY <1>1, <1>2, <1>3, CapBounds DEF LimitsHold, Committed, Total

\* The caps and the per-payee limit hold in every reachable state, for every
\* set of principals, mandates, payees and windows and every staleness bound.
THEOREM LimitsAlwaysHold == StoreSpec => []LimitsHold
  <1>1. StoreTypeOK /\ LimitsHold /\ [StoreNext]_storeVars => LimitsHold'
    <2> SUFFICES ASSUME StoreTypeOK, LimitsHold, [StoreNext]_storeVars
                 PROVE  LimitsHold'
      OBVIOUS
    <2>1. StoreTypeOK'
      BY NextType
    <2>2. CASE \E q \in Request, at \in Readings : TryReserve(q, at)
      BY <2>1, <2>2, ReserveKeepsLimits
    <2>3. CASE ~\E q \in Request, at \in Readings : TryReserve(q, at)
      BY <2>1, <2>3, NextKeeps, LimitsKept
    <2> QED
      BY <2>2, <2>3
  <1> QED
    BY InitLimits, StoreTypeCorrect, <1>1, PTL DEF StoreSpec

-----------------------------------------------------------------------------
(* Deadlines and references.                                               *)

\* One row whose deadline covers its window after a change of status.
Covered(r) == r.recovery >= r.safe + r.window

LEMMA CoveredBySweep ==
  ASSUME NEW r \in Reservation, Covered(r), NEW at \in Nat, NEW w \in Nat
  PROVE  Covered(SweptRow(r, at, w)) /\ Covered(SweptRow(UnknownRow(r), at, w))
  <1>1. ASSUME NEW u \in Reservation, Covered(u)
        PROVE  Covered(SweptRow(u, at, w))
    <2> DEFINE s == SweptRow(u, at, w)
    <2>1. /\ s \in Reservation /\ s.window = u.window /\ s.safe = u.safe
          /\ s.recovery >= u.recovery
      BY <1>1, SweptRowKeeps DEF Keeps
    <2> HIDE DEF s
    <2>2. /\ s.recovery \in Nat /\ u.recovery \in Nat
          /\ u.safe \in Nat /\ u.window \in Nat
      BY <1>1, <2>1 DEF Reservation
    <2>3. s.recovery >= s.safe + s.window
      BY <1>1, <2>1, <2>2 DEF Covered
    <2> QED
      BY <2>3 DEF Covered, s
  <1>2. UnknownRow(r) \in Reservation /\ Covered(UnknownRow(r))
    BY UnknownRowKeeps DEF Covered, Keeps
  <1> QED
    BY <1>1, <1>2

LEMMA CoveredWhenSigned ==
  ASSUME NEW r \in Reservation, Covered(r), NEW safe \in Nat, NEW f
  PROVE  Covered(Signed(r, safe, f))
  BY DEF Covered, Signed, Reservation

LEMMA CoveredWhenNew ==
  ASSUME NEW q \in Request, NEW at \in Nat
  PROVE  Covered(NewRow(q, at))
  <1>1. q.window \in Nat /\ q.validity \in Nat
    BY WindowBounds, ValidityBounds DEF Request
  <1> QED
    BY <1>1 DEF Covered, NewRow

LEMMA NextCovers ==
  StoreTypeOK /\ RecoveryCoversWindow /\ [StoreNext]_storeVars
    => RecoveryCoversWindow'
  <1> SUFFICES ASSUME StoreTypeOK, RecoveryCoversWindow, [StoreNext]_storeVars
               PROVE  RecoveryCoversWindow'
    OBVIOUS
  <1>0. /\ \A i \in Live(rows) : rows[i] \in Reservation /\ Covered(rows[i])
        /\ rows \in [Ids -> Reservation \cup {None}] /\ now \in Nat
    BY DEF StoreTypeOK, RecoveryCoversWindow, Live, Covered
  <1> SUFFICES \A i \in Live(rows') : Covered(rows'[i])
    BY DEF RecoveryCoversWindow, Covered
  <1>1. ASSUME NEW q \in Request, NEW at \in Readings, TryReserve(q, at)
        PROVE  \A i \in Live(rows') : Covered(rows'[i])
    <2> DEFINE rs == Swept(rows, {q.principal}, at, q.window)
    <2>1. at \in Nat /\ q.window \in Nat
      BY <1>0, <1>1, ReadingsAreInstants, WindowBounds DEF Request
    <2>2. rs \in [Ids -> Reservation \cup {None}]
      BY <1>0, <2>1, SweptKeeps DEF RowMap
    <2>3. \A i \in Live(rs) : Covered(rs[i])
      BY <1>0, <2>1, CoveredBySweep DEF Swept, Live
    <2>4. Covered(NewRow(q, at))
      BY <2>1, CoveredWhenNew
    <2> HIDE DEF rs
    <2>5. CASE \E n \in Ids \ Live(rs) : rows' = [rs EXCEPT ![n] = NewRow(q, at)]
      BY <2>2, <2>3, <2>4, <2>5 DEF Live
    <2>6. CASE rows' = rs
      BY <2>3, <2>6
    <2> QED
      BY <1>1, <2>5, <2>6 DEF TryReserve, rs
  <1>2. ASSUME NEW i \in Ids, NEW d \in 0..Tolerance,
               NEW f \in Refs \cup {None}, Sign(i, rows[i].safe + d, f)
        PROVE  \A j \in Live(rows') : Covered(rows'[j])
    <2>1. i \in Live(rows) /\ rows[i].safe + d \in Nat
      BY <1>0, <1>2, ValidityBounds DEF Sign, InStatus, Reservation
    <2>2. Covered(Signed(rows[i], rows[i].safe + d, f))
      BY <1>0, <2>1, CoveredWhenSigned
    <2> QED
      BY <1>0, <1>2, <2>2 DEF Sign, Live
  <1>3. ASSUME NEW i \in Live(rows), NEW s, rows' = [rows EXCEPT ![i] = s],
               s.recovery = rows[i].recovery, s.safe = rows[i].safe,
               s.window = rows[i].window
        PROVE  \A j \in Live(rows') : Covered(rows'[j])
    BY <1>0, <1>3 DEF Live, Covered
  <1>4. ASSUME NEW i \in Ids, Release(i)
        PROVE  \A j \in Live(rows') : Covered(rows'[j])
    <2> DEFINE s == [rows[i] EXCEPT !.status = "released"]
    <2>1. i \in Live(rows) /\ rows' = [rows EXCEPT ![i] = s]
      BY <1>4 DEF Release, InStatus
    <2>2. /\ s.recovery = rows[i].recovery /\ s.safe = rows[i].safe
          /\ s.window = rows[i].window
      BY <1>0, <2>1 DEF Reservation
    <2> QED
      BY <1>3, <2>1, <2>2
  <1>5. ASSUME NEW i \in Ids, NEW at \in Readings, Settle(i, at)
        PROVE  \A j \in Live(rows') : Covered(rows'[j])
    <2> DEFINE s == [rows[i] EXCEPT !.status = "settled", !.settledAt = at]
    <2>1. i \in Live(rows) /\ rows' = [rows EXCEPT ![i] = s]
      BY <1>5 DEF Settle, InStatus
    <2>2. /\ s.recovery = rows[i].recovery /\ s.safe = rows[i].safe
          /\ s.window = rows[i].window
      BY <1>0, <2>1 DEF Reservation
    <2> QED
      BY <1>3, <2>1, <2>2
  <1>6. ASSUME NEW i \in Ids, LoseTrack(i)
        PROVE  \A j \in Live(rows') : Covered(rows'[j])
    <2> DEFINE s == [rows[i] EXCEPT !.status = "unknown"]
    <2>1. i \in Live(rows) /\ rows' = [rows EXCEPT ![i] = s]
      BY <1>6 DEF LoseTrack, InStatus
    <2>2. /\ s.recovery = rows[i].recovery /\ s.safe = rows[i].safe
          /\ s.window = rows[i].window
      BY <1>0, <2>1 DEF Reservation
    <2> QED
      BY <1>3, <2>1, <2>2
  <1>7. ASSUME NEW at \in Readings, NEW w \in Windows,
               ReleaseExpired(at, w) \/ RecoverAfterRestart(at, w)
        PROVE  \A j \in Live(rows') : Covered(rows'[j])
    <2>1. at \in Nat /\ w \in Nat
      BY <1>0, <1>7, ReadingsAreInstants, WindowBounds
    <2> QED
      BY <1>0, <1>7, <2>1, CoveredBySweep
         DEF ReleaseExpired, RecoverAfterRestart, Swept, Live
  <1>8. CASE Tick \/ UNCHANGED storeVars
    BY <1>0, <1>8 DEF Tick, storeVars
  <1> QED
    BY <1>1, <1>2, <1>4, <1>5, <1>6, <1>7, <1>8 DEF StoreNext

\* The deadline of every row always covers its window after the last instant
\* its payment may settle: late signing, sweeps and restarts included.
THEOREM RecoveryAlwaysCovers == StoreSpec => []RecoveryCoversWindow
  <1>1. StoreInit => RecoveryCoversWindow
    BY DEF StoreInit, RecoveryCoversWindow, Live
  <1> QED
    BY <1>1, NextCovers, StoreTypeCorrect, PTL DEF StoreSpec

LEMMA SweptRowWaits ==
  ASSUME NEW r \in Reservation, NEW at \in Nat, NEW w \in Nat,
         r.status \in Uncertain, SweptRow(r, at, w).status = "expired"
  PROVE  at >= r.safe + MaxOf(r.window, w)
  BY DEF SweptRow, Expired, Extended, Due, Deadline, Reservation,
         Pending, Uncertain

\* A sweep never gives up an uncertain row inside a window it was asked for.
THEOREM SweepsWait == StoreSpec => []SweepWaitsOutWindow
  <1>1. StoreTypeOK => SweepWaitsOutWindow
    <2> SUFFICES ASSUME StoreTypeOK, NEW at \in Readings, NEW w \in Windows,
                        NEW i \in Live(rows), NEW r \in {rows[i], UnknownRow(rows[i])},
                        r.status \in Uncertain, SweptRow(r, at, w).status = "expired"
                 PROVE  at >= r.safe + MaxOf(r.window, w)
      BY DEF SweepWaitsOutWindow
    <2>1. at \in Nat /\ w \in Nat
      BY ReadingsAreInstants, WindowBounds DEF StoreTypeOK
    <2>2. r \in Reservation
      BY UnknownRowKeeps DEF StoreTypeOK, Live
    <2> QED
      BY <2>1, <2>2, SweptRowWaits
  <1> QED
    BY <1>1, StoreTypeCorrect, PTL

-----------------------------------------------------------------------------
(* Signed references.                                                      *)

\* A sweep adds no row and keeps the reference of every row it looks at.
LEMMA SweptRefs ==
  ASSUME NEW rs \in RowMap, NEW ps, NEW at \in Nat, NEW w \in Nat
  PROVE  \A i \in Live(Swept(rs, ps, at, w)) :
           i \in Live(rs) /\ Swept(rs, ps, at, w)[i].ref = rs[i].ref
  BY SweptRowKeeps DEF Swept, Live, RowMap

LEMMA NextKeepsReferences ==
  StoreTypeOK /\ OneRowPerReference /\ [StoreNext]_storeVars => OneRowPerReference'
  <1> SUFFICES ASSUME StoreTypeOK, OneRowPerReference, [StoreNext]_storeVars
               PROVE  OneRowPerReference'
    OBVIOUS
  <1>0. rows \in RowMap /\ now \in Nat
    BY DEF StoreTypeOK, RowMap
  \* It is enough that the rows with a reference had it before the step.
  <1>1. ASSUME \A i \in Live(rows') :
                 rows'[i].ref # None => i \in Live(rows) /\ rows'[i].ref = rows[i].ref
        PROVE  OneRowPerReference'
    BY <1>1 DEF OneRowPerReference
  <1>2. ASSUME NEW q \in Request, NEW at \in Readings, TryReserve(q, at)
        PROVE  OneRowPerReference'
    <2> DEFINE rs == Swept(rows, {q.principal}, at, q.window)
    <2>1. at \in Nat /\ q.window \in Nat
      BY <1>0, <1>2, ReadingsAreInstants, WindowBounds DEF Request
    <2>2. rs \in RowMap
      BY <1>0, <2>1, SweptKeeps
    <2>3. \A i \in Live(rs) : i \in Live(rows) /\ rs[i].ref = rows[i].ref
      BY <1>0, <2>1, SweptRefs
    <2>4. NewRow(q, at).ref = None
      BY DEF NewRow
    <2>5. \/ rows' = rs
          \/ \E n \in Ids \ Live(rs) : rows' = [rs EXCEPT ![n] = NewRow(q, at)]
      BY <1>2 DEF TryReserve
    <2> HIDE DEF rs
    <2> QED
      BY <1>1, <2>2, <2>3, <2>4, <2>5 DEF Live, RowMap
  <1>3. ASSUME NEW i \in Ids, NEW d \in 0..Tolerance,
               NEW f \in Refs \cup {None}, Sign(i, rows[i].safe + d, f)
        PROVE  OneRowPerReference'
    <2> DEFINE s == Signed(rows[i], rows[i].safe + d, f)
    <2>1. i \in Live(rows) /\ rows' = [rows EXCEPT ![i] = s] /\ RefUnused(i, f)
      BY <1>3 DEF Sign, InStatus
    <2>2. s.ref = f
      BY <1>0, <2>1 DEF Signed, RowMap, Live, Reservation
    <2> HIDE DEF s
    <2>3. Live(rows') \subseteq Live(rows)
      BY <1>0, <2>1 DEF Live, RowMap
    <2> QED
      BY <1>0, <2>1, <2>2, <2>3 DEF OneRowPerReference, RefUnused, RowMap, Live
  <1>4. ASSUME NEW i \in Ids, NEW at \in Readings,
               Release(i) \/ Settle(i, at) \/ LoseTrack(i)
        PROVE  OneRowPerReference'
    <2>1. i \in Live(rows) /\ rows[i] \in Reservation
      BY <1>0, <1>4 DEF Release, Settle, LoseTrack, InStatus, Live, RowMap
    <2>2. /\ [rows[i] EXCEPT !.status = "released"].ref = rows[i].ref
          /\ [rows[i] EXCEPT !.status = "unknown"].ref = rows[i].ref
          /\ [rows[i] EXCEPT !.status = "settled", !.settledAt = at].ref = rows[i].ref
      BY <2>1 DEF Reservation
    <2> QED
      BY <1>0, <1>1, <1>4, <2>1, <2>2
         DEF Release, Settle, LoseTrack, Live, RowMap
  <1>5. ASSUME NEW at \in Readings, NEW w \in Windows, ReleaseExpired(at, w)
        PROVE  OneRowPerReference'
    <2>1. at \in Nat /\ w \in Nat
      BY <1>0, <1>5, ReadingsAreInstants, WindowBounds
    <2> QED
      BY <1>0, <1>1, <1>5, <2>1, SweptRefs DEF ReleaseExpired
  <1>6. ASSUME NEW at \in Readings, NEW w \in Windows, RecoverAfterRestart(at, w)
        PROVE  OneRowPerReference'
    <2>1. at \in Nat /\ w \in Nat
      BY <1>0, <1>6, ReadingsAreInstants, WindowBounds
    <2> QED
      BY <1>0, <1>1, <1>6, <2>1, RecoveredRowKeeps
         DEF RecoverAfterRestart, Live, RowMap
  <1>7. CASE Tick \/ UNCHANGED storeVars
    BY <1>1, <1>7 DEF Tick, storeVars
  <1>8. 0 \in Nat /\ now \in Readings
    BY <1>0, ClockBounds DEF Readings
  <1> QED
    BY <1>2, <1>3, <1>4, <1>5, <1>6, <1>7, <1>8 DEF StoreNext

\* No two rows ever carry the same signed authorization, so a payment is
\* counted and settled once.
THEOREM ReferencesStayUnique == StoreSpec => []OneRowPerReference
  <1>1. StoreInit => OneRowPerReference
    BY DEF StoreInit, OneRowPerReference, Live
  <1> QED
    BY <1>1, NextKeepsReferences, StoreTypeCorrect, PTL DEF StoreSpec

-----------------------------------------------------------------------------
(* Ends of holds.                                                          *)

\* The ways in which a step at local time n may change the status of a row.
Accounted(r, s, n) ==
  r.status # s.status =>
    CASE s.status = "released" -> r.status = "reserved"
      [] s.status = "settled"  -> r.status = "signed"
      [] s.status = "expired"  -> r.status \in Pending /\ n >= Deadline(r)
      [] OTHER -> r.status \in Pending /\ s.status \in Uncertain

LEMMA SweptRowStatus ==
  ASSUME NEW r \in Reservation, NEW at \in Nat, NEW w \in Nat
  PROVE  LET s == SweptRow(r, at, w) IN
         \/ s.status = r.status
         \/ /\ s.status = "expired" /\ r.status \in Pending /\ at >= Deadline(r)
            /\ at >= r.safe
  <1>1. CASE r.status \in Uncertain
    BY <1>1 DEF SweptRow, Expired, Extended, Due, Deadline, MaxOf, Reservation,
                Pending, Uncertain
  <1>2. CASE r.status \notin Uncertain
    BY <1>2 DEF SweptRow, Expired, Extended, Due, Deadline, Reservation, Pending,
                Uncertain
  <1> QED
    BY <1>1, <1>2

\* A sweep accounts for the rows it ends, and so does a restart.
LEMMA SweepsAccount ==
  ASSUME NEW r \in Reservation, NEW at \in Nat, NEW w \in Nat, NEW n \in Nat,
         at <= n
  PROVE  /\ Accounted(r, SweptRow(r, at, w), n)
         /\ Accounted(r, SweptRow(UnknownRow(r), at, w), n)
  <1>0. r.safe \in Nat /\ r.recovery \in Nat /\ Deadline(r) \in Nat
    BY DEF Reservation, Deadline
  <1>1. Accounted(r, SweptRow(r, at, w), n)
    BY <1>0, SweptRowStatus DEF Accounted
  <1> DEFINE u == UnknownRow(r)
  <1>2. /\ u \in Reservation /\ u.safe = r.safe /\ u.recovery = r.recovery
        /\ \/ u.status = r.status /\ r.status \notin Pending
           \/ u.status = "unknown" /\ r.status \in Pending
    BY UnknownRowKeeps DEF UnknownRow, Reservation
  <1> HIDE DEF u
  <1> DEFINE s == SweptRow(u, at, w)
  <1>3. \/ s.status = u.status
        \/ /\ s.status = "expired" /\ u.status \in Pending /\ at >= Deadline(u)
           /\ at >= u.safe
    BY <1>2, SweptRowStatus
  <1> HIDE DEF s
  <1>4. ASSUME s.status = u.status PROVE Accounted(r, s, n)
    BY <1>2, <1>4, Statuses DEF Accounted, Uncertain
  <1>5. ASSUME s.status = "expired", u.status \in Pending PROVE Accounted(r, s, n)
    <2>1. /\ r.status \in Pending /\ at >= u.recovery /\ at >= u.safe
      BY <1>2, <1>3, <1>5 DEF Deadline, Uncertain
    <2>2. n >= Deadline(r)
      BY <1>0, <1>2, <2>1 DEF Deadline
    <2> QED
      BY <1>5, <2>1, <2>2 DEF Accounted
  <1>6. Accounted(r, SweptRow(u, at, w), n)
    BY <1>3, <1>4, <1>5 DEF s
  <1> QED
    BY <1>1, <1>6 DEF u

LEMMA StepAccounts ==
  ASSUME StoreTypeOK, StoreNext, NEW i \in Live(rows)
  PROVE  i \in Live(rows') /\ Accounted(rows[i], rows'[i], now)
  <1>0. rows \in RowMap /\ now \in Nat /\ i \in Ids /\ rows[i] \in Reservation
    BY DEF StoreTypeOK, RowMap, Live
  <1>1. \A s \in Reservation : s # None
    BY NoneIsNoRow
  <1>2. Accounted(rows[i], rows[i], now)
    BY DEF Accounted
  <1>3. ASSUME NEW q \in Request, NEW at \in Readings, TryReserve(q, at)
        PROVE  i \in Live(rows') /\ Accounted(rows[i], rows'[i], now)
    <2> DEFINE rs == Swept(rows, {q.principal}, at, q.window)
    <2>1. at \in Nat /\ at <= now /\ q.window \in Nat
      BY <1>0, <1>3, ReadingsAreInstants, WindowBounds DEF Request
    <2>2. SweptRow(rows[i], at, q.window) \in Reservation
      BY <1>0, <2>1, SweptRowKeeps
    <2>3. rs[i] = rows[i] \/ rs[i] = SweptRow(rows[i], at, q.window)
      BY <1>0 DEF Swept
    <2>4. rs \in RowMap /\ i \in Live(rs) /\ Accounted(rows[i], rs[i], now)
      BY <1>0, <1>1, <1>2, <2>1, <2>2, <2>3, SweptKeeps, SweepsAccount DEF Live
    <2>5. \/ rows' = rs
          \/ \E n \in Ids \ Live(rs) : rows' = [rs EXCEPT ![n] = NewRow(q, at)]
      BY <1>3 DEF TryReserve
    <2> HIDE DEF rs
    <2>6. rows'[i] = rs[i]
      BY <1>0, <2>4, <2>5 DEF RowMap
    <2> QED
      BY <1>0, <2>4, <2>6 DEF Live
  <1>4. ASSUME NEW j \in Ids, NEW s \in Reservation, rows' = [rows EXCEPT ![j] = s],
               Accounted(rows[j], s, now)
        PROVE  i \in Live(rows') /\ Accounted(rows[i], rows'[i], now)
    BY <1>0, <1>1, <1>2, <1>4 DEF RowMap, Live
  <1>5. ASSUME NEW j \in Ids, NEW d \in 0..Tolerance,
               NEW f \in Refs \cup {None}, Sign(j, rows[j].safe + d, f)
        PROVE  i \in Live(rows') /\ Accounted(rows[i], rows'[i], now)
    <2> DEFINE s == Signed(rows[j], rows[j].safe + d, f)
    <2>1. /\ rows[j] \in Reservation /\ rows[j].status = "reserved"
          /\ rows' = [rows EXCEPT ![j] = s]
      BY <1>0, <1>5 DEF Sign, InStatus, Live, RowMap
    <2>2. rows[j].safe + d \in Nat
      BY <2>1, ValidityBounds DEF Reservation
    <2>3. s \in Reservation /\ s.status = "signed"
      BY <2>1, <2>2, SignedType
    <2> QED
      BY <1>4, <2>1, <2>3, Statuses DEF Accounted, Uncertain
  <1>6. ASSUME NEW j \in Ids, NEW at \in Readings,
               Release(j) \/ Settle(j, at) \/ LoseTrack(j)
        PROVE  i \in Live(rows') /\ Accounted(rows[i], rows'[i], now)
    <2>1. j \in Live(rows) /\ rows[j] \in Reservation /\ at \in Nat
      BY <1>0, <1>6, ReadingsAreInstants
         DEF Release, Settle, LoseTrack, InStatus, Live, RowMap
    <2>2. CASE Release(j)
      <3> DEFINE s == [rows[j] EXCEPT !.status = "released"]
      <3>1. s \in Reservation /\ s.status = "released"
        BY <2>1, WithStatusType, Statuses
      <3> QED
        BY <1>4, <2>2, <3>1 DEF Release, InStatus, Accounted
    <2>3. CASE Settle(j, at)
      <3> DEFINE s == [rows[j] EXCEPT !.status = "settled", !.settledAt = at]
      <3>1. s \in Reservation /\ s.status = "settled"
        BY <2>1, Statuses DEF Reservation
      <3>2. rows' = [rows EXCEPT ![j] = s] /\ rows[j].status = "signed"
        BY <1>0, <2>1, <2>3 DEF Settle, InStatus, RowMap
      <3> QED
        BY <1>4, <3>1, <3>2 DEF Accounted
    <2>4. CASE LoseTrack(j)
      <3> DEFINE s == [rows[j] EXCEPT !.status = "unknown"]
      <3>1. s \in Reservation /\ s.status = "unknown"
        BY <2>1, WithStatusType, Statuses
      <3> QED
        BY <1>4, <2>4, <3>1, Statuses DEF LoseTrack, InStatus, Accounted, Uncertain
    <2> QED
      BY <1>6, <2>2, <2>3, <2>4
  <1>7. ASSUME NEW at \in Readings, NEW w \in Windows,
               ReleaseExpired(at, w) \/ RecoverAfterRestart(at, w)
        PROVE  i \in Live(rows') /\ Accounted(rows[i], rows'[i], now)
    <2>1. at \in Nat /\ at <= now /\ w \in Nat
      BY <1>0, <1>7, ReadingsAreInstants, WindowBounds
    <2>2. /\ SweptRow(rows[i], at, w) \in Reservation
          /\ SweptRow(UnknownRow(rows[i]), at, w) \in Reservation
      BY <1>0, <2>1, SweptRowKeeps, RecoveredRowKeeps
    <2>3. \/ rows'[i] = rows[i]
          \/ rows'[i] = SweptRow(rows[i], at, w)
          \/ rows'[i] = SweptRow(UnknownRow(rows[i]), at, w)
      BY <1>0, <1>7 DEF ReleaseExpired, RecoverAfterRestart, Swept
    <2> QED
      BY <1>0, <1>1, <1>2, <2>1, <2>2, <2>3, SweepsAccount DEF Live
  <1>8. CASE Tick
    BY <1>0, <1>2, <1>8 DEF Tick
  <1>9. now \in Readings
    BY <1>0, ClockBounds DEF Readings
  <1> QED
    BY <1>3, <1>5, <1>6, <1>7, <1>8, <1>9 DEF StoreNext

\* No operation gives up a hold but by releasing it before it was signed, by
\* settling it after, or by expiring it when its deadline has passed, which is a
\* window later for a hold whose payment may have left.
THEOREM HoldsAreAccounted == StoreSpec => HoldsUntilAccounted
  <1>1. StoreTypeOK /\ [StoreNext]_storeVars =>
          [\A i \in Live(rows) :
             /\ i \in Live(rows')
             /\ rows[i].status # rows'[i].status =>
                  CASE rows'[i].status = "released" -> rows[i].status = "reserved"
                    [] rows'[i].status = "settled"  -> rows[i].status = "signed"
                    [] rows'[i].status = "expired"  -> /\ rows[i].status \in Pending
                                                       /\ now >= Deadline(rows[i])
                    [] OTHER -> /\ rows[i].status \in Pending
                                /\ rows'[i].status \in Uncertain]_storeVars
    BY StepAccounts DEF Accounted
  <1> QED
    BY <1>1, StoreTypeCorrect, PTL DEF StoreSpec, HoldsUntilAccounted

-----------------------------------------------------------------------------
(* What the callers of the store rely on: what a step may do to a row that *)
(* they have reserved.                                                     *)

\* What a sweep does at local time n.
Gently(r, s, n) ==
  /\ Keeps(r, s) /\ s.safe = r.safe /\ s.ref = r.ref
  /\ \/ s.status = r.status
     \/ s.status = "expired" /\ r.status \in Pending /\ n >= r.safe

\* What any operation does: the last instant of a payment is never moved back,
\* and once a row is no longer reserved, that instant and the reference are for
\* good and nothing frees the row.
RowStep(r, s) ==
  /\ Keeps(r, s) /\ s.safe >= r.safe
  /\ s.status = "reserved" => s.safe = r.safe
  /\ r.status # "reserved" =>
       /\ s.ref = r.ref /\ s.safe = r.safe /\ s.status # "reserved"
       /\ s.status = "released" => r.status = "released"

LEMMA SameRow ==
  ASSUME NEW r \in Reservation, NEW n
  PROVE  Gently(r, r, n) /\ RowStep(r, r)
  BY Statuses DEF Gently, RowStep, Keeps, Reservation

LEMMA SweptGently ==
  ASSUME NEW r \in Reservation, NEW at \in Nat, NEW w \in Nat, NEW n \in Nat,
         at <= n
  PROVE  SweptRow(r, at, w) \in Reservation /\ Gently(r, SweptRow(r, at, w), n)
  <1>1. r.safe \in Nat
    BY DEF Reservation
  <1> DEFINE s == SweptRow(r, at, w)
  <1>2. /\ s \in Reservation /\ Keeps(r, s) /\ s.safe = r.safe /\ s.ref = r.ref
    BY SweptRowKeeps
  <1>3. \/ s.status = r.status
        \/ s.status = "expired" /\ r.status \in Pending /\ at >= r.safe
    BY SweptRowStatus
  <1> HIDE DEF s
  <1> QED
    BY <1>1, <1>2, <1>3 DEF Gently, s

LEMMA GentlyIsRowStep ==
  ASSUME NEW r \in Reservation, NEW s, NEW n, Gently(r, s, n)
  PROVE  RowStep(r, s)
  <1>1. r.safe \in Nat
    BY DEF Reservation
  <1> QED
    BY <1>1 DEF Gently, RowStep

\* A request sweeps the rows there are, and may add one row of its own.
LEMMA ReserveGently ==
  ASSUME StoreTypeOK, NEW q \in Request, NEW at \in Readings, TryReserve(q, at)
  PROVE  /\ \A i \in Live(rows) : i \in Live(rows') /\ Gently(rows[i], rows'[i], now)
         /\ \A i \in Live(rows') \ Live(rows) : rows'[i] = NewRow(q, at)
  <1>0. rows \in RowMap /\ now \in Nat /\ at \in Nat /\ at <= now /\ q.window \in Nat
    BY ReadingsAreInstants, WindowBounds DEF StoreTypeOK, RowMap, Request
  <1>1. \A r \in Reservation : r # None
    BY NoneIsNoRow
  <1> DEFINE rs == Swept(rows, {q.principal}, at, q.window)
  <1>2. rs \in RowMap /\ \A i \in Ids \ Live(rows) : rs[i] = None
    <2>1. rs \in RowMap
      BY <1>0, SweptKeeps
    <2>2. \A i \in Ids \ Live(rows) : rs[i] = None
      BY DEF Live, Swept
    <2> QED
      BY <2>1, <2>2
  <1>3. ASSUME NEW i \in Live(rows)
        PROVE  i \in Live(rs) /\ Gently(rows[i], rs[i], now)
    <2>1. rows[i] \in Reservation /\ i \in Ids
      BY <1>0 DEF Live, RowMap
    <2>2. rs[i] = rows[i] \/ rs[i] = SweptRow(rows[i], at, q.window)
      BY <2>1 DEF Swept
    <2>3. rs[i] \in Reservation /\ Gently(rows[i], rs[i], now)
      BY <1>0, <2>1, <2>2, SweptGently, SameRow
    <2> QED
      BY <1>1, <2>1, <2>3 DEF Live
  <1>4. \/ rows' = rs
        \/ \E n \in Ids \ Live(rs) : rows' = [rs EXCEPT ![n] = NewRow(q, at)]
    BY DEF TryReserve
  <1> HIDE DEF rs
  <1>5. CASE rows' = rs
    BY <1>2, <1>3, <1>5 DEF Live
  <1>6. ASSUME NEW n \in Ids \ Live(rs), rows' = [rs EXCEPT ![n] = NewRow(q, at)]
        PROVE  /\ \A i \in Live(rows) : rows'[i] = rs[i]
               /\ \A i \in Ids : i # n => rows'[i] = rs[i]
               /\ rows'[n] = NewRow(q, at)
    BY <1>2, <1>3, <1>6 DEF RowMap, Live
  <1> QED
    BY <1>2, <1>3, <1>4, <1>5, <1>6 DEF Live

LEMMA ExpireGently ==
  ASSUME StoreTypeOK, NEW at \in Readings, NEW w \in Windows, ReleaseExpired(at, w)
  PROVE  /\ Live(rows') = Live(rows)
         /\ \A i \in Live(rows) : Gently(rows[i], rows'[i], now)
  <1>0. rows \in RowMap /\ now \in Nat /\ at \in Nat /\ at <= now /\ w \in Nat
    BY ReadingsAreInstants, WindowBounds DEF StoreTypeOK, RowMap
  <1>1. ASSUME NEW i \in Live(rows)
        PROVE  rows'[i] \in Reservation /\ Gently(rows[i], rows'[i], now)
    <2>1. rows[i] \in Reservation /\ i \in Ids
      BY <1>0 DEF Live, RowMap
    <2>2. rows'[i] = rows[i] \/ rows'[i] = SweptRow(rows[i], at, w)
      BY <2>1 DEF ReleaseExpired, Swept
    <2> QED
      BY <1>0, <2>1, <2>2, SweptGently, SameRow
  <1>2. \A i \in Ids \ Live(rows) : rows'[i] = None
    BY DEF ReleaseExpired, Swept, Live
  <1> QED
    BY <1>1, <1>2, NoneIsNoRow DEF Live

\* Forgetting and sweeping: what a restart does to a row.
LEMMA RecoverSteps ==
  ASSUME StoreTypeOK, NEW at \in Readings, NEW w \in Windows,
         RecoverAfterRestart(at, w)
  PROVE  /\ Live(rows') = Live(rows)
         /\ \A i \in Live(rows) : /\ RowStep(rows[i], rows'[i])
                                  /\ rows'[i].ref = rows[i].ref
  <1>0. rows \in RowMap /\ now \in Nat /\ at \in Nat /\ at <= now /\ w \in Nat
    BY ReadingsAreInstants, WindowBounds DEF StoreTypeOK, RowMap
  <1>1. ASSUME NEW i \in Live(rows)
        PROVE  /\ rows'[i] \in Reservation /\ RowStep(rows[i], rows'[i])
               /\ rows'[i].ref = rows[i].ref
    <2> DEFINE u == UnknownRow(rows[i])
    <2>1. rows[i] \in Reservation /\ i \in Ids
      BY <1>0 DEF Live, RowMap
    <2>2. /\ u \in Reservation /\ u.safe = rows[i].safe /\ u.ref = rows[i].ref
          /\ u.status = rows[i].status \/ u.status = "unknown"
      BY <2>1, UnknownRowKeeps DEF UnknownRow, Reservation
    <2>3. rows'[i] = SweptRow(u, at, w)
      BY DEF RecoverAfterRestart, Live
    <2>4. Keeps(rows[i], rows'[i])
      BY <1>0, <2>1, <2>3, RecoveredRowKeeps
    <2> HIDE DEF u
    <2>5. rows'[i] \in Reservation /\ Gently(u, rows'[i], now)
      BY <1>0, <2>2, <2>3, SweptGently
    <2>6. rows[i].safe \in Nat
      BY <2>1 DEF Reservation
    <2> QED
      BY <2>2, <2>4, <2>5, <2>6 DEF RowStep, Gently
  <1>2. \A i \in Ids \ Live(rows) : rows'[i] = None
    BY DEF RecoverAfterRestart, Live
  <1> QED
    BY <1>1, <1>2, NoneIsNoRow DEF Live

LEMMA OtherRowsStep ==
  ASSUME StoreTypeOK, NEW j \in Live(rows), NEW s \in Reservation,
         RowStep(rows[j], s), rows' = [rows EXCEPT ![j] = s]
  PROVE  \A i \in Live(rows) : i \in Live(rows') /\ RowStep(rows[i], rows'[i])
  <1>1. \A i \in Live(rows) : rows[i] \in Reservation /\ RowStep(rows[i], rows[i])
    BY SameRow DEF StoreTypeOK, Live
  <1> QED
    BY <1>1, NoneIsNoRow DEF StoreTypeOK, Live

\* Every operation of the store treats every row so.
LEMMA RowsStep ==
  ASSUME StoreTypeOK, [StoreNext]_storeVars, NEW i \in Live(rows)
  PROVE  i \in Live(rows') /\ RowStep(rows[i], rows'[i])
  <1>0. /\ rows \in RowMap /\ now \in Nat
        /\ \A j \in Live(rows) : rows[j] \in Reservation /\ rows[j].safe \in Nat
    BY DEF StoreTypeOK, RowMap, Live, Reservation
  <1>1. ASSUME NEW q \in Request, NEW at \in Readings, TryReserve(q, at)
        PROVE  i \in Live(rows') /\ RowStep(rows[i], rows'[i])
    BY <1>0, <1>1, ReserveGently, GentlyIsRowStep
  <1>2. ASSUME NEW j \in Ids, NEW d \in 0..Tolerance,
               NEW f \in Refs \cup {None}, Sign(j, rows[j].safe + d, f)
        PROVE  i \in Live(rows') /\ RowStep(rows[i], rows'[i])
    <2> DEFINE s == Signed(rows[j], rows[j].safe + d, f)
    <2>1. /\ j \in Live(rows) /\ rows[j].status = "reserved"
          /\ rows' = [rows EXCEPT ![j] = s]
      BY <1>2 DEF Sign, InStatus
    <2>2. rows[j] \in Reservation /\ d \in Nat /\ rows[j].safe + d \in Nat
      BY <1>0, <2>1, ValidityBounds
    <2>3. /\ s \in Reservation /\ s.safe >= rows[j].safe
          /\ Keeps(rows[j], s) /\ s.status = "signed"
      <3>1. s \in Reservation /\ s.status = "signed"
        BY <2>2, SignedType
      <3>2. s.safe >= rows[j].safe
        BY <2>2 DEF Signed, Reservation
      <3>3. Keeps(rows[j], s)
        BY <2>1, <2>2, Statuses DEF Keeps, Signed, Reservation
      <3> QED
        BY <3>1, <3>2, <3>3
    <2> HIDE DEF s
    <2> QED
      BY <2>1, <2>3, OtherRowsStep DEF RowStep
  <1>3. ASSUME NEW j \in Ids, Release(j)
        PROVE  i \in Live(rows') /\ RowStep(rows[i], rows'[i])
    <2> DEFINE s == [rows[j] EXCEPT !.status = "released"]
    <2>1. /\ j \in Live(rows) /\ rows[j].status = "reserved"
          /\ rows' = [rows EXCEPT ![j] = s]
      BY <1>3 DEF Release, InStatus
    <2>2. s \in Reservation /\ Keeps(rows[j], s) /\ s.safe = rows[j].safe
      BY <1>0, <2>1, Statuses DEF Keeps, Reservation
    <2> HIDE DEF s
    <2>3. RowStep(rows[j], s)
      BY <1>0, <2>1, <2>2 DEF RowStep
    <2> QED
      BY <2>1, <2>2, <2>3, OtherRowsStep
  <1>4. ASSUME NEW j \in Ids, NEW at \in Readings, Settle(j, at)
        PROVE  i \in Live(rows') /\ RowStep(rows[i], rows'[i])
    <2> DEFINE s == [rows[j] EXCEPT !.status = "settled", !.settledAt = at]
    <2>1. /\ j \in Live(rows) /\ rows[j].status = "signed"
          /\ rows' = [rows EXCEPT ![j] = s]
      BY <1>0, <1>4 DEF Settle, InStatus, RowMap
    <2>2. /\ s \in Reservation /\ Keeps(rows[j], s) /\ s.safe = rows[j].safe
          /\ s.ref = rows[j].ref /\ s.status = "settled"
      BY <1>0, <2>1, Statuses, ReadingsAreInstants DEF Keeps, Reservation
    <2> HIDE DEF s
    <2>3. RowStep(rows[j], s)
      BY <1>0, <2>1, <2>2 DEF RowStep
    <2> QED
      BY <2>1, <2>2, <2>3, OtherRowsStep
  <1>5. ASSUME NEW j \in Ids, LoseTrack(j)
        PROVE  i \in Live(rows') /\ RowStep(rows[i], rows'[i])
    <2> DEFINE s == [rows[j] EXCEPT !.status = "unknown"]
    <2>1. /\ j \in Live(rows) /\ rows[j].status = "signed"
          /\ rows' = [rows EXCEPT ![j] = s]
      BY <1>5 DEF LoseTrack, InStatus
    <2>2. /\ s \in Reservation /\ Keeps(rows[j], s) /\ s.safe = rows[j].safe
          /\ s.ref = rows[j].ref /\ s.status = "unknown"
      BY <1>0, <2>1, Statuses DEF Keeps, Reservation
    <2> HIDE DEF s
    <2>3. RowStep(rows[j], s)
      BY <1>0, <2>1, <2>2 DEF RowStep
    <2> QED
      BY <2>1, <2>2, <2>3, OtherRowsStep
  <1>6. ASSUME NEW at \in Readings, NEW w \in Windows,
               ReleaseExpired(at, w) \/ RecoverAfterRestart(at, w)
        PROVE  i \in Live(rows') /\ RowStep(rows[i], rows'[i])
    BY <1>0, <1>6, ExpireGently, RecoverSteps, GentlyIsRowStep
  <1>7. CASE Tick \/ UNCHANGED storeVars
    BY <1>0, <1>7, SameRow DEF Tick, storeVars
  <1> QED
    BY <1>1, <1>2, <1>3, <1>4, <1>5, <1>6, <1>7 DEF StoreNext

\* A deadline that is not later leaves the row's own: signing early is signing
\* on time.
LEMMA SignedEarly ==
  ASSUME NEW r \in Reservation, NEW safe \in Nat, safe <= r.safe, NEW f
  PROVE  Signed(r, safe, f) = Signed(r, r.safe + 0, f)
  <1>1. r.safe \in Nat /\ r.safe + 0 = r.safe
    BY DEF Reservation
  <1>2. /\ MaxOf(r.safe, safe) = r.safe /\ MaxOf(r.safe, r.safe + 0) = r.safe
        /\ ~(safe > r.safe) /\ ~(r.safe + 0 > r.safe)
    BY <1>1 DEF MaxOf
  <1> QED
    BY <1>2 DEF Signed

\* What a sweep leaves reserved is not yet due.
LEMMA ReserveSweeps ==
  ASSUME StoreTypeOK, NEW q \in Request, NEW at \in Readings, TryReserve(q, at),
         NEW i \in Live(rows), rows[i].principal = q.principal,
         rows'[i].status = "reserved"
  PROVE  rows'[i].safe > at
  <1> DEFINE rs == Swept(rows, {q.principal}, at, q.window)
             s == SweptRow(rows[i], at, q.window)
  <1>0. rows[i] \in Reservation /\ i \in Ids /\ at \in Nat /\ q.window \in Nat
    BY ReadingsAreInstants, WindowBounds DEF StoreTypeOK, Live, Request
  <1>1. s \in Reservation /\ s.safe = rows[i].safe
    BY <1>0, SweptRowKeeps
  <1>2. rs[i] = s /\ i \in Live(rs)
    BY <1>0, <1>1, NoneIsNoRow DEF Swept, Live
  <1>3. rows'[i] = s
    <2>1. rs = [j \in Ids |-> rs[j]]
      BY DEF Swept
    <2>2. \/ rows' = rs
          \/ \E n \in Ids \ Live(rs) : rows' = [rs EXCEPT ![n] = NewRow(q, at)]
      BY DEF TryReserve
    <2> HIDE DEF rs, s
    <2> QED
      BY <1>0, <1>2, <2>1, <2>2
  <1>4. s.status = "reserved" => s.safe > at
    BY <1>0 DEF SweptRow, Expired, Extended, Due, Deadline, Reservation, Pending,
                Uncertain
  <1> HIDE DEF s
  <1> QED
    BY <1>3, <1>4

\* An uncertain row is expired a window after its payment could last be made.
LEMMA UncertainWaits ==
  ASSUME StoreTypeOK, [StoreNext]_storeVars, NEW i \in Live(rows),
         rows[i].status \in Uncertain, rows'[i].status = "expired"
  PROVE  now >= rows'[i].safe + rows'[i].window
  <1>0. /\ rows \in RowMap /\ now \in Nat /\ i \in Ids /\ rows[i] \in Reservation
        /\ rows[i].status \in {"signed", "submitted", "unknown"}
    BY DEF StoreTypeOK, RowMap, Live, Uncertain
  <1>1. ASSUME NEW at \in Readings, NEW w \in Nat, rows'[i] = SweptRow(rows[i], at, w)
        PROVE  now >= rows'[i].safe + rows'[i].window
    <2> DEFINE s == SweptRow(rows[i], at, w)
    <2>1. at \in Nat /\ at <= now
      BY <1>0, ReadingsAreInstants
    <2>2. /\ s \in Reservation /\ s.safe = rows[i].safe /\ s.window = rows[i].window
      BY <1>0, <2>1, SweptRowKeeps DEF Keeps
    <2>3. at >= rows[i].safe + MaxOf(rows[i].window, w)
      BY <1>0, <1>1, <2>1, SweptRowWaits
    <2> HIDE DEF s
    <2>4. MaxOf(rows[i].window, w) >= rows[i].window /\ MaxOf(rows[i].window, w) \in Nat
          /\ rows[i].window \in Nat /\ rows[i].safe \in Nat
      BY <1>0 DEF MaxOf, Reservation
    <2> QED
      BY <1>0, <1>1, <2>1, <2>2, <2>3, <2>4 DEF s
  <1>2. ASSUME NEW q \in Request, NEW at \in Readings, TryReserve(q, at)
        PROVE  \E w \in Nat : rows'[i] = rows[i] \/ rows'[i] = SweptRow(rows[i], at, w)
    <2> DEFINE rs == Swept(rows, {q.principal}, at, q.window)
    <2>1. q.window \in Nat /\ at \in Nat
      BY <1>0, <1>2, ReadingsAreInstants, WindowBounds DEF Request
    <2>2. rs[i] = rows[i] \/ rs[i] = SweptRow(rows[i], at, q.window)
      BY <1>0 DEF Swept
    <2>3. rs[i] \in Reservation
      BY <1>0, <2>1, <2>2, SweptRowKeeps
    <2>4. i \in Live(rs) /\ rs = [j \in Ids |-> rs[j]]
      BY <1>0, <2>3, NoneIsNoRow DEF Live, Swept
    <2>5. \/ rows' = rs
          \/ \E n \in Ids \ Live(rs) : rows' = [rs EXCEPT ![n] = NewRow(q, at)]
      BY <1>2 DEF TryReserve
    <2> HIDE DEF rs
    <2>6. rows'[i] = rs[i]
      BY <1>0, <2>4, <2>5
    <2> QED
      BY <2>1, <2>2, <2>6
  <1>3. ASSUME NEW at \in Readings, NEW w \in Windows,
               ReleaseExpired(at, w) \/ RecoverAfterRestart(at, w)
        PROVE  \E v \in Nat : rows'[i] = rows[i] \/ \E r \in {rows[i], UnknownRow(rows[i])} :
                                                     rows'[i] = SweptRow(r, at, v)
    BY <1>0, <1>3, WindowBounds DEF ReleaseExpired, RecoverAfterRestart, Swept
  <1>4. ASSUME NEW at \in Readings, NEW w \in Nat,
               rows'[i] = SweptRow(UnknownRow(rows[i]), at, w)
        PROVE  now >= rows'[i].safe + rows'[i].window
    <2> DEFINE u == UnknownRow(rows[i])
               s == SweptRow(u, at, w)
    <2>1. at \in Nat /\ at <= now
      BY <1>0, ReadingsAreInstants
    <2>2. u \in Reservation /\ u.status = "unknown"
      BY <1>0, UnknownRowKeeps DEF UnknownRow, Reservation, Pending, Uncertain
    <2> HIDE DEF u
    <2>3. s \in Reservation /\ s.safe = u.safe /\ s.window = u.window
      BY <2>1, <2>2, SweptRowKeeps DEF Keeps
    <2>4. at >= u.safe + MaxOf(u.window, w)
      BY <1>4, <2>1, <2>2, SweptRowWaits DEF Uncertain, u
    <2> HIDE DEF s
    <2>5. MaxOf(u.window, w) >= u.window /\ MaxOf(u.window, w) \in Nat
          /\ u.window \in Nat /\ u.safe \in Nat
      BY <2>2 DEF MaxOf, Reservation
    <2> QED
      BY <1>0, <1>4, <2>1, <2>3, <2>4, <2>5 DEF s, u
  <1>5. rows'[i] # rows[i]
    BY <1>0
  <1>6. ASSUME NEW j \in Ids, NEW d \in 0..Tolerance,
               NEW f \in Refs \cup {None}, Sign(j, rows[j].safe + d, f)
        PROVE  FALSE
    BY <1>0, <1>5, <1>6 DEF Sign, InStatus, RowMap
  <1>7. ASSUME NEW j \in Ids, NEW at, Release(j) \/ Settle(j, at) \/ LoseTrack(j)
        PROVE  FALSE
    BY <1>0, <1>5, <1>7 DEF Release, Settle, LoseTrack, InStatus, RowMap, Reservation
  <1>8. CASE Tick \/ UNCHANGED storeVars
    BY <1>5, <1>8 DEF Tick, storeVars
  <1> QED
    BY <1>1, <1>2, <1>3, <1>4, <1>5, <1>6, <1>7, <1>8 DEF StoreNext

\* So is a row that was signed, or was expired before.
LEMMA ExpiredWaits ==
  ASSUME StoreTypeOK, [StoreNext]_storeVars, NEW i \in Live(rows),
         rows[i].status # "reserved", rows'[i].status = "expired"
  PROVE  rows[i].status = "expired" \/ now >= rows'[i].safe + rows'[i].window
  <1>1. CASE storeVars' = storeVars
    BY <1>1 DEF storeVars
  <1>2. CASE StoreNext
    <2>1. Accounted(rows[i], rows'[i], now)
      BY <1>2, StepAccounts
    <2>2. rows[i].status \in {"expired"} \cup Uncertain
      BY <2>1 DEF Accounted, Pending
    <2> QED
      BY <2>2, UncertainWaits
  <1> QED
    BY <1>1, <1>2

-----------------------------------------------------------------------------
(* Refinement: the ledger that forgets nothing.                            *)

\* Only a settled row has an instant of settlement, and every window is one of
\* those that requests carry.
Bookable(r) ==
  /\ r.status # "settled" => r.settledAt = None
  /\ r.window >= MinWindow

RowsBookable == \A i \in Live(rows) : Bookable(rows[i])

\* How the entry of a row may move, in terms of the row.
EntryStep(r, s) ==
  /\ Keeps(r, s)
  /\ \/ /\ LedgerState(s) = LedgerState(r)
        /\ s.safe = r.safe /\ s.settledAt = r.settledAt
     \/ /\ r.status = "reserved" /\ s.status \in Uncertain
        /\ s.safe >= r.safe /\ s.settledAt = r.settledAt
     \/ /\ r.status \in Uncertain /\ s.status = "settled"
        /\ s.safe = r.safe /\ s.settledAt \in 0..now
     \/ /\ \/ r.status = "reserved"
           \/ r.status \in Uncertain /\ now >= r.safe + r.window
        /\ s.status \in {"expired", "released"}
        /\ s.safe = r.safe /\ s.settledAt = r.settledAt

\* Every row steps so, and there are no others.
TableSteps(ss) ==
  /\ ss \in RowMap
  /\ Live(ss) = Live(rows)
  /\ \A i \in Live(rows) : EntryStep(rows[i], ss[i])

LEMMA LedgerStates ==
  ASSUME NEW r \in Reservation
  PROVE  /\ r.status = "reserved" <=> LedgerState(r) = "reserved"
         /\ r.status \in Uncertain <=> LedgerState(r) = "uncertain"
         /\ r.status = "settled" <=> LedgerState(r) = "spent"
         /\ r.status \in {"expired", "released"} <=> LedgerState(r) = "void"
         /\ r.status \in Pending <=> LedgerState(r) \in Ledger!Open
         /\ LedgerState(r) \in {"reserved", "uncertain", "spent", "void"}
  <1>1. r.status \in {"reserved"} \cup Uncertain \cup {"settled", "expired", "released"}
    BY DEF Reservation, Pending, Terminal
  <1>2. CASE r.status \in Uncertain
    <2>1. r.status \notin {"reserved", "settled", "expired", "released"}
      BY <1>2 DEF Uncertain
    <2>2. LedgerState(r) = "uncertain"
      BY <1>2 DEF LedgerState
    <2> QED
      BY <1>2, <2>1, <2>2 DEF Pending, Ledger!Open
  <1>3. CASE r.status \in {"reserved", "settled", "expired", "released"}
    <2>1. r.status \notin Uncertain
      BY <1>3 DEF Uncertain
    <2> QED
      BY <1>3, <2>1 DEF LedgerState, Pending, Ledger!Open
  <1> QED
    BY <1>1, <1>2, <1>3

LEMMA EntryOfRow ==
  ASSUME NEW r \in Reservation, Bookable(r)
  PROVE  /\ LedgerEntry(r) \in Ledger!Entry /\ LedgerEntry(r) # None
         /\ LedgerEntry(r).principal = r.principal
         /\ LedgerEntry(r).mandate = r.mandate
         /\ LedgerEntry(r).amount = r.amount
         /\ LedgerEntry(r).window = r.window
         /\ LedgerEntry(r).due = r.safe
         /\ LedgerEntry(r).state = LedgerState(r)
         /\ LedgerEntry(r).spentAt = r.settledAt
  <1>1. r.window \in {w \in Nat : w >= MinWindow}
    BY DEF Reservation, Bookable
  <1>2. LedgerState(r) \in Ledger!Open \cup {"spent", "void"}
    BY LedgerStates DEF Ledger!Open
  <1>3. LedgerEntry(r) \in Ledger!Entry
    BY <1>1, <1>2 DEF LedgerEntry, Ledger!Entry, Reservation
  <1> QED
    BY <1>3, NoneIsNoLedgerEntry DEF LedgerEntry

LEMMA EntryMoves ==
  ASSUME NEW r \in Reservation, NEW s \in Reservation, Bookable(r), EntryStep(r, s)
  PROVE  Ledger!Moves(LedgerEntry(r), LedgerEntry(s)) /\ Bookable(s)
  <1> DEFINE e == LedgerEntry(r)
             f == LedgerEntry(s)
  <1>0. Bookable(s)
    <2>1. s.window >= MinWindow
      BY DEF Bookable, EntryStep, Keeps
    <2>2. s.status # "settled" => s.settledAt = None
      <3>1. CASE LedgerState(s) = LedgerState(r) /\ s.settledAt = r.settledAt
        BY <3>1, LedgerStates DEF Bookable
      <3>2. CASE s.settledAt = r.settledAt /\ r.status \in {"reserved"} \cup Uncertain
        BY <3>2 DEF Bookable, Uncertain
      <3>3. CASE s.status = "settled"
        BY <3>3
      <3> QED
        BY <3>1, <3>2, <3>3 DEF EntryStep
    <2> QED
      BY <2>1, <2>2 DEF Bookable
  <1>1. /\ e # None /\ f # None
        /\ e.due = r.safe /\ e.state = LedgerState(r) /\ e.spentAt = r.settledAt
        /\ f.due = s.safe /\ f.state = LedgerState(s) /\ f.spentAt = s.settledAt
        /\ e.window = r.window
    BY <1>0, EntryOfRow
  <1>2. Ledger!SameEntry(e, f)
    <2>1. /\ e.principal = r.principal /\ e.mandate = r.mandate
          /\ e.amount = r.amount /\ e.window = r.window
          /\ f.principal = s.principal /\ f.mandate = s.mandate
          /\ f.amount = s.amount /\ f.window = s.window
      BY <1>0, EntryOfRow
    <2> HIDE DEF e, f
    <2> QED
      BY <2>1 DEF Ledger!SameEntry, EntryStep, Keeps
  <1>3. CASE /\ LedgerState(s) = LedgerState(r)
             /\ s.safe = r.safe /\ s.settledAt = r.settledAt
    <2>1. f = e
      BY <1>3 DEF LedgerEntry, EntryStep, Keeps
    <2> QED
      BY <1>0, <2>1 DEF Ledger!Moves
  <1>4. CASE /\ r.status = "reserved" /\ s.status \in Uncertain
             /\ s.safe >= r.safe /\ s.settledAt = r.settledAt
    <2>1. s.settledAt = None
      BY <1>4 DEF Bookable
    <2>2. LedgerState(r) = "reserved" /\ LedgerState(s) = "uncertain"
      BY <1>4, LedgerStates
    <2> HIDE DEF e, f
    <2>3. Ledger!Signs(e, f)
      BY <1>1, <1>4, <2>1, <2>2 DEF Ledger!Signs
    <2> QED
      BY <1>0, <1>1, <1>2, <2>3 DEF Ledger!Moves, e, f
  <1>5. CASE /\ r.status \in Uncertain /\ s.status = "settled"
             /\ s.safe = r.safe /\ s.settledAt \in 0..now
    <2>1. LedgerState(r) = "uncertain" /\ LedgerState(s) = "spent"
      BY <1>5, LedgerStates
    <2> HIDE DEF e, f
    <2>2. Ledger!Settles(e, f)
      BY <1>1, <1>5, <2>1 DEF Ledger!Settles
    <2> QED
      BY <1>0, <1>1, <1>2, <2>2 DEF Ledger!Moves, e, f
  <1>6. CASE /\ \/ r.status = "reserved"
                \/ r.status \in Uncertain /\ now >= r.safe + r.window
             /\ s.status \in {"expired", "released"}
             /\ s.safe = r.safe /\ s.settledAt = r.settledAt
    <2>1. LedgerState(s) = "void"
      BY <1>6, LedgerStates
    <2>2. \/ LedgerState(r) = "reserved"
          \/ LedgerState(r) = "uncertain" /\ now >= r.safe + r.window
      BY <1>6, LedgerStates
    <2> HIDE DEF e, f
    <2>3. Ledger!Lapses(e, f)
      BY <1>1, <1>6, <2>1, <2>2 DEF Ledger!Lapses
    <2> QED
      BY <1>0, <1>1, <1>2, <2>3 DEF Ledger!Moves, e, f
  <1> QED
    BY <1>3, <1>4, <1>5, <1>6 DEF EntryStep

\* A sweep moves the entry of a row as the ledger allows, and so does forgetting
\* followed by a sweep.
LEMMA SweptEntryStep ==
  ASSUME NEW r \in Reservation, NEW at \in Nat, now \in Nat, at <= now, NEW w \in Nat
  PROVE  SweptRow(r, at, w) \in Reservation /\ EntryStep(r, SweptRow(r, at, w))
  <1> DEFINE s == SweptRow(r, at, w)
  <1>1. /\ s \in Reservation /\ Keeps(r, s) /\ s.safe = r.safe
        /\ s.settledAt = r.settledAt
    BY SweptRowKeeps
  <1>2. \/ s.status = r.status
        \/ s.status = "expired" /\ r.status \in Pending
    BY SweptRowStatus
  <1>3. ASSUME r.status \in Uncertain, s.status = "expired"
        PROVE  now >= r.safe + r.window
    <2>1. at >= r.safe + MaxOf(r.window, w)
      BY <1>3, SweptRowWaits
    <2> QED
      BY <2>1 DEF Reservation
  <1> HIDE DEF s
  <1>4. CASE s.status = r.status
    <2>1. LedgerState(s) = LedgerState(r)
      BY <1>4 DEF LedgerState
    <2> QED
      BY <1>1, <2>1 DEF EntryStep, s
  <1>5. CASE s.status = "expired" /\ r.status \in Pending
    <2>1. \/ r.status = "reserved"
          \/ r.status \in Uncertain /\ now >= r.safe + r.window
      BY <1>3, <1>5 DEF Pending
    <2>2. s.status \in {"expired", "released"}
      BY <1>5
    <2> QED
      BY <1>1, <2>1, <2>2 DEF EntryStep, s
  <1> QED
    BY <1>2, <1>4, <1>5

LEMMA RecoveredEntryStep ==
  ASSUME NEW r \in Reservation, NEW at \in Nat, now \in Nat, at <= now, NEW w \in Nat
  PROVE  /\ SweptRow(UnknownRow(r), at, w) \in Reservation
         /\ EntryStep(r, SweptRow(UnknownRow(r), at, w))
  <1> DEFINE u == UnknownRow(r)
  <1>1. CASE r.status \notin Pending
    <2>1. UnknownRow(r) = r
      BY <1>1 DEF UnknownRow
    <2> QED
      BY <2>1, SweptEntryStep
  <1>2. CASE r.status \in Pending
    <2>1. u = [r EXCEPT !.status = "unknown"]
      BY <1>2 DEF UnknownRow
    <2>2. /\ u \in Reservation /\ u.status = "unknown" /\ u.safe = r.safe
          /\ u.window = r.window
      <3>1. u.status = "unknown" /\ u.window = r.window /\ u.safe = r.safe
        BY <2>1 DEF Reservation
      <3> QED
        BY <3>1, UnknownRowKeeps
    <2> DEFINE s == SweptRow(u, at, w)
    <2>3. /\ s \in Reservation /\ Keeps(r, s) /\ s.safe = r.safe
          /\ s.settledAt = r.settledAt
      BY RecoveredRowKeeps
    <2> HIDE DEF u
    <2>4. s.status = "unknown" \/ s.status = "expired"
      BY <2>2, SweptRowStatus
    <2>5. ASSUME s.status = "expired" PROVE now >= r.safe + r.window
      <3>1. at >= u.safe + MaxOf(u.window, w)
        BY <2>2, <2>5, SweptRowWaits DEF Uncertain
      <3> QED
        BY <2>2, <3>1 DEF Reservation
    <2> HIDE DEF s
    <2>6. r.status = "reserved" \/ r.status \in Uncertain
      BY <1>2 DEF Pending
    <2>7. CASE s.status = "unknown"
      <3>1. s.status \in Uncertain
        BY <2>7 DEF Uncertain
      <3>2. s.safe >= r.safe
        BY <2>3 DEF Reservation
      <3>3. r.status \in Uncertain => LedgerState(s) = LedgerState(r)
        BY <3>1 DEF LedgerState
      <3> QED
        BY <2>3, <2>6, <3>1, <3>2, <3>3 DEF EntryStep, s, u
    <2>8. CASE s.status = "expired"
      <3>1. EntryStep(r, s)
        BY <2>3, <2>5, <2>6, <2>8 DEF EntryStep
      <3> QED
        BY <2>3, <3>1 DEF s, u
    <2> QED
      BY <2>4, <2>7, <2>8
  <1> QED
    BY <1>1, <1>2

LEMMA SameEntryStep ==
  ASSUME NEW r \in Reservation
  PROVE  EntryStep(r, r)
  <1>1. Keeps(r, r)
    BY Statuses DEF Keeps, Reservation
  <1> QED
    BY <1>1 DEF EntryStep

\* The entries of a table.
EntriesOf(rs) == [i \in Ids |-> IF rs[i] = None THEN None ELSE LedgerEntry(rs[i])]

\* When every row steps so, every entry moves as the ledger allows.
LEMMA TableMoves ==
  ASSUME StoreTypeOK, RowsBookable, NEW ss, TableSteps(ss)
  PROVE  /\ EntriesOf(ss) \in Ledger!Entries
         /\ \A i \in Ids : Ledger!Moves(LedgerEntries[i], EntriesOf(ss)[i])
         /\ \A i \in Live(ss) : Bookable(ss[i])
  <1>0. /\ rows \in RowMap /\ ss \in RowMap /\ Live(ss) = Live(rows)
        /\ \A i \in Live(rows) : /\ rows[i] \in Reservation /\ ss[i] \in Reservation
                                 /\ Bookable(rows[i]) /\ EntryStep(rows[i], ss[i])
    BY DEF StoreTypeOK, RowMap, TableSteps, RowsBookable, Live
  <1>1. \A i \in Live(rows) : /\ Ledger!Moves(LedgerEntry(rows[i]), LedgerEntry(ss[i]))
                              /\ Bookable(ss[i])
    BY <1>0, EntryMoves
  <1>2. ASSUME NEW i \in Ids
        PROVE  /\ Ledger!Moves(LedgerEntries[i], EntriesOf(ss)[i])
               /\ EntriesOf(ss)[i] \in Ledger!Entry \cup {None}
    <2>1. CASE i \in Live(rows)
      <3>1. LedgerEntries[i] = LedgerEntry(rows[i]) /\ EntriesOf(ss)[i] = LedgerEntry(ss[i])
        BY <1>0, <2>1 DEF LedgerEntries, EntriesOf, Live
      <3>2. LedgerEntry(ss[i]) \in Ledger!Entry
        BY <1>0, <1>1, <2>1, EntryOfRow
      <3> QED
        BY <1>1, <2>1, <3>1, <3>2
    <2>2. CASE i \notin Live(rows)
      <3>1. rows[i] = None /\ ss[i] = None
        BY <1>0, <2>2 DEF Live
      <3>2. LedgerEntries[i] = None /\ EntriesOf(ss)[i] = None
        BY <3>1 DEF LedgerEntries, EntriesOf
      <3> QED
        BY <3>2 DEF Ledger!Moves
    <2> QED
      BY <2>1, <2>2
  <1>3. EntriesOf(ss) \in Ledger!Entries
    BY <1>2 DEF EntriesOf, Ledger!Entries
  <1> QED
    BY <1>0, <1>1, <1>2, <1>3

LEMMA TableAmends ==
  ASSUME StoreTypeOK, RowsBookable, TableSteps(rows'), now' = now
  PROVE  Ledger!Amend /\ RowsBookable'
  <1>1. LedgerEntries' = EntriesOf(rows')
    BY DEF LedgerEntries, EntriesOf
  <1> QED
    BY <1>1, TableMoves DEF Ledger!Amend, RowsBookable

LEMMA SweptTable ==
  ASSUME StoreTypeOK, NEW at \in Nat, at <= now, NEW w \in Nat, NEW ps
  PROVE  TableSteps(Swept(rows, ps, at, w))
  <1> DEFINE ss == Swept(rows, ps, at, w)
  <1>0. /\ now \in Nat /\ rows \in RowMap
        /\ \A i \in Live(rows) : i \in Ids /\ rows[i] \in Reservation
        /\ \A r \in Reservation : r # None
    BY NoneIsNoRow DEF StoreTypeOK, RowMap, Live
  <1>1. ss \in RowMap /\ \A i \in Live(ss) : i \in Live(rows)
    BY <1>0, SweptKeeps
  <1>2. ASSUME NEW i \in Live(rows)
        PROVE  i \in Live(ss) /\ EntryStep(rows[i], ss[i])
    <2>1. ss[i] = rows[i] \/ ss[i] = SweptRow(rows[i], at, w)
      BY <1>0 DEF Swept
    <2>2. ss[i] \in Reservation /\ EntryStep(rows[i], ss[i])
      BY <1>0, <2>1, SweptEntryStep, SameEntryStep
    <2> QED
      BY <1>0, <2>2 DEF Live
  <1> HIDE DEF ss
  <1>3. Live(ss) = Live(rows)
    BY <1>1, <1>2
  <1> QED
    BY <1>1, <1>2, <1>3 DEF TableSteps, ss

LEMMA RecoveredTable ==
  ASSUME StoreTypeOK, NEW at \in Readings, NEW w \in Windows, RecoverAfterRestart(at, w)
  PROVE  TableSteps(rows')
  <1>0. /\ now \in Nat /\ at \in Nat /\ at <= now /\ w \in Nat
        /\ \A i \in Live(rows) : i \in Ids /\ rows[i] \in Reservation
    BY ReadingsAreInstants, WindowBounds DEF StoreTypeOK, Live
  <1>1. rows' \in RowMap /\ Live(rows') = Live(rows)
    <2>1. [StoreNext]_storeVars
      BY DEF StoreNext
    <2>2. StoreTypeOK'
      BY <2>1, NextType
    <2> QED
      BY <2>2, RecoverSteps DEF StoreTypeOK, RowMap
  <1>2. \A i \in Live(rows) : EntryStep(rows[i], rows'[i])
    <2> TAKE i \in Live(rows)
    <2>1. rows'[i] = SweptRow(UnknownRow(rows[i]), at, w)
      BY <1>0 DEF RecoverAfterRestart
    <2> QED
      BY <1>0, <2>1, RecoveredEntryStep
  <1> QED
    BY <1>1, <1>2 DEF TableSteps

LEMMA OneRowTable ==
  ASSUME StoreTypeOK, NEW j \in Live(rows), NEW s \in Reservation,
         EntryStep(rows[j], s), rows' = [rows EXCEPT ![j] = s]
  PROVE  TableSteps(rows')
  <1>0. /\ rows \in RowMap /\ \A i \in Live(rows) : EntryStep(rows[i], rows[i])
    BY SameEntryStep DEF StoreTypeOK, RowMap, Live
  <1>1. rows' \in RowMap /\ Live(rows') = Live(rows)
    BY <1>0, NoneIsNoRow DEF RowMap, Live
  <1>2. \A i \in Live(rows) : EntryStep(rows[i], rows'[i])
    BY <1>0 DEF RowMap, Live
  <1> QED
    BY <1>1, <1>2 DEF TableSteps

\* The instance of the ledger counts as this module does.
LEMMA SameCardinality == \A S : Ledger!Cardinality(S) = Cardinality(S)
  BY DEF Ledger!Cardinality, Cardinality

\* What weighs on a cap of the ledger now was counted at the instant of the
\* request, which is no later.
LEMMA WeighingIsCounted ==
  ASSUME now \in Nat, NEW at \in Nat, at <= now, NEW w \in Nat,
         NEW rs \in RowMap, SettledTyped(rs), \A i \in Live(rs) : Bookable(rs[i]),
         NEW es, NEW p, NEW ms, NEW j \in Ledger!Weighing(es, p, ms, w),
         es[j] = EntriesOf(rs)[j]
  PROVE  j \in Counted(rs, p, ms, at, w) /\ rs[j].amount = es[j].amount
  <1>1. /\ j \in Ids /\ es[j] # None /\ Ledger!Weighs(es[j], w)
        /\ es[j].principal = p /\ es[j].mandate \in ms
    BY DEF Ledger!Weighing
  <1>2. /\ j \in Live(rs) /\ rs[j] \in Reservation /\ rs[j].window \in Nat
        /\ Bookable(rs[j]) /\ es[j] = LedgerEntry(rs[j])
        /\ rs[j].status = "settled" => rs[j].settledAt \in Nat
    BY <1>1 DEF EntriesOf, Live, RowMap, SettledTyped, Reservation
  <1>3. /\ es[j].principal = rs[j].principal /\ es[j].mandate = rs[j].mandate
        /\ es[j].amount = rs[j].amount /\ es[j].window = rs[j].window
        /\ es[j].state = LedgerState(rs[j]) /\ es[j].spentAt = rs[j].settledAt
    BY <1>2, EntryOfRow
  <1>4. Occupies(rs[j], at, w)
    <2>1. CASE es[j].state \in Ledger!Open
      BY <1>2, <1>3, <2>1, LedgerStates DEF Occupies
    <2>2. CASE es[j].state = "spent" /\ es[j].spentAt > now - Ledger!Longer(es[j].window, w)
      <3>1. rs[j].status = "settled" /\ rs[j].settledAt \in Nat
        BY <1>2, <1>3, <2>2, LedgerStates
      <3>2. rs[j].settledAt > at - MaxOf(rs[j].window, w)
        BY <1>2, <1>3, <2>2, <3>1 DEF Ledger!Longer
      <3> QED
        BY <3>1, <3>2 DEF Occupies
    <2> QED
      BY <1>1, <2>1, <2>2 DEF Ledger!Weighs
  <1> QED
    BY <1>1, <1>2, <1>3, <1>4 DEF Counted

\* A request that is admitted at its own instant fits the caps of the ledger at
\* the clock.
LEMMA AdmittedFits ==
  ASSUME now \in Nat, NEW q \in Request, NEW at \in Nat, at <= now,
         NEW rs \in RowMap, SettledTyped(rs), \A i \in Live(rs) : Bookable(rs[i]),
         Admits(rs, q, at), NEW n \in Ids,
         NEW es, \A j \in Ids \ {n} : es[j] = EntriesOf(rs)[j],
         es[n].principal = q.principal, es[n].mandate = q.mandate,
         es[n].amount = q.amount, es[n].window = q.window
  PROVE  Ledger!FitsCaps(es, es[n])
  <1>1. q.window \in Nat /\ q.amount \in 0..MaxAmount /\ q.amount \in Nat
    <2>1. q.window \in Windows /\ q.amount \in Amounts
      BY DEF Request
    <2>2. q.window \in Nat /\ q.amount \in 0..MaxAmount /\ MaxAmount \in Nat
      BY <2>1, AmountBounds, WindowBounds
    <2> QED
      BY <2>2
  <1>2. ASSUME NEW ms
        PROVE  /\ Ledger!Sum(es, Ledger!Weighing(es, q.principal, ms, q.window))
                    <= Committed(rs, q.principal, ms, at, q.window) + q.amount
               /\ Ledger!Sum(es, Ledger!Weighing(es, q.principal, ms, q.window)) \in Nat
               /\ Committed(rs, q.principal, ms, at, q.window) \in Nat
    <2> DEFINE js == Ledger!Weighing(es, q.principal, ms, q.window)
               is == Counted(rs, q.principal, ms, at, q.window)
    <2>1. js \in SUBSET Ids /\ is \in SUBSET Ids
      BY CountedAreIds DEF Ledger!Weighing
    <2>2. \A j \in js \ {n} : j \in is /\ rs[j].amount = es[j].amount
      <3> TAKE j \in js \ {n}
      <3>1. es[j] = EntriesOf(rs)[j]
        BY <2>1
      <3> QED
        BY <1>1, <3>1, WeighingIsCounted
    <2>3. Committed(rs, q.principal, ms, at, q.window) = Total(rs, is)
      BY DEF Committed
    <2> HIDE DEF js, is
    <2>4. Total(es, js) <= Total(rs, is) + q.amount
      BY <1>1, <2>1, <2>2, TotalWithNew
    <2>5. Ledger!Sum(es, js) = Total(es, js)
      BY SameCardinality DEF Ledger!Sum, Total, Units
    <2> QED
      BY <2>1, <2>3, <2>4, <2>5, UnitsFinite DEF js
  <1>3. /\ Committed(rs, q.principal, {q.mandate}, at, q.window) + q.amount <= Cap
        /\ Committed(rs, q.principal, Mandates, at, q.window) + q.amount <= AggregateCap
    BY DEF Admits
  <1> QED
    BY <1>1, <1>2, <1>3, CapBounds DEF Ledger!FitsCaps

\* A request posts one entry, or amends the ledger.
LEMMA ReservePosts ==
  ASSUME StoreTypeOK, RowsBookable, NEW q \in Request, NEW at \in Readings,
         TryReserve(q, at)
  PROVE  Ledger!LedgerNext /\ RowsBookable'
  <1> DEFINE rs == Swept(rows, {q.principal}, at, q.window)
  <1>0. /\ now \in Nat /\ now' = now /\ at \in Nat /\ at <= now
        /\ q.window \in Nat /\ q.window >= MinWindow /\ MinWindow \in Nat
        /\ rows \in RowMap
    BY ReadingsAreInstants, WindowBounds DEF StoreTypeOK, RowMap, Request, TryReserve
  <1>1. TableSteps(rs)
    BY <1>0, SweptTable
  <1>2. CASE rows' = rs
    BY <1>0, <1>1, <1>2, TableAmends DEF Ledger!LedgerNext
  <1>3. CASE \E n \in Ids \ Live(rs) : /\ Admits(rs, q, at)
                                       /\ rows' = [rs EXCEPT ![n] = NewRow(q, at)]
    <2>1. PICK n \in Ids \ Live(rs) : /\ Admits(rs, q, at)
                                      /\ rows' = [rs EXCEPT ![n] = NewRow(q, at)]
      BY <1>3
    <2>2. SettledTyped(rs)
      BY <1>0, SweptKeeps DEF SettledTyped, StoreTypeOK
    <2> HIDE DEF rs
    <2>3. rs \in RowMap /\ Live(rs) = Live(rows)
      BY <1>1 DEF TableSteps
    <2>4. /\ EntriesOf(rs) \in Ledger!Entries
          /\ \A i \in Ids : Ledger!Moves(LedgerEntries[i], EntriesOf(rs)[i])
          /\ \A i \in Live(rs) : Bookable(rs[i])
      BY <1>1, TableMoves
    <2> DEFINE r == NewRow(q, at)
               es == LedgerEntries'
    <2>5. /\ r \in Reservation /\ r # None
          /\ r.principal = q.principal /\ r.mandate = q.mandate
          /\ r.amount = q.amount /\ r.window = q.window
          /\ r.status = "reserved" /\ Bookable(r)
      <3>1. r \in Reservation /\ r # None
        BY <1>0, NewRowType, NoneIsNoRow
      <3>2. /\ r.principal = q.principal /\ r.mandate = q.mandate
            /\ r.amount = q.amount /\ r.window = q.window
            /\ r.status = "reserved" /\ r.settledAt = None
        BY DEF NewRow
      <3> QED
        BY <1>0, <3>1, <3>2 DEF Bookable
    <2> HIDE DEF r
    <2>6. /\ rows'[n] = r /\ \A j \in Ids \ {n} : rows'[j] = rs[j]
      BY <2>1, <2>3 DEF RowMap, r
    <2>7. /\ es[n] = LedgerEntry(r)
          /\ \A j \in Ids \ {n} : es[j] = EntriesOf(rs)[j]
          /\ es = [i \in Ids |-> es[i]]
      BY <2>5, <2>6 DEF LedgerEntries, EntriesOf
    <2> HIDE DEF es
    <2>8. /\ es[n] \in Ledger!Entry /\ es[n] # None
          /\ es[n].principal = q.principal /\ es[n].mandate = q.mandate
          /\ es[n].amount = q.amount /\ es[n].window = q.window
          /\ es[n].state = "reserved"
      BY <2>5, <2>7, EntryOfRow, LedgerStates
    <2>9. Ledger!FitsCaps(es, es[n])
      BY <1>0, <2>1, <2>2, <2>3, <2>4, <2>7, <2>8, AdmittedFits
    <2>10. LedgerEntries[n] = None
      BY <2>1, <2>3 DEF LedgerEntries, Live
    <2>11. es \in Ledger!Entries
      <3>1. \A j \in Ids : es[j] \in Ledger!Entry \cup {None}
        BY <2>4, <2>7, <2>8 DEF Ledger!Entries
      <3> QED
        BY <2>7, <3>1 DEF Ledger!Entries
    <2>12. \A j \in Ids \ {n} : Ledger!Moves(LedgerEntries[j], es[j])
      BY <2>4, <2>7
    <2>13. Ledger!Post(n)
      BY <1>0, <2>8, <2>9, <2>10, <2>11, <2>12 DEF Ledger!Post, es
    <2>14. RowsBookable'
      BY <2>4, <2>5, <2>6 DEF RowsBookable, Live
    <2> QED
      BY <2>1, <2>13, <2>14 DEF Ledger!LedgerNext
  <1> QED
    BY <1>2, <1>3 DEF TryReserve

\* What a transition of one row does is a move of its entry.
LEMMA SignedEntryStep ==
  ASSUME NEW r \in Reservation, NEW safe \in Nat, NEW f \in Refs \cup {None},
         r.status = "reserved"
  PROVE  EntryStep(r, Signed(r, safe, f))
  <1> DEFINE s == Signed(r, safe, f)
  <1>1. s \in Reservation /\ s.status = "signed"
    BY SignedType
  <1>2. Keeps(r, s) /\ s.safe = MaxOf(r.safe, safe) /\ s.settledAt = r.settledAt
    <2>1. /\ s.principal = r.principal /\ s.mandate = r.mandate
          /\ s.payee = r.payee /\ s.amount = r.amount /\ s.window = r.window
          /\ s.safe = MaxOf(r.safe, safe) /\ s.settledAt = r.settledAt
      BY DEF Signed, Reservation
    <2>2. r.status \in Pending
      BY DEF Pending
    <2> QED
      BY <2>1, <2>2 DEF Keeps
  <1>3. s.safe >= r.safe
    BY <1>2 DEF MaxOf, Reservation
  <1>4. s.status \in Uncertain
    BY <1>1 DEF Uncertain
  <1> HIDE DEF s
  <1> QED
    BY <1>2, <1>3, <1>4 DEF EntryStep, s

LEMMA TransitionsAmend ==
  ASSUME StoreTypeOK, RowsBookable, NEW i \in Ids,
         \/ \E d \in 0..Tolerance, f \in Refs \cup {None} : Sign(i, rows[i].safe + d, f)
         \/ Release(i)
         \/ \E at \in Readings : Settle(i, at)
         \/ LoseTrack(i)
  PROVE  Ledger!Amend /\ RowsBookable'
  <1> DEFINE r == rows[i]
  <1>0. /\ i \in Live(rows) /\ r \in Reservation /\ rows \in RowMap
        /\ now \in Nat /\ now' = now
    BY DEF Sign, Release, Settle, LoseTrack, InStatus, StoreTypeOK, RowMap, Live
  <1>1. ASSUME NEW s \in Reservation, EntryStep(r, s), rows' = [rows EXCEPT ![i] = s]
        PROVE  Ledger!Amend /\ RowsBookable'
    <2>1. TableSteps(rows')
      BY <1>0, <1>1, OneRowTable
    <2> QED
      BY <1>0, <2>1, TableAmends
  <1>2. CASE \E d \in 0..Tolerance, f \in Refs \cup {None} : Sign(i, r.safe + d, f)
    <2>1. PICK d \in 0..Tolerance, f \in Refs \cup {None} : Sign(i, r.safe + d, f)
      BY <1>2
    <2>2. r.safe + d \in Nat /\ r.status = "reserved"
      BY <1>0, <2>1, ValidityBounds DEF Sign, InStatus, Reservation
    <2>3. rows' = [rows EXCEPT ![i] = Signed(r, r.safe + d, f)]
      BY <2>1 DEF Sign
    <2> HIDE DEF r
    <2>4. /\ Signed(r, r.safe + d, f) \in Reservation
          /\ EntryStep(r, Signed(r, r.safe + d, f))
      BY <1>0, <2>2, SignedType, SignedEntryStep
    <2> QED
      BY <1>1, <2>3, <2>4
  <1>3. CASE Release(i)
    <2> DEFINE s == [r EXCEPT !.status = "released"]
    <2>1. r.status = "reserved" /\ rows' = [rows EXCEPT ![i] = s]
      BY <1>0, <1>3 DEF Release, InStatus
    <2>2. /\ s \in Reservation /\ s.status = "released" /\ Keeps(r, s)
          /\ s.safe = r.safe /\ s.settledAt = r.settledAt
      BY <1>0, Statuses DEF Reservation, Keeps
    <2> HIDE DEF s
    <2>3. EntryStep(r, s)
      BY <2>1, <2>2 DEF EntryStep
    <2> QED
      BY <1>1, <2>1, <2>2, <2>3
  <1>4. CASE \E at \in Readings : Settle(i, at)
    <2>1. PICK at \in Readings : Settle(i, at)
      BY <1>4
    <2> DEFINE s == [r EXCEPT !.status = "settled", !.settledAt = at]
    <2>2. at \in Nat /\ at \in 0..now
      BY <1>0, <2>1, ReadingsAreInstants DEF Readings
    <2>3. r.status \in Uncertain /\ rows' = [rows EXCEPT ![i] = s]
      <3>1. r.status = "signed"
        BY <2>1 DEF Settle, InStatus
      <3>2. rows' = [rows EXCEPT ![i] = s]
        BY <1>0, <2>1 DEF Settle
      <3> QED
        BY <3>1, <3>2 DEF Uncertain
    <2>4. /\ s \in Reservation /\ s.status = "settled" /\ Keeps(r, s)
          /\ s.safe = r.safe /\ s.settledAt = at
      <3>1. /\ s.principal = r.principal /\ s.mandate = r.mandate
            /\ s.payee = r.payee /\ s.amount = r.amount /\ s.window = r.window
            /\ s.safe = r.safe /\ s.status = "settled" /\ s.settledAt = at
        BY <1>0 DEF Reservation
      <3>2. s \in Reservation
        BY <1>0, <2>2, Statuses DEF Reservation
      <3>3. r.status \in Pending
        BY <2>3 DEF Pending
      <3> QED
        BY <3>1, <3>2, <3>3 DEF Keeps
    <2> HIDE DEF s
    <2>5. EntryStep(r, s)
      BY <2>2, <2>3, <2>4 DEF EntryStep
    <2> QED
      BY <1>1, <2>3, <2>4, <2>5
  <1>5. CASE LoseTrack(i)
    <2> DEFINE s == [r EXCEPT !.status = "unknown"]
    <2>1. r.status = "signed" /\ rows' = [rows EXCEPT ![i] = s]
      BY <1>0, <1>5 DEF LoseTrack, InStatus
    <2>2. /\ s \in Reservation /\ s.status = "unknown" /\ Keeps(r, s)
          /\ s.safe = r.safe /\ s.settledAt = r.settledAt
      <3>1. /\ s.principal = r.principal /\ s.mandate = r.mandate
            /\ s.payee = r.payee /\ s.amount = r.amount /\ s.window = r.window
            /\ s.safe = r.safe /\ s.status = "unknown"
            /\ s.settledAt = r.settledAt
        BY <1>0 DEF Reservation
      <3>2. s \in Reservation
        BY <1>0, Statuses DEF Reservation
      <3>3. r.status \in Pending
        BY <2>1 DEF Pending, Uncertain
      <3> QED
        BY <3>1, <3>2, <3>3 DEF Keeps
    <2> HIDE DEF s
    <2>3. LedgerState(s) = LedgerState(r)
      BY <2>1, <2>2 DEF LedgerState, Uncertain
    <2>4. EntryStep(r, s)
      BY <2>2, <2>3 DEF EntryStep
    <2> QED
      BY <1>1, <2>1, <2>2, <2>4
  <1> QED
    BY <1>2, <1>3, <1>4, <1>5

\* Every step of the store is a step of the ledger, or changes no entry.
LEMMA NextLedger ==
  ASSUME StoreTypeOK, RowsBookable, [StoreNext]_storeVars
  PROVE  [Ledger!LedgerNext]_(Ledger!ledgerVars) /\ RowsBookable'
  <1>0. now \in Nat /\ Principals \subseteq Principals
    BY DEF StoreTypeOK
  <1>1. CASE \E q \in Request, at \in Readings : TryReserve(q, at)
    BY <1>1, ReservePosts
  <1>2. CASE \E i \in Ids : \/ \E d \in 0..Tolerance, f \in Refs \cup {None} :
                                 Sign(i, rows[i].safe + d, f)
                            \/ Release(i)
                            \/ \E at \in Readings : Settle(i, at)
                            \/ LoseTrack(i)
    BY <1>2, TransitionsAmend DEF Ledger!LedgerNext
  <1>3. CASE \E at \in Readings, w \in Windows : ReleaseExpired(at, w)
    <2>1. PICK at \in Readings, w \in Windows : ReleaseExpired(at, w)
      BY <1>3
    <2>2. at \in Nat /\ at <= now /\ w \in Nat
      BY <1>0, <2>1, ReadingsAreInstants, WindowBounds
    <2>3. TableSteps(rows') /\ now' = now
      BY <2>1, <2>2, SweptTable DEF ReleaseExpired
    <2> QED
      BY <2>3, TableAmends DEF Ledger!LedgerNext
  <1>4. CASE \E at \in Readings, w \in Windows : RecoverAfterRestart(at, w)
    <2>1. PICK at \in Readings, w \in Windows : RecoverAfterRestart(at, w)
      BY <1>4
    <2>2. TableSteps(rows') /\ now' = now
      BY <2>1, RecoveredTable DEF RecoverAfterRestart
    <2> QED
      BY <2>2, TableAmends DEF Ledger!LedgerNext
  <1>5. CASE Tick
    <2>1. now' = now + 1 /\ LedgerEntries' = LedgerEntries /\ RowsBookable'
      BY <1>5 DEF Tick, LedgerEntries, RowsBookable
    <2> QED
      BY <2>1 DEF Ledger!LedgerNext, Ledger!Tick
  <1>6. CASE storeVars' = storeVars
    <2>1. now' = now /\ LedgerEntries' = LedgerEntries /\ RowsBookable'
      BY <1>6 DEF storeVars, LedgerEntries, RowsBookable
    <2> QED
      BY <2>1 DEF Ledger!ledgerVars
  <1> QED
    BY <1>1, <1>2, <1>3, <1>4, <1>5, <1>6 DEF StoreNext

LEMMA InitLedger ==
  ASSUME StoreInit
  PROVE  Ledger!LedgerInit /\ RowsBookable
  <1>1. LedgerEntries = [i \in Ids |-> None] /\ now = 0 /\ Live(rows) = {}
    BY DEF StoreInit, LedgerEntries, Live
  <1> QED
    BY <1>1 DEF Ledger!LedgerInit, RowsBookable

\* The in-memory store keeps the promise of the ledger that forgets nothing: a
\* hold is posted only while it fits the caps at the clock, however stale the
\* instant of its request, and neither sweeps nor restarts nor transitions
\* close an entry before its authorization is settled or can no longer be spent.
THEOREM StoreImplementsLedger == StoreSpec => ImplementsLedger
<1>1. StoreInit => Ledger!LedgerInit /\ RowsBookable
  BY InitLedger
<1>2. StoreTypeOK /\ RowsBookable /\ [StoreNext]_storeVars
        => [Ledger!LedgerNext]_(Ledger!ledgerVars) /\ RowsBookable'
  BY NextLedger
<1> QED
  BY <1>1, <1>2, StoreTypeCorrect, PTL
  DEF StoreSpec, ImplementsLedger, Ledger!LedgerSpec
=============================================================================
