-------------------------- MODULE SpendWindow_proofs --------------------------
(***************************************************************************)
(* Proofs about SpendWindow: it implements the store's specification, and  *)
(* the money that leaves stays within the caps.                            *)
(***************************************************************************)
EXTENDS SpendWindow, ReservationStore_proofs

USE DEF MaxOf

-----------------------------------------------------------------------------
(* Every step is a step of the store, or leaves the store alone.           *)

\* Signing d after the priced instant moves safeReleaseAt by d.
LEMMA SignPaymentSigns ==
  ASSUME StoreTypeOK, NEW i \in Ids, NEW d \in 0..Tolerance,
         NEW f \in Refs \cup {None}, SignPayment(i, d, f)
  PROVE  /\ i \in Live(rows) /\ rows[i] \in Reservation
         /\ rows[i].status = "reserved"
         /\ Sign(i, rows[i].safe + d, f)
         /\ SafeReleaseAt(rows[i].safe - ReorgMargin - ClockSkew + d)
              = rows[i].safe + d
  <1>1. i \in Live(rows) /\ rows[i] \in Reservation
    BY DEF SignPayment, StoreTypeOK, Live
  <1>2. rows[i].safe \in Nat /\ d \in Nat
    BY <1>1, ValidityBounds DEF Reservation
  <1>3. SafeReleaseAt(rows[i].safe - ReorgMargin - ClockSkew + d) = rows[i].safe + d
    BY <1>2, MarginBounds DEF SafeReleaseAt
  <1>4. Sign(i, rows[i].safe + d, f)
    BY <1>3 DEF SignPayment
  <1> QED
    BY <1>1, <1>3, <1>4 DEF SignPayment, Sign, InStatus

LEMMA NextIsStoreNext == StoreTypeOK /\ [Next]_vars => [StoreNext]_storeVars
  <1> SUFFICES ASSUME StoreTypeOK, [Next]_vars PROVE [StoreNext]_storeVars
    OBVIOUS
  <1>1. ASSUME NEW i \in Ids, NEW d \in 0..Tolerance, NEW f \in Refs \cup {None},
               SignPayment(i, d, f)
        PROVE  StoreNext
    BY <1>1, SignPaymentSigns DEF StoreNext
  <1>2. ASSUME NEW i \in Ids, NEW at \in Readings, SettlePayment(i, at)
        PROVE  StoreNext
    BY <1>2 DEF SettlePayment, StoreNext
  <1>3. CASE \E i \in Ids : Redeem(i)
    BY <1>3 DEF Redeem, storeVars
  <1>4. CASE TickLocal
    BY <1>4 DEF TickLocal, StoreNext
  <1>5. CASE TickChain \/ UNCHANGED vars
    BY <1>5 DEF TickChain, vars, storeVars
  <1> QED
    BY <1>1, <1>2, <1>3, <1>4, <1>5 DEF Next, StoreNext

\* Each step that touches the store is one of its operations, so that what is
\* proved of ReservationStore holds of the rows here.
LEMMA ImplementsStore == Spec => StoreSpec
  <1>1. Init => StoreInit
    BY DEF Init
  <1>2. StoreTypeOK /\ [Next]_vars => StoreTypeOK'
    BY NextIsStoreNext, NextType
  <1>3. Spec => []StoreTypeOK
    BY <1>1, <1>2, InitType, PTL DEF Spec
  <1> QED
    BY <1>1, <1>3, NextIsStoreNext, PTL DEF Spec, StoreSpec

-----------------------------------------------------------------------------
(* Payments stay held.                                                     *)

LEMMA InitTypeOK == Init => TypeOK
  BY InitType DEF Init, TypeOK

LEMMA NextTypeOK == TypeOK /\ [Next]_vars => TypeOK'
  <1> SUFFICES ASSUME TypeOK, [Next]_vars PROVE TypeOK'
    OBVIOUS
  <1>0. StoreTypeOK /\ StoreTypeOK' /\ now \in Nat
    BY NextIsStoreNext, NextType DEF TypeOK, StoreTypeOK
  <1>1. ASSUME NEW i \in Ids, NEW d \in 0..Tolerance, NEW f \in Refs \cup {None},
               SignPayment(i, d, f)
        PROVE  TypeOK'
    <2>1. rows[i].safe - ReorgMargin - ClockSkew + d \in Int
      BY <1>0, <1>1, SignPaymentSigns, ValidityBounds, MarginBounds DEF Reservation
    <2> QED
      BY <1>0, <1>1, <2>1 DEF SignPayment, TypeOK
  <1>2. CASE \E i \in Ids : Redeem(i)
    BY <1>0, <1>2 DEF Redeem, TypeOK
  <1>3. CASE TickChain
    BY <1>0, <1>3 DEF TickChain, TypeOK
  <1>4. CASE UNCHANGED chainVars
    BY <1>0, <1>4 DEF chainVars, TypeOK
  <1> QED
    BY <1>1, <1>2, <1>3, <1>4 DEF Next, SettlePayment, TickLocal, vars, chainVars

\* Type correctness of the composition.
THEOREM TypeCorrect == Spec => []TypeOK
  BY InitTypeOK, NextTypeOK, PTL DEF Spec

\* A sweep, of the row or of what a restart remembers of it, keeps the payment
\* held: the row expires only when a window has passed since safeReleaseAt.
LEMMA SweepHolds ==
  ASSUME NEW r \in Reservation, NEW at \in Nat, NEW w \in Windows,
         now \in Nat, at <= now, NEW v, NEW t, PaymentHeld(r, v, t),
         NEW u \in {r, UnknownRow(r)}
  PROVE  PaymentHeld(SweptRow(u, at, w), v, t)
  <1> DEFINE s == SweptRow(u, at, w)
  <1>1. w \in Nat /\ MinWindow \in Nat /\ MinWindow <= w
    BY WindowBounds
  <1>2. u \in Reservation /\ u.safe = r.safe /\ u.settledAt = r.settledAt
        /\ (u.status = "settled" <=> r.status = "settled")
        /\ (r.status \in Uncertain => u.status \in Uncertain)
        /\ (r.status \notin Pending => u = r)
    <2>1. r.status \in Uncertain => UnknownRow(r).status \in Uncertain
      BY DEF UnknownRow, Uncertain, Pending, Reservation
    <2>2. r.status \notin Pending => UnknownRow(r) = r
      BY DEF UnknownRow
    <2> QED
      BY <2>1, <2>2, UnknownRowKeeps
  <1>3. s \in Reservation /\ s.safe = u.safe /\ s.settledAt = u.settledAt
        /\ (s.status = "settled" <=> u.status = "settled")
    BY <1>1, <1>2, SweptRowKeeps
  <1>4. u.status \in Uncertain =>
          \/ s.status \in Uncertain
          \/ s.status = "expired" /\ at >= u.safe + MinWindow
    <2>1. u.status \in Uncertain => s.status \in Uncertain \cup {"expired"}
      <3> DEFINE e == Extended(u, w)
      <3>1. u.status \in Uncertain => e.status = u.status
        BY <1>2 DEF Extended, Reservation
      <3>2. Expired(e, at).status \in {e.status, "expired"}
        <4>1. e \in Reservation
          BY <1>1, <1>2 DEF Extended, Reservation
        <4> QED
          BY <4>1 DEF Expired, Reservation
      <3> QED
        BY <3>1, <3>2 DEF SweptRow
    <2>2. u.status \in Uncertain /\ s.status = "expired"
            => at >= u.safe + MaxOf(u.window, w)
      BY <1>1, <1>2, SweptRowWaits
    <2>3. u.safe \in Nat /\ u.window \in Nat
      BY <1>2 DEF Reservation
    <2>4. MaxOf(u.window, w) >= MinWindow /\ MaxOf(u.window, w) \in Nat
      BY <1>1, <2>3
    <2>5. at >= u.safe + MaxOf(u.window, w) => at >= u.safe + MinWindow
      BY <1>1, <2>3, <2>4
    <2> HIDE DEF s
    <2> QED
      BY <2>1, <2>2, <2>5
  <1>5. u.status \notin Pending => s = u
    BY DEF SweptRow, Expired, Extended, Due, Pending
  <1>6. u.safe \in Nat /\ \A st \in Uncertain : st \in Pending
    BY <1>2 DEF Reservation, Pending
  <1> HIDE DEF s
  <1>7. CASE v = None
    BY <1>2, <1>3, <1>7 DEF PaymentHeld, s
  <1>8. CASE v # None /\ r.status \in Uncertain
    BY <1>1, <1>2, <1>3, <1>4, <1>6, <1>8, Statuses DEF PaymentHeld, s, Terminal
  <1>9. CASE v # None /\ r.status \in {"settled", "expired"}
    <2>1. s = r
      BY <1>2, <1>5, <1>9, Statuses
    <2> QED
      BY <2>1 DEF s
  <1> QED
    BY <1>7, <1>8, <1>9 DEF PaymentHeld

\* No step of the store or of the chain loses hold of a payment.
LEMMA NextHolds ==
  ASSUME TypeOK, PaymentsHeld, [Next]_vars
  PROVE  PaymentsHeld'
  <1> USE DEF TypeOK, StoreTypeOK
  <1>0. /\ now \in Nat /\ chain \in Nat /\ rows \in RowMap /\ TypeOK'
        /\ \A i \in Live(rows) : rows[i] \in Reservation
    BY NextTypeOK DEF RowMap, Live
  <1> SUFFICES /\ now' <= chain' + ClockSkew
               /\ \A i \in Ids : IF i \in Live(rows)'
                     THEN PaymentHeld(rows[i], validBefore[i], paidAt[i])'
                     ELSE validBefore'[i] = None /\ paidAt'[i] = None
    BY DEF PaymentsHeld, Live
  <1> DEFINE Holds(i) == IF i \in Live(rows)'
                           THEN PaymentHeld(rows[i], validBefore[i], paidAt[i])'
                           ELSE validBefore'[i] = None /\ paidAt'[i] = None
             Held(i) == IF i \in Live(rows)
                          THEN PaymentHeld(rows[i], validBefore[i], paidAt[i])
                          ELSE validBefore[i] = None /\ paidAt[i] = None
  <1>h. \A i \in Ids : Held(i)
    BY DEF PaymentsHeld
  <1>n. now <= chain + ClockSkew
    BY DEF PaymentsHeld
  \* A row that the step leaves alone.
  <1>k. ASSUME NEW i \in Ids, rows'[i] = rows[i], UNCHANGED chainVars,
               now' = now \/ now' = now + 1
        PROVE  Holds(i)
    BY <1>0, <1>h, <1>k, WindowBounds
       DEF chainVars, Live, PaymentHeld, Reservation, SafeReleaseAt
  <1>1. ASSUME NEW q \in Request, NEW at \in Readings, TryReserve(q, at),
               UNCHANGED chainVars, NEW i \in Ids
        PROVE  Holds(i)
    <2> DEFINE rs == Swept(rows, {q.principal}, at, q.window)
    <2>1. at \in Nat /\ at <= now /\ q.window \in Windows
      BY <1>0, <1>1, ReadingsAreInstants DEF Request
    <2>2. IF i \in Live(rs)
            THEN i \in Live(rows) /\ PaymentHeld(rs[i], validBefore[i], paidAt[i])
            ELSE i \notin Live(rows)
      <3>1. CASE i \in Live(rows) /\ rows[i].principal \in {q.principal}
        <4>1. rs[i] = SweptRow(rows[i], at, q.window)
          BY <3>1 DEF Swept
        <4>2. /\ SweptRow(rows[i], at, q.window) \in Reservation
              /\ PaymentHeld(SweptRow(rows[i], at, q.window), validBefore[i], paidAt[i])
          <5>1. q.window \in Nat
            BY <2>1, WindowBounds
          <5> QED
            BY <1>0, <1>h, <2>1, <3>1, <5>1, SweptRowKeeps, SweepHolds
        <4> QED
          BY <3>1, <4>1, <4>2, NoneIsNoRow DEF Live
      <3>2. CASE ~(i \in Live(rows) /\ rows[i].principal \in {q.principal})
        <4>1. rs[i] = rows[i]
          BY <3>2 DEF Swept
        <4> QED
          BY <1>h, <4>1 DEF Live
      <3> QED
        BY <3>1, <3>2
    <2>3. rs \in RowMap
      BY <1>0, <2>1, WindowBounds, SweptKeeps
    <2> HIDE DEF rs
    <2>4. CASE i \notin Live(rs) /\ rows' = [rs EXCEPT ![i] = NewRow(q, at)]
      <3>1. rows'[i] = NewRow(q, at) /\ now' = now
        BY <1>1, <2>3, <2>4 DEF RowMap, TryReserve
      <3>2. NewRow(q, at).status = "reserved"
        BY DEF NewRow
      <3>3. validBefore'[i] = None /\ paidAt'[i] = None
        BY <1>1, <1>h, <2>2, <2>4 DEF chainVars
      <3> QED
        BY <3>1, <3>2, <3>3 DEF PaymentHeld
    <2>5. CASE rows'[i] = rs[i]
      <3>1. now' = now
        BY <1>1 DEF TryReserve
      <3>2. i \in Live(rows)' <=> i \in Live(rs)
        BY <2>5 DEF Live
      <3> QED
        BY <1>1, <1>h, <2>2, <2>5, <3>1, <3>2 DEF chainVars, PaymentHeld
    <2>6. \/ i \notin Live(rs) /\ rows' = [rs EXCEPT ![i] = NewRow(q, at)]
          \/ rows'[i] = rs[i]
      BY <1>1, <2>3 DEF TryReserve, rs, RowMap, Live
    <2> QED
      BY <2>4, <2>5, <2>6
  <1>2. ASSUME NEW j \in Ids, NEW d \in 0..Tolerance, NEW f \in Refs \cup {None},
               SignPayment(j, d, f), NEW i \in Ids
        PROVE  Holds(i)
    <2>1. /\ j \in Live(rows) /\ rows[j] \in Reservation
          /\ rows[j].status = "reserved"
          /\ Sign(j, rows[j].safe + d, f)
      BY <1>2, SignPaymentSigns
    <2> DEFINE w == rows[j].safe - ReorgMargin - ClockSkew + d
    <2>2. SafeReleaseAt(w) = rows[j].safe + d
      BY <1>2, SignPaymentSigns
    <2>3. /\ now' = now /\ UNCHANGED <<chain, paidAt>>
          /\ validBefore' = [validBefore EXCEPT ![j] = w]
          /\ rows' = [rows EXCEPT ![j] = Signed(rows[j], rows[j].safe + d, f)]
      BY <1>2, <2>1 DEF SignPayment, Sign
    <2>4. CASE i = j
      <3> DEFINE r == Signed(rows[j], rows[j].safe + d, f)
      <3>1. rows[j].safe \in Nat /\ d \in Nat /\ rows[j].safe + d \in Nat
        BY <2>1, ValidityBounds DEF Reservation
      <3>2. r \in Reservation /\ r.status = "signed" /\ r.safe = rows[j].safe + d
        <4>1. r \in Reservation /\ r.status = "signed"
          BY <2>1, <3>1, SignedType
        <4>2. r.safe = MaxOf(rows[j].safe, rows[j].safe + d)
          BY <2>1 DEF Signed, Reservation
        <4> QED
          BY <3>1, <4>1, <4>2
      <3>3. rows'[i] = r /\ validBefore'[i] = w
        BY <1>0, <2>3, <2>4 DEF RowMap
      <3>4. validBefore[i] = None /\ paidAt'[i] = None
        BY <1>h, <2>1, <2>3, <2>4 DEF PaymentHeld, Uncertain
      <3>5. SafeReleaseAt(w) <= r.safe
        BY <2>2, <3>1, <3>2
      <3>6. i \in Live(rows)'
        BY <3>2, <3>3, NoneIsNoRow DEF Live
      <3>7. r.status \in Uncertain \cup {"settled", "expired"}
        BY <3>2 DEF Uncertain
      <3> HIDE DEF r, w
      <3>8. PaymentHeld(rows[i], validBefore[i], paidAt[i])'
        BY <3>2, <3>3, <3>4, <3>5, <3>7 DEF PaymentHeld, SafeReleaseAt
      <3> QED
        BY <3>6, <3>8
    <2>5. CASE i # j
      <3>1. rows'[i] = rows[i] /\ validBefore'[i] = validBefore[i]
            /\ paidAt'[i] = paidAt[i]
        BY <2>3, <2>5
      <3> QED
        BY <1>h, <2>3, <3>1 DEF Live, PaymentHeld, SafeReleaseAt
    <2> QED
      BY <2>4, <2>5
  \* A row that the step moves to another status.
  <1>m. ASSUME NEW j \in Live(rows), NEW st \in Pending \cup Terminal, NEW at \in Nat,
               \/ rows' = [rows EXCEPT ![j] = [rows[j] EXCEPT !.status = st]]
               \/ rows' = [rows EXCEPT ![j] = [rows[j] EXCEPT !.status = st,
                                                             !.settledAt = at]],
               PaymentHeld(rows'[j], validBefore[j], paidAt[j]),
               now' = now, UNCHANGED chainVars, NEW i \in Ids
        PROVE  Holds(i)
    <2>1. CASE i = j
      <3>1. i \in Live(rows)' => Holds(i)
        BY <1>m, <2>1 DEF chainVars, PaymentHeld, SafeReleaseAt
      <3>2. rows'[i] # None
        <4>1. [rows[j] EXCEPT !.status = st, !.settledAt = at] \in Reservation
          <5>1. rows[j] \in Reservation /\ st \in Pending \cup Terminal /\ at \in Nat
            BY <1>0, <1>m
          <5> QED
            BY <5>1 DEF Reservation
        <4>2. [rows[j] EXCEPT !.status = st] \in Reservation
          BY <1>0, <1>m, WithStatusType
        <4> QED
          BY <1>0, <1>m, <2>1, <4>1, <4>2, NoneIsNoRow DEF RowMap, Live
      <3> QED
        BY <3>1, <3>2 DEF Live
    <2>2. CASE i # j
      BY <1>k, <1>m, <2>2
    <2> QED
      BY <2>1, <2>2
  <1>3. ASSUME NEW j \in Ids, Release(j), UNCHANGED chainVars, NEW i \in Ids
        PROVE  Holds(i)
    <2>1. /\ j \in Live(rows) /\ rows[j].status = "reserved"
          /\ rows' = [rows EXCEPT ![j] = [rows[j] EXCEPT !.status = "released"]]
          /\ now' = now
      BY <1>3 DEF Release, InStatus
    <2>2. rows'[j].status = "released"
      BY <1>0, <2>1, WithStatusType, Statuses DEF RowMap
    <2>3. validBefore[j] = None /\ paidAt[j] = None
      BY <1>h, <2>1 DEF PaymentHeld, Uncertain
    <2>4. PaymentHeld(rows'[j], validBefore[j], paidAt[j])
      BY <2>2, <2>3 DEF PaymentHeld
    <2> QED
      BY <1>0, <1>3, <1>m, <2>1, <2>4, Statuses
  <1>4. ASSUME NEW j \in Ids, NEW at \in Readings, SettlePayment(j, at), NEW i \in Ids
        PROVE  Holds(i)
    <2>1. /\ j \in Live(rows) /\ rows[j].status = "signed"
          /\ paidAt[j] # None /\ paidAt[j] <= at /\ at \in Nat
          /\ rows' = [rows EXCEPT ![j] = [rows[j] EXCEPT !.status = "settled",
                                                        !.settledAt = at]]
          /\ now' = now /\ UNCHANGED chainVars
      BY <1>0, <1>4, ReadingsAreInstants DEF SettlePayment, Settle, InStatus
    <2> DEFINE s == [rows[j] EXCEPT !.status = "settled", !.settledAt = at]
    <2>2. s.status = "settled" /\ s.settledAt = at /\ s.safe = rows[j].safe
      BY <1>0, <2>1 DEF Reservation
    <2>3. rows'[j] = s
      BY <1>0, <2>1 DEF RowMap
    <2> HIDE DEF s
    <2>4. PaymentHeld(rows'[j], validBefore[j], paidAt[j])
      BY <1>h, <2>1, <2>2, <2>3 DEF PaymentHeld
    <2> QED
      BY <1>m, <2>1, <2>4, Statuses
  <1>5. ASSUME NEW j \in Ids, LoseTrack(j), UNCHANGED chainVars, NEW i \in Ids
        PROVE  Holds(i)
    <2>1. /\ j \in Live(rows) /\ rows[j].status = "signed"
          /\ rows' = [rows EXCEPT ![j] = [rows[j] EXCEPT !.status = "unknown"]]
          /\ now' = now
      BY <1>5 DEF LoseTrack, InStatus
    <2> DEFINE s == [rows[j] EXCEPT !.status = "unknown"]
    <2>2. s.status = "unknown" /\ s.safe = rows[j].safe /\ rows'[j] = s
      BY <1>0, <2>1 DEF Reservation, RowMap
    <2>3. s.status \in Uncertain \cup {"settled", "expired"}
      BY <2>2 DEF Uncertain
    <2> HIDE DEF s
    <2>4. PaymentHeld(rows'[j], validBefore[j], paidAt[j])
      BY <1>h, <2>1, <2>2, <2>3 DEF PaymentHeld
    <2> QED
      BY <1>0, <1>5, <1>m, <2>1, <2>4, Statuses
  <1>6. ASSUME NEW at \in Readings, NEW w \in Windows,
               ReleaseExpired(at, w) \/ RecoverAfterRestart(at, w),
               UNCHANGED chainVars, NEW i \in Ids
        PROVE  Holds(i)
    <2>1. at \in Nat /\ at <= now /\ w \in Nat /\ now' = now
      BY <1>0, <1>6, ReadingsAreInstants, WindowBounds
         DEF ReleaseExpired, RecoverAfterRestart
    <2>2. CASE i \in Live(rows)
      <3>1. PICK u \in {rows[i], UnknownRow(rows[i])} : rows'[i] = SweptRow(u, at, w)
        <4>1. ASSUME ReleaseExpired(at, w) PROVE rows'[i] = SweptRow(rows[i], at, w)
          <5>1. rows[i].principal \in Principals
            BY <1>0, <2>2 DEF Reservation
          <5> QED
            BY <2>2, <4>1, <5>1 DEF ReleaseExpired, Swept
        <4>2. ASSUME RecoverAfterRestart(at, w)
              PROVE  rows'[i] = SweptRow(UnknownRow(rows[i]), at, w)
          BY <2>2, <4>2 DEF RecoverAfterRestart
        <4> QED
          BY <1>6, <4>1, <4>2
      <3>2. rows[i] \in Reservation /\ u \in Reservation
        BY <1>0, <2>2, UnknownRowKeeps
      <3>3. PaymentHeld(SweptRow(u, at, w), validBefore[i], paidAt[i])
        BY <1>0, <1>h, <2>1, <2>2, <3>2, SweepHolds
      <3>4. rows'[i] # None
        <4>1. SweptRow(u, at, w) \in Reservation
          BY <2>1, <3>2, SweptRowKeeps
        <4> QED
          BY <3>1, <4>1, NoneIsNoRow
      <3>5. PaymentHeld(rows'[i], validBefore[i], paidAt[i])
        BY <3>1, <3>3
      <3> QED
        BY <1>6, <2>1, <3>4, <3>5 DEF Live, PaymentHeld, SafeReleaseAt, chainVars
    <2>3. CASE i \notin Live(rows)
      BY <1>6, <1>h, <2>3 DEF ReleaseExpired, RecoverAfterRestart, Swept, Live, chainVars
    <2> QED
      BY <2>2, <2>3
  <1>7. ASSUME NEW j \in Ids, Redeem(j), NEW i \in Ids
        PROVE  Holds(i)
    <2>1. /\ rows' = rows /\ now' = now /\ validBefore' = validBefore
          /\ validBefore[j] # None /\ chain <= validBefore[j] + ReorgMargin
          /\ paidAt' = [paidAt EXCEPT ![j] = now] /\ paidAt[j] = None
      BY <1>7 DEF Redeem
    <2>2. j \in Live(rows) /\ validBefore[j] \in Int /\ rows[j].safe \in Nat
      BY <1>0, <1>h, <2>1 DEF Reservation
    <2>3. now <= rows[j].safe
      BY <1>0, <1>h, <1>n, <2>1, <2>2, MarginBounds DEF PaymentHeld, SafeReleaseAt
    <2>4. rows[j].status # "settled"
      BY <1>h, <2>1, <2>2 DEF PaymentHeld
    <2>5. CASE i = j
      BY <1>h, <2>1, <2>2, <2>3, <2>4, <2>5 DEF PaymentHeld, Live
    <2>6. CASE i # j
      BY <1>h, <2>1, <2>6 DEF PaymentHeld, Live
    <2> QED
      BY <2>5, <2>6
  <1>8. ASSUME TickLocal, NEW i \in Ids PROVE Holds(i)
    <2>1. rows' = rows /\ now' = now + 1 /\ UNCHANGED chainVars /\ now < chain + ClockSkew
      BY <1>8 DEF TickLocal, Tick
    <2> QED
      BY <1>0, <1>k, <2>1, MarginBounds DEF chainVars
  <1>9. ASSUME TickChain, NEW i \in Ids PROVE Holds(i)
    BY <1>0, <1>h, <1>n, <1>9, MarginBounds DEF TickChain, Live, PaymentHeld
  <1>10. ASSUME UNCHANGED vars, NEW i \in Ids PROVE Holds(i)
    BY <1>k, <1>n, <1>10 DEF vars, chainVars
  <1>11. now' <= chain' + ClockSkew
    <2>1. now \in Nat /\ chain \in Nat /\ ClockSkew \in Nat
      BY <1>0, MarginBounds
    <2>2. CASE TickLocal
      BY <1>n, <2>1, <2>2 DEF TickLocal, Tick, chainVars
    <2>3. CASE TickChain
      BY <1>n, <2>1, <2>3 DEF TickChain
    <2>4. CASE ~TickLocal /\ ~TickChain
      <3>1. now' = now /\ chain' = chain
        BY <2>4 DEF Next, TryReserve, SignPayment, Sign, Release, SettlePayment,
           Settle, LoseTrack, ReleaseExpired, RecoverAfterRestart, Redeem,
           chainVars, vars
      <3> QED
        BY <1>n, <3>1
    <2> QED
      BY <2>2, <2>3, <2>4
  <1>12. ASSUME NEW i \in Ids PROVE Holds(i)
    <2> HIDE DEF Holds
    <2> QED
      BY <1>1, <1>2, <1>3, <1>4, <1>5, <1>6, <1>7, <1>8, <1>9, <1>10 DEF Next
  <1> QED
    BY <1>11, <1>12

LEMMA InitHolds == Init => PaymentsHeld
  BY MarginBounds DEF Init, StoreInit, PaymentsHeld, Live

\* In every reachable state the store holds every payment that was signed: its
\* row is neither released nor reused, and expires only a window too late.
THEOREM PaymentsStayHeld == Spec => []PaymentsHeld
  BY InitHolds, NextHolds, TypeCorrect, PTL DEF Spec

-----------------------------------------------------------------------------
(* What leaves stays within the caps.                                      *)

\* A payment that counts against the caller in the real world counts in the
\* store, in the shortest window a request may ask for.
LEMMA ExposedCounts ==
  ASSUME TypeOK, PaymentsHeld, NEW p, NEW ms
  PROVE  ExposedOf(p, ms) \subseteq Counted(rows, p, ms, now, MinWindow)
  <1> SUFFICES ASSUME NEW i \in ExposedOf(p, ms)
               PROVE  Occupies(rows[i], now, MinWindow)
    BY DEF ExposedOf, Exposed, Counted
  <1> DEFINE r == rows[i]
             v == validBefore[i]
             t == paidAt[i]
  <1>1. /\ i \in Live(rows) /\ PaymentHeld(r, v, t) /\ v # None
        /\ \/ t # None /\ t > now - MinWindow
           \/ t = None /\ chain <= v + ReorgMargin
    BY DEF ExposedOf, Exposed, PaymentsHeld, PaymentHeld
  <1>2. /\ r \in Reservation /\ now \in Nat /\ chain \in Nat
        /\ v \in Int /\ t \in Nat \cup {None}
        /\ r.status = "settled" => r.settledAt \in Nat
    BY <1>1 DEF TypeOK, StoreTypeOK, Live
  <1>3. r.safe \in Nat /\ r.window \in Nat /\ MinWindow \in Nat
    BY <1>2, WindowBounds DEF Reservation
  <1>4. now <= chain + ClockSkew
    BY DEF PaymentsHeld
  <1> HIDE DEF r, v, t
  <1>5. CASE r.status \in Uncertain
    BY <1>5 DEF Occupies, Pending, r
  <1>6. CASE r.status = "settled"
    <2>1. t \in Nat /\ t <= r.settledAt /\ t > now - MinWindow /\ r.settledAt \in Nat
      BY <1>1, <1>2, <1>6 DEF PaymentHeld
    <2>2. MaxOf(r.window, MinWindow) >= MinWindow /\ MaxOf(r.window, MinWindow) \in Nat
      BY <1>3
    <2>3. r.settledAt > now - MaxOf(r.window, MinWindow)
      BY <1>2, <1>3, <2>1, <2>2
    <2> QED
      BY <1>6, <2>3 DEF Occupies, r
  <1>7. CASE r.status = "expired"
    <2>1. now >= r.safe + MinWindow
      BY <1>1, <1>7 DEF PaymentHeld
    <2>2. CASE t # None
      BY <1>1, <1>2, <1>3, <2>1, <2>2 DEF PaymentHeld
    <2>3. CASE t = None
      <3>1. now <= SafeReleaseAt(v)
        BY <1>1, <1>2, <1>4, <2>3, MarginBounds DEF SafeReleaseAt
      <3>2. SafeReleaseAt(v) <= r.safe
        BY <1>1 DEF PaymentHeld
      <3>3. SafeReleaseAt(v) \in Int
        BY <1>2, MarginBounds DEF SafeReleaseAt
      <3> QED
        BY <1>2, <1>3, <2>1, <3>1, <3>2, <3>3, NonemptyWindow
    <2> QED
      BY <2>2, <2>3
  <1> QED
    BY <1>1, <1>5, <1>6, <1>7 DEF PaymentHeld

\* The promise of the guard, for every number of rows, principals and mandates,
\* every cap, window, margin and skew: what leaves in a rolling window, late
\* redemptions included, stays within the caps.
THEOREM OutflowStaysWithinCaps == Spec => []OutflowWithinCaps
  <1>1. TypeOK /\ PaymentsHeld /\ LimitsHold => OutflowWithinCaps
    <2> SUFFICES ASSUME TypeOK, PaymentsHeld, LimitsHold
                 PROVE  OutflowWithinCaps
      OBVIOUS
    <2>1. ASSUME NEW p, NEW ms
          PROVE  /\ Total(rows, ExposedOf(p, ms)) <= Committed(rows, p, ms, now, MinWindow)
                 /\ Total(rows, ExposedOf(p, ms)) \in Nat
                 /\ Committed(rows, p, ms, now, MinWindow) \in Nat
      <3> DEFINE js == ExposedOf(p, ms)
                 is == Counted(rows, p, ms, now, MinWindow)
      <3>1. js \in SUBSET Ids /\ is \in SUBSET Ids
        BY CountedAreIds DEF ExposedOf, Exposed, Live
      <3>2. \A i \in js : i \in is
        BY ExposedCounts
      <3> HIDE DEF js, is
      <3>3. Total(rows, js) <= Total(rows, is)
        BY <3>1, <3>2, TotalMonotone
      <3>4. Total(rows, js) \in Nat /\ Total(rows, is) \in Nat
        BY <3>1, UnitsFinite
      <3> QED
        BY <3>3, <3>4 DEF Committed, is, js
    <2>2. ASSUME NEW p \in Principals, NEW m \in Mandates
          PROVE  Total(rows, ExposedOf(p, {m})) <= Cap
      BY <2>1, CapBounds DEF LimitsHold
    <2>3. ASSUME NEW p \in Principals
          PROVE  Total(rows, ExposedOf(p, Mandates)) <= AggregateCap
      BY <2>1, CapBounds DEF LimitsHold
    <2> QED
      BY <2>2, <2>3 DEF OutflowWithinCaps
  <1>2. Spec => []LimitsHold
    BY ImplementsStore, LimitsAlwaysHold
  <1> QED
    BY <1>1, <1>2, TypeCorrect, PaymentsStayHeld, PTL
=============================================================================
