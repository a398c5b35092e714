--------------------------- MODULE GuardHooks_proofs ---------------------------
(***************************************************************************)
(* Proofs about GuardHooks, for every value of its constants: the hooks    *)
(* use the store as StoreSpec allows, and the tables through which they    *)
(* find each other give up no hold, no key and no settlement of another    *)
(* payment.                                                                *)
(***************************************************************************)
EXTENDS GuardHooks, ReservationStore_proofs, SequenceTheorems

USE DEF MismatchTolerance

-----------------------------------------------------------------------------
(* The inductive invariant.                                                *)

\* Where a payment has not yet been queued, and where it already has a row.
Early == {"idle", "evaluate", "dedup", "duplicate", "allowed"}

Fresh == {"dedup", "duplicate", "allowed"}

\* Where a hook has taken an entry whose row it is about to change.
Taking == {"record", "release"}

SignedStates == {"after", "record"} \cup Left

\* A row of which the guard knows that no payload was signed against it.
Unsigned(i) ==
  /\ i \in Live(rows)
  /\ \/ rows[i].status = "reserved"
     \/ rows[i].status = "expired" /\ now >= rows[i].safe

SignedFor(i, p) ==
  /\ i \in Live(rows) /\ rows[i].ref = p
  /\ rows[i].status \notin {"reserved", "released"}

\* A row is named after a payment that was evaluated, and lives at least as
\* long as the authorization that was priced for it.
RowsPriced ==
  \A i \in Live(rows) :
    pc[i] \notin {"idle", "evaluate"} /\ rows[i].safe >= KeyExpiry(i)

HooksTimed ==
  \A p \in Ids :
    /\ read[p] <= now
    /\ pc[p] \in Running => now <= read[p] + HookTime
    /\ pc[p] \in SignedStates => /\ validBefore[p] \in Nat
                                 /\ validBefore[p] >= read[p] + Horizon(p)

\* The entries that wait in a queue, those that hooks have taken and the
\* payments not yet queued are all different, and the row of each is unsigned.
Queued(i, s) == \E k \in DOMAIN pending[s] : pending[s][k].id = i

QueuesFresh ==
  \A s \in Signatures : \A k \in DOMAIN pending[s] :
    LET i == pending[s][k].id IN
      /\ Signature(i) = s /\ pc[i] \notin Early /\ Unsigned(i)
      /\ \A l \in DOMAIN pending[s] : pending[s][l].id = i => l = k

TakenFresh ==
  \A p \in Ids : pc[p] \in Taking =>
    /\ held[p] # None
    /\ LET i == held[p].id IN
         /\ Signature(i) = Signature(p) /\ pc[i] \notin Early /\ Unsigned(i)
         /\ ~Queued(i, Signature(p))
         /\ \A q \in Ids : pc[q] \in Taking /\ held[q] # None /\ held[q].id = i => q = p
    /\ pc[p] = "record" => ~Diverged(p, held[p])

PaymentsFresh == \A p \in Ids : pc[p] \in Fresh => Unsigned(p)

\* What a nonce finds was signed for the payload that carries the nonce.
NoncesFindOwn ==
  \A p \in Ids :
    /\ signedByNonce[p] # None => SignedFor(signedByNonce[p].id, p)
    /\ pc[p] \in {"settle", "lose"} => held[p] # None /\ SignedFor(held[p].id, p)

IInv ==
  /\ TypeOK /\ RowsPriced /\ HooksTimed
  /\ QueuesFresh /\ TakenFresh /\ PaymentsFresh /\ NoncesFindOwn

\* Where a payment will still take an entry from its queue.
Claiming == {"signing", "after", "failing"}

Claimants(s) == {p \in Ids : Signature(p) = s /\ pc[p] \in Claiming}

\* As long as no hook failed there is an entry for each of these payments, and
\* the entry of a queue that nobody shared is that of the only one.
QueuesServe ==
  \A s \in Signatures :
    /\ Cardinality(Claimants(s)) <= Len(pending[s])
    /\ \A k \in DOMAIN pending[s] :
         ~pending[s][k].contended =>
           Len(pending[s]) = 1 /\ Claimants(s) \subseteq {pending[s][k].id}

\* An entry that was taken uncontended is the one of the payment that took it.
FailuresOwn ==
  \A p \in Ids :
    /\ pc[p] = "release" /\ ~held[p].contended => held[p].id = p
    /\ pc[p] = "unkey" => held[p] # None /\ held[p].id = p

\* The hooks of a payment end a second before the authorization it was priced
\* for expires, and no store operation throws.
SoundHooks ==
  ~MayThrow /\ \A p \in Ids : HookTime + MismatchTolerance < RequestOf[p].validity

\* Where a payment owns its dedup key.
Owning == {"allowed", "withdraw", "signing", "after", "record", "failing",
           "release", "unkey"} \cup Left

Owns(p) == KeyOf[p] # None /\ pc[p] \in Owning /\ now < KeyExpiry(p)

KeysOwned ==
  \A p \in Ids : Owns(p) =>
    /\ dedup[KeyOf[p]] = KeyExpiry(p)
    /\ \A q \in Ids : Owns(q) /\ KeyOf[q] = KeyOf[p] => q = p

SignedApart ==
  \A p, q \in Ids :
    /\ p # q /\ KeyOf[p] # None /\ KeyOf[p] = KeyOf[q]
    /\ pc[p] \in SignedStates /\ pc[q] \in SignedStates
    => SignedAt(p) >= KeyExpiry(q) \/ SignedAt(q) >= KeyExpiry(p)

SInv == IInv /\ QueuesServe /\ FailuresOwn /\ KeysOwned /\ SignedApart /\ HoldPerPayload

-----------------------------------------------------------------------------
(* The hooks use the store as StoreSpec allows.                            *)

LEMMA PaymentFacts ==
  ASSUME NEW p \in Ids
  PROVE  /\ RequestOf[p] \in Request /\ RequestOf[p].validity \in Nat
         /\ Margin \in Nat /\ Horizon(p) \in Nat
         /\ Horizon(p) + Margin = RequestOf[p].validity
         /\ Signature(p) \in Signatures
         /\ p \in Refs
  <1>1. RequestOf[p] \in Request
    BY RequestsAreRequests
  <1>2. RequestOf[p].validity \in Nat /\ Margin \in Nat /\ Margin <= RequestOf[p].validity
    BY <1>1, ValidityBounds, MarginBound DEF Request
  <1> QED
    BY <1>1, <1>2, NoncesAreRefs DEF Horizon, Signatures

\* What the after hook accepts outlives the priced authorization by a second at
\* most, so that the row is signed within the tolerance of the store.
LEMMA RecordSigns ==
  ASSUME IInv, NEW p \in Ids, Record(p)
  PROVE  /\ held[p] \in Entry /\ held[p].id \in Ids /\ held[p].id \in Live(rows)
         /\ rows[held[p].id] \in Reservation
         /\ validBefore[p] + Margin \in Nat
         /\ \E d \in 0..Tolerance : Sign(held[p].id, rows[held[p].id].safe + d, p)
  <1> DEFINE i == held[p].id
             r == rows[i]
             safe == validBefore[p] + Margin
  <1>1. held[p] \in Entry /\ i \in Ids
    BY DEF IInv, TypeOK, TakenFresh, Taking, Record, Entry
  <1>2. i \in Live(rows) /\ r \in Reservation /\ r.safe \in Nat /\ r.safe >= KeyExpiry(i)
    BY <1>1 DEF Record, Sign, InStatus, IInv, TypeOK, StoreTypeOK, Live, Reservation,
                RowsPriced
  <1>3. validBefore[p] \in Nat /\ read[i] \in Nat
    BY <1>1 DEF IInv, TypeOK, HooksTimed, Record, SignedStates
  <1>4. validBefore[p] <= read[i] + Horizon(i) + 1
    <2>1. ~Diverged(p, held[p])
      BY DEF IInv, TakenFresh, Taking, Record
    <2> QED
      BY <1>1, <1>3, <2>1, PaymentFacts DEF Diverged
  <1>5. safe \in Nat /\ safe <= r.safe + 1
    BY <1>1, <1>2, <1>3, <1>4, PaymentFacts DEF KeyExpiry
  <1>6. /\ InStatus(i, "reserved") /\ RefUnused(i, p)
        /\ rows' = [rows EXCEPT ![i] = Signed(r, safe, p)] /\ UNCHANGED now
    BY DEF Record, Sign
  <1>7. \E d \in 0..Tolerance : Signed(r, safe, p) = Signed(r, r.safe + d, p)
    <2>1. CASE safe <= r.safe
      <3>1. Signed(r, safe, p) = Signed(r, r.safe + 0, p)
        BY <1>2, <1>5, <2>1, SignedEarly
      <3> QED
        BY <3>1, ValidityBounds
    <2>2. CASE ~(safe <= r.safe)
      <3>1. safe = r.safe + 1 /\ 1 \in 0..Tolerance
        BY <1>2, <1>5, <2>2, ValidityBounds, MismatchWithinTolerance
      <3> QED
        BY <3>1
    <2> QED
      BY <2>1, <2>2
  <1> QED
    BY <1>1, <1>2, <1>5, <1>6, <1>7 DEF Sign

LEMMA NextIsStoreNext == IInv /\ [Next]_vars => [StoreNext]_storeVars
  <1> SUFFICES ASSUME IInv, [Next]_vars PROVE [StoreNext]_storeVars
    OBVIOUS
  <1>0. now \in Nat /\ now \in Readings
    BY ClockBounds DEF IInv, TypeOK, StoreTypeOK, Readings
  <1>1. ASSUME NEW p \in Ids, Before(p) PROVE [StoreNext]_storeVars
    <2>1. CASE Reserve(p)
      BY <2>1, PaymentFacts DEF Reserve, StoreNext
    <2>2. CASE DropDuplicate(p) \/ Deny(p)
      BY <2>2 DEF DropDuplicate, Deny, StoreNext
    <2> QED
      BY <1>1, <2>1, <2>2 DEF Before, Begin, Refuse, ClaimKey, FindDuplicate, Withdraw,
                              Enqueue
  <1>2. ASSUME NEW p \in Ids, After(p) PROVE [StoreNext]_storeVars
    <2>1. CASE Record(p)
      <3>1. p \in Refs
        BY PaymentFacts
      <3> QED
        BY <2>1, <3>1, RecordSigns DEF StoreNext
    <2> QED
      BY <1>2, <2>1 DEF After, AfterUnmatched, AfterDiverged, AfterMatched
  <1>3. ASSUME NEW p \in Ids, OnFailure(p) PROVE [StoreNext]_storeVars
    <2>1. CASE ReleaseEntry(p)
      <3>1. held[p].id \in Ids
        BY <2>1 DEF ReleaseEntry, Release, InStatus, Live
      <3> QED
        BY <2>1, <3>1 DEF ReleaseEntry, StoreNext
    <2> QED
      BY <1>3, <2>1 DEF OnFailure, FailUnmatched, FailMatched, FreeKey
  <1>4. ASSUME NEW p \in Ids, OnResponse(p) PROVE [StoreNext]_storeVars
    <2>1. CASE Close(p)
      <3>1. held[p].id \in Ids
        BY <2>1 DEF Close, Settle, LoseTrack, InStatus, Live
      <3> QED
        BY <1>0, <2>1, <3>1 DEF Close, StoreNext
    <2> QED
      BY <1>4, <2>1 DEF OnResponse, Respond
  <1>5. ASSUME NEW p \in Ids,
               SignPayload(p) \/ SignerFails(p) \/ ForeignAbort(p) \/ Fault(p)
        PROVE  [StoreNext]_storeVars
    BY <1>5 DEF SignPayload, SignerFails, ForeignAbort, Fault
  <1>6. ASSUME NEW w \in Windows, Reconcile(w) \/ Restart(w)
        PROVE  [StoreNext]_storeVars
    BY <1>0, <1>6 DEF Reconcile, Restart, StoreNext
  <1>7. CASE Clock \/ UNCHANGED vars
    BY <1>7 DEF Clock, StoreNext, vars, storeVars
  <1> QED
    BY <1>1, <1>2, <1>3, <1>4, <1>5, <1>6, <1>7 DEF Next

-----------------------------------------------------------------------------
(* Queues.                                                                 *)

\* Marking keeps the entries of a queue, and marks each when there are two.
LEMMA Marked ==
  ASSUME NEW q \in Seq(Entry)
  PROVE  /\ MarkContended(q) \in Seq(Entry)
         /\ Len(MarkContended(q)) = Len(q)
         /\ \A k \in 1..Len(q) : /\ MarkContended(q)[k].id = q[k].id
                                 /\ Len(q) > 1 => MarkContended(q)[k].contended
         /\ Len(q) <= 1 => MarkContended(q) = q
  <1>1. Len(q) \in Nat /\ DOMAIN q = 1..Len(q) /\ \A k \in 1..Len(q) : q[k] \in Entry
    OBVIOUS
  <1>2. CASE Len(q) > 1
    <2> DEFINE m == [k \in 1..Len(q) |-> [q[k] EXCEPT !.contended = TRUE]]
    <2>1. MarkContended(q) = m
      BY <1>1, <1>2 DEF MarkContended
    <2>2. \A k \in 1..Len(q) :
            /\ [q[k] EXCEPT !.contended = TRUE] \in Entry
            /\ [q[k] EXCEPT !.contended = TRUE].id = q[k].id
            /\ [q[k] EXCEPT !.contended = TRUE].contended
      BY <1>1 DEF Entry
    <2>3. m \in Seq(Entry) /\ Len(m) = Len(q)
      BY <1>1, <2>2
    <2>4. \A k \in 1..Len(q) : m[k].id = q[k].id /\ m[k].contended
      BY <2>2
    <2> HIDE DEF m
    <2> QED
      BY <1>1, <1>2, <2>1, <2>3, <2>4
  <1>3. CASE ~(Len(q) > 1)
    <2>1. MarkContended(q) = q
      BY <1>3 DEF MarkContended
    <2> QED
      BY <1>1, <1>3, <2>1
  <1> QED
    BY <1>2, <1>3

Joining(q, p) == MarkContended(Append(q, [id |-> p, contended |-> FALSE]))

\* What a payment finds when it queues behind others.
LEMMA Joined ==
  ASSUME NEW q \in Seq(Entry), NEW p \in Ids
  PROVE  /\ Joining(q, p) \in Seq(Entry) /\ Len(Joining(q, p)) = Len(q) + 1
         /\ \A k \in 1..Len(q) : /\ Joining(q, p)[k].id = q[k].id
                                 /\ Joining(q, p)[k].contended
         /\ Joining(q, p)[Len(q) + 1].id = p
         /\ Len(q) > 0 => Joining(q, p)[Len(q) + 1].contended
  <1> DEFINE e == [id |-> p, contended |-> FALSE]
             a == Append(q, e)
  <1>1. e \in Entry /\ e.id = p
    BY DEF Entry
  <1> HIDE DEF e
  <1>2. /\ a \in Seq(Entry) /\ Len(a) = Len(q) + 1 /\ Len(q) \in Nat
        /\ \A k \in 1..Len(q) : a[k] = q[k]
        /\ a[Len(q) + 1] = e
    BY <1>1, AppendProperties
  <1> DEFINE j == MarkContended(a)
  <1> HIDE DEF a
  <1>3. /\ j \in Seq(Entry) /\ Len(j) = Len(a)
        /\ \A k \in 1..Len(a) : /\ j[k].id = a[k].id
                                /\ Len(a) > 1 => j[k].contended
    BY <1>2, Marked
  <1> HIDE DEF j
  <1>4. \A k \in 1..Len(q) : k \in 1..Len(a) /\ Len(a) > 1
    BY <1>2
  <1>5. Len(q) + 1 \in 1..Len(a)
    BY <1>2
  <1>6. \A k \in 1..Len(q) : j[k].id = q[k].id /\ j[k].contended
    BY <1>2, <1>3, <1>4
  <1>7. j[Len(q) + 1].id = p
    BY <1>1, <1>2, <1>3, <1>5
  <1>8. Len(q) > 0 => j[Len(q) + 1].contended
    BY <1>2, <1>3, <1>5
  <1>9. Joining(q, p) = j
    BY DEF Joining, j, a, e
  <1> QED
    BY <1>2, <1>3, <1>6, <1>7, <1>8, <1>9

LEMMA Taken ==
  ASSUME NEW q \in Seq(Entry), q # <<>>
  PROVE  /\ Head(q) \in Entry /\ Head(q) = q[1] /\ Len(q) \in Nat \ {0}
         /\ Tail(q) \in Seq(Entry) /\ Len(Tail(q)) = Len(q) - 1
         /\ \A k \in 1..Len(Tail(q)) : Tail(q)[k] = q[k + 1]
  <1>1. Head(q) = q[1]
    OBVIOUS
  <1> QED
    BY <1>1, HeadTailProperties, EmptySeq

-----------------------------------------------------------------------------
(* Type correctness.                                                       *)

LEMMA InitHolds == Init => IInv
  <1> SUFFICES ASSUME Init PROVE IInv
    OBVIOUS
  <1>1. TypeOK
    <2>1. StoreTypeOK
      BY InitType DEF Init
    <2>2. pending \in [Signatures -> Seq(Entry)]
      BY DEF Init
    <2> QED
      BY <2>1, <2>2 DEF Init, TypeOK
  <1>2. Live(rows) = {}
    BY DEF Init, StoreInit, Live
  <1>3. \A p \in Ids : /\ pc[p] = "idle" /\ read[p] = 0 /\ now = 0
                       /\ signedByNonce[p] = None
    BY DEF Init, StoreInit
  <1>4. \A s \in Signatures : DOMAIN pending[s] = {}
    BY DEF Init
  <1> QED
    BY <1>1, <1>2, <1>3, <1>4
       DEF IInv, RowsPriced, HooksTimed, QueuesFresh, TakenFresh, PaymentsFresh,
           NoncesFindOwn, Running, SignedStates, Left, Taking, Fresh

LEMMA NextTypeOK == IInv /\ [Next]_vars => TypeOK'
  <1> SUFFICES ASSUME IInv, [Next]_vars PROVE TypeOK'
    OBVIOUS
  <1>0. TypeOK /\ now \in Nat
    BY DEF IInv, TypeOK, StoreTypeOK
  <1>1. StoreTypeOK'
    BY <1>0, NextIsStoreNext, NextType DEF TypeOK
  <1> DEFINE PcOK == pc' \in [Ids -> {"idle", "aborted", "failed"} \cup Running \cup Left]
  <1> SUFFICES /\ dedup' \in [Keys -> Nat \cup {None}]
               /\ pending' \in [Signatures -> Seq(Entry)]
               /\ signedByNonce' \in [Ids -> Entry \cup {None}]
               /\ healthy' \in BOOLEAN
               /\ PcOK
               /\ read' \in [Ids -> Nat]
               /\ validBefore' \in [Ids -> Nat \cup {None}]
               /\ held' \in [Ids -> Entry \cup {None}]
    BY <1>1 DEF TypeOK
  <1> USE <1>0 DEF TypeOK, Goto, Running, Left
  <1>2. ASSUME NEW p \in Ids, Before(p) PROVE TypeOK'
    <2>1. CASE Begin(p) \/ Refuse(p) \/ Reserve(p) \/ FindDuplicate(p)
               \/ DropDuplicate(p) \/ Deny(p) \/ Withdraw(p)
      BY <1>1, <2>1 DEF Begin, Refuse, Reserve, FindDuplicate, DropDuplicate, Deny,
                        Withdraw, hookVars
    <2>2. CASE ClaimKey(p)
      <3>1. KeyExpiry(p) \in Nat
        BY PaymentFacts DEF KeyExpiry
      <3> QED
        BY <1>1, <2>2, <3>1 DEF ClaimKey, hookVars
    <2>3. CASE Enqueue(p)
      <3>1. pending' \in [Signatures -> Seq(Entry)]
        BY <2>3, PaymentFacts, Joined DEF Enqueue, Joining
      <3> QED
        BY <1>1, <2>3, <3>1 DEF Enqueue, hookVars
    <2> QED
      BY <1>2, <2>1, <2>2, <2>3 DEF Before
  <1>3. ASSUME NEW p \in Ids, SignPayload(p) \/ SignerFails(p) \/ ForeignAbort(p)
        PROVE  TypeOK'
    <2>1. now + Horizon(p) \in Nat
      BY PaymentFacts
    <2> QED
      BY <1>1, <1>3, <2>1 DEF SignPayload, SignerFails, ForeignAbort, hookVars
  <1>4. ASSUME NEW p \in Ids PROVE Queue(p) \in Seq(Entry)
    BY PaymentFacts DEF Queue
  <1>5. ASSUME NEW p \in Ids, Shift(p), Queue(p) # <<>>
        PROVE  /\ pending' \in [Signatures -> Seq(Entry)]
               /\ held' \in [Ids -> Entry \cup {None}]
    BY <1>4, <1>5, Taken DEF Shift, Queue
  <1>6. ASSUME NEW p \in Ids, After(p) PROVE TypeOK'
    <2>1. CASE AfterUnmatched(p)
      BY <1>1, <2>1 DEF AfterUnmatched, hookVars
    <2>2. CASE AfterDiverged(p)
      <3>1. pending' \in [Signatures -> Seq(Entry)]
        BY <1>4, <2>2, Marked DEF AfterDiverged, Queue
      <3> QED
        BY <1>1, <2>2, <3>1 DEF AfterDiverged
    <2>3. CASE AfterMatched(p)
      BY <1>1, <1>5, <2>3 DEF AfterMatched
    <2>4. CASE Record(p)
      <3>1. held[p] \in Entry
        BY <2>4, RecordSigns
      <3> QED
        BY <1>1, <2>4, <3>1 DEF Record, DropHeld
    <2> QED
      BY <1>6, <2>1, <2>2, <2>3, <2>4 DEF After
  <1>7. ASSUME NEW p \in Ids, OnFailure(p) PROVE TypeOK'
    <2>1. CASE FailUnmatched(p)
      BY <1>1, <2>1 DEF FailUnmatched, hookVars
    <2>2. CASE FailMatched(p)
      BY <1>1, <1>5, <2>2 DEF FailMatched
    <2>3. CASE ReleaseEntry(p) \/ FreeKey(p)
      BY <1>1, <2>3 DEF ReleaseEntry, FreeKey, DropHeld
    <2> QED
      BY <1>7, <2>1, <2>2, <2>3 DEF OnFailure
  <1>8. ASSUME NEW p \in Ids, OnResponse(p) PROVE TypeOK'
    BY <1>1, <1>8 DEF OnResponse, Respond, CorrelatedEntry, Close, DropHeld
  <1>9. ASSUME NEW p \in Ids, Fault(p) PROVE TypeOK'
    <2>1. OnFault[pc[p]] \in {"aborted", "failing", "failed", "done"}
      BY <1>9 DEF Fault, OnFault
    <2> QED
      BY <1>1, <1>9, <2>1 DEF Fault, LatchUnhealthy, DropHeld
  <1>10. ASSUME NEW w \in Windows, Reconcile(w) PROVE TypeOK'
    BY <1>1, <1>10 DEF Reconcile
  <1>11. ASSUME NEW w \in Windows, Restart(w) PROVE TypeOK'
    BY <1>1, <1>11 DEF Restart
  <1>12. CASE Clock \/ UNCHANGED vars
    BY <1>1, <1>12 DEF Clock, Tick, guardVars, vars, storeVars
  <1> QED
    BY <1>2, <1>3, <1>6, <1>7, <1>8, <1>9, <1>10, <1>11, <1>12 DEF Next

-----------------------------------------------------------------------------
(* Where a step leaves the payments.                                       *)

Hook(p) ==
  \/ Before(p) \/ SignPayload(p) \/ SignerFails(p) \/ ForeignAbort(p) \/ After(p)
  \/ OnFailure(p) \/ OnResponse(p) \/ Fault(p)

LEMMA NextSteps ==
  Next <=> \/ \E p \in Ids : Hook(p)
           \/ \E w \in Windows : Reconcile(w) \/ Restart(w)
           \/ Clock
  BY DEF Next, Hook

\* A hook moves its own payment only, and lets no time pass.
LEMMA HookMovesOwn ==
  ASSUME TypeOK, NEW p \in Ids, Hook(p)
  PROVE  /\ now' = now
         /\ \A q \in Ids \ {p} :
              /\ pc'[q] = pc[q] /\ read'[q] = read[q]
              /\ validBefore'[q] = validBefore[q] /\ held'[q] = held[q]
              /\ signedByNonce'[q] = signedByNonce[q]
  <1> USE DEF TypeOK, Goto, DropHeld, hookVars, storeVars
  <1>1. CASE Before(p)
    BY <1>1 DEF Before, Begin, Refuse, Reserve, ClaimKey, FindDuplicate, DropDuplicate,
                Deny, Withdraw, Enqueue, TryReserve, Release
  <1>2. CASE SignPayload(p) \/ SignerFails(p) \/ ForeignAbort(p)
    BY <1>2 DEF SignPayload, SignerFails, ForeignAbort
  <1>3. CASE After(p)
    BY <1>3 DEF After, AfterUnmatched, AfterDiverged, AfterMatched, Record, Sign, Shift
  <1>4. CASE OnFailure(p)
    BY <1>4 DEF OnFailure, FailUnmatched, FailMatched, ReleaseEntry, FreeKey, Release, Shift
  <1>5. CASE OnResponse(p)
    BY <1>5 DEF OnResponse, Respond, Close, Settle, LoseTrack
  <1>6. CASE Fault(p)
    BY <1>6 DEF Fault
  <1> QED
    BY <1>1, <1>2, <1>3, <1>4, <1>5, <1>6 DEF Hook

\* The order of a payment's states, as far as the invariant needs it: its clock
\* is read once, it is signed once, and it is not evaluated again.
LEMMA HookMoves ==
  ASSUME TypeOK, NEW p \in Ids, Hook(p)
  PROVE  /\ pc'[p] # "idle"
         /\ pc[p] # "idle" => read'[p] = read[p]
         /\ pc[p] # "signing" => validBefore'[p] = validBefore[p]
         /\ pc'[p] = "evaluate" => pc[p] = "idle"
         /\ pc[p] \notin Early => pc'[p] \notin Early
         /\ pc'[p] \in Running => \/ pc[p] \in Running /\ read'[p] = read[p]
                                  \/ read'[p] = now
         /\ pc'[p] \in SignedStates =>
              \/ pc[p] \in SignedStates /\ read'[p] = read[p]
                 /\ validBefore'[p] = validBefore[p]
              \/ pc[p] = "signing" /\ read'[p] = read[p]
                 /\ validBefore'[p] = now + Horizon(p)
         /\ pc[p] = "idle" => read'[p] = read[p] \/ read'[p] = now
  <1> USE DEF TypeOK, Goto, hookVars, Early, Running, SignedStates, Left
  <1>1. CASE Before(p)
    <2>1. CASE Begin(p) \/ Refuse(p)
      BY <2>1 DEF Begin, Refuse
    <2>2. CASE Reserve(p) \/ ClaimKey(p) \/ FindDuplicate(p) \/ DropDuplicate(p)
               \/ Deny(p) \/ Withdraw(p) \/ Enqueue(p)
      BY <2>2 DEF Reserve, ClaimKey, FindDuplicate, DropDuplicate, Deny, Withdraw, Enqueue
    <2> QED
      BY <1>1, <2>1, <2>2 DEF Before
  <1>2. CASE SignPayload(p) \/ SignerFails(p) \/ ForeignAbort(p)
    BY <1>2 DEF SignPayload, SignerFails, ForeignAbort
  <1>3. CASE After(p)
    BY <1>3 DEF After, AfterUnmatched, AfterDiverged, AfterMatched, Record
  <1>4. CASE OnFailure(p)
    BY <1>4 DEF OnFailure, FailUnmatched, FailMatched, ReleaseEntry, FreeKey
  <1>5. CASE OnResponse(p)
    BY <1>5 DEF OnResponse, Respond, Close
  <1>6. CASE Fault(p)
    <2>1. /\ pc'[p] \in {"aborted", "failing", "failed", "done"}
          /\ pc'[p] = "failing" => pc[p] = "record"
          /\ pc'[p] = "done" => pc[p] \in {"settle", "lose"}
          /\ pc[p] # "idle"
      BY <1>6 DEF Fault, OnFault
    <2> QED
      BY <1>6, <2>1 DEF Fault
  <1> QED
    BY <1>1, <1>2, <1>3, <1>4, <1>5, <1>6 DEF Hook

\* A restart stops what runs, and nothing else.
LEMMA RestartStops ==
  ASSUME TypeOK, NEW w \in Windows, Restart(w), NEW p \in Ids
  PROVE  /\ pc'[p] \notin Running
         /\ pc'[p] = "idle" <=> pc[p] = "idle"
         /\ pc'[p] \in Left => pc[p] \in Left /\ pc'[p] = "done"
         /\ read'[p] = read[p] /\ validBefore'[p] = validBefore[p] /\ now' = now
  BY DEF Restart, TypeOK, Running, Left, RecoverAfterRestart

LEMMA NextTimes == IInv /\ [Next]_vars => HooksTimed'
  <1> SUFFICES ASSUME IInv, [Next]_vars PROVE HooksTimed'
    OBVIOUS
  <1>0. TypeOK /\ HooksTimed /\ now \in Nat /\ HookTime \in Nat
    BY FaultBounds DEF IInv, TypeOK, StoreTypeOK
  <1>1. \A p \in Ids : read[p] \in Nat /\ Horizon(p) \in Nat
    BY <1>0, PaymentFacts DEF TypeOK
  <1>2. ASSUME NEW q \in Ids, Hook(q) PROVE HooksTimed'
    <2>1. now' = now
      BY <1>0, <1>2, HookMovesOwn
    <2> SUFFICES ASSUME NEW p \in Ids
                 PROVE  /\ read'[p] <= now
                        /\ pc'[p] \in Running => now <= read'[p] + HookTime
                        /\ pc'[p] \in SignedStates =>
                             /\ validBefore'[p] \in Nat
                             /\ validBefore'[p] >= read'[p] + Horizon(p)
      BY <2>1 DEF HooksTimed, Horizon
    <2>2. CASE p # q
      BY <1>0, <1>2, <2>2, HookMovesOwn DEF HooksTimed
    <2>3. CASE p = q
      <3>1. read'[p] = read[p] \/ read'[p] = now
        BY <1>0, <1>2, <2>3, HookMoves
      <3>2. pc'[p] \in Running => now <= read'[p] + HookTime
        BY <1>0, <1>1, <1>2, <2>3, HookMoves DEF HooksTimed
      <3>3. ASSUME pc'[p] \in SignedStates
            PROVE  validBefore'[p] \in Nat /\ validBefore'[p] >= read'[p] + Horizon(p)
        <4>1. \/ pc[p] \in SignedStates /\ read'[p] = read[p]
                 /\ validBefore'[p] = validBefore[p]
              \/ read'[p] = read[p] /\ validBefore'[p] = now + Horizon(p)
          BY <1>0, <1>2, <2>3, <3>3, HookMoves
        <4> QED
          BY <1>0, <1>1, <4>1 DEF HooksTimed
      <3> QED
        BY <1>0, <1>1, <3>1, <3>2, <3>3 DEF HooksTimed
    <2> QED
      BY <2>2, <2>3
  <1>3. ASSUME NEW w \in Windows, Reconcile(w) PROVE HooksTimed'
    BY <1>0, <1>3 DEF Reconcile, ReleaseExpired, HooksTimed, Horizon
  <1>4. ASSUME NEW w \in Windows, Restart(w) PROVE HooksTimed'
    BY <1>0, <1>4, RestartStops DEF HooksTimed, SignedStates, Running, Horizon
  <1>5. CASE Clock
    BY <1>0, <1>1, <1>5 DEF Clock, Tick, guardVars, HooksTimed, Horizon
  <1>6. CASE UNCHANGED vars
    BY <1>0, <1>6 DEF vars, guardVars, HooksTimed, Horizon
  <1> QED
    BY <1>2, <1>3, <1>4, <1>5, <1>6, NextSteps

\* What the store does to the rows, in terms of the invariant.
LEMMA NextRows ==
  ASSUME IInv, [Next]_vars
  PROVE  /\ StoreTypeOK /\ StoreTypeOK' /\ now \in Nat /\ now' \in Nat /\ now <= now'
         /\ \A i \in Live(rows) :
              /\ i \in Live(rows') /\ RowStep(rows[i], rows'[i])
              /\ rows[i] \in Reservation /\ rows[i].safe \in Nat
              /\ rows'[i] \in Reservation /\ rows'[i].safe \in Nat
         /\ \A i \in Ids : \A p : SignedFor(i, p) => SignedFor(i, p)'
  <1>1. StoreTypeOK /\ StoreTypeOK' /\ [StoreNext]_storeVars
    BY NextTypeOK, NextIsStoreNext DEF IInv, TypeOK
  <1>2. \A i \in Live(rows) : i \in Live(rows') /\ RowStep(rows[i], rows'[i])
    BY <1>1, RowsStep
  <1>3. now \in Nat /\ now' \in Nat
    BY <1>1 DEF StoreTypeOK
  <1>4. now <= now'
    <2>1. now' = now \/ now' = now + 1
      BY <1>1 DEF StoreNext, TryReserve, Sign, Release, Settle, LoseTrack,
                  ReleaseExpired, RecoverAfterRestart, Tick, storeVars
    <2> QED
      BY <1>3, <2>1
  <1>5. \A i \in Live(rows) : /\ rows[i] \in Reservation /\ rows[i].safe \in Nat
    BY <1>1 DEF StoreTypeOK, Live, Reservation
  <1>6. \A i \in Live(rows') : /\ rows'[i] \in Reservation /\ rows'[i].safe \in Nat
    BY <1>1 DEF StoreTypeOK, Live, Reservation
  <1>7. ASSUME NEW i \in Ids, NEW p, SignedFor(i, p) PROVE SignedFor(i, p)'
    BY <1>2, <1>7 DEF SignedFor, RowStep
  <1> QED
    BY <1>1, <1>2, <1>3, <1>4, <1>5, <1>6, <1>7

LEMMA NextPrices == IInv /\ [Next]_vars => RowsPriced'
  <1> SUFFICES ASSUME IInv, [Next]_vars PROVE RowsPriced'
    OBVIOUS
  <1>0. TypeOK /\ RowsPriced
    BY DEF IInv
  <1>1. \A p \in Ids : RequestOf[p].validity \in Nat /\ read[p] \in Nat
    BY <1>0, PaymentFacts DEF TypeOK
  \* It is enough that no row is new and no priced payment starts again.
  <1>2. ASSUME NEW i \in Live(rows), pc'[i] \notin {"idle", "evaluate"},
               read'[i] = read[i]
        PROVE  pc'[i] \notin {"idle", "evaluate"} /\ rows'[i].safe >= KeyExpiry(i)'
    <2>1. rows'[i].safe >= rows[i].safe
      BY NextRows DEF RowStep
    <2>2. rows[i].safe \in Nat /\ rows'[i].safe \in Nat
      BY NextRows
    <2>3. rows[i].safe >= KeyExpiry(i) /\ KeyExpiry(i)' = KeyExpiry(i)
      BY <1>0, <1>2 DEF RowsPriced, KeyExpiry
    <2>4. KeyExpiry(i) \in Nat
      BY <1>1 DEF KeyExpiry, Live
    <2> QED
      BY <1>2, <2>1, <2>2, <2>3, <2>4
  <1>3. ASSUME NEW p \in Ids, Hook(p) PROVE RowsPriced'
    <2>1. ASSUME NEW i \in Live(rows)
          PROVE  pc'[i] \notin {"idle", "evaluate"} /\ rows'[i].safe >= KeyExpiry(i)'
      <3>1. i \in Ids /\ pc[i] \notin {"idle", "evaluate"}
        BY <1>0, <2>1 DEF RowsPriced, Live
      <3>2. pc'[i] \notin {"idle", "evaluate"} /\ read'[i] = read[i]
        BY <1>0, <1>3, <3>1, HookMovesOwn, HookMoves
      <3> QED
        BY <1>2, <3>2
    <2>2. CASE Reserve(p)
      <3>1. /\ TryReserve(RequestOf[p], read[p]) /\ read[p] \in Readings
            /\ RequestOf[p] \in Request /\ pc[p] = "evaluate"
            /\ Live(rows') \subseteq Live(rows) \cup {p}
        BY <2>2, PaymentFacts DEF Reserve
      <3>2. \A i \in Live(rows') \ Live(rows) :
              i = p /\ rows'[i] = NewRow(RequestOf[p], read[p])
        BY <3>1, NextRows, ReserveGently
      <3>3. ASSUME p \in Live(rows')
            PROVE  pc'[p] \notin {"idle", "evaluate"} /\ read'[p] = read[p]
        BY <1>0, <2>2, <3>3 DEF Reserve, Goto, TypeOK
      <3>4. KeyExpiry(p) \in Nat /\ NewRow(RequestOf[p], read[p]).safe = KeyExpiry(p)
        BY <1>1 DEF NewRow, KeyExpiry
      <3> QED
        BY <2>1, <3>2, <3>3, <3>4 DEF RowsPriced, KeyExpiry
    <2>3. CASE ~Reserve(p)
      <3>1. Live(rows') \subseteq Live(rows)
        <4>1. ASSUME NEW i \in Live(rows), NEW s, rows' = [rows EXCEPT ![i] = s]
              PROVE  Live(rows') \subseteq Live(rows)
          BY <1>0, <4>1 DEF Live, TypeOK, StoreTypeOK
        <4>2. CASE Record(p)
          BY <4>1, <4>2 DEF Record, Sign, InStatus
        <4>3. ASSUME NEW i \in Ids, Release(i) PROVE Live(rows') \subseteq Live(rows)
          BY <1>0, <4>3 DEF Release, InStatus, Live, TypeOK, StoreTypeOK
        <4>4. CASE DropDuplicate(p) \/ Deny(p) \/ ReleaseEntry(p)
          <5>1. ReleaseEntry(p) => held[p].id \in Ids
            BY DEF ReleaseEntry, Release, InStatus, Live
          <5> QED
            BY <4>3, <4>4, <5>1 DEF DropDuplicate, Deny, ReleaseEntry
        <4>5. CASE Close(p)
          BY <1>0, <4>5 DEF Close, Settle, LoseTrack, InStatus, Live, TypeOK, StoreTypeOK
        <4>6. CASE ~(Record(p) \/ DropDuplicate(p) \/ Deny(p) \/ ReleaseEntry(p) \/ Close(p))
          BY <1>3, <2>3, <4>6
             DEF Hook, Before, Begin, Refuse, ClaimKey, FindDuplicate, Withdraw, Enqueue,
                 SignPayload, SignerFails, ForeignAbort, After, AfterUnmatched,
                 AfterDiverged, AfterMatched, OnFailure, FailUnmatched, FailMatched,
                 FreeKey, OnResponse, Respond, Fault, storeVars
        <4> QED
          BY <4>2, <4>4, <4>5, <4>6
      <3> QED
        BY <2>1, <3>1 DEF RowsPriced
    <2> QED
      BY <2>2, <2>3
  <1>4. ASSUME NEW w \in Windows, Reconcile(w) \/ Restart(w) PROVE RowsPriced'
    <2>1. now \in Readings
      BY NextRows, ClockBounds DEF Readings
    <2>2. Live(rows') = Live(rows)
      BY <1>4, <2>1, NextRows, ExpireGently, RecoverSteps DEF Reconcile, Restart
    <2>3. ASSUME NEW i \in Live(rows)
          PROVE  pc'[i] \notin {"idle", "evaluate"} /\ read'[i] = read[i]
      <3>1. i \in Ids /\ pc[i] \notin {"idle", "evaluate"}
        BY <1>0, <2>3 DEF RowsPriced, Live
      <3> QED
        BY <1>0, <1>4, <3>1, RestartStops DEF Reconcile, Running
    <2> QED
      BY <1>2, <2>2, <2>3 DEF RowsPriced
  <1>5. CASE Clock \/ UNCHANGED vars
    <2>1. rows' = rows /\ pc' = pc /\ read' = read
      BY <1>5 DEF Clock, Tick, guardVars, vars
    <2> QED
      BY <1>0, <2>1 DEF RowsPriced, KeyExpiry
  <1> QED
    BY <1>3, <1>4, <1>5, NextSteps

-----------------------------------------------------------------------------
(* The entries, one for each unsigned row that a hook still knows of.      *)

Freshness == QueuesFresh /\ TakenFresh /\ PaymentsFresh

\* The rows known to be unsigned stay so, but those that the hook itself ends.
LEMMA HookKeepsUnsigned ==
  ASSUME IInv, NEW p \in Ids, Hook(p), NEW i \in Ids, Unsigned(i)
  PROVE  \/ Unsigned(i)'
         \/ pc[p] \in {"duplicate", "allowed"} /\ i = p
         \/ pc[p] \in Taking /\ i = held[p].id
  <1>0. /\ TypeOK /\ StoreTypeOK /\ i \in Live(rows) /\ now' = now /\ now \in Nat
        /\ rows[i] # None /\ rows \in [Ids -> Reservation \cup {None}]
        /\ rows[i].safe \in Nat
    BY HookMovesOwn, NextRows, NextSteps DEF IInv, TypeOK, StoreTypeOK, Unsigned, Live, Reservation
  <1>1. ASSUME rows'[i] = rows[i] PROVE Unsigned(i)'
    BY <1>0, <1>1 DEF Unsigned, Live
  <1>2. ASSUME NEW x \in Live(rows), NEW s, rows' = [rows EXCEPT ![x] = s], i # x
        PROVE  Unsigned(i)'
    BY <1>0, <1>1, <1>2 DEF Live
  <1>3. CASE Reserve(p)
    <2>1. i \in Live(rows') /\ Gently(rows[i], rows'[i], now)
      BY <1>0, <1>3, PaymentFacts, ReserveGently DEF Reserve
    <2> QED
      BY <1>0, <2>1 DEF Gently, Unsigned
  <1>4. ASSUME NEW x \in Ids, Release(x), i # x PROVE Unsigned(i)'
    BY <1>0, <1>1, <1>4 DEF Release, InStatus
  <1>5. CASE DropDuplicate(p) \/ Deny(p)
    BY <1>4, <1>5 DEF DropDuplicate, Deny
  <1>6. CASE ReleaseEntry(p)
    <2>1. held[p].id \in Ids
      BY <1>6 DEF ReleaseEntry, Release, InStatus, Live
    <2> QED
      BY <1>4, <1>6, <2>1 DEF ReleaseEntry, Taking
  <1>7. CASE Record(p)
    BY <1>2, <1>7 DEF Record, Sign, InStatus, Taking
  <1>8. CASE Close(p)
    <2>1. /\ InStatus(held[p].id, "signed")
          /\ \A x \in Ids : x # held[p].id => rows'[x] = rows[x]
      BY <1>0, <1>8 DEF Close, Settle, LoseTrack
    <2> QED
      BY <1>0, <1>1, <2>1 DEF InStatus, Unsigned
  <1>9. CASE ~(\/ Reserve(p) \/ DropDuplicate(p) \/ Deny(p) \/ ReleaseEntry(p)
               \/ Record(p) \/ Close(p))
    <2>1. rows' = rows
      BY <1>9 DEF Hook, Before, Begin, Refuse, ClaimKey, FindDuplicate, Withdraw, Enqueue,
                 SignPayload, SignerFails, ForeignAbort, After, AfterUnmatched,
                 AfterDiverged, AfterMatched, OnFailure, FailUnmatched, FailMatched,
                 FreeKey, OnResponse, Respond, Fault, storeVars
    <2> QED
      BY <1>1, <2>1
  <1> QED
    BY <1>3, <1>5, <1>6, <1>7, <1>8, <1>9

\* A matched entry is judged by instants that do not change any more.
LEMMA DivergedStays ==
  ASSUME IInv, NEW p \in Ids, Hook(p), NEW q \in Ids \ {p}, pc[q] = "record"
  PROVE  /\ held'[q] = held[q] /\ held[q] # None /\ held[q].id \in Ids
         /\ ~Diverged(q, held[q])'
  <1>1. TypeOK /\ held[q] # None /\ held[q].id \in Ids /\ pc[held[q].id] \notin Early
        /\ ~Diverged(q, held[q])
    BY DEF IInv, TypeOK, TakenFresh, Taking, Entry
  <1>2. /\ held'[q] = held[q] /\ validBefore'[q] = validBefore[q]
        /\ read'[held[q].id] = read[held[q].id]
    BY <1>1, HookMovesOwn, HookMoves DEF Early
  <1> QED
    BY <1>1, <1>2 DEF Diverged, Horizon

\* A hook that leaves the queues alone and takes nothing.
LEMMA QuietHookKeepsFresh ==
  ASSUME IInv, NEW p \in Ids, Hook(p), pending' = pending, pc'[p] \notin Taking,
         pc'[p] \in Fresh => Unsigned(p)'
  PROVE  Freshness'
  <1>0. TypeOK /\ QueuesFresh /\ TakenFresh /\ PaymentsFresh
    BY DEF IInv
  <1>1. \A i \in Ids : pc[i] \notin Early => pc'[i] \notin Early
    BY <1>0, HookMovesOwn, HookMoves
  <1>2. /\ Fresh \subseteq Early /\ {"duplicate", "allowed"} \subseteq Fresh
        /\ \A st \in Taking : st \notin Early
    BY DEF Fresh, Early, Taking
  <1>3. QueuesFresh'
    <2> SUFFICES ASSUME NEW s \in Signatures, NEW k \in DOMAIN pending[s]
                 PROVE  LET i == pending[s][k].id IN
                        /\ Signature(i) = s /\ pc'[i] \notin Early /\ Unsigned(i)'
                        /\ \A l \in DOMAIN pending[s] : pending[s][l].id = i => l = k
      BY DEF QueuesFresh, Signature, Signatures
    <2> DEFINE i == pending[s][k].id
    <2>1. /\ Signature(i) = s /\ pc[i] \notin Early /\ Unsigned(i)
          /\ \A l \in DOMAIN pending[s] : pending[s][l].id = i => l = k
      BY <1>0 DEF QueuesFresh
    <2>2. i \in Ids
      BY <2>1 DEF Unsigned, Live
    <2>3. pc[p] \in Taking => i # held[p].id
      BY <1>0, <2>1 DEF TakenFresh, Queued
    <2>4. Unsigned(i)'
      BY <1>2, <2>1, <2>2, <2>3, HookKeepsUnsigned
    <2> QED
      BY <1>1, <2>1, <2>2, <2>4
  <1>4. TakenFresh'
    <2> SUFFICES ASSUME NEW q \in Ids, pc'[q] \in Taking
                 PROVE  \E i \in Ids :
                          /\ held'[q] # None /\ i = held'[q].id
                          /\ Signature(i) = Signature(q) /\ pc'[i] \notin Early
                          /\ Unsigned(i)' /\ ~Queued(i, Signature(q))'
                          /\ \A r \in Ids :
                               pc'[r] \in Taking /\ held'[r] # None
                                 /\ held'[r].id = i => r = q
                          /\ pc'[q] = "record" => ~Diverged(q, held[q])'
      BY DEF TakenFresh, Signature, Queued, Unsigned
    <2>1. q # p /\ pc[q] \in Taking /\ pc'[q] = pc[q] /\ held'[q] = held[q]
      BY <1>0, HookMovesOwn
    <2>2. PICK i \in Ids :
            /\ i = held[q].id
            /\ held[q] # None /\ Signature(i) = Signature(q) /\ pc[i] \notin Early
            /\ Unsigned(i) /\ ~Queued(i, Signature(q))
            /\ \A r \in Ids : pc[r] \in Taking /\ held[r] # None /\ held[r].id = i => r = q
      <3>1. held[q].id \in Ids
        BY <1>0, <2>1 DEF TakenFresh, Unsigned, Live
      <3> QED
        BY <1>0, <2>1, <3>1 DEF TakenFresh
    <2>3. Queued(i, Signature(q))' <=> Queued(i, Signature(q))
      BY DEF Queued, Signature
    <2>4. pc[p] \in Taking => i # held[p].id
      BY <1>0, <2>1, <2>2 DEF TakenFresh
    <2>5. Unsigned(i)'
      BY <1>2, <2>2, <2>3, <2>4, HookKeepsUnsigned
    <2>6. \A r \in Ids : pc'[r] \in Taking => pc[r] \in Taking /\ held'[r] = held[r]
      BY <1>0, HookMovesOwn
    <2>7. pc'[q] = "record" => ~Diverged(q, held[q])'
      BY <2>1, DivergedStays
    <2> QED
      BY <1>1, <2>1, <2>2, <2>3, <2>5, <2>6, <2>7
  <1>5. PaymentsFresh'
    <2> SUFFICES ASSUME NEW q \in Ids, pc'[q] \in Fresh, q # p PROVE Unsigned(q)'
      BY DEF PaymentsFresh
    <2>1. pc[q] \in Fresh /\ Unsigned(q)
      BY <1>0, HookMovesOwn DEF PaymentsFresh
    <2>2. pc[p] \in Taking => q # held[p].id
      BY <1>0, <1>2, <2>1 DEF TakenFresh
    <2> QED
      BY <2>1, <2>2, HookKeepsUnsigned
  <1> QED
    BY <1>3, <1>4, <1>5 DEF Freshness

\* A hook that changes its queue: it joins as the last, or takes an entry out.
LEMMA QueueHookKeepsFresh ==
  ASSUME IInv, NEW p \in Ids, Hook(p), rows' = rows, pc'[p] \notin Early,
         \A s \in Signatures : \A k \in DOMAIN pending'[s] :
           /\ \/ Queued(pending'[s][k].id, s)
              \/ pending'[s][k].id = p /\ s = Signature(p) /\ pc[p] = "allowed"
           /\ \A l \in DOMAIN pending'[s] :
                pending'[s][l].id = pending'[s][k].id => l = k,
         pc'[p] \in Taking =>
           \E k \in DOMAIN Queue(p) :
             /\ held'[p] = Queue(p)[k] /\ held'[p] # None
             /\ \A l \in DOMAIN pending'[Signature(p)] :
                  pending'[Signature(p)][l].id # Queue(p)[k].id
             /\ pc'[p] = "record" => ~Diverged(p, Queue(p)[k]) /\ pc[p] = "after"
  PROVE  Freshness'
  <1>0. /\ TypeOK /\ QueuesFresh /\ TakenFresh /\ PaymentsFresh
        /\ now' = now
    BY HookMovesOwn DEF IInv
  <1>1. \A i \in Ids : pc[i] \notin Early => pc'[i] \notin Early
    BY <1>0, HookMovesOwn, HookMoves
  <1>2. \A i : Unsigned(i) => i \in Ids /\ Unsigned(i)'
    BY <1>0 DEF Unsigned, Live
  <1>3. \A st \in Fresh : st \in Early
    BY DEF Fresh, Early
  <1>4. QueuesFresh'
    <2> SUFFICES ASSUME NEW s \in Signatures, NEW k \in DOMAIN pending'[s]
                 PROVE  \E i \in Ids :
                          /\ i = pending'[s][k].id
                          /\ Signature(i) = s /\ pc'[i] \notin Early /\ Unsigned(i)'
                          /\ \A l \in DOMAIN pending'[s] : pending'[s][l].id = i => l = k
      BY DEF QueuesFresh, Signature, Signatures, Unsigned
    <2>1. CASE Queued(pending'[s][k].id, s)
      <3>1. PICK m \in DOMAIN pending[s] : pending[s][m].id = pending'[s][k].id
        BY <2>1 DEF Queued
      <3>2. PICK i \in Ids : /\ i = pending'[s][k].id
                             /\ Signature(i) = s /\ pc[i] \notin Early /\ Unsigned(i)
        BY <1>0, <1>2, <3>1 DEF QueuesFresh
      <3> QED
        BY <1>1, <1>2, <3>2
    <2>2. CASE pending'[s][k].id = p /\ s = Signature(p) /\ pc[p] = "allowed"
      <3>1. Unsigned(p)
        BY <1>0, <2>2 DEF PaymentsFresh, Fresh
      <3> QED
        BY <1>2, <2>2, <3>1
    <2> QED
      BY <2>1, <2>2
  <1>5. TakenFresh'
    <2> SUFFICES ASSUME NEW q \in Ids, pc'[q] \in Taking
                 PROVE  \E i \in Ids :
                          /\ held'[q] # None /\ i = held'[q].id
                          /\ Signature(i) = Signature(q) /\ pc'[i] \notin Early
                          /\ Unsigned(i)' /\ ~Queued(i, Signature(q))'
                          /\ \A r \in Ids :
                               pc'[r] \in Taking /\ held'[r] # None
                                 /\ held'[r].id = i => r = q
                          /\ pc'[q] = "record" => ~Diverged(q, held[q])'
      BY DEF TakenFresh, Signature, Queued, Unsigned
    <2>0. ASSUME NEW r \in Ids \ {p}, pc'[r] \in Taking
          PROVE  \E i \in Ids :
                   /\ held'[r] = held[r] /\ held[r] # None /\ i = held[r].id
                   /\ Signature(i) = Signature(r)
                   /\ pc[i] \notin Early /\ Unsigned(i) /\ pc[r] \in Taking
                   /\ ~Queued(i, Signature(r))
                   /\ \A t \in Ids : pc[t] \in Taking /\ held[t] # None /\ held[t].id = i => t = r
      <3>1. pc[r] \in Taking /\ held'[r] = held[r]
        BY <1>0, <2>0, HookMovesOwn
      <3>2. held[r].id \in Ids
        BY <1>0, <1>2, <3>1 DEF TakenFresh
      <3> QED
        BY <1>0, <3>1, <3>2 DEF TakenFresh
    <2>1. CASE q # p
      <3>1. PICK i \in Ids :
              /\ held'[q] = held[q] /\ held[q] # None /\ i = held[q].id
              /\ Signature(i) = Signature(q)
              /\ pc[i] \notin Early /\ Unsigned(i) /\ pc[q] \in Taking
              /\ ~Queued(i, Signature(q))
              /\ \A t \in Ids : pc[t] \in Taking /\ held[t] # None /\ held[t].id = i => t = q
        BY <2>0, <2>1
      <3>2. ~Queued(i, Signature(q))'
        <4> SUFFICES ASSUME NEW k \in DOMAIN pending'[Signature(q)],
                            pending'[Signature(q)][k].id = i
                     PROVE  FALSE
          BY DEF Queued, Signature
        <4> QED
          BY <3>1, PaymentFacts DEF Early
      <3>3. ASSUME NEW r \in Ids, pc'[r] \in Taking, held'[r] # None, held'[r].id = i
            PROVE  r = q
        <4>1. CASE r = p
          <5>1. Signature(i) = Signature(q) /\ \E k \in DOMAIN Queue(p) : i = Queue(p)[k].id
            BY <3>1, <3>3, <4>1
          <5>2. Signature(i) = Signature(p)
            BY <1>0, <5>1, PaymentFacts DEF QueuesFresh, Queue
          <5> QED
            BY <3>1, <5>1, <5>2 DEF Queued, Queue
        <4>2. CASE r # p
          BY <2>0, <3>1, <3>3, <4>2
        <4> QED
          BY <4>1, <4>2
      <3>4. pc'[q] = "record" => ~Diverged(q, held[q])'
        <4>1. pc'[q] = pc[q]
          BY <1>0, <2>1, HookMovesOwn
        <4> QED
          BY <2>1, <4>1, DivergedStays
      <3> QED
        BY <1>1, <1>2, <3>1, <3>2, <3>3, <3>4
    <2>2. CASE q = p
      <3>1. PICK k \in DOMAIN Queue(p) :
              /\ held'[p] = Queue(p)[k] /\ held'[p] # None
              /\ \A l \in DOMAIN pending'[Signature(p)] :
                   pending'[Signature(p)][l].id # Queue(p)[k].id
              /\ pc'[p] = "record" => ~Diverged(p, Queue(p)[k]) /\ pc[p] = "after"
        BY <2>2
      <3>2. PICK i \in Ids : /\ i = Queue(p)[k].id
                             /\ Signature(i) = Signature(p) /\ pc[i] \notin Early
                             /\ Unsigned(i) /\ Queued(i, Signature(p))
        BY <1>0, <1>2, PaymentFacts DEF QueuesFresh, Queue, Queued
      <3>3. ~Queued(i, Signature(p))'
        BY <3>1, <3>2 DEF Queued, Signature
      <3>4. ASSUME NEW r \in Ids, pc'[r] \in Taking, held'[r] # None, held'[r].id = i
            PROVE  r = p
        BY <2>0, <3>2, <3>4
      <3>5. ASSUME pc'[p] = "record" PROVE ~Diverged(p, held[p])'
        <4>1. /\ ~Diverged(p, Queue(p)[k]) /\ pc[p] = "after"
              /\ validBefore'[p] = validBefore[p] /\ read'[i] = read[i]
          BY <1>0, <3>1, <3>2, <3>5, HookMovesOwn, HookMoves DEF Early
        <4> QED
          BY <3>1, <3>2, <4>1 DEF Diverged, Horizon
      <3> QED
        BY <1>1, <1>2, <2>2, <3>1, <3>2, <3>3, <3>4, <3>5
    <2> QED
      BY <2>1, <2>2
  <1>6. PaymentsFresh'
    <2> SUFFICES ASSUME NEW q \in Ids, pc'[q] \in Fresh PROVE Unsigned(q)'
      BY DEF PaymentsFresh
    <2>1. q # p /\ pc[q] \in Fresh
      BY <1>0, <1>3, HookMovesOwn
    <2> QED
      BY <1>0, <1>2, <2>1 DEF PaymentsFresh
  <1> QED
    BY <1>4, <1>5, <1>6 DEF Freshness

\* The queue of a payment, before and after the hook that takes its oldest entry.
LEMMA ShiftTakes ==
  ASSUME IInv, NEW p \in Ids, Queue(p) # <<>>, Shift(p)
  PROVE  LET s == Signature(p) IN
         /\ s \in Signatures /\ pending[s] \in Seq(Entry)
         /\ Len(pending[s]) \in Nat \ {0} /\ Len(pending'[s]) = Len(pending[s]) - 1
         /\ DOMAIN pending[s] = 1..Len(pending[s])
         /\ DOMAIN pending'[s] = 1..(Len(pending[s]) - 1)
         /\ \A k \in DOMAIN pending'[s] : pending'[s][k] = pending[s][k + 1]
         /\ held'[p] = pending[s][1] /\ pending[s][1] \in Entry
         /\ \A t \in Signatures \ {s} : pending'[t] = pending[t]
  <1>1. Signature(p) \in Signatures /\ pending[Signature(p)] \in Seq(Entry)
    BY PaymentFacts DEF IInv, TypeOK
  <1>2. pending'[Signature(p)] = Tail(pending[Signature(p)])
    BY <1>1 DEF Shift, IInv, TypeOK
  <1>3. held'[p] = Head(pending[Signature(p)])
    BY DEF Shift, Queue, IInv, TypeOK
  <1>4. \A t \in Signatures \ {Signature(p)} : pending'[t] = pending[t]
    BY DEF Shift, IInv, TypeOK
  <1>5. LET q == pending[Signature(p)] IN
        /\ Head(q) \in Entry /\ Head(q) = q[1] /\ Len(q) \in Nat \ {0}
        /\ Tail(q) \in Seq(Entry) /\ Len(Tail(q)) = Len(q) - 1
        /\ \A k \in 1..Len(Tail(q)) : Tail(q)[k] = q[k + 1]
    BY <1>1, Taken DEF Queue
  <1>6. /\ DOMAIN pending[Signature(p)] = 1..Len(pending[Signature(p)])
        /\ DOMAIN Tail(pending[Signature(p)]) = 1..Len(Tail(pending[Signature(p)]))
    BY <1>1, <1>5, LenProperties
  <1> QED
    BY <1>1, <1>2, <1>3, <1>4, <1>5, <1>6

LEMMA ShiftKeepsFresh ==
  ASSUME IInv, NEW p \in Ids, AfterMatched(p) \/ FailMatched(p)
  PROVE  Freshness'
  <1>0. TypeOK /\ QueuesFresh /\ Hook(p)
    BY DEF IInv, Hook, After, OnFailure
  <1>1. /\ Queue(p) # <<>> /\ Shift(p) /\ rows' = rows
        /\ \/ pc'[p] = "record" /\ pc[p] = "after" /\ ~Diverged(p, Head(Queue(p)))
           \/ pc'[p] = "release"
    BY <1>0 DEF AfterMatched, FailMatched, TypeOK, Goto, storeVars
  <1> DEFINE s == Signature(p)
             n == Len(pending[s])
  <1>2. /\ s \in Signatures /\ n \in Nat \ {0}
        /\ DOMAIN pending[s] = 1..n /\ DOMAIN pending'[s] = 1..(n - 1)
        /\ \A k \in 1..(n - 1) : pending'[s][k] = pending[s][k + 1]
        /\ held'[p] = pending[s][1] /\ pending[s][1] \in Entry
        /\ \A t \in Signatures \ {s} : pending'[t] = pending[t]
    BY <1>1, ShiftTakes
  <1>3. /\ 1 \in 1..n /\ \A k \in 1..(n - 1) : k + 1 \in 1..n /\ k + 1 # 1
        /\ \A k, l \in 1..(n - 1) : k + 1 = l + 1 => k = l
    BY <1>2
  <1>4. Head(Queue(p)) = pending[s][1]
    BY <1>0, <1>1, <1>2, Taken DEF Queue, TypeOK
  <1>5. pending[s][1] # None
    BY <1>2, NoneIsNoEntry
  <1>6. Queue(p) = pending[s] /\ pc'[p] \notin Early
    BY <1>1 DEF Queue, Early
  <1> HIDE DEF n
  <1>7. ASSUME NEW t \in Signatures, NEW k \in DOMAIN pending'[t]
        PROVE  /\ Queued(pending'[t][k].id, t)
               /\ \A l \in DOMAIN pending'[t] :
                    pending'[t][l].id = pending'[t][k].id => l = k
    <2>1. CASE t # s
      BY <1>0, <1>2, <1>7, <2>1 DEF Queued, QueuesFresh
    <2>2. CASE t = s
      <3>1. Queued(pending'[t][k].id, t)
        BY <1>2, <1>3, <1>7, <2>2 DEF Queued
      <3>2. \A l \in DOMAIN pending'[t] :
              pending'[t][l].id = pending'[t][k].id => l = k
        <4> SUFFICES ASSUME NEW l \in 1..(n - 1), pending'[s][l].id = pending'[s][k].id
                     PROVE  l = k
          BY <1>2, <2>2
        <4>1. k \in 1..(n - 1) /\ k + 1 \in 1..n /\ l + 1 \in 1..n
          BY <1>2, <1>3, <1>7, <2>2
        <4>2. pending[s][l + 1].id = pending[s][k + 1].id
          BY <1>2, <4>1
        <4>3. l + 1 = k + 1
          BY <1>0, <1>2, <4>1, <4>2 DEF QueuesFresh
        <4> QED
          BY <4>1, <4>3
      <3> QED
        BY <3>1, <3>2
    <2> QED
      BY <2>1, <2>2
  <1>8. \A l \in DOMAIN pending'[s] : pending'[s][l].id # pending[s][1].id
    BY <1>0, <1>2, <1>3 DEF QueuesFresh
  <1>9. \E k \in DOMAIN Queue(p) :
          /\ held'[p] = Queue(p)[k] /\ held'[p] # None
          /\ \A l \in DOMAIN pending'[Signature(p)] :
               pending'[Signature(p)][l].id # Queue(p)[k].id
          /\ pc'[p] = "record" => ~Diverged(p, Queue(p)[k]) /\ pc[p] = "after"
    BY <1>1, <1>2, <1>3, <1>4, <1>5, <1>6, <1>8
  <1> QED
    BY <1>0, <1>1, <1>6, <1>7, <1>9, QueueHookKeepsFresh

LEMMA EnqueueKeepsFresh ==
  ASSUME IInv, NEW p \in Ids, Enqueue(p)
  PROVE  Freshness'
  <1>0. TypeOK /\ QueuesFresh /\ Hook(p)
    BY DEF IInv, Hook, Before
  <1> DEFINE s == Signature(p)
             n == Len(pending[s])
  <1>1. /\ pc[p] = "allowed" /\ pc'[p] = "signing" /\ rows' = rows
        /\ s \in Signatures /\ pending[s] \in Seq(Entry)
        /\ pending'[s] = Joining(pending[s], p)
        /\ \A t \in Signatures \ {s} : pending'[t] = pending[t]
    BY <1>0, PaymentFacts DEF Enqueue, Joining, TypeOK, Goto, storeVars
  <1>2. /\ n \in Nat /\ DOMAIN pending[s] = 1..n /\ DOMAIN pending'[s] = 1..(n + 1)
        /\ \A k \in 1..n : pending'[s][k].id = pending[s][k].id
        /\ pending'[s][n + 1].id = p
    <2>1. n \in Nat /\ DOMAIN pending[s] = 1..n
      BY <1>1, LenProperties
    <2>2. /\ pending'[s] \in Seq(Entry) /\ Len(pending'[s]) = n + 1
          /\ \A k \in 1..n : pending'[s][k].id = pending[s][k].id
          /\ pending'[s][n + 1].id = p
      BY <1>1, Joined
    <2>3. DOMAIN pending'[s] = 1..Len(pending'[s])
      BY <2>2, LenProperties
    <2> QED
      BY <2>1, <2>2, <2>3
  <1>3. \A k \in DOMAIN pending[s] : pending[s][k].id # p
    BY <1>0, <1>1 DEF QueuesFresh, Early
  <1> HIDE DEF n
  <1>4. ASSUME NEW t \in Signatures, NEW k \in DOMAIN pending'[t]
        PROVE  /\ \/ Queued(pending'[t][k].id, t)
                  \/ pending'[t][k].id = p /\ t = Signature(p) /\ pc[p] = "allowed"
               /\ \A l \in DOMAIN pending'[t] :
                    pending'[t][l].id = pending'[t][k].id => l = k
    <2>1. CASE t # s
      BY <1>0, <1>1, <1>4, <2>1 DEF Queued, QueuesFresh
    <2>2. CASE t = s /\ k = n + 1
      <3>1. \A l \in 1..(n + 1) : l \in 1..n \/ l = n + 1
        BY <1>2
      <3> QED
        BY <1>1, <1>2, <1>3, <2>2, <3>1
    <2>3. CASE t = s /\ k # n + 1
      <3>1. k \in 1..n /\ \A l \in 1..(n + 1) : l \in 1..n \/ l = n + 1
        BY <1>2, <1>4, <2>3
      <3>2. Queued(pending'[t][k].id, t)
        BY <1>2, <2>3, <3>1 DEF Queued
      <3>3. \A l \in DOMAIN pending'[t] :
              pending'[t][l].id = pending'[t][k].id => l = k
        <4> SUFFICES ASSUME NEW l \in 1..(n + 1), pending'[s][l].id = pending'[s][k].id
                     PROVE  l = k
          BY <1>2, <2>3
        <4>1. pending'[s][k].id = pending[s][k].id /\ pending[s][k].id # p
          BY <1>2, <1>3, <3>1
        <4>2. l \in 1..n
          BY <1>2, <3>1, <4>1
        <4>3. pending[s][l].id = pending[s][k].id
          BY <1>2, <4>1, <4>2
        <4> QED
          BY <1>0, <1>1, <1>2, <3>1, <4>2, <4>3 DEF QueuesFresh
      <3> QED
        BY <3>2, <3>3
    <2> QED
      BY <2>1, <2>2, <2>3
  <1>5. pc'[p] \notin Taking /\ pc'[p] \notin Early
    BY <1>1 DEF Taking, Early
  <1> QED
    BY <1>0, <1>1, <1>4, <1>5, QueueHookKeepsFresh

LEMMA DivergedKeepsFresh ==
  ASSUME IInv, NEW p \in Ids, AfterDiverged(p)
  PROVE  Freshness'
  <1>0. TypeOK /\ QueuesFresh /\ Hook(p)
    BY DEF IInv, Hook, After
  <1> DEFINE s == Signature(p)
  <1>1. /\ pc'[p] = "failing" /\ rows' = rows
        /\ s \in Signatures /\ pending[s] \in Seq(Entry)
        /\ pending'[s] = MarkContended(pending[s])
        /\ \A t \in Signatures \ {s} : pending'[t] = pending[t]
    BY <1>0, PaymentFacts DEF AfterDiverged, TypeOK, Goto, storeVars
  <1>2. /\ DOMAIN pending'[s] = DOMAIN pending[s]
        /\ \A k \in DOMAIN pending[s] : pending'[s][k].id = pending[s][k].id
    BY <1>1, Marked, LenProperties
  <1>3. ASSUME NEW t \in Signatures, NEW k \in DOMAIN pending'[t]
        PROVE  /\ Queued(pending'[t][k].id, t)
               /\ \A l \in DOMAIN pending'[t] :
                    pending'[t][l].id = pending'[t][k].id => l = k
    <2>1. /\ DOMAIN pending'[t] = DOMAIN pending[t]
          /\ \A l \in DOMAIN pending[t] : pending'[t][l].id = pending[t][l].id
      BY <1>1, <1>2
    <2> QED
      BY <1>0, <1>3, <2>1 DEF Queued, QueuesFresh
  <1>4. pc'[p] \notin Taking /\ pc'[p] \notin Early
    BY <1>1 DEF Taking, Early
  <1> QED
    BY <1>0, <1>1, <1>3, <1>4, QueueHookKeepsFresh

LEMMA NextFresh == IInv /\ [Next]_vars => Freshness'
  <1> SUFFICES ASSUME IInv, [Next]_vars PROVE Freshness'
    OBVIOUS
  <1>0. TypeOK /\ QueuesFresh /\ TakenFresh /\ PaymentsFresh
    BY DEF IInv
  <1>1. ASSUME NEW p \in Ids, Hook(p) PROVE Freshness'
    <2>1. CASE AfterMatched(p) \/ FailMatched(p)
      BY <2>1, ShiftKeepsFresh
    <2>2. CASE Enqueue(p)
      BY <2>2, EnqueueKeepsFresh
    <2>3. CASE AfterDiverged(p)
      BY <2>3, DivergedKeepsFresh
    <2>4. CASE Reserve(p)
      <3>1. /\ TryReserve(RequestOf[p], read[p]) /\ read[p] \in Readings
            /\ RequestOf[p] \in Request /\ pc[p] = "evaluate" /\ p \notin Live(rows)
            /\ Live(rows') \subseteq Live(rows) \cup {p} /\ pending' = pending
            /\ pc'[p] \in Fresh => p \in Live(rows')
            /\ pc'[p] \in {"aborted", "allowed", "dedup"}
        BY <2>4, PaymentFacts DEF Reserve, IInv, RowsPriced, Goto, TypeOK, Fresh, hookVars
      <3>2. \A i \in Live(rows') \ Live(rows) : rows'[i] = NewRow(RequestOf[p], read[p])
        BY <3>1, NextRows, ReserveGently
      <3>3. pc'[p] \in Fresh => Unsigned(p)'
        BY <3>1, <3>2 DEF NewRow, Unsigned
      <3> QED
        BY <1>1, <3>1, <3>3, QuietHookKeepsFresh DEF Taking
    <2>5. CASE ClaimKey(p) \/ FindDuplicate(p)
      <3>1. /\ pc[p] = "dedup" /\ pc'[p] \in {"allowed", "duplicate"}
            /\ pending' = pending
        BY <1>0, <2>5 DEF ClaimKey, FindDuplicate, Goto, TypeOK, hookVars
      <3>2. Unsigned(p)'
        BY <1>0, <1>1, <3>1, HookKeepsUnsigned DEF PaymentsFresh, Fresh, Taking
      <3> QED
        BY <1>1, <3>1, <3>2, QuietHookKeepsFresh DEF Taking
    <2>6. CASE ~(\/ AfterMatched(p) \/ FailMatched(p) \/ Enqueue(p) \/ AfterDiverged(p)
                 \/ Reserve(p) \/ ClaimKey(p) \/ FindDuplicate(p))
      <3>1. pending' = pending /\ pc'[p] \notin Taking /\ pc'[p] \notin Fresh
        <4> USE <1>0 DEF TypeOK, Goto, hookVars, Taking, Fresh
        <4>1. CASE Before(p)
          BY <2>6, <4>1 DEF Before, Begin, Refuse, DropDuplicate, Deny, Withdraw
        <4>2. CASE SignPayload(p) \/ SignerFails(p) \/ ForeignAbort(p)
          BY <4>2 DEF SignPayload, SignerFails, ForeignAbort
        <4>3. CASE After(p)
          BY <2>6, <4>3 DEF After, AfterUnmatched, Record
        <4>4. CASE OnFailure(p)
          BY <2>6, <4>4 DEF OnFailure, FailUnmatched, ReleaseEntry, FreeKey
        <4>5. CASE OnResponse(p)
          BY <4>5 DEF OnResponse, Respond, Close
        <4>6. CASE Fault(p)
          <5>1. OnFault[pc[p]] \in {"aborted", "failing", "failed", "done"}
            BY <4>6 DEF Fault, OnFault
          <5> QED
            BY <4>6, <5>1 DEF Fault
        <4> QED
          BY <1>1, <4>1, <4>2, <4>3, <4>4, <4>5, <4>6 DEF Hook
      <3> QED
        BY <1>1, <3>1, QuietHookKeepsFresh
    <2> QED
      BY <2>1, <2>2, <2>3, <2>4, <2>5, <2>6
  \* Without a hook nothing is queued or taken, and no row is signed.
  <1>2. ASSUME pc' = pc, pending' = pending, held' = held, read' = read,
               validBefore' = validBefore,
               \A i \in Ids : Unsigned(i) => Unsigned(i)'
        PROVE  Freshness'
    <2>1. \A i : Unsigned(i) => i \in Ids
      BY DEF Unsigned, Live
    <2>2. QueuesFresh'
      <3> SUFFICES ASSUME NEW s \in Signatures, NEW k \in DOMAIN pending[s]
                   PROVE  \E i \in Ids :
                            /\ i = pending[s][k].id
                            /\ Signature(i) = s /\ pc[i] \notin Early /\ Unsigned(i)'
                            /\ \A l \in DOMAIN pending[s] : pending[s][l].id = i => l = k
        BY <1>2 DEF QueuesFresh, Signature, Signatures, Unsigned
      <3> QED
        BY <1>0, <1>2, <2>1 DEF QueuesFresh
    <2>3. TakenFresh'
      <3> SUFFICES ASSUME NEW q \in Ids, pc[q] \in Taking
                   PROVE  \E i \in Ids :
                            /\ held[q] # None /\ i = held[q].id
                            /\ Signature(i) = Signature(q) /\ pc[i] \notin Early
                            /\ Unsigned(i)' /\ ~Queued(i, Signature(q))
                            /\ \A r \in Ids :
                                 pc[r] \in Taking /\ held[r] # None
                                   /\ held[r].id = i => r = q
                            /\ pc[q] = "record" => ~Diverged(q, held[q])
        BY <1>2 DEF TakenFresh, Signature, Queued, Unsigned, Diverged, Horizon
      <3>1. held[q].id \in Ids
        BY <1>0, <2>1 DEF TakenFresh
      <3> QED
        BY <1>0, <1>2, <3>1 DEF TakenFresh
    <2>4. PaymentsFresh'
      BY <1>0, <1>2 DEF PaymentsFresh
    <2> QED
      BY <2>2, <2>3, <2>4 DEF Freshness
  <1>3. ASSUME NEW w \in Windows, Reconcile(w) PROVE Freshness'
    <2>1. now \in Readings /\ now' = now
      BY <1>3, NextRows, ClockBounds DEF Readings, Reconcile, ReleaseExpired
    <2>2. \A i \in Live(rows) : i \in Live(rows') /\ Gently(rows[i], rows'[i], now)
      BY <1>3, <2>1, NextRows, ExpireGently DEF Reconcile
    <2>3. \A i \in Ids : Unsigned(i) => Unsigned(i)'
      BY <2>1, <2>2 DEF Unsigned, Gently
    <2> QED
      BY <1>2, <1>3, <2>3 DEF Reconcile
  <1>4. ASSUME NEW w \in Windows, Restart(w) PROVE Freshness'
    <2>1. \A s \in Signatures : DOMAIN pending'[s] = {}
      BY <1>4 DEF Restart
    <2>2. \A q \in Ids : pc'[q] \notin Taking /\ pc'[q] \notin Fresh
      BY <1>0, <1>4, RestartStops DEF Running, Taking, Fresh
    <2> QED
      BY <2>1, <2>2 DEF Freshness, QueuesFresh, TakenFresh, PaymentsFresh, Signatures, Signature
  <1>5. CASE Clock \/ UNCHANGED vars
    <2>1. rows' = rows /\ now \in Nat /\ now' \in Nat /\ now <= now'
      BY <1>5, NextRows DEF Clock, Tick, vars
    <2>2. \A i \in Live(rows) : rows[i].safe \in Nat
      BY NextRows
    <2>3. \A i \in Ids : Unsigned(i) => Unsigned(i)'
      BY <2>1, <2>2 DEF Unsigned
    <2> QED
      BY <1>2, <1>5, <2>3 DEF Clock, guardVars, vars
  <1> QED
    BY <1>1, <1>3, <1>4, <1>5, NextSteps

-----------------------------------------------------------------------------
(* Nonces.                                                                 *)

\* An entry is filed under a nonce with the row that carries the nonce.
LEMMA RecordFilesOwn ==
  ASSUME IInv, NEW p \in Ids, Record(p)
  PROVE  /\ signedByNonce'[p] = held[p] /\ held[p].id \in Ids
         /\ held[p].id \in Live(rows')
         /\ rows'[held[p].id].ref = p /\ rows'[held[p].id].status = "signed"
  <1> DEFINE i == held[p].id
  <1>1. /\ i \in Live(rows) /\ i \in Ids /\ rows[i] \in Reservation
        /\ validBefore[p] + Margin \in Nat /\ p \in Refs
    BY RecordSigns, PaymentFacts
  <1>2. /\ rows' = [rows EXCEPT ![i] = Signed(rows[i], validBefore[p] + Margin, p)]
        /\ rows \in [Ids -> Reservation \cup {None}]
    BY DEF Record, Sign, IInv, TypeOK, StoreTypeOK
  <1>3. /\ Signed(rows[i], validBefore[p] + Margin, p) \in Reservation
        /\ Signed(rows[i], validBefore[p] + Margin, p).status = "signed"
    BY <1>1, SignedType
  <1>4. Signed(rows[i], validBefore[p] + Margin, p).ref = p
    BY <1>1 DEF Signed, Reservation
  <1>5. signedByNonce'[p] = held[p]
    BY DEF Record, IInv, TypeOK
  <1> QED
    BY <1>1, <1>2, <1>3, <1>4, <1>5, NoneIsNoRow DEF Live

LEMMA NextFindsOwn == IInv /\ [Next]_vars => NoncesFindOwn'
  <1> SUFFICES ASSUME IInv, [Next]_vars PROVE NoncesFindOwn'
    OBVIOUS
  <1>0. /\ TypeOK /\ NoncesFindOwn
        /\ \A i \in Ids : \A p : SignedFor(i, p) => SignedFor(i, p)'
    BY NextRows DEF IInv
  <1>a. \A i, p : SignedFor(i, p) => i \in Ids
    BY DEF SignedFor, Live
  <1> SUFFICES ASSUME NEW q \in Ids
               PROVE  /\ signedByNonce'[q] # None =>
                           \E i \in Ids : i = signedByNonce'[q].id /\ SignedFor(i, q)'
                      /\ pc'[q] \in {"settle", "lose"} =>
                           /\ held'[q] # None
                           /\ \E i \in Ids : i = held'[q].id /\ SignedFor(i, q)'
    BY DEF NoncesFindOwn, SignedFor
  <1>1. ASSUME signedByNonce'[q] \in {None, signedByNonce[q]},
               pc'[q] \in {"settle", "lose"} => /\ pc[q] \in {"settle", "lose"}
                                                /\ held'[q] = held[q]
        PROVE  /\ signedByNonce'[q] # None =>
                    \E i \in Ids : i = signedByNonce'[q].id /\ SignedFor(i, q)'
               /\ pc'[q] \in {"settle", "lose"} =>
                    /\ held'[q] # None
                    /\ \E i \in Ids : i = held'[q].id /\ SignedFor(i, q)'
    <2>1. ASSUME signedByNonce'[q] # None
          PROVE  \E i \in Ids : i = signedByNonce'[q].id /\ SignedFor(i, q)'
      <3>1. SignedFor(signedByNonce[q].id, q) /\ signedByNonce'[q] = signedByNonce[q]
        BY <1>0, <1>1, <2>1 DEF NoncesFindOwn
      <3>2. PICK i \in Ids : i = signedByNonce[q].id /\ SignedFor(i, q)
        BY <1>a, <3>1
      <3> QED
        BY <1>0, <3>1, <3>2
    <2>2. ASSUME pc'[q] \in {"settle", "lose"}
          PROVE  held'[q] # None /\ \E i \in Ids : i = held'[q].id /\ SignedFor(i, q)'
      <3>1. held[q] # None /\ SignedFor(held[q].id, q) /\ held'[q] = held[q]
        BY <1>0, <1>1, <2>2 DEF NoncesFindOwn
      <3>2. PICK i \in Ids : i = held[q].id /\ SignedFor(i, q)
        BY <1>a, <3>1
      <3> QED
        BY <1>0, <3>1, <3>2
    <2> QED
      BY <2>1, <2>2
  <1> DEFINE Goal == /\ signedByNonce'[q] # None =>
                          \E i \in Ids : i = signedByNonce'[q].id /\ SignedFor(i, q)'
                     /\ pc'[q] \in {"settle", "lose"} =>
                          /\ held'[q] # None
                          /\ \E i \in Ids : i = held'[q].id /\ SignedFor(i, q)'
  <1>2. ASSUME NEW p \in Ids, Hook(p) PROVE Goal
    <2>1. CASE q # p
      BY <1>0, <1>1, <1>2, <2>1, HookMovesOwn
    <2>2. CASE q = p /\ Record(p)
      <3>1. pc'[p] = "sent"
        BY <1>0, <2>2 DEF Record, Goto, TypeOK
      <3>2. \E i \in Ids : i = signedByNonce'[q].id /\ SignedFor(i, q)'
        BY <2>2, RecordFilesOwn DEF SignedFor
      <3> QED
        BY <2>2, <3>1, <3>2
    <2>3. CASE q = p /\ OnResponse(p) /\ ~Close(p)
      <3>1. PICK o \in {"settle", "lose"} : Respond(p, o)
        BY <2>3 DEF OnResponse
      <3>2. /\ signedByNonce'[p] = signedByNonce[p] /\ held'[p] = signedByNonce[p]
            /\ signedByNonce[p] = None => pc'[p] = "done"
        BY <1>0, <3>1 DEF Respond, CorrelatedEntry, Goto, TypeOK
      <3>3. ASSUME signedByNonce[p] # None
            PROVE  \E i \in Ids : i = signedByNonce[p].id /\ SignedFor(i, p)'
        <4>1. SignedFor(signedByNonce[p].id, p)
          BY <1>0, <3>3 DEF NoncesFindOwn
        <4>2. PICK i \in Ids : i = signedByNonce[p].id /\ SignedFor(i, p)
          BY <1>a, <4>1
        <4> QED
          BY <1>0, <4>2
      <3> QED
        BY <2>3, <3>2, <3>3
    <2>4. CASE q = p /\ ~Record(p) /\ ~(OnResponse(p) /\ ~Close(p))
      <3>1. signedByNonce'[p] \in {None, signedByNonce[p]} /\ pc'[p] \notin {"settle", "lose"}
        <4> USE <1>0 DEF TypeOK, Goto, hookVars
        <4>1. CASE Before(p)
          BY <4>1 DEF Before, Begin, Refuse, Reserve, ClaimKey, FindDuplicate,
                      DropDuplicate, Deny, Withdraw, Enqueue
        <4>2. CASE SignPayload(p) \/ SignerFails(p) \/ ForeignAbort(p)
          BY <4>2 DEF SignPayload, SignerFails, ForeignAbort
        <4>3. CASE After(p)
          BY <2>4, <4>3 DEF After, AfterUnmatched, AfterDiverged, AfterMatched, Shift
        <4>4. CASE OnFailure(p)
          BY <4>4 DEF OnFailure, FailUnmatched, FailMatched, ReleaseEntry, FreeKey, Shift
        <4>5. CASE OnResponse(p)
          BY <2>4, <4>5 DEF Close
        <4>6. CASE Fault(p)
          <5>1. OnFault[pc[p]] \in {"aborted", "failing", "failed", "done"}
            BY <4>6 DEF Fault, OnFault
          <5> QED
            BY <4>6, <5>1 DEF Fault
        <4> QED
          BY <1>2, <4>1, <4>2, <4>3, <4>4, <4>5, <4>6 DEF Hook
      <3> QED
        BY <1>1, <2>4, <3>1
    <2> QED
      BY <2>1, <2>2, <2>3, <2>4
  <1>3. ASSUME NEW w \in Windows, Reconcile(w) PROVE Goal
    <2>1. /\ signedByNonce'[q] \in {None, signedByNonce[q]} /\ pc' = pc /\ held' = held
      BY <1>3 DEF Reconcile
    <2> QED
      BY <1>1, <2>1
  <1>4. ASSUME NEW w \in Windows, Restart(w) PROVE Goal
    <2>1. signedByNonce'[q] = None /\ pc'[q] \notin {"settle", "lose"}
      BY <1>0, <1>4, RestartStops DEF Restart, Left
    <2> QED
      BY <2>1
  <1>5. CASE Clock \/ UNCHANGED vars
    BY <1>1, <1>5 DEF Clock, guardVars, vars
  <1> QED
    BY <1>2, <1>3, <1>4, <1>5, NextSteps

-----------------------------------------------------------------------------
(* What holds whatever fails.                                              *)

LEMMA NextHolds == IInv /\ [Next]_vars => IInv'
  BY NextTypeOK, NextPrices, NextTimes, NextFresh, NextFindsOwn DEF IInv, Freshness

\* Each variable keeps its type in every reachable state.
THEOREM TypeCorrect == Spec => []TypeOK
  <1>1. IInv => TypeOK
    BY DEF IInv
  <1> QED
    BY <1>1, InitHolds, NextHolds, PTL DEF Spec

\* The hooks are a client of the store that stays within its specification:
\* they sign a row no later than the store's tolerance after it was priced, and
\* every hook, fault, reconciliation and restart is one operation of the store
\* or none.
THEOREM ImplementsStore == Spec => StoreSpec
  <1>1. Init => StoreInit
    BY DEF Init
  <1> QED
    BY <1>1, InitHolds, NextHolds, NextIsStoreNext, PTL DEF Spec, StoreSpec

\* So the caps hold for the spend of the hooks, however they interleave and
\* whichever rows they pair with which payloads.
THEOREM HooksKeepLimits == Spec => []LimitsHold
  BY ImplementsStore, LimitsAlwaysHold, PTL

\* A row is settled only by the response to the payload it was signed for.
THEOREM SettledByOwn == Spec => []SettledByOwnResponse
  <1>1. Init => SettledByOwnResponse
    BY DEF Init, StoreInit, SettledByOwnResponse, Live
  <1>2. IInv /\ SettledByOwnResponse /\ [Next]_vars => SettledByOwnResponse'
    <2> SUFFICES ASSUME IInv, SettledByOwnResponse, [Next]_vars,
                        NEW i \in Live(rows'), rows'[i].status = "settled"
                 PROVE  \E p \in Ids : rows'[i].ref = p /\ pc'[p] \in {"paid", "done"}
      BY DEF SettledByOwnResponse
    <2>0. TypeOK /\ NoncesFindOwn /\ i \in Ids
      BY DEF IInv, Live
    \* A row that was settled before.
    <2>1. ASSUME i \in Live(rows), rows[i].status = "settled"
          PROVE  \E p \in Ids : rows'[i].ref = p /\ pc'[p] \in {"paid", "done"}
      <3>1. PICK p \in Ids : rows[i].ref = p /\ pc[p] \in {"paid", "done"}
        BY <2>1 DEF SettledByOwnResponse
      <3>2. rows'[i].ref = p
        BY <2>1, <3>1, NextRows DEF RowStep
      <3>3. pc'[p] \in {"paid", "done"}
        <4>1. ASSUME NEW q \in Ids, Hook(q) PROVE pc'[p] \in {"paid", "done"}
          <5>1. CASE q # p
            BY <2>0, <3>1, <4>1, <5>1, HookMovesOwn
          <5>2. CASE q = p
            BY <3>1, <4>1, <5>2
               DEF Hook, Before, Begin, Refuse, Reserve, ClaimKey, FindDuplicate,
                   DropDuplicate, Deny, Withdraw, Enqueue, SignPayload, SignerFails,
                   ForeignAbort, After, AfterUnmatched, AfterDiverged, AfterMatched,
                   Record, OnFailure, FailUnmatched, FailMatched, ReleaseEntry, FreeKey,
                   OnResponse, Respond, Close, Fault, OnFault
          <5> QED
            BY <5>1, <5>2
        <4>2. ASSUME NEW w \in Windows, Restart(w) PROVE pc'[p] \in {"paid", "done"}
          BY <2>0, <3>1, <4>2 DEF Restart, Running, Left
        <4>3. ASSUME NEW w \in Windows, Reconcile(w) PROVE pc'[p] \in {"paid", "done"}
          BY <3>1, <4>3 DEF Reconcile
        <4>4. CASE Clock \/ UNCHANGED vars
          BY <3>1, <4>4 DEF Clock, guardVars, vars
        <4> QED
          BY <4>1, <4>2, <4>3, <4>4, NextSteps
      <3> QED
        BY <3>2, <3>3
    \* A row that this step settles.
    <2>2. ASSUME ~(i \in Live(rows) /\ rows[i].status = "settled")
          PROVE  \E p \in Ids : rows'[i].ref = p /\ pc'[p] \in {"paid", "done"}
      <3>1. \E p \in Ids : Close(p) /\ pc[p] = "settle" /\ held[p].id = i
        <4>0. StoreTypeOK /\ now \in Nat /\ rows \in RowMap
          BY NextRows DEF StoreTypeOK, RowMap
        \* Neither a sweep nor a new row settles.
        <4>1. ASSUME i \in Live(rows) => Gently(rows[i], rows'[i], now),
                     i \notin Live(rows) =>
                       \E q \in Request, at \in Nat : rows'[i] = NewRow(q, at)
              PROVE  FALSE
          BY <2>2, <4>1, NewRowType DEF Gently
        <4>2. ASSUME NEW x \in Live(rows), NEW st, st # "settled",
                     rows' = [rows EXCEPT ![x].status = st]
              PROVE  FALSE
          <5>1. rows[x] \in Reservation
            BY <4>0 DEF Live, RowMap
          <5> QED
            BY <2>0, <2>2, <4>0, <4>2, <5>1 DEF Live, RowMap, Reservation
        <4>3. ASSUME NEW p \in Ids, Hook(p)
              PROVE  \E q \in Ids : Close(q) /\ pc[q] = "settle" /\ held[q].id = i
          <5>1. CASE Reserve(p)
            BY <4>0, <4>1, <5>1, ReserveGently, PaymentFacts, ReadingsAreInstants
               DEF Reserve
          <5>2. CASE DropDuplicate(p) \/ Deny(p) \/ ReleaseEntry(p)
            BY <4>2, <5>2 DEF DropDuplicate, Deny, ReleaseEntry, Release, InStatus
          <5>3. CASE Record(p)
            <6>1. rows'[held[p].id].status = "signed"
              BY <5>3, RecordFilesOwn
            <6>2. \A j \in Ids : j # held[p].id => rows'[j] = rows[j]
              BY <4>0, <5>3 DEF Record, Sign, RowMap
            <6> QED
              BY <2>0, <2>2, <6>1, <6>2 DEF Live
          <5>4. CASE Close(p)
            <6>1. CASE pc[p] = "settle"
              <7>1. \A j \in Ids : j # held[p].id => rows'[j] = rows[j]
                BY <4>0, <5>4, <6>1 DEF Close, Settle, RowMap
              <7> QED
                BY <2>0, <2>2, <5>4, <6>1, <7>1 DEF Live
            <6>2. CASE pc[p] # "settle"
              BY <4>2, <5>4, <6>2 DEF Close, LoseTrack, InStatus
            <6> QED
              BY <6>1, <6>2
          <5>5. CASE ~(\/ Reserve(p) \/ DropDuplicate(p) \/ Deny(p) \/ ReleaseEntry(p)
                       \/ Record(p) \/ Close(p))
            <6>1. rows' = rows
              BY <4>3, <5>5
                 DEF Hook, Before, Begin, Refuse, ClaimKey, FindDuplicate, Withdraw,
                     Enqueue, SignPayload, SignerFails, ForeignAbort, After,
                     AfterUnmatched, AfterDiverged, AfterMatched, OnFailure,
                     FailUnmatched, FailMatched, FreeKey, OnResponse, Respond, Fault,
                     storeVars
            <6> QED
              BY <2>2, <6>1
          <5> QED
            BY <5>1, <5>2, <5>3, <5>4, <5>5
        <4>4. ASSUME NEW w \in Windows, Reconcile(w) PROVE FALSE
          <5>1. now \in Readings
            BY <4>0, ClockBounds DEF Readings
          <5> QED
            BY <4>0, <4>1, <4>4, <5>1, ExpireGently DEF Reconcile
        <4>5. ASSUME NEW w \in Windows, Restart(w) PROVE FALSE
          <5>1. now \in Readings
            BY <4>0, ClockBounds DEF Readings
          <5>2. i \in Live(rows) /\ Accounted(rows[i], rows'[i], now)
            BY <4>0, <4>5, <5>1, RecoverSteps, StepAccounts DEF Restart, StoreNext
          <5>3. rows[i].status = "signed"
            BY <2>2, <5>2 DEF Accounted
          <5>4. rows'[i] = SweptRow(UnknownRow(rows[i]), now, w) /\ rows[i] \in Reservation
            BY <4>0, <4>5, <5>2 DEF Restart, RecoverAfterRestart, Live, RowMap
          <5> QED
            BY <4>0, <5>3, <5>4, RecoveredRowKeeps, WindowBounds
        <4>6. CASE Clock \/ UNCHANGED vars
          BY <2>2, <4>6 DEF Clock, Tick, vars
        <4> QED
          BY <4>3, <4>4, <4>5, <4>6, NextSteps
      <3>2. PICK p \in Ids : Close(p) /\ pc[p] = "settle" /\ held[p].id = i
        BY <3>1
      <3>3. SignedFor(i, p) /\ pc'[p] = "paid"
        BY <2>0, <3>2 DEF NoncesFindOwn, Close, Goto, TypeOK
      <3>4. rows'[i].ref = p
        <4>1. SignedFor(i, p)'
          BY <2>0, <3>3, NextRows
        <4> QED
          BY <4>1 DEF SignedFor
      <3> QED
        BY <3>3, <3>4
    <2> QED
      BY <2>1, <2>2
  <1> QED
    BY <1>1, <1>2, InitHolds, NextHolds, PTL DEF Spec

\* A row is signed by the hook that took its entry, and by nothing else.
LEMMA SignedByRecord ==
  ASSUME IInv, [Next]_vars, NEW i \in Live(rows'), rows'[i].status = "signed",
         ~\E p \in Ids : Record(p) /\ held[p].id = i
  PROVE  /\ i \in Live(rows) /\ rows[i].status = "signed"
         /\ rows'[i].ref = rows[i].ref
         /\ ~\E p \in Ids : Close(p) /\ held[p].id = i
         /\ ~\E w \in Windows : Restart(w)
  <1>0. /\ TypeOK /\ i \in Ids /\ StoreTypeOK /\ now \in Nat
        /\ rows \in [Ids -> Reservation \cup {None}]
    BY NextRows DEF IInv, Live, StoreTypeOK
  <1> DEFINE Goal == /\ i \in Live(rows) /\ rows[i].status = "signed"
                     /\ ~\E p \in Ids : Close(p) /\ held[p].id = i
                     /\ ~\E w \in Windows : Restart(w)
  \* No other transition, sweep or reservation signs.
  <1>1. ASSUME i \in Live(rows) => Gently(rows[i], rows'[i], now),
               i \notin Live(rows) => \E q \in Request, at \in Nat : rows'[i] = NewRow(q, at)
        PROVE  i \in Live(rows) /\ rows[i].status = "signed"
    <2>1. \A q, at : NewRow(q, at).status = "reserved"
      BY DEF NewRow
    <2> QED
      BY <1>1, <2>1 DEF Gently
  <1>2. ASSUME NEW x \in Live(rows), NEW st, st # "signed",
               rows' = [rows EXCEPT ![x].status = st]
        PROVE  x # i /\ i \in Live(rows) /\ rows[i].status = "signed"
    <2>1. rows[x] \in Reservation
      BY <1>0 DEF Live
    <2> QED
      BY <1>0, <1>2, <2>1 DEF Live, Reservation
  <1>3. ASSUME NEW p \in Ids, Record(p) PROVE i \in Live(rows) /\ rows[i].status = "signed"
    <2>1. held[p].id # i
      BY <1>3
    <2>2. \A j \in Ids : j # held[p].id => rows'[j] = rows[j]
      BY <1>0, <1>3 DEF Record, Sign
    <2> QED
      BY <1>0, <2>1, <2>2 DEF Live
  <1>4. ASSUME NEW p \in Ids, Close(p)
        PROVE  held[p].id # i /\ i \in Live(rows) /\ rows[i].status = "signed"
    <2>1. CASE Settle(held[p].id, now)
      <3> DEFINE x == held[p].id
      <3>1. x \in Live(rows) /\ rows[x] \in Reservation
        BY <1>0, <2>1 DEF Settle, InStatus, Live
      <3>2. rows'[x].status = "settled" /\ \A j \in Ids : j # x => rows'[j] = rows[j]
        BY <1>0, <2>1, <3>1 DEF Settle, Live, Reservation
      <3> QED
        BY <1>0, <3>2 DEF Live
    <2>2. CASE LoseTrack(held[p].id)
      BY <1>2, <2>2 DEF LoseTrack, InStatus
    <2> QED
      BY <1>4, <2>1, <2>2 DEF Close
  <1>5. ASSUME NEW p \in Ids, Hook(p) PROVE i \in Live(rows) /\ rows[i].status = "signed"
    <2>1. CASE Reserve(p)
      BY <1>0, <1>1, <2>1, ReserveGently, PaymentFacts, ReadingsAreInstants DEF Reserve
    <2>2. CASE DropDuplicate(p) \/ Deny(p) \/ ReleaseEntry(p)
      BY <1>2, <2>2 DEF DropDuplicate, Deny, ReleaseEntry, Release, InStatus
    <2>3. CASE Record(p) \/ Close(p)
      BY <1>3, <1>4, <2>3
    <2>4. CASE ~(\/ Reserve(p) \/ DropDuplicate(p) \/ Deny(p) \/ ReleaseEntry(p)
                 \/ Record(p) \/ Close(p))
      <3>1. rows' = rows
        BY <1>5, <2>4
           DEF Hook, Before, Begin, Refuse, ClaimKey, FindDuplicate, Withdraw,
               Enqueue, SignPayload, SignerFails, ForeignAbort, After,
               AfterUnmatched, AfterDiverged, AfterMatched, OnFailure,
               FailUnmatched, FailMatched, FreeKey, OnResponse, Respond, Fault,
               storeVars
      <3> QED
        BY <3>1
    <2> QED
      BY <2>1, <2>2, <2>3, <2>4
  <1>6. ASSUME NEW w \in Windows, Restart(w) PROVE FALSE
    <2>1. /\ i \in Live(rows) /\ rows[i] \in Reservation
          /\ rows'[i] = SweptRow(UnknownRow(rows[i]), now, w)
      BY <1>0, <1>6 DEF Restart, RecoverAfterRestart, Live
    <2>2. UnknownRow(rows[i]) \in Reservation /\ UnknownRow(rows[i]).status # "signed"
      <3>1. UnknownRow(rows[i]) \in Reservation
        BY <2>1, UnknownRowKeeps
      <3>2. UnknownRow(rows[i]).status # "signed"
        BY <2>1 DEF UnknownRow, Pending, Uncertain, Reservation
      <3> QED
        BY <3>1, <3>2
    <2>3. rows'[i].status \in {"expired", UnknownRow(rows[i]).status}
      BY <1>0, <2>1, <2>2, SweptRowStatus, WindowBounds
    <2> QED
      BY <2>2, <2>3
  <1>7. ASSUME NEW w \in Windows, Reconcile(w)
        PROVE  i \in Live(rows) /\ rows[i].status = "signed"
    <2>1. now \in Readings
      BY <1>0, ClockBounds DEF Readings
    <2> QED
      BY <1>0, <1>1, <1>7, <2>1, ExpireGently DEF Reconcile
  <1>8. ASSUME Clock \/ UNCHANGED vars
        PROVE  i \in Live(rows) /\ rows[i].status = "signed"
    BY <1>8 DEF Clock, Tick, vars
  <1>9. i \in Live(rows) /\ rows[i].status = "signed"
    BY <1>5, <1>6, <1>7, <1>8, NextSteps
  <1>10. rows'[i].ref = rows[i].ref
    BY <1>9, NextRows DEF RowStep
  <1> QED
    BY <1>4, <1>6, <1>9, <1>10

\* Until the row of a payload that left is closed, its nonce finds it.
THEOREM ResponsesFindRows == Spec => []ResponsesFindTheirRow
  <1>1. Init => ResponsesFindTheirRow
    BY DEF Init, StoreInit, ResponsesFindTheirRow, Live
  <1>2. IInv /\ OneRowPerReference /\ ResponsesFindTheirRow /\ [Next]_vars
          => ResponsesFindTheirRow'
    <2> SUFFICES ASSUME IInv, OneRowPerReference, ResponsesFindTheirRow, [Next]_vars,
                        NEW i \in Live(rows'), rows'[i].status = "signed"
                 PROVE  \E p \in Ids : /\ rows'[i].ref = p
                                       /\ signedByNonce'[p] # None
                                       /\ signedByNonce'[p].id = i
      BY DEF ResponsesFindTheirRow
    <2>0. TypeOK /\ NoncesFindOwn /\ i \in Ids
      BY DEF IInv, Live
    \* The row that this step signs.
    <2>1. ASSUME NEW p \in Ids, Record(p), held[p].id = i
          PROVE  rows'[i].ref = p /\ signedByNonce'[p] # None /\ signedByNonce'[p].id = i
      <3>1. held[p] # None
        BY <2>1, RecordSigns, NoneIsNoEntry
      <3> QED
        BY <2>1, <3>1, RecordFilesOwn
    \* A row that was signed before.
    <2>2. ASSUME ~\E p \in Ids : Record(p) /\ held[p].id = i
          PROVE  \E p \in Ids : /\ rows'[i].ref = p
                                /\ signedByNonce'[p] # None /\ signedByNonce'[p].id = i
      <3>1. /\ i \in Live(rows) /\ rows[i].status = "signed" /\ rows'[i].ref = rows[i].ref
            /\ ~\E p \in Ids : Close(p) /\ held[p].id = i
            /\ ~\E w \in Windows : Restart(w)
        BY <2>2, SignedByRecord
      <3>2. PICK p \in Ids : /\ rows[i].ref = p
                             /\ signedByNonce[p] # None /\ signedByNonce[p].id = i
        BY <3>1 DEF ResponsesFindTheirRow
      <3>3. signedByNonce'[p] = signedByNonce[p]
        <4>1. ASSUME NEW q \in Ids, Hook(q) PROVE signedByNonce'[p] = signedByNonce[p]
          <5>1. CASE q # p
            BY <2>0, <4>1, <5>1, HookMovesOwn
          \* A nonce is signed once.
          <5>2. CASE q = p /\ Record(p)
            <6>1. held[p].id # i /\ p # None
              BY <2>2, <5>2, NoncesAreRefs
            <6> QED
              BY <3>1, <3>2, <5>2, <6>1 DEF Record, Sign, RefUnused
          \* What it finds is what the response hook has taken.
          <5>3. CASE q = p /\ Close(p)
            <6>1. SignedFor(held[p].id, p)
              BY <2>0, <5>3 DEF NoncesFindOwn, Close
            <6>2. held[p].id = i
              BY <3>1, <3>2, <6>1, NoncesAreRefs DEF SignedFor, OneRowPerReference
            <6> QED
              BY <3>1, <5>3, <6>2
          <5>4. CASE q = p /\ ~Record(p) /\ ~Close(p)
            BY <4>1, <5>4
               DEF Hook, Before, Begin, Refuse, Reserve, ClaimKey, FindDuplicate,
                   DropDuplicate, Deny, Withdraw, Enqueue, SignPayload, SignerFails,
                   ForeignAbort, After, AfterUnmatched, AfterDiverged, AfterMatched,
                   OnFailure, FailUnmatched, FailMatched, ReleaseEntry, FreeKey, Shift,
                   OnResponse, Respond, Fault, hookVars
          <5> QED
            BY <5>1, <5>2, <5>3, <5>4
        <4>2. ASSUME NEW w \in Windows, Reconcile(w)
              PROVE  signedByNonce'[p] = signedByNonce[p]
          BY <3>2, <4>2 DEF Reconcile, Uncertain
        <4>3. CASE Clock \/ UNCHANGED vars
          BY <4>3 DEF Clock, guardVars, vars
        <4> QED
          BY <3>1, <4>1, <4>2, <4>3, NextSteps
      <3> QED
        BY <3>1, <3>2, <3>3
    <2> QED
      BY <2>1, <2>2
  <1>3. StoreSpec => []OneRowPerReference
    BY ReferencesStayUnique
  <1> QED
    BY <1>1, <1>2, <1>3, ImplementsStore, InitHolds, NextHolds, PTL DEF Spec

-----------------------------------------------------------------------------
(* Every payment that will take an entry finds one.                        *)

LEMMA ClaimantsFinite ==
  /\ \A s : IsFiniteSet(Claimants(s)) /\ Cardinality(Claimants(s)) \in Nat
  /\ \A s : IsFiniteSet(Claimants(s)') /\ Cardinality(Claimants(s)') \in Nat
  <1>1. \A s : Claimants(s) \in SUBSET Ids /\ Claimants(s)' \in SUBSET Ids
    BY DEF Claimants
  <1> QED
    BY <1>1, FiniteIds, FS_Subset, FS_CardinalityType

Served(s) ==
  /\ Cardinality(Claimants(s)) <= Len(pending[s])
  /\ \A k \in DOMAIN pending[s] :
       ~pending[s][k].contended =>
         Len(pending[s]) = 1 /\ Claimants(s) \subseteq {pending[s][k].id}

LEMMA StillServed ==
  ASSUME TypeOK, NEW s \in Signatures, Served(s),
         pending'[s] = pending[s], Claimants(s)' \subseteq Claimants(s)
  PROVE  Served(s)'
  <1>1. Cardinality(Claimants(s)') <= Cardinality(Claimants(s))
    BY ClaimantsFinite, FS_Subset
  <1>2. Len(pending[s]) \in Nat
    BY DEF TypeOK
  <1>3. Cardinality(Claimants(s)') <= Len(pending'[s])
    BY <1>1, <1>2, ClaimantsFinite DEF Served
  <1> QED
    BY <1>3 DEF Served

LEMMA EnqueueServes ==
  ASSUME IInv, NEW p \in Ids, Enqueue(p), Served(Signature(p))
  PROVE  Served(Signature(p))'
  <1> DEFINE s == Signature(p)
             n == Len(pending[s])
             j == Joining(pending[s], p)
  <1>1. /\ TypeOK /\ s \in Signatures /\ pending[s] \in Seq(Entry) /\ n \in Nat
        /\ pending'[s] = j
        /\ pc' = [pc EXCEPT ![p] = "signing"] /\ pc[p] = "allowed"
    BY PaymentFacts DEF IInv, TypeOK, Enqueue, Goto, Joining
  <1>2. /\ j \in Seq(Entry) /\ Len(j) = n + 1
        /\ \A k \in 1..n : j[k].contended
        /\ j[n + 1].id = p
        /\ n > 0 => j[n + 1].contended
    BY <1>1, Joined
  <1>3. DOMAIN j = 1..(n + 1)
    BY <1>2, LenProperties
  <1>4. Claimants(s)' = Claimants(s) \cup {p}
    BY <1>1 DEF Claimants, Claiming, TypeOK, Signature
  <1>5. Cardinality(Claimants(s)') <= Cardinality(Claimants(s)) + 1
    <2>1. \A x : Cardinality(Claimants(s) \cup {x}) =
                   IF x \in Claimants(s) THEN Cardinality(Claimants(s))
                                         ELSE Cardinality(Claimants(s)) + 1
      BY ClaimantsFinite, FS_AddElement
    <2> QED
      BY <1>4, <2>1, ClaimantsFinite
  <1>6. Cardinality(Claimants(s)) <= n
    BY DEF Served
  <1>7. Cardinality(Claimants(s)') <= n + 1
    <2>1. /\ Cardinality(Claimants(s)) \in Nat /\ Cardinality(Claimants(s)') \in Nat
          /\ n \in Nat
      BY <1>1, ClaimantsFinite
    <2> HIDE DEF n
    <2> QED
      BY <1>5, <1>6, <2>1
  <1> HIDE DEF j, n
  <1>8. ASSUME NEW k \in 1..(n + 1), ~j[k].contended
        PROVE  n + 1 = 1 /\ Claimants(s)' \subseteq {j[k].id}
    <2>1. k = n + 1 /\ n = 0
      BY <1>1, <1>2, <1>8
    <2>2. Claimants(s) = {}
      BY <1>1, <1>6, <2>1, ClaimantsFinite, FS_EmptySet
    <2> QED
      BY <1>2, <1>4, <2>1, <2>2
  <1> QED
    BY <1>1, <1>2, <1>3, <1>7, <1>8 DEF Served, Signature

LEMMA ShiftServes ==
  ASSUME IInv, NEW p \in Ids, AfterMatched(p) \/ FailMatched(p), Served(Signature(p))
  PROVE  Served(Signature(p))'
  <1> DEFINE s == Signature(p)
             n == Len(pending[s])
  <1>0. /\ TypeOK /\ Queue(p) # <<>> /\ Shift(p)
        /\ pc[p] \in Claiming /\ pc' = [pc EXCEPT ![p] = pc'[p]] /\ pc'[p] \notin Claiming
    BY DEF IInv, TypeOK, AfterMatched, FailMatched, Goto, Claiming
  <1>1. /\ s \in Signatures /\ n \in Nat \ {0} /\ Len(pending'[s]) = n - 1
        /\ DOMAIN pending[s] = 1..n /\ DOMAIN pending'[s] = 1..(n - 1)
        /\ \A k \in DOMAIN pending'[s] : pending'[s][k] = pending[s][k + 1]
    BY <1>0, ShiftTakes
  <1>2. Claimants(s)' = Claimants(s) \ {p} /\ p \in Claimants(s)
    BY <1>0 DEF Claimants, TypeOK, Signature
  <1>3. Cardinality(Claimants(s)') = Cardinality(Claimants(s)) - 1
    BY <1>2, ClaimantsFinite, FS_RemoveElement
  <1>4. Cardinality(Claimants(s)) <= n
    BY DEF Served
  <1>5. Cardinality(Claimants(s)') <= n - 1
    BY <1>1, <1>3, <1>4, ClaimantsFinite
  <1>6. ASSUME NEW k \in DOMAIN pending'[s] PROVE pending'[s][k].contended
    <2>1. k + 1 \in 1..n /\ n # 1
      BY <1>1, <1>6
    <2> QED
      BY <1>1, <1>6, <2>1 DEF Served
  <1> QED
    BY <1>1, <1>5, <1>6 DEF Served, Signature

LEMMA DivergedServes ==
  ASSUME IInv, NEW p \in Ids, AfterDiverged(p), Served(Signature(p))
  PROVE  Served(Signature(p))'
  <1> DEFINE s == Signature(p)
             m == MarkContended(pending[s])
  <1>1. /\ TypeOK /\ s \in Signatures /\ pending[s] \in Seq(Entry)
        /\ Len(pending[s]) \in Nat /\ pending'[s] = m
        /\ pc' = [pc EXCEPT ![p] = "failing"] /\ pc[p] = "after"
    BY PaymentFacts DEF IInv, TypeOK, AfterDiverged, Goto
  <1>2. /\ m \in Seq(Entry) /\ Len(m) = Len(pending[s])
        /\ \A k \in 1..Len(pending[s]) : Len(pending[s]) > 1 => m[k].contended
        /\ Len(pending[s]) <= 1 => m = pending[s]
    BY <1>1, Marked
  <1>3. Claimants(s)' = Claimants(s)
    BY <1>1 DEF Claimants, Claiming, TypeOK, Signature
  <1>4. DOMAIN m = 1..Len(pending[s])
    BY <1>2, LenProperties
  <1> HIDE DEF m
  <1>5. CASE Len(pending[s]) <= 1
    BY <1>1, <1>2, <1>3, <1>5, StillServed
  <1>6. CASE ~(Len(pending[s]) <= 1)
    <2>1. \A k \in DOMAIN pending'[s] : pending'[s][k].contended
      BY <1>1, <1>2, <1>4, <1>6
    <2>2. Cardinality(Claimants(s)') <= Len(pending'[s])
      BY <1>1, <1>2, <1>3 DEF Served
    <2> QED
      BY <2>1, <2>2 DEF Served, Signature
  <1> QED
    BY <1>5, <1>6

\* Where no after hook fails to record, payments and entries stay in step.
LEMMA HookServes ==
  ASSUME IInv, QueuesServe, NEW p \in Ids, Hook(p), ~(Fault(p) /\ pc[p] = "record")
  PROVE  QueuesServe'
  <1>0. TypeOK
    BY DEF IInv
  <1> SUFFICES ASSUME NEW s \in Signatures PROVE Served(s)'
    BY DEF QueuesServe, Served, Signatures, Signature
  <1>1. Served(s)
    BY DEF QueuesServe, Served
  <1>2. CASE Enqueue(p) /\ s = Signature(p)
    BY <1>1, <1>2, EnqueueServes DEF Signature
  <1>3. CASE (AfterMatched(p) \/ FailMatched(p)) /\ s = Signature(p)
    BY <1>1, <1>3, ShiftServes DEF Signature
  <1>4. CASE AfterDiverged(p) /\ s = Signature(p)
    BY <1>1, <1>4, DivergedServes DEF Signature
  <1>5. CASE s # Signature(p)
    <2>1. Claimants(s)' = Claimants(s)
      BY <1>0, <1>5, HookMovesOwn DEF Claimants, Signature
    <2>2. pending'[s] = pending[s]
      <3> USE <1>0, <1>5 DEF TypeOK, hookVars
      <3>1. CASE Before(p)
        BY <3>1 DEF Before, Begin, Refuse, Reserve, ClaimKey, FindDuplicate,
                    DropDuplicate, Deny, Withdraw, Enqueue
      <3>2. CASE SignPayload(p) \/ SignerFails(p) \/ ForeignAbort(p) \/ Fault(p)
        BY <3>2 DEF SignPayload, SignerFails, ForeignAbort, Fault
      <3>3. CASE After(p) \/ OnFailure(p)
        BY <3>3 DEF After, AfterUnmatched, AfterDiverged, AfterMatched, Record, Shift,
                    OnFailure, FailUnmatched, FailMatched, ReleaseEntry, FreeKey
      <3>4. CASE OnResponse(p)
        BY <3>4 DEF OnResponse, Respond, Close
      <3> QED
        BY <3>1, <3>2, <3>3, <3>4 DEF Hook
    <2> QED
      BY <1>0, <1>1, <2>1, <2>2, StillServed
  <1>6. CASE ~(Enqueue(p) \/ AfterMatched(p) \/ FailMatched(p) \/ AfterDiverged(p))
    <2>1. pending' = pending /\ (pc'[p] \in Claiming => pc[p] \in Claiming)
      <3> USE <1>0, <1>6 DEF TypeOK, hookVars, Goto, Claiming
      <3>1. CASE Before(p)
        BY <3>1 DEF Before, Begin, Refuse, Reserve, ClaimKey, FindDuplicate,
                    DropDuplicate, Deny, Withdraw
      <3>2. CASE SignPayload(p) \/ SignerFails(p) \/ ForeignAbort(p)
        BY <3>2 DEF SignPayload, SignerFails, ForeignAbort
      <3>3. CASE After(p) \/ OnFailure(p)
        BY <3>3 DEF After, AfterUnmatched, Record, OnFailure, FailUnmatched,
                    ReleaseEntry, FreeKey
      <3>4. CASE OnResponse(p)
        BY <3>4 DEF OnResponse, Respond, Close
      <3>5. CASE Fault(p)
        <4>1. OnFault[pc[p]] \in {"aborted", "failed", "done"} /\ pending' = pending
          BY <3>5 DEF Fault, OnFault
        <4> QED
          BY <3>5, <4>1 DEF Fault
      <3> QED
        BY <3>1, <3>2, <3>3, <3>4, <3>5 DEF Hook
    <2>2. Claimants(s)' \subseteq Claimants(s)
      BY <1>0, <2>1, HookMovesOwn DEF Claimants, Signature
    <2> QED
      BY <1>0, <1>1, <2>1, <2>2, StillServed
  <1> QED
    BY <1>2, <1>3, <1>4, <1>5, <1>6

LEMMA OthersServe ==
  ASSUME IInv, [Next]_vars, ~\E p \in Ids : Hook(p)
  PROVE  /\ QueuesServe => QueuesServe'
         /\ healthy' # healthy => QueuesServe'
  <1>0. TypeOK
    BY DEF IInv
  <1>1. ASSUME pending' = pending, pc' = pc PROVE QueuesServe => QueuesServe'
    BY <1>1 DEF QueuesServe, Claimants, Signatures, Signature
  <1>2. ASSUME NEW w \in Windows, Restart(w) PROVE QueuesServe'
    <2>1. \A s \in Signatures : pending'[s] = <<>>
      BY <1>2 DEF Restart
    <2>2. \A s : Claimants(s)' = {}
      BY <1>0, <1>2, RestartStops DEF Claimants, Claiming, Running
    <2>3. Len(<<>>) = 0 /\ DOMAIN <<>> = {} /\ Cardinality({}) = 0
      BY FS_EmptySet
    <2>4. ASSUME NEW s \in Signatures PROVE Served(s)'
      <3>1. pending'[s] = <<>> /\ Claimants(s)' = {}
        BY <2>1, <2>2
      <3>2. Cardinality(Claimants(s)') = 0
        BY <2>3, <3>1
      <3>3. Cardinality(Claimants(s)') <= Len(pending'[s])
        BY <2>3, <3>1, <3>2
      <3>4. DOMAIN pending'[s] = {}
        BY <2>3, <3>1
      <3> QED
        BY <3>3, <3>4 DEF Served
    <2> QED
      BY <2>4 DEF QueuesServe, Served, Signatures, Signature
  <1>3. ASSUME NEW w \in Windows, Reconcile(w)
        PROVE  pending' = pending /\ pc' = pc /\ healthy' = healthy
    BY <1>3 DEF Reconcile
  <1>4. CASE Clock \/ UNCHANGED vars
    BY <1>1, <1>4 DEF Clock, guardVars, vars
  <1> QED
    BY <1>1, <1>2, <1>3, <1>4, NextSteps

\* A payment in an after or a failure hook finds an entry in its queue.
LEMMA ServedFinds ==
  ASSUME IInv, QueuesServe, NEW p \in Ids, pc[p] \in Claiming
  PROVE  Queue(p) # <<>>
  <1> DEFINE C == Claimants(Signature(p))
  <1>1. p \in C /\ IsFiniteSet(C) /\ Cardinality(C) \in Nat
    BY ClaimantsFinite DEF Claimants
  <1>2. Cardinality(C) # 0
    BY <1>1, FS_EmptySet
  <1>3. Cardinality(C) <= Len(Queue(p))
    BY PaymentFacts DEF QueuesServe, Queue
  <1>4. Len(<<>>) = 0
    OBVIOUS
  <1> HIDE DEF C
  <1> QED
    BY <1>1, <1>2, <1>3, <1>4

\* A failure latches the guard, and a restart empties every queue.
LEMMA HealthyServes ==
  ASSUME IInv, healthy => QueuesServe, [Next]_vars, healthy'
  PROVE  QueuesServe'
  <1>1. ASSUME NEW p \in Ids, Hook(p) PROVE QueuesServe'
    <2>1. ~Fault(p)
      BY DEF Fault, LatchUnhealthy
    <2>2. healthy' = healthy
      BY <1>1, <2>1
         DEF Hook, Before, Begin, Refuse, Reserve, ClaimKey, FindDuplicate,
             DropDuplicate, Deny, Withdraw, Enqueue, SignPayload, SignerFails,
             ForeignAbort, After, AfterUnmatched, AfterDiverged, AfterMatched, Record,
             OnFailure, FailUnmatched, FailMatched, ReleaseEntry, FreeKey, OnResponse,
             Respond, Close
    <2> QED
      BY <1>1, <2>1, <2>2, HookServes
  <1>2. CASE ~\E p \in Ids : Hook(p)
    <2>1. CASE healthy' = healthy
      BY <1>2, <2>1, OthersServe
    <2>2. CASE healthy' # healthy
      BY <1>2, <2>2, OthersServe
    <2> QED
      BY <2>1, <2>2
  <1> QED
    BY <1>1, <1>2

LEMMA InitServes == Init => QueuesServe
  <1> SUFFICES ASSUME Init, NEW s \in Signatures PROVE Served(s)
    BY DEF QueuesServe, Served
  <1>1. pending[s] = <<>> /\ Claimants(s) = {}
    BY DEF Init, Claimants, Claiming
  <1>2. Len(<<>>) = 0 /\ DOMAIN <<>> = {} /\ Cardinality({}) = 0
    BY FS_EmptySet
  <1>3. Cardinality(Claimants(s)) <= Len(pending[s]) /\ DOMAIN pending[s] = {}
    BY <1>1, <1>2
  <1> QED
    BY <1>3 DEF Served

\* Where a payload leaves, and which entry it has then.
LEMMA LeavesBy ==
  ASSUME IInv, [Next]_vars, NEW p \in Ids, pc[p] \notin Left, pc'[p] \in Left
  PROVE  Record(p) \/ AfterUnmatched(p)
  <1>0. TypeOK
    BY DEF IInv
  <1>1. ASSUME NEW q \in Ids, Hook(q) PROVE Record(p) \/ AfterUnmatched(p)
    <2>1. q = p
      BY <1>0, <1>1, HookMovesOwn
    <2> SUFFICES ASSUME ~Record(p), ~AfterUnmatched(p) PROVE FALSE
      OBVIOUS
    <2> USE <1>0 DEF TypeOK, Goto, Left
    <2>2. CASE Before(p)
      BY <2>2 DEF Before, Begin, Refuse, Reserve, ClaimKey, FindDuplicate,
                  DropDuplicate, Deny, Withdraw, Enqueue
    <2>3. CASE SignPayload(p) \/ SignerFails(p) \/ ForeignAbort(p)
      BY <2>3 DEF SignPayload, SignerFails, ForeignAbort
    <2>4. CASE After(p) \/ OnFailure(p)
      BY <2>4 DEF After, AfterDiverged, AfterMatched, OnFailure, FailUnmatched,
                  FailMatched, ReleaseEntry, FreeKey
    <2>5. CASE OnResponse(p)
      BY <2>5 DEF OnResponse, Respond, Close
    <2>6. CASE Fault(p)
      <3>1. pc'[p] = OnFault[pc[p]]
        BY <2>6 DEF Fault
      <3>2. pc'[p] \in {"aborted", "failing", "failed"}
        BY <2>6, <3>1 DEF Fault, OnFault
      <3> QED
        BY <3>2
    <2> QED
      BY <1>1, <2>1, <2>2, <2>3, <2>4, <2>5, <2>6 DEF Hook
  <1>2. ASSUME NEW w \in Windows, Reconcile(w) \/ Restart(w) PROVE FALSE
    BY <1>0, <1>2, RestartStops DEF Reconcile
  <1>3. CASE Clock \/ UNCHANGED vars
    BY <1>3 DEF Clock, guardVars, vars
  <1> QED
    BY <1>1, <1>2, <1>3, NextSteps

LEMMA RecordHolds ==
  ASSUME IInv, NEW p \in Ids, Record(p)
  PROVE  HasHold(p)'
  BY RecordFilesOwn DEF HasHold

\* While the guard is not latched unhealthy, every payload that leaves has a
\* hold, whatever the store throws and however long the hooks run.
THEOREM LeavesAreHeldOrLatched == Spec => LeavesHeldOrLatched
  <1> DEFINE LInv == IInv /\ (healthy => QueuesServe)
             Leaving == \A p \in Ids : pc[p] \notin Left /\ pc'[p] \in Left
                                         => HasHold(p)' \/ ~healthy'
  <1>1. LInv /\ [Next]_vars => Leaving
    <2> SUFFICES ASSUME LInv, [Next]_vars, NEW p \in Ids,
                        pc[p] \notin Left, pc'[p] \in Left, healthy'
                 PROVE  HasHold(p)'
      OBVIOUS
    <2>1. CASE Record(p)
      BY <2>1, RecordHolds
    <2>2. CASE AfterUnmatched(p)
      <3>1. healthy
        BY <2>2 DEF AfterUnmatched
      <3> QED
        BY <2>2, <3>1, ServedFinds DEF AfterUnmatched, Claiming
    <2> QED
      BY <2>1, <2>2, LeavesBy
  <1>2. Init => LInv
    BY InitHolds, InitServes
  <1>3. LInv /\ [Next]_vars => LInv'
    BY NextHolds, HealthyServes
  <1>4. Spec => []LInv
    BY <1>2, <1>3, PTL DEF Spec
  <1>5. LInv /\ [Next]_vars => [Leaving]_vars
    BY <1>1
  <1> HIDE DEF LInv, Leaving
  <1>6. Spec => [][Leaving]_vars
    BY <1>4, <1>5, PTL DEF Spec
  <1> QED
    BY <1>6 DEF LeavesHeldOrLatched, Leaving

-----------------------------------------------------------------------------
(* What holds while the hooks end before their authorizations expire.      *)

\* A payment whose hooks run is not yet past the authorization priced for it.
LEMMA RunningIsEarly ==
  ASSUME IInv, SoundHooks, NEW p \in Ids, pc[p] \in Running
  PROVE  now + MismatchTolerance < KeyExpiry(p)
  <1>1. /\ now \in Nat /\ read[p] \in Nat /\ RequestOf[p].validity \in Nat
        /\ HookTime \in Nat
    BY PaymentFacts, FaultBounds DEF IInv, TypeOK, StoreTypeOK
  <1>2. now <= read[p] + HookTime /\ HookTime + 1 < RequestOf[p].validity
    BY DEF IInv, HooksTimed, SoundHooks
  <1> QED
    BY <1>1, <1>2 DEF KeyExpiry

\* So the row of a matched entry is still reserved when it is recorded: it was
\* priced a second before the payload at the earliest.
LEMMA RecordSucceeds ==
  ASSUME IInv, SoundHooks, NEW p \in Ids, pc[p] = "record"
  PROVE  ~Fault(p)
  <1>1. PICK i \in Ids : /\ held[p] # None /\ held[p].id = i /\ Unsigned(i)
                         /\ ~Diverged(p, held[p])
    <2>1. held[p] # None /\ Unsigned(held[p].id) /\ ~Diverged(p, held[p])
      BY DEF IInv, TakenFresh, Taking
    <2>2. held[p].id \in Ids
      BY <2>1 DEF Unsigned, Live
    <2> QED
      BY <2>1, <2>2
  <1>2. /\ now \in Nat /\ read[p] \in Nat /\ read[i] \in Nat /\ validBefore[p] \in Nat
        /\ validBefore[p] >= read[p] + Horizon(p)
        /\ Horizon(p) \in Nat /\ Horizon(i) \in Nat /\ Margin \in Nat
        /\ Horizon(p) + Margin = RequestOf[p].validity
        /\ Horizon(i) + Margin = RequestOf[i].validity
    BY PaymentFacts DEF IInv, TypeOK, StoreTypeOK, HooksTimed, SignedStates
  <1>3. validBefore[p] <= read[i] + Horizon(i) + 1
    BY <1>1, <1>2 DEF Diverged
  <1>4. now + 1 < KeyExpiry(p)
    BY RunningIsEarly DEF Running
  <1>5. now < KeyExpiry(i) /\ KeyExpiry(i) \in Nat
    BY <1>2, <1>3, <1>4 DEF KeyExpiry
  <1>6. i \in Live(rows) /\ rows[i].safe \in Nat /\ rows[i].safe >= KeyExpiry(i)
    BY <1>1 DEF IInv, RowsPriced, Unsigned, TypeOK, StoreTypeOK, Live, Reservation
  <1>7. InStatus(HeldRow(p), "reserved")
    BY <1>1, <1>2, <1>5, <1>6 DEF Unsigned, InStatus, HeldRow
  <1>8. Expects["record"] = "reserved"
    BY DEF Expects
  <1> QED
    BY <1>7, <1>8 DEF Fault, SoundHooks

LEMMA SoundServes ==
  ASSUME IInv, SoundHooks, QueuesServe, [Next]_vars
  PROVE  QueuesServe'
  <1>1. ASSUME NEW p \in Ids, Hook(p) PROVE QueuesServe'
    BY <1>1, RecordSucceeds, HookServes
  <1> QED
    BY <1>1, OthersServe

\* The entry that a failure hook finds uncontended is its own.
LEMMA FailMatchesOwn ==
  ASSUME IInv, QueuesServe, NEW p \in Ids, FailMatched(p), ~held'[p].contended
  PROVE  held'[p].id = p
  <1> DEFINE s == Signature(p)
  <1>1. /\ s \in Signatures /\ pending[s] \in Seq(Entry) /\ pending[s] # <<>>
        /\ held'[p] = Head(pending[s]) /\ p \in Claimants(s)
    BY PaymentFacts
       DEF IInv, TypeOK, FailMatched, Shift, Queue, Claimants, Claiming
  <1>2. held'[p] = pending[s][1] /\ 1 \in DOMAIN pending[s]
    BY <1>1, Taken, LenProperties
  <1> QED
    BY <1>1, <1>2 DEF QueuesServe

LEMMA NextFailsOwn ==
  ASSUME IInv, QueuesServe, FailuresOwn, [Next]_vars
  PROVE  FailuresOwn'
  <1>0. TypeOK
    BY DEF IInv
  <1>1. ASSUME NEW q \in Ids, Hook(q) PROVE FailuresOwn'
    <2> SUFFICES ASSUME NEW p \in Ids
                 PROVE  /\ pc'[p] = "release" /\ ~held'[p].contended => held'[p].id = p
                        /\ pc'[p] = "unkey" => held'[p] # None /\ held'[p].id = p
      BY DEF FailuresOwn
    <2>1. CASE p # q
      BY <1>0, <1>1, <2>1, HookMovesOwn DEF FailuresOwn
    <2>2. CASE p = q /\ FailMatched(p)
      BY <1>0, <2>2, FailMatchesOwn DEF FailMatched, Goto, TypeOK
    <2>3. CASE p = q /\ ReleaseEntry(p)
      <3>1. held[p] # None
        BY <2>3 DEF ReleaseEntry, IInv, TakenFresh, Taking
      <3> QED
        BY <1>0, <2>3, <3>1 DEF ReleaseEntry, FreesKey, FailuresOwn, Goto, TypeOK
    <2>4. CASE p = q /\ ~FailMatched(p) /\ ~ReleaseEntry(p)
      <3> SUFFICES pc'[p] \notin {"release", "unkey"}
        OBVIOUS
      <3> USE <1>0, <2>4 DEF TypeOK, Goto
      <3>1. CASE Before(p)
        BY <3>1 DEF Before, Begin, Refuse, Reserve, ClaimKey, FindDuplicate,
                    DropDuplicate, Deny, Withdraw, Enqueue
      <3>2. CASE SignPayload(p) \/ SignerFails(p) \/ ForeignAbort(p)
        BY <3>2 DEF SignPayload, SignerFails, ForeignAbort
      <3>3. CASE After(p) \/ OnFailure(p)
        BY <3>3 DEF After, AfterUnmatched, AfterDiverged, AfterMatched, Record,
                    OnFailure, FailUnmatched, FreeKey
      <3>4. CASE OnResponse(p)
        BY <3>4 DEF OnResponse, Respond, Close
      <3>5. CASE Fault(p)
        <4>1. pc'[p] = OnFault[pc[p]]
          BY <3>5 DEF Fault
        <4>2. pc'[p] \in {"aborted", "failing", "failed", "done"}
          BY <3>5, <4>1 DEF Fault, OnFault
        <4> QED
          BY <4>2
      <3> QED
        BY <1>1, <2>4, <3>1, <3>2, <3>3, <3>4, <3>5 DEF Hook
    <2> QED
      BY <2>1, <2>2, <2>3, <2>4
  <1>2. ASSUME NEW w \in Windows, Reconcile(w) PROVE FailuresOwn'
    BY <1>2 DEF Reconcile, FailuresOwn
  <1>3. ASSUME NEW w \in Windows, Restart(w) PROVE FailuresOwn'
    BY <1>0, <1>3, RestartStops DEF FailuresOwn, Running
  <1>4. CASE Clock \/ UNCHANGED vars
    BY <1>4 DEF Clock, guardVars, vars, FailuresOwn
  <1> QED
    BY <1>1, <1>2, <1>3, <1>4, NextSteps

\* Which hooks write a dedup key, and when a payment comes to own one.
LEMMA HookKeys ==
  ASSUME TypeOK, NEW p \in Ids, Hook(p)
  PROVE  /\ \/ dedup' = dedup
            \/ ClaimKey(p)
            \/ Withdraw(p)
            \/ FreeKey(p)
         /\ pc'[p] \in Owning => \/ pc[p] \in Owning
                                 \/ ClaimKey(p)
                                 \/ KeyOf[p] = None
  <1> USE DEF TypeOK, Goto, hookVars, Owning, Left
  <1>1. CASE Before(p)
    BY <1>1 DEF Before, Begin, Refuse, Reserve, FindDuplicate, DropDuplicate, Deny,
                Withdraw, Enqueue
  <1>2. CASE SignPayload(p) \/ SignerFails(p) \/ ForeignAbort(p)
    BY <1>2 DEF SignPayload, SignerFails, ForeignAbort
  <1>3. CASE After(p)
    BY <1>3 DEF After, AfterUnmatched, AfterDiverged, AfterMatched, Record
  <1>4. CASE OnFailure(p)
    BY <1>4 DEF OnFailure, FailUnmatched, FailMatched, ReleaseEntry, FreeKey
  <1>5. CASE OnResponse(p)
    BY <1>5 DEF OnResponse, Respond, Close
  <1>6. CASE Fault(p)
    <2>1. /\ pc'[p] \in {"aborted", "failing", "failed", "done"}
          /\ pc'[p] = "failing" => pc[p] = "record"
          /\ pc'[p] = "done" => pc[p] \in {"settle", "lose"}
      BY <1>6 DEF Fault, OnFault
    <2> QED
      BY <1>6, <2>1 DEF Fault
  <1> QED
    BY <1>1, <1>2, <1>3, <1>4, <1>5, <1>6 DEF Hook

\* A key is given to whom no owner stands in the way of, and is freed by its
\* owner only.
LEMMA NextKeys ==
  ASSUME IInv, SoundHooks, FailuresOwn, KeysOwned, [Next]_vars
  PROVE  KeysOwned'
  <1>0. /\ TypeOK /\ now \in Nat /\ \A p \in Ids : KeyExpiry(p) \in Nat
        /\ \A p \in Ids : KeyOf[p] # None => KeyOf[p] \in Keys
    BY PaymentFacts, KeysAreKeys DEF IInv, TypeOK, StoreTypeOK, KeyExpiry
  \* It is enough that no payment comes to own a key and no owned key changes.
  <1>1. ASSUME \A p \in Ids : Owns(p)' => /\ Owns(p) /\ KeyExpiry(p)' = KeyExpiry(p)
                                          /\ dedup'[KeyOf[p]] = dedup[KeyOf[p]]
        PROVE  KeysOwned'
    <2>1. ASSUME NEW p \in Ids, Owns(p)'
          PROVE  /\ dedup'[KeyOf[p]] = KeyExpiry(p)'
                 /\ \A q \in Ids : Owns(q)' /\ KeyOf[q] = KeyOf[p] => q = p
      <3>1. /\ Owns(p) /\ KeyExpiry(p)' = KeyExpiry(p)
            /\ dedup'[KeyOf[p]] = dedup[KeyOf[p]]
        BY <1>1, <2>1
      <3>2. \A q \in Ids : Owns(q)' => Owns(q)
        BY <1>1
      <3> QED
        BY <3>1, <3>2 DEF KeysOwned
    <2> QED
      BY <2>1 DEF KeysOwned
  <1>2. ASSUME NEW q \in Ids, Hook(q) PROVE KeysOwned'
    <2>1. now' = now
      BY <1>0, <1>2, HookMovesOwn
    <2>2. ASSUME NEW p \in Ids \ {q}
          PROVE  (Owns(p)' <=> Owns(p)) /\ KeyExpiry(p)' = KeyExpiry(p)
      BY <1>0, <1>2, <2>1, HookMovesOwn DEF Owns, KeyExpiry
    <2>3. ASSUME pc[q] # "idle" PROVE KeyExpiry(q)' = KeyExpiry(q)
      BY <1>0, <1>2, <2>3, HookMoves DEF KeyExpiry
    <2>4. ASSUME Owns(q)', ~ClaimKey(q)
          PROVE  Owns(q) /\ KeyExpiry(q)' = KeyExpiry(q)
      <3>1. pc[q] \in Owning
        BY <1>0, <1>2, <2>4, HookKeys DEF Owns
      <3>2. KeyExpiry(q)' = KeyExpiry(q)
        BY <2>3, <3>1 DEF Owning, Left
      <3> QED
        BY <2>1, <2>4, <3>1, <3>2 DEF Owns
    <2>5. CASE dedup' = dedup /\ ~ClaimKey(q)
      BY <1>1, <2>2, <2>4, <2>5
    <2>6. CASE ClaimKey(q)
      <3>1. /\ ~KeyTaken(q) /\ dedup' = [dedup EXCEPT ![KeyOf[q]] = KeyExpiry(q)]
            /\ pc[q] = "dedup" /\ pc'[q] = "allowed"
        BY <1>0, <2>6 DEF ClaimKey, Goto, TypeOK
      <3>2. KeyExpiry(q)' = KeyExpiry(q)
        BY <2>3, <3>1
      <3>3. ASSUME NEW p \in Ids \ {q}, Owns(p) PROVE KeyOf[p] # KeyOf[q]
        <4> SUFFICES ASSUME KeyOf[p] = KeyOf[q] PROVE FALSE
          OBVIOUS
        <4>1. dedup[KeyOf[q]] = KeyExpiry(p) /\ now < KeyExpiry(p)
          BY <3>3 DEF KeysOwned, Owns
        <4>2. read[q] <= now /\ read[q] \in Nat
          BY <1>0 DEF IInv, HooksTimed, TypeOK
        <4>3. KeyExpiry(p) > read[q] /\ KeyExpiry(p) # None
          BY <1>0, <4>1, <4>2, NoneIsNoInstant
        <4> QED
          BY <3>1, <4>1, <4>3 DEF KeyTaken
      <3>4. ASSUME NEW p \in Ids, Owns(p)', p # q
            PROVE  /\ dedup'[KeyOf[p]] = KeyExpiry(p)'
                   /\ \A r \in Ids : Owns(r)' /\ KeyOf[r] = KeyOf[p] => r = p
        <4>1. Owns(p) /\ KeyExpiry(p)' = KeyExpiry(p) /\ KeyOf[p] # KeyOf[q]
          BY <2>2, <3>3, <3>4
        <4>2. dedup'[KeyOf[p]] = dedup[KeyOf[p]]
          BY <1>0, <3>1, <4>1 DEF TypeOK
        <4> QED
          BY <2>2, <4>1, <4>2 DEF KeysOwned
      <3>5. ASSUME Owns(q)'
            PROVE  /\ dedup'[KeyOf[q]] = KeyExpiry(q)'
                   /\ \A r \in Ids : Owns(r)' /\ KeyOf[r] = KeyOf[q] => r = q
        <4>1. KeyOf[q] \in Keys
          BY <1>0, <3>5 DEF Owns
        <4>2. dedup'[KeyOf[q]] = KeyExpiry(q)'
          BY <1>0, <3>1, <3>2, <4>1 DEF TypeOK
        <4> QED
          BY <2>2, <3>3, <4>2
      <3> QED
        BY <3>4, <3>5 DEF KeysOwned
    <2>7. CASE Withdraw(q) \/ FreeKey(q)
      <3>1. /\ dedup' = [dedup EXCEPT ![KeyOf[q]] = None]
            /\ pc[q] \in {"withdraw", "unkey"} /\ pc'[q] \notin Owning
        BY <1>0, <2>7 DEF Withdraw, FreeKey, FailuresOwn, Goto, TypeOK, Owning, Left
      <3>2. now < KeyExpiry(q)
        <4>1. now + 1 < KeyExpiry(q)
          BY <3>1, RunningIsEarly DEF Running
        <4> QED
          BY <1>0, <4>1
      <3>3. KeyOf[q] # None => Owns(q)
        BY <3>1, <3>2 DEF Owns, Owning
      <3>4. ASSUME NEW p \in Ids, Owns(p)'
            PROVE  /\ Owns(p) /\ KeyExpiry(p)' = KeyExpiry(p)
                   /\ dedup'[KeyOf[p]] = dedup[KeyOf[p]]
        <4>1. p # q
          BY <3>1, <3>4 DEF Owns
        <4>2. Owns(p) /\ KeyExpiry(p)' = KeyExpiry(p)
          BY <2>2, <3>4, <4>1
        <4>3. KeyOf[p] # KeyOf[q]
          BY <3>3, <4>1, <4>2 DEF KeysOwned, Owns
        <4> QED
          BY <1>0, <3>1, <4>2, <4>3 DEF TypeOK
      <3> QED
        BY <1>1, <3>4
    <2> QED
      BY <1>0, <1>2, <2>5, <2>6, <2>7, HookKeys
  <1>3. ASSUME NEW w \in Windows, Reconcile(w) PROVE KeysOwned'
    BY <1>1, <1>3 DEF Reconcile, ReleaseExpired, Owns, KeyExpiry
  <1>4. ASSUME NEW w \in Windows, Restart(w) PROVE KeysOwned'
    <2>1. dedup' = dedup /\ now' = now /\ read' = read
      BY <1>4 DEF Restart, RecoverAfterRestart
    <2>2. \A p \in Ids : pc'[p] \in Owning => pc[p] \in Owning
      BY <1>0, <1>4, RestartStops DEF Owning, Running
    <2> QED
      BY <1>1, <2>1, <2>2 DEF Owns, KeyExpiry
  <1>5. CASE Clock
    <2>1. dedup' = dedup /\ read' = read /\ pc' = pc /\ now' = now + 1
      BY <1>5 DEF Clock, Tick, guardVars
    <2> QED
      BY <1>0, <1>1, <2>1 DEF Owns, KeyExpiry
  <1>6. CASE UNCHANGED vars
    BY <1>1, <1>6 DEF vars, guardVars, Owns, KeyExpiry
  <1> QED
    BY <1>2, <1>3, <1>4, <1>5, <1>6, NextSteps

\* A payment is signed while it owns its key, so that every other payment that
\* was signed under the key has outlived its own claim.
LEMMA NextSignsApart ==
  ASSUME IInv, SoundHooks, KeysOwned, SignedApart, [Next]_vars
  PROVE  SignedApart'
  <1>0. /\ TypeOK /\ now \in Nat /\ \A p \in Ids : KeyExpiry(p) \in Nat
        /\ \A p \in Ids : Horizon(p) \in Nat /\ Horizon(p)' = Horizon(p)
    BY PaymentFacts DEF IInv, TypeOK, StoreTypeOK, KeyExpiry, Horizon
  \* A payment keeps its instants once it is signed, and is signed now.
  <1>1. ASSUME NEW p \in Ids, pc'[p] \in SignedStates
        PROVE  /\ KeyExpiry(p)' = KeyExpiry(p)
               /\ \/ pc[p] \in SignedStates /\ SignedAt(p)' = SignedAt(p)
                  \/ pc[p] = "signing" /\ SignedAt(p)' = now
    <2>1. ASSUME NEW q \in Ids, Hook(q)
          PROVE  /\ read'[p] = read[p]
                 /\ \/ pc[p] \in SignedStates /\ validBefore'[p] = validBefore[p]
                    \/ pc[p] = "signing" /\ validBefore'[p] = now + Horizon(p)
      BY <1>0, <1>1, <2>1, HookMovesOwn, HookMoves
    <2>2. ASSUME NEW w \in Windows, Restart(w)
          PROVE  /\ read'[p] = read[p]
                 /\ pc[p] \in SignedStates /\ validBefore'[p] = validBefore[p]
      BY <1>0, <1>1, <2>2, RestartStops DEF SignedStates, Running
    <2>3. ASSUME NEW w \in Windows, Reconcile(w)
          PROVE  /\ read'[p] = read[p]
                 /\ pc[p] \in SignedStates /\ validBefore'[p] = validBefore[p]
      BY <1>1, <2>3 DEF Reconcile
    <2>4. CASE Clock \/ UNCHANGED vars
      BY <1>1, <2>4 DEF Clock, guardVars, vars, SignedAt, KeyExpiry, Horizon
    <2>5. ASSUME read'[p] = read[p],
                 \/ pc[p] \in SignedStates /\ validBefore'[p] = validBefore[p]
                 \/ pc[p] = "signing" /\ validBefore'[p] = now + Horizon(p)
          PROVE  /\ KeyExpiry(p)' = KeyExpiry(p)
                 /\ \/ pc[p] \in SignedStates /\ SignedAt(p)' = SignedAt(p)
                    \/ pc[p] = "signing" /\ SignedAt(p)' = now
      <3>1. now + Horizon(p) - Horizon(p) = now
        BY <1>0
      <3> QED
        BY <1>0, <2>5, <3>1 DEF KeyExpiry, SignedAt
    <2> QED
      BY <2>1, <2>2, <2>3, <2>4, <2>5, NextSteps
  \* Two payments are not signed in one step.
  <1>2. ASSUME NEW p \in Ids, NEW q \in Ids, p # q,
               pc[p] = "signing", pc'[p] \in SignedStates
        PROVE  pc'[q] = pc[q]
    <2>1. ASSUME NEW r \in Ids, Hook(r) PROVE pc'[q] = pc[q]
      <3>1. r = p
        BY <1>0, <1>2, <2>1, HookMovesOwn DEF SignedStates, Left
      <3> QED
        BY <1>0, <1>2, <2>1, <3>1, HookMovesOwn
    <2>2. ASSUME NEW w \in Windows, Reconcile(w) \/ Restart(w) PROVE FALSE
      BY <1>0, <1>2, <2>2, RestartStops DEF Reconcile, SignedStates, Running, Left
    <2>3. CASE Clock \/ UNCHANGED vars
      BY <2>3 DEF Clock, guardVars, vars
    <2> QED
      BY <2>1, <2>2, <2>3, NextSteps
  \* The payment that is signed now, and one that was signed before.
  <1>3. ASSUME NEW p \in Ids, NEW q \in Ids, p # q, KeyOf[p] # None,
               KeyOf[p] = KeyOf[q], pc[p] = "signing", pc[q] \in SignedStates
        PROVE  now >= KeyExpiry(q)
    <2> SUFFICES ASSUME now < KeyExpiry(q) PROVE FALSE
      BY <1>0
    <2>1. now + 1 < KeyExpiry(p)
      BY <1>3, RunningIsEarly DEF Running
    <2>2. Owns(p)
      BY <1>0, <1>3, <2>1 DEF Owns, Owning
    <2>3. Owns(q)
      BY <1>3 DEF Owns, Owning, SignedStates
    <2> QED
      BY <1>3, <2>2, <2>3 DEF KeysOwned
  <1> SUFFICES ASSUME NEW p \in Ids, NEW q \in Ids, p # q, KeyOf[p] # None,
                      KeyOf[p] = KeyOf[q], pc'[p] \in SignedStates,
                      pc'[q] \in SignedStates
               PROVE  SignedAt(p)' >= KeyExpiry(q)' \/ SignedAt(q)' >= KeyExpiry(p)'
    BY DEF SignedApart
  <1>4. KeyExpiry(p)' = KeyExpiry(p) /\ KeyExpiry(q)' = KeyExpiry(q)
    BY <1>1
  <1>5. CASE pc[p] = "signing"
    <2>1. SignedAt(p)' = now
      BY <1>1, <1>5 DEF SignedStates, Left
    <2>2. pc[q] \in SignedStates
      BY <1>2, <1>5
    <2> QED
      BY <1>3, <1>4, <1>5, <2>1, <2>2
  <1>6. CASE pc[q] = "signing"
    <2>1. SignedAt(q)' = now
      BY <1>1, <1>6 DEF SignedStates, Left
    <2>2. pc[p] \in SignedStates
      BY <1>2, <1>6
    <2> QED
      BY <1>3, <1>4, <1>6, <2>1, <2>2
  <1>7. CASE pc[p] # "signing" /\ pc[q] # "signing"
    BY <1>1, <1>4, <1>7 DEF SignedApart
  <1> QED
    BY <1>5, <1>6, <1>7

\* A payload leaves with a hold, and nothing takes the hold from it.
LEMMA NextHoldsPayloads ==
  ASSUME IInv, QueuesServe, HoldPerPayload, [Next]_vars
  PROVE  HoldPerPayload'
  <1> SUFFICES ASSUME NEW p \in Ids, pc'[p] \in Left PROVE HasHold(p)'
    BY DEF HoldPerPayload
  <1>1. CASE pc[p] \in Left
    <2>1. PICK i \in Ids : SignedFor(i, p)
      BY <1>1 DEF HoldPerPayload, HasHold, SignedFor, Live
    <2>2. SignedFor(i, p)'
      BY <2>1, NextRows
    <2> QED
      BY <2>2 DEF HasHold, SignedFor
  <1>2. CASE pc[p] \notin Left
    <2>1. ~AfterUnmatched(p)
      BY ServedFinds DEF AfterUnmatched, Claiming
    <2> QED
      BY <1>2, <2>1, LeavesBy, RecordHolds
  <1> QED
    BY <1>1, <1>2

LEMMA SInvHolds ==
  ASSUME SoundHooks
  PROVE  Spec => []SInv
  <1>1. Init => SInv
    <2> SUFFICES ASSUME Init PROVE SInv
      OBVIOUS
    <2>1. \A p \in Ids : pc[p] = "idle"
      BY DEF Init
    <2>2. FailuresOwn /\ KeysOwned /\ SignedApart /\ HoldPerPayload
      BY <2>1 DEF FailuresOwn, KeysOwned, Owns, Owning, SignedApart, SignedStates,
                  HoldPerPayload, Left
    <2> QED
      BY <2>2, InitHolds, InitServes DEF SInv
  <1>2. SInv /\ [Next]_vars => SInv'
    BY NextHolds, SoundServes, NextFailsOwn, NextKeys, NextSignsApart,
       NextHoldsPayloads DEF SInv
  <1> QED
    BY <1>1, <1>2, PTL DEF Spec

\* Every payload that left has a row of its own that was never released, however
\* the hooks of payments with one signature interleave, while they end in time.
THEOREM PayloadsHoldRows ==
  ASSUME SoundHooks
  PROVE  Spec => []HoldPerPayload
  <1>1. SInv => HoldPerPayload
    BY DEF SInv
  <1> QED
    BY <1>1, SInvHolds, PTL

\* Nor does the failure hook free the key of a sibling.
THEOREM FreedKeysAreOwn ==
  ASSUME SoundHooks
  PROVE  Spec => []FreedKeyIsOwn
  <1>1. SInv => FreedKeyIsOwn
    BY DEF SInv, FailuresOwn, FreedKeyIsOwn
  <1> QED
    BY <1>1, SInvHolds, PTL

\* So no two payloads for one purchase leave while the first could still be the
\* reason to refuse the second.
THEOREM OnePayloadPerPurchase ==
  ASSUME SoundHooks
  PROVE  Spec => []OnePayloadPerKey
  <1>1. SInv => OnePayloadPerKey
    BY DEF SInv, SignedApart, OnePayloadPerKey, SignedStates
  <1> QED
    BY <1>1, SInvHolds, PTL

-----------------------------------------------------------------------------
(* Which hold is charged for which payload.                                *)

\* A row is charged with what the payment that reserved it asks for, and what it
\* was signed for costs the same and dies no later than the row's last instant.
Backs(i, p) ==
  /\ p \in Ids /\ pc[p] \in Left /\ Signature(p) = Signature(i)
  /\ rows[i].status # "reserved"
  /\ validBefore[p] <= rows[i].safe
  /\ rows[i].status = "expired" => now >= rows[i].safe

Charged(i) ==
  /\ rows[i].principal = RequestOf[i].principal
  /\ rows[i].mandate = RequestOf[i].mandate
  /\ rows[i].amount = RequestOf[i].amount
  /\ \A p : rows[i].ref = p /\ p # None => Backs(i, p)

RowsCharged == \A i \in Live(rows) : Charged(i)

\* Rows are added by a reservation only, and references by a signed payload.
LEMMA HookRows ==
  ASSUME IInv, NEW p \in Ids, Hook(p), ~Reserve(p), ~Record(p)
  PROVE  /\ Live(rows') = Live(rows)
         /\ \A i \in Live(rows) : rows'[i].ref = rows[i].ref
  <1>0. rows \in [Ids -> Reservation \cup {None}]
    BY DEF IInv, TypeOK, StoreTypeOK
  <1>1. ASSUME NEW j \in Live(rows), NEW s \in Reservation, s.ref = rows[j].ref,
               rows' = [rows EXCEPT ![j] = s]
        PROVE  /\ Live(rows') = Live(rows)
               /\ \A i \in Live(rows) : rows'[i].ref = rows[i].ref
    BY <1>0, <1>1, NoneIsNoRow DEF Live
  <1>2. ASSUME NEW j \in Ids, Release(j)
        PROVE  /\ Live(rows') = Live(rows)
               /\ \A i \in Live(rows) : rows'[i].ref = rows[i].ref
    <2> DEFINE s == [rows[j] EXCEPT !.status = "released"]
    <2>1. j \in Live(rows) /\ rows[j] \in Reservation /\ rows' = [rows EXCEPT ![j] = s]
      BY <1>0, <1>2 DEF Release, InStatus, Live
    <2>2. s \in Reservation /\ s.ref = rows[j].ref
      BY <2>1, Statuses DEF Reservation
    <2> HIDE DEF s
    <2> QED
      BY <1>1, <2>1, <2>2
  <1>3. CASE DropDuplicate(p) \/ Deny(p)
    BY <1>2, <1>3 DEF DropDuplicate, Deny
  <1>4. CASE ReleaseEntry(p)
    <2>1. held[p].id \in Ids /\ Release(held[p].id)
      BY <1>4 DEF ReleaseEntry, Release, InStatus, Live
    <2> QED
      BY <1>2, <2>1
  <1>5. CASE Close(p)
    <2> DEFINE j == held[p].id
    <2>1. j \in Live(rows) /\ rows[j] \in Reservation /\ now \in Nat
      BY <1>0, <1>5 DEF Close, Settle, LoseTrack, InStatus, Live, IInv, TypeOK, StoreTypeOK
    <2>2. CASE Settle(j, now)
      <3> DEFINE s == [rows[j] EXCEPT !.status = "settled", !.settledAt = now]
      <3>1. rows' = [rows EXCEPT ![j] = s]
        BY <1>0, <2>1, <2>2 DEF Settle, Live
      <3>2. s \in Reservation /\ s.ref = rows[j].ref
        BY <2>1, Statuses DEF Reservation
      <3> HIDE DEF s
      <3> QED
        BY <1>1, <2>1, <3>1, <3>2
    <2>3. CASE LoseTrack(j)
      <3> DEFINE s == [rows[j] EXCEPT !.status = "unknown"]
      <3>1. rows' = [rows EXCEPT ![j] = s]
        BY <1>0, <2>1, <2>3 DEF LoseTrack, Live
      <3>2. s \in Reservation /\ s.ref = rows[j].ref
        BY <2>1, Statuses DEF Reservation
      <3> HIDE DEF s
      <3> QED
        BY <1>1, <2>1, <3>1, <3>2
    <2> QED
      BY <1>5, <2>2, <2>3 DEF Close
  <1>6. CASE ~(DropDuplicate(p) \/ Deny(p) \/ ReleaseEntry(p) \/ Close(p))
    <2>1. rows' = rows
      BY <1>6 DEF Hook, Before, Begin, Refuse, ClaimKey, FindDuplicate, Withdraw, Enqueue,
                  SignPayload, SignerFails, ForeignAbort, After, AfterUnmatched,
                  AfterDiverged, AfterMatched, OnFailure, FailUnmatched, FailMatched,
                  FreeKey, OnResponse, Respond, Fault, storeVars
    <2> QED
      BY <2>1
  <1> QED
    BY <1>3, <1>4, <1>5, <1>6

\* A payload that left stays out, with the expiry it was signed with.
LEMMA LeftStays ==
  ASSUME IInv, [Next]_vars, NEW p \in Ids, pc[p] \in Left
  PROVE  pc'[p] \in Left /\ validBefore'[p] = validBefore[p]
  <1>0. TypeOK
    BY DEF IInv
  <1>1. ASSUME NEW q \in Ids, Hook(q)
        PROVE  pc'[p] \in Left /\ validBefore'[p] = validBefore[p]
    <2>1. CASE p # q
      BY <1>0, <1>1, <2>1, HookMovesOwn
    <2>2. CASE p = q
      <3>1. validBefore'[p] = validBefore[p]
        BY <1>0, <1>1, <2>2, HookMoves DEF Left
      <3> USE <1>0 DEF TypeOK, Goto, Left
      <3>2. ~Before(p) /\ ~After(p)
        BY DEF Before, Begin, Refuse, Reserve, ClaimKey, FindDuplicate, DropDuplicate,
               Deny, Withdraw, Enqueue, After, AfterUnmatched, AfterDiverged,
               AfterMatched, Record
      <3>3. ~SignPayload(p) /\ ~SignerFails(p) /\ ~ForeignAbort(p) /\ ~OnFailure(p)
        BY DEF SignPayload, SignerFails, ForeignAbort, OnFailure, FailUnmatched,
               FailMatched, ReleaseEntry, FreeKey
      <3>4. OnResponse(p) => pc'[p] \in Left
        BY DEF OnResponse, Respond, Close
      <3>5. ASSUME Fault(p) PROVE pc'[p] \in Left
        <4>1. pc[p] \in {"settle", "lose"} /\ pc'[p] = OnFault[pc[p]]
          BY <3>5 DEF Fault, OnFault
        <4> QED
          BY <4>1 DEF OnFault
      <3> QED
        BY <1>1, <2>2, <3>1, <3>2, <3>3, <3>4, <3>5 DEF Hook
    <2> QED
      BY <2>1, <2>2
  <1>2. ASSUME NEW w \in Windows, Reconcile(w) \/ Restart(w)
        PROVE  pc'[p] \in Left /\ validBefore'[p] = validBefore[p]
    BY <1>0, <1>2 DEF Reconcile, Restart, TypeOK, Left, Running
  <1>3. CASE Clock \/ UNCHANGED vars
    BY <1>3 DEF Clock, guardVars, vars
  <1> QED
    BY <1>1, <1>2, <1>3, NextSteps

\* What is charged for a row stays, and so does the payload that it backs.
LEMMA StillCharged ==
  ASSUME IInv, RowsCharged, [Next]_vars, NEW i \in Live(rows),
         rows'[i].ref = rows[i].ref
  PROVE  i \in Live(rows') /\ Charged(i)'
  <1>1. /\ StoreTypeOK /\ now \in Nat /\ now' \in Nat /\ now <= now'
        /\ i \in Live(rows') /\ RowStep(rows[i], rows'[i])
        /\ rows[i] \in Reservation /\ rows[i].safe \in Nat
        /\ rows'[i] \in Reservation /\ rows'[i].safe \in Nat
    BY NextRows
  <1>2. /\ rows'[i].principal = RequestOf[i].principal
        /\ rows'[i].mandate = RequestOf[i].mandate
        /\ rows'[i].amount = RequestOf[i].amount
    BY <1>1 DEF RowsCharged, Charged, RowStep, Keeps
  <1>3. ASSUME NEW p, rows[i].ref = p, p # None
        PROVE  Backs(i, p)'
    <2>1. Backs(i, p)
      BY <1>3 DEF RowsCharged, Charged
    <2>2. pc'[p] \in Left /\ validBefore'[p] = validBefore[p] /\ p \in Ids
      BY <2>1, LeftStays DEF Backs
    <2>3. rows'[i].safe = rows[i].safe /\ rows'[i].status # "reserved"
      BY <1>1, <2>1 DEF Backs, RowStep
    <2>4. ASSUME rows'[i].status = "expired" PROVE now' >= rows'[i].safe
      <3>1. rows[i].status = "expired" \/ now >= rows'[i].safe + rows'[i].window
        BY <1>1, <2>1, <2>4, NextIsStoreNext, ExpiredWaits DEF Backs
      <3>2. rows'[i].window \in Nat
        BY <1>1 DEF Reservation
      <3> QED
        BY <1>1, <2>1, <2>3, <3>1, <3>2 DEF Backs
    <2> QED
      BY <1>1, <2>1, <2>2, <2>3, <2>4 DEF Backs, Signature
  <1> QED
    BY <1>1, <1>2, <1>3 DEF Charged

LEMMA RecordCharges ==
  ASSUME IInv, NEW p \in Ids, Record(p), NEW i, i = held[p].id
  PROVE  /\ Live(rows') = Live(rows)
         /\ \A j \in Live(rows) : j # i => rows'[j].ref = rows[j].ref
         /\ i \in Live(rows) /\ rows'[i].ref = p
         /\ Backs(i, p)'
  <1> DEFINE s == Signed(rows[i], validBefore[p] + Margin, p)
  <1>1. /\ i \in Ids /\ i \in Live(rows) /\ rows[i] \in Reservation
        /\ validBefore[p] + Margin \in Nat /\ p \in Refs
    BY RecordSigns, PaymentFacts
  <1>2. /\ rows' = [rows EXCEPT ![i] = s]
        /\ rows \in [Ids -> Reservation \cup {None}]
        /\ pc'[p] = "sent" /\ validBefore' = validBefore /\ validBefore[p] \in Nat
    BY DEF Record, Sign, IInv, TypeOK, StoreTypeOK, Goto, HooksTimed, SignedStates
  <1>3. s \in Reservation /\ s.status = "signed"
    BY <1>1, SignedType
  <1>4. s.ref = p /\ s.safe = MaxOf(rows[i].safe, validBefore[p] + Margin)
    BY <1>1 DEF Signed, Reservation
  <1>5. validBefore[p] <= s.safe
    BY <1>1, <1>2, <1>4, PaymentFacts DEF MaxOf, Reservation
  <1>6. Signature(i) = Signature(p)
    BY DEF IInv, TakenFresh, Taking, Record
  <1> HIDE DEF s
  <1>7. rows'[i] = s /\ Live(rows') = Live(rows)
    BY <1>1, <1>2, <1>3, NoneIsNoRow DEF Live
  <1>8. \A j \in Live(rows) : j # i => rows'[j].ref = rows[j].ref
    BY <1>2 DEF Live
  <1>9. Backs(i, p)'
    <2>1. rows'[i].status = "signed" /\ pc'[p] \in Left
      BY <1>2, <1>3, <1>7 DEF Left
    <2>2. Signature(p)' = Signature(i)'
      BY <1>6 DEF Signature
    <2>3. validBefore'[p] <= rows'[i].safe
      BY <1>2, <1>5, <1>7
    <2> QED
      BY <2>1, <2>2, <2>3 DEF Backs
  <1> QED
    BY <1>1, <1>4, <1>7, <1>8, <1>9

LEMMA NextCharges == IInv /\ RowsCharged /\ [Next]_vars => RowsCharged'
  <1> SUFFICES ASSUME IInv, RowsCharged, [Next]_vars PROVE RowsCharged'
    OBVIOUS
  <1>1. ASSUME Live(rows') = Live(rows),
               \A i \in Live(rows) : rows'[i].ref = rows[i].ref
        PROVE  RowsCharged'
    <2>1. \A i \in Live(rows) : Charged(i)'
      BY <1>1, StillCharged
    <2> QED
      BY <1>1, <2>1 DEF RowsCharged
  <1>2. ASSUME NEW p \in Ids, Reserve(p) PROVE RowsCharged'
    <2>1. /\ TryReserve(RequestOf[p], read[p]) /\ read[p] \in Readings
          /\ RequestOf[p] \in Request /\ StoreTypeOK
          /\ Live(rows') \subseteq Live(rows) \cup {p}
      BY <1>2, PaymentFacts DEF Reserve, IInv, TypeOK
    <2>2. /\ \A i \in Live(rows) : rows'[i].ref = rows[i].ref
          /\ \A i \in Live(rows') \ Live(rows) :
               i = p /\ rows'[i] = NewRow(RequestOf[p], read[p])
      BY <2>1, ReserveGently DEF Gently
    <2>3. \A i \in Live(rows') \ Live(rows) :
            /\ rows'[i].principal = RequestOf[i].principal
            /\ rows'[i].mandate = RequestOf[i].mandate
            /\ rows'[i].amount = RequestOf[i].amount
            /\ rows'[i].ref = None
      BY <2>2 DEF NewRow
    <2>4. \A i \in Live(rows') \ Live(rows) : Charged(i)'
      BY <2>3 DEF Charged
    <2>5. \A i \in Live(rows) : Charged(i)'
      BY <2>2, StillCharged
    <2> QED
      BY <2>4, <2>5 DEF RowsCharged
  <1>3. ASSUME NEW p \in Ids, Record(p) PROVE RowsCharged'
    <2> PICK j : j = held[p].id
      OBVIOUS
    <2>1. /\ Live(rows') = Live(rows) /\ j \in Live(rows) /\ rows'[j].ref = p
          /\ \A i \in Live(rows) : i # j => rows'[i].ref = rows[i].ref
          /\ Backs(j, p)'
      BY <1>3, RecordCharges
    <2>2. /\ rows'[j].principal = RequestOf[j].principal
          /\ rows'[j].mandate = RequestOf[j].mandate
          /\ rows'[j].amount = RequestOf[j].amount
      BY <2>1, NextRows DEF RowsCharged, Charged, RowStep, Keeps
    <2>3. Charged(j)'
      BY <2>1, <2>2 DEF Charged
    <2>4. \A i \in Live(rows) : i # j => Charged(i)'
      BY <2>1, StillCharged
    <2> QED
      BY <2>1, <2>3, <2>4 DEF RowsCharged
  <1>4. ASSUME NEW p \in Ids, Hook(p) PROVE RowsCharged'
    BY <1>1, <1>2, <1>3, <1>4, HookRows
  <1>5. ASSUME NEW w \in Windows, Reconcile(w) \/ Restart(w) PROVE RowsCharged'
    <2>1. now \in Readings /\ StoreTypeOK
      BY NextRows, ClockBounds DEF Readings
    <2>2. Live(rows') = Live(rows)
      BY <1>5, <2>1, ExpireGently, RecoverSteps DEF Reconcile, Restart
    <2>3. \A i \in Live(rows) : rows'[i].ref = rows[i].ref
      BY <1>5, <2>1, ExpireGently, RecoverSteps DEF Reconcile, Restart, Gently
    <2> QED
      BY <1>1, <2>2, <2>3
  <1>6. CASE Clock \/ UNCHANGED vars
    <2>1. rows' = rows
      BY <1>6 DEF Clock, Tick, vars
    <2> QED
      BY <1>1, <2>1
  <1> QED
    BY <1>4, <1>5, <1>6, NextSteps

\* A payload that may still be redeemed has a pending row of its own, which
\* costs the same.
LEMMA RedeemableIsHeld ==
  ASSUME SInv, RowsCharged, NEW ms, NEW p \in Redeemable(ms)
  PROVE  \E i \in Live(rows) :
           /\ rows[i].ref = p /\ rows[i].status \in Pending
           /\ Signature(p) = Signature(i) /\ Charged(i)
  <1>1. /\ p \in Ids /\ pc[p] \in Left /\ ~IsSettled(p) /\ now < validBefore[p]
    BY DEF Redeemable
  <1>2. PICK i \in Live(rows) :
          rows[i].ref = p /\ rows[i].status \notin {"reserved", "released"}
    BY <1>1 DEF SInv, HoldPerPayload, HasHold
  <1>3. /\ rows[i] \in Reservation /\ rows[i].safe \in Nat /\ now \in Nat
        /\ validBefore[p] \in Nat
    BY <1>1, <1>2 DEF SInv, IInv, TypeOK, StoreTypeOK, HooksTimed, SignedStates, Live,
                      Reservation
  <1>4. p # None
    BY <1>1, NoncesAreRefs
  <1>5. Charged(i) /\ Backs(i, p)
    BY <1>2, <1>4 DEF RowsCharged, Charged
  <1>6. rows[i].status # "settled"
    BY <1>1, <1>2 DEF IsSettled
  <1>7. rows[i].status # "expired"
    BY <1>1, <1>3, <1>5 DEF Backs
  <1>8. rows[i].status \in Pending
    BY <1>2, <1>3, <1>6, <1>7 DEF Reservation, Terminal
  <1> QED
    BY <1>2, <1>5, <1>8 DEF Backs

\* What the hooks of one signature cross costs the same: for mandates that a
\* signature does not mix, the payloads that may be redeemed cost no more than
\* the rows that the store counts for these mandates.
LEMMA RedeemableIsCommitted ==
  ASSUME SInv, RowsCharged, NEW ms, NEW o \in Ids,
         \A p, q \in Ids : Signature(p) = Signature(q) /\ RequestOf[p].mandate \in ms
                             => RequestOf[q].mandate \in ms
  PROVE  Total(RequestOf, Redeemable(ms))
           <= Committed(rows, RequestOf[o].principal, ms, now, MinWindow)
  <1> DEFINE P == RequestOf[o].principal
             R == Redeemable(ms)
             C == Counted(rows, P, ms, now, MinWindow)
             Row(p) == CHOOSE i \in Live(rows) :
                         /\ rows[i].ref = p /\ rows[i].status \in Pending
                         /\ Signature(p) = Signature(i) /\ Charged(i)
             f == [u \in Units(RequestOf, R) |-> <<Row(u[1]), u[2]>>]
  <1>1. ASSUME NEW p \in R
        PROVE  /\ Row(p) \in C /\ rows[Row(p)].ref = p
               /\ rows[Row(p)].amount = RequestOf[p].amount
    <2> DEFINE i == Row(p)
    <2>1. /\ i \in Live(rows) /\ rows[i].ref = p /\ rows[i].status \in Pending
          /\ Signature(p) = Signature(i) /\ Charged(i)
      BY RedeemableIsHeld
    <2> HIDE DEF i
    <2>2. /\ i \in Ids /\ p \in Ids /\ RequestOf[p].mandate \in ms
      BY <2>1 DEF Live, Redeemable
    <2>3. rows[i].amount = RequestOf[p].amount
      BY <2>1 DEF Charged, Signature
    <2>4. rows[i].principal = P
      BY <2>1, <2>2, OnePrincipal DEF Charged
    <2>5. rows[i].mandate \in ms
      BY <2>1, <2>2 DEF Charged
    <2>6. i \in C
      BY <2>1, <2>4, <2>5 DEF Counted, Occupies
    <2> QED
      BY <2>1, <2>3, <2>6 DEF i
  <1> HIDE DEF Row
  <1>2. R \in SUBSET Ids /\ C \in SUBSET Ids
    BY CountedAreIds DEF Redeemable
  <1> HIDE DEF R, C
  <1>3. ASSUME NEW u \in Units(RequestOf, R)
        PROVE  /\ f[u] \in Units(rows, C) /\ u = <<u[1], u[2]>> /\ u[1] \in R
               /\ rows[f[u][1]].ref = u[1] /\ f[u][2] = u[2]
    <2>1. u[1] \in R /\ u[2] \in 1..MaxAmount /\ u[2] <= RequestOf[u[1]].amount
          /\ u = <<u[1], u[2]>>
      BY DEF Units
    <2>2. f[u] = <<Row(u[1]), u[2]>>
      OBVIOUS
    <2> HIDE DEF f
    <2> QED
      BY <1>1, <2>1, <2>2 DEF Units
  <1>4. f \in Injection(Units(RequestOf, R), Units(rows, C))
    <2>1. f \in [Units(RequestOf, R) -> Units(rows, C)]
      BY <1>3
    <2> HIDE DEF f
    <2>2. ASSUME NEW u \in Units(RequestOf, R), NEW v \in Units(RequestOf, R), f[u] = f[v]
          PROVE  u = v
      <3>1. u[1] = v[1] /\ u[2] = v[2]
        BY <1>3, <2>2
      <3>2. u = <<u[1], u[2]>> /\ v = <<v[1], v[2]>>
        BY <1>3
      <3> QED
        BY <3>1, <3>2
    <2> QED
      BY <2>1, <2>2 DEF Injection, IsInjective
  <1>5. IsFiniteSet(Units(rows, C))
    BY <1>2, UnitsFinite
  <1> HIDE DEF f
  <1>6. Total(RequestOf, R) <= Total(rows, C)
    BY <1>4, <1>5, FS_Injection DEF Total
  <1> QED
    BY <1>6 DEF Committed, R, C

LEMMA NothingRedeemable ==
  ASSUME NEW ms, Ids = {}
  PROVE  Total(RequestOf, Redeemable(ms)) = 0
  <1>1. Units(RequestOf, Redeemable(ms)) = {}
    BY DEF Units, Redeemable
  <1> QED
    BY <1>1, FS_EmptySet DEF Total

LEMMA ChargesHold ==
  ASSUME SoundHooks
  PROVE  Spec => [](SInv /\ RowsCharged /\ LimitsHold)
  <1>1. Init => RowsCharged
    BY DEF Init, StoreInit, RowsCharged, Live
  <1>2. SInv /\ RowsCharged /\ [Next]_vars => RowsCharged'
    BY NextCharges DEF SInv
  <1> QED
    BY <1>1, <1>2, SInvHolds, HooksKeepLimits, PTL DEF Spec

\* Crossing the entries of one signature is neutral to the principal's budget:
\* the payloads that left and may still be redeemed never cost more than the
\* aggregate cap, whichever holds the hooks have paired them with.
THEOREM PayloadsKeepAggregateCap ==
  ASSUME SoundHooks
  PROVE  Spec => []PayloadsWithinAggregateCap
  <1>1. SInv /\ RowsCharged /\ LimitsHold => PayloadsWithinAggregateCap
    <2> SUFFICES ASSUME SInv, RowsCharged, LimitsHold
                 PROVE  Total(RequestOf, Redeemable(Mandates)) <= AggregateCap
      BY DEF PayloadsWithinAggregateCap
    <2>1. CASE Ids = {}
      BY <2>1, NothingRedeemable, CapBounds
    <2>2. ASSUME NEW o \in Ids
          PROVE  Total(RequestOf, Redeemable(Mandates)) <= AggregateCap
      <3> DEFINE P == RequestOf[o].principal
      <3>1. P \in Principals /\ \A q \in Ids : RequestOf[q].mandate \in Mandates
        BY RequestsAreRequests DEF Request
      <3>2. Committed(rows, P, Mandates, now, MinWindow) <= AggregateCap
        BY <3>1 DEF LimitsHold
      <3>3. Total(RequestOf, Redeemable(Mandates))
              <= Committed(rows, P, Mandates, now, MinWindow)
        BY <3>1, RedeemableIsCommitted
      <3>4. /\ Total(RequestOf, Redeemable(Mandates)) \in Nat
            /\ Committed(rows, P, Mandates, now, MinWindow) \in Nat
        BY UnitsFinite, CountedAreIds DEF Redeemable, Committed
      <3> HIDE DEF P
      <3> QED
        BY <3>2, <3>3, <3>4, CapBounds
    <2> QED
      BY <2>1, <2>2
  <1> QED
    BY <1>1, ChargesHold, PTL

\* Nor more than the cap of their mandate, as long as payments of one signature
\* are made under one mandate: without that, the run `mandates` refutes it.
THEOREM PayloadsKeepMandateCaps ==
  ASSUME SoundHooks,
         \A p, q \in Ids : Signature(p) = Signature(q)
                              => RequestOf[p].mandate = RequestOf[q].mandate
  PROVE  Spec => []PayloadsWithinMandateCap
  <1>1. SInv /\ RowsCharged /\ LimitsHold => PayloadsWithinMandateCap
    <2> SUFFICES ASSUME SInv, RowsCharged, LimitsHold, NEW m \in Mandates
                 PROVE  Total(RequestOf, Redeemable({m})) <= Cap
      BY DEF PayloadsWithinMandateCap
    <2>1. CASE Ids = {}
      BY <2>1, NothingRedeemable, CapBounds
    <2>2. ASSUME NEW o \in Ids
          PROVE  Total(RequestOf, Redeemable({m})) <= Cap
      <3> DEFINE P == RequestOf[o].principal
      <3>1. P \in Principals
        BY RequestsAreRequests DEF Request
      <3>2. Committed(rows, P, {m}, now, MinWindow) <= Cap
        BY <3>1 DEF LimitsHold
      <3>3. \A p, q \in Ids : Signature(p) = Signature(q) /\ RequestOf[p].mandate \in {m}
                                  => RequestOf[q].mandate \in {m}
        OBVIOUS
      <3>4. Total(RequestOf, Redeemable({m})) <= Committed(rows, P, {m}, now, MinWindow)
        BY <3>3, RedeemableIsCommitted
      <3>5. /\ Total(RequestOf, Redeemable({m})) \in Nat
            /\ Committed(rows, P, {m}, now, MinWindow) \in Nat
        BY UnitsFinite, CountedAreIds DEF Redeemable, Committed
      <3> HIDE DEF P
      <3> QED
        BY <3>2, <3>4, <3>5, CapBounds
    <2> QED
      BY <2>1, <2>2
  <1> QED
    BY <1>1, ChargesHold, PTL
-----------------------------------------------------------------------------
(* What holds a dedup key.                                                 *)

Signable == {"reserved", "signed"}

\* A payment needs its key while its row may still become signed or is, and
\* while its hooks are about to free the key.
Holding(p) ==
  /\ KeyOf[p] # None /\ now < KeyExpiry(p)
  /\ \/ pc[p] \in {"withdraw", "unkey"}
     \/ /\ p \in Live(rows) /\ rows[p].status \in Signable
        /\ pc[p] \notin {"dedup", "duplicate"}

KeysHeld ==
  \A p \in Ids : Holding(p) =>
    /\ dedup[KeyOf[p]] = KeyExpiry(p)
    /\ \A q \in Ids : Holding(q) /\ KeyOf[q] = KeyOf[p] => q = p

\* Whose key is freed has no row that needs it any more.
FreeingOver ==
  \A p \in Ids :
    pc[p] \in {"withdraw", "unkey"} /\ p \in Live(rows) => rows[p].status \notin Signable

\* The hook extends a hold by the latency it tolerates and no more.
HoldsPriced ==
  \A i \in Live(rows) :
    rows[i].status \in Signable => rows[i].safe <= KeyExpiry(i) + MismatchTolerance

\* A hook has taken no entry before its payment is queued.
NothingTaken == \A p \in Ids : pc[p] \in Early => held[p] = None

HInv == KeysHeld /\ FreeingOver /\ HoldsPriced /\ NothingTaken

LEMMA NewRowReserved ==
  ASSUME IInv, [Next]_vars, NEW i \in Live(rows'), i \notin Live(rows)
  PROVE  Reserve(i) /\ rows'[i] = NewRow(RequestOf[i], read[i])
  <1>0. /\ TypeOK /\ StoreTypeOK /\ now \in Nat
        /\ rows \in [Ids -> Reservation \cup {None}]
    BY NextRows DEF IInv, StoreTypeOK
  <1>1. ASSUME NEW p \in Ids, Hook(p)
        PROVE  Reserve(i) /\ rows'[i] = NewRow(RequestOf[i], read[i])
    <2>1. CASE Reserve(p)
      <3>1. /\ TryReserve(RequestOf[p], read[p]) /\ read[p] \in Readings
            /\ RequestOf[p] \in Request /\ Live(rows') \subseteq Live(rows) \cup {p}
        BY <2>1, PaymentFacts DEF Reserve
      <3>2. i = p
        BY <3>1
      <3> QED
        BY <1>0, <2>1, <3>1, <3>2, ReserveGently
    <2>2. CASE Record(p)
      <3>1. held[p].id \in Live(rows) /\ \A j \in Ids : j # held[p].id => rows'[j] = rows[j]
        BY <1>0, <2>2, RecordSigns DEF Record, Sign
      <3> QED
        BY <3>1 DEF Live
    <2>3. CASE ~Reserve(p) /\ ~Record(p)
      BY <1>1, <2>3, HookRows
    <2> QED
      BY <2>1, <2>2, <2>3
  <1>2. ASSUME NEW w \in Windows, Reconcile(w) \/ Restart(w) PROVE FALSE
    <2>1. now \in Readings
      BY <1>0, ClockBounds DEF Readings
    <2> QED
      BY <1>0, <1>2, <2>1, ExpireGently, RecoverSteps DEF Reconcile, Restart
  <1>3. ASSUME Clock \/ UNCHANGED vars PROVE FALSE
    BY <1>3 DEF Clock, Tick, vars
  <1> QED
    BY <1>1, <1>2, <1>3, NextSteps

\* After a restart no row may still become signed.
LEMMA RestartTakesAll ==
  ASSUME IInv, NEW w \in Windows, Restart(w), NEW i \in Live(rows')
  PROVE  rows'[i].status \notin Signable
  <1>0. now \in Nat /\ i \in Ids /\ rows \in [Ids -> Reservation \cup {None}]
    BY DEF IInv, TypeOK, StoreTypeOK, Live
  <1>1. /\ rows[i] \in Reservation
        /\ rows'[i] = SweptRow(UnknownRow(rows[i]), now, w)
    BY <1>0 DEF Restart, RecoverAfterRestart, Live
  <1> DEFINE u == UnknownRow(rows[i])
  <1>2. u \in Reservation
    BY <1>1, UnknownRowKeeps
  <1>3. u.status \notin Signable
    BY <1>1 DEF UnknownRow, Pending, Uncertain, Reservation, Signable
  <1>4. rows'[i].status \in {"expired", u.status}
    BY <1>0, <1>1, <1>2, SweptRowStatus, WindowBounds
  <1> HIDE DEF u
  <1> QED
    BY <1>3, <1>4 DEF Signable

\* A row that may become signed, or is, was reserved by this step, recorded by
\* it, or is the one it was.
LEMMA SignableRows ==
  ASSUME IInv, [Next]_vars, NEW i \in Live(rows'), rows'[i].status \in Signable
  PROVE  \/ Reserve(i) /\ rows'[i] = NewRow(RequestOf[i], read[i])
         \/ /\ i \in Live(rows) /\ rows[i].status \in Signable
            /\ \/ rows'[i].safe = rows[i].safe
               \/ \E p \in Ids : Record(p) /\ held[p].id = i
  <1>1. CASE i \notin Live(rows)
    BY <1>1, NewRowReserved
  <1>2. ASSUME i \in Live(rows), rows'[i].status = "reserved"
        PROVE  rows[i].status \in Signable /\ rows'[i].safe = rows[i].safe
    BY <1>2, NextRows DEF RowStep, Signable
  <1>3. ASSUME i \in Live(rows), rows'[i].status = "signed",
               NEW p \in Ids, Record(p), held[p].id = i
        PROVE  rows[i].status \in Signable
    BY <1>3 DEF Record, Sign, InStatus, Signable
  <1>4. ASSUME rows'[i].status = "signed", ~\E p \in Ids : Record(p) /\ held[p].id = i
        PROVE  /\ i \in Live(rows) /\ rows[i].status \in Signable
               /\ rows'[i].safe = rows[i].safe
    <2>1. i \in Live(rows) /\ rows[i].status = "signed"
      BY <1>4, SignedByRecord
    <2> QED
      BY <2>1, NextRows DEF RowStep, Signable
  <1> QED
    BY <1>1, <1>2, <1>3, <1>4 DEF Signable

LEMMA NextHoldsPriced ==
  ASSUME IInv, HoldsPriced, [Next]_vars
  PROVE  HoldsPriced'
  <1> SUFFICES ASSUME NEW i \in Live(rows'), rows'[i].status \in Signable
               PROVE  rows'[i].safe <= KeyExpiry(i)' + MismatchTolerance
    BY DEF HoldsPriced, KeyExpiry, Live
  <1>0. /\ TypeOK /\ RowsPriced /\ i \in Ids /\ KeyExpiry(i) \in Nat /\ read[i] \in Nat
        /\ RequestOf[i].validity \in Nat
    BY PaymentFacts DEF IInv, TypeOK, KeyExpiry, Live
  <1>1. ASSUME Reserve(i), rows'[i] = NewRow(RequestOf[i], read[i])
        PROVE  rows'[i].safe <= KeyExpiry(i)' + MismatchTolerance
    <2>1. KeyExpiry(i)' = KeyExpiry(i) /\ rows'[i].safe = KeyExpiry(i)
      BY <1>0, <1>1 DEF Reserve, KeyExpiry, NewRow
    <2> QED
      BY <1>0, <2>1 DEF MismatchTolerance
  <1>2. ASSUME i \in Live(rows) PROVE KeyExpiry(i)' = KeyExpiry(i)
    <2>1. pc[i] # "idle"
      BY <1>0, <1>2 DEF RowsPriced
    <2>2. \A q \in Ids : Hook(q) => read'[i] = read[i]
      BY <1>0, <2>1, HookMovesOwn, HookMoves
    <2>3. read'[i] = read[i]
      BY <1>0, <2>2, NextSteps DEF Reconcile, Restart, Clock, vars, guardVars
    <2> QED
      BY <2>3 DEF KeyExpiry
  <1>3. ASSUME i \in Live(rows), NEW p \in Ids, Record(p), held[p].id = i,
               rows[i].status \in Signable
        PROVE  rows'[i].safe <= KeyExpiry(i) + MismatchTolerance
    <2>1. /\ rows[i] \in Reservation /\ rows[i].safe \in Nat
          /\ validBefore[p] + Margin \in Nat /\ rows \in [Ids -> Reservation \cup {None}]
      BY <1>3, RecordSigns, NextRows DEF IInv, TypeOK, StoreTypeOK
    <2>2. rows'[i] = Signed(rows[i], validBefore[p] + Margin, p)
      BY <1>0, <1>3, <2>1 DEF Record, Sign
    <2>3. rows'[i].safe = MaxOf(rows[i].safe, validBefore[p] + Margin)
      BY <2>1, <2>2 DEF Signed, Reservation
    <2>4. ~Diverged(p, held[p]) /\ validBefore[p] \in Nat
      BY <1>3 DEF IInv, TakenFresh, HooksTimed, Taking, SignedStates, Record
    <2>5. validBefore[p] + Margin <= KeyExpiry(i) + MismatchTolerance
      <3>1. validBefore[p] <= read[i] + Horizon(i) + MismatchTolerance
        BY <1>0, <1>3, <2>4, PaymentFacts DEF Diverged, MismatchTolerance
      <3> QED
        BY <1>0, <2>4, <3>1, PaymentFacts DEF KeyExpiry, MismatchTolerance
    <2>6. rows[i].safe <= KeyExpiry(i) + MismatchTolerance
      BY <1>3 DEF HoldsPriced
    <2> QED
      BY <2>3, <2>5, <2>6 DEF MaxOf
  <1>4. ASSUME i \in Live(rows), rows[i].status \in Signable, rows'[i].safe = rows[i].safe
        PROVE  rows'[i].safe <= KeyExpiry(i) + MismatchTolerance
    BY <1>4 DEF HoldsPriced
  <1> QED
    BY <1>1, <1>2, <1>3, <1>4, SignableRows

\* How the hooks come to free a key: with the row of their own payment, which
\* was reserved until then.
LEMMA FreeingBegins ==
  ASSUME SInv, NEW p \in Ids, [Next]_vars,
         pc'[p] \in {"withdraw", "unkey"}, pc[p] \notin {"withdraw", "unkey"}
  PROVE  /\ p \in Live(rows) /\ rows[p].status = "reserved"
         /\ rows'[p].status = "released"
         /\ pc[p] \in {"allowed", "release"}
  <1>0. TypeOK /\ rows \in [Ids -> Reservation \cup {None}]
    BY DEF SInv, IInv, TypeOK, StoreTypeOK
  <1>1. ASSUME Release(p)
        PROVE  /\ p \in Live(rows) /\ rows[p].status = "reserved"
               /\ rows'[p].status = "released"
    <2>1. p \in Live(rows) /\ rows[p].status = "reserved" /\ rows[p] \in Reservation
      BY <1>0, <1>1 DEF Release, InStatus, Live
    <2>2. rows'[p] = [rows[p] EXCEPT !.status = "released"]
      BY <1>0, <1>1 DEF Release
    <2> QED
      BY <2>1, <2>2 DEF Reservation
  <1>2. ASSUME NEW q \in Ids, Hook(q)
        PROVE  Release(p) /\ pc[p] \in {"allowed", "release"}
    <2>1. q = p
      BY <1>0, <1>2, HookMovesOwn
    <2>2. CASE Before(p)
      BY <1>0, <2>2 DEF Before, Begin, Refuse, Reserve, ClaimKey, FindDuplicate,
                        DropDuplicate, Deny, Withdraw, Enqueue, Goto, TypeOK
    <2>3. CASE SignPayload(p) \/ SignerFails(p) \/ ForeignAbort(p)
      BY <1>0, <2>3 DEF SignPayload, SignerFails, ForeignAbort, Goto, TypeOK
    <2>4. CASE After(p)
      BY <1>0, <2>4 DEF After, AfterUnmatched, AfterDiverged, AfterMatched, Record, Goto, TypeOK
    <2>5. CASE OnFailure(p)
      <3>1. ReleaseEntry(p) /\ FreesKey(held[p])
        BY <1>0, <2>5 DEF OnFailure, FailUnmatched, FailMatched, ReleaseEntry, FreeKey,
                          Goto, TypeOK
      <3>2. held[p].id = p
        BY <3>1 DEF SInv, FailuresOwn, ReleaseEntry, FreesKey
      <3> QED
        BY <3>1, <3>2 DEF ReleaseEntry
    <2>6. CASE OnResponse(p)
      BY <1>0, <2>6 DEF OnResponse, Respond, Close, Goto, TypeOK
    <2>7. CASE Fault(p)
      <3>1. OnFault[pc[p]] \in {"aborted", "failing", "failed", "done"}
        BY <2>7 DEF Fault, OnFault
      <3> QED
        BY <1>0, <2>7, <3>1 DEF Fault, Goto, TypeOK
    <2> QED
      BY <1>2, <2>1, <2>2, <2>3, <2>4, <2>5, <2>6, <2>7 DEF Hook
  <1>3. ASSUME NEW w \in Windows, Restart(w) PROVE FALSE
    BY <1>0, <1>3, RestartStops DEF Running
  <1>4. ASSUME (\E w \in Windows : Reconcile(w)) \/ Clock \/ UNCHANGED vars PROVE FALSE
    BY <1>4 DEF Reconcile, Clock, vars, guardVars
  <1> QED
    BY <1>1, <1>2, <1>3, <1>4, NextSteps

LEMMA NextFreeingOver ==
  ASSUME SInv, FreeingOver, [Next]_vars
  PROVE  FreeingOver'
  <1> SUFFICES ASSUME NEW p \in Ids, pc'[p] \in {"withdraw", "unkey"}, p \in Live(rows'),
                      rows'[p].status \in Signable
               PROVE  FALSE
    BY DEF FreeingOver
  <1>1. pc[p] \in {"withdraw", "unkey"}
    BY FreeingBegins DEF Signable
  <1>2. ~Reserve(p)
    BY <1>1 DEF Reserve
  <1> QED
    BY <1>1, <1>2, SignableRows DEF FreeingOver, SInv

LEMMA NextNothingTaken ==
  ASSUME TypeOK, NothingTaken, [Next]_vars
  PROVE  NothingTaken'
  <1> SUFFICES ASSUME NEW p \in Ids, pc'[p] \in Early PROVE held'[p] = None
    BY DEF NothingTaken
  <1>1. ASSUME NEW q \in Ids, Hook(q) PROVE held'[p] = None
    <2>1. CASE q # p
      BY <1>1, <2>1, HookMovesOwn DEF NothingTaken
    <2>2. CASE q = p
      <3>1. pc[p] \in Early
        BY <1>1, <2>2, HookMoves
      <3>2. Before(p)
        <4>1. CASE Fault(p)
          <5>1. OnFault[pc[p]] \in {"aborted", "failing", "failed", "done"}
            BY <4>1 DEF Fault, OnFault
          <5> QED
            BY <4>1, <5>1 DEF Fault, Goto, TypeOK, Early
        <4> QED
          BY <1>1, <2>2, <3>1, <4>1
             DEF Hook, SignPayload, SignerFails, ForeignAbort, After, AfterUnmatched,
                 AfterDiverged, AfterMatched, Record, OnFailure, FailUnmatched,
                 FailMatched, ReleaseEntry, FreeKey, OnResponse, Respond, Close, Early
      <3>3. held' = held
        BY <3>2 DEF Before, Begin, Refuse, Reserve, ClaimKey, FindDuplicate,
                    DropDuplicate, Deny, Withdraw, Enqueue, hookVars
      <3> QED
        BY <3>1, <3>3 DEF NothingTaken
    <2> QED
      BY <2>1, <2>2
  <1>2. ASSUME NEW w \in Windows, Restart(w) PROVE held'[p] = None
    BY <1>2 DEF Restart
  <1>3. ASSUME (\E w \in Windows : Reconcile(w)) \/ Clock \/ UNCHANGED vars
        PROVE  held'[p] = None
    BY <1>3 DEF NothingTaken, Reconcile, Clock, vars, guardVars
  <1> QED
    BY <1>1, <1>2, <1>3, NextSteps

\* A payment that found a duplicate gives its row back and nothing else.
LEMMA DuplicatesEnd ==
  ASSUME SInv, NothingTaken, SoundHooks, NEW p \in Ids, [Next]_vars, ~ClaimKey(p),
         pc[p] \in {"dedup", "duplicate"}, p \in Live(rows')
  PROVE  pc'[p] \in {"dedup", "duplicate"} \/ rows'[p].status \notin Signable
  <1>0. /\ IInv /\ TypeOK /\ rows \in [Ids -> Reservation \cup {None}]
    BY DEF SInv, IInv, TypeOK, StoreTypeOK
  <1>1. ASSUME NEW q \in Ids, Hook(q), q # p PROVE pc'[p] = pc[p]
    BY <1>0, <1>1, HookMovesOwn
  <1>2. ASSUME FindDuplicate(p) PROVE pc'[p] = "duplicate"
    BY <1>0, <1>2 DEF FindDuplicate, Goto, TypeOK
  <1>3. ASSUME DropDuplicate(p) PROVE rows'[p].status = "released"
    <2>1. p \in Live(rows) /\ rows[p] \in Reservation
      BY <1>0, <1>3 DEF DropDuplicate, Release, InStatus, Live
    <2>2. rows'[p] = [rows[p] EXCEPT !.status = "released"]
      BY <1>0, <1>3 DEF DropDuplicate, Release
    <2> QED
      BY <2>1, <2>2 DEF Reservation
  <1>4. ASSUME Fault(p) PROVE rows'[p].status \notin Signable
    <2>1. rows' = rows
      BY <1>4 DEF Fault, storeVars
    <2>2. pc[p] = "duplicate" /\ ~InStatus(p, "reserved")
      BY <1>4 DEF Fault, Expects, HeldRow, SoundHooks, NothingTaken, Early
    <2>3. rows[p].status # "reserved"
      BY <2>1, <2>2 DEF InStatus
    <2>4. Unsigned(p)
      BY <1>0, <2>2 DEF IInv, PaymentsFresh, Fresh
    <2> QED
      BY <2>1, <2>3, <2>4 DEF Unsigned, Signable
  <1>5. ASSUME Hook(p) PROVE FindDuplicate(p) \/ DropDuplicate(p) \/ Fault(p)
    BY <1>5 DEF Hook, Before, Begin, Refuse, Reserve, Deny, Withdraw, Enqueue,
                SignPayload, SignerFails, ForeignAbort, After, AfterUnmatched,
                AfterDiverged, AfterMatched, Record, OnFailure, FailUnmatched,
                FailMatched, ReleaseEntry, FreeKey, OnResponse, Respond, Close
  <1>6. ASSUME NEW w \in Windows, Restart(w) PROVE rows'[p].status \notin Signable
    BY <1>0, <1>6, RestartTakesAll
  <1>7. ASSUME (\E w \in Windows : Reconcile(w)) \/ Clock \/ UNCHANGED vars
        PROVE  pc'[p] = pc[p]
    BY <1>7 DEF Reconcile, Clock, vars, guardVars
  <1> QED
    BY <1>1, <1>2, <1>3, <1>4, <1>5, <1>6, <1>7, NextSteps DEF Signable

\* No hook takes a key that such a payment still needs.
LEMMA NextKeysHeld ==
  ASSUME SInv, HInv, SoundHooks, [Next]_vars
  PROVE  KeysHeld'
  <1>0. /\ IInv /\ TypeOK /\ FailuresOwn /\ KeysHeld /\ FreeingOver /\ NothingTaken
        /\ now \in Nat /\ now' \in Nat /\ now <= now'
        /\ \A p \in Ids : KeyExpiry(p) \in Nat
        /\ \A p \in Ids : KeyOf[p] # None => KeyOf[p] \in Keys
    BY PaymentFacts, KeysAreKeys, NextRows DEF SInv, HInv, IInv, TypeOK, StoreTypeOK, KeyExpiry
  \* A payment comes to hold a key by claiming it only.
  <1>1. ASSUME NEW p \in Ids, Holding(p)', ~ClaimKey(p)
        PROVE  Holding(p) /\ KeyExpiry(p)' = KeyExpiry(p)
    <2>1. CASE pc'[p] \in {"withdraw", "unkey"}
      <3>1. \/ pc[p] \in {"withdraw", "unkey"}
            \/ /\ p \in Live(rows) /\ rows[p].status \in Signable
               /\ pc[p] \notin {"dedup", "duplicate"}
        BY <2>1, FreeingBegins DEF Signable
      <3>2. pc[p] # "idle"
        BY <1>0, <3>1 DEF IInv, RowsPriced
      <3>3. KeyExpiry(p)' = KeyExpiry(p)
        <4>1. \A q \in Ids : Hook(q) => read'[p] = read[p]
          BY <1>0, <3>2, HookMovesOwn, HookMoves
        <4> QED
          BY <4>1, NextSteps DEF Reconcile, Restart, Clock, vars, guardVars, KeyExpiry
      <3> QED
        BY <1>0, <1>1, <3>1, <3>3 DEF Holding
    <2>2. CASE pc'[p] \notin {"withdraw", "unkey"}
      <3>1. /\ p \in Live(rows') /\ rows'[p].status \in Signable
            /\ pc'[p] \notin {"dedup", "duplicate"} /\ KeyOf[p] # None
        BY <1>1, <2>2 DEF Holding
      <3>2. ~Reserve(p)
        BY <1>0, <3>1 DEF Reserve, Goto, TypeOK
      <3>3. p \in Live(rows) /\ rows[p].status \in Signable
        BY <1>0, <3>1, <3>2, SignableRows
      <3>4. pc[p] # "idle"
        BY <1>0, <3>3 DEF IInv, RowsPriced
      <3>5. KeyExpiry(p)' = KeyExpiry(p)
        <4>1. \A q \in Ids : Hook(q) => read'[p] = read[p]
          BY <1>0, <3>4, HookMovesOwn, HookMoves
        <4> QED
          BY <4>1, NextSteps DEF Reconcile, Restart, Clock, vars, guardVars, KeyExpiry
      <3>6. pc[p] \notin {"dedup", "duplicate"}
        BY <1>0, <1>1, <3>1, DuplicatesEnd
      <3> QED
        BY <1>0, <1>1, <3>1, <3>3, <3>5, <3>6 DEF Holding
    <2> QED
      BY <2>1, <2>2
  <1>2. ASSUME \A p \in Ids : Holding(p)' => /\ Holding(p) /\ KeyExpiry(p)' = KeyExpiry(p)
                                             /\ dedup'[KeyOf[p]] = dedup[KeyOf[p]]
        PROVE  KeysHeld'
    <2>1. ASSUME NEW p \in Ids, Holding(p)'
          PROVE  /\ dedup'[KeyOf[p]] = KeyExpiry(p)'
                 /\ \A q \in Ids : Holding(q)' /\ KeyOf[q] = KeyOf[p] => q = p
      <3>1. /\ Holding(p) /\ KeyExpiry(p)' = KeyExpiry(p)
            /\ dedup'[KeyOf[p]] = dedup[KeyOf[p]]
        BY <1>2, <2>1
      <3>2. \A q \in Ids : Holding(q)' => Holding(q)
        BY <1>2
      <3> QED
        BY <1>0, <3>1, <3>2 DEF KeysHeld
    <2> QED
      BY <2>1 DEF KeysHeld
  <1>3. ASSUME NEW q \in Ids, ClaimKey(q) PROVE KeysHeld'
    <2>1. /\ ~KeyTaken(q) /\ dedup' = [dedup EXCEPT ![KeyOf[q]] = KeyExpiry(q)]
          /\ pc[q] = "dedup" /\ read' = read
      BY <1>3 DEF ClaimKey
    <2>2. ASSUME NEW p \in Ids \ {q}, Holding(p)'
          PROVE  /\ Holding(p) /\ KeyExpiry(p)' = KeyExpiry(p) /\ KeyOf[p] # KeyOf[q]
                 /\ dedup'[KeyOf[p]] = dedup[KeyOf[p]]
      <3>1. ~ClaimKey(p)
        <4>1. pc'[p] = pc[p] /\ \A x : ClaimKey(p) => pc'[p] # pc[p]
          BY <1>0, <1>3, <2>2 DEF ClaimKey, Goto, TypeOK
        <4> QED
          BY <4>1
      <3>2. Holding(p) /\ KeyExpiry(p)' = KeyExpiry(p)
        BY <1>1, <2>2, <3>1
      <3>3. KeyOf[p] # KeyOf[q]
        <4> SUFFICES ASSUME KeyOf[p] = KeyOf[q] PROVE FALSE
          OBVIOUS
        <4>1. dedup[KeyOf[q]] = KeyExpiry(p) /\ now < KeyExpiry(p)
          BY <1>0, <3>2 DEF KeysHeld, Holding
        <4>2. read[q] <= now /\ read[q] \in Nat
          BY <1>0 DEF IInv, HooksTimed, TypeOK
        <4>3. KeyExpiry(p) > read[q] /\ KeyExpiry(p) # None
          BY <1>0, <4>1, <4>2, NoneIsNoInstant
        <4> QED
          BY <2>1, <4>1, <4>3 DEF KeyTaken
      <3>4. dedup'[KeyOf[p]] = dedup[KeyOf[p]]
        BY <1>0, <2>1, <3>2, <3>3 DEF Holding, TypeOK
      <3> QED
        BY <3>2, <3>3, <3>4
    <2>3. ASSUME NEW p \in Ids, Holding(p)'
          PROVE  /\ dedup'[KeyOf[p]] = KeyExpiry(p)'
                 /\ \A r \in Ids : Holding(r)' /\ KeyOf[r] = KeyOf[p] => r = p
      <3>1. CASE p = q
        <4>1. KeyOf[q] \in Keys /\ KeyExpiry(q)' = KeyExpiry(q)
          BY <1>0, <2>1, <2>3, <3>1 DEF Holding, KeyExpiry
        <4>2. dedup'[KeyOf[q]] = KeyExpiry(q)'
          BY <1>0, <2>1, <4>1 DEF TypeOK
        <4> QED
          BY <2>2, <3>1, <4>2
      <3>2. CASE p # q
        <4>1. /\ Holding(p) /\ KeyExpiry(p)' = KeyExpiry(p) /\ KeyOf[p] # KeyOf[q]
              /\ dedup'[KeyOf[p]] = dedup[KeyOf[p]]
          BY <2>2, <2>3, <3>2
        <4>2. \A r \in Ids : Holding(r)' /\ KeyOf[r] = KeyOf[p] => Holding(r)
          BY <2>2, <4>1
        <4> QED
          BY <1>0, <4>1, <4>2 DEF KeysHeld
      <3> QED
        BY <3>1, <3>2
    <2> QED
      BY <2>3 DEF KeysHeld
  <1>4. ASSUME NEW q \in Ids, Withdraw(q) \/ FreeKey(q) PROVE KeysHeld'
    <2>1. /\ dedup' = [dedup EXCEPT ![KeyOf[q]] = None] /\ rows' = rows
          /\ pc[q] \in {"withdraw", "unkey"} /\ pc'[q] \notin {"withdraw", "unkey"}
          /\ \A p \in Ids : ~ClaimKey(p)
      <3>1. /\ dedup' = [dedup EXCEPT ![KeyOf[q]] = None] /\ rows' = rows
            /\ pc[q] \in {"withdraw", "unkey"} /\ pc'[q] \in {"aborted", "failed"}
            /\ \A p \in Ids \ {q} : pc'[p] = pc[p]
        BY <1>0, <1>4 DEF Withdraw, FreeKey, FailuresOwn, Goto, TypeOK, storeVars
      <3>2. \A p \in Ids : ~ClaimKey(p)
        BY <1>0, <3>1 DEF ClaimKey, Goto, TypeOK
      <3> QED
        BY <3>1, <3>2
    <2>2. now < KeyExpiry(q)
      <3>1. now + MismatchTolerance < KeyExpiry(q)
        BY <1>0, <2>1, RunningIsEarly DEF Running
      <3> QED
        BY <1>0, <3>1 DEF MismatchTolerance
    <2>3. KeyOf[q] # None => Holding(q)
      BY <2>1, <2>2 DEF Holding
    <2>4. ASSUME NEW p \in Ids, Holding(p)'
          PROVE  /\ Holding(p) /\ KeyExpiry(p)' = KeyExpiry(p)
                 /\ dedup'[KeyOf[p]] = dedup[KeyOf[p]]
      <3>1. Holding(p) /\ KeyExpiry(p)' = KeyExpiry(p)
        BY <1>1, <2>1, <2>4
      <3>2. p # q
        BY <1>0, <2>1, <2>4 DEF Holding, FreeingOver, Live
      <3>3. KeyOf[p] # KeyOf[q]
        BY <1>0, <2>3, <3>1, <3>2 DEF KeysHeld, Holding
      <3> QED
        BY <1>0, <2>1, <3>1, <3>3 DEF Holding, TypeOK
    <2> QED
      BY <1>2, <2>4
  <1>5. ASSUME dedup' = dedup, \A q \in Ids : ~ClaimKey(q) PROVE KeysHeld'
    BY <1>1, <1>2, <1>5
  <1>6. ASSUME NEW q \in Ids, Hook(q) PROVE KeysHeld'
    <2>1. \A p \in Ids \ {q} : pc'[p] = pc[p]
      BY <1>0, <1>6, HookMovesOwn
    <2>2. \A p \in Ids \ {q} : ~ClaimKey(p)
      BY <1>0, <2>1 DEF ClaimKey, Goto, TypeOK
    <2> QED
      BY <1>0, <1>3, <1>4, <1>5, <1>6, <2>2, HookKeys
  <1>7. ASSUME (\E w \in Windows : Reconcile(w) \/ Restart(w)) \/ Clock \/ UNCHANGED vars
        PROVE  KeysHeld'
    <2>1. dedup' = dedup
      BY <1>7 DEF Reconcile, Restart, Clock, vars, guardVars
    <2>2. \A q \in Ids : ~ClaimKey(q)
      <3>1. ASSUME NEW q \in Ids, pc'[q] = "allowed" PROVE pc[q] = "allowed"
        <4>1. \A w \in Windows : ~Restart(w)
          BY <1>0, <3>1, RestartStops DEF Running
        <4> QED
          BY <1>7, <3>1, <4>1 DEF Reconcile, Clock, vars, guardVars
      <3>2. ASSUME NEW q \in Ids, ClaimKey(q) PROVE FALSE
        <4>1. pc[q] = "dedup" /\ pc'[q] = "allowed"
          BY <1>0, <3>2 DEF ClaimKey, Goto, TypeOK
        <4> QED
          BY <3>1, <4>1
      <3> QED
        BY <3>2
    <2> QED
      BY <1>5, <2>1, <2>2
  <1> QED
    BY <1>6, <1>7, NextSteps

\* A signed payment's key blocks for as long as its hold, but for the second of
\* latency by which the hold may be extended.
THEOREM KeysCoverHolds ==
  ASSUME SoundHooks
  PROVE  Spec => []KeyCoversHold
  <1>1. Init => HInv
    BY DEF Init, StoreInit, HInv, KeysHeld, Holding, FreeingOver, HoldsPriced,
           NothingTaken, Live
  <1>2. SInv /\ HInv /\ [Next]_vars => HInv'
    <2> SUFFICES ASSUME SInv, HInv, [Next]_vars PROVE HInv'
      OBVIOUS
    <2>1. IInv /\ TypeOK
      BY DEF SInv, IInv
    <2> QED
      BY <2>1, NextKeysHeld, NextFreeingOver, NextHoldsPriced, NextNothingTaken DEF HInv
  <1>3. SInv /\ HInv => KeyCoversHold
    <2> SUFFICES ASSUME SInv, HInv, NEW p \in Live(rows), rows[p].status = "signed",
                        KeyOf[p] # None, now < rows[p].safe - MismatchTolerance
                 PROVE  /\ dedup[KeyOf[p]] # None
                        /\ dedup[KeyOf[p]] >= rows[p].safe - MismatchTolerance
      BY DEF KeyCoversHold
    <2>1. /\ IInv /\ p \in Ids /\ now \in Nat /\ rows[p].safe \in Nat
          /\ KeyExpiry(p) \in Nat
      <3>1. IInv /\ TypeOK /\ p \in Ids
        BY DEF SInv, IInv, Live
      <3>2. rows[p] \in Reservation /\ now \in Nat
        BY <3>1 DEF TypeOK, StoreTypeOK, Live
      <3>3. KeyExpiry(p) \in Nat
        BY <3>1, PaymentFacts DEF TypeOK, KeyExpiry
      <3> QED
        BY <3>1, <3>2, <3>3 DEF Reservation
    <2>2. rows[p].safe <= KeyExpiry(p) + MismatchTolerance
      BY DEF HInv, HoldsPriced, Signable
    <2>3. pc[p] \notin {"dedup", "duplicate"}
      BY <2>1 DEF IInv, PaymentsFresh, Fresh, Unsigned
    <2>4. Holding(p)
      BY <2>1, <2>2, <2>3 DEF Holding, Signable, MismatchTolerance
    <2>5. dedup[KeyOf[p]] = KeyExpiry(p)
      BY <2>1, <2>4 DEF HInv, KeysHeld
    <2> QED
      BY <2>1, <2>2, <2>5, NoneIsNoInstant DEF MismatchTolerance
  <1> QED
    BY <1>1, <1>2, <1>3, SInvHolds, PTL DEF Spec

=============================================================================
