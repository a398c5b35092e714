-------------------------- MODULE PaymentProxy_proofs --------------------------
(***************************************************************************)
(* Proofs about PaymentProxy, for every value of its constants: any number *)
(* of processes over one database, of requests, offers and configurations. *)
(* The processes use the store as StoreSpec allows, a payload that left is *)
(* held for as long as it counts, and an intent is not paid twice.         *)
(***************************************************************************)
EXTENDS PaymentProxy, ReservationStore_proofs

-----------------------------------------------------------------------------
(* The inductive invariant.                                                *)

\* Where no payload can have left yet, and where a decision is being made.
Unpaid == {"idle", "fetching", "claiming", "allowed", "freeing"}

Deciding == {"claiming", "allowed"}

\* Every request has this key, whatever is offered to it.
IntentKey(p) == <<"intent", IntentOf[p], "usdc">>

\* A request that is answered by a process is one of that process.
RequestsHosted ==
  \A p \in Ids : request[p].phase \in Open \cup {"answered"} => On(p) \in Procs

\* A row is named after the request that reserved it, for the one wallet.
RowsOfWallet ==
  \A i \in Live(rows) :
    rows[i].principal = Agent /\ request[i].phase \notin {"idle", "fetching"}

\* What the operator allows of a payment.
AsConfigured(r, k) ==
  /\ k.pin # None => r.payee = k.pin.payTo /\ r.amount <= k.pin.maxAmount
  /\ k.maxPayment # None => r.amount <= k.maxPayment

\* The lifetimes that a payment may be priced for.
Priced(h, k) == h = k.ceiling \/ h <= Least(k.ceiling, k.window)

\* A decision has a row, priced for as long as the key will be claimed; and the
\* sweep of its reservation left nothing reserved that was due by then.
DecisionsPriced ==
  \A p \in Ids : request[p].phase \in Deciding =>
    /\ p \in Live(rows)
    /\ AsConfigured(rows[p], ConfigOf[On(p)])
    /\ Priced(request[p].horizon, ConfigOf[On(p)])
    /\ request[p].read <= now
    /\ rows[p].safe >= KeyExpiry(p)
    /\ rows[p].status = "reserved" => rows[p].safe = KeyExpiry(p)
    /\ \A i \in Live(rows) :
         rows[i].status = "reserved" => rows[i].safe > request[p].read

\* A key that is claimed or removed is that of the intent.
Keyed == Deciding \cup {"freeing"}

KeysOfIntent == \A p \in Ids : request[p].phase \in Keyed => Key(p) = IntentKey(p)

\* The row of a payload that left.
PayloadsHeld ==
  \A p \in Ids : request[p].validBefore # None =>
    /\ request[p].phase \notin Unpaid
    /\ p \in Live(rows) /\ rows[p].ref = p
    /\ rows[p].status \notin {"reserved", "released"}
    /\ rows[p].safe >= request[p].validBefore + Margin
    /\ rows[p].status = "expired" => now >= rows[p].safe + rows[p].window

\* A request that may still pay, and a payload that may still be redeemed.
MayPay(p) == request[p].phase = "allowed" /\ rows[p].status = "reserved"

Redeemable(p) == request[p].validBefore # None /\ now < request[p].validBefore

\* A request whose key is still to be removed counts: whoever claimed the key in
\* the meantime would lose it.
Freeing(p) == request[p].phase = "freeing"

Counts(p) == MayPay(p) \/ Redeemable(p) \/ Freeing(p)

\* What holds however late keys are removed.
IInv ==
  /\ TypeOK /\ RequestsHosted /\ RowsOfWallet
  /\ DecisionsPriced /\ KeysOfIntent /\ PayloadsHeld

\* The key of an intent is claimed for as long as a payment of it counts.
KeysClaimed ==
  \A p \in Ids :
    /\ MayPay(p) => dedup[IntentKey(p)] = KeyExpiry(p)
    /\ Redeemable(p) => /\ dedup[IntentKey(p)] # None
                        /\ dedup[IntentKey(p)] >= request[p].validBefore

OneCounts ==
  \A p, q \in Ids :
    IntentOf[p] = IntentOf[q] /\ Counts(p) /\ Counts(q) => p = q

\* What holds if keys are removed in time.
TimelyInv == IInv /\ KeysClaimed /\ OneCounts

-----------------------------------------------------------------------------
(* What the pure decision guarantees.                                      *)

LEMMA ConfigFacts ==
  ASSUME NEW c \in Procs
  PROVE  LET k == ConfigOf[c] IN
         /\ k \in Configs /\ k.window \in Windows /\ k.window \in Nat
         /\ k.ceiling \in Nat
         /\ k.pin # None => k.pin.payTo # None /\ k.pin.maxAmount # None
         /\ \A h \in 0..k.ceiling : h + Margin \in Validities
  <1>1. ConfigOf[c] \in Configs
    BY ConfigsAreConfigs
  <1> QED
    BY <1>1, ConfigBounds, WindowBounds

\* A payable offer makes a request of the store, within what the operator set.
LEMMA PayableFits ==
  ASSUME NEW p \in Ids, On(p) \in Procs, NEW o \in Offers, ~Blocks(p, o)
  PROVE  /\ StoreRequest(p, o) \in Request
         /\ StoreRequest(p, o).principal = Agent
         /\ AsConfigured(StoreRequest(p, o), ConfigOf[On(p)])
         /\ KeyOf(p, o) = IntentKey(p) /\ KeyOf(p, o) \in Keys
         /\ HorizonSeconds(o, PolicyOf(p)) \in Nat
         /\ Priced(HorizonSeconds(o, PolicyOf(p)), ConfigOf[On(p)])
         /\ StoreRequest(p, o).validity = HorizonSeconds(o, PolicyOf(p)) + Margin
  <1> DEFINE k == ConfigOf[On(p)]
  <1>1. Payable(o, PinnedMandate(k), Policy(k), now)
    BY DEF Blocks, MandateOf, PolicyOf
  <1>2. /\ k.window \in Nat /\ k.ceiling \in Nat
        /\ k.pin # None => k.pin.payTo # None /\ k.pin.maxAmount # None
        /\ k.window \in Windows
        /\ \A h \in 0..k.ceiling : h + Margin \in Validities
    BY ConfigFacts
  <1>3. /\ StoreRequest(p, o).principal = Agent
        /\ StoreRequest(p, o).payee = o.payTo /\ StoreRequest(p, o).amount = o.amount
        /\ StoreRequest(p, o).validity = HorizonSeconds(o, Policy(k)) + Margin
    BY DEF StoreRequest, Validity, PolicyOf
  <1>4. /\ HorizonSeconds(o, Policy(k)) \in 0..k.ceiling
        /\ Priced(HorizonSeconds(o, Policy(k)), k)
    <2>1. Policy(k).ceiling = k.ceiling /\ Policy(k).window = k.window
      BY DEF Policy
    <2>2. o.horizon # None => o.horizon \in 0..Least(k.ceiling, k.window)
      BY <1>1, <2>1 DEF Payable, CheckHorizon, HorizonCeiling
    <2> QED
      BY <1>2, <2>1, <2>2 DEF HorizonSeconds, Least, Priced
  <1>5. AsConfigured(StoreRequest(p, o), k)
    <2>1. ASSUME k.pin # None PROVE o.payTo = k.pin.payTo /\ o.amount <= k.pin.maxAmount
      <3>1. Policy(k).profile = "mandate-required"
        BY <2>1 DEF Policy
      <3>2. /\ PinnedMandate(k).payTo = k.pin.payTo
            /\ PinnedMandate(k).maxAmount = k.pin.maxAmount
        BY <2>1 DEF PinnedMandate
      <3> QED
        BY <1>1, <1>2, <2>1, <3>1, <3>2 DEF Payable, CheckIntent
    <2>2. k.maxPayment # None => o.amount <= k.maxPayment
      BY <1>1 DEF Payable, CheckMaxPayment, Policy
    <2> QED
      BY <1>3, <2>1, <2>2 DEF AsConfigured
  <1>6. KeyOf(p, o) = IntentKey(p)
    <2>1. o.asset = "usdc"
      BY <1>1 DEF Payable, CheckEnvelope, Policy
    <2>2. IntentOf[p] # None
      BY IntentsAreIntents, NoneIsNothing
    <2>3. /\ Context(p).paymentIdentifier = None
          /\ Context(p).intentId = IntentOf[p]
      BY DEF Context
    <2> QED
      BY <2>1, <2>2, <2>3 DEF KeyOf, DeriveDedupKey, IntentKey
  <1>7. IntentKey(p) \in Keys
    BY IntentsAreIntents DEF IntentKey, Keys
  <1>8. StoreRequest(p, o) \in Request
    <2>1. o.payTo \in Payees /\ o.amount \in Amounts
      BY <1>1, OfferBounds DEF Payable, CheckResolvedFields
    <2>2. StoreRequest(p, o).validity \in Validities
      BY <1>2, <1>3, <1>4
    <2>3. Agent \in Principals /\ PolicyOf(p).window \in Windows
      BY <1>2, WalletPays DEF PolicyOf, Policy
    <2>4. MandateOf(p) # None => MandateOf(p).id = "pinned-mandate"
      BY DEF MandateOf, PinnedMandate
    <2>5. StoreRequest(p, o).mandate \in Mandates
      BY <2>4, MandateIds DEF StoreRequest
    <2> QED
      BY <2>1, <2>2, <2>3, <2>5 DEF StoreRequest, Request
  <1> QED
    BY <1>3, <1>4, <1>5, <1>6, <1>7, <1>8 DEF PolicyOf

-----------------------------------------------------------------------------
(* The processes use the store as StoreSpec allows.                        *)

\* A payload that was signed a second after its price is recorded within the
\* tolerance of the store.
LEMMA PaySigns ==
  ASSUME IInv, NEW p \in Ids, Pay(p)
  PROVE  /\ p \in Live(rows) /\ rows[p] \in Reservation /\ MayPay(p)
         /\ request[p].validBefore = None
         /\ request'[p] = [NewRequest EXCEPT !.phase = "sent", !.on = On(p),
                             !.validBefore = now + request[p].horizon]
         /\ now + request[p].horizon + Margin \in Nat
         /\ now + request[p].horizon <= request[p].read + request[p].horizon + 1
         /\ rows' = [rows EXCEPT ![p] =
                       Signed(rows[p], now + request[p].horizon + Margin, p)]
         /\ \E d \in 0..Tolerance : Sign(p, rows[p].safe + d, p)
  <1> DEFINE safe == now + request[p].horizon + Margin
             r == rows[p]
  <1>1. /\ Sign(p, safe, p) /\ request[p].phase = "allowed"
        /\ WithinPrice(p, now + request[p].horizon)
        /\ request' = [request EXCEPT ![p] = [NewRequest EXCEPT
             !.phase = "sent", !.on = On(p),
             !.validBefore = now + request[p].horizon]]
    BY DEF Pay
  <1>2. /\ now \in Nat /\ Margin \in Nat /\ request[p].horizon \in Nat
        /\ request[p].read \in Nat
        /\ rows \in [Ids -> Reservation \cup {None}]
        /\ request \in [Ids -> HttpRequest]
    BY MarginAndTolerance DEF IInv, TypeOK, StoreTypeOK, HttpRequest
  <1>3. /\ p \in Live(rows) /\ r \in Reservation /\ r.safe \in Nat
        /\ r.status = "reserved" /\ RefUnused(p, p) /\ UNCHANGED now
        /\ rows' = [rows EXCEPT ![p] = Signed(r, safe, p)]
    BY <1>1, <1>2 DEF Sign, InStatus, Live, Reservation
  <1>4. r.safe >= KeyExpiry(p)
    BY <1>1, <1>2 DEF IInv, DecisionsPriced, Deciding
  <1>5. safe \in Nat /\ safe <= r.safe + 1
    BY <1>1, <1>2, <1>3, <1>4 DEF WithinPrice, KeyExpiry
  <1>6. \E d \in 0..Tolerance : Signed(r, safe, p) = Signed(r, r.safe + d, p)
    <2>1. CASE safe <= r.safe
      <3>1. Signed(r, safe, p) = Signed(r, r.safe + 0, p)
        BY <1>3, <1>5, <2>1, SignedEarly
      <3> QED
        BY <3>1, ValidityBounds
    <2>2. CASE ~(safe <= r.safe)
      <3>1. safe = r.safe + 1 /\ 1 \in 0..Tolerance
        BY <1>3, <1>5, <2>2, ValidityBounds, MarginAndTolerance
      <3> QED
        BY <3>1
    <2> QED
      BY <2>1, <2>2
  <1>7. request[p].validBefore = None
    BY <1>1 DEF IInv, PayloadsHeld, Unpaid
  <1> QED
    BY <1>1, <1>2, <1>3, <1>5, <1>6, <1>7 DEF Sign, InStatus, MayPay, WithinPrice

LEMMA NextIsStoreNext == IInv /\ [Next]_vars => [StoreNext]_storeVars
  <1> SUFFICES ASSUME IInv, [Next]_vars PROVE [StoreNext]_storeVars
    OBVIOUS
  <1>0. now \in Nat /\ now \in Readings
    BY ClockBounds DEF IInv, TypeOK, StoreTypeOK, Readings
  <1>1. \A c \in Procs : ConfigOf[c].window \in Windows
    BY ConfigFacts
  <1>2. ASSUME NEW c \in Procs,
               \/ Recover(c) \/ Listen(c) \/ StartFails(c) \/ Shutdown(c)
               \/ Exit(c) \/ Crash(c) \/ FreeRequest(c)
        PROVE  [StoreNext]_storeVars
    BY <1>0, <1>1, <1>2 DEF Recover, Listen, StartFails, Shutdown, Exit, Crash,
                            FreeRequest, StoreNext
  <1>3. ASSUME NEW p \in Ids, NEW c \in Procs, Accept(p, c) \/ Reject(p, c)
        PROVE  [StoreNext]_storeVars
    BY <1>3 DEF Accept, Reject
  <1>4. ASSUME NEW p \in Ids, Handle(p) PROVE [StoreNext]_storeVars
    <2>1. ASSUME NEW o \in Offers, Reserve(p, o) PROVE [StoreNext]_storeVars
      <3>1. On(p) \in Procs /\ ~Blocks(p, o) /\ TryReserve(StoreRequest(p, o), now)
        BY <2>1 DEF Reserve, IInv, RequestsHosted, Open
      <3>2. StoreRequest(p, o) \in Request
        BY <3>1, PayableFits
      <3> QED
        BY <1>0, <3>1, <3>2 DEF StoreNext
    <2>2. CASE Pay(p)
      <3>1. p \in Refs
        BY WalletPays
      <3> QED
        BY <2>2, <3>1, PaySigns DEF StoreNext
    <2>3. CASE Reconcile(p)
      <3>1. PolicyOf(p).window \in Windows
        <4>1. On(p) \in Procs
          BY <2>3 DEF Reconcile, IInv, RequestsHosted, Open
        <4> QED
          BY <1>1, <4>1 DEF PolicyOf, Policy
      <3> QED
        BY <1>0, <2>3, <3>1 DEF Reconcile, StoreNext
    <2>4. CASE RefuseDuplicate(p) \/ FailCreation(p) \/ Respond(p)
      BY <1>0, <2>4 DEF RefuseDuplicate, FailCreation, Respond, StoreNext
    <2>5. CASE \/ FetchUnpaid(p) \/ ClaimKey(p) \/ FreeKey(p) \/ Latch(p)
               \/ ReportLatched(p) \/ \E o \in Offers : Block(p, o)
      BY <2>5 DEF FetchUnpaid, ClaimKey, FreeKey, Latch, ReportLatched, Block
    <2> QED
      BY <1>4, <2>1, <2>2, <2>3, <2>4, <2>5 DEF Handle
  <1>5. CASE Clock \/ UNCHANGED vars
    BY <1>5 DEF Clock, StoreNext, vars, storeVars
  <1> QED
    BY <1>2, <1>3, <1>4, <1>5 DEF Next

-----------------------------------------------------------------------------
(* What a step does to one request.                                        *)

\* The decision on a request is over, or its process is.
Over(p) ==
  /\ request'[p].validBefore = request[p].validBefore
  /\ \/ request'[p].phase \in {"answered", "failed"} /\ request'[p].on = On(p)
        /\ request[p].phase \in Open
     \/ request'[p].phase = "done"

LEMMA OverBy ==
  ASSUME TypeOK, NEW p \in Ids
  PROVE  /\ \A ph \in {"answered", "failed"} :
              request[p].phase \in Open /\ Resolve(p, ph) => Over(p)
         /\ End(p) => Over(p)
         /\ \A c \in Procs : Vanish(c) => Over(p) \/ request'[p] = request[p]
         /\ \A q \in Ids \ {p} : \A ph :
              Resolve(q, ph) \/ End(q) \/ Goto(q, ph) => request'[p] = request[p]
  <1>0. request \in [Ids -> HttpRequest] /\ request[p] \in HttpRequest
    BY DEF TypeOK
  <1>1. ASSUME NEW ph \in {"answered", "failed"}, request[p].phase \in Open,
               Resolve(p, ph)
        PROVE  Over(p)
    <2>1. request'[p] = [NewRequest EXCEPT !.phase = ph, !.on = On(p),
                                           !.validBefore = request[p].validBefore]
      BY <1>0, <1>1 DEF Resolve
    <2>2. /\ request'[p].phase = ph /\ request'[p].on = On(p)
          /\ request'[p].validBefore = request[p].validBefore
      BY <2>1 DEF NewRequest
    <2> QED
      BY <1>1, <2>2 DEF Over
  <1>2. /\ Ended(request[p]).phase = "done"
        /\ Ended(request[p]).validBefore = request[p].validBefore
    BY DEF Ended, NewRequest
  <1>3. ASSUME End(p) PROVE Over(p)
    BY <1>0, <1>2, <1>3 DEF End, Over
  <1>4. ASSUME NEW c \in Procs, Vanish(c) PROVE Over(p) \/ request'[p] = request[p]
    BY <1>0, <1>2, <1>4 DEF Vanish, Over
  <1>5. ASSUME NEW q \in Ids \ {p}, NEW ph, Resolve(q, ph) \/ End(q) \/ Goto(q, ph)
        PROVE  request'[p] = request[p]
    BY <1>0, <1>5 DEF Resolve, End, Goto
  <1> QED
    BY <1>1, <1>3, <1>4, <1>5

\* One request moves at a time, unless a process ends.
LEMMA RequestSteps ==
  ASSUME IInv, [Next]_vars, NEW p \in Ids
  PROVE  \/ request'[p] = request[p]
         \/ Over(p)
         \/ \E c \in Procs : Accept(p, c)
         \/ \E o \in Offers : Reserve(p, o)
         \/ ClaimKey(p)
         \/ Pay(p)
         \/ FailCreation(p) /\ Goto(p, "freeing")
  <1>0. TypeOK /\ request \in [Ids -> HttpRequest]
    BY DEF IInv, TypeOK
  <1>1. ASSUME NEW c \in Procs,
               \/ Recover(c) \/ Listen(c) \/ StartFails(c) \/ Shutdown(c)
               \/ Exit(c) \/ Crash(c) \/ FreeRequest(c)
        PROVE  request'[p] = request[p] \/ Over(p)
    <2>1. CASE Recover(c) \/ Listen(c) \/ Shutdown(c) \/ FreeRequest(c)
      BY <2>1 DEF Recover, Listen, Shutdown, FreeRequest, proxyVars
    <2>2. CASE StartFails(c) \/ Exit(c) \/ Crash(c)
      BY <1>0, <2>2, OverBy DEF StartFails, Exit, Crash
    <2> QED
      BY <1>1, <2>1, <2>2
  <1>2. ASSUME NEW q \in Ids, NEW c \in Procs, Accept(q, c) \/ Reject(q, c)
        PROVE  request'[p] = request[p] \/ Over(p) \/ Accept(p, c)
    <2>1. CASE q = p
      BY <1>0, <1>2, <2>1, OverBy DEF Reject
    <2>2. CASE q # p
      BY <1>0, <1>2, <2>2, OverBy DEF Accept, Reject
    <2> QED
      BY <2>1, <2>2
  <1>3. ASSUME NEW q \in Ids, Handle(q)
        PROVE  \/ request'[p] = request[p]
               \/ Over(p)
               \/ \E o \in Offers : Reserve(p, o)
               \/ ClaimKey(p)
               \/ Pay(p)
               \/ FailCreation(p) /\ Goto(p, "freeing")
    <2>1. CASE \/ FetchUnpaid(q) \/ RefuseDuplicate(q) \/ FreeKey(q) \/ Respond(q)
               \/ Latch(q) \/ (\E o \in Offers : Block(q, o))
               \/ FailCreation(q) /\ Resolve(q, "failed")
      <3>1. request[q].phase \in Open
            /\ \E ph \in {"answered", "failed"} : Resolve(q, ph)
        BY <2>1 DEF FetchUnpaid, RefuseDuplicate, FailCreation, FreeKey, Respond, Latch,
                    Block, Expected, Open
      <3> QED
        BY <1>0, <3>1, OverBy
    <2>2. CASE Reconcile(q) \/ ReportLatched(q)
      BY <1>0, <2>2, OverBy DEF Reconcile, ReportLatched
    <2>3. CASE ClaimKey(q)
      BY <1>0, <2>3, OverBy DEF ClaimKey
    <2>5. CASE FailCreation(q) /\ Goto(q, "freeing")
      BY <1>0, <2>5, OverBy
    <2>6. FailCreation(q) => Goto(q, "freeing") \/ Resolve(q, "failed")
      BY DEF FailCreation
    <2>4. CASE q # p /\ (Pay(q) \/ \E o \in Offers : Reserve(q, o))
      BY <1>0, <2>4 DEF Pay, Reserve
    <2> QED
      BY <1>3, <2>1, <2>2, <2>3, <2>4, <2>5, <2>6 DEF Handle
  <1>4. CASE Clock \/ UNCHANGED vars
    BY <1>4 DEF Clock, proxyVars, vars
  <1> QED
    BY <1>1, <1>2, <1>3, <1>4 DEF Next

\* Who writes a key.
LEMMA KeySteps ==
  ASSUME [Next]_vars
  PROVE  dedup' = dedup \/ \E q \in Ids : ClaimKey(q) \/ FreeKey(q)
  <1>1. ASSUME NEW c \in Procs,
               \/ Recover(c) \/ Listen(c) \/ StartFails(c) \/ Shutdown(c)
               \/ Exit(c) \/ Crash(c) \/ FreeRequest(c)
        PROVE  dedup' = dedup
    BY <1>1 DEF Recover, Listen, StartFails, Shutdown, Exit, Crash, FreeRequest, proxyVars
  <1>2. ASSUME NEW q \in Ids, NEW c \in Procs, Accept(q, c) \/ Reject(q, c)
        PROVE  dedup' = dedup
    BY <1>2 DEF Accept, Reject
  <1>3. ASSUME NEW q \in Ids, Handle(q), ~ClaimKey(q), ~FreeKey(q)
        PROVE  dedup' = dedup
    BY <1>3 DEF Handle, FetchUnpaid, RefuseDuplicate, FailCreation, Respond, Latch, Block, Reserve,
                Pay, Reconcile, ReportLatched
  <1>4. CASE Clock \/ UNCHANGED vars
    BY <1>4 DEF Clock, proxyVars, vars
  <1> QED
    BY <1>1, <1>2, <1>3, <1>4 DEF Next

-----------------------------------------------------------------------------
(* Type correctness.                                                       *)

\* How a request is rewritten keeps its type.
LEMMA RequestTypes ==
  ASSUME TypeOK, NEW p \in Ids
  PROVE  /\ \A ph \in {"answered", "failed"} :
              Resolve(p, ph) => request' \in [Ids -> HttpRequest]
         /\ End(p) => request' \in [Ids -> HttpRequest]
         /\ \A ph \in Open : Goto(p, ph) => request' \in [Ids -> HttpRequest]
  <1>0. request \in [Ids -> HttpRequest] /\ \A q \in Ids : request[q] \in HttpRequest
    BY DEF TypeOK
  <1>1. ASSUME NEW r \in HttpRequest,
               NEW ph \in Open \cup {"idle", "answered", "done", "failed"},
               NEW c \in Procs \cup {None}
        PROVE  [NewRequest EXCEPT !.phase = ph, !.on = c,
                                  !.validBefore = r.validBefore] \in HttpRequest
    BY <1>1 DEF NewRequest, HttpRequest, Open
  <1>2. ASSUME NEW r \in HttpRequest PROVE Ended(r) \in HttpRequest
    BY <1>2 DEF Ended, NewRequest, HttpRequest
  <1>3. ASSUME NEW ph \in {"answered", "failed"}, Resolve(p, ph)
        PROVE  request' \in [Ids -> HttpRequest]
    <2>1. On(p) \in Procs \cup {None}
      BY <1>0 DEF On, HttpRequest
    <2> QED
      BY <1>0, <1>1, <1>3, <2>1 DEF Resolve
  <1>4. ASSUME End(p) PROVE request' \in [Ids -> HttpRequest]
    BY <1>0, <1>2, <1>4 DEF End
  <1>5. ASSUME NEW ph \in Open, Goto(p, ph) PROVE request' \in [Ids -> HttpRequest]
    BY <1>0, <1>5 DEF Goto, HttpRequest
  <1> QED
    BY <1>3, <1>4, <1>5

LEMMA VanishType ==
  ASSUME TypeOK, NEW c \in Procs, Vanish(c)
  PROVE  request' \in [Ids -> HttpRequest]
  <1>1. ASSUME NEW r \in HttpRequest PROVE Ended(r) \in HttpRequest
    BY <1>1 DEF Ended, NewRequest, HttpRequest
  <1> QED
    BY <1>1 DEF Vanish, TypeOK

LEMMA InitHolds == Init => IInv /\ TimelyInv
  <1> SUFFICES ASSUME Init PROVE IInv /\ TimelyInv
    OBVIOUS
  <1>1. NewRequest \in HttpRequest
    BY DEF NewRequest, HttpRequest
  <1>2. TypeOK
    BY <1>1, InitType, NoneIsNothing DEF Init, TypeOK, NewRequest, Open
  <1>3. /\ Live(rows) = {}
        /\ \A p \in Ids : request[p].phase = "idle" /\ request[p].validBefore = None
    BY DEF Init, StoreInit, Live, NewRequest
  <1> QED
    BY <1>2, <1>3
       DEF IInv, RequestsHosted, RowsOfWallet, DecisionsPriced, PayloadsHeld,
           KeysOfIntent, Keyed, TimelyInv, KeysClaimed, OneCounts, Counts, MayPay,
           Redeemable, Freeing, Open, Deciding

\* Everything but the processes.
LEMMA NextDataOK ==
  ASSUME IInv, [Next]_vars
  PROVE  /\ StoreTypeOK'
         /\ dedup' \in [Keys -> Nat \cup {None}]
         /\ request' \in [Ids -> HttpRequest]
  <1>0. TypeOK /\ StoreTypeOK /\ now \in Nat
    BY DEF IInv, TypeOK, StoreTypeOK
  <1>1. StoreTypeOK'
    BY <1>0, NextIsStoreNext, NextType
  <1>2. \A p \in Ids : /\ request[p] \in HttpRequest
                       /\ request[p].read \in Nat /\ request[p].horizon \in Nat
                       /\ KeyExpiry(p) \in Nat
    BY <1>0, MarginAndTolerance DEF TypeOK, HttpRequest, KeyExpiry
  <1>3. dedup' \in [Keys -> Nat \cup {None}]
    <2>1. ASSUME NEW q \in Ids, ClaimKey(q) \/ FreeKey(q)
          PROVE  dedup' \in [Keys -> Nat \cup {None}]
      BY <1>0, <1>2, <2>1 DEF ClaimKey, FreeKey, TypeOK
    <2> QED
      BY <1>0, <2>1, KeySteps DEF TypeOK
  <1>4. request' \in [Ids -> HttpRequest]
    <2>1. ASSUME NEW c \in Procs,
                 \/ Recover(c) \/ Listen(c) \/ StartFails(c) \/ Shutdown(c)
                 \/ Exit(c) \/ Crash(c) \/ FreeRequest(c)
          PROVE  request' \in [Ids -> HttpRequest]
      <3>1. request' = request \/ Vanish(c)
        BY <2>1 DEF Recover, Listen, StartFails, Shutdown, Exit, Crash, FreeRequest,
                    proxyVars
      <3> QED
        BY <1>0, <3>1, VanishType DEF TypeOK
    <2>2. ASSUME NEW q \in Ids, NEW c \in Procs, Accept(q, c) \/ Reject(q, c)
          PROVE  request' \in [Ids -> HttpRequest]
      <3>1. CASE Accept(q, c)
        <4>1. [request[q] EXCEPT !.phase = "fetching", !.on = c] \in HttpRequest
          BY <1>2 DEF HttpRequest, Open
        <4> QED
          BY <1>0, <3>1, <4>1 DEF Accept, TypeOK
      <3>2. CASE Reject(q, c)
        BY <1>0, <3>2, RequestTypes DEF Reject
      <3> QED
        BY <2>2, <3>1, <3>2
    <2>3. ASSUME NEW q \in Ids, Handle(q) PROVE request' \in [Ids -> HttpRequest]
      <3>1. CASE \/ FetchUnpaid(q) \/ RefuseDuplicate(q) \/ FailCreation(q)
                 \/ FreeKey(q) \/ Respond(q) \/ Latch(q)
                 \/ \E o \in Offers : Block(q, o)
        BY <1>0, <3>1, RequestTypes DEF FetchUnpaid, RefuseDuplicate, FailCreation,
                                        FreeKey, Respond, Latch, Block, Open
      <3>2. CASE Reconcile(q) \/ ReportLatched(q)
        BY <1>0, <3>2, RequestTypes DEF Reconcile, ReportLatched
      <3>3. CASE ClaimKey(q)
        BY <1>0, <3>3, RequestTypes DEF ClaimKey, Open
      <3>4. ASSUME NEW o \in Offers, Reserve(q, o)
            PROVE  request' \in [Ids -> HttpRequest]
        <4>1. On(q) \in Procs /\ ~Blocks(q, o)
          BY <3>4 DEF Reserve, IInv, RequestsHosted, Open
        <4>2. KeyOf(q, o) \in Keys /\ HorizonSeconds(o, PolicyOf(q)) \in Nat
          BY <4>1, PayableFits
        <4>3. [request[q] EXCEPT
                 !.phase = IF q \in Live(rows') THEN "claiming" ELSE "failed",
                 !.key = KeyOf(q, o), !.read = now,
                 !.horizon = HorizonSeconds(o, PolicyOf(q))] \in HttpRequest
          BY <1>0, <1>2, <4>2 DEF HttpRequest, Open
        <4> QED
          BY <1>0, <3>4, <4>3 DEF Reserve, TypeOK
      <3>5. CASE Pay(q)
        <4>1. now + request[q].horizon \in Nat
          BY <1>0, <1>2
        <4>2. [NewRequest EXCEPT !.phase = "sent", !.on = On(q),
                 !.validBefore = now + request[q].horizon] \in HttpRequest
          BY <1>2, <4>1 DEF NewRequest, HttpRequest, Open, On
        <4> QED
          BY <1>0, <3>5, <4>2 DEF Pay, TypeOK
      <3> QED
        BY <2>3, <3>1, <3>2, <3>3, <3>4, <3>5 DEF Handle
    <2>4. CASE Clock \/ UNCHANGED vars
      BY <1>0, <2>4 DEF Clock, proxyVars, vars, TypeOK
    <2> QED
      BY <2>1, <2>2, <2>3, <2>4 DEF Next
  <1> QED
    BY <1>1, <1>3, <1>4

\* A request stays with its process.
LEMMA RequestStays ==
  ASSUME IInv, [Next]_vars, NEW p \in Ids,
         request'[p].phase \in Open \cup {"answered"}
  PROVE  \/ request[p].phase \in Open \cup {"answered"} /\ request'[p].on = On(p)
              /\ (request'[p].phase \in Open => request[p].phase \in Open)
         \/ \E c \in Procs : Accept(p, c) /\ request'[p].on = c
  <1>0. request \in [Ids -> HttpRequest] /\ request[p] \in HttpRequest
    BY DEF IInv, TypeOK
  <1>1. CASE request'[p] = request[p]
    BY <1>1 DEF On
  <1>2. CASE Over(p)
    BY <1>2 DEF Over, Open
  <1>3. CASE \E c \in Procs : Accept(p, c)
    BY <1>0, <1>3 DEF Accept, HttpRequest
  <1>4. ASSUME NEW o \in Offers, Reserve(p, o)
        PROVE  request[p].phase \in Open /\ request'[p].on = On(p)
    BY <1>0, <1>4 DEF Reserve, HttpRequest, Open, On
  <1>5. ASSUME ClaimKey(p)
        PROVE  request[p].phase \in Open /\ request'[p].on = On(p)
    BY <1>0, <1>5 DEF ClaimKey, Goto, HttpRequest, Open, On
  <1>6. ASSUME Pay(p)
        PROVE  request[p].phase \in Open /\ request'[p].on = On(p)
    <2>1. request'[p] = [NewRequest EXCEPT !.phase = "sent", !.on = On(p),
                                           !.validBefore = now + request[p].horizon]
      BY <1>6, PaySigns
    <2> QED
      BY <1>6, <2>1 DEF Pay, NewRequest, Open
  <1>7. ASSUME FailCreation(p), Goto(p, "freeing")
        PROVE  request[p].phase \in Open /\ request'[p].on = On(p)
    BY <1>0, <1>7 DEF FailCreation, Goto, HttpRequest, Open, On
  <1> QED
    BY <1>1, <1>2, <1>3, <1>4, <1>5, <1>6, <1>7, RequestSteps

LEMMA NextHosted == IInv /\ [Next]_vars => RequestsHosted'
  <1> SUFFICES ASSUME IInv, [Next]_vars, NEW p \in Ids,
                      request'[p].phase \in Open \cup {"answered"}
               PROVE  request'[p].on \in Procs
    BY DEF RequestsHosted, On, Open
  <1> QED
    BY RequestStays DEF IInv, RequestsHosted

\* The processes: one serves at a time, and it has the port.
LEMMA NextProcessesOK ==
  ASSUME IInv, [Next]_vars
  PROVE  /\ proc' \in [Procs -> {"new", "recovered", "serving", "stopping", "ended"}]
         /\ port' \in Procs \cup {None}
         /\ healthy' \in [Procs -> BOOLEAN]
         /\ \A c \in Procs : proc'[c] = "serving" <=> port' = c
         /\ \A p \in Ids :
              request'[p].phase \in Open => proc'[request'[p].on] \in {"serving", "stopping"}
  <1>0. /\ TypeOK /\ RequestsHosted /\ None \notin Procs
        /\ request \in [Ids -> HttpRequest]
        /\ proc \in [Procs -> {"new", "recovered", "serving", "stopping", "ended"}]
        /\ port \in Procs \cup {None} /\ healthy \in [Procs -> BOOLEAN]
        /\ \A c \in Procs : proc[c] = "serving" <=> port = c
        /\ \A p \in Ids :
             request[p].phase \in Open => /\ On(p) \in Procs
                                          /\ proc[On(p)] \in {"serving", "stopping"}
    BY NoneIsNothing DEF IInv, TypeOK, RequestsHosted
  <1> DEFINE OK == /\ proc' \in [Procs -> {"new", "recovered", "serving", "stopping", "ended"}]
                   /\ port' \in Procs \cup {None}
                   /\ healthy' \in [Procs -> BOOLEAN]
                   /\ \A c \in Procs : proc'[c] = "serving" <=> port' = c
             Hosts == \A p \in Ids : request'[p].phase \in Open =>
                        proc'[request'[p].on] \in {"serving", "stopping"}
  <1>1. ASSUME proc' = proc PROVE Hosts
    <2> SUFFICES ASSUME NEW p \in Ids, request'[p].phase \in Open
                 PROVE  proc[request'[p].on] \in {"serving", "stopping"}
      BY <1>1
    <2>1. CASE request[p].phase \in Open /\ request'[p].on = On(p)
      BY <1>0, <2>1
    <2>2. ASSUME NEW c \in Procs, Accept(p, c), request'[p].on = c
          PROVE  proc[request'[p].on] \in {"serving", "stopping"}
      BY <1>0, <2>2 DEF Accept
    <2> QED
      BY <2>1, <2>2, RequestStays
  <1>2. ASSUME proc' = proc, port' = port, healthy' \in [Procs -> BOOLEAN] PROVE OK
    BY <1>0, <1>2
  <1>3. ASSUME NEW c \in Procs,
               Recover(c) \/ Listen(c) \/ Shutdown(c)
        PROVE  OK /\ Hosts
    <2>1. /\ request' = request /\ healthy' = healthy
          /\ \A d \in Procs \ {c} : proc'[d] = proc[d]
      BY <1>0, <1>3 DEF Recover, Listen, Shutdown, Become
    <2>2. CASE Recover(c)
      <3>1. /\ proc[c] = "new" /\ proc' = [proc EXCEPT ![c] = "recovered"] /\ port' = port
        BY <2>2 DEF Recover, Become
      <3> QED
        BY <1>0, <2>1, <3>1 DEF On
    <2>3. CASE Listen(c)
      <3>1. /\ proc[c] = "recovered" /\ proc' = [proc EXCEPT ![c] = "serving"]
            /\ port = None /\ port' = c
        BY <2>3 DEF Listen, Become
      <3> QED
        BY <1>0, <2>1, <3>1 DEF On
    <2>4. CASE Shutdown(c)
      <3>1. /\ proc[c] = "serving" /\ proc' = [proc EXCEPT ![c] = "stopping"]
            /\ port' = None
        BY <2>4 DEF Shutdown, Become
      <3> QED
        BY <1>0, <2>1, <3>1 DEF On
    <2> QED
      BY <1>3, <2>2, <2>3, <2>4
  <1>4. ASSUME NEW c \in Procs, StartFails(c) \/ Exit(c) \/ Crash(c)
        PROVE  OK /\ Hosts
    <2>1. /\ proc' = [proc EXCEPT ![c] = "ended"]
          /\ healthy' = [healthy EXCEPT ![c] = TRUE]
          /\ \A p \in Ids : request'[p] = IF On(p) = c THEN Ended(request[p]) ELSE request[p]
      BY <1>4 DEF StartFails, Exit, Crash, Vanish, Become
    <2>2. port' = IF port = c THEN None ELSE port
      BY <1>0, <1>4 DEF StartFails, Exit, Crash
    <2>3. \A p \in Ids : Ended(request[p]).phase \notin Open
      BY DEF Ended, NewRequest, Open
    <2>4. Hosts
      BY <1>0, <2>1, <2>3 DEF On
    <2>5. OK
      BY <1>0, <2>1, <2>2
    <2> QED
      BY <2>4, <2>5
  <1>5. ASSUME NEW p \in Ids, \/ \E c \in Procs : Accept(p, c) \/ Reject(p, c)
                              \/ Handle(p)
        PROVE  OK /\ Hosts
    <2>1. /\ proc' = proc /\ port' = port
          /\ healthy' = healthy \/ healthy' = [healthy EXCEPT ![On(p)] = FALSE]
      BY <1>5 DEF Accept, Reject, Handle, FetchUnpaid, Block, Reserve, ClaimKey,
                  RefuseDuplicate, Pay, FailCreation, FreeKey, Respond, Latch,
                  Reconcile, ReportLatched
    <2>2. healthy' \in [Procs -> BOOLEAN]
      BY <1>0, <2>1
    <2> QED
      BY <1>1, <1>2, <2>1, <2>2
  <1>6. CASE Clock \/ UNCHANGED vars \/ \E c \in Procs : FreeRequest(c)
    <2>1. proc' = proc /\ port' = port /\ healthy' = healthy
      BY <1>6 DEF Clock, FreeRequest, proxyVars, vars
    <2> QED
      BY <1>0, <1>1, <1>2, <2>1
  <1> QED
    BY <1>3, <1>4, <1>5, <1>6 DEF Next

LEMMA NextTypeOK == IInv /\ [Next]_vars => TypeOK'
  BY NextDataOK, NextProcessesOK DEF TypeOK, On, Open

-----------------------------------------------------------------------------
(* What a step does to the rows.                                           *)

LEMMA NextRows ==
  ASSUME IInv, [Next]_vars
  PROVE  /\ StoreTypeOK /\ StoreTypeOK' /\ [StoreNext]_storeVars
         /\ now \in Nat /\ now' \in Nat /\ now <= now'
         /\ \A i \in Live(rows) :
              /\ i \in Ids /\ i \in Live(rows') /\ RowStep(rows[i], rows'[i])
              /\ rows[i] \in Reservation /\ rows[i].safe \in Nat
              /\ rows'[i] \in Reservation /\ rows'[i].safe \in Nat
  <1>1. StoreTypeOK /\ StoreTypeOK' /\ [StoreNext]_storeVars
    BY NextTypeOK, NextIsStoreNext DEF IInv, TypeOK
  <1>2. \A i \in Live(rows) : i \in Live(rows') /\ RowStep(rows[i], rows'[i])
    BY <1>1, RowsStep
  <1>3. now \in Nat /\ now' \in Nat
    BY <1>1 DEF StoreTypeOK
  <1>4. now <= now'
    <2>1. now' = now \/ now' = now + 1
      BY <1>1 DEF StoreNext, TryReserve, Sign, Release, Settle, LoseTrack,
                  ReleaseExpired, RecoverAfterRestart, Tick, storeVars
    <2> QED
      BY <1>3, <2>1
  <1>5. \A i \in Live(rows) : i \in Ids /\ rows[i] \in Reservation /\ rows[i].safe \in Nat
    BY <1>1 DEF StoreTypeOK, Live, Reservation
  <1>6. \A i \in Live(rows') : rows'[i] \in Reservation /\ rows'[i].safe \in Nat
    BY <1>1 DEF StoreTypeOK, Live, Reservation
  <1> QED
    BY <1>1, <1>2, <1>3, <1>4, <1>5, <1>6

\* A row that is new is that of the request that reserves.
LEMMA NewRows ==
  ASSUME IInv, [Next]_vars, NEW i \in Live(rows') \ Live(rows)
  PROVE  \E o \in Offers : Reserve(i, o) /\ rows'[i] = NewRow(StoreRequest(i, o), now)
  <1>0. /\ TypeOK /\ StoreTypeOK /\ now \in Nat /\ now \in Readings /\ i \in Ids
        /\ rows \in [Ids -> Reservation \cup {None}]
    BY ClockBounds DEF IInv, TypeOK, StoreTypeOK, Readings, Live
  <1>1. ASSUME NEW p \in Ids, NEW s, InStatus(p, s) \/ p \in Live(rows), NEW r,
               rows' = [rows EXCEPT ![p] = r]
        PROVE  FALSE
    BY <1>0, <1>1 DEF Live, InStatus
  <1>2. ASSUME NEW w \in Windows,
               ReleaseExpired(now, w) \/ RecoverAfterRestart(now, w)
        PROVE  FALSE
    BY <1>0, <1>2, ExpireGently, RecoverSteps
  <1>3. ASSUME rows' = rows PROVE FALSE
    BY <1>3 DEF Live
  <1>4. ASSUME NEW p \in Ids,
               Release(p) \/ Settle(p, now) \/ LoseTrack(p)
        PROVE  FALSE
    BY <1>0, <1>4 DEF Release, Settle, LoseTrack, InStatus, Live
  <1>5. ASSUME NEW c \in Procs,
               \/ Recover(c) \/ Listen(c) \/ StartFails(c) \/ Shutdown(c)
               \/ Exit(c) \/ Crash(c) \/ FreeRequest(c)
        PROVE  FALSE
    <2>1. ConfigOf[c].window \in Windows
      BY ConfigFacts
    <2> QED
      BY <1>2, <1>3, <1>5, <2>1 DEF Recover, Listen, StartFails, Shutdown, Exit, Crash,
                                    FreeRequest, storeVars
  <1>6. ASSUME NEW p \in Ids, NEW c \in Procs, Accept(p, c) \/ Reject(p, c) PROVE FALSE
    BY <1>3, <1>6 DEF Accept, Reject, storeVars
  <1>7. ASSUME NEW p \in Ids, Handle(p)
        PROVE  \E o \in Offers :
                 Reserve(i, o) /\ rows'[i] = NewRow(StoreRequest(i, o), now)
    <2>1. ASSUME NEW o \in Offers, Reserve(p, o)
          PROVE  Reserve(i, o) /\ rows'[i] = NewRow(StoreRequest(i, o), now)
      <3>1. On(p) \in Procs /\ ~Blocks(p, o) /\ TryReserve(StoreRequest(p, o), now)
        BY <2>1 DEF Reserve, IInv, RequestsHosted, Open
      <3>2. StoreRequest(p, o) \in Request
        BY <3>1, PayableFits
      <3>3. rows'[i] = NewRow(StoreRequest(p, o), now)
        BY <1>0, <3>1, <3>2, ReserveGently
      <3>4. i = p
        BY <2>1 DEF Reserve
      <3> QED
        BY <2>1, <3>3, <3>4
    <2>2. ASSUME Pay(p) PROVE FALSE
      BY <1>1, <2>2, PaySigns
    <2>3. ASSUME Reconcile(p) PROVE FALSE
      <3>1. On(p) \in Procs
        BY <2>3 DEF Reconcile, IInv, RequestsHosted, Open
      <3>2. PolicyOf(p).window \in Windows
        BY <3>1, ConfigFacts DEF PolicyOf, Policy
      <3> QED
        BY <1>2, <1>3, <2>3, <3>2 DEF Reconcile, storeVars
    <2>4. ASSUME RefuseDuplicate(p) \/ FailCreation(p) \/ Respond(p) PROVE FALSE
      BY <1>3, <1>4, <2>4 DEF RefuseDuplicate, FailCreation, Respond, storeVars
    <2>5. ASSUME \/ FetchUnpaid(p) \/ ClaimKey(p) \/ FreeKey(p) \/ Latch(p)
                 \/ ReportLatched(p) \/ \E o \in Offers : Block(p, o)
          PROVE  FALSE
      BY <1>3, <2>5 DEF FetchUnpaid, ClaimKey, FreeKey, Latch, ReportLatched, Block,
                        storeVars
    <2> QED
      BY <1>7, <2>1, <2>2, <2>3, <2>4, <2>5 DEF Handle
  <1>8. CASE Clock \/ UNCHANGED vars
    BY <1>3, <1>8 DEF Clock, Tick, vars
  <1> QED
    BY <1>5, <1>6, <1>7, <1>8 DEF Next

\* A decision or an attempt never starts again.
LEMMA NeverRestarts ==
  ASSUME IInv, [Next]_vars, NEW p \in Ids,
         request'[p].phase \in {"idle", "fetching"}
  PROVE  request[p].phase \in {"idle", "fetching"}
  <1>0. request \in [Ids -> HttpRequest] /\ request[p] \in HttpRequest
    BY DEF IInv, TypeOK
  <1>1. ASSUME Over(p) PROVE FALSE
    BY <1>1 DEF Over
  <1>2. ASSUME NEW c \in Procs, Accept(p, c) PROVE request[p].phase = "idle"
    BY <1>2 DEF Accept
  <1>3. ASSUME NEW o \in Offers, Reserve(p, o) PROVE request[p].phase = "fetching"
    BY <1>3 DEF Reserve
  <1>4. ASSUME ClaimKey(p) PROVE FALSE
    <2>1. request'[p].phase = "allowed"
      BY <1>0, <1>4 DEF ClaimKey, Goto, HttpRequest
    <2> QED
      BY <2>1
  <1>5. ASSUME Pay(p) PROVE FALSE
    <2>1. request'[p].phase = "sent"
      BY <1>5, PaySigns DEF NewRequest
    <2> QED
      BY <2>1
  <1>6. ASSUME FailCreation(p), Goto(p, "freeing") PROVE FALSE
    <2>1. request'[p].phase = "freeing"
      BY <1>0, <1>6 DEF Goto, HttpRequest
    <2> QED
      BY <2>1
  <1> QED
    BY <1>1, <1>2, <1>3, <1>4, <1>5, <1>6, RequestSteps

LEMMA ReserveMoves ==
  ASSUME IInv, NEW p \in Ids, NEW o \in Offers, Reserve(p, o)
  PROVE  /\ request[p].phase = "fetching" /\ p \notin Live(rows)
         /\ request'[p].phase = (IF p \in Live(rows') THEN "claiming" ELSE "failed")
         /\ request'[p].key = KeyOf(p, o) /\ request'[p].read = now
         /\ request'[p].horizon = HorizonSeconds(o, PolicyOf(p))
         /\ request'[p].on = On(p) /\ request'[p].validBefore = request[p].validBefore
         /\ \A q \in Ids \ {p} : request'[q] = request[q]
         /\ dedup' = dedup /\ now' = now
  <1>0. request \in [Ids -> HttpRequest] /\ request[p] \in HttpRequest
    BY DEF IInv, TypeOK
  <1>1. request[p].phase = "fetching" /\ p \notin Live(rows)
    BY DEF Reserve, IInv, RowsOfWallet
  <1>2. request'[p] = [request[p] EXCEPT
          !.phase = IF p \in Live(rows') THEN "claiming" ELSE "failed",
          !.key = KeyOf(p, o), !.read = now,
          !.horizon = HorizonSeconds(o, PolicyOf(p))]
    BY <1>0 DEF Reserve
  <1>3. /\ \A q \in Ids \ {p} : request'[q] = request[q]
        /\ dedup' = dedup /\ now' = now
    BY <1>0 DEF Reserve, TryReserve
  <1> QED
    BY <1>0, <1>1, <1>2, <1>3 DEF HttpRequest, On

LEMMA NextRowsOfWallet == IInv /\ [Next]_vars => RowsOfWallet'
  <1> SUFFICES ASSUME IInv, [Next]_vars, NEW i \in Live(rows')
               PROVE  rows'[i].principal = Agent
                      /\ request'[i].phase \notin {"idle", "fetching"}
    BY DEF RowsOfWallet
  <1>0. i \in Ids
    BY DEF Live
  <1>1. CASE i \in Live(rows)
    <2>1. rows[i].principal = Agent /\ request[i].phase \notin {"idle", "fetching"}
      BY <1>1 DEF IInv, RowsOfWallet
    <2>2. rows'[i].principal = rows[i].principal
      BY <1>1, NextRows DEF RowStep, Keeps
    <2> QED
      BY <1>0, <2>1, <2>2, NeverRestarts
  <1>2. CASE i \notin Live(rows)
    <2>1. PICK o \in Offers : Reserve(i, o) /\ rows'[i] = NewRow(StoreRequest(i, o), now)
      BY <1>2, NewRows
    <2>2. request'[i].phase = "claiming"
      BY <1>0, <2>1, ReserveMoves
    <2>3. rows'[i].principal = Agent
      BY <2>1 DEF NewRow, StoreRequest
    <2> QED
      BY <2>2, <2>3
  <1> QED
    BY <1>1, <1>2

\* How a request comes to be decided on, or stays so.
LEMMA DecisionSteps ==
  ASSUME IInv, [Next]_vars, NEW p \in Ids, request'[p].phase \in Deciding
  PROVE  \/ /\ request[p].phase \in Deciding
            /\ request'[p].phase = request[p].phase \/ ClaimKey(p)
            /\ request'[p].key = Key(p) /\ request'[p].on = On(p)
            /\ request'[p].read = request[p].read
            /\ request'[p].horizon = request[p].horizon
            /\ request'[p].validBefore = request[p].validBefore
         \/ \E o \in Offers : Reserve(p, o) /\ p \in Live(rows')
  <1>0. request \in [Ids -> HttpRequest] /\ request[p] \in HttpRequest
    BY DEF IInv, TypeOK
  <1>1. CASE request'[p] = request[p]
    BY <1>1 DEF Key, On
  <1>2. ASSUME Over(p) PROVE FALSE
    BY <1>2 DEF Over, Deciding
  <1>3. ASSUME NEW c \in Procs, Accept(p, c) PROVE FALSE
    <2>1. request'[p].phase = "fetching"
      BY <1>0, <1>3 DEF Accept, HttpRequest
    <2> QED
      BY <2>1 DEF Deciding
  <1>4. ASSUME NEW o \in Offers, Reserve(p, o) PROVE p \in Live(rows')
    BY <1>4, ReserveMoves DEF Deciding
  <1>5. CASE ClaimKey(p)
    <2>1. request[p].phase = "claiming" /\ request'[p] = [request[p] EXCEPT !.phase = "allowed"]
      BY <1>0, <1>5 DEF ClaimKey, Goto
    <2> QED
      BY <1>0, <1>5, <2>1 DEF HttpRequest, Deciding, Key, On
  <1>6. ASSUME Pay(p) PROVE FALSE
    <2>1. request'[p].phase = "sent"
      BY <1>6, PaySigns DEF NewRequest
    <2> QED
      BY <2>1 DEF Deciding
  <1>7. ASSUME FailCreation(p), Goto(p, "freeing") PROVE FALSE
    <2>1. request'[p].phase = "freeing"
      BY <1>0, <1>7 DEF Goto, HttpRequest
    <2> QED
      BY <2>1 DEF Deciding
  <1> QED
    BY <1>1, <1>2, <1>3, <1>4, <1>5, <1>6, <1>7, RequestSteps

\* How a request comes to be freeing its key, or stays so.
LEMMA FreeingSteps ==
  ASSUME IInv, [Next]_vars, NEW p \in Ids, request'[p].phase = "freeing"
  PROVE  request'[p] = request[p] \/ (FailCreation(p) /\ Goto(p, "freeing"))
  <1>0. request \in [Ids -> HttpRequest] /\ request[p] \in HttpRequest
    BY DEF IInv, TypeOK
  <1>1. ~Over(p)
    BY DEF Over
  <1>2. ASSUME NEW c \in Procs, Accept(p, c) PROVE FALSE
    <2>1. request'[p].phase = "fetching"
      BY <1>0, <1>2 DEF Accept, HttpRequest
    <2> QED
      BY <2>1
  <1>3. ASSUME NEW o \in Offers, Reserve(p, o) PROVE FALSE
    BY <1>3, ReserveMoves
  <1>4. ASSUME ClaimKey(p) PROVE FALSE
    <2>1. request'[p].phase = "allowed"
      BY <1>0, <1>4 DEF ClaimKey, Goto, HttpRequest
    <2> QED
      BY <2>1
  <1>5. ASSUME Pay(p) PROVE FALSE
    <2>1. request'[p].phase = "sent"
      BY <1>5, PaySigns DEF NewRequest
    <2> QED
      BY <2>1
  <1> QED
    BY <1>1, <1>2, <1>3, <1>4, <1>5, RequestSteps

\* A row that is new outlives the instant at which it was priced.
LEMMA NewRowOutlives ==
  ASSUME IInv, NEW i \in Ids, NEW o \in Offers, Reserve(i, o),
         rows'[i] = NewRow(StoreRequest(i, o), now)
  PROVE  /\ On(i) \in Procs /\ StoreRequest(i, o) \in Request
         /\ TryReserve(StoreRequest(i, o), now)
         /\ StoreRequest(i, o).principal = Agent
         /\ AsConfigured(rows'[i], ConfigOf[On(i)])
         /\ KeyOf(i, o) = IntentKey(i)
         /\ HorizonSeconds(o, PolicyOf(i)) \in Nat
         /\ Priced(HorizonSeconds(o, PolicyOf(i)), ConfigOf[On(i)])
         /\ rows'[i].safe = now + HorizonSeconds(o, PolicyOf(i)) + Margin
         /\ rows'[i].safe > now
  <1>0. now \in Nat /\ Margin \in Nat /\ Margin >= 1
    BY MarginAndTolerance DEF IInv, TypeOK, StoreTypeOK
  <1>1. On(i) \in Procs /\ ~Blocks(i, o) /\ TryReserve(StoreRequest(i, o), now)
    BY DEF Reserve, IInv, RequestsHosted, Open
  <1>2. /\ StoreRequest(i, o) \in Request
        /\ StoreRequest(i, o).principal = Agent
        /\ AsConfigured(StoreRequest(i, o), ConfigOf[On(i)])
        /\ KeyOf(i, o) = IntentKey(i)
        /\ HorizonSeconds(o, PolicyOf(i)) \in Nat
        /\ Priced(HorizonSeconds(o, PolicyOf(i)), ConfigOf[On(i)])
        /\ StoreRequest(i, o).validity = HorizonSeconds(o, PolicyOf(i)) + Margin
    BY <1>1, PayableFits
  <1>3. /\ rows'[i].payee = StoreRequest(i, o).payee
        /\ rows'[i].amount = StoreRequest(i, o).amount
        /\ rows'[i].safe = now + StoreRequest(i, o).validity
    BY DEF NewRow
  <1>4. AsConfigured(rows'[i], ConfigOf[On(i)])
    BY <1>2, <1>3 DEF AsConfigured
  <1>5. /\ rows'[i].safe = now + HorizonSeconds(o, PolicyOf(i)) + Margin
        /\ rows'[i].safe > now
    BY <1>0, <1>2, <1>3
  <1> QED
    BY <1>1, <1>2, <1>4, <1>5

LEMMA NextDecisions == IInv /\ [Next]_vars => DecisionsPriced'
  <1> SUFFICES ASSUME IInv, [Next]_vars, NEW p \in Ids, request'[p].phase \in Deciding
               PROVE  /\ p \in Live(rows')
                      /\ AsConfigured(rows'[p], ConfigOf[request'[p].on])
                      /\ Priced(request'[p].horizon, ConfigOf[request'[p].on])
                      /\ request'[p].read <= now'
                      /\ rows'[p].safe >= KeyExpiry(p)'
                      /\ rows'[p].status = "reserved" => rows'[p].safe = KeyExpiry(p)'
                      /\ \A i \in Live(rows') :
                           rows'[i].status = "reserved" =>
                             rows'[i].safe > request'[p].read
    BY DEF DecisionsPriced, On, AsConfigured, Priced
  <1>0. /\ now \in Nat /\ now' \in Nat /\ now <= now' /\ Margin \in Nat
        /\ request[p].read \in Nat /\ request[p].horizon \in Nat
        /\ KeyExpiry(p) \in Nat
    BY NextRows, MarginAndTolerance DEF IInv, TypeOK, HttpRequest, KeyExpiry
  <1>1. \A i \in Live(rows') \ Live(rows) : rows'[i].safe > now
    <2> TAKE i \in Live(rows') \ Live(rows)
    <2>1. PICK o \in Offers : Reserve(i, o) /\ rows'[i] = NewRow(StoreRequest(i, o), now)
      BY NewRows
    <2> QED
      BY <2>1, NewRowOutlives DEF Live
  <1>2. ASSUME request[p].phase \in Deciding,
               request'[p].key = Key(p), request'[p].on = On(p),
               request'[p].read = request[p].read,
               request'[p].horizon = request[p].horizon
        PROVE  /\ p \in Live(rows')
               /\ AsConfigured(rows'[p], ConfigOf[request'[p].on])
               /\ Priced(request'[p].horizon, ConfigOf[request'[p].on])
               /\ request'[p].read <= now'
               /\ rows'[p].safe >= KeyExpiry(p)'
               /\ rows'[p].status = "reserved" => rows'[p].safe = KeyExpiry(p)'
               /\ \A i \in Live(rows') :
                    rows'[i].status = "reserved" => rows'[i].safe > request'[p].read
    <2>1. /\ p \in Live(rows)
          /\ AsConfigured(rows[p], ConfigOf[On(p)])
          /\ Priced(request[p].horizon, ConfigOf[On(p)])
          /\ request[p].read <= now
          /\ rows[p].safe >= KeyExpiry(p)
          /\ rows[p].status = "reserved" => rows[p].safe = KeyExpiry(p)
          /\ \A i \in Live(rows) :
               rows[i].status = "reserved" => rows[i].safe > request[p].read
      BY <1>2 DEF IInv, DecisionsPriced
    <2>2. /\ p \in Live(rows') /\ RowStep(rows[p], rows'[p])
          /\ rows[p].safe \in Nat /\ rows'[p].safe \in Nat
      BY <2>1, NextRows
    <2>3. KeyExpiry(p)' = KeyExpiry(p)
      BY <1>2 DEF KeyExpiry
    <2>4. AsConfigured(rows'[p], ConfigOf[request'[p].on])
      BY <1>2, <2>1, <2>2 DEF AsConfigured, RowStep, Keeps
    <2>5. rows'[p].safe >= KeyExpiry(p)'
      BY <1>0, <2>1, <2>2, <2>3 DEF RowStep
    <2>6. rows'[p].status = "reserved" => rows'[p].safe = KeyExpiry(p)'
      BY <2>1, <2>2, <2>3 DEF RowStep
    <2>7. request'[p].read <= now'
      BY <1>0, <1>2, <2>1
    <2>8. ASSUME NEW i \in Live(rows'), rows'[i].status = "reserved"
          PROVE  rows'[i].safe > request'[p].read
      <3>1. CASE i \in Live(rows)
        <4>1. RowStep(rows[i], rows'[i])
          BY <3>1, NextRows
        <4>2. rows[i].status = "reserved" /\ rows'[i].safe = rows[i].safe
          BY <2>8, <4>1 DEF RowStep
        <4> QED
          BY <1>2, <2>1, <3>1, <4>2
      <3>2. CASE i \notin Live(rows)
        <4>1. rows'[i].safe > now /\ rows'[i].safe \in Nat
          BY <1>1, <3>2, NextRows DEF StoreTypeOK, Live, Reservation
        <4> QED
          BY <1>0, <1>2, <2>1, <4>1
      <3> QED
        BY <3>1, <3>2
    <2> QED
      BY <1>2, <2>1, <2>2, <2>4, <2>5, <2>6, <2>7, <2>8
  <1>3. ASSUME NEW o \in Offers, Reserve(p, o), p \in Live(rows')
        PROVE  /\ p \in Live(rows')
               /\ AsConfigured(rows'[p], ConfigOf[request'[p].on])
               /\ Priced(request'[p].horizon, ConfigOf[request'[p].on])
               /\ request'[p].read <= now'
               /\ rows'[p].safe >= KeyExpiry(p)'
               /\ rows'[p].status = "reserved" => rows'[p].safe = KeyExpiry(p)'
               /\ \A i \in Live(rows') :
                    rows'[i].status = "reserved" => rows'[i].safe > request'[p].read
    <2>1. /\ p \notin Live(rows) /\ request'[p].key = KeyOf(p, o)
          /\ request'[p].read = now /\ request'[p].on = On(p)
          /\ request'[p].horizon = HorizonSeconds(o, PolicyOf(p))
          /\ now' = now
      BY <1>3, ReserveMoves
    <2>2. On(p) \in Procs /\ ~Blocks(p, o) /\ TryReserve(StoreRequest(p, o), now)
      BY <1>3 DEF Reserve, IInv, RequestsHosted, Open
    <2>3. StoreRequest(p, o) \in Request /\ StoreRequest(p, o).principal = Agent
      BY <2>2, PayableFits
    <2>4. now \in Readings /\ StoreTypeOK
      BY <1>0, NextRows, ClockBounds DEF Readings
    <2>5. rows'[p] = NewRow(StoreRequest(p, o), now)
      BY <1>3, <2>1, <2>2, <2>3, <2>4, ReserveGently
    <2>6. /\ AsConfigured(rows'[p], ConfigOf[On(p)])
          /\ KeyOf(p, o) = IntentKey(p)
          /\ Priced(HorizonSeconds(o, PolicyOf(p)), ConfigOf[On(p)])
          /\ HorizonSeconds(o, PolicyOf(p)) \in Nat
          /\ rows'[p].safe = now + HorizonSeconds(o, PolicyOf(p)) + Margin
          /\ rows'[p].safe > now
      BY <1>3, <2>5, NewRowOutlives
    <2>7. KeyExpiry(p)' = now + HorizonSeconds(o, PolicyOf(p)) + Margin
      BY <2>1 DEF KeyExpiry
    <2>8. ASSUME NEW i \in Live(rows'), rows'[i].status = "reserved"
          PROVE  rows'[i].safe > now
      <3>1. CASE i \in Live(rows)
        <4>1. rows[i].principal = StoreRequest(p, o).principal
          BY <2>3, <3>1 DEF IInv, RowsOfWallet
        <4> QED
          BY <2>2, <2>3, <2>4, <2>8, <3>1, <4>1, ReserveSweeps
      <3>2. CASE i \notin Live(rows)
        BY <1>1, <3>2
      <3> QED
        BY <3>1, <3>2
    <2>9. rows'[p].safe >= KeyExpiry(p)' /\ request'[p].read <= now'
      BY <1>0, <2>1, <2>6, <2>7
    <2> QED
      BY <1>3, <2>1, <2>6, <2>7, <2>8, <2>9
  <1> QED
    BY <1>2, <1>3, DecisionSteps

LEMMA NextKeysOfIntent == IInv /\ [Next]_vars => KeysOfIntent'
  <1> SUFFICES ASSUME IInv, [Next]_vars, NEW p \in Ids, request'[p].phase \in Keyed
               PROVE  request'[p].key = IntentKey(p)
    BY DEF KeysOfIntent, Key, IntentKey
  <1>0. /\ request \in [Ids -> HttpRequest] /\ request[p] \in HttpRequest
        /\ request[p].phase \in Keyed => Key(p) = IntentKey(p)
    BY DEF IInv, TypeOK, KeysOfIntent
  <1>1. CASE request'[p].phase \in Deciding
    <2>1. ASSUME NEW o \in Offers, Reserve(p, o) PROVE request'[p].key = IntentKey(p)
      <3>1. On(p) \in Procs /\ ~Blocks(p, o)
        BY <2>1 DEF Reserve, IInv, RequestsHosted, Open
      <3> QED
        BY <2>1, <3>1, PayableFits, ReserveMoves
    <2> QED
      BY <1>0, <1>1, <2>1, DecisionSteps DEF Keyed
  <1>2. CASE request'[p].phase = "freeing"
    <2>1. CASE request'[p] = request[p]
      BY <1>0, <1>2, <2>1 DEF Keyed, Key
    <2>2. CASE FailCreation(p) /\ Goto(p, "freeing")
      BY <1>0, <2>2 DEF FailCreation, Goto, HttpRequest, Keyed, Deciding, Key
    <2> QED
      BY <1>2, <2>1, <2>2, FreeingSteps
  <1> QED
    BY <1>1, <1>2 DEF Keyed

-----------------------------------------------------------------------------
(* A payload that left stays held.                                         *)

\* Only a payment writes a payload, and a decided request is not taken back.
LEMMA PayloadSteps ==
  ASSUME IInv, [Next]_vars, NEW p \in Ids, request'[p].validBefore # None
  PROVE  \/ /\ request'[p].validBefore = request[p].validBefore
            /\ request[p].phase \notin Unpaid /\ request'[p].phase \notin Unpaid
         \/ Pay(p)
  <1>0. /\ request \in [Ids -> HttpRequest] /\ request[p] \in HttpRequest
        /\ request[p].phase \in Unpaid => request[p].validBefore = None
    BY DEF IInv, TypeOK, PayloadsHeld
  <1>1. CASE request'[p] = request[p]
    BY <1>0, <1>1
  <1>2. CASE Over(p)
    BY <1>0, <1>2 DEF Over, Unpaid
  <1>3. ASSUME NEW c \in Procs, Accept(p, c) PROVE FALSE
    BY <1>0, <1>3 DEF Accept, HttpRequest, Unpaid
  <1>4. ASSUME NEW o \in Offers, Reserve(p, o) PROVE FALSE
    BY <1>0, <1>4, ReserveMoves DEF Unpaid
  <1>5. ASSUME ClaimKey(p) PROVE FALSE
    BY <1>0, <1>5 DEF ClaimKey, Goto, HttpRequest, Unpaid
  <1>6. ASSUME FailCreation(p), Goto(p, "freeing") PROVE FALSE
    BY <1>0, <1>6 DEF FailCreation, Goto, HttpRequest, Unpaid
  <1> QED
    BY <1>1, <1>2, <1>3, <1>4, <1>5, <1>6, RequestSteps

\* The row of a signed payload outlives it.
LEMMA SignedCovers ==
  ASSUME NEW r \in Reservation, NEW safe \in Nat, NEW f
  PROVE  /\ Signed(r, safe, f).ref = f /\ Signed(r, safe, f).status = "signed"
         /\ Signed(r, safe, f).safe >= safe
  <1>1. /\ r.safe \in Nat
        /\ r = [principal |-> r.principal, mandate |-> r.mandate, payee |-> r.payee,
                amount |-> r.amount, status |-> r.status, safe |-> r.safe,
                recovery |-> r.recovery, window |-> r.window,
                settledAt |-> r.settledAt, ref |-> r.ref]
    BY DEF Reservation
  <1>2. /\ Signed(r, safe, f).ref = f /\ Signed(r, safe, f).status = "signed"
        /\ Signed(r, safe, f).safe = MaxOf(r.safe, safe)
    BY <1>1 DEF Signed
  <1> QED
    BY <1>1, <1>2 DEF MaxOf

LEMMA NextPayloads == IInv /\ [Next]_vars => PayloadsHeld'
  <1> SUFFICES ASSUME IInv, [Next]_vars, NEW p \in Ids, request'[p].validBefore # None
               PROVE  /\ request'[p].phase \notin Unpaid
                      /\ p \in Live(rows') /\ rows'[p].ref = p
                      /\ rows'[p].status \notin {"reserved", "released"}
                      /\ rows'[p].safe >= request'[p].validBefore + Margin
                      /\ rows'[p].status = "expired" =>
                           now' >= rows'[p].safe + rows'[p].window
    BY DEF PayloadsHeld
  <1>0. /\ now \in Nat /\ now' \in Nat /\ now <= now' /\ Margin \in Nat
        /\ StoreTypeOK /\ [StoreNext]_storeVars
        /\ request[p].validBefore \in Nat \cup {None}
    BY NextRows, MarginAndTolerance DEF IInv, TypeOK, HttpRequest
  <1>1. ASSUME request'[p].validBefore = request[p].validBefore
        PROVE  /\ p \in Live(rows') /\ rows'[p].ref = p
               /\ rows'[p].status \notin {"reserved", "released"}
               /\ rows'[p].safe >= request'[p].validBefore + Margin
               /\ rows'[p].status = "expired" => now' >= rows'[p].safe + rows'[p].window
    <2>1. /\ p \in Live(rows) /\ rows[p].ref = p
          /\ rows[p].status \notin {"reserved", "released"}
          /\ rows[p].safe >= request[p].validBefore + Margin
          /\ rows[p].status = "expired" => now >= rows[p].safe + rows[p].window
      BY <1>1 DEF IInv, PayloadsHeld
    <2>2. /\ p \in Live(rows') /\ RowStep(rows[p], rows'[p])
          /\ rows'[p] \in Reservation
      BY <2>1, NextRows
    <2>3. /\ rows'[p].ref = p /\ rows'[p].safe = rows[p].safe
          /\ rows'[p].window = rows[p].window
          /\ rows'[p].status \notin {"reserved", "released"}
      BY <2>1, <2>2 DEF RowStep, Keeps
    <2>4. rows'[p].safe \in Nat /\ rows'[p].window \in Nat
      BY <2>2 DEF Reservation
    <2>5. ASSUME rows'[p].status = "expired"
          PROVE  now' >= rows'[p].safe + rows'[p].window
      <3>1. now >= rows'[p].safe + rows'[p].window
        BY <1>0, <2>1, <2>3, <2>5, ExpiredWaits
      <3> QED
        BY <1>0, <2>4, <3>1
    <2> QED
      BY <1>1, <2>1, <2>2, <2>3, <2>5
  <1>2. CASE Pay(p)
    <2> DEFINE safe == now + request[p].horizon + Margin
    <2>1. /\ p \in Live(rows) /\ rows[p] \in Reservation /\ safe \in Nat
          /\ request'[p] = [NewRequest EXCEPT !.phase = "sent", !.on = On(p),
                              !.validBefore = now + request[p].horizon]
          /\ rows' = [rows EXCEPT ![p] = Signed(rows[p], safe, p)]
      BY <1>2, PaySigns
    <2>2. request'[p].phase = "sent" /\ request'[p].validBefore = now + request[p].horizon
      BY <2>1 DEF NewRequest
    <2>3. p \in Live(rows') /\ rows'[p] = Signed(rows[p], safe, p)
      BY <1>0, <2>1, NextRows DEF StoreTypeOK
    <2>4. rows'[p].ref = p /\ rows'[p].status = "signed" /\ rows'[p].safe >= safe
      BY <2>1, <2>3, SignedCovers
    <2>6. rows'[p].safe >= request'[p].validBefore + Margin
      BY <2>2, <2>4
    <2>7. request'[p].phase \notin Unpaid
      BY <2>2 DEF Unpaid
    <2>8. /\ rows'[p].status \notin {"reserved", "released"}
          /\ rows'[p].status # "expired"
      BY <2>4
    <2> QED
      BY <2>3, <2>4, <2>6, <2>7, <2>8
  <1> QED
    BY <1>1, <1>2, PayloadSteps

-----------------------------------------------------------------------------
(* One payment of an intent counts at a time.                              *)

LEMMA KeyFacts ==
  ASSUME IInv, NEW p \in Ids
  PROVE  /\ IntentKey(p) \in Keys /\ KeyExpiry(p) \in Nat
         /\ \A q \in Ids : IntentKey(p) = IntentKey(q) <=> IntentOf[p] = IntentOf[q]
         /\ dedup \in [Keys -> Nat \cup {None}] /\ None \notin Nat
         /\ request[p].read \in Nat /\ request[p].horizon \in Nat /\ now \in Nat
         /\ request[p].validBefore \in Nat \cup {None}
         /\ request[p].phase \in Keyed => Key(p) = IntentKey(p)
  <1>1. IntentKey(p) \in Keys
    BY IntentsAreIntents DEF IntentKey, Keys
  <1>2. \A q \in Ids : IntentKey(p) = IntentKey(q) <=> IntentOf[p] = IntentOf[q]
    BY DEF IntentKey
  <1>3. /\ request[p].read \in Nat /\ request[p].horizon \in Nat /\ now \in Nat
        /\ request[p].validBefore \in Nat \cup {None}
        /\ dedup \in [Keys -> Nat \cup {None}] /\ None \notin Nat
    BY NoneIsNothing DEF IInv, TypeOK, StoreTypeOK, HttpRequest
  <1>4. KeyExpiry(p) \in Nat
    BY <1>3, MarginAndTolerance DEF KeyExpiry
  <1>5. request[p].phase \in Keyed => Key(p) = IntentKey(p)
    BY DEF IInv, KeysOfIntent
  <1> QED
    BY <1>1, <1>2, <1>3, <1>4, <1>5

LEMMA ClaimMoves ==
  ASSUME IInv, NEW p \in Ids, ClaimKey(p)
  PROVE  /\ request[p].phase = "claiming" /\ request'[p].phase = "allowed"
         /\ request'[p].read = request[p].read
         /\ request'[p].horizon = request[p].horizon
         /\ request'[p].validBefore = request[p].validBefore
         /\ \A q \in Ids \ {p} : request'[q] = request[q]
         /\ rows' = rows /\ now' = now
         /\ dedup' = [dedup EXCEPT ![IntentKey(p)] = KeyExpiry(p)]
         /\ ~(dedup[IntentKey(p)] # None /\ dedup[IntentKey(p)] > request[p].read)
         /\ ~LateRemoval => \A q \in Ids : Freeing(q) => IntentOf[q] # IntentOf[p]
  <1>0. request \in [Ids -> HttpRequest] /\ request[p] \in HttpRequest
    BY DEF IInv, TypeOK
  <1>1. request[p].phase = "claiming" /\ Key(p) = IntentKey(p)
    BY KeyFacts DEF ClaimKey, Keyed, Deciding
  <1>2. request'[p] = [request[p] EXCEPT !.phase = "allowed"]
        /\ \A q \in Ids \ {p} : request'[q] = request[q]
    BY <1>0 DEF ClaimKey, Goto
  <1>3. rows' = rows /\ now' = now /\ ~KeyTaken(p)
        /\ dedup' = [dedup EXCEPT ![IntentKey(p)] = KeyExpiry(p)]
    BY <1>1 DEF ClaimKey, storeVars
  <1>4. ASSUME ~LateRemoval, NEW q \in Ids, Freeing(q)
        PROVE  IntentOf[q] # IntentOf[p]
    <2>1. Key(q) = IntentKey(q)
      BY <1>4, KeyFacts DEF Freeing, Keyed
    <2>2. Key(q) # Key(p)
      BY <1>4 DEF ClaimKey, RemovedInTime, Freeing
    <2> QED
      BY <1>1, <2>1, <2>2, KeyFacts
  <1> QED
    BY <1>0, <1>1, <1>2, <1>3, <1>4 DEF HttpRequest, KeyTaken

\* A key is not claimed while a payment of its intent counts.
LEMMA ClaimAlone ==
  ASSUME TimelyInv, ~LateRemoval, NEW q \in Ids, ClaimKey(q), NEW p \in Ids,
         IntentOf[p] = IntentOf[q]
  PROVE  ~Counts(p)
  <1>0. IInv
    BY DEF TimelyInv
  <1> DEFINE k == IntentKey(p)
  <1>1. /\ ~(dedup[k] # None /\ dedup[k] > request[q].read)
        /\ request[q].phase = "claiming"
    BY <1>0, ClaimMoves DEF IntentKey
  <1>2. /\ request[q].read <= now /\ request[q].read \in Nat /\ now \in Nat
        /\ \A i \in Live(rows) :
             rows[i].status = "reserved" => rows[i].safe > request[q].read
    BY <1>0, <1>1, KeyFacts DEF IInv, DecisionsPriced, Deciding
  <1>3. /\ KeyExpiry(p) \in Nat /\ dedup[k] \in Nat \cup {None} /\ None \notin Nat
        /\ request[p].validBefore \in Nat \cup {None}
    BY <1>0, KeyFacts
  <1>4. ASSUME MayPay(p) PROVE FALSE
    <2>1. /\ p \in Live(rows) /\ rows[p].status = "reserved"
          /\ rows[p].safe = KeyExpiry(p)
      BY <1>0, <1>4 DEF MayPay, IInv, DecisionsPriced, Deciding
    <2>2. dedup[k] = KeyExpiry(p)
      BY <1>4 DEF TimelyInv, KeysClaimed
    <2> QED
      BY <1>1, <1>2, <1>3, <2>1, <2>2
  <1>5. ASSUME Redeemable(p) PROVE FALSE
    <2>1. dedup[k] # None /\ dedup[k] >= request[p].validBefore
      BY <1>5 DEF TimelyInv, KeysClaimed
    <2>2. request[p].validBefore \in Nat /\ now < request[p].validBefore
      BY <1>3, <1>5 DEF Redeemable
    <2> HIDE DEF k
    <2> QED
      BY <1>1, <1>2, <1>3, <2>1, <2>2
  <1>6. ~Freeing(p)
    BY <1>0, ClaimMoves
  <1> QED
    BY <1>4, <1>5, <1>6 DEF Counts

LEMMA MayPaySteps ==
  ASSUME IInv, [Next]_vars, NEW p \in Ids, MayPay(p)'
  PROVE  \/ MayPay(p) /\ KeyExpiry(p)' = KeyExpiry(p)
         \/ ClaimKey(p)
  <1>1. request'[p].phase = "allowed" /\ rows'[p].status = "reserved"
    BY DEF MayPay
  <1>2. CASE /\ request[p].phase \in Deciding
             /\ request'[p].phase = request[p].phase
             /\ request'[p].read = request[p].read
             /\ request'[p].horizon = request[p].horizon
    <2>1. p \in Live(rows)
      BY <1>2 DEF IInv, DecisionsPriced
    <2>2. rows[p].status = "reserved"
      BY <1>1, <2>1, NextRows DEF RowStep
    <2> QED
      BY <1>1, <1>2, <2>2 DEF MayPay, KeyExpiry
  <1>3. ASSUME NEW o \in Offers, Reserve(p, o), p \in Live(rows') PROVE FALSE
    BY <1>1, <1>3, ReserveMoves
  <1> QED
    BY <1>1, <1>2, <1>3, DecisionSteps DEF Deciding

LEMMA RedeemableSteps ==
  ASSUME IInv, [Next]_vars, NEW p \in Ids, Redeemable(p)'
  PROVE  \/ Redeemable(p) /\ request'[p].validBefore = request[p].validBefore
         \/ /\ Pay(p) /\ MayPay(p)
            /\ request'[p].validBefore \in Nat
            /\ request'[p].validBefore <= KeyExpiry(p)
  <1>0. /\ now \in Nat /\ now' \in Nat /\ now <= now'
        /\ request[p].read \in Nat /\ request[p].horizon \in Nat
        /\ request[p].validBefore \in Nat \cup {None}
    BY NextRows, KeyFacts
  <1>1. request'[p].validBefore # None /\ now' < request'[p].validBefore
    BY DEF Redeemable
  <1>2. CASE request'[p].validBefore = request[p].validBefore
    BY <1>0, <1>1, <1>2 DEF Redeemable
  <1>3. CASE Pay(p)
    <2>1. /\ MayPay(p)
          /\ request'[p].validBefore = now + request[p].horizon
          /\ now + request[p].horizon <= request[p].read + request[p].horizon + 1
      BY <1>3, PaySigns DEF NewRequest
    <2> QED
      BY <1>0, <1>3, <2>1, MarginAndTolerance DEF KeyExpiry
  <1> QED
    BY <1>1, <1>2, <1>3, PayloadSteps

LEMMA CountsSteps ==
  ASSUME IInv, [Next]_vars, NEW p \in Ids, Counts(p)'
  PROVE  Counts(p) \/ ClaimKey(p)
  <1>1. ASSUME Freeing(p)' PROVE Freeing(p) \/ MayPay(p)
    <2>1. ASSUME FailCreation(p) PROVE MayPay(p)
      BY <2>1 DEF FailCreation, Release, InStatus, MayPay
    <2> QED
      BY <1>1, <2>1, FreeingSteps DEF Freeing
  <1> QED
    BY <1>1, MayPaySteps, RedeemableSteps DEF Counts

\* A key is written by its claimant only, while the claim counts.
LEMMA KeyStays ==
  ASSUME TimelyInv, ~LateRemoval, [Next]_vars, NEW p \in Ids, Counts(p), Counts(p)'
  PROVE  dedup'[IntentKey(p)] = dedup[IntentKey(p)]
  <1>0. /\ IInv /\ IntentKey(p) \in Keys /\ dedup \in [Keys -> Nat \cup {None}]
        /\ \A q \in Ids : IntentKey(p) = IntentKey(q) <=> IntentOf[p] = IntentOf[q]
    BY KeyFacts DEF TimelyInv
  <1>1. ASSUME NEW q \in Ids, ClaimKey(q)
        PROVE  dedup'[IntentKey(p)] = dedup[IntentKey(p)]
    <2>1. IntentOf[p] # IntentOf[q]
      BY <1>1, ClaimAlone
    <2>2. dedup' = [dedup EXCEPT ![IntentKey(q)] = KeyExpiry(q)]
      BY <1>0, <1>1, ClaimMoves
    <2> QED
      BY <1>0, <2>1, <2>2
  <1>2. ASSUME NEW q \in Ids, FreeKey(q)
        PROVE  dedup'[IntentKey(p)] = dedup[IntentKey(p)]
    <2>1. Freeing(q)
      BY <1>2 DEF FreeKey, Freeing
    <2>2. /\ request'[q].phase = "failed"
          /\ request'[q].validBefore = request[q].validBefore
      <3>1. request'[q] = [NewRequest EXCEPT !.phase = "failed", !.on = On(q),
                             !.validBefore = request[q].validBefore]
        BY <1>0, <1>2 DEF FreeKey, Resolve, IInv, TypeOK
      <3> QED
        BY <3>1 DEF NewRequest
    <2>3. request[q].validBefore = None
      BY <1>0, <2>1 DEF Freeing, IInv, PayloadsHeld, Unpaid
    <2>4. ~Counts(q)'
      BY <2>2, <2>3 DEF Counts, MayPay, Redeemable, Freeing
    <2>5. IntentOf[p] # IntentOf[q]
      <3>1. p # q
        BY <2>4
      <3> QED
        BY <2>1, <3>1 DEF TimelyInv, OneCounts, Counts
    <2>6. Key(q) = IntentKey(q)
      BY <1>0, <2>1, KeyFacts DEF Freeing, Keyed
    <2> QED
      BY <1>0, <1>2, <2>5, <2>6 DEF FreeKey
  <1> QED
    BY <1>1, <1>2, KeySteps

LEMMA NextKeys == TimelyInv /\ ~LateRemoval /\ [Next]_vars => KeysClaimed'
  <1> SUFFICES ASSUME TimelyInv, ~LateRemoval, [Next]_vars, NEW p \in Ids
               PROVE  /\ MayPay(p)' => dedup'[IntentKey(p)] = KeyExpiry(p)'
                      /\ Redeemable(p)' =>
                           /\ dedup'[IntentKey(p)] # None
                           /\ dedup'[IntentKey(p)] >= request'[p].validBefore
    BY DEF KeysClaimed, IntentKey
  <1>0. /\ IInv /\ IntentKey(p) \in Keys /\ KeyExpiry(p) \in Nat /\ None \notin Nat
        /\ dedup \in [Keys -> Nat \cup {None}]
    BY KeyFacts DEF TimelyInv
  <1>1. ASSUME MayPay(p)' PROVE dedup'[IntentKey(p)] = KeyExpiry(p)'
    <2>1. CASE MayPay(p) /\ KeyExpiry(p)' = KeyExpiry(p)
      <3>1. dedup[IntentKey(p)] = KeyExpiry(p)
        BY <2>1 DEF TimelyInv, KeysClaimed
      <3>2. dedup'[IntentKey(p)] = dedup[IntentKey(p)]
        BY <1>1, <2>1, KeyStays DEF Counts
      <3> QED
        BY <2>1, <3>1, <3>2
    <2>2. CASE ClaimKey(p)
      <3>1. dedup'[IntentKey(p)] = KeyExpiry(p)
        BY <1>0, <2>2, ClaimMoves
      <3>2. KeyExpiry(p)' = KeyExpiry(p)
        BY <1>0, <2>2, ClaimMoves DEF KeyExpiry
      <3> QED
        BY <3>1, <3>2
    <2> QED
      BY <1>0, <1>1, <2>1, <2>2, MayPaySteps
  <1>2. ASSUME Redeemable(p)'
        PROVE  /\ dedup'[IntentKey(p)] # None
               /\ dedup'[IntentKey(p)] >= request'[p].validBefore
    <2>1. CASE Redeemable(p) /\ request'[p].validBefore = request[p].validBefore
      <3>1. /\ dedup[IntentKey(p)] # None
            /\ dedup[IntentKey(p)] >= request[p].validBefore
        BY <2>1 DEF TimelyInv, KeysClaimed
      <3>2. dedup'[IntentKey(p)] = dedup[IntentKey(p)]
        BY <1>2, <2>1, KeyStays DEF Counts
      <3> QED
        BY <2>1, <3>1, <3>2
    <2>2. CASE /\ MayPay(p) /\ request'[p].validBefore \in Nat
               /\ request'[p].validBefore <= KeyExpiry(p)
      <3>1. dedup[IntentKey(p)] = KeyExpiry(p)
        BY <2>2 DEF TimelyInv, KeysClaimed
      <3>2. dedup'[IntentKey(p)] = dedup[IntentKey(p)]
        BY <1>2, <2>2, KeyStays DEF Counts
      <3> QED
        BY <1>0, <2>2, <3>1, <3>2
    <2> QED
      BY <1>0, <1>2, <2>1, <2>2, RedeemableSteps
  <1> QED
    BY <1>1, <1>2

LEMMA NextOneCounts == TimelyInv /\ ~LateRemoval /\ [Next]_vars => OneCounts'
  <1> SUFFICES ASSUME TimelyInv, ~LateRemoval, [Next]_vars, NEW p \in Ids, NEW q \in Ids,
                      IntentOf[p] = IntentOf[q], Counts(p)', Counts(q)'
               PROVE  p = q
    BY DEF OneCounts
  <1>0. IInv
    BY DEF TimelyInv
  <1>1. CASE Counts(p) /\ Counts(q)
    BY <1>1 DEF TimelyInv, OneCounts
  <1>2. CASE ClaimKey(p) /\ ClaimKey(q)
    BY <1>0, <1>2, ClaimMoves
  <1>3. ASSUME Counts(p), ClaimKey(q) PROVE FALSE
    BY <1>3, ClaimAlone
  <1>4. ASSUME ClaimKey(p), Counts(q) PROVE FALSE
    BY <1>4, ClaimAlone
  <1> QED
    BY <1>0, <1>1, <1>2, <1>3, <1>4, CountsSteps

-----------------------------------------------------------------------------
(* Theorems.                                                               *)

LEMMA NextHolds == IInv /\ [Next]_vars => IInv'
  BY NextTypeOK, NextHosted, NextRowsOfWallet, NextDecisions, NextKeysOfIntent,
     NextPayloads DEF IInv

LEMMA IInvHolds == Spec => []IInv
  BY InitHolds, NextHolds, PTL DEF Spec

LEMMA TimelyInvHolds ==
  ASSUME ~LateRemoval
  PROVE  Spec => []TimelyInv
  <1>1. TimelyInv /\ [Next]_vars => TimelyInv'
    BY NextHolds, NextKeys, NextOneCounts DEF TimelyInv
  <1> QED
    BY <1>1, InitHolds, PTL DEF Spec

\* Each variable keeps its type: one process at most listens on the port, and an
\* open request belongs to a process that still serves or drains.
THEOREM TypeCorrect == Spec => []TypeOK
  <1>1. IInv => TypeOK
    BY DEF IInv
  <1> QED
    BY <1>1, IInvHolds, PTL

\* The processes are clients of the store that stay within its specification:
\* starts, crashes, drained requests and payloads signed a second late are each
\* one operation of the store or none.
THEOREM ImplementsStore == Spec => StoreSpec
  <1>1. Init => StoreInit
    BY DEF Init
  <1> QED
    BY <1>1, IInvHolds, NextIsStoreNext, PTL DEF Spec, StoreSpec

\* So the caps hold for what all the processes spend together, whatever their
\* windows, and across every crash and restart.
THEOREM ProxyKeepsLimits == Spec => []LimitsHold
  BY ImplementsStore, LimitsAlwaysHold, PTL

\* Two payments for one intent are never redeemable at the same time, however
\* many processes overlap and whatever horizons they are offered: the key of an
\* intent outlives what it was claimed for.  This needs that a failed request
\* removes its key before another one claims it; nothing else frees a key that
\* a payment counts on.
THEOREM PaidOncePerIntent ==
  ASSUME ~LateRemoval
  PROVE  Spec => []OneLivePayloadPerIntent
  <1>1. TimelyInv => OneLivePayloadPerIntent
    <2> SUFFICES ASSUME TimelyInv, NEW p \in Ids, NEW q \in Ids,
                        p # q, IntentOf[p] = IntentOf[q],
                        request[p].validBefore # None, request[q].validBefore # None,
                        ~(now >= request[p].validBefore),
                        ~(now >= request[q].validBefore)
                 PROVE  FALSE
      BY DEF OneLivePayloadPerIntent
    <2>1. /\ now \in Nat
          /\ request[p].validBefore \in Nat /\ request[q].validBefore \in Nat
      BY KeyFacts DEF TimelyInv
    <2>2. Redeemable(p) /\ Redeemable(q)
      BY <2>1 DEF Redeemable
    <2> QED
      BY <2>2 DEF TimelyInv, OneCounts, Counts
  <1> QED
    BY <1>1, TimelyInvHolds, PTL

\* A payload that left is held by its own row for as long as it may be redeemed,
\* and a window longer, whatever becomes of the process that sent it.
THEOREM HeldAsLongAsItCounts == Spec => []HeldWhileItCounts
  <1>1. IInv => HeldWhileItCounts
    <2> SUFFICES ASSUME IInv, NEW p \in Ids, request[p].validBefore # None
                 PROVE  /\ p \in Live(rows) /\ rows[p].ref = p
                        /\ rows[p].status \notin {"reserved", "released"}
                        /\ rows[p].status = "expired" =>
                             now >= request[p].validBefore + Margin + rows[p].window
      BY DEF HeldWhileItCounts
    <2>1. /\ p \in Live(rows) /\ rows[p].ref = p
          /\ rows[p].status \notin {"reserved", "released"}
          /\ rows[p].safe >= request[p].validBefore + Margin
          /\ rows[p].status = "expired" => now >= rows[p].safe + rows[p].window
      BY DEF IInv, PayloadsHeld
    <2>2. /\ now \in Nat /\ request[p].validBefore \in Nat
          /\ rows[p].safe \in Nat /\ rows[p].window \in Nat /\ Margin \in Nat
      BY <2>1, KeyFacts, MarginAndTolerance
         DEF IInv, TypeOK, StoreTypeOK, Live, Reservation
    <2> QED
      BY <2>1, <2>2
  <1> QED
    BY <1>1, IInvHolds, PTL

\* What leaves is what the operator allowed: the pinned payee, the pinned and the
\* maximal amount, and an expiry within a second of what the payment was priced
\* for, which is the ceiling or within the ceiling and the window.
THEOREM PaysAsConfigured == Spec => PaidAsConfigured
  <1> DEFINE Leaving ==
        \A p \in Ids :
          request[p].validBefore = None /\ request'[p].validBefore # None =>
            LET k == ConfigOf[On(p)] IN
              /\ k.pin # None => /\ rows'[p].payee = k.pin.payTo
                                 /\ rows'[p].amount <= k.pin.maxAmount
              /\ k.maxPayment # None => rows'[p].amount <= k.maxPayment
              /\ \/ request[p].horizon = k.ceiling
                 \/ request[p].horizon <= Least(k.ceiling, k.window)
              /\ request'[p].validBefore <= request[p].read + request[p].horizon + 1
  <1>1. IInv /\ [Next]_vars => Leaving
    <2> SUFFICES ASSUME IInv, [Next]_vars, NEW p \in Ids,
                        request[p].validBefore = None, request'[p].validBefore # None
                 PROVE  LET k == ConfigOf[On(p)] IN
                          /\ AsConfigured(rows'[p], k)
                          /\ Priced(request[p].horizon, k)
                          /\ request'[p].validBefore <=
                               request[p].read + request[p].horizon + 1
      BY DEF AsConfigured, Priced
    <2>1. Pay(p)
      BY PayloadSteps
    <2>2. /\ p \in Live(rows) /\ MayPay(p)
          /\ request'[p].validBefore = now + request[p].horizon
          /\ now + request[p].horizon <= request[p].read + request[p].horizon + 1
      BY <2>1, PaySigns DEF NewRequest
    <2>3. /\ AsConfigured(rows[p], ConfigOf[On(p)])
          /\ Priced(request[p].horizon, ConfigOf[On(p)])
      BY <2>2 DEF MayPay, IInv, DecisionsPriced, Deciding
    <2>4. AsConfigured(rows'[p], ConfigOf[On(p)])
      BY <2>2, <2>3, NextRows DEF AsConfigured, RowStep, Keeps
    <2> QED
      BY <2>2, <2>3, <2>4
  <1>2. IInv /\ [Next]_vars => [Leaving]_vars
    BY <1>1
  <1> HIDE DEF Leaving
  <1>3. Spec => [][Leaving]_vars
    BY <1>2, IInvHolds, PTL DEF Spec
  <1> QED
    BY <1>3 DEF PaidAsConfigured, Leaving
=============================================================================
