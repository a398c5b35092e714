----------------------------- MODULE PaymentProxy -----------------------------
(***************************************************************************)
(* The payment proxy (agentpay-proxy: cli.ts, proxy.ts): HTTP requests of  *)
(* agents, each one fetch that may be paid for through the guard's hooks,  *)
(* in a process that recovers its store before it listens, latches on      *)
(* lifecycle failures, drains on shutdown and may die at any moment.       *)
(*                                                                         *)
(* The processes share one database: an old one may still drain, or a      *)
(* second one be started by mistake, while another serves.  The store is   *)
(* that of ReservationStore (one step per operation, rows survive), the    *)
(* pure decision that of Evaluate, and the hooks take their own entries:   *)
(* GuardHooks models how entries cross.  Time is counted in seconds.       *)
(***************************************************************************)
EXTENDS ReservationStore

CONSTANTS
  Procs,       \* processes, each of which is started once
  Agent,       \* principalId: the wallet that the processes share
  Intents,     \* intent ids
  IntentOf,    \* [Ids -> Intents]: the caller's intent id, or a fresh one for a
               \* request that has none, which is a purchase of its own
  Offers,      \* requirements that merchants ask for
  Configs,     \* environments that processes are started with
  ConfigOf,    \* [Procs -> Configs]
  NotANumber,  \* a horizon that is none
  Margin,      \* reorgMarginMs + maxClockSkewMs
  LateRemoval  \* the removal of a key may wait until another request has claimed it

ASSUME IntentsAreIntents == IntentOf \in [Ids -> Intents]
ASSUME ConfigsAreConfigs == ConfigOf \in [Procs -> Configs]
ASSUME LateRemoval \in BOOLEAN
ASSUME NoneIsNothing ==
  None \notin Nat /\ None \notin Procs /\ None \notin Intents
ASSUME WalletPays == Agent \in Principals /\ Ids \subseteq Refs

\* proxy.ts fixes the margin at seven seconds.  A payload may be signed a second
\* after it was priced.
ASSUME MarginAndTolerance == Margin \in Nat \ {0} /\ 1 <= Tolerance

\* An environment has numbers for its limits, and a pin a payee and an amount.
ASSUME ConfigBounds ==
  \A k \in Configs :
    /\ k.window \in Windows /\ k.ceiling \in Nat
    /\ k.pin # None => k.pin.payTo # None /\ k.pin.maxAmount # None
    /\ \A h \in 0..k.ceiling : h + Margin \in Validities

\* A merchant may name any payee or none, and any integer for its amount.
ASSUME OfferBounds ==
  \A o \in Offers : /\ o.payTo \in Payees \cup {None}
                    /\ o.amount \in Int
                    /\ o.amount >= 0 => o.amount \in Amounts
ASSUME MandateIds == {"pinned-mandate", "__no_mandate__"} \subseteq Mandates

INSTANCE Evaluate

VARIABLES
  dedup,    \* keys in the store: [Keys -> expiry or None]
  proc,     \* the state of each process
  port,     \* the process that listens
  healthy,  \* the guard of each process is not latched
  request   \* the HTTP requests: [Ids -> HttpRequest]

proxyVars == <<dedup, proc, port, healthy, request>>
vars == <<rows, now, proxyVars>>

Open == {"fetching", "claiming", "allowed", "freeing", "sent", "failed"}

\* Every request has an intent, and there is one asset to pay with.
Keys == {<<"intent", i, "usdc">> : i \in Intents}

HttpRequest ==
  [phase : Open \cup {"idle", "answered", "done"},
   on : Procs \cup {None}, key : Keys \cup {None}, read : Nat, horizon : Nat,
   validBefore : Nat \cup {None}]

NewRequest ==
  [phase |-> "idle", on |-> None, key |-> None, read |-> 0, horizon |-> 0,
   validBefore |-> None]

On(p) == request[p].on

-----------------------------------------------------------------------------
(* What createPaymentProxy makes of its configuration.                     *)

Policy(k) ==
  [profile |-> IF k.pin = None THEN "budget-only" ELSE "mandate-required",
   window |-> k.window, ceiling |-> k.ceiling, maxPayment |-> k.maxPayment,
   schemes |-> {"exact"}, networks |-> {"base-sepolia"}, assets |-> {"usdc"},
   payees |-> {}]

PinnedMandate(k) ==
  IF k.pin = None THEN None
  ELSE [id |-> "pinned-mandate", payTo |-> k.pin.payTo, maxAmount |-> k.pin.maxAmount,
        asset |-> "usdc", network |-> "base-sepolia", expiry |-> None]

\* The dedup context travels with the request (AsyncLocalStorage).
Context(p) ==
  [paymentIdentifier |-> None, intentId |-> IntentOf[p], mandateId |-> None]

PolicyOf(p) == Policy(ConfigOf[On(p)])
MandateOf(p) == PinnedMandate(ConfigOf[On(p)])

KeyOf(p, o) == DeriveDedupKey(o, Context(p), MandateId(MandateOf(p), Context(p)))

Key(p) == request[p].key

StoreRequest(p, o) ==
  [principal |-> Agent, payee |-> o.payTo, amount |-> o.amount,
   mandate |-> IF MandateOf(p) = None THEN "__no_mandate__" ELSE MandateOf(p).id,
   window |-> PolicyOf(p).window, validity |-> Validity(o, PolicyOf(p))]

Goto(p, phase) == request' = [request EXCEPT ![p].phase = phase]

\* The decision is over: what is left of a request is its payload, if any.
Resolve(p, phase) ==
  request' = [request EXCEPT ![p] =
                [NewRequest EXCEPT !.phase = phase, !.on = On(p),
                                   !.validBefore = request[p].validBefore]]

Ended(r) == [NewRequest EXCEPT !.phase = "done", !.validBefore = r.validBefore]

End(p) == request' = [request EXCEPT ![p] = Ended(@)]

Become(c, state) == proc' = [proc EXCEPT ![c] = state]

\* The process ends, and with it the latch and the requests in its memory.
Vanish(c) ==
  /\ Become(c, "ended")
  /\ healthy' = [healthy EXCEPT ![c] = TRUE]
  /\ request' = [p \in Ids |-> IF On(p) = c THEN Ended(request[p]) ELSE request[p]]

-----------------------------------------------------------------------------
(* The process.                                                            *)

\* serve: open the store and recover, with the window of this start.
Recover(c) ==
  /\ proc[c] = "new"
  /\ RecoverAfterRestart(now, ConfigOf[c].window)
  /\ Become(c, "recovered")
  /\ UNCHANGED <<dedup, port, healthy, request>>

ListenAnyway(c) ==
  /\ proc[c] = "recovered"
  /\ Become(c, "serving")
  /\ port' = IF port = None THEN c ELSE port
  /\ UNCHANGED <<storeVars, dedup, healthy, request>>

Listen(c) ==
  /\ proc[c] = "recovered"
  /\ port = None
  /\ Become(c, "serving")
  /\ port' = c
  /\ UNCHANGED <<storeVars, dedup, healthy, request>>

\* No wallet, a bad configuration, or a port that another process has: the
\* store has been recovered by then.
StartFails(c) ==
  /\ proc[c] = "recovered"
  /\ Vanish(c)
  /\ UNCHANGED <<storeVars, dedup, port>>

\* A signal or a server error: no new connections.
Shutdown(c) ==
  /\ proc[c] = "serving"
  /\ Become(c, "stopping")
  /\ port' = None
  /\ UNCHANGED <<storeVars, dedup, healthy, request>>

\* Every response is out: the store is closed, whatever reconciliation still
\* runs after one fails and is forgotten.
Exit(c) ==
  /\ proc[c] = "stopping"
  /\ \A p \in Ids : On(p) = c => request[p].phase \notin Open
  /\ Vanish(c)
  /\ UNCHANGED <<storeVars, dedup, port>>

Crash(c) ==
  /\ proc[c] \notin {"new", "ended"}
  /\ Vanish(c)
  /\ port' = IF port = c THEN None ELSE port
  /\ UNCHANGED <<storeVars, dedup>>

-----------------------------------------------------------------------------
(* POST /paid-fetch, up to the fetch.                                      *)

Accept(p, c) ==
  /\ request[p].phase = "idle"
  /\ port = c /\ healthy[c]
  /\ request' = [request EXCEPT ![p].phase = "fetching", ![p].on = c]
  /\ UNCHANGED <<storeVars, dedup, proc, port, healthy>>

\* 503 when latched; 400 for a target or an intent id that is not acceptable.
Reject(p, c) ==
  /\ request[p].phase = "idle"
  /\ port = c
  /\ End(p)
  /\ UNCHANGED <<storeVars, dedup, proc, port, healthy>>

\* The resource is free, or the merchant cannot be reached.
FetchUnpaid(p) ==
  /\ request[p].phase = "fetching"
  /\ Resolve(p, "answered") \/ Resolve(p, "failed")
  /\ UNCHANGED <<storeVars, dedup, proc, port, healthy>>

-----------------------------------------------------------------------------
(* 402: the payment hooks.                                                 *)

Blocks(p, o) == ~healthy[On(p)] \/ ~Payable(o, MandateOf(p), PolicyOf(p), now)

Block(p, o) ==
  /\ request[p].phase = "fetching"
  /\ Blocks(p, o)
  /\ Resolve(p, "failed")
  /\ UNCHANGED <<storeVars, dedup, proc, port, healthy>>

Reserve(p, o) ==
  /\ request[p].phase = "fetching"
  /\ ~Blocks(p, o)
  /\ TryReserve(StoreRequest(p, o), now)
  /\ Live(rows') \subseteq Live(rows) \cup {p}
  /\ request' = [request EXCEPT
       ![p].phase = IF p \in Live(rows') THEN "claiming" ELSE "failed",
       ![p].key = KeyOf(p, o),
       ![p].read = now,
       ![p].horizon = HorizonSeconds(o, PolicyOf(p))]
  /\ UNCHANGED <<dedup, proc, port, healthy>>

KeyTaken(p) == dedup[Key(p)] # None /\ dedup[Key(p)] > request[p].read

KeyForHorizonOnly(p) == request[p].read + request[p].horizon

\* The time to live of the key: that of the priced authorization, with margin.
KeyExpiry(p) == request[p].read + request[p].horizon + Margin

\* Not a check of the code.  A failed request releases its hold and removes its
\* key in two operations: this says that the second is over before the key, which
\* by then has expired, is claimed by another request.
RemovedInTime(p) ==
  LateRemoval \/ \A q \in Ids : request[q].phase = "freeing" => Key(q) # Key(p)

ClaimKey(p) ==
  /\ request[p].phase = "claiming"
  /\ ~KeyTaken(p)
  /\ RemovedInTime(p)
  /\ dedup' = [dedup EXCEPT ![Key(p)] = KeyExpiry(p)]
  /\ Goto(p, "allowed")
  /\ UNCHANGED <<storeVars, proc, port, healthy>>

\* The same purchase: the hold is given back.
RefuseDuplicate(p) ==
  /\ request[p].phase = "claiming"
  /\ KeyTaken(p)
  /\ Release(p)
  /\ Resolve(p, "failed")
  /\ UNCHANGED <<dedup, proc, port, healthy>>

\* What the after hook accepts of the payload that the client signed.
WithinPrice(p, validBefore) ==
  validBefore <= request[p].read + request[p].horizon + 1

\* The payload is signed and recorded, and leaves.
Pay(p) ==
  LET validBefore == now + request[p].horizon IN
    /\ request[p].phase = "allowed"
    /\ WithinPrice(p, validBefore)
    /\ Sign(p, validBefore + Margin, p)
    /\ request' = [request EXCEPT ![p] = [NewRequest EXCEPT
         !.phase = "sent", !.on = On(p), !.validBefore = validBefore]]
    /\ UNCHANGED <<dedup, proc, port, healthy>>

\* The signer fails, another hook aborts the payment, or its payload diverged:
\* the hold is given back.  The key is kept if the entry was contended.
FailCreation(p) ==
  /\ request[p].phase = "allowed"
  /\ Release(p)
  /\ Goto(p, "freeing") \/ Resolve(p, "failed")
  /\ UNCHANGED <<dedup, proc, port, healthy>>

\* The key is removed, by its name, whoever claimed it last.
FreeKey(p) ==
  /\ request[p].phase = "freeing"
  /\ dedup' = [dedup EXCEPT ![Key(p)] = None]
  /\ Resolve(p, "failed")
  /\ UNCHANGED <<storeVars, proc, port, healthy>>

\* The payment is settled, its outcome is not known, or the response says
\* neither and leaves the row as it is.
Respond(p) ==
  /\ request[p].phase = "sent"
  /\ Settle(p, now) \/ LoseTrack(p) \/ UNCHANGED storeVars
  /\ Resolve(p, "answered") \/ Resolve(p, "failed")
  /\ UNCHANGED <<dedup, proc, port, healthy>>

-----------------------------------------------------------------------------
(* Failures of the guard, reconciliation, and the answer.                  *)

Expected == [claiming |-> "reserved", allowed |-> "reserved", sent |-> "signed"]

\* Another process has recovered the row, or a sweep has expired it: the
\* transition fails, and the guard latches.  Nothing leaves.
Latch(p) ==
  /\ request[p].phase \in DOMAIN Expected
  /\ ~InStatus(p, Expected[request[p].phase])
  /\ request[p].phase = "claiming" => KeyTaken(p)
  /\ healthy' = [healthy EXCEPT ![On(p)] = FALSE]
  /\ Resolve(p, "failed")
  /\ UNCHANGED <<storeVars, dedup, proc, port>>

\* After the answer to a paid or free fetch, before the answer to a failed one.
Reconcile(p) ==
  /\ \/ request[p].phase = "answered"
     \/ request[p].phase = "failed" /\ healthy[On(p)]
  /\ \/ ReleaseExpired(now, PolicyOf(p).window) /\ UNCHANGED healthy
     \/ healthy' = [healthy EXCEPT ![On(p)] = FALSE] /\ UNCHANGED storeVars
  /\ End(p)
  /\ UNCHANGED <<dedup, proc, port>>

\* A latched guard is not asked to reconcile: 503.
ReportLatched(p) ==
  /\ request[p].phase = "failed"
  /\ ~healthy[On(p)]
  /\ End(p)
  /\ UNCHANGED <<storeVars, dedup, proc, port, healthy>>

AnswerOnly(c) ==
  /\ port = c /\ healthy[c]
  /\ UNCHANGED vars

\* One more request for a free resource, from Accept to Reconcile.
FreeRequest(c) ==
  /\ port = c /\ healthy[c]
  /\ ReleaseExpired(now, ConfigOf[c].window)
  /\ UNCHANGED proxyVars

Clock == Tick /\ UNCHANGED proxyVars

-----------------------------------------------------------------------------
Init ==
  /\ StoreInit
  /\ dedup = [k \in Keys |-> None]
  /\ proc = [c \in Procs |-> "new"]
  /\ port = None
  /\ healthy = [c \in Procs |-> TRUE]
  /\ request = [p \in Ids |-> NewRequest]

\* What the process does by itself, and what merchants answer.
Handle(p) ==
  \/ FetchUnpaid(p)
  \/ \E o \in Offers : Block(p, o) \/ Reserve(p, o)
  \/ ClaimKey(p) \/ RefuseDuplicate(p)
  \/ Pay(p) \/ FailCreation(p) \/ FreeKey(p) \/ Respond(p)
  \/ Latch(p) \/ Reconcile(p) \/ ReportLatched(p)

Next ==
  \/ \E c \in Procs : \/ Recover(c) \/ Listen(c) \/ StartFails(c) \/ Shutdown(c)
                      \/ Exit(c) \/ Crash(c) \/ FreeRequest(c)
  \/ \E p \in Ids, c \in Procs : Accept(p, c) \/ Reject(p, c)
  \/ \E p \in Ids : Handle(p)
  \/ Clock

\* Agents keep asking.  Nothing is assumed of the handlers, of merchants (a
\* fetch has no timeout of its own) or of those who start processes.
Fairness == WF_vars(\E c \in Procs : FreeRequest(c))

Spec == Init /\ [][Next]_vars /\ Fairness

-----------------------------------------------------------------------------
(* Properties.                                                             *)

TypeOK ==
  /\ StoreTypeOK
  /\ dedup \in [Keys -> Nat \cup {None}]
  /\ proc \in [Procs -> {"new", "recovered", "serving", "stopping", "ended"}]
  /\ port \in Procs \cup {None}
  /\ healthy \in [Procs -> BOOLEAN]
  /\ request \in [Ids -> HttpRequest]
  /\ \A c \in Procs : proc[c] = "serving" <=> port = c
  /\ \A p \in Ids : request[p].phase \in Open => proc[On(p)] \in {"serving", "stopping"}

\* Two payments for one intent are never redeemable at the same time: whatever
\* price, payee and horizon the merchant asks for on each presentation, and
\* whether the second goes to the same process, to one that overlaps with it,
\* or to one that was started after a crash, provided that keys are removed in
\* time: a removal that waits until its key has expired and was claimed again
\* takes it from the payment of another request.
OneLivePayloadPerIntent ==
  \A p, q \in Ids :
    /\ p # q /\ IntentOf[p] = IntentOf[q]
    /\ request[p].validBefore # None /\ request[q].validBefore # None
    => now >= request[p].validBefore \/ now >= request[q].validBefore

\* A payload that left is held by its own row for as long as it may be redeemed,
\* and a window longer: drained and crashed processes, starts that fail after
\* they recovered, other windows and overlapping sweeps never give it up.
HeldWhileItCounts ==
  \A p \in Ids :
    request[p].validBefore # None =>
      /\ p \in Live(rows) /\ rows[p].ref = p
      /\ rows[p].status \notin {"reserved", "released"}
      /\ rows[p].status = "expired" =>
           now >= request[p].validBefore + Margin + rows[p].window

\* Whatever a merchant offers, a payment leaves only to the payee and within
\* the amounts that the operator set, and expires within a second of what it was
\* priced for.  A lifetime that the merchant names is bounded by the ceiling and
\* by the window, one that it leaves out is the ceiling.
PaidAsConfigured ==
  [][\A p \in Ids :
       request[p].validBefore = None /\ request'[p].validBefore # None =>
         LET k == ConfigOf[On(p)] IN
           /\ k.pin # None => /\ rows'[p].payee = k.pin.payTo
                              /\ rows'[p].amount <= k.pin.maxAmount
           /\ k.maxPayment # None => rows'[p].amount <= k.maxPayment
           /\ \/ request[p].horizon = k.ceiling
              \/ request[p].horizon <= Least(k.ceiling, k.window)
           /\ request'[p].validBefore <= request[p].read + request[p].horizon + 1]_vars

\* What the operator is told: no payment outlives the ceiling or the window, by
\* more than the second of latency.
LifetimeWithinWindow ==
  [][\A p \in Ids :
       request[p].validBefore = None /\ request'[p].validBefore # None =>
         LET k == ConfigOf[On(p)] IN
           request'[p].validBefore <=
             request[p].read + Least(k.ceiling, k.window) + 1]_vars

\* The holds that no window asked for can extend any more.
Overdue ==
  {i \in Live(rows) : /\ rows[i].status \in Pending
                      /\ now >= rows[i].recovery
                      /\ \A w \in Windows : now >= rows[i].safe + w}

\* Nothing expires holds but requests: as long as agents keep asking and the
\* guard is healthy, time and again no hold is left past its deadline: neither one
\* of a payment that was in flight when its process died, nor one of a request
\* that still waits for its signer.
DueHoldsAreGivenUp ==
  []<>(Overdue = {} \/ \A c \in Procs : ~(port = c /\ healthy[c]))
=============================================================================
