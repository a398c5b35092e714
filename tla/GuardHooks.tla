------------------------------ MODULE GuardHooks ------------------------------
(***************************************************************************)
(* The payment hooks of agentpay-guard (guard.ts, with evaluate.ts) over   *)
(* the store of ReservationStore.  Every payment is a process that runs    *)
(* the before hook, is signed by the x402 client, and runs the after, the  *)
(* failure and the response hook.  The hooks of different payments         *)
(* interleave at every await: a step is the code between two of them.      *)
(*                                                                         *)
(* The hooks of one payment find each other through two tables kept in     *)
(* memory: a queue for each requirements signature before the payment is   *)
(* signed, the nonce of the signed authorization after.  Time is counted   *)
(* in seconds.  A reservation id and a nonce are named after the payment   *)
(* that draws them: both are random and fresh.                             *)
(***************************************************************************)
EXTENDS ReservationStore, Sequences

CONSTANTS
  RequestOf,  \* [Ids -> Request]: what each payment asks of the budget
  Keys,       \* dedup keys
  KeyOf,      \* [Ids -> Keys or None]: deriveDedupKey of each payment
  Margin,     \* reorgMarginMs + maxClockSkewMs
  MayThrow,   \* store operations may throw
  Foreign,    \* the client has other hooks that may abort a payment
  HookTime    \* bound on how long the hooks of one payment run, signing included

ASSUME RequestsAreRequests == RequestOf \in [Ids -> Request]
ASSUME KeysAreKeys == KeyOf \in [Ids -> Keys \cup {None}]
ASSUME MarginBound ==
  Margin \in Nat /\ \A p \in Ids : Margin <= RequestOf[p].validity
ASSUME NoncesAreRefs == Ids \subseteq Refs /\ None \notin Ids
\* A guard pays for one principal (principalId).
ASSUME OnePrincipal ==
  \A p, q \in Ids : RequestOf[p].principal = RequestOf[q].principal
ASSUME NoneIsNoInstant == None \notin Nat
ASSUME FaultBounds ==
  MayThrow \in BOOLEAN /\ Foreign \in BOOLEAN /\ HookTime \in Nat

VARIABLES
  dedup,          \* [Keys -> Nat or None]: when each key expires, in the store
  pending,        \* [signature -> Seq(Entry)]: the pre-sign queues
  signedByNonce,  \* [Ids -> Entry or None]: by the nonce of the payment
  healthy,        \* unhealthyReason === undefined
  pc,             \* where each payment is
  read,           \* the clock, as the before hook of each payment read it
  validBefore,    \* what each payment was signed with, None before
  held            \* the entry that a hook of the payment has taken

hookVars == <<pending, signedByNonce, held>>
guardVars == <<dedup, pending, signedByNonce, healthy, pc, read, validBefore, held>>
vars == <<rows, now, guardVars>>

-----------------------------------------------------------------------------
(* Data.                                                                   *)

Entry == [id : Ids, contended : BOOLEAN]

ASSUME NoneIsNoEntry == None \notin Entry

Signature(p) == <<RequestOf[p].payee, RequestOf[p].amount>>

Signatures == {Signature(p) : p \in Ids}

Horizon(p) == RequestOf[p].validity - Margin

KeyForHorizonOnly(p) == read[p] + Horizon(p)

\* When the dedup key of a payment expires, and when its payload was signed.
KeyExpiry(p) == read[p] + RequestOf[p].validity

SignedAt(p) == validBefore[p] - Horizon(p)

\* What the after hook accepts: priced, plus a second of signing latency.
MismatchTolerance == 1

ASSUME MismatchWithinTolerance == MismatchTolerance <= Tolerance

Diverged(p, e) ==
  validBefore[p] > read[e.id] + Horizon(e.id) + MismatchTolerance

StampNewest(q) ==
  IF Len(q) > 1 THEN [q EXCEPT ![Len(q)].contended = TRUE] ELSE q

\* An entry that ever shared its queue cannot be told from its siblings.
MarkContended(q) ==
  IF Len(q) > 1 THEN [k \in DOMAIN q |-> [q[k] EXCEPT !.contended = TRUE]] ELSE q

\* The control states of the hooks: those that run, and those of a payment
\* whose payload has left.
Running == {"evaluate", "dedup", "duplicate", "allowed", "withdraw", "signing",
            "after", "record", "failing", "release", "unkey"}
Left == {"sent", "settle", "lose", "paid", "unpaid", "done"}

Goto(p, l) == pc' = [pc EXCEPT ![p] = l]

DropHeld(p) == held' = [held EXCEPT ![p] = None]

-----------------------------------------------------------------------------
(* The before hook.                                                        *)

Begin(p) ==
  /\ pc[p] = "idle" /\ healthy
  /\ Goto(p, "evaluate")
  /\ read' = [read EXCEPT ![p] = now]
  /\ UNCHANGED <<storeVars, dedup, hookVars, healthy, validBefore>>

Refuse(p) ==
  /\ pc[p] = "idle" /\ ~healthy
  /\ Goto(p, "aborted")
  /\ UNCHANGED <<storeVars, dedup, hookVars, healthy, read, validBefore>>

\* tryReserve, at the instant read before the mandate was verified.
Reserve(p) ==
  /\ pc[p] = "evaluate"
  /\ read[p] \in Readings
  /\ TryReserve(RequestOf[p], read[p])
  /\ Live(rows') \subseteq Live(rows) \cup {p}
  /\ Goto(p, IF p \notin Live(rows') THEN "aborted"
             ELSE IF KeyOf[p] = None THEN "allowed" ELSE "dedup")
  /\ UNCHANGED <<dedup, hookVars, healthy, read, validBefore>>

KeyTaken(p) == dedup[KeyOf[p]] # None /\ dedup[KeyOf[p]] > read[p]

\* putIfAbsent, with the time to live of the priced authorization.
ClaimKey(p) ==
  /\ pc[p] = "dedup" /\ ~KeyTaken(p)
  /\ dedup' = [dedup EXCEPT ![KeyOf[p]] = KeyExpiry(p)]
  /\ Goto(p, "allowed")
  /\ UNCHANGED <<storeVars, hookVars, healthy, read, validBefore>>

FindDuplicate(p) ==
  /\ pc[p] = "dedup" /\ KeyTaken(p)
  /\ Goto(p, "duplicate")
  /\ UNCHANGED <<storeVars, dedup, hookVars, healthy, read, validBefore>>

DropDuplicate(p) ==
  /\ pc[p] = "duplicate"
  /\ Release(p)
  /\ Goto(p, "aborted")
  /\ UNCHANGED <<dedup, hookVars, healthy, read, validBefore>>

\* Escalated and not approved: the hold and then the key are given back.
Deny(p) ==
  /\ pc[p] = "allowed"
  /\ Release(p)
  /\ Goto(p, IF KeyOf[p] = None THEN "aborted" ELSE "withdraw")
  /\ UNCHANGED <<dedup, hookVars, healthy, read, validBefore>>

Withdraw(p) ==
  /\ pc[p] = "withdraw"
  /\ dedup' = [dedup EXCEPT ![KeyOf[p]] = None]
  /\ Goto(p, "aborted")
  /\ UNCHANGED <<storeVars, hookVars, healthy, read, validBefore>>

Enqueue(p) ==
  /\ pc[p] = "allowed"
  /\ pending' = [pending EXCEPT ![Signature(p)] =
                   MarkContended(Append(@, [id |-> p, contended |-> FALSE]))]
  /\ Goto(p, "signing")
  /\ UNCHANGED <<storeVars, dedup, signedByNonce, held, healthy, read, validBefore>>

-----------------------------------------------------------------------------
(* The x402 client signs.                                                  *)

SignPayload(p) ==
  /\ pc[p] = "signing"
  /\ validBefore' = [validBefore EXCEPT ![p] = now + Horizon(p)]
  /\ Goto(p, "after")
  /\ UNCHANGED <<storeVars, dedup, hookVars, healthy, read>>

\* Another before hook aborts what this guard allowed, and no failure hook runs:
\* the entry stays in its queue.
ForeignAbort(p) ==
  /\ Foreign
  /\ pc[p] = "signing"
  /\ Goto(p, "failed")
  /\ UNCHANGED <<storeVars, dedup, hookVars, healthy, read, validBefore>>

SignerFails(p) ==
  /\ pc[p] = "signing"
  /\ Goto(p, "failing")
  /\ UNCHANGED <<storeVars, dedup, hookVars, healthy, read, validBefore>>

-----------------------------------------------------------------------------
(* The after hook.                                                         *)

Queue(p) == pending[Signature(p)]

\* A hook takes the oldest entry of the payment's queue, and drops it when it ends.
Shift(p) ==
  /\ held' = [held EXCEPT ![p] = Head(Queue(p))]
  /\ pending' = [pending EXCEPT ![Signature(p)] = Tail(@)]

\* No entry: the hook returns, and the payload leaves.
AfterUnmatched(p) ==
  /\ pc[p] = "after" /\ Queue(p) = <<>>
  /\ Goto(p, "sent")
  /\ UNCHANGED <<storeVars, dedup, hookVars, healthy, read, validBefore>>

DivergedDropsEntry(p) ==
  /\ pc[p] = "after" /\ Queue(p) # <<>>
  /\ Diverged(p, Head(Queue(p)))
  /\ pending' = [pending EXCEPT ![Signature(p)] = Tail(@)]
  /\ Goto(p, "failing")
  /\ UNCHANGED <<storeVars, dedup, signedByNonce, held, healthy, read, validBefore>>

\* The signed payload is not the priced one: the entry goes back to the front
\* for the failure hook.
AfterDiverged(p) ==
  /\ pc[p] = "after" /\ Queue(p) # <<>>
  /\ Diverged(p, Head(Queue(p)))
  /\ pending' = [pending EXCEPT ![Signature(p)] = MarkContended(@)]
  /\ Goto(p, "failing")
  /\ UNCHANGED <<storeVars, dedup, signedByNonce, held, healthy, read, validBefore>>

AfterMatched(p) ==
  /\ pc[p] = "after" /\ Queue(p) # <<>>
  /\ ~Diverged(p, Head(Queue(p)))
  /\ Shift(p)
  /\ Goto(p, "record")
  /\ UNCHANGED <<storeVars, dedup, signedByNonce, healthy, read, validBefore>>

RecordUnchecked(p) ==
  /\ pc[p] = "record"
  /\ rows' = [rows EXCEPT ![held[p].id] = Signed(@, validBefore[p] + Margin, p)]
  /\ signedByNonce' = [signedByNonce EXCEPT ![p] = held[p]]
  /\ Goto(p, "sent") /\ DropHeld(p)
  /\ UNCHANGED <<now, dedup, pending, healthy, read, validBefore>>

\* reserved -> signed; then the nonce finds the entry, and the payload leaves.
Record(p) ==
  /\ pc[p] = "record"
  /\ Sign(held[p].id, validBefore[p] + Margin, p)
  /\ signedByNonce' = [signedByNonce EXCEPT ![p] = held[p]]
  /\ Goto(p, "sent") /\ DropHeld(p)
  /\ UNCHANGED <<dedup, pending, healthy, read, validBefore>>

-----------------------------------------------------------------------------
(* The failure hook.                                                       *)

FailUnmatched(p) ==
  /\ pc[p] = "failing" /\ Queue(p) = <<>>
  /\ Goto(p, "failed")
  /\ UNCHANGED <<storeVars, dedup, hookVars, healthy, read, validBefore>>

FailMatched(p) ==
  /\ pc[p] = "failing" /\ Queue(p) # <<>>
  /\ Shift(p)
  /\ Goto(p, "release")
  /\ UNCHANGED <<storeVars, dedup, signedByNonce, healthy, read, validBefore>>

FreesAnyKey(e) == KeyOf[e.id] # None

\* Only the key of an entry that was always alone in its queue is freed.
FreesKey(e) == KeyOf[e.id] # None /\ ~e.contended

ReleaseEntry(p) ==
  /\ pc[p] = "release"
  /\ Release(held[p].id)
  /\ IF FreesKey(held[p])
       THEN Goto(p, "unkey") /\ UNCHANGED held
       ELSE Goto(p, "failed") /\ DropHeld(p)
  /\ UNCHANGED <<dedup, pending, signedByNonce, healthy, read, validBefore>>

FreeKey(p) ==
  /\ pc[p] = "unkey"
  /\ dedup' = [dedup EXCEPT ![KeyOf[held[p].id]] = None]
  /\ Goto(p, "failed") /\ DropHeld(p)
  /\ UNCHANGED <<storeVars, pending, signedByNonce, healthy, read, validBefore>>

-----------------------------------------------------------------------------
(* The response hook.                                                      *)

OwnEntry(p) ==
  IF signedByNonce[p] = None THEN None ELSE [id |-> p, contended |-> FALSE]

\* The entry is the one that the nonce of the payload finds.
CorrelatedEntry(p) == signedByNonce[p]

Respond(p, outcome) ==
  /\ pc[p] = "sent"
  /\ held' = [held EXCEPT ![p] = CorrelatedEntry(p)]
  /\ Goto(p, IF CorrelatedEntry(p) = None THEN "done" ELSE outcome)
  /\ UNCHANGED <<storeVars, dedup, pending, signedByNonce, healthy, read, validBefore>>

\* signed -> settled, signed -> unknown; then the nonce is forgotten.
Close(p) ==
  /\ \/ pc[p] = "settle" /\ Settle(held[p].id, now) /\ Goto(p, "paid")
     \/ pc[p] = "lose" /\ LoseTrack(held[p].id) /\ Goto(p, "unpaid")
  /\ signedByNonce' = [signedByNonce EXCEPT ![p] = None]
  /\ DropHeld(p)
  /\ UNCHANGED <<dedup, pending, healthy, read, validBefore>>

-----------------------------------------------------------------------------
(* Failures of the store.                                                  *)

\* Where a hook goes when its store operation throws, or when its transition
\* finds the row in another status; and the status that the transition expects.
OnFault ==
  [evaluate |-> "aborted", dedup |-> "aborted", duplicate |-> "aborted",
   allowed |-> "aborted", withdraw |-> "aborted", record |-> "failing",
   release |-> "failed", unkey |-> "failed", settle |-> "done", lose |-> "done"]

Expects ==
  [duplicate |-> "reserved", allowed |-> "reserved", record |-> "reserved",
   release |-> "reserved", settle |-> "signed", lose |-> "signed"]

HeldRow(p) == IF held[p] = None THEN p ELSE held[p].id

StayHealthy == UNCHANGED healthy

LatchUnhealthy == healthy' = FALSE

\* Every such failure latches the guard: no new payment passes the before hook.
Fault(p) ==
  /\ pc[p] \in DOMAIN OnFault
  /\ \/ MayThrow
     \/ pc[p] \in DOMAIN Expects /\ ~InStatus(HeldRow(p), Expects[pc[p]])
  /\ LatchUnhealthy
  /\ Goto(p, OnFault[pc[p]]) /\ DropHeld(p)
  /\ UNCHANGED <<storeVars, dedup, pending, signedByNonce, read, validBefore>>

-----------------------------------------------------------------------------
(* Reconciliation and restarts.                                            *)

ReconcileByOwnRow(w) ==
  /\ ReleaseExpired(now, w)
  /\ signedByNonce' =
       [p \in Ids |-> IF p \in Live(rows') /\ rows'[p].status \notin Uncertain
                        THEN None ELSE signedByNonce[p]]
  /\ UNCHANGED <<dedup, pending, healthy, pc, read, validBefore, held>>

\* reconcile: the sweep, then nonces whose row has come to an end are dropped.
Reconcile(w) ==
  /\ ReleaseExpired(now, w)
  /\ signedByNonce' =
       [p \in Ids |-> LET e == signedByNonce[p] IN
                        IF e # None /\ rows'[e.id].status \notin Uncertain
                          THEN None ELSE e]
  /\ UNCHANGED <<dedup, pending, healthy, pc, read, validBefore, held>>

\* The process dies and starts again: the store survives, the tables do not.
\* Payloads that left stay out, and nobody waits for their responses.
Restart(w) ==
  /\ RecoverAfterRestart(now, w)
  /\ pending' = [s \in Signatures |-> <<>>]
  /\ signedByNonce' = [p \in Ids |-> None]
  /\ held' = [p \in Ids |-> None]
  /\ healthy' = TRUE
  /\ pc' = [p \in Ids |-> CASE pc[p] \in Running -> "aborted"
                            [] pc[p] \in Left -> "done"
                            [] OTHER -> pc[p]]
  /\ UNCHANGED <<dedup, read, validBefore>>

\* Time passes, while no payment's hooks run longer than HookTime.
Clock ==
  /\ Tick
  /\ \A p \in Ids : pc[p] \in Running => now' <= read[p] + HookTime
  /\ UNCHANGED guardVars

Init ==
  /\ StoreInit
  /\ dedup = [k \in Keys |-> None]
  /\ pending = [s \in Signatures |-> <<>>]
  /\ signedByNonce = [p \in Ids |-> None]
  /\ healthy = TRUE
  /\ pc = [p \in Ids |-> "idle"]
  /\ read = [p \in Ids |-> 0]
  /\ validBefore = [p \in Ids |-> None]
  /\ held = [p \in Ids |-> None]

Before(p) ==
  \/ Begin(p) \/ Refuse(p) \/ Reserve(p) \/ ClaimKey(p) \/ FindDuplicate(p)
  \/ DropDuplicate(p) \/ Deny(p) \/ Withdraw(p) \/ Enqueue(p)

After(p) == AfterUnmatched(p) \/ AfterDiverged(p) \/ AfterMatched(p) \/ Record(p)

OnFailure(p) == FailUnmatched(p) \/ FailMatched(p) \/ ReleaseEntry(p) \/ FreeKey(p)

OnResponse(p) == Respond(p, "settle") \/ Respond(p, "lose") \/ Close(p)

Next ==
  \/ \E p \in Ids : \/ Before(p) \/ SignPayload(p) \/ SignerFails(p)
                    \/ ForeignAbort(p) \/ After(p)
                    \/ OnFailure(p) \/ OnResponse(p) \/ Fault(p)
  \/ \E w \in Windows : Reconcile(w) \/ Restart(w)
  \/ Clock

Spec == Init /\ [][Next]_vars

-----------------------------------------------------------------------------
(* Properties.                                                             *)

TypeOK ==
  /\ StoreTypeOK
  /\ dedup \in [Keys -> Nat \cup {None}]
  /\ pending \in [Signatures -> Seq(Entry)]
  /\ signedByNonce \in [Ids -> Entry \cup {None}]
  /\ healthy \in BOOLEAN
  /\ pc \in [Ids -> {"idle", "aborted", "failed"} \cup Running \cup Left]
  /\ read \in [Ids -> Nat]
  /\ validBefore \in [Ids -> Nat \cup {None}]
  /\ held \in [Ids -> Entry \cup {None}]

\* A payload that left has a row of its own, which carries its nonce and was
\* never released: whatever entry the after hook took, the hold of a signed
\* payment is not given up.
HasHold(p) ==
  \E i \in Live(rows) : rows[i].ref = p /\ rows[i].status \notin {"reserved", "released"}

HoldPerPayload == \A p \in Ids : pc[p] \in Left => HasHold(p)

\* Two payloads for one purchase leave only when one of them was signed after
\* the key of the other had expired, and with it the authorization that was
\* priced under that key: no failure, refusal or escalation of some other
\* payment frees a key in the meantime.
OnePayloadPerKey ==
  \A p, q \in Ids :
    /\ p # q /\ KeyOf[p] # None /\ KeyOf[p] = KeyOf[q]
    /\ pc[p] \in Left /\ pc[q] \in Left
    => SignedAt(p) >= KeyExpiry(q) \/ SignedAt(q) >= KeyExpiry(p)

\* A row is settled only by the response to the payload that it was signed for,
\* whichever payment reserved it.
SettledByOwnResponse ==
  \A i \in Live(rows) :
    rows[i].status = "settled" =>
      \E p \in Ids : rows[i].ref = p /\ pc[p] \in {"paid", "done"}

\* The entry whose key the failure hook frees is the one of the payment that
\* failed: the queue hides which sibling failed, the stamp must tell.
FreedKeyIsOwn == \A p \in Ids : pc[p] = "unkey" => held[p].id = p

\* Also when store operations throw and hooks outlive their holds: a payload
\* leaves without a hold only when the guard is already latched unhealthy, so
\* that no payment that began later can follow it.
LeavesHeldOrLatched ==
  [][\A p \in Ids : pc[p] \notin Left /\ pc'[p] \in Left
       => HasHold(p)' \/ ~healthy']_vars

\* A payload that left may be redeemed until it expires, unless it was settled.
IsSettled(p) == \E i \in Live(rows) : rows[i].ref = p /\ rows[i].status = "settled"

Redeemable(ms) ==
  {p \in Ids : /\ pc[p] \in Left /\ ~IsSettled(p) /\ now < validBefore[p]
               /\ RequestOf[p].mandate \in ms}

\* Queued entries of one signature are "fungible for CAP accounting" (guard.ts):
\* whichever of them the hooks pair with a payload, the payloads that left under
\* a mandate and may still be redeemed stay within the cap of that mandate.
PayloadsWithinMandateCap ==
  \A m \in Mandates : Total(RequestOf, Redeemable({m})) <= Cap

\* And those of all mandates together stay within the aggregate cap: crossing
\* entries is "amount-neutral" (guard.ts), it charges one hold for each payload.
PayloadsWithinAggregateCap == Total(RequestOf, Redeemable(Mandates)) <= AggregateCap

\* A signed hold's dedup key "never expires before the matching reservation's
\* safeReleaseAt" (evaluate.ts): no second payment for the same purchase passes
\* while the first may still settle.  The key is not extended with the hold, so
\* it may lapse earlier by the second of signing latency that the after hook
\* tolerates; it is never freed, replaced or left behind by more than that,
\* whichever sibling's entry a hook has taken.
KeyCoversHold ==
  \A p \in Live(rows) :
    LET covered == rows[p].safe - MismatchTolerance IN
      rows[p].status = "signed" /\ KeyOf[p] # None /\ now < covered =>
        dedup[KeyOf[p]] # None /\ dedup[KeyOf[p]] >= covered

\* Until the row of a payload that left is closed, the nonce of the payload finds
\* it: a reconciliation between two hooks forgets no row that the response has
\* still to settle, whoever reserved it.
ResponsesFindTheirRow ==
  \A i \in Live(rows) :
    rows[i].status = "signed" =>
      \E p \in Ids : /\ rows[i].ref = p
                     /\ signedByNonce[p] # None /\ signedByNonce[p].id = i
=============================================================================
