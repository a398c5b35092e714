----------------------------- MODULE ReplayGuard -----------------------------
(***************************************************************************)
(* The merchant's replay middleware (x402-idempotency-middleware): claims  *)
(* with a lease and a cached response, and the request handlers that use   *)
(* it.  Every request is a process: it claims the key of its payment,      *)
(* works, records its response as the grant, and answers.  Workers may be  *)
(* slower than their lease, fail, or die; the claims outlive them.         *)
(*                                                                         *)
(* A lease is counted down: `left` is leaseExpiry - now.  A caller reads   *)
(* the clock before it gets the store's mutex, up to MaxLag before.        *)
(***************************************************************************)
EXTENDS Integers

CONSTANTS
  Requests,     \* presentations of payments; a response is named after its request
  PaymentKeys,  \* digests or (token, from, nonce) tuples
  KeyOf,        \* [Requests -> PaymentKeys or None]: None is unkeyable
  None,
  Lease,        \* leaseMs
  MaxLag,       \* how stale the clock of a claim may be
  Mortal        \* requests whose worker may die

ASSUME KeysBounds == KeyOf \in [Requests -> PaymentKeys \cup {None}]
ASSUME LeaseBounds == Lease \in Nat /\ MaxLag \in Nat /\ MaxLag < Lease
ASSUME NoneIsNothing == None \notin Requests /\ None \notin PaymentKeys
ASSUME MortalRequests == Mortal \subseteq Requests

VARIABLES
  entries,   \* [PaymentKeys -> Entry]: the claim store
  tokenSeq,  \* the last claim token handed out
  pc,        \* where each request is
  token      \* the claim token each request was given

vars == <<entries, tokenSeq, pc, token>>

-----------------------------------------------------------------------------
Entry ==
  [status : {"free", "claimed", "granted"}, left : Int, token : Nat,
   grant : Requests \cup {None}]

Free == [status |-> "free", left |-> 0, token |-> 0, grant |-> None]

Claim(t, left) == [status |-> "claimed", left |-> left, token |-> t, grant |-> None]

GrantLost(g) == [status |-> "granted", left |-> 0, token |-> 0]

Granted(g) == [status |-> "granted", left |-> 0, token |-> 0, grant |-> g]

Goto(r, l) == pc' = [pc EXCEPT ![r] = l]

-----------------------------------------------------------------------------
(* begin.                                                                  *)

Unkeyable(r) ==
  /\ pc[r] = "idle" /\ KeyOf[r] = None
  /\ Goto(r, "rejected")
  /\ UNCHANGED <<entries, tokenSeq, token>>

Replay(r) ==
  /\ pc[r] = "idle" /\ KeyOf[r] # None
  /\ entries[KeyOf[r]].status = "granted"
  /\ Goto(r, "replayed")
  /\ UNCHANGED <<entries, tokenSeq, token>>

LeaseForever(e, lag) == e.status = "claimed"

\* The lease still runs, at the time the caller read.
LeaseRuns(e, lag) == e.status = "claimed" /\ e.left + lag > 0

TurnAway(r, lag) ==
  /\ pc[r] = "idle" /\ KeyOf[r] # None
  /\ LeaseRuns(entries[KeyOf[r]], lag)
  /\ Goto(r, "held")
  /\ UNCHANGED <<entries, tokenSeq, token>>

MayClaimOverGrant(e, lag) == ~LeaseRuns(e, lag)

\* First sighting, or a claim whose lease ran out before it was granted.
MayClaim(e, lag) == e.status # "granted" /\ ~LeaseRuns(e, lag)

Proceed(r, lag) ==
  /\ pc[r] = "idle" /\ KeyOf[r] # None
  /\ MayClaim(entries[KeyOf[r]], lag)
  /\ tokenSeq' = tokenSeq + 1
  /\ token' = [token EXCEPT ![r] = tokenSeq + 1]
  /\ entries' = [entries EXCEPT ![KeyOf[r]] = Claim(tokenSeq + 1, Lease - lag)]
  /\ Goto(r, "working")

\* A client that was turned away presents its payment again.
Retry(r) ==
  /\ pc[r] = "held"
  /\ Goto(r, "idle")
  /\ UNCHANGED <<entries, tokenSeq, token>>

-----------------------------------------------------------------------------
(* complete and fail.                                                      *)

HoldsAnyClaim(r) == entries[KeyOf[r]].status = "claimed"

\* The claim is still the one that this worker was given.
HoldsClaim(r) ==
  /\ entries[KeyOf[r]].status = "claimed"
  /\ entries[KeyOf[r]].token = token[r]

\* complete: a stale worker stores nothing, and goes on to answer all the same.
Complete(r) ==
  /\ pc[r] = "working"
  /\ entries' = IF HoldsClaim(r)
                  THEN [entries EXCEPT ![KeyOf[r]] = Granted(r)] ELSE entries
  /\ Goto(r, "completed")
  /\ UNCHANGED <<tokenSeq, token>>

Answer(r) ==
  /\ pc[r] = "completed"
  /\ Goto(r, "served")
  /\ UNCHANGED <<entries, tokenSeq, token>>

ReleaseAny(r) ==
  /\ pc[r] = "working"
  /\ entries' = IF HoldsAnyClaim(r)
                  THEN [entries EXCEPT ![KeyOf[r]] = Free] ELSE entries
  /\ Goto(r, "failed")
  /\ UNCHANGED <<tokenSeq, token>>

\* fail: the claim is given back, unless a newer one has replaced it.
Fail(r) ==
  /\ pc[r] = "working"
  /\ entries' = IF HoldsClaim(r)
                  THEN [entries EXCEPT ![KeyOf[r]] = Free] ELSE entries
  /\ Goto(r, "failed")
  /\ UNCHANGED <<tokenSeq, token>>

\* The worker dies with its request, before or after its grant is stored.
Die(r) ==
  /\ r \in Mortal
  /\ pc[r] \in {"working", "completed"}
  /\ Goto(r, "dead")
  /\ UNCHANGED <<entries, tokenSeq, token>>

\* Time passes, and the leases with it; bound: no further than any clock lags.
Tick ==
  /\ \E k \in PaymentKeys : entries[k].status = "claimed" /\ entries[k].left > -MaxLag
  /\ entries' = [k \in PaymentKeys |->
                   IF entries[k].status = "claimed" /\ entries[k].left > -MaxLag
                     THEN [entries[k] EXCEPT !.left = @ - 1] ELSE entries[k]]
  /\ UNCHANGED <<tokenSeq, pc, token>>

Init ==
  /\ entries = [k \in PaymentKeys |-> Free]
  /\ tokenSeq = 0
  /\ pc = [r \in Requests |-> "idle"]
  /\ token = [r \in Requests |-> 0]

Begin(r) ==
  \/ Unkeyable(r) \/ Replay(r)
  \/ \E lag \in 0..MaxLag : TurnAway(r, lag) \/ Proceed(r, lag)

Finish(r) == Complete(r) \/ Fail(r)

Next ==
  \/ \E r \in Requests : Begin(r) \/ Retry(r) \/ Finish(r) \/ Answer(r) \/ Die(r)
  \/ Tick

\* Handlers end and clients that were turned away come back; a worker that may
\* die is owed nothing.  Time goes on.
Fairness ==
  /\ \A r \in Requests : WF_vars(Begin(r)) /\ WF_vars(Retry(r))
  /\ \A r \in Requests \ Mortal : WF_vars(Finish(r)) /\ WF_vars(Answer(r))
  /\ WF_vars(Tick)

Spec == Init /\ [][Next]_vars

FairSpec == Spec /\ Fairness

-----------------------------------------------------------------------------
(* Properties.                                                             *)

States == {"idle", "held", "working", "completed", "served", "replayed",
           "rejected", "failed", "dead"}

TypeOK ==
  /\ entries \in [PaymentKeys -> Entry]
  /\ tokenSeq \in Nat
  /\ pc \in [Requests -> States]
  /\ token \in [Requests -> Nat]

\* The grant of a key is the response of the last worker that claimed it: a
\* stale worker cannot grant over a newer reclaim.
NewestWorkerGrants ==
  \A k \in PaymentKeys :
    entries[k].status = "granted" =>
      /\ KeyOf[entries[k].grant] = k
      /\ \A r \in Requests :
           KeyOf[r] = k => token[r] <= token[entries[k].grant]

\* While a lease runs nobody but its holder ends the claim: no reclaim, and no
\* late failure of an earlier worker, exposes the payment to a second worker.
LeaseRespected ==
  [][\A k \in PaymentKeys :
       entries[k].status = "claimed" /\ entries[k].left > 0 =>
         \/ entries'[k].status = "claimed" /\ entries'[k].token = entries[k].token
         \/ \E r \in Requests : /\ KeyOf[r] = k /\ token[r] = entries[k].token
                                /\ pc[r] = "working" /\ pc'[r] # "working"]_vars

\* The store implements the contract: one grant for each key, for good.
Grants == INSTANCE GrantOnce WITH
  Grants <- Requests,
  stored <- [k \in PaymentKeys |-> entries[k].grant]

OneGrantPerKey == Grants!GrantSpec

\* No payment is taken without service for good: whoever dies between claim and
\* grant, a client that keeps presenting its payment is answered in the end.
EveryClientIsAnswered ==
  \A r \in Requests \ Mortal :
    <>(pc[r] \in {"served", "replayed", "failed", "rejected"})
=============================================================================
