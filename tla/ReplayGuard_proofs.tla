-------------------------- MODULE ReplayGuard_proofs --------------------------
(***************************************************************************)
(* Proofs about the merchant's replay middleware, for any number of        *)
(* requests, payment keys and deaths of workers, and any lease.            *)
(***************************************************************************)
EXTENDS ReplayGuard, TLAPS

\* A granted entry, and no other, carries a grant.
GrantsWhenGranted ==
  \A k \in PaymentKeys : (entries[k].status = "granted") <=> (entries[k].grant # None)

\* Tokens are handed out in increasing order, one for each claim.
TokensAreFresh ==
  /\ \A r \in Requests : token[r] <= tokenSeq
  /\ \A r, q \in Requests : token[r] = token[q] /\ token[r] # 0 => r = q

\* A worker was given a token for the key of its payment.
WorkersHaveTokens ==
  \A r \in Requests : pc[r] = "working" => KeyOf[r] \in PaymentKeys /\ token[r] # 0

\* A running claim carries the newest token of its key, and it is held by a
\* request of that key.
ClaimsAreNewest ==
  \A k \in PaymentKeys :
    entries[k].status = "claimed" =>
      /\ entries[k].token # 0
      /\ \A r \in Requests : KeyOf[r] = k => token[r] <= entries[k].token

IInv ==
  TypeOK /\ GrantsWhenGranted /\ TokensAreFresh /\ WorkersHaveTokens
         /\ ClaimsAreNewest /\ NewestWorkerGrants

USE KeysBounds, LeaseBounds, NoneIsNothing, MortalRequests

-----------------------------------------------------------------------------
(* Initially nothing is claimed.                                           *)
LEMMA InitIInv == Init => IInv
BY DEF Init, IInv, TypeOK, Entry, Free, States, GrantsWhenGranted,
       TokensAreFresh, WorkersHaveTokens, ClaimsAreNewest, NewestWorkerGrants

(* The entries of Entry that the steps write.                              *)
LEMMA EntryTypes ==
  /\ Free \in Entry
  /\ \A g \in Requests : Granted(g) \in Entry
  /\ \A t \in Nat, l \in Int : Claim(t, l) \in Entry
BY DEF Free, Granted, Claim, Entry

(* A step that moves one request and leaves the entries and the tokens      *)
(* alone keeps the invariant when it does not start work.                   *)
LEMMA MoveKeepsIInv ==
  ASSUME IInv, NEW r \in Requests, NEW l \in States, l # "working", Goto(r, l),
         UNCHANGED <<entries, tokenSeq, token>>
  PROVE  IInv'
BY DEF IInv, TypeOK, Goto, GrantsWhenGranted, TokensAreFresh, WorkersHaveTokens,
       ClaimsAreNewest, NewestWorkerGrants

(* A new claim takes a fresh token, newer than every other.                *)
LEMMA ProceedKeepsIInv ==
  ASSUME IInv, NEW r \in Requests, NEW lag \in 0..MaxLag, Proceed(r, lag)
  PROVE  IInv'
<1> DEFINE k == KeyOf[r]
<1>1. k \in PaymentKeys /\ tokenSeq \in Nat /\ lag \in Int /\ Lease - lag \in Int
  BY DEF Proceed, IInv, TypeOK
<1>2. Claim(tokenSeq + 1, Lease - lag) \in Entry
  BY <1>1, EntryTypes
<1>3. TypeOK'
  BY <1>1, <1>2 DEF Proceed, IInv, TypeOK, Goto, States
<1>4. entries' = [entries EXCEPT ![k] = Claim(tokenSeq + 1, Lease - lag)]
  BY DEF Proceed
<1>5. /\ token' = [token EXCEPT ![r] = tokenSeq + 1]
      /\ tokenSeq' = tokenSeq + 1
      /\ pc' = [pc EXCEPT ![r] = "working"]
  BY DEF Proceed, Goto
<1>6. TypeOK /\ TokensAreFresh /\ WorkersHaveTokens /\ ClaimsAreNewest
      /\ NewestWorkerGrants /\ GrantsWhenGranted
  BY DEF IInv
<1>7. GrantsWhenGranted'
  BY <1>1, <1>4, <1>6 DEF GrantsWhenGranted, TypeOK, Claim
<1>8. TokensAreFresh'
  BY <1>1, <1>5, <1>6 DEF TokensAreFresh, TypeOK
<1>9. WorkersHaveTokens'
  BY <1>1, <1>5, <1>6 DEF WorkersHaveTokens, TypeOK
<1>10. ClaimsAreNewest'
  BY <1>1, <1>4, <1>5, <1>6 DEF ClaimsAreNewest, TokensAreFresh, TypeOK, Claim
<1>11. NewestWorkerGrants'
  <2> SUFFICES ASSUME NEW j \in PaymentKeys, entries'[j].status = "granted"
               PROVE  /\ KeyOf[entries'[j].grant] = j
                      /\ \A q \in Requests :
                           KeyOf[q] = j => token'[q] <= token'[entries'[j].grant]
    BY DEF NewestWorkerGrants
  <2>1. j # k /\ entries'[j] = entries[j]
    BY <1>1, <1>4, <1>6 DEF TypeOK, Claim
  <2>2. entries[j].grant \in Requests
    BY <2>1, <1>6 DEF TypeOK, Entry, GrantsWhenGranted
  <2>3. \A q \in Requests : KeyOf[q] = j => token'[q] = token[q]
    BY <2>1, <1>5, <1>6 DEF TypeOK
  <2>4. KeyOf[entries[j].grant] = j
    BY <2>1, <1>6 DEF NewestWorkerGrants
  <2> QED
    BY <2>1, <2>2, <2>3, <2>4, <1>6 DEF NewestWorkerGrants
<1> QED
  BY <1>3, <1>7, <1>8, <1>9, <1>10, <1>11 DEF IInv

(* A worker that grants still holds the newest claim of its key.           *)
LEMMA CompleteKeepsIInv ==
  ASSUME IInv, NEW r \in Requests, Complete(r)
  PROVE  IInv'
<1> DEFINE k == KeyOf[r]
<1>1. CASE ~HoldsClaim(r)
  <2>1. UNCHANGED <<entries, tokenSeq, token>> /\ Goto(r, "completed")
    BY <1>1 DEF Complete
  <2> QED
    BY <2>1, MoveKeepsIInv DEF States
<1>2. CASE HoldsClaim(r)
  <2>1. /\ pc[r] = "working"
        /\ k \in PaymentKeys
        /\ entries' = [entries EXCEPT ![k] = Granted(r)]
        /\ pc' = [pc EXCEPT ![r] = "completed"]
        /\ UNCHANGED <<tokenSeq, token>>
    BY <1>2 DEF Complete, Goto, IInv, WorkersHaveTokens
  <2>2. /\ TypeOK /\ TokensAreFresh /\ WorkersHaveTokens /\ ClaimsAreNewest
        /\ NewestWorkerGrants /\ GrantsWhenGranted
    BY DEF IInv
  <2>3. TypeOK'
    BY <2>1, <2>2, EntryTypes DEF TypeOK, States
  <2>4. GrantsWhenGranted'
    BY <2>1, <2>2 DEF GrantsWhenGranted, TypeOK, Granted
  <2>5. TokensAreFresh' /\ WorkersHaveTokens'
    BY <2>1, <2>2 DEF TokensAreFresh, WorkersHaveTokens, TypeOK
  <2>6. ClaimsAreNewest'
    BY <2>1, <2>2 DEF ClaimsAreNewest, TypeOK, Granted
  <2>7. \A q \in Requests : KeyOf[q] = k => token[q] <= token[r]
    BY <1>2, <2>1, <2>2 DEF HoldsClaim, ClaimsAreNewest
  <2>8. NewestWorkerGrants'
    <3> SUFFICES ASSUME NEW j \in PaymentKeys, entries'[j].status = "granted"
                 PROVE  /\ KeyOf[entries'[j].grant] = j
                        /\ \A q \in Requests :
                             KeyOf[q] = j => token[q] <= token[entries'[j].grant]
      BY <2>1 DEF NewestWorkerGrants
    <3>1. CASE j = k
      BY <3>1, <2>1, <2>2, <2>7 DEF TypeOK, Granted
    <3>2. CASE j # k
      BY <3>2, <2>1, <2>2 DEF TypeOK, NewestWorkerGrants
    <3> QED
      BY <3>1, <3>2
  <2> QED
    BY <2>3, <2>4, <2>5, <2>6, <2>8 DEF IInv
<1> QED
  BY <1>1, <1>2

(* A worker that fails frees no claim but its own.                         *)
LEMMA FailKeepsIInv ==
  ASSUME IInv, NEW r \in Requests, Fail(r)
  PROVE  IInv'
<1> DEFINE k == KeyOf[r]
<1>1. CASE ~HoldsClaim(r)
  <2>1. UNCHANGED <<entries, tokenSeq, token>> /\ Goto(r, "failed")
    BY <1>1 DEF Fail
  <2> QED
    BY <2>1, MoveKeepsIInv DEF States
<1>2. CASE HoldsClaim(r)
  <2>1. /\ k \in PaymentKeys
        /\ entries' = [entries EXCEPT ![k] = Free]
        /\ pc' = [pc EXCEPT ![r] = "failed"]
        /\ UNCHANGED <<tokenSeq, token>>
    BY <1>2 DEF Fail, Goto, IInv, WorkersHaveTokens
  <2>2. /\ TypeOK /\ TokensAreFresh /\ WorkersHaveTokens /\ ClaimsAreNewest
        /\ NewestWorkerGrants /\ GrantsWhenGranted
    BY DEF IInv
  <2>3. TypeOK'
    BY <2>1, <2>2, EntryTypes DEF TypeOK, States
  <2>4. GrantsWhenGranted'
    BY <2>1, <2>2 DEF GrantsWhenGranted, TypeOK, Free
  <2>5. TokensAreFresh' /\ WorkersHaveTokens'
    BY <2>1, <2>2 DEF TokensAreFresh, WorkersHaveTokens, TypeOK
  <2>6. ClaimsAreNewest' /\ NewestWorkerGrants'
    BY <2>1, <2>2 DEF ClaimsAreNewest, NewestWorkerGrants, TypeOK, Free
  <2> QED
    BY <2>3, <2>4, <2>5, <2>6 DEF IInv
<1> QED
  BY <1>1, <1>2

(* Time changes nothing but what is left of the leases.                    *)
LEMMA TickKeepsIInv ==
  ASSUME IInv, Tick
  PROVE  IInv'
<1>1. UNCHANGED <<tokenSeq, pc, token>>
  BY DEF Tick
<1>2. \A k \in PaymentKeys :
        /\ entries'[k] \in Entry
        /\ entries'[k].status = entries[k].status
        /\ entries'[k].token = entries[k].token
        /\ entries'[k].grant = entries[k].grant
  BY DEF Tick, IInv, TypeOK, Entry
<1>3. TypeOK'
  BY <1>1, <1>2 DEF Tick, IInv, TypeOK
<1> QED
  BY <1>1, <1>2, <1>3
  DEF IInv, GrantsWhenGranted, TokensAreFresh, WorkersHaveTokens,
      ClaimsAreNewest, NewestWorkerGrants

LEMMA NextIInv == IInv /\ [Next]_vars => IInv'
<1> SUFFICES ASSUME IInv, [Next]_vars
             PROVE  IInv'
  OBVIOUS
<1>1. CASE UNCHANGED vars
  BY <1>1 DEF vars, IInv, TypeOK, GrantsWhenGranted, TokensAreFresh,
              WorkersHaveTokens, ClaimsAreNewest, NewestWorkerGrants
<1>2. ASSUME NEW r \in Requests, Unkeyable(r) PROVE IInv'
  BY <1>2, MoveKeepsIInv DEF Unkeyable, States
<1>3. ASSUME NEW r \in Requests, Replay(r) PROVE IInv'
  BY <1>3, MoveKeepsIInv DEF Replay, States
<1>4. ASSUME NEW r \in Requests, NEW lag \in 0..MaxLag, TurnAway(r, lag) PROVE IInv'
  BY <1>4, MoveKeepsIInv DEF TurnAway, States
<1>5. ASSUME NEW r \in Requests, NEW lag \in 0..MaxLag, Proceed(r, lag) PROVE IInv'
  BY <1>5, ProceedKeepsIInv
<1>6. ASSUME NEW r \in Requests, Retry(r) PROVE IInv'
  BY <1>6, MoveKeepsIInv DEF Retry, States
<1>7. ASSUME NEW r \in Requests, Finish(r) PROVE IInv'
  BY <1>7, CompleteKeepsIInv, FailKeepsIInv DEF Finish
<1>8. ASSUME NEW r \in Requests, Answer(r) PROVE IInv'
  BY <1>8, MoveKeepsIInv DEF Answer, States
<1>9. ASSUME NEW r \in Requests, Die(r) PROVE IInv'
  BY <1>9, MoveKeepsIInv DEF Die, States
<1>10. CASE Tick
  BY <1>10, TickKeepsIInv
<1> QED
  BY <1>1, <1>2, <1>3, <1>4, <1>5, <1>6, <1>7, <1>8, <1>9, <1>10 DEF Next, Begin

-----------------------------------------------------------------------------
(* The values that the claim store holds have the types of store.ts.       *)
THEOREM TypeCorrect == Spec => []TypeOK
<1>1. IInv => TypeOK
  BY DEF IInv
<1> QED
  BY InitIInv, NextIInv, <1>1, PTL DEF Spec

(* However slow the workers, and whoever dies: what a key is answered with *)
(* from now on is the response of the last worker that claimed it.         *)
THEOREM NewestGrants == Spec => []NewestWorkerGrants
<1>1. IInv => NewestWorkerGrants
  BY DEF IInv
<1> QED
  BY InitIInv, NextIInv, <1>1, PTL DEF Spec

(* While a lease runs, only its holder ends the claim.                     *)
LEMMA StepRespectsLease ==
  ASSUME IInv, Next, NEW k \in PaymentKeys,
         entries[k].status = "claimed", entries[k].left > 0
  PROVE  \/ entries'[k].status = "claimed" /\ entries'[k].token = entries[k].token
         \/ \E r \in Requests : /\ KeyOf[r] = k /\ token[r] = entries[k].token
                                /\ pc[r] = "working" /\ pc'[r] # "working"
<1>1. TypeOK /\ entries[k].left \in Int
  BY DEF IInv, TypeOK, Entry
<1>2. CASE UNCHANGED entries
  BY <1>2
<1>3. CASE Tick
  BY <1>3, <1>1 DEF Tick, TypeOK
<1>4. ASSUME NEW r \in Requests, NEW lag \in 0..MaxLag, Proceed(r, lag)
      PROVE  entries'[k] = entries[k]
  <2>1. KeyOf[r] # k
    BY <1>1, <1>4 DEF Proceed, MayClaim, LeaseRuns
  <2> QED
    BY <2>1, <1>1, <1>4 DEF Proceed, TypeOK
<1>5. ASSUME NEW r \in Requests, Finish(r)
      PROVE  \/ entries'[k] = entries[k]
             \/ /\ KeyOf[r] = k /\ token[r] = entries[k].token
                /\ pc[r] = "working" /\ pc'[r] # "working"
  BY <1>1, <1>5 DEF Finish, Complete, Fail, HoldsClaim, Goto, TypeOK
<1> QED
  BY <1>2, <1>3, <1>4, <1>5
  DEF Next, Begin, Unkeyable, Replay, TurnAway, Retry, Answer, Die

(* No reclaim and no late failure takes a payment from a worker whose lease *)
(* runs.                                                                    *)
THEOREM LeasesAreRespected == Spec => LeaseRespected
<1>1. IInv /\ [Next]_vars =>
        [\A k \in PaymentKeys :
           entries[k].status = "claimed" /\ entries[k].left > 0 =>
             \/ entries'[k].status = "claimed" /\ entries'[k].token = entries[k].token
             \/ \E r \in Requests : /\ KeyOf[r] = k /\ token[r] = entries[k].token
                                    /\ pc[r] = "working" /\ pc'[r] # "working"]_vars
  BY StepRespectsLease
<1> QED
  BY InitIInv, NextIInv, <1>1, PTL DEF Spec, LeaseRespected

-----------------------------------------------------------------------------
(* Refinement: GrantOnce.                                                  *)

StoredGrants == [k \in PaymentKeys |-> entries[k].grant]

LEMMA StepRefines ==
  ASSUME IInv, Next
  PROVE  \/ \E k \in PaymentKeys, g \in Requests :
              /\ StoredGrants[k] = None
              /\ StoredGrants' = [StoredGrants EXCEPT ![k] = g]
         \/ UNCHANGED StoredGrants
<1>1. TypeOK /\ GrantsWhenGranted /\ WorkersHaveTokens
  BY DEF IInv
<1>2. CASE UNCHANGED entries
  BY <1>2 DEF StoredGrants
<1>3. CASE Tick
  <2>1. \A k \in PaymentKeys : entries'[k].grant = entries[k].grant
    BY <1>1, <1>3 DEF Tick, TypeOK, Entry
  <2> QED
    BY <2>1 DEF StoredGrants
<1>4. ASSUME NEW r \in Requests, NEW lag \in 0..MaxLag, Proceed(r, lag)
      PROVE  UNCHANGED StoredGrants
  <2>1. entries[KeyOf[r]].status # "granted" /\ KeyOf[r] \in PaymentKeys
    BY <1>4 DEF Proceed, MayClaim
  <2>2. \A k \in PaymentKeys : entries'[k].grant = entries[k].grant
    BY <2>1, <1>1, <1>4 DEF Proceed, TypeOK, GrantsWhenGranted, Claim
  <2> QED
    BY <2>2 DEF StoredGrants
<1>5. ASSUME NEW r \in Requests, Fail(r)
      PROVE  UNCHANGED StoredGrants
  <2>1. KeyOf[r] \in PaymentKeys
    BY <1>1, <1>5 DEF Fail, WorkersHaveTokens
  <2>2. \A k \in PaymentKeys : entries'[k].grant = entries[k].grant
    BY <2>1, <1>1, <1>5 DEF Fail, HoldsClaim, TypeOK, GrantsWhenGranted, Free
  <2> QED
    BY <2>2 DEF StoredGrants
<1>6. ASSUME NEW r \in Requests, Complete(r), HoldsClaim(r)
      PROVE  /\ StoredGrants[KeyOf[r]] = None
             /\ StoredGrants' = [StoredGrants EXCEPT ![KeyOf[r]] = r]
             /\ KeyOf[r] \in PaymentKeys
  <2>1. KeyOf[r] \in PaymentKeys
    BY <1>1, <1>6 DEF Complete, WorkersHaveTokens
  <2>2. entries[KeyOf[r]].grant = None
    BY <2>1, <1>1, <1>6 DEF HoldsClaim, GrantsWhenGranted
  <2>3. \A k \in PaymentKeys :
          entries'[k].grant = IF k = KeyOf[r] THEN r ELSE entries[k].grant
    BY <2>1, <1>1, <1>6 DEF Complete, TypeOK, Granted
  <2> QED
    BY <2>1, <2>2, <2>3 DEF StoredGrants
<1>7. ASSUME NEW r \in Requests, Complete(r), ~HoldsClaim(r)
      PROVE  UNCHANGED StoredGrants
  BY <1>7 DEF Complete, StoredGrants
<1> QED
  BY <1>2, <1>3, <1>4, <1>5, <1>6, <1>7
  DEF Next, Begin, Finish, Unkeyable, Replay, TurnAway, Retry, Answer, Die

(* The middleware implements the contract of its store: every key gets at  *)
(* most one grant, which is never replaced nor taken back.                 *)
THEOREM ImplementsGrantOnce == Spec => OneGrantPerKey
<1>1. Init => Grants!GrantInit
  BY DEF Init, Free, Grants!GrantInit
<1>2. IInv /\ [Next]_vars => [Grants!GrantNext]_StoredGrants
  <2> SUFFICES ASSUME IInv, [Next]_vars
               PROVE  Grants!GrantNext \/ UNCHANGED StoredGrants
    OBVIOUS
  <2>1. CASE Next
    BY <2>1, StepRefines DEF Grants!GrantNext, Grants!StoreGrant, StoredGrants
  <2>2. CASE UNCHANGED vars
    BY <2>2 DEF vars, StoredGrants
  <2> QED
    BY <2>1, <2>2
<1> QED
  BY InitIInv, NextIInv, <1>1, <1>2, PTL
  DEF Spec, OneGrantPerKey, Grants!GrantSpec, StoredGrants
=============================================================================
