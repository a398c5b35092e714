----------------------- MODULE SqliteTransaction_proofs -----------------------
(***************************************************************************)
(* Proofs about the transactions of the SQLite store, for any number of    *)
(* calls and connections and any number of retries: the inductive          *)
(* invariant, and every step as a step of AtomicCalls or none.             *)
(***************************************************************************)
EXTENDS SqliteTransaction, TLAPS

\* A call that has begun belongs to a connection, and a running one is what
\* that connection executes.
CallsHaveConnections ==
  \A t \in Tasks :
    /\ calls[t].phase \in {"waiting", "running"} => calls[t].on \in Conns
    /\ calls[t].phase = "running" => running[calls[t].on] = t

\* What the running operation has read is still the committed value.
ReadIsCurrent == \A c \in Conns : running[c] # None => seen[c] = value

IInv == TransactionTypeOK /\ CallsHaveConnections /\ ReadIsCurrent

USE RetriesBounded, NobodyIsNone

-----------------------------------------------------------------------------
(* Initially no connection is open.                                        *)
LEMMA InitIInv == TransactionInit => IInv
BY DEF TransactionInit, IInv, TransactionTypeOK, CallsHaveConnections,
       ReadIsCurrent, Call, Phases

(* A call that is not running when its attempt to begin starts keeps the    *)
(* invariant, however BEGIN ends.                                           *)
LEMMA AttemptKeepsIInv ==
  ASSUME IInv, NEW t \in Tasks, NEW c \in Conns, NEW n \in 0..BusyRetries,
         calls[t].phase \in {"idle", "waiting"}, Attempt(t, c, n)
  PROVE  IInv'
<1>1. TransactionTypeOK /\ CallsHaveConnections /\ ReadIsCurrent
  BY DEF IInv
<1>2. \A d \in Conns : running[d] # t
  BY <1>1 DEF TransactionTypeOK
<1>3. CASE BeginSucceeds(t, c, n)
  <2>1. [phase |-> "running", on |-> c, attempt |-> n] \in Call
    BY DEF Call, Phases
  <2>2. \A d \in Conns : running[d] = None
    BY <1>1, <1>3 DEF TransactionTypeOK, BeginSucceeds, LockFree
  <2>3. TransactionTypeOK'
    BY <1>1, <1>3, <2>1, <2>2 DEF TransactionTypeOK, BeginSucceeds
  <2>4. CallsHaveConnections'
    BY <1>1, <1>3, <2>2 DEF TransactionTypeOK, CallsHaveConnections, BeginSucceeds
  <2>5. ReadIsCurrent'
    BY <1>1, <1>3, <2>2 DEF TransactionTypeOK, ReadIsCurrent, BeginSucceeds
  <2> QED
    BY <2>3, <2>4, <2>5 DEF IInv
<1>4. ASSUME NEW m \in 0..BusyRetries, NEW p \in {"waiting", "error"},
             calls' = [calls EXCEPT ![t] = [phase |-> p, on |-> c, attempt |-> m]],
             UNCHANGED <<conn, lock, running, seen, value>>
      PROVE  IInv'
  <2>1. [phase |-> p, on |-> c, attempt |-> m] \in Call
    BY DEF Call, Phases
  <2>2. TransactionTypeOK'
    BY <1>1, <1>2, <1>4, <2>1 DEF TransactionTypeOK
  <2>3. CallsHaveConnections'
    BY <1>1, <1>4 DEF TransactionTypeOK, CallsHaveConnections
  <2>4. ReadIsCurrent'
    BY <1>1, <1>4 DEF ReadIsCurrent
  <2> QED
    BY <2>2, <2>3, <2>4 DEF IInv
<1>5. CASE BeginIsBusy(t, c, n)
  <2>1. RetryOrFail(n) \in {"waiting", "error"}
    BY DEF RetryOrFail
  <2>2. (IF n < BusyRetries THEN n + 1 ELSE n) \in 0..BusyRetries
    OBVIOUS
  <2> QED
    BY <1>4, <1>5, <2>1, <2>2 DEF BeginIsBusy, connVars
<1>6. CASE BeginThrows(t, c, n)
  BY <1>4, <1>6 DEF BeginThrows, connVars
<1> QED
  BY <1>3, <1>5, <1>6 DEF Attempt

(* The end of an operation frees its connection; nothing else was running.  *)
LEMMA FinishKeepsIInv ==
  ASSUME IInv, NEW t \in Tasks, Finish(t)
  PROVE  IInv'
<1> DEFINE c == calls[t].on
<1>1. TransactionTypeOK /\ CallsHaveConnections /\ ReadIsCurrent
  BY DEF IInv
<1>2. calls[t].phase = "running"
  BY DEF Finish, Commit, RollBack, RollBackFails
<1>3. c \in Conns /\ running[c] = t /\ lock = c
  BY <1>1, <1>2 DEF TransactionTypeOK, CallsHaveConnections
<1>4. \A d \in Conns : running'[d] = None
  BY <1>1, <1>3 DEF TransactionTypeOK, Finish, Commit, RollBack, RollBackFails, Leave
<1>5. running' \in [Conns -> Tasks \cup {None}]
  BY <1>1 DEF TransactionTypeOK, Finish, Commit, RollBack, RollBackFails, Leave
<1>6. lock' \in Conns \cup {None} /\ seen' = seen
  BY <1>3 DEF Finish, Commit, RollBack, RollBackFails
<1>7. value' \in Nat
  BY <1>1, <1>3 DEF TransactionTypeOK, Finish, Commit, RollBack, RollBackFails
<1>8. conn' \in [Conns -> {"open", "poisoned", "closed"}]
  BY <1>1 DEF TransactionTypeOK, Finish, Commit, RollBack, RollBackFails
<1>9. PICK p \in {"ok", "error"} : calls' = [calls EXCEPT ![t].phase = p]
  BY DEF Finish, Commit, RollBack, RollBackFails, Answer
<1>10. calls' \in [Tasks -> Call]
  BY <1>1, <1>9 DEF TransactionTypeOK, Call, Phases
<1>11. TransactionTypeOK'
  BY <1>1, <1>4, <1>5, <1>6, <1>7, <1>8, <1>10 DEF TransactionTypeOK
<1>12. \A u \in Tasks : calls[u].phase = "running" => u = t
  BY <1>1, <1>3 DEF TransactionTypeOK, CallsHaveConnections
<1>13. CallsHaveConnections'
  BY <1>1, <1>9, <1>12 DEF TransactionTypeOK, CallsHaveConnections
<1>14. ReadIsCurrent'
  BY <1>4 DEF ReadIsCurrent
<1> QED
  BY <1>11, <1>13, <1>14 DEF IInv

(* A crash takes the calls of its connection with it, and a commit that had *)
(* already happened.                                                        *)
LEMMA CrashKeepsIInv ==
  ASSUME IInv, NEW c \in Conns, Crash(c)
  PROVE  IInv'
<1>1. TransactionTypeOK /\ CallsHaveConnections /\ ReadIsCurrent
  BY DEF IInv
<1>2. /\ conn' = [conn EXCEPT ![c] = "closed"]
      /\ lock' = IF lock = c THEN None ELSE lock
      /\ running' = [running EXCEPT ![c] = None]
      /\ value' \in IF running[c] = None THEN {value} ELSE {value, seen[c] + 1}
      /\ calls' = [t \in Tasks |-> IF t \in Of(c) THEN [calls[t] EXCEPT !.phase = "lost"]
                                   ELSE calls[t]]
      /\ seen' = seen
  BY DEF Crash, Unlock, Leave, Idle
<1>3. \A t \in Tasks : [calls[t] EXCEPT !.phase = "lost"] \in Call
  BY <1>1 DEF TransactionTypeOK, Call, Phases
<1>4. calls' \in [Tasks -> Call]
  BY <1>1, <1>2, <1>3 DEF TransactionTypeOK
<1>5. \A t \in Tasks : calls'[t].phase \in {"waiting", "running"} =>
                         calls'[t] = calls[t] /\ calls[t].on # c
  BY <1>1, <1>2 DEF TransactionTypeOK, Call, Of
<1>6. \A t \in Tasks : calls[t].on # c => calls'[t] = calls[t]
  BY <1>2 DEF Of
<1>7. value' \in Nat
  BY <1>1, <1>2 DEF TransactionTypeOK
<1>8. TransactionTypeOK'
  BY <1>1, <1>2, <1>4, <1>6, <1>7 DEF TransactionTypeOK
<1>9. CallsHaveConnections'
  BY <1>1, <1>2, <1>5 DEF TransactionTypeOK, CallsHaveConnections
<1>10. ReadIsCurrent'
  BY <1>1, <1>2 DEF TransactionTypeOK, ReadIsCurrent
<1> QED
  BY <1>8, <1>9, <1>10 DEF IInv

(* Every step keeps the invariant.                                         *)
LEMMA NextIInv == IInv /\ [TransactionNext]_transactionVars => IInv'
<1> SUFFICES ASSUME IInv, [TransactionNext]_transactionVars
             PROVE  IInv'
  OBVIOUS
<1>1. TransactionTypeOK /\ CallsHaveConnections /\ ReadIsCurrent
  BY DEF IInv
<1>2. ASSUME NEW t \in Tasks, NEW c \in Conns, Start(t, c)
      PROVE  IInv'
  BY <1>2, AttemptKeepsIInv DEF Start
<1>3. ASSUME NEW t \in Tasks, NEW c \in Conns, StartUnusable(t, c)
      PROVE  IInv'
  BY <1>1, <1>3 DEF StartUnusable, Answer, connVars, IInv, TransactionTypeOK, Call,
                    Phases, CallsHaveConnections, ReadIsCurrent
<1>4. ASSUME NEW t \in Tasks, Retry(t)
      PROVE  IInv'
  <2>1. calls[t].on \in Conns /\ calls[t].attempt \in 0..BusyRetries
    BY <1>1, <1>4 DEF Retry, TransactionTypeOK, Call, CallsHaveConnections
  <2> QED
    BY <1>4, <2>1, AttemptKeepsIInv DEF Retry
<1>5. ASSUME NEW c \in Conns, Close(c)
      PROVE  IInv'
  BY <1>1, <1>5 DEF Close, Unlock, Idle, IInv, TransactionTypeOK,
                    CallsHaveConnections, ReadIsCurrent
<1>6. ASSUME NEW c \in Conns, Open(c)
      PROVE  IInv'
  BY <1>1, <1>6 DEF Open, IInv, TransactionTypeOK, CallsHaveConnections, ReadIsCurrent
<1>7. CASE UNCHANGED transactionVars
  BY <1>1, <1>7 DEF transactionVars, IInv, TransactionTypeOK, CallsHaveConnections,
                    ReadIsCurrent
<1> QED
  BY <1>2, <1>3, <1>4, <1>5, <1>6, <1>7, FinishKeepsIInv, CrashKeepsIInv
  DEF TransactionNext

(* The invariant holds in every reachable state.                           *)
LEMMA Invariance == TransactionSpec => []IInv
BY InitIInv, NextIInv, PTL DEF TransactionSpec

(* Types hold, and a connection executes an operation only with the write   *)
(* lock of the file, whatever is busy, fails or crashes.                    *)
THEOREM TypeCorrect == TransactionSpec => []TransactionTypeOK
<1>1. IInv => TransactionTypeOK
  BY DEF IInv
<1> QED
  BY <1>1, Invariance, PTL

-----------------------------------------------------------------------------
(* What the caller knows, as a function.                                    *)
Known == [t \in Tasks |-> KnownOf(t)]

(* What the caller knows after its call has moved to a phase.               *)
LEMMA KnownAfter ==
  ASSUME TransactionTypeOK, NEW t \in Tasks, NEW r \in Call,
         calls' = [calls EXCEPT ![t] = r]
  PROVE  Known' = [Known EXCEPT ![t] =
                     IF r.phase \in {"waiting", "running"} THEN "pending" ELSE r.phase]
BY DEF TransactionTypeOK, Known, KnownOf

(* What the caller knows after an answer.                                   *)
LEMMA KnownAfterAnswer ==
  ASSUME TransactionTypeOK, NEW t \in Tasks, NEW p \in {"ok", "error"}, Answer(t, p)
  PROVE  Known' = [Known EXCEPT ![t] = p]
<1>1. [calls[t] EXCEPT !.phase = p] \in Call
  BY DEF TransactionTypeOK, Call, Phases
<1>2. /\ calls' = [calls EXCEPT ![t] = [calls[t] EXCEPT !.phase = p]]
      /\ [calls[t] EXCEPT !.phase = p].phase = p
  BY DEF Answer, TransactionTypeOK, Call
<1> QED
  BY <1>1, <1>2, KnownAfter

(* An attempt to begin changes nothing the caller can rely on: the call is  *)
(* asked, goes on, or is refused.                                           *)
LEMMA AttemptAsksOrRefuses ==
  ASSUME TransactionTypeOK, NEW t \in Tasks, NEW c \in Conns,
         NEW n \in 0..BusyRetries,
         calls[t].phase \in {"idle", "waiting"}, Attempt(t, c, n)
  PROVE  Callers!AtomicNext \/ UNCHANGED <<Known, value>>
<1>1. PICK r \in Call : /\ calls' = [calls EXCEPT ![t] = r]
                        /\ r.phase \in {"waiting", "running", "error"}
                        /\ UNCHANGED value
  <2>1. \A p \in {"waiting", "running", "error"}, m \in 0..BusyRetries :
          /\ [phase |-> p, on |-> c, attempt |-> m] \in Call
          /\ [phase |-> p, on |-> c, attempt |-> m].phase = p
    BY DEF Call, Phases
  <2>2. CASE BeginSucceeds(t, c, n)
    BY <2>1, <2>2 DEF BeginSucceeds
  <2>3. CASE BeginIsBusy(t, c, n)
    <3>1. RetryOrFail(n) \in {"waiting", "error"}
      BY DEF RetryOrFail
    <3>2. (IF n < BusyRetries THEN n + 1 ELSE n) \in 0..BusyRetries
      OBVIOUS
    <3> QED
      BY <2>1, <2>3, <3>1, <3>2 DEF BeginIsBusy
  <2>4. CASE BeginThrows(t, c, n)
    BY <2>1, <2>4 DEF BeginThrows
  <2> QED
    BY <2>2, <2>3, <2>4 DEF Attempt
<1>2. Known[t] = IF calls[t].phase = "waiting" THEN "pending" ELSE "idle"
  BY DEF Known, KnownOf
<1>3. CASE r.phase = "error"
  <2>1. Known' = [Known EXCEPT ![t] = "error"]
    BY <1>1, <1>3, KnownAfter
  <2>2. Callers!Refuse(t)
    BY <1>1, <1>2, <2>1 DEF Callers!Refuse, Known
  <2> QED
    BY <2>2 DEF Callers!AtomicNext
<1>4. CASE r.phase # "error" /\ calls[t].phase = "idle"
  <2>1. Known' = [Known EXCEPT ![t] = "pending"]
    BY <1>1, <1>4, KnownAfter
  <2>2. Callers!Ask(t)
    BY <1>1, <1>2, <1>4, <2>1 DEF Callers!Ask, Known
  <2> QED
    BY <2>2 DEF Callers!AtomicNext
<1>5. CASE r.phase # "error" /\ calls[t].phase = "waiting"
  <2>1. Known' = [Known EXCEPT ![t] = "pending"]
    BY <1>1, <1>5, KnownAfter
  <2>2. Known' = Known
    BY <1>2, <1>5, <2>1 DEF Known
  <2> QED
    BY <1>1, <2>2
<1> QED
  BY <1>3, <1>4, <1>5

(* A commit takes effect once, on top of the value read; every other end    *)
(* of an operation takes no effect and is refused.                          *)
LEMMA FinishDoesOrRefuses ==
  ASSUME IInv, NEW t \in Tasks, Finish(t)
  PROVE  Callers!AtomicNext
<1>1. TransactionTypeOK /\ CallsHaveConnections /\ ReadIsCurrent
  BY DEF IInv
<1>2. calls[t].phase = "running" /\ Known[t] = "pending"
  BY DEF Finish, Commit, RollBack, RollBackFails, Known, KnownOf
<1>3. seen[calls[t].on] = value
  BY <1>1, <1>2 DEF CallsHaveConnections, ReadIsCurrent
<1>4. \A p \in {"ok", "error"} : Answer(t, p) => Known' = [Known EXCEPT ![t] = p]
  BY <1>1, KnownAfterAnswer
<1>5. CASE Commit(t)
  <2>1. Callers!Do(t)
    BY <1>2, <1>3, <1>4, <1>5 DEF Commit, Callers!Do, Known
  <2> QED
    BY <2>1 DEF Callers!AtomicNext
<1>6. CASE RollBack(t) \/ RollBackFails(t)
  <2>1. Callers!Refuse(t)
    BY <1>2, <1>4, <1>6 DEF RollBack, RollBackFails, Callers!Refuse, Known
  <2> QED
    BY <2>1 DEF Callers!AtomicNext
<1> QED
  BY <1>5, <1>6 DEF Finish

(* The calls of a process that dies are lost together, with at most the     *)
(* effect of the one that was running.                                      *)
LEMMA CrashLoses ==
  ASSUME IInv, NEW c \in Conns, Crash(c)
  PROVE  Callers!AtomicNext
<1>1. TransactionTypeOK /\ ReadIsCurrent
  BY DEF IInv
<1>2. Of(c) \in SUBSET Tasks /\ \A t \in Of(c) : Known[t] = "pending"
  BY DEF Of, Known, KnownOf
<1>3. Known' = [t \in Tasks |-> IF t \in Of(c) THEN "lost" ELSE Known[t]]
  BY <1>1 DEF Crash, Of, Known, KnownOf, TransactionTypeOK, Call
<1>4. value' \in IF Of(c) = {} THEN {value} ELSE {value, value + 1}
  BY <1>1 DEF Crash, Idle, Of, TransactionTypeOK, ReadIsCurrent
<1>5. Callers!Die(Of(c))
  BY <1>2, <1>3, <1>4 DEF Callers!Die, Known
<1> QED
  BY <1>2, <1>5 DEF Callers!AtomicNext

(* Every step of the transactions is a step of the atomic calls or none.    *)
LEMMA StepsAreAtomic ==
  IInv /\ [TransactionNext]_transactionVars => [Callers!AtomicNext]_Callers!atomicVars
<1> SUFFICES ASSUME IInv, [TransactionNext]_transactionVars
             PROVE  Callers!AtomicNext \/ UNCHANGED <<Known, value>>
  BY DEF Callers!atomicVars, Known
<1>1. TransactionTypeOK /\ CallsHaveConnections
  BY DEF IInv
<1>2. ASSUME NEW t \in Tasks, NEW c \in Conns, Start(t, c)
      PROVE  Callers!AtomicNext \/ UNCHANGED <<Known, value>>
  BY <1>1, <1>2, AttemptAsksOrRefuses DEF Start
<1>3. ASSUME NEW t \in Tasks, NEW c \in Conns, StartUnusable(t, c)
      PROVE  Callers!AtomicNext
  <2>1. Known[t] = "idle"
    BY <1>3 DEF StartUnusable, Known, KnownOf
  <2>2. Known' = [Known EXCEPT ![t] = "error"]
    BY <1>1, <1>3, KnownAfterAnswer DEF StartUnusable
  <2>3. Callers!Refuse(t)
    BY <1>3, <2>1, <2>2 DEF StartUnusable, Callers!Refuse, Known
  <2> QED
    BY <2>3 DEF Callers!AtomicNext
<1>4. ASSUME NEW t \in Tasks, Retry(t)
      PROVE  Callers!AtomicNext \/ UNCHANGED <<Known, value>>
  <2>1. calls[t].on \in Conns /\ calls[t].attempt \in 0..BusyRetries
    BY <1>1, <1>4 DEF Retry, TransactionTypeOK, Call, CallsHaveConnections
  <2> QED
    BY <1>1, <1>4, <2>1, AttemptAsksOrRefuses DEF Retry
<1>5. CASE \E c \in Conns : Close(c) \/ Open(c)
  BY <1>5 DEF Close, Open, Known, KnownOf
<1>6. CASE UNCHANGED transactionVars
  BY <1>6 DEF transactionVars, Known, KnownOf
<1> QED
  BY <1>2, <1>3, <1>4, <1>5, <1>6, FinishDoesOrRefuses, CrashLoses DEF TransactionNext

(* Whatever is busy, fails, is closed or crashes, in any number of          *)
(* processes: a call that succeeds has taken effect exactly once, one that  *)
(* fails not at all, and no effect is overwritten.                          *)
THEOREM TransactionsAreAtomic == TransactionSpec => ImplementsAtomicCalls
<1>1. TransactionInit => Callers!AtomicInit
  BY DEF TransactionInit, Callers!AtomicInit, KnownOf
<1> QED
  BY <1>1, StepsAreAtomic, Invariance, PTL
  DEF TransactionSpec, ImplementsAtomicCalls, Callers!AtomicSpec
=============================================================================
