-------------------------- MODULE SqliteTransaction --------------------------
(***************************************************************************)
(* How the SQLite store of agentpay-guard runs an operation                *)
(* (store/sqlite/store.ts, transaction): BEGIN with retries while another  *)
(* connection has the write lock, the operation, COMMIT, and ROLLBACK when *)
(* either throws; a rollback that fails poisons the store.                 *)
(*                                                                         *)
(* A connection belongs to one process with one event loop: from BEGIN to  *)
(* COMMIT its code does not await, so no other call of that connection     *)
(* runs in between, but calls of other processes do; between two attempts  *)
(* a call waits, and then everything may happen.  The operation is the     *)
(* increment of a counter: reading it, then writing it, is enough to see   *)
(* whether an effect is lost, doubled or torn.                             *)
(***************************************************************************)
EXTENDS Naturals, FiniteSets

CONSTANTS
  Tasks,       \* calls of the store's operations
  Conns,       \* connections, each in a process of its own
  None,        \* no connection, no task
  BusyRetries  \* options.busyRetries

ASSUME RetriesBounded == BusyRetries \in Nat
ASSUME NobodyIsNone == None \notin Tasks \cup Conns

VARIABLES
  conn,     \* "open", "poisoned" or "closed", for each connection
  lock,     \* the connection that has the write lock of the file
  running,  \* the task whose operation a connection is executing
  seen,     \* what that operation has read
  calls,    \* each task: its phase, connection and attempt
  value     \* the committed counter

connVars == <<conn, lock, running, seen>>
transactionVars == <<conn, lock, running, seen, calls, value>>

Phases == {"idle", "waiting", "running", "ok", "error", "lost"}

Call == [phase : Phases, on : Conns \cup {None}, attempt : 0..BusyRetries]

Of(c) == {t \in Tasks : calls[t].on = c /\ calls[t].phase \in {"waiting", "running"}}

\* The thread of the connection's process is not inside an operation.
Idle(c) == running[c] = None

Answer(t, phase) == calls' = [calls EXCEPT ![t].phase = phase]

-----------------------------------------------------------------------------
(* BEGIN.                                                                  *)

LockIgnored(c) == lock # c

\* BEGIN IMMEDIATE takes the write lock, and the operation reads.
LockFree(c) == lock = None

BeginSucceeds(t, c, n) ==
  /\ conn[c] # "closed"
  /\ LockFree(c)
  /\ lock' = c
  /\ running' = [running EXCEPT ![c] = t]
  /\ seen' = [seen EXCEPT ![c] = value]
  /\ calls' = [calls EXCEPT ![t] = [phase |-> "running", on |-> c, attempt |-> n]]
  /\ UNCHANGED <<conn, value>>

RetryForever(n) == "waiting"

\* The lock stays taken for the whole busy timeout: one more attempt, or none.
RetryOrFail(n) == IF n < BusyRetries THEN "waiting" ELSE "error"

BeginIsBusy(t, c, n) ==
  /\ conn[c] # "closed"
  /\ lock \notin {None, c}
  /\ calls' = [calls EXCEPT ![t] =
                 [phase |-> RetryOrFail(n), on |-> c,
                  attempt |-> IF n < BusyRetries THEN n + 1 ELSE n]]
  /\ UNCHANGED <<connVars, value>>

\* A closed connection, or one whose last transaction is still open.
BeginThrows(t, c, n) ==
  /\ conn[c] = "closed" \/ lock = c
  /\ calls' = [calls EXCEPT ![t] = [phase |-> "error", on |-> c, attempt |-> n]]
  /\ UNCHANGED <<connVars, value>>

Attempt(t, c, n) ==
  BeginSucceeds(t, c, n) \/ BeginIsBusy(t, c, n) \/ BeginThrows(t, c, n)

\* assertUsable, then the first attempt, without an await between them.
Start(t, c) ==
  /\ calls[t].phase = "idle"
  /\ Idle(c)
  /\ conn[c] = "open"
  /\ Attempt(t, c, 0)

StartUnusable(t, c) ==
  /\ calls[t].phase = "idle"
  /\ conn[c] # "open"
  /\ Answer(t, "error")
  /\ UNCHANGED <<connVars, value>>

\* After the delay the loop goes on with BEGIN: nothing is asserted again.
Retry(t) ==
  /\ calls[t].phase = "waiting"
  /\ Idle(calls[t].on)
  /\ Attempt(t, calls[t].on, calls[t].attempt)

-----------------------------------------------------------------------------
(* The operation, COMMIT and ROLLBACK.                                     *)

Leave(c) == running' = [running EXCEPT ![c] = None]

Commit(t) ==
  LET c == calls[t].on IN
    /\ calls[t].phase = "running"
    /\ value' = seen[c] + 1
    /\ lock' = None
    /\ Leave(c)
    /\ Answer(t, "ok")
    /\ UNCHANGED <<conn, seen>>

RollBackAnswersOk(t) ==
  /\ calls[t].phase = "running"
  /\ lock' = None
  /\ Leave(calls[t].on)
  /\ Answer(t, "ok")
  /\ UNCHANGED <<conn, seen, value>>

\* The operation or COMMIT throws, ROLLBACK does not.
RollBack(t) ==
  /\ calls[t].phase = "running"
  /\ lock' = None
  /\ Leave(calls[t].on)
  /\ Answer(t, "error")
  /\ UNCHANGED <<conn, seen, value>>

\* ROLLBACK throws too: SQLite may have rolled back by itself after an I/O error
\* or a full disk (then nothing is left to roll back), or the transaction is
\* still open and keeps the lock.
RollBackFails(t) ==
  LET c == calls[t].on IN
    /\ calls[t].phase = "running"
    /\ lock' \in {None, c}
    /\ conn' = [conn EXCEPT ![c] = "poisoned"]
    /\ Leave(c)
    /\ Answer(t, "error")
    /\ UNCHANGED <<seen, value>>

-----------------------------------------------------------------------------
(* The life of a connection.                                               *)

Unlock(c) == lock' = IF lock = c THEN None ELSE lock

\* close does not wait for the calls between two attempts.
Close(c) ==
  /\ conn[c] # "closed"
  /\ Idle(c)
  /\ conn' = [conn EXCEPT ![c] = "closed"]
  /\ Unlock(c)
  /\ UNCHANGED <<running, seen, calls, value>>

\* The process dies, before COMMIT or between COMMIT and its return.
Crash(c) ==
  /\ conn[c] # "closed"
  /\ conn' = [conn EXCEPT ![c] = "closed"]
  /\ Unlock(c)
  /\ Leave(c)
  /\ value' \in IF Idle(c) THEN {value} ELSE {value, seen[c] + 1}
  /\ calls' = [t \in Tasks |-> IF t \in Of(c) THEN [calls[t] EXCEPT !.phase = "lost"]
                               ELSE calls[t]]
  /\ UNCHANGED seen

\* open: its exclusive transaction needs the lock; calls of the closed store
\* object stay with that object and fail.
Open(c) ==
  /\ conn[c] = "closed"
  /\ lock = None
  /\ Of(c) = {}
  /\ conn' = [conn EXCEPT ![c] = "open"]
  /\ UNCHANGED <<lock, running, seen, calls, value>>

-----------------------------------------------------------------------------
TransactionInit ==
  /\ conn = [c \in Conns |-> "closed"]
  /\ lock = None
  /\ running = [c \in Conns |-> None]
  /\ seen = [c \in Conns |-> 0]
  /\ calls = [t \in Tasks |-> [phase |-> "idle", on |-> None, attempt |-> 0]]
  /\ value = 0

Finish(t) == Commit(t) \/ RollBack(t) \/ RollBackFails(t)

TransactionNext ==
  \/ \E t \in Tasks, c \in Conns : Start(t, c) \/ StartUnusable(t, c)
  \/ \E t \in Tasks : Retry(t) \/ Finish(t)
  \/ \E c \in Conns : Close(c) \/ Crash(c) \/ Open(c)

TransactionSpec ==
  /\ TransactionInit
  /\ [][TransactionNext]_transactionVars
  /\ \A t \in Tasks : WF_transactionVars(Retry(t)) /\ WF_transactionVars(Finish(t))

-----------------------------------------------------------------------------
(* Properties.                                                             *)

\* Every variable has its type; a connection executes an operation only with
\* the write lock, on a call that is running there.
TransactionTypeOK ==
  /\ conn \in [Conns -> {"open", "poisoned", "closed"}]
  /\ lock \in Conns \cup {None}
  /\ running \in [Conns -> Tasks \cup {None}]
  /\ seen \in [Conns -> Nat]
  /\ calls \in [Tasks -> Call]
  /\ value \in Nat
  /\ \A c \in Conns : running[c] # None =>
       /\ lock = c
       /\ calls[running[c]].phase = "running" /\ calls[running[c]].on = c

KnownOf(t) ==
  CASE calls[t].phase \in {"waiting", "running"} -> "pending"
    [] OTHER -> calls[t].phase

Callers == INSTANCE AtomicCalls WITH calls <- [t \in Tasks |-> KnownOf(t)]

\* Whatever the retries, failed commits and rollbacks, poisoned and closed
\* stores and crashes, a call that is answered has taken effect once if it
\* succeeded and not at all if it failed, on top of every effect before it.
ImplementsAtomicCalls == Callers!AtomicSpec

\* Every call that has begun is answered, or its process is gone: also when a
\* poisoned connection keeps the lock, nobody retries for ever.  This needs
\* that timers fire and that SQLite calls return, and nothing of the others.
EveryCallIsAnswered ==
  \A t \in Tasks :
    calls[t].phase \in {"waiting", "running"} ~>
      calls[t].phase \in {"ok", "error", "lost"}
=============================================================================
