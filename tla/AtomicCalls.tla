----------------------------- MODULE AtomicCalls -----------------------------
(***************************************************************************)
(* What the callers of a store may rely on (store/types.ts, AtomicStore):  *)
(* a call takes effect once and as a whole, or not at all, and its answer  *)
(* says which; only the death of the process leaves that open.  The state  *)
(* of the store is reduced to the number of effects it has taken.          *)
(***************************************************************************)
EXTENDS Naturals

CONSTANT Tasks  \* callers, one call each

VARIABLES
  calls,  \* what each caller knows of its call
  value   \* effects taken

atomicVars == <<calls, value>>

AtomicInit == calls = [t \in Tasks |-> "idle"] /\ value = 0

Ask(t) ==
  /\ calls[t] = "idle"
  /\ calls' = [calls EXCEPT ![t] = "pending"]
  /\ UNCHANGED value

\* The effect and the answer are one step.
Do(t) ==
  /\ calls[t] = "pending"
  /\ calls' = [calls EXCEPT ![t] = "ok"]
  /\ value' = value + 1

Refuse(t) ==
  /\ calls[t] \in {"idle", "pending"}
  /\ calls' = [calls EXCEPT ![t] = "error"]
  /\ UNCHANGED value

\* The callers of one process die together: at most one had taken effect.
Die(ts) ==
  /\ \A t \in ts : calls[t] = "pending"
  /\ calls' = [t \in Tasks |-> IF t \in ts THEN "lost" ELSE calls[t]]
  /\ value' \in IF ts = {} THEN {value} ELSE {value, value + 1}

AtomicNext ==
  \/ \E t \in Tasks : Ask(t) \/ Do(t) \/ Refuse(t)
  \/ \E ts \in SUBSET Tasks : Die(ts)

AtomicSpec == AtomicInit /\ [][AtomicNext]_atomicVars
=============================================================================
