----------------------------- MODULE SpendLedger -----------------------------
(***************************************************************************)
(* What every store of agentpay-guard promises about money, whether it     *)
(* keeps its rows in memory or in SQLite (store/types.ts, AtomicStore): a  *)
(* ledger that forgets nothing.  An entry is written only when the caps    *)
(* still hold with it, and is closed only by a settlement or when its      *)
(* authorization can no longer be spent.  Deleting old rows, recovering    *)
(* after a restart and stale request instants are the stores' business:    *)
(* here they must be invisible.                                            *)
(***************************************************************************)
EXTENDS Integers, FiniteSets

CONSTANTS
  Ids,          \* reservation ids, never used twice
  Principals,   \* whose budget is spent
  Mandates,     \* budgets of a principal
  None,         \* an id without an entry, an entry that is not spent
  MaxAmount,    \* largest amount of one entry
  MinWindow,    \* the shortest rolling window in use
  Cap,          \* per mandate
  AggregateCap  \* per principal

VARIABLES
  entries,  \* [Ids -> Entry or None]
  now       \* the clock

ledgerVars == <<entries, now>>

\* "reserved": not signed yet; "uncertain": signed, or not known to be unsigned.
Open == {"reserved", "uncertain"}

Entry ==
  [principal : Principals, mandate : Mandates, amount : 0..MaxAmount,
   window : {w \in Nat : w >= MinWindow}, due : Nat, state : Open \cup {"spent", "void"},
   spentAt : Nat \cup {None}]

Longer(a, b) == IF a >= b THEN a ELSE b

-----------------------------------------------------------------------------
\* An entry weighs on the caps while it is open, and for a window once spent.
Weighs(e, w) ==
  \/ e.state \in Open
  \/ e.state = "spent" /\ e.spentAt > now - Longer(e.window, w)

Weighing(es, p, ms, w) ==
  {i \in Ids : /\ es[i] # None
               /\ es[i].principal = p
               /\ es[i].mandate \in ms
               /\ Weighs(es[i], w)}

Sum(es, is) == Cardinality({u \in is \X (1..MaxAmount) : u[2] <= es[u[1]].amount})

FitsCaps(es, e) ==
  /\ Sum(es, Weighing(es, e.principal, {e.mandate}, e.window)) <= Cap
  /\ Sum(es, Weighing(es, e.principal, Mandates, e.window)) <= AggregateCap

-----------------------------------------------------------------------------
(* How one entry may move.                                                 *)

SameEntry(e, f) ==
  /\ f.principal = e.principal /\ f.mandate = e.mandate
  /\ f.amount = e.amount       /\ f.window = e.window

Signs(e, f) ==
  /\ e.state = "reserved" /\ f.state = "uncertain"
  /\ f.due >= e.due /\ f.spentAt = None

Settles(e, f) ==
  /\ e.state = "uncertain" /\ f.state = "spent"
  /\ f.due = e.due /\ f.spentAt \in 0..now

\* An unsigned entry may be dropped; a signed one only after a whole window
\* that starts when its authorization dies.
Lapses(e, f) ==
  /\ \/ e.state = "reserved"
     \/ e.state = "uncertain" /\ now >= e.due + e.window
  /\ f.state = "void" /\ f.due = e.due /\ f.spentAt = e.spentAt

Moves(e, f) ==
  \/ f = e
  \/ /\ e # None /\ f # None
     /\ SameEntry(e, f)
     /\ Signs(e, f) \/ Settles(e, f) \/ Lapses(e, f)

Entries == [Ids -> Entry \cup {None}]

-----------------------------------------------------------------------------
LedgerInit ==
  /\ entries = [i \in Ids |-> None]
  /\ now = 0

\* A reservation: one new entry, in a step that may also close old ones.
Post(i) ==
  /\ entries[i] = None
  /\ entries' \in Entries
  /\ entries'[i] # None /\ entries'[i].state = "reserved"
  /\ \A j \in Ids \ {i} : Moves(entries[j], entries'[j])
  /\ FitsCaps(entries', entries'[i])
  /\ UNCHANGED now

\* Every other operation moves entries one by one and adds none.
Amend ==
  /\ entries' \in Entries
  /\ \A j \in Ids : Moves(entries[j], entries'[j])
  /\ UNCHANGED now

Tick ==
  /\ now' = now + 1
  /\ UNCHANGED entries

LedgerNext == (\E i \in Ids : Post(i)) \/ Amend \/ Tick

LedgerSpec == LedgerInit /\ [][LedgerNext]_ledgerVars

-----------------------------------------------------------------------------
\* The spend of the whole history that falls into the current rolling window,
\* forgotten rows included, never exceeds the caps.
SpendWithinCaps ==
  \A p \in Principals :
    /\ \A m \in Mandates : Sum(entries, Weighing(entries, p, {m}, MinWindow)) <= Cap
    /\ Sum(entries, Weighing(entries, p, Mandates, MinWindow)) <= AggregateCap
=============================================================================
