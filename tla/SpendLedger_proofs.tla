-------------------------- MODULE SpendLedger_proofs --------------------------
(***************************************************************************)
(* The promise of the ledger, for any number of ids, principals and        *)
(* mandates and any caps: what both stores of agentpay-guard implement     *)
(* keeps the spend of every rolling window within the caps.                *)
(***************************************************************************)
EXTENDS SpendLedger, FiniteSetTheorems, TLAPS

\* What the theorem needs of the constants: finitely many ids, a bound on the
\* amounts, and a value that is no entry and no instant.
LedgerConstants ==
  /\ IsFiniteSet(Ids)
  /\ MaxAmount \in Nat /\ MinWindow \in Nat /\ Cap \in Nat /\ AggregateCap \in Nat
  /\ None \notin Entry /\ None \notin Nat

\* Entries are entries, and a spent one has the instant it was spent at.
LedgerTypeOK ==
  /\ entries \in Entries
  /\ now \in Nat
  /\ \A i \in Ids : entries[i] # None =>
       (entries[i].state = "spent" => entries[i].spentAt \in Nat)

LedgerInv == LedgerTypeOK /\ SpendWithinCaps

\* The entries of a principal's mandates that weigh are, after a step, among
\* those that weighed before it.
NothingAdded(p, ms, w) ==
  \A i \in Weighing(entries, p, ms, w)' :
    /\ i \in Weighing(entries, p, ms, w)
    /\ entries'[i].amount = entries[i].amount

-----------------------------------------------------------------------------
(* Sums.                                                                   *)

\* A sum is a natural number.
LEMMA SumType ==
  ASSUME LedgerConstants, NEW es, NEW is \in SUBSET Ids
  PROVE  /\ IsFiniteSet({u \in is \X (1..MaxAmount) : u[2] <= es[u[1]].amount})
         /\ Sum(es, is) \in Nat
<1> DEFINE us == {u \in is \X (1..MaxAmount) : u[2] <= es[u[1]].amount}
<1>1. IsFiniteSet(Ids) /\ MaxAmount \in Int
  BY DEF LedgerConstants
<1>2. IsFiniteSet(is)
  BY <1>1, FS_Subset
<1>3. IsFiniteSet(1..MaxAmount)
  BY <1>1, FS_Interval
<1>4. IsFiniteSet(is \X (1..MaxAmount))
  BY <1>2, <1>3, FS_Product
<1>5. us \in SUBSET (is \X (1..MaxAmount))
  OBVIOUS
<1>6. IsFiniteSet(us)
  BY <1>4, <1>5, FS_Subset
<1> QED
  BY <1>6, FS_CardinalityType DEF Sum

\* Fewer entries of the same amounts never sum to more.
LEMMA SumMonotone ==
  ASSUME LedgerConstants, NEW es, NEW fs, NEW is \in SUBSET Ids, NEW js \in SUBSET Ids,
         \A i \in is : i \in js /\ es[i].amount = fs[i].amount
  PROVE  Sum(es, is) <= Sum(fs, js)
<1> DEFINE us == {u \in is \X (1..MaxAmount) : u[2] <= es[u[1]].amount}
           vs == {u \in js \X (1..MaxAmount) : u[2] <= fs[u[1]].amount}
<1>1. us \in SUBSET vs
  OBVIOUS
<1>2. IsFiniteSet(vs)
  BY SumType
<1> QED
  BY <1>1, <1>2, FS_Subset DEF Sum

\* What weighs is a set of ids.
LEMMA WeighingAreIds ==
  \A es, p, ms, w : Weighing(es, p, ms, w) \in SUBSET Ids
BY DEF Weighing

\* A shorter window has no more in it.
LEMMA ShorterWindow ==
  ASSUME LedgerTypeOK, NEW p, NEW ms, NEW v \in Nat, NEW w \in Nat, v <= w
  PROVE  Weighing(entries, p, ms, v) \in SUBSET Weighing(entries, p, ms, w)
BY DEF Weighing, Weighs, LedgerTypeOK, Entries, Entry, Longer

-----------------------------------------------------------------------------
(* Steps.                                                                  *)

\* Initially the ledger is empty.
LEMMA InitInv ==
  ASSUME LedgerConstants, LedgerInit
  PROVE  LedgerInv
<1>1. LedgerTypeOK
  BY DEF LedgerInit, LedgerTypeOK, Entries
<1>2. \A p, ms : Weighing(entries, p, ms, MinWindow) = {}
  BY DEF LedgerInit, Weighing
<1>3. Sum(entries, {}) = 0
  <2>1. {u \in {} \X (1..MaxAmount) : u[2] <= entries[u[1]].amount} = {}
    OBVIOUS
  <2> QED
    BY <2>1, FS_EmptySet DEF Sum
<1> QED
  BY <1>1, <1>2, <1>3 DEF LedgerInv, SpendWithinCaps, LedgerConstants

\* An entry that moves and weighs afterwards has weighed before, with the same
\* amount, for the same principal and mandate.
LEMMA MovesAddNothing ==
  ASSUME LedgerConstants, NEW e \in Entry \cup {None}, NEW f \in Entry \cup {None},
         Moves(e, f), f # None, NEW w \in Nat
  PROVE  /\ e # None /\ SameEntry(e, f)
         /\ Weighs(f, w) => Weighs(e, w)
BY DEF LedgerConstants, Moves, SameEntry, Signs, Settles, Lapses, Weighs, Open, Entry

\* A spent entry keeps its instant when it moves.
LEMMA MovesKeepInstants ==
  ASSUME LedgerTypeOK, entries' \in Entries, UNCHANGED now,
         NEW i \in Ids, Moves(entries[i], entries'[i]), entries'[i] # None,
         entries'[i].state = "spent"
  PROVE  entries'[i].spentAt \in Nat
BY DEF LedgerTypeOK, Moves, Signs, Settles, Lapses

\* When nothing is added for a principal's mandates, their sum does not grow.
LEMMA SumKept ==
  ASSUME LedgerConstants, NEW p, NEW ms, NothingAdded(p, ms, MinWindow)
  PROVE  /\ Sum(entries, Weighing(entries, p, ms, MinWindow))'
              <= Sum(entries, Weighing(entries, p, ms, MinWindow))
         /\ Sum(entries, Weighing(entries, p, ms, MinWindow)) \in Nat
         /\ Sum(entries, Weighing(entries, p, ms, MinWindow))' \in Nat
<1> DEFINE is == Weighing(entries, p, ms, MinWindow)'
           js == Weighing(entries, p, ms, MinWindow)
<1>1. is \in SUBSET Ids /\ js \in SUBSET Ids
  BY DEF Weighing
<1>2. \A i \in is : i \in js /\ entries'[i].amount = entries[i].amount
  BY DEF NothingAdded
<1> HIDE DEF is, js
<1>3. Sum(entries', is) <= Sum(entries, js)
  BY <1>1, <1>2, SumMonotone
<1>4. Sum(entries', is) \in Nat /\ Sum(entries, js) \in Nat
  BY <1>1, SumType
<1>5. Sum(entries, Weighing(entries, p, ms, MinWindow))' = Sum(entries', is)
  BY DEF Sum, is
<1> QED
  BY <1>3, <1>4, <1>5 DEF js

\* Posting keeps the caps: of its own mandate and principal because it checks
\* them with the new entry, of the others because nothing is added there.
LEMMA PostKeepsInv ==
  ASSUME LedgerConstants, LedgerInv, NEW i \in Ids, Post(i)
  PROVE  LedgerInv'
<1> DEFINE e == entries'[i]
<1>1. LedgerTypeOK /\ SpendWithinCaps
  BY DEF LedgerInv
<1>2. /\ e \in Entry /\ e.state = "reserved"
      /\ e.window \in Nat /\ MinWindow <= e.window /\ MinWindow \in Nat
  BY DEF Post, Entries, Entry, LedgerConstants
<1>3. \A j \in Ids \ {i} : Moves(entries[j], entries'[j])
  BY DEF Post
<1>4. LedgerTypeOK'
  BY <1>1, <1>2, <1>3, MovesKeepInstants DEF Post, LedgerTypeOK
<1>5. ASSUME NEW p \in Principals, NEW ms, p # e.principal \/ e.mandate \notin ms
      PROVE  NothingAdded(p, ms, MinWindow)
  <2> SUFFICES ASSUME NEW j \in Weighing(entries, p, ms, MinWindow)'
               PROVE  /\ j \in Weighing(entries, p, ms, MinWindow)
                      /\ entries'[j].amount = entries[j].amount
    BY DEF NothingAdded
  <2>1. /\ j \in Ids \ {i} /\ entries'[j] # None
        /\ entries'[j].principal = p /\ entries'[j].mandate \in ms
        /\ Weighs(entries'[j], MinWindow)
    BY <1>5 DEF Weighing, Weighs, Post
  <2>2. entries[j] \in Entry \cup {None} /\ entries'[j] \in Entry \cup {None}
    BY <1>1, <2>1 DEF LedgerTypeOK, Entries, Post
  <2>3. /\ entries[j] # None /\ SameEntry(entries[j], entries'[j])
        /\ Weighs(entries[j], MinWindow)
    BY <1>2, <1>3, <2>1, <2>2, MovesAddNothing
  <2> QED
    BY <2>1, <2>3 DEF Weighing, SameEntry
<1>6. ASSUME NEW p, NEW ms, NEW w \in Nat, p = e.principal, w = e.window
      PROVE  /\ Sum(entries, Weighing(entries, p, ms, MinWindow))'
                  <= Sum(entries', Weighing(entries', p, ms, w))
             /\ Sum(entries, Weighing(entries, p, ms, MinWindow))' \in Nat
             /\ Sum(entries', Weighing(entries', p, ms, w)) \in Nat
  <2> DEFINE is == Weighing(entries', p, ms, MinWindow)
             js == Weighing(entries', p, ms, w)
  <2>1. is \in SUBSET js
    BY <1>2, <1>4 DEF Weighing, Weighs, LedgerTypeOK, Entries, Entry, Longer, Post
  <2>2. is \in SUBSET Ids /\ js \in SUBSET Ids
    BY WeighingAreIds
  <2>3. Sum(entries, Weighing(entries, p, ms, MinWindow))' = Sum(entries', is)
    BY DEF Sum, Weighing, Weighs, Post
  <2> HIDE DEF is, js
  <2>4. Sum(entries', is) <= Sum(entries', js)
    BY <2>1, <2>2, SumMonotone
  <2>5. Sum(entries', is) \in Nat /\ Sum(entries', js) \in Nat
    BY <2>2, SumType
  <2> QED
    BY <2>3, <2>4, <2>5 DEF js
<1>7. FitsCaps(entries', e) /\ Cap \in Nat /\ AggregateCap \in Nat
  BY DEF Post, LedgerConstants
<1>8. ASSUME NEW p \in Principals, NEW m \in Mandates
      PROVE  (Sum(entries, Weighing(entries, p, {m}, MinWindow)) <= Cap)'
  <2>1. CASE p = e.principal /\ m = e.mandate
    BY <1>2, <1>6, <1>7, <2>1 DEF FitsCaps
  <2>2. CASE p # e.principal \/ m # e.mandate
    BY <1>1, <1>5, <1>7, <2>2, SumKept DEF SpendWithinCaps
  <2> QED
    BY <2>1, <2>2
<1>9. ASSUME NEW p \in Principals
      PROVE  (Sum(entries, Weighing(entries, p, Mandates, MinWindow)) <= AggregateCap)'
  <2>1. CASE p = e.principal
    BY <1>2, <1>6, <1>7, <2>1 DEF FitsCaps
  <2>2. CASE p # e.principal
    BY <1>1, <1>5, <1>7, <2>2, SumKept DEF SpendWithinCaps
  <2> QED
    BY <2>1, <2>2
<1> QED
  BY <1>4, <1>8, <1>9 DEF LedgerInv, SpendWithinCaps

\* A step that adds nothing anywhere keeps the caps.
LEMMA AddingNothingKeepsCaps ==
  ASSUME LedgerConstants, SpendWithinCaps,
         \A p \in Principals : \A ms : NothingAdded(p, ms, MinWindow)
  PROVE  SpendWithinCaps'
<1>1. Cap \in Nat /\ AggregateCap \in Nat
  BY DEF LedgerConstants
<1>2. ASSUME NEW p \in Principals, NEW m \in Mandates
      PROVE  (Sum(entries, Weighing(entries, p, {m}, MinWindow)) <= Cap)'
  BY <1>1, SumKept DEF SpendWithinCaps
<1>3. ASSUME NEW p \in Principals
      PROVE  (Sum(entries, Weighing(entries, p, Mandates, MinWindow)) <= AggregateCap)'
  BY <1>1, SumKept DEF SpendWithinCaps
<1> QED
  BY <1>2, <1>3 DEF SpendWithinCaps

\* Amending moves entries, and a move adds nothing.
LEMMA AmendKeepsInv ==
  ASSUME LedgerConstants, LedgerInv, Amend
  PROVE  LedgerInv'
<1>1. LedgerTypeOK /\ SpendWithinCaps
  BY DEF LedgerInv
<1>2. LedgerTypeOK'
  BY <1>1, MovesKeepInstants DEF Amend, LedgerTypeOK
<1>3. ASSUME NEW p \in Principals, NEW ms
      PROVE  NothingAdded(p, ms, MinWindow)
  <2> SUFFICES ASSUME NEW j \in Weighing(entries, p, ms, MinWindow)'
               PROVE  /\ j \in Weighing(entries, p, ms, MinWindow)
                      /\ entries'[j].amount = entries[j].amount
    BY DEF NothingAdded
  <2>1. /\ j \in Ids /\ entries'[j] # None
        /\ entries'[j].principal = p /\ entries'[j].mandate \in ms
        /\ Weighs(entries'[j], MinWindow)
    BY DEF Weighing, Weighs, Amend
  <2>2. entries[j] \in Entry \cup {None} /\ entries'[j] \in Entry \cup {None}
    BY <1>1, <2>1 DEF LedgerTypeOK, Entries, Amend
  <2>3. MinWindow \in Nat
    BY DEF LedgerConstants
  <2>4. /\ entries[j] # None /\ SameEntry(entries[j], entries'[j])
        /\ Weighs(entries[j], MinWindow)
    BY <2>1, <2>2, <2>3, MovesAddNothing DEF Amend
  <2> QED
    BY <2>1, <2>4 DEF Weighing, SameEntry
<1> QED
  BY <1>1, <1>2, <1>3, AddingNothingKeepsCaps DEF LedgerInv

\* Time only takes spent entries out of the window.
LEMMA TickKeepsInv ==
  ASSUME LedgerConstants, LedgerInv, Tick
  PROVE  LedgerInv'
<1>1. LedgerTypeOK /\ SpendWithinCaps /\ MinWindow \in Nat
  BY DEF LedgerInv, LedgerConstants
<1>2. LedgerTypeOK'
  BY <1>1 DEF Tick, LedgerTypeOK
<1>3. \A p \in Principals : \A ms : NothingAdded(p, ms, MinWindow)
  BY <1>1 DEF NothingAdded, Weighing, Weighs, Tick, LedgerTypeOK, Entries, Entry, Longer
<1> QED
  BY <1>1, <1>2, <1>3, AddingNothingKeepsCaps DEF LedgerInv

-----------------------------------------------------------------------------
\* Whatever a store deletes, recovers or is asked for, as long as it moves its
\* rows as the ledger does, the spend of the whole history that lies in the
\* current rolling window stays within the cap of the mandate and of the principal.
THEOREM LedgerKeepsCaps ==
  ASSUME LedgerConstants
  PROVE  LedgerSpec => []SpendWithinCaps
<1>1. LedgerInit => LedgerInv
  BY InitInv
<1>2. LedgerInv /\ [LedgerNext]_ledgerVars => LedgerInv'
  <2> SUFFICES ASSUME LedgerInv, [LedgerNext]_ledgerVars
               PROVE  LedgerInv'
    OBVIOUS
  <2>1. CASE UNCHANGED ledgerVars
    BY <2>1 DEF ledgerVars, LedgerInv, LedgerTypeOK, SpendWithinCaps, Weighing, Weighs, Sum
  <2> QED
    BY <2>1, PostKeepsInv, AmendKeepsInv, TickKeepsInv DEF LedgerNext
<1>3. LedgerInv => SpendWithinCaps
  BY DEF LedgerInv
<1> QED
  BY <1>1, <1>2, <1>3, PTL DEF LedgerSpec
=============================================================================
