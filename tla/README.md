# A formal model of agentpay-guard

agentpay-guard keeps an AI agent that pays over x402 within a budget: it decides
every payment before it is signed, holds the amount in a store, and gives the
hold up only when the signed authorization can no longer move money. This
directory holds TLA+ modules of that code, TLC runs that check them on small
instances, and TLAPS proofs for all values of the constants.

In the paths below `guard/` stands for `src/packages/agentpay-guard/src/`,
`proxy/` for `src/packages/agentpay-proxy/src/`, `replay/` for
`src/packages/x402-idempotency-middleware/src/` and `bench/` for
`src/packages/drainbench/src/`.

## The system

| Component | State | Operations | What makes it hard |
|---|---|---|---|
| Reservation store, `guard/store/memory.ts`, contract `guard/store/types.ts` | rows (holds), dedup keys | `tryReserve`, `transition`, `putIfAbsent`, `removeDedup`, `releaseExpired`, `recoverAfterRestart` | callers pass instants read before they waited; two deadlines per row; windows differ from call to call; restarts |
| SQLite store, `guard/store/sqlite/` | the same, in a file that several connections share; schema version, durable accounting ceiling, poisoned flag | the same, migration and `configureAccountingWindow` on opening, `pruneExpiredData`, `close` | busy retries, failed rollbacks, crashes around a commit, rows that are deleted, ceilings that differ from connection to connection |
| Clock bound, `guard/clock.ts` | none | `safeReleaseAtMs` | local clock ahead of chain time, reorganisations |
| Payment hooks, `guard/guard.ts` | pre-sign queues, nonce table, health latch | `before`, `after`, `onFailure`, `onResponse`, `reconcile` | hooks of payments interleave at every `await`; a queue cannot tell siblings apart; store operations throw |
| Evaluation, `guard/evaluate.ts`, `guard/policy/` | none of its own | envelope, amount, horizon, allowlist and intent checks; reserve; dedup | reserve and dedup are two operations; time to live against hold |
| Replay middleware, `replay/` | claims with leases, grants, token counter | `begin`, `complete`, `fail` | slow workers, deaths between claim and grant, stale workers |
| Proxy, `proxy/proxy.ts`, `proxy/cli.ts` | the store, the guard, the request's dedup context | `/paid-fetch`, `/healthz`, start, shutdown | recovery before serving, reconciliation only after requests |
| MCP forwarder `proxy/mcp.ts`, audit, entry points | none | one call forwarded as one request | pure I/O |
| DrainBench `bench/`, `src/bench/arm-a/native-hook.ts` | settlement ledger, the naive counter | scenarios | a validation harness |

How they interact: the x402 client (a library outside the repository) calls the
guard's hooks around the creation of a payment. `before` calls `evaluatePayment`,
which calls the store; `after`, `onFailure` and `onResponse` move the row on.
The proxy restarts the store with `recoverAfterRestart` and calls `reconcile`
after each request. The chain redeems what was signed and tells nobody. The
merchant runs the replay middleware on its own, in front of its handler.

What has to be true of each:

- **Store**: committed spend never exceeds a cap, whatever instants calls carry;
  no hold is given up except as released, settled or past its deadline; a
  deadline covers a whole rolling window after the authorization dies.
- **Store and chain together**: what really leaves in any rolling window stays
  within the caps.
- **SQLite store**: what it deletes could not count any more, in no window that
  it still accepts, so that it keeps the same promises as a store that deletes
  nothing; a call that is answered has taken effect once if it succeeded and not
  at all if it failed, and every call is answered.
- **Hooks**: a payload leaves only with a hold; no two payloads for one purchase;
  a response settles only the row of its own payload; after a lifecycle failure
  no new payment follows.
- **Evaluation and proxy**: whatever a merchant offers, a payment leaves only as
  the operator configured it; no two redeemable payloads for one intent, also
  across processes; a hold is kept while its payload may count, through drains,
  crashes and starts that fail, and given up afterwards.
- **Replay middleware**: one grant per payment, by the newest claim; a lease is
  respected; nobody is left paid and unserved.

## The modules

| Module | Models | Properties |
|---|---|---|
| `ReservationStore` | the store's rows: `memory.ts` | `StoreTypeOK`, `LimitsHold`, `RecoveryCoversWindow`, `OneRowPerReference`, `SweepWaitsOutWindow`, `HoldsUntilAccounted`; its `StoreSpec` is the abstract specification of `GuardHooks` and `PaymentProxy` |
| `SpendLedger` | what every store promises about money, abstractly: a ledger that forgets nothing | the specification `LedgerSpec`, `SpendWithinCaps` |
| `StoreLedger` | `ReservationStore` as an implementation of that ledger | `ImplementsLedger` |
| `SpendWindow` | the store composed with the chain and the clock skew | `PaymentsHeld`, `OutflowWithinCaps` |
| `GuardHooks` | `guard.ts` and the stateful half of `evaluate.ts` over the store, with dedup keys, faults and restarts | `HoldPerPayload`, `OnePayloadPerKey`, `SettledByOwnResponse`, `FreedKeyIsOwn`, `KeyCoversHold`, `ResponsesFindTheirRow`, `LeavesHeldOrLatched`, `StoreSpec`, `PayloadsWithinAggregateCap`, `PayloadsWithinMandateCap` |
| `SqliteStore` | the tables of the SQLite store: migration, ceiling, operations, pruning | `SqliteTypeOK`, `PrunedNeverCounts`, `CeilingIsImmutable`, `KeyBlocksUntilExpiry`, `ImplementsLedger` |
| `AtomicCalls` | what a caller of a store may rely on, abstractly | the specification `AtomicSpec` |
| `SqliteTransaction` | `transaction()`: lock, retries, commit, rollback, poisoning, crashes | `ImplementsAtomicCalls`, `EveryCallIsAnswered` |
| `Evaluate` | the pure checks of `evaluate.ts` and `guard/policy/` | operators; checked through `PaymentProxy` |
| `PaymentProxy` | `proxy.ts` and `cli.ts`: processes, requests, reconciliation, over `ReservationStore` and `Evaluate` | `OneLivePayloadPerIntent`, `HeldWhileItCounts`, `PaidAsConfigured`, `DueHoldsAreGivenUp`, `LifetimeWithinWindow` |
| `GrantOnce` | the contract of a claim store, abstractly | the specification `GrantSpec` |
| `ReplayGuard` | the replay middleware and the handlers that use it | `NewestWorkerGrants`, `LeaseRespected`, `OneGrantPerKey`, `EveryClientIsAnswered` |
| `*_proofs` | theorems | see below |
| `MC*` | instances for TLC | |

How the modules build on each other:

- `SpendWindow`, `GuardHooks`, `PaymentProxy` and `StoreLedger` extend
  `ReservationStore` and take its operations as they are, so that its caps hold for
  each of them. `SpendWindow` conjoins each with what the chain adds, and implements
  `StoreSpec` by construction; that `GuardHooks` and `PaymentProxy` keep to it is
  proved, since their hooks choose rows and deadlines of their own.
- `StoreLedger` and `SqliteStore` implement `SpendLedger`.
- `SqliteTransaction` implements `AtomicCalls`, and justifies that an operation is
  one step in `SqliteStore` and in the modules above.
- `PaymentProxy` instantiates `Evaluate`.
- `ReplayGuard` implements `GrantOnce`; it is the merchant's side and shares nothing
  with the rest.

Definitions whose only purpose is to show that a property can fail carry the
name of the mistake (`CapBeforeAmount`, `ExpiredThenExtended`,
`DivergedDropsEntry`, ...) and stand before the definition they corrupt. No
specification uses them.

### ReservationStore

`rows` is the `reservations` map; `now` is the local clock. Every operation runs
in one mutex, so each is one step. The caller reads its clock first, before the
mandate is verified and before it gets the mutex: an operation's instant is any
of `Readings`, up to `MaxLag` old. Each operation carries the sweep that the
code does first (`Swept`: the recovery deadlines of uncertain rows grow with the
window asked for, then rows past their deadline expire); `tryReserve` does it
for its principal, `releaseExpired` and `recoverAfterRestart` for all. The
window is a parameter of each call because the policy may change between runs
of the process.

`perPayeeReservationLimit` and `principalAggregateCap` are optional in the code
and always present here; a value too large to bind stands for their absence.
`Sign` takes a `safeReleaseAt` up to `Tolerance` later than the row's and never
an earlier one, because `after` refuses a payload that is signed for later and
`Signed` ignores an earlier one. Nothing in the repository moves a row to
`submitted` or passes an authorization to `tryReserve`; both statuses and
fields are kept where other code reads them. An amount is represented by its
set of units, so that a sum is a cardinality, which the provers can reason
about (a fold could only be proved about by induction).

### SpendLedger and StoreLedger

The interface `AtomicStore` says what operations a store has, `SpendLedger` what
they must add up to. An entry is posted only in a step after which the caps hold
with it; later it may be signed, settled, or lapse when its authorization can no
longer be spent; it never goes away. Nothing in it knows of sweeps, stale instants,
restarts, recovery deadlines or pruning: an implementation has to make them
invisible. `StoreLedger` and `SqliteStore` map their rows to entries, the latter
with the entries of deleted rows from a history variable, so the two stores are
shown to promise the same.

### SpendWindow

Adds chain time, the `validBefore` each row's payment was signed with and the
time it was redeemed. `SignPayment` is the store's part of the after hook, with
`safeReleaseAtMs`. `Redeem` may happen at any chain time up to
`validBefore + ReorgMargin`, whether the response arrives or not, before or
after a restart. `TickLocal` keeps the local clock at most `ClockSkew` ahead of
chain time; it may be arbitrarily slow. `SettlePayment` requires that the payment was
redeemed: the hook settles on a success response, which the facilitator gives
after inclusion. (A settled payment that a reorganisation then removes is
counted all the same, which is conservative; one that is moved later by it is
not modelled.) `NonemptyWindow` is the assumption that `windowMs` is positive,
which the SQLite store enforces (`positiveInteger`).

### GuardHooks

Every payment is a process whose `pc` names the `await` it stands at; a step is
the code from one `await` to the next. Correspondence:

| Code | Actions |
|---|---|
| `before`, `decide`, `evaluatePayment` | `Begin`, `Refuse`, `Reserve`, `ClaimKey`, `FindDuplicate`, `DropDuplicate`, `Deny`, `Withdraw`, `Enqueue` |
| the x402 client (external) | `SignPayload`, `SignerFails` |
| `after` | `AfterUnmatched`, `AfterDiverged`, `AfterMatched`, `Record` |
| `onFailure` | `FailUnmatched`, `FailMatched`, `ReleaseEntry`, `FreeKey` |
| `onResponse` | `Respond`, `Close` |
| `failLifecycle`, the catch of `before` | `Fault` |
| `reconcile` | `Reconcile` |
| `serve` after a crash | `Restart` |

The store's actions are those of `ReservationStore`; `dedup` is the store's map
of keys. Reservation ids and nonces are random and unique in the code; here each
is named after the payment that draws it. Time is in seconds, the unit in which
`validBefore` is compared. Each payment runs its hooks once, receives at most
one response, and is signed with `validBefore` = signing time + horizon, as the
SDK does. `settledAt` is the time of the step. `Reconcile` is one step although
the code reads the rows one by one: a row that has come to an end never leaves
it. A store operation that throws has had no
effect, which is what `SqliteTransaction` shows of an answer "error".

`Restart` keeps rows and keys, as the SQLite store does. In memory nothing
survives, which forgets open authorizations by design; that is documented as
volatile and is not checked.

`ForeignAbort` is a hook of another plugin that aborts the payment after this
guard allowed it: the client then signs nothing and calls no failure hook, so the
hold has no payload and the queue keeps an entry that the next payment of the
signature takes. (A client that does call the failure hook is `SignerFails`.)
The pure checks before `tryReserve` are those of `Evaluate`; here they only keep a
payment from beginning. `Diverged` compares the lifetime of the signed payload with
the priced one; `after` compares payee and value as well. A mismatch of these takes
the same path (the entry goes back to the front, the failure hook runs), which
`AfterDiverged` and `SignerFails` take in the model.

### SqliteStore and SqliteTransaction

The two modules split the store at the line that `transaction()` draws. Between
BEGIN IMMEDIATE and COMMIT a connection holds the write lock of the file, so in
`SqliteStore` an operation is one step over the tables; in `SqliteTransaction`
the operation is the increment of a counter, read under the lock and written at
COMMIT, which is enough to see an effect that is lost, doubled or torn.

`SqliteStore`: `rows` and `dedup` are the two tables, `ceiling` the durable
`max_accounting_window_ms`, `open` the connections (of one process or of several),
`pruned` a history variable that keeps the ledger entry of each deleted row.
`Open` is the migration and `configureAccountingWindow`; a file of version 1 is
assumed to hold no rows, one of a newer version is refused. Every request carries
an instant of `Readings`, as in `ReservationStore`, and prunes expired keys,
closed rows past `TERMINAL_RETENTION_MS` and, under a ceiling, settled rows that
no accepted window can count. A refused request commits its sweep all the same.
`Sign` takes any drift of the signed deadline, before or after the priced one.
The CHECK and the unique index of the schema are `SqliteTypeOK` and `IndexAdmits`.

`SqliteTransaction`: `conn` is `open`, `poisoned` or `closed`; `lock` is the
writer of the file; `running` the operation that the thread of a connection is
in. Usability is asserted in `Start` only: after a retry delay the code goes on
with BEGIN, also on a store that was poisoned or closed meanwhile (`Retry`).
`RollBackFails` leaves the lock taken or not, since SQLite may have rolled back
by itself. `Crash` happens before the commit or between the commit and its return:
only then is the answer unknown. SQLite itself (serialisable, durable) is trusted.

### Evaluate and PaymentProxy

`Evaluate` has one operator for each check of `evaluatePayment`; which reason a
refusal gives depends on their order, whether it is refused does not. An offer is
the merchant's requirements after `toResolvedPayment`. Without a requested horizon
`HorizonSeconds` is the policy's ceiling, unclamped by the window, as in
`evaluate.ts:115`.

`PaymentProxy` composes it with the store. A process starts (`Recover`, with the
window of this start, then `Listen` or `StartFails`), serves, drains (`Shutdown`,
`Exit`) or dies (`Crash`). Processes share one database: nothing in the code keeps a second
one from recovering it before it finds the port taken, or an old one from draining
beside a new one. A request is accepted, fetched, decided, reserved, claimed,
paid, answered and reconciled; the merchant may offer anything of `Offers` each
time. A CAS that finds the row in another status latches the guard (`Latch`), and
`Reconcile` may fail and latch too. The hooks take their own queue entries here: how
entries cross is `GuardHooks`' business, which would not fit beside processes and
offers into one instance. An intent id is always given; a request without one is a
purchase of its own. URL vetting, wallets and environment parsing are reduced to
their outcome (`Reject`, `StartFails`, `ConfigOf`).

Three simplifications stay in this module. `Reserve` reads the clock and reserves in
one step; the instant between them is `MaxLag` of `ReservationStore` and the step
from `evaluate` in `GuardHooks`. A store operation that throws is `Fault` of
`GuardHooks`; here only a CAS or a reconciliation fails. And the removal of a failed
request's key (`FreeKey`) is a step of its own after the release (`FailCreation`),
which removes the key by its name, whoever claimed it last, as in the code; whether
it may be delayed until another request has claimed that key is the constant
`LateRemoval`. With `FALSE`, `ClaimKey` has the guard `RemovedInTime`, which is an
assumption about timing and no check of the code: two store operations of one hook
are not further apart than the time to live of the key. `proxy` and the theorem
`PaidOncePerIntent` assume it, `late_removal` shows what happens without it.

### ReplayGuard

Every request is a process: a presentation of a payment that reaches the
merchant's handler. Leases are counted down (`left`) instead of compared with a
clock, which keeps the state finite without bounding time. Workers in `Mortal`
may die at any point between claim and answer. A worker answers its client even
when `complete` returns false, because the handlers of the repository
(`src/examples/paid-site.ts`, `src/spike/e2e/server.ts`) ignore it; the model
therefore does not claim that a payment is delivered once, only that it has
one grant.

## The runs

Deadlock checking is off in every run: in all of them the bounds on time, on
payments or on calls let the system come to rest.

| Run | Instance and bounds | Shows |
|---|---|---|
| `store` | 2 rows, 2 mandates, 2 payees, 1 principal, windows 1 and 2, caps 2 and 3, lag 1, clock to 3 | all the store's properties, and that it implements the ledger; the caps bind (each payment is 2, so one fills a mandate and the aggregate refuses the second), a settled payment ages out and a recovery deadline passes before the clock stops |
| `window` | 2 rows, 2 mandates, amounts 1 and 2, caps 2, window 1, skew 1, tolerance 1, clocks to 5; validity 3, so that an authorization outlives the window | the outflow bound and its invariant |
| `hooks` | 3 payments with one signature, two of them one purchase, the third without a key; validity 4; hooks end within 2 s, which is enough to sign too late; other hooks may abort; aggregate cap 2; clock to 4 | the guarantees of the hooks when the store does not fail: a diverged payload costs its sibling no hold, crossings free, settle and hide nothing of a sibling |
| `faults` | 2 payments, operations may throw, hooks may last as long as the hold, lag 1, clock to 3 | a payload without a hold only behind a closed latch; the hooks implement `StoreSpec` |
| `replay` | 4 presentations of one payment, two by mortal workers, and one unkeyable payload; lease 2, lag 1 | safety, the contract `GrantOnce`, and that every client is answered |
| `sqlite` | 2 rows, 2 connections, 1 mandate, windows and ceilings 1 and 2, payments of 2 under a cap of 3, retention 1, key lifetime 1, lag 1, clock to 2 | nothing that an allowed window may count is deleted; the ceiling stays; keys block; the store implements the ledger |
| `transactions` | 3 calls on 2 connections, 1 retry | an answered call took effect once or not at all, and every call is answered |
| `proxy` | 2 processes on one store, 2 requests with one intent, 7 offers within and outside of the policy; window 1, ceiling 3, margin 1, keys removed in time, clock to 3 | no second redeemable payload, no payment outside the configuration, no hold lost early and none kept for ever |
| `crossed` (violated) | 2 payments, operations may throw, hooks end within 1 s: only the store that throws sets it apart from `hooks` | `FreedKeyIsOwn` fails once a transition fails |
| `mandates` (violated) | 3 payments with one signature under 2 mandates, caps of one payment, no faults, clock stopped | `PayloadsWithinMandateCap` fails |
| `late_removal` (violated) | 1 process, 3 requests with one intent, 1 offer, `LateRemoval`, clock to 2 | `OneLivePayloadPerIntent` fails |
| `lifetime` (violated) | 1 process, 1 request, the offers of `proxy` and one without a lifetime; window 1, ceiling 3 | `LifetimeWithinWindow` fails |

Why the bounds are enough to be interesting: two rows are what it takes to
exceed a cap, to share a reference and to cross two entries; the third payment of
`hooks` is the sibling that turns up between the failure of one payment and the
signing of another. The clock runs past a hold and a window in `store` and
`window`. In `hooks` the clock runs to the end of the
first keys and holds, and a payment may still begin then; the third payment is
refused while the holds of the other two count. In `window` the lifetime is longer
than the window, so that a payment may be redeemed after it has slid. In `sqlite` a row may be
settled, age out, be pruned under either ceiling or under none, and the second row
be asked for in the longer window, with instants on both sides of the clock's
tick. It has one mandate because `store` covers several, and the accounting of the two stores
is the same. In `transactions` two processes compete for the lock while a third
call waits between its attempts. In `proxy` the second process starts while the
first one serves, drains, or has died, and the clock passes the life of the first
payload and the recovery deadline of a row that was reserved at once. Window and
ceiling differ there, so that the run tells which of the two bounds a lifetime: the
offer of 2 s is within the ceiling and beyond the window. What it leaves to the
proofs: offers without a lifetime (they are in `lifetime`, and covered by the
theorems), windows that differ between processes, and more than two requests with
keys removed in time.

`hooks` assumes that the hooks of one payment, signing included, take
at most `HookTime`, and that they end more than `MismatchTolerance` before the
authorization that was priced would expire (`SoundHooks` in `GuardHooks_proofs`).
That is what a clean guarantee takes: an after hook may be handed the entry of an
older sibling, whose row must not expire before it becomes signed. The comparison
of `validBefore` bounds how much older the entry can be: by the tolerance, and no
more. `faults` drops the assumption, and the property weakens to
`LeavesHeldOrLatched`.

Fairness is assumed in three runs, each time as weak fairness on a step that
stays enabled until it is taken:

- `replay`: a request's `begin` and a client's retry happen, a worker that does
  not die finishes and answers, and time goes on. The event loop and the clock
  provide it. Nothing is owed by a worker that may die.
- `transactions`: a call that waits between two attempts goes on, and an operation
  that runs ends. Timers fire and calls into SQLite, which are synchronous and
  have a busy timeout, return. Nothing is owed by other connections: one that is
  poisoned may keep the lock for ever.
- `proxy`: agents keep asking (`FreeRequest`) while somebody listens and is healthy, because only
  requests reconcile. Nothing is owed by handlers or by merchants (the fetch has
  no timeout of its own), and nobody is obliged to start a process.
  `DueHoldsAreGivenUp` then says that time and again there is no hold past its
  deadline, or no healthy listener to give it up: that nothing but the latch and
  the absence of a process keeps a due hold.

### The four disagreements

`crossed`: the comment above the line that frees a dedup key (`guard.ts:507-509`)
says that the popped entry "provably IS the failed payment" when it was never
contended. It is not when the after hook has already taken the failed payment's
entry and its transition then throws or fails its CAS: the failure hook that
follows takes whatever stands first in the queue, possibly the uncontended entry
of a sibling that began meanwhile. The sibling loses its hold and its key, and
leaves without a hold. The latch closes at that moment, so no later payment
follows (`LeavesHeldOrLatched`).

`mandates`: the comment at `guard.ts:159-162` says that the entries of a signature
group are fungible for cap accounting, so that crossing them is amount-neutral.
That holds of the principal's cap: `PayloadsKeepAggregateCap` proves it. The
signature (`guard.ts:82`) leaves out the mandate, which a verifier may choose for
each payment: when payments of two mandates cross, the hold that is released may
be the one of the mandate whose payload leaves. A further payment of that mandate
then passes its cap. When payments of one signature share a mandate the cap of
each mandate is kept as well (`PayloadsKeepMandateCaps`): the run shows that this
hypothesis is needed, the theorem that nothing else is.

`late_removal`: the proxy's README (104-106) says of requests with one `intentId`
that the guard "refuses to sign it twice". `onFailure` releases the row, awaits, and
removes the key by its digest (`guard.ts:501-517`). When the removal is delayed past
the expiry of the key, another request may have claimed it and paid: the removal
takes the claim of that request away, and a third one pays for the same intent while
the second's payload may still be redeemed. The caps hold all the same.

`lifetime`: the proxy's README (69) and `proxy/config.ts:32-33` promise an effective
ceiling of min(ceiling, window), `guard/types.ts:76-77` a ceiling that is "also
bounded by windowMs". That holds of a lifetime that the merchant requests. When it
requests none, `evaluate.ts:115` takes the ceiling alone, and the after hook accepts
what is signed within it. What the x402 client signs then is up to the client; what
the guard lets through is the ceiling. `PaidAsConfigured` states both cases. The
holds cover such payments (`OutflowWithinCaps` with a lifetime beyond the window).

One comment is imprecise and not counted as a disagreement: `evaluate.ts:191-194`
says that a key never expires before its row's `safeReleaseAt`. The time to live is
computed when the payment is priced, and `after` may extend `safeReleaseAt` by the
second of latency that it tolerates, without the key. `KeyCoversHold` states the
comment up to that second.

## The proofs

All leaves are checked by tlapm with SMT, Zenon and LS4 only.

**`ReservationStore_proofs`** proves all six properties of `StoreSpec`: its
types, `LimitsHold`, `RecoveryCoversWindow`, `OneRowPerReference`,
`SweepWaitsOutWindow` and the action property `HoldsUntilAccounted`, which ties each
expiry to the deadline of the row's status, through restarts too. Each
invariant is inductive beside `StoreTypeOK`. The argument for `LimitsHold` is
that every step other than an admission can only shrink the set of rows that count
at a later time (a sweep expires rows; settling keeps a row counted until it
ages out), that an admission adds the units of one row to a sum it has just compared with the cap,
and that the code counts with an instant no later than the clock, so it counts
at least what counts now. Lemmas about `Total` (monotone in the set of rows,
adds the amount of a new row) rest on the library's facts about cardinality.

`StoreImplementsLedger` is the refinement of `SpendLedger`. Each row's entry moves
as the ledger allows (`EntryStep`: it stays, is signed, is settled, or lapses once
its authorization is dead); which of these happens follows from the row's own
statuses and deadlines, for which the invariant is `RowsBookable`. An admission
was decided at the caller's instant with the rows that this call's sweep left; the
ledger wants it at the clock with all entries. What weighs at the clock weighed at
the earlier instant, and a row that the sweep expired weighs in no window that is
asked for, so the sum that was compared is at least the ledger's.

**`SpendWindow_proofs`** has as a lemma that `Spec` implements `StoreSpec`, and proves the
inductive invariant `PaymentsHeld`, and from it and `LimitsAlwaysHold` the
outflow bound: every exposed payment is one of the rows that the store counts.
`PaymentsHeld` is the strengthening that is needed: the bound says nothing of
rows that have expired or of payments whose row is still reserved; the
invariant says that no such row has a payment that could be redeemed, because
`safeReleaseAt` covers the signed `validBefore` plus margin and skew, and the
local clock is at most the skew ahead.

**`SpendLedger_proofs`** proves `LedgerKeepsCaps`: whatever behaves as the ledger
keeps `SpendWithinCaps`. No move of an entry adds to what weighs in the shortest
window, time only takes away from it, and a posting has compared the sum with the
new entry in it with the caps, in a window that is at least the shortest one. The
theorem takes what it needs of the constants as a hypothesis
(`LedgerConstants`), because the ledger is only ever used through an instance.

**`SqliteStore_proofs`** proves the five properties of the run `sqlite`, then
`SqliteKeepsCaps`: the caps hold over the whole history of the file, deleted rows
included. Its invariant `IInv` strengthens the types by what pruning relies on: a
settled row has an instant no later than the clock, a pending one has none, a
deleted row has an entry that is spent or void, and a spent one lies outside every
window that `assertWindowAllowed` still lets through. The refinement goes row by row: each
statement moves the entry of a row as the ledger allows (`RowMoves`); pruning then
changes no entry at all; and an admission that the transaction decided with its
own instant and the rows that were left is one that the ledger would take at the
clock with all rows, because deleted rows do not weigh in a window that is
allowed, and whatever weighs at the clock weighed at the earlier instant. The
ceiling can only forbid windows, never allow one again, since it is set once.
`SqliteKeepsCaps` composes the refinement with `LedgerKeepsCaps`.

**`SqliteTransaction_proofs`** proves the type invariant and that the transactions
implement `AtomicCalls`. The strengthening is that a connection in an operation
holds the lock, and that what it has read is the committed value: nobody else can
have written since BEGIN. A crash inside an operation may therefore have committed
one effect, and only the crashed process's calls are left without an answer.

**`ReplayGuard_proofs`** proves type correctness, `NewestWorkerGrants`,
`LeaseRespected` and the refinement of `GrantOnce`. The strengthening says that
tokens are unique and that a running claim carries the newest token of its key:
a worker that still holds its claim at `complete` is therefore the last one that
claimed.

**`GuardHooks_proofs`** proves everything that `hooks` and `faults` check, and
`PayloadsWithinAggregateCap`, which no run checks,
for any number of payments, signatures, keys and mandates. Four layers:

- `IInv` holds with faults and slow hooks too. A row lives at least as long as the
  authorization it was priced for (`RowsPriced`), the instants of the hooks are
  ordered (`HooksTimed`); the entries in queues, those that a hook has taken and
  the payments not yet queued are all different, and no payload was signed against
  any of their rows (`QueuesFresh`, `TakenFresh`, `PaymentsFresh`); what a nonce
  finds was signed for the payload with that nonce (`NoncesFindOwn`). From it
  follow `ImplementsStore` (hence the caps), `SettledByOwn` and, with the uniqueness
  of references that the store ensures, `ResponsesFindRows`.
  `LeavesAreHeldOrLatched` adds that, while the guard is healthy, a queue has an
  entry for every payment that will still take one (`QueuesServe`): a payload that
  finds none was preceded by a failure, which has closed the latch.
- `SInv` needs `SoundHooks`. It adds that a queue which nobody shared holds the
  entry of its only claimant, so that what the failure hook takes uncontended is its
  own (`FailuresOwn`), that a key is owned by one payment from its claim to its
  expiry (`KeysOwned`), and `SignedApart`, from which `OnePayloadPerPurchase` follows.
  The step that matters is `Record`: the row of a sibling's entry has not expired
  when it becomes signed, because the after hook has just compared the entry's
  deadline with the payload's.
- `RowsCharged` says what a row is charged with: the request of the payment that
  reserved it, and that the payload it was signed for has the same signature, hence
  the same price, and expires no later than the row. By `HoldPerPayload` each
  redeemable payload has a row, its own since a row carries one reference, and that
  row still counts; mapping the units of payloads to the units of their rows is an
  injection, so the payloads' sum is at most the one that `LimitsHold` bounds. The
  argument needs a single principal per guard, and for the caps of mandates that the
  signature determines the mandate, which the code does not ensure.
- `HInv` says what holds a dedup key: a payment from its claim for as long as its row
  is reserved or signed and the priced horizon lasts, or while its hooks are about to
  free the key. Such a payment finds its own expiry in the table, and no other holds
  that key (`KeysHeld`), because a sibling's row that a hook signs or releases keeps
  the key of the payment that reserved it. A hold outlives the priced horizon by the
  tolerated second at most (`HoldsPriced`), so `KeysCoverHolds` follows.

`SoundHooks` is a hypothesis of the last six theorems and not an assumption of the
module, since `faults` and `crossed` violate it; `hooks` and `mandates`
satisfy it. In `crossed` only its first half fails, and with it `FreedKeyIsOwn`.

**`PaymentProxy_proofs`** proves the safety properties of `proxy` for any number of
processes, requests, intents, configurations and offers, and that the processes
together implement `StoreSpec`. The invariant: a request that is open belongs to a
process (`RequestsHosted`); every row is the wallet's (`RowsOfWallet`); a decision
has a row that was priced as the configuration admits, for as long as the key will
be claimed (`DecisionsPriced`); a payload has a row of its own that expires only
when it counts no more (`PayloadsHeld`), whoever drains, dies or recovers
meanwhile, because a recovered row is kept to the same deadline as a signed one;
and the key of an intent blocks for as long as a payment of it may still leave or
be redeemed, of which there is at most one (`KeysClaimed`, `OneCounts`). The last
two are what processes that share no memory have only from the dedup table.
What makes them inductive is the sweep of each reservation: it leaves nothing
reserved that was due by the instant of the request, so when the key of an older
request has expired by that instant, its row can no longer become signed. A key whose
removal still waits counts for the intent as an open decision does, which is where
`~LateRemoval` is used: the invariant splits into `IInv`, which every other theorem
of the module rests on and which needs no such hypothesis, and `TimelyInv`, which adds
`KeysClaimed` and `OneCounts` and proves `PaidOncePerIntent` only.
`PaysAsConfigured` is an action property: in the step in which a payload leaves,
its row shows the payee and amount that the configuration of its process admits, and
its expiry is within a second of the lifetime it was priced for, which is bounded by
ceiling and window or is the ceiling.

The assumptions are the named ASSUMEs of the modules. TLC evaluates each of them in
the runs. Besides the sorts of the constants (requests are requests, a finite set
of ids, `None` is no value of any sort, and the sets from which the store takes its
values hold every payee, amount and mandate id that is named, and every validity up
to the ceiling):

| Assumption | What in the code justifies it |
|---|---|
| `NonemptyWindow`, a `MinWindow` below every window | `windowMs` is positive (`positiveInteger` of the SQLite store) |
| `NoncesAreRefs`, `WalletPays` | a nonce is drawn once for each payload and names it; the proxy pays with one wallet |
| `OnePrincipal` | `principalId` is a configuration value of the guard (`guard.ts:182`) |
| `MarginBound` | a validity is the horizon plus the margin (`evaluate.ts:132-136`) |
| `MismatchWithinTolerance`, `MarginAndTolerance` | `Tolerance` is the store model's bound on late signing, the hook accepts a second (`guard.ts:419`); the proxy's margins are 2 s and 5 s (`proxy.ts:122-123`) |
| `ConfigBounds` | limits are numbers; a pin has a payee, which is required, and an amount, which has a default (`proxy/config.ts:84-88`) |
| `OfferBounds` | none needed: any payee or none, and any integer, which is what `toResolvedPayment` leaves of an amount; that a payable one is a request of the store is proved from the checks |
| a lag shorter than the lease (`ReplayGuard`) | the lease is 30 s by default, the lag the wait for a mutex |

**Only model-checked**: the three liveness properties, `EveryClientIsAnswered`,
`EveryCallIsAnswered` and `DueHoldsAreGivenUp`, which are out of the prover's
reach, as is everything under fairness, and of course the four violations. Every
other property of a passing run is the statement of a theorem.

## Not modelled, and the plan

What is left, in this order:

1. `Mutex`: the promise-chain lock of both packages, shown to serialize its
   critical sections also when one throws. The models assume it.
2. `NativeLimit`: the baseline of `src/bench/arm-a` beside the store, with
   DrainBench's ledger as the oracle.

Left out for good: audit output, configuration parsing, wallet files and URL
vetting (input validation without state, represented by their outcome), the MCP
forwarder (pure I/O), signatures and digests (viem's), the decoding of database
rows and the checks of file paths, examples and packaging scripts.
