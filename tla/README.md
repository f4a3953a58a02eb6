# Formal models of SolidusExchange

TLA+ specifications of the stateful core of this repository, the TLC
configurations that check them on small instances, and TLAPS proofs of their
central invariants. Paths below are relative to `src/`.

## 1. The system

The repository is a monorepo of server packages (JavaScript, ES modules) and
two backend-for-frontend applications (TypeScript). Nothing here moves real
funds; every event of the matching core carries `posting: "none"`.

| Part | State it keeps | Operations | Hard behaviour |
|---|---|---|---|
| `packages/matching-core`: order book (`book.mjs`) | price levels per side, a FIFO queue per level, a map of resting orders | add, shift the best head, remove | levels, queue and map move together |
| `packages/matching-core`: engine (`engine.mjs`) | tracked orders (an insertion-ordered map), books, journal, `nextSeq`, `nextFill`, `lastAt`, the open operation | `submitOrder`, `cancelOrder`, `amendOrder`, `snapshot`, `journal` | sweeps over many levels, amendments that re-enter matching, throws in the middle of an operation, counters at their limit |
| `packages/matching-core`: recovery (`replay.mjs`, `snapshot.mjs`) | the fold's state | replay, snapshot, parse, hydrate, restore, snapshot plus tail | has to accept everything the engine emits and nothing it does not; three paths must agree |
| `packages/matching-core`: journal store (`postgres-journal-store.mjs`, `migrations/`) | the table, a pool, a serialized tail of writes, a latched failure | `initialize`, `append`, `load`, `loadAfter`, `close`; `append_matching_journal` in SQL | fire-and-forget writes, timeouts with late commits, redelivery, restart |
| `packages/financial-core`: ledger and Session D (`ledger.mjs`, `session-d.mjs`) | journals, entry ids, idempotency records; holds, reversals, parked suspense | `post`, holds and releases, reversals, parking and clearing | retries after a lost answer, capacity, control accounts kept beside the journals |
| `packages/financial-core`: schema (`migrations/`) | journal and entry tables, the acceptance seal | INSERTs, deferred triggers at COMMIT | two transactions that commit between each other's triggers |
| `packages/custody-core` | live intents, seen transactions, frozen networks, tier counters; projection registry and outbox | prepare and dispatch a signing request, observe the chain, record a projection | an approval redeemed twice, velocity across day ends, payments shown late or repeatedly, concurrent projections |
| `packages/customer-api`: stores | auth sessions, rate-limit buckets | issue, get, refresh, bindDevice, revoke, sweep; consume | two instances over one database, old clock readings, bounds and eviction |
| `packages/customer-api`: exchange reads (`exchange-orders.mjs`) | nothing: derived from the subject at every read | five views of one replayed engine | views must agree with each other and pass the consumer's own checks |
| `packages/provider-simulators` | payments, checks, applicants, assessments, quotes; delivery queue, nonce store, inbox, codes | each provider's calls; drain, verify, accept | callbacks out of order, duplicated, late, conflicting; lazy expiry; bisection with rounding |
| `backoffice/` server | operator sessions, step-up challenges and grants, audit chain | sign in and out, begin, verify, consume, audited views | handlers that await between a check and its use |
| `miniapp/` server | customer sessions, KYC onboarding, address screening | session lifecycle, submit, view | a provider that answers late, bounded maps that evict |

How they interact: `customer-api/src/exchange-orders.mjs` runs a scenario
through a matching engine and projects the result; the Mini App's BFF parses
those views and recomputes them; the two BFFs call `customer-api` over HTTP and
the provider simulators in process; the ledger, custody and matching packages
do not call each other (a boundary script in each package keeps it that way).
Inside `matching-core` the engine calls its books and hands every closed
operation to an attached journal store without awaiting it; a restart reads the
store back through `replayMatchingJournalStore`.

What makes each part correct:

* book and engine: never crossed, price/time priority, conservation of
  quantity, limits respected, final states final, contiguous journal;
* recovery: replay, snapshot and snapshot plus tail give the live engine back;
  torn journals are refused; whatever the fold accepts, the parser accepts;
* journal store: what was acknowledged is durable, only whole operations are
  recorded, loss is never silent, `close` settles;
* ledger: every accepted journal balances, a retry posts once, the control
  accounts equal what is held, reversed and parked;
* custody: one projection per withdrawal, a tier pays no more than its limits,
  every outflow is matched with a live intent or raises an incident;
* stores of the servers: bounds and revocations hold under concurrency, every
  backend answers alike, a limit of a window is never exceeded;
* console: a proof authorizes one preview of its binding, a view is answered
  only once it is audited;
* providers: the receiver never says what the provider did not, whatever order
  callbacks come in; every application ends; a signed quote passes its check.

## 2. Modules

Each module's head comment names the files it translates and what it leaves
out; the `map` of `PROJECT.json` gives the lines of every definition.

| Module | Source | Content |
|---|---|---|
| `MatchingCore` | `book.mjs`, `events.mjs`, emitters of `engine.mjs` | a book as a record of queues by side and price, and the set of resting ids; tracked orders, event bodies, the test whether a taker trades at a price |
| `MatchingEngine` | `engine.mjs` | the engine: one action that opens each operation, one per iteration of the sweep, one that closes it |
| `EngineProperties` | `snapshot()` for its state | what the engine guarantees, and what the recovery paths owe it |
| `PriceTimePriority` | | abstract specification: one line of open orders, kept as the orders and who is ahead of whom |
| `MatchingReplay` | `replay.mjs`, `snapshot.mjs` | the fold and its checks, canonical snapshot, parser, hydration, the restore functions |
| `AttachedEngine` | `finish` over a store | an engine whose store may not be initialized or may latch |
| `StreamFold` | `replay.mjs` | the fold fed with arbitrary streams |
| `JournalStore` | `postgres-journal-store.mjs`, `migrations/0001`, `0002` | the durable store, its database, a crashing process |
| `JournalLog` | | abstract specification: a log of whole operations |
| `ExchangeScenario` | `exchange-orders.mjs` | the acts of a subject's scenario, run through `MatchingEngine` |
| `ExchangeViews` | `exchange-orders.mjs`, the Mini App's `customer-api-client.ts` | the five reads, their validators, the parsers of their consumer |
| `PostingRules` | `ledger.mjs`, `financial-core/migrations` | what the ledger in memory and in SQL are both given and both compute: accounts, rules, sums of entries |
| `Ledger` | `ledger.mjs` | `post` with its idempotency and uniqueness checks |
| `SessionDLedger` | `session-d.mjs` | holds, reversals and suspense over the ledger |
| `LedgerSchema` | `financial-core/migrations` | two transactions over the tables, with immediate and deferred triggers; implements `Ledger` |
| `CustodySigning` | `signer-gateway.mjs`, `hsm-policy.mjs`, `watcher.mjs` | from a verified intent to the chain and its watcher |
| `CustodyProjection` | `custody-event.mjs` | the registry: abstract specification of |
| `CustodyOutbox` | `custody-core/migrations/0001` | `record_custody_projection` under concurrent callers |
| `AuthSessions` | `customer-api/src/postgres-store.mjs`, `auth-session-store.mjs`, `migrations/0002` | the session statements of several instances, next to the memory backend |
| `CustomerSessions` | `miniapp/src/server/postgres-session-store.ts`, `session-store.ts` | the same for the Mini App's store, over the queue and latch of `AuthSessions` |
| `RateLimit` | `postgres-store.mjs`, `rate-limit.mjs` | overlapping consumes, next to the memory limiter |
| `Console` | `backoffice/src/server/server.ts`, `step-up.ts`, `session.ts`, `postgres-audit-store.ts` | challenges and grants, and requests that read the audit chain |
| `OperatorSignIn` | `server.ts`, `postgres-session-store.ts`, `provider-simulators/src/oidc.mjs` | logins and logouts at several instances, over `AuthSessions` |
| `SignedCallbacks` | `simulator-core.mjs`, `signing.mjs` | delivery queue, verifier, nonce store |
| `CallbackInbox` | `callback-inbox.mjs` | the inbox of a receiver |
| `CallbackReceiver` | | queue, lossy network, verifier and inbox put together |
| `BankSimulator`, `ChecksSimulator` | `bank.mjs`, `checks.mjs` | the simulators, over `CallbackReceiver` |
| `KycOnboarding` | `miniapp/src/server/kyc.ts`, `kyc.mjs` | onboarding and the session gate, over `SignedCallbacks` |
| `AddressScreening` | `miniapp/src/server/address-screening.ts`, `kyt.mjs` | screening with its evictions, over `SignedCallbacks` |
| `QuoteSimulator` | `quotes.mjs` | pricing, bisection, and the receiver's check |
| `MCMatchingEngine`, `MCExchange`, `MCAttachedEngine`, `MCJournalStore`, `MCServerStores`, `MCProviders`, `MCFinance` | | instances for TLC |
| `MatchingEngine_proofs`, `Recovery_proofs` (`MatchingReplay` against `MatchingEngine`, `AttachedEngine`), `JournalStore_proofs`, `ServerStores_proofs` (`AuthSessions`, `CustomerSessions`, `RateLimit`, `Console`, `OperatorSignIn`), `Ledgers_proofs` (`SessionDLedger`, `LedgerSchema`), `Custody_proofs` (`CustodySigning`, `CustodyOutbox`), `Providers_proofs` (`CallbackInbox`, `QuoteSimulator`, `KycOnboarding`, `ChecksSimulator` with `CallbackReceiver`) | | theorems |
| `SetSums` | | lemmas about sums over finite sets, used by the proofs |

`MCServerStores`, `MCProviders` and `MCFinance` hold several components that do
not call each other. A behaviour picks one *part* in its initial state and the
others stand still, so a run costs the sum of its parts, not their product.

### Engine

State maps to the code one to one: `orders` and `tracked` are the entries and
the insertion order of the `tracked` map, `books`, `journal`, `nextSeq`,
`nextFill` and `lastAt` the fields of the engine's state, and `op` the closure
variables of the open operation (`operationAt`, `opSeq`, `opFill`, the `events`
array) with the place the code has reached. Phases: `match` is the loop of
`matchTaker`, `finish` the call of `finish`, `wedged` an operation that threw
half-way and never closes (`stamp` at the end of the sequence space leaves
`operationAt` set, so every later call throws).

A call is JavaScript code that runs without interruption, so its steps do not
interleave with another call. It is still split: properties then speak about
every intermediate state, a throw can stop the operation anywhere the code can
throw, and the abstract specification sees each execution of its own.
Validation is a sequence of checks with the reason each one yields; the first
that fails decides, as the early returns do.

Data is abstracted to what the checks tell apart. Decimals are integer units.
An input field is a value, `Null` (absent, or not even a string) or `Malformed`
(fails its pattern, or names an unknown instrument); `wellFormed` stands for
the plain-data snapshot of the input and its key set. `MaxSafe` is
`Number.MAX_SAFE_INTEGER`.

### Replay and snapshots

`MatchingReplay` translates the fold event by event: `EnvelopeFits` and
`StaysInOperation` are the checks before the switch, an `Admits...` operator
holds the checks of an event type and a `Fold...` operator its effect. `Earned`
is the part of `rejected` that re-derives whether the engine could have refused
with that reason. A refused stream gives `Refused`, in place of the thrown
`TypeError`. `ParseEngineSnapshot` and `HydrateEngineState` are the snapshot
side; the rebuilt queues depend on nothing but the order of the tracked map.

### Exchange reads

`exchangeOrderScenario` derives all acts from a digest of the subject before
they are replayed. No act depends on what an earlier one did, so the model
derives an act when its turn comes, a digest being a free choice within the
range the code takes it from; an `advance` of the clock is fused with the call
it precedes. When the scenario is over, the views are computed from the engine
as in the code and put to three kinds of question: their own validators, their
agreement with each other, and the parser in the Mini App's
`customer-api-client.ts`, which recomputes amounts, spreads and totals.

### Journal store

One action per await. `AppendBatch` is the synchronous part of `append` (the
batch is queued and the engine has journaled it), `Send` is `writeBatch`
reached on the tail, `ServerRuns` the append function of the database under its
advisory lock, `Settle` the two reactions on the write's promise (tail, latch).
`TimesOut` is `query_timeout` or a lost connection: the caller gets its
rejection and the statement becomes an *orphan* that may run at any later time,
twice if it was sent twice, also after a crash and beside the appends of the
restarted process. `load` and `close` carry the number of writes that were
queued when they were called, which is what their `await tail` waits for.
`Crash` drops everything but the table and the statements under way.

### Session stores

An instance runs its writes one after the other. A write is a transaction of
one statement: it takes the advisory lock of its subject if it is an issue or a
revocation, reads a snapshot, and then judges what it locks or updates again on
the latest committed row (`READ COMMITTED`). Its effects and its COMMIT are one
step, because a row another writer holds is reached only when that writer has
committed. What a statement merely joins to a subquery over the snapshot is not
judged again; the order of two CTEs that PostgreSQL leaves unspecified is a
choice. An instance whose statement fails latches until it is initialized
again. The memory backend is the function the same call would compute alone
(`IssuedInMemory` and its siblings): a statement whose snapshot still holds has
to leave what that function leaves.

The operators' store is the one of `AuthSessions` with an `issue` that also
displaces the sessions of its device. `OperatorSignIn` cuts the handlers of the
BFF where they await the issuer or the store; a *flow* stands for state, nonce,
verifier and code of one login.

### Console

A request resolves its session, reads the audit chain and then acts: three
steps with other requests, logins, logouts and expiries in between. A chain is
the sequence of requests that recorded an event, which is what its head hash
stands for; an append succeeds if the head is still the one that was read. A
challenge or grant leaves its store to expire.

### Ledger

`post` is one step: it returns a new journal, returns the one it accepted
before, or throws. A Session D operation checks its own state, posts, and
records what it did only if the posting returned; a command may be retried,
with and without its first answer. In SQL a client sends INSERTs one at a time,
right or wrong, and a COMMIT runs the deferred triggers one step before the
rows become visible. `ImplementsMemoryLedger` maps the committed rows to the
journals of `Ledger`.

### Custody

An intent stands for a verified envelope, a wire for the transaction it decodes
to. `dispatchSigningRequest` asks the policy module of the tier, which counts
the day's amount and refuses a repeated or an expired wire. What a module
approved may then be paid, once, by the chain, which is outside the code and
shows payments in any order, repeatedly, and also payments nobody approved.
`CustodyOutbox` runs the SQL function statement by statement, each on what is
committed when it starts.

### Providers

A simulator is drained into signed deliveries; the network in `CallbackReceiver`
loses, delays, reorders and repeats them, as the tests of the simulators
(`tests/helpers.mjs`, `runFlow`) and the console's evidence feed
(`provider-evidence.ts`, `replayDeliveries`) build a receiver. The BFF's own
services drain the simulator themselves at every read. `submit` yields once,
between the provider's answer and its use; what happens in that window is free,
which is more than a microtask allows.

## 3. Runs

| Run | Question | Result |
|---|---|---|
| `MatchingEngine` | books, orders, journal, the abstract specification and the recovery paths over three orders | holds |
| `Exchange` | the engine under its clients: views of a replayed scenario; every refusal replayed | holds |
| `AttachedEngine` | a store whose writes may fail and the end of the sequence space; arbitrary streams into the fold | holds |
| `JournalStore` | timeouts, late statements, crash and restart | holds |
| `ServerStores` | session stores, rate limiter, console, operators' sign-ins | holds |
| `Providers` | bank, checks, onboarding, screening, quotes, the callback inbox on its own | holds |
| `Finance` | ledger in memory and in SQL, custody outbox and signing | holds |
| `AttachedEnginePoisoned` | an engine that serves before its store is initialized | **violated** |
| `StoreRestore` | restore of an engine with its own registry | **violated** |
| `StreamFoldGrammar` | does the fold accept only what an engine emits? | **violated** |
| `DeviceDisplacement` | does a fresh login evict the device's other sessions? | **violated** |
| `SessionBackends` | does a revocation leave what the memory backend leaves? | **violated** |

What the passing runs show, property by property:

* `MatchingEngine`: `NeverCrossed`; `BookHoldsRestingOrders` (queues, resting
  map and open orders are the same orders); `ExecutionsAddUp` (what the journal
  says was executed is what both orders of every fill lost);
  `TerminalIsFinal`; `KeepsPriceTimePriority` (refinement of one line of open
  orders); `TailRebuildsEngine` (any snapshot plus the tail behind it is the
  live engine, with replay as the empty snapshot); `TornBatchRefused`.
* `Exchange`: `ViewsPassValidation`, `ViewsReconcile` (orders, detail, trades,
  markets and depth tell one story), `EveryViewHasRows`; `ReplayRebuildsEngine`
  over calls refused for every reason, on a clock that may step back.
* `AttachedEngine`: `ThrowsKeepJournalReplayable`, `FillsTrailEvents`,
  `OperationEnds`; `FoldedStreamsHydrate` (whatever the fold accepts is a state
  its own parser accepts and hydrates to the same, at most one order in flight).
* `JournalStore`: `ResolvedAppendsAreDurable`, `UnlatchedWriterIsRecorded` (a
  store that is not latched has lost nothing), `BarriersSeeAppends` (a load or a
  close that resolves has seen every append called before it),
  `CloseSettlesInTheEnd`, `RecordsWholeOperations` (refinement of `JournalLog`).
* `ServerStores`: `SubjectsBounded`, `AckedRevocationsHold`,
  `StatementsNeverRaise`, `StoresMatchMemory`; `MatchesMemoryLimiter`,
  `AllowedWithinLimit`; `ProofsAreSingleUse`, `ViewsAreAudited`;
  `SignInsReplaceSessions` (a sign-in ends the session its browser held and, on
  a bound device, the operator's other one).
* `Providers`: `CallbacksTellTheProvider` (what a receiver holds is a state the
  provider went through, no delivery is counted twice), `KycFollowsProvider` (a
  session is promoted only for a subject the provider approved in time, and
  what is shown is what listeners heard last), `CallbacksFoldInOrder` (the order of
  callbacks decides nothing about the state they leave), `IssuedQuotesValidate`,
  `ApplicationsEnd`.
* `Finance`: `ControlAccountsReconcile`, `ImplementsMemoryLedger`,
  `CommittedJournalsComplete`, `ImplementsProjection`, `TierLimitsHold`,
  `OutflowsExplained` (what the watcher explains was approved, and it freezes a
  network for a cause only).

Bounds, and why they suffice:

* `MatchingEngine`: three orders of 1, 2 and 3 units over two prices, both
  sides, limit and market, with and without a shared owner, each id submitted
  once; one order can be cancelled, one amended (down, up, to the other price).
  Three orders are the least that allow a sweep over two makers, a self-trade
  after an execution, an overtaking in a queue and an amendment that trades.
  Two prices give a better and a worse level; `MaxSafe = 10` is above the
  longest history. The constraint `NoRefusals` cuts histories at a call refused
  by validation, because those only lengthen the journal; they are the subject
  of the direct calls of the next run.
* `Exchange`: scenarios of three ordinary acts, of the up to four the code
  draws, with everything that goes with them, on one traded pair with prices 1
  and 2; one level of depth (`MaxDepthLevels = 1`) makes the cut of a depth
  view happen. Next to them two orders on two instruments, called directly with
  every reason a check can give, also around orders that are filled, cancelled
  or of the other instrument; `OneRefusal` continues histories with one refusal
  and checks, but does not continue, those with two. Times are 0 and 1: a later
  and an equal reading, and one that went back.
* `AttachedEngine`, `AttachedEnginePoisoned`: `MaxSafe = 7`, so the sequence
  space ends inside a sweep of two makers and between the two events of an
  execution. Streams have up to seven events (`MaxSafe = 8`) over three orders
  and two prices and quantities; ids are named in the order they first occur,
  which no check can tell. Every value a check decides about is free, the
  others are offered right.
* `JournalStore`: three shapes of batches (one, two and three events, of which
  two share a first event), at most three events per process and one crash, so
  that a restarted process and an orphan compete for the same numbers.
* `ServerStores`: two instances. Sessions: three of one subject or two, clock
  readings 1 and 2 and a life of one, so that a session is live, expired or
  called with an old reading; two live sessions and one tombstone per subject,
  so that both bounds evict. Refreshes, touches and KYC marks are of the session
  that is issued, and evicted, first. In the Mini App's store issues and
  revocations meet each other; any other write, and one that latches its store,
  runs alone, as the latch is the one of `AuthSessions`. Limiter: three keys over a table of two, two callers, one call per
  window. Console: two sessions, one approval, up to five requests, two
  attempts. Sign-ins: two flows of two operators, with and without device
  binding, one pending login.
* `Providers`: a payment or a check that lives two or three ticks on a horizon
  of four to six, every scenario the simulators know, deliveries on time, late
  or never; two submissions of one subject that overlap, a timeout of four and
  an approval that ages after two; two holders and two targets over maps of one
  subject and one assessment, so that every eviction happens. Quotes: every
  budget up to 6 over scales of 2 and 4, where rounding goes both ways. The inbox
  on its own: three sequences and three event ids, of two subjects that take
  turns. The theorems cover all quotes, every use of the inbox and the onboarding of any
  number of subjects.
* `Finance`: up to seven journals of up to four entries, so that a hold, its
  release, a reversal and a retry of each fit; two SQL clients; three callers
  with three projection requests, of which two share what must be unique; two
  tiers, of which one is frozen, two days, two intents that look alike to the
  watcher.

Deadlock is checked in `ServerStores`, where only a console or a sign-in whose
requests have all ended may rest: no request waits for ever on another. Elsewhere `CHECK_DEADLOCK FALSE` is set: bounded inputs run out, and a wedged
engine, a closed store and a provider past its horizon rightly stop.

### What violates what

* **A throwing append can poison the journal.** `finish`
  (`packages/matching-core/src/engine.mjs:174`) drops the batch when `append`
  throws synchronously, but books and orders have already moved. Over a store
  whose `initialize()` has not finished, an order is accepted into the book and
  its `accepted` event is dropped; once the store is ready, a cancel of that
  order is recorded, and the journal names an order it never accepted.
  `Documentation/regulated-core/matching-snapshot-audit-wave59.md:31` states
  that replay is never poisoned. With a store initialized first
  (`AttachedEngine`) the journal stays replayable after a throw, because a
  latched store never takes another batch.
* **`instruments` is validated and dropped.** `replayMatchingJournalStore`
  (`replay.mjs:862`) does not hand its option on.
* **The fold is more lenient than the engine.** `foldFill` (`replay.mjs:277`)
  accepts an execution smaller than both remainders, and one between two orders
  of one owner.
* **A device can keep two sessions.** `ISSUE_SQL` of the backoffice
  (`postgres-session-store.ts:92`) displaces the sessions its snapshot shows,
  under the lock of its own subject. Two operators signing in on one device at
  two instances miss each other; `session-store.ts:18` says the login evicts
  the device's other sessions on every backend. For one operator it does
  (`SignInsReplaceSessions`).
* **A revocation that revokes nothing evicts.** `REVOKE_SQL` of the Mini App
  (`postgres-session-store.ts:253`) trims the tombstones of a subject also when
  its target has expired meanwhile; the memory backend returns before
  (`session-store.ts:598`), and the two sibling stores gate the eviction.

Met on the way, without a run: `snapshot.mjs:75` calls the order of tracked
orders "acceptance order"; an amendment that loses priority moves the entry to
the end of the map (`engine.mjs:732`), as it must for the queues to be rebuilt.
`clearSuspense` binds the first suspense leg of a journal only
(`session-d.mjs:315`), where its comment speaks of the journal; every command of
Session D has one asset. `backoffice/README.md:15` says a logout invalidates
grants; a preview already past its session check still uses its own.

### Fairness

`OperationEnds` assumes that a call, once begun, is executed to its end
(`WF` of the sweep and of `Finish`): it is one synchronous function. Nothing
obliges anyone to call. `CloseSettlesInTheEnd` assumes that the event loop runs
queued reactions and that every wait for the server is bounded, which
`connectionTimeoutMillis`, `lock_timeout` and `query_timeout` see to; a
statement in flight is answered or times out. Nothing obliges an orphan to run,
`initialize` to finish or the process to stay alive. `ApplicationsEnd` assumes
that the clock ticks, that a `submit` comes back from its await, and that the
onboarding sheet keeps polling, which it does every four seconds while an
application is pending (`miniapp/src/app/sheets.tsx:189–203`); nothing obliges
a provider to call back.

## 4. Proofs

`tlapm` checks every leaf; no theorem takes anything on trust. They hold for all
values of the constants that satisfy the named assumptions, which the modules
that declare the constants state and TLC evaluates.

`MatchingEngine_proofs` (`EventConstants`, `EngineConstants`):
`EngineTypeCorrect`, `BookNeverCrosses` (`Spec => []NeverCrossed`) and
`FillIdsTrailEvents` (`Spec => []FillsTrailEvents`).
They rest on one inductive invariant, `EngineInv`. `NeverCrossed` alone is not
inductive: a remainder rests because the sweep found nothing matchable, which
says something about the book only if every queued id is an order of that
instrument and side with that price (`BooksInv`), if ids are tracked orders of
the right type (`OrdersInv`, `TrackedInv`), and if the taker of the open
operation is such an order and in no queue (`OperationInv`). `CountersInv`
carries the counters, and with them the bound on fill ids: an execution takes
one fill id and two sequence numbers. The proof has a lemma per book operation
and per kind of step, and one step per action.

`BooksHoldRestingOrders` (`Spec => []BookHoldsRestingOrders`) needs more than
`BooksInv`: between two operations the queues hold exactly the resting orders,
each once. `QueueInv` says so of every state, with the taker of the open
operation as the one order that may be open and in no queue, and with the
maker of an execution leaving its queue in the step that fills it.
`ClosedOrdersAreFinal` (`Spec => TerminalIsFinal`) follows step by step: who is
changed is a taker or the head of a queue, and `QueueInv` says that both are
open.

`ExecutionsConserve` (`Spec => []ExecutionsAddUp`) is about sums over the whole
journal. `TradeInv` adds that what counts names a tracked order, that the last
event that set a limit of an order set the one it has (`LimitsStand`), and that
market orders have none. It says nothing of an operation that threw: its
remainders have moved and its events have not been emitted. A lemma per kind of
event (`QuietEvent`, `LimitEvent`, `CancelEvent`, `FillEvents`) says what one
more event does to the sums, whatever the journal; the lemmas about actions say
which event it is. That the taker's leg is within its limit is the guard of the
sweep, that the maker's is follows from the place of the maker in the queues.

`EngineKeepsPriority` (`Spec => KeepsPriceTimePriority`) is the refinement of
`PriceTimePriority`. The code has no line: it has a queue per price, and the
insertion order of a map, from which snapshots list the orders. `PriorityInv`
ties them together: every queue is in the order of `tracked`, in which no order
stands twice and the taker of a sweep is last. So a remainder that rests enters
at the end, the head of a queue is ahead of every order at its price, and an
amendment that is queued anew leaves the line and enters it like a new order.
Under `QueueInv` the open orders are the waiting ones, each at a live level, which
makes the head of the best level first in line. Of an operation that threw the
mapping keeps what the code keeps: its books stand, a maker it left at zero is
not open any more.

`Recovery_proofs` (the same assumptions): `ReplayGivesTheEngine` (`Spec =>
[]ReplayRebuildsEngine`). No induction over the journal is needed: the fold is
run beside the engine. `MirrorInv` says that after every step everything emitted
so far, of the open operation included, folds into a *mirror* of the engine's
own state, so what has to be shown is that one step of the engine emits events
the fold admits in the mirror and changes the mirror as it changes the engine. A
lemma per type of event compares what the engine checked before it emitted with
what the fold checks again, and the engine's effect with the fold's. Between an
execution's two legs the mirror is not the engine; a lemma for the pair
(`FillMirror`) bridges it. Between operations the fold's snapshot has to be one
the parser takes: `TallyInv` counts the events an engine of a given shape must
have written, which is what the parser asks of the counters, and hydration
queues the resting ids in the order of the tracked map, which by `PriorityInv` is
the order of every queue (`SameLine`, `HydratedBooks`).

`TornBatchesAreRefused` (`Spec => []TornBatchRefused`): behind the journal and
before the last event of the open operation the fold is never on a boundary
(`TornInv`): an order is in flight until the event that closes its operation,
and behind the first leg of an execution its maker waits for the second.

`TailsResumeTheEngine` (`Spec => []TailRebuildsEngine`). Every cut of the journal
is inside an operation, hence refused, or can be resumed (`HistInv`): its own
snapshot parses and hydrates to a fold in the same state. The two folds differ in
one thing, since a snapshot does not say when the last operation began; the next
operation begins with an event that overwrites it (`OpAtForgotten`), so from there
on they agree, events admitted and states reached (`FoldsAgree`). That a fold over
the whole journal is one over a prefix continued by one over the tail is
`FoldedTail`, again without induction over data: both are the one function that
satisfies the recursion on that range.

`ThrowsLeaveReplay` (`ServedSpec => []ThrowsKeepJournalReplayable`): while no write
failed the engine is one without a store, and satisfies the six invariants above;
from the first failure on nothing is journaled, so the journal that replayed at
that moment is the one that is there (`ServedInv`). `AttachedBooksStaySound` is
about every attached engine, the one that serves before its store is initialized
included: an append that throws leaves the books as the operation left them, and
the invariants of the books never speak of the journal.

`JournalStore_proofs` (`BatchGrammar`, `StoreConstants`): `TypeCorrect`;
`TableLogsWholeOperations`, the refinement of `JournalLog`: every step that
changes the table appends one whole batch; `ResolvedAppendsStayDurable`.
The refinement needs to know that the table is always a concatenation of
batches: then a statement that overlaps its end, agrees with what is recorded
and brings something new must begin just behind it, because an opener occurs
nowhere else in a batch and no batch continues another (`BatchGrammar`, the
event grammar of the engine). `UnlatchedWritersAreRecorded`: without a latched
failure the table followed by the writes still queued is the engine's journal,
up to the one write in flight that may already have run. `BarriersHold`: a
barrier carries the count of the writes queued before it, and the writes settle
in that order.

`ServerStores_proofs`, sessions (`ClockAssumption`, `BoundsAssumption`):
`RevocationsHold` and `NoStatementRaises` rest on `StoreInv`: rows and calls are
well-formed, an issue under way carries an id no row has, and what a statement
judged active is the row it updates. `BoundsHold` needs more (`BoundsInv`): the
advisory lock of a subject excludes, so between the snapshot of an issue and
its commit no other issue or revocation touches the subject, and the rows the
snapshot lets go leave room for one. That an `OFFSET keep` in a strict total
order leaves at most `keep` rows is a lemma of its own (`OffsetOfRanks`).
`StatementsReproduceMemory`: an issue, a revocation or a sweep that nothing
disturbed leaves the rows the memory backend would. By `StoreInv` the row a
statement updates is live, so the tombstones both evict are the same. This is
the half of `StoresMatchMemory` about this store, without the run's bounds.

`ServerStores_proofs`, Mini App sessions (`CustomerSpec`, over the queue and the
latch of `AuthSessions`): `CustomerRevocationsHold` and `NoCustomerStatementRaises`
rest on `CustomerInv`. A logout deletes its row, so no tombstone is left to
refuse a late write; what keeps such a session from coming back is that a call
names a session issued before it, which no issue names again. The ranks of the
rows (`store_seq`) are distinct, so that "newest" is one order.
`CustomerBoundsHold` follows as above, with a lemma for any number of tombstones
a revocation leaves beside its own. `CustomerStatementsReproduceMemory` is the
other half of `StoresMatchMemory`: a second revocation of a session evicts
nothing, because at most the kept number of tombstones stand beside it. A
revocation of an expired session is excepted: that is what `SessionBackends`
shows the two backends to do differently.

`ServerStores_proofs`, limiter: `WindowsAllowWithinLimit`. The upsert judges the
row it changes as last committed; `LimiterInv` counts the allowed answers of a
window with the bucket that gave them. `StatementIsTheMemoryLimiter`: at every
table such calls can leave, the statement and the memory limiter give one answer
and leave one table, for every limit, window and number of keys. It needs that
the stored keys are finitely many, since both compare their number to `maxKeys`.

`ServerStores_proofs`, console: `AnsweredViewsAreAudited` (`ViewsInv`: an append
under way carries a prefix of the chain, and an event is recorded once) and
`ProofsVerifyOnePreview` (`StepUpInv`: a challenge is open until a right code
ends it, its grant open until one preview, and each binding indexes at most one
of either).

`ServerStores_proofs`, sign-ins (`SignInAssumption`): `SignInsReplace`, over the
sessions of `AuthSessions` without a bound on logins, instances or rows.
`SignInInv`: a session given to a browser or named by a pending login is never
issued again, so once not live it stays so; of every session a login replaces,
the session is not live or its revocation is still to come; one login waits at
a store at a time; and under the lock of its subject an issue that has read the
table still finds every session of the operator on the device among those it
displaces. The lock excludes by subject, so the last part says nothing of two
operators on one device, which is what `DeviceDisplacement` exploits.

`Ledgers_proofs`, in memory (`DraftConstants`): `DraftReconcilesItsAccounts`
(`DraftSpec => []ControlAccountsReconcile`). The property ties the books of the
ledger to maps the draft keeps next to them, and the draft updates a map also
for a command the ledger only replays. `DraftInv` says why that never happens
twice: every accepted journal has left its trace (`HoldsInv`, `BreaksInv`,
`ReversalsInv`), and the trace fails the operation's own check. What a journal
does to a control account follows from its posting rule: the rules of the draft
name at most one held or suspense leg per asset (`ControlLegs`), and a hold has
exactly one by shape, a clear by having one asset (`OneSuspenseLeg`); the rest is
sums over disjoint sets of entries. `DraftConstants` is the chart and the
posting rules of `session-d/` as far as they name control accounts, that `Direct`
excludes the types with an operation of their own, and that park and clear
journals move one asset: the code looks at their first suspense leg only.

`Ledgers_proofs`, in PostgreSQL: `JournalsCommitComplete`. The deferred triggers judge a
journal one step before its rows become visible, and another transaction may
commit in between. `SchemaInv` says why that does no harm: committed rows and
those under way hold every unique key once (`KeysHeldOnce`), the seal of a
journal among them, and a seal counts the entries it covers. So of two
transactions that passed their triggers neither has an entry of a journal the
other wrote to (`NoSharedJournal`), and what was judged complete stays so
(`CheckedComplete`). The premise is that a statement inserts finitely many rows.

`CommitsImplementPost` is the refinement of `Ledger` (`ImplementsMemoryLedger`).
Only a commit changes what is mapped. What it adds is one journal and all of its
entries, none of them of a journal that was there (`OneMore`, from the seals
again), so the journals before it keep theirs; a complete journal is a valid
command (`CompleteIsValid`: rows carry keys a command's entries do not, and both
have the same sums and signatures since entry ids differ); and the unique keys
are what `post` checks of ids and keys. Two premises are needed, and
true of the runs: a transaction brings at most one journal, as `post` takes one
command (two would be two steps of the memory ledger), and the journals that may
ever be sent fit the capacity of the memory ledger, which the table does not have
(`Followed`).

`Custody_proofs`, signing: `TiersStayWithinLimits` (`TierInv`: the module's
counter of a day and network is the sum of what it approved on it, and its
sequences and intents are those of its approvals) and `WatcherExplains`
(`WatcherInv`). The watcher takes the first live intent that fits, not
necessarily the one that was paid. That no payment of an intent of its own is
then left without one is a pigeonhole (`OwnPaymentFinds`): where intents are
listed by expiry, every intent from its own on would be taken, each by a payment
whose own intent is among them too. The property itself supposes the order;
without it the watcher freezes for no cause (see `hazards` in `PROJECT.json`).
`WatcherConstants` states that no two live intents are equal, being the values
of a `Map` by digest.

`Custody_proofs`, outbox: `TransactionsImplementTheRegistry`, the refinement of
`CustodyProjection` under the premise that requests which share an identity of
the registry also collide in the table's columns (see section 5). `OutboxInv`
ties what a call has read to the table it will insert into.

`Providers_proofs`, quotes (`QuoteConstants`): `QuotesValidate`, with `QuoteInv`
carrying the bracket of the bisection (the lower end fits the budget, the upper
does not), and `BudgetsBuyTheMost`: rounding twice, with a rounded fee on top,
is still monotone, so that one unit more being too much makes every larger
amount too much.

`Providers_proofs`, inbox (`InboxAssumption`: sequences are `1 .. n`):
`CallbacksFold`, with `InboxInv`. The property compares a subject with its claims
read in sequence, which no step of the inbox does; what makes it inductive is to
say of every claim where it went: applied as a link of an allowed chain, parked
behind a gap, or next and not allowed. Its second half is for claims that agree
only, since the first of two that contradict each other wins by arrival. That
the recursion of `InOrder` is what the subject keeps is then shown once, by
exhibiting the function it defines (`ReachedIsFixed`).

`Providers_proofs`, onboarding (`OnboardingConstants`: delays and timeouts are
naturals, which `kyc.mjs` draws or checks, and the absence of an application is
no reference): `OnboardingFollowsProvider`, for every scenario, clock and
number of subjects and sessions, with every bound of the simulator and the
nonce store. What a subject is shown is far from what its provider keeps: in
between are the timeline as its delivery mode sends it, the queue, the nonce
store, the index of live references, the inbox with its parking, the timeout,
and the listeners. `OnboardingInv` follows a decision along that way. A queued
delivery repeats an event that has occurred by the time it is due, also when
its mode doubles or reorders it (`Tells`); the inbox holds, applied or parked,
only events that were due within the deadline (`Hears`); a subject's
application is its own, is live, and its last state told is its state
(`Belongs`); a submit that waits holds an opened timeline of its own subject,
or there is an outage and nobody has an application; a promoted session's
subject was approved in one of its attempts, which no reset undoes. A drain is
one step of the model and a fold over the deliveries due, the latest last:
`ReceptionExists` shows that the recursion has a solution, and
`ReceptionKeeps` that each delivery keeps the invariant, by induction over the
sets of deliveries.

`Providers_proofs`, personal checks (`ChecksConstants`: a lifetime above zero;
delays, ages and the limit of attempts are naturals): `ReceiverFollowsTheCheck`
proves `InboxTellsTheChecks`, the checks' part of `CallbacksTellTheProvider`, for
every way of delivery, delay, lifetime, limit, skew and bound. `CheckInv` is the
lifecycle: each event follows the one before as the transitions allow, and every
event but expiry is before the expiry, since an operation on a check that is due
expires it first (`RefreshedHolds`); `Rank` bounds the history, and with it the
queue. `SaysOf` ties every delivery, queued or on the wire, to an event of the
history, and `HeldOf` what the inbox applied or parked; both only need the
history to grow. `NoncesInv` is why a nonce is kept for the age and the skew
together: a reading of the clock ahead by the skew forgets a nonce only when the
delivery is too old for every reading that may still come (`NoncesKept`).

`SetSums` holds what the ledger, the limits of a tier and the engine's sums rest
on: the sum over a finite set exists, is an integer, and grows by a new
element's value. The library's induction theorems take an operator as a
parameter, which the provers cannot instantiate; the lemmas get their induction
from the least element of a set of naturals instead (`LeastNatural`,
`SubsetInduction`).

Only model-checked:

* `FoldedStreamsHydrate`, which speaks of streams no engine wrote;
* the properties of the exchange reads (`ViewsPassValidation`, `ViewsReconcile`,
  `EveryViewHasRows`), which select from and concatenate sequences recursively;
* what the receivers of payments and assessments hold, the other two parts of
  `CallbacksTellTheProvider`: the payments' would need the invariant of the checks
  joined to timelines as the onboarding's (no proof of it yet), the assessments
  are read with `SelectSeq`, which the provers do not have;
* liveness, which is out of the prover's reach.

## 5. Not modelled

By component (`PROJECT.json` has the status of each, and every hazard with the
properties that cover it or the reason none does):

* JSON shapes and patterns of events, snapshots and inputs, decimal parsing and
  formatting, the aggregated book view, transaction codecs, `valid_journal_event`
  in SQL: no state, one value in and one verdict out.
* HTTP surfaces, synthetic directories and operator views of `customer-api`, and
  the parsers of both BFFs for them: payloads derived from a subject alone and
  key-by-key validation of them. The exchange reads are the exception because
  they project shared state and are recomputed by their consumer.
* The memory journal store (the append rule of the database, no failure of its
  own) and the migration tooling of the ledger (one caller over `post`).
* The screens. The components of `backoffice/src/app` and `miniapp/src/app` keep
  client state, mostly one request at a time. Worth a module of their own:
  `ApprovalsView` (`backoffice/src/app/App.tsx:1513–1640`) guards late answers
  by a version, the detail panels by an `alive` flag; `AddressScreeningSheet`
  and `ChecksSheet` (`miniapp/src/app/sheets.tsx`) do not say which target an
  answer was for.

This leaves most of the repository's 86,000 lines outside: interface code,
translations, demo data, validators of upstream payloads, contract and CI check
scripts and type declarations are about nine tenths of them, and have no
behaviour over time to check.

What the models simplify, beyond the head comments of the modules:

* **Exchange.** A quote that rounds to zero is refused by the code
  (`exchange-orders.mjs:1582`); the model's amounts are far above that. The list
  and the detail of an order share one row. Views are projected at the end of
  the replay, as in the code. The catalogue-order check of the consumer is left
  out.
* **Ledger.** The plain `post` takes every journal type; the model hands it only
  those without an operation of their own (`Direct`). `READ COMMITTED` is
  assumed, as the default of the clients. The posting rule's version is part of
  the journal type.
* **Session stores.** Ids are minted in order, digests and `last_used_at` are
  left out. A statement the trigger refuses latches its store, as an exhausted
  `lock_timeout` or a deadlock of two issues that displace each other's rows
  does (`RollBack`); `initialize` resets the latch while old writes may be
  queued. Expired rows doomed by the snapshot of an issue go without a second
  look, as in the SQL. `StoresMatchMemory` compares statements nothing
  disturbed: a session dropped between an issue's snapshot and its commit may
  cost one more than the memory backend would evict. `store_seq` of the Mini
  App's store is a rank. The sweep of the Mini App's store is modelled although
  its BFF never calls it.
* **Limiter.** New keys that arrive together can overrun `maxKeys`; the bound is
  checked where the statement sees it. Counts saturate above the limit.
* **Console.** Of two views that append to one head the second answers 503. The
  digest of a command and the subject are fixed by approval and session.
* **Sign-ins.** The device is an approved one, there is one browser, and session
  expiry is left to the session parts. A callback that is repeated clears the
  transaction cookie of a newer login, as in the code. A commit after
  `query_timeout` is taken when the write settles. The memory backend of the
  operators' store is not compared with its statements.
* **Custody.** The SQL table of the outbox has no columns for approvals, grants
  and evidence, and another namespace for events, than the registry
  (`custody-core/README.md:44–46`): `MCFinance` assumes requests that agree in
  one agree in the other. `dispatch` does not compare the tier of a request with
  the tier of the module it is handed; an intent can then be approved once per
  tier, and the second payment is what the watcher reports. The watcher freezes
  a network in itself; that an operator then freezes the policy module is a step
  of its own. The watcher takes the first live intent that fits, which explains
  every outflow it could only because intents are listed by expiry.
* **Providers.** Amounts, signatures and headers are left out, time is in
  abstract units, a retry under its key is no step. A callback out of sequence
  that its state does not allow is parked and consumes its event id. Nobody
  takes a timeline or an assessment away again, so the simulators fill up
  (`MaxResources`). An approval nobody asks for within its maximal age is lost
  and the application times out, as the comment in `kyc.ts` intends. Quotes are
  of one pair; the scenarios that shift timestamps, `assessQuote` and the checks
  on the base asset are left out.

## 6. Plan

Done: the matching core with its two abstract specifications and its exchange
reads; the journal store; the ledger, its schema and Session D; custody; the
three session stores, the limiter, the console and the sign-ins of operators;
the provider simulators and their receivers in the Mini App.

1. A proof of the payments' part of `CallbacksTellTheProvider`, from the lemmas
   of the checks' part.
2. A module for the screens that drop or keep late answers, one request and one
   selection at a time.
3. The memory backend of the operators' store in step with its statements, which
   takes more sessions and devices than the sign-in part has.

To reproduce, in this directory: `tlc -config MatchingEngine.cfg
MCMatchingEngine`, and likewise for the other runs of `PROJECT.json`;
`tlapm MatchingEngine_proofs.tla`, and likewise for the other `_proofs` modules
and `SetSums`. The longest runs (`ServerStores`, `AttachedEngine`, `Providers`, `Finance`) take two
to three minutes with two workers.
