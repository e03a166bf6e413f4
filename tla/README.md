# Formal models of the hanko-field API

TLA+ models of the Go API under `src/api`, the TLC runs that check them and the
theorems about them that TLAPS proves. Paths below are relative to
`src/api/internal` unless they begin with `src/`.

## 1. Inventory of the system

The API is a stateless Go service (Cloud Run: several instances, each serving
requests concurrently and liable to end at any time) over Firestore. Handlers call
services (`services/`), services call repositories (`repositories/`), and what is
shared lives in Firestore documents or, per instance, in the memory of a platform
package (`platform/`).

| component | state it keeps | operations | interacts with | hard because | correct when |
|---|---|---|---|---|---|
| inventory (`services/inventory_service.go`, `repositories/firestore/inventory_repository.go`) | documents `inventory/<sku>`, `stockReservations/<id>` | ReserveStocks, CommitReservation, ReleaseReservation, ListLowStock; events | Firestore transactions, TTL policy, order service | optimistic transactions that are retried, several documents per operation, events after the transaction, documents deleted by TTL | nothing is oversold, a reservation is settled once, counters are what the reservations hold |
| idempotency (`platform/idempotency`) | a record per scoped key | Reserve, SaveResponse, Release, CleanupExpired; the HTTP middleware | handlers of all mutating requests, ticker in `cmd/api/main.go` | concurrent duplicates, lost replies, panics, expiry, a cleanup that races | one handler run per key, faithful replays |
| counters (`services/counter_service.go`, `repositories/firestore/counter_repository.go`) | documents `counters/<id>`; per instance the configured signatures under a mutex | Next, NextOrderNumber, NextInvoiceNumber, Configure | order service | instances configure and draw at once, lost replies, the turn of the year | values and numbers are unique, limits hold |
| order service (`services/order_service.go`) | documents `orders/<id>`, `productionEvents` | CreateFromCart, TransitionStatus, Cancel, AppendProductionEvent, RequestInvoice, CloneForReorder | inventory, counters, UnitOfWork | read–modify–write of whole documents, two stores in one operation | the workflow is followed, an order owns the reservation it sold |
| background job dispatcher (`services/background_job_dispatcher.go`, `platform/jobs`) | documents of AI jobs and suggestions | QueueAISuggestion, CompleteAISuggestion | Pub/Sub, the AI worker | insert then publish, duplicate deliveries, instances that end in between | one job per key, every queued job ends |
| reviews (`services/review_service.go`) | a document per review | Create, Moderate, StoreReply | order service | check, then write unconditionally | one review per order, replies to approved reviews only |
| user profiles (`services/user_service.go`, `repositories/firestore/user_repository.go`) | a document per user, audit records | GetProfile (seeds), UpdateProfile, MaskProfile, SetUserActive | Firebase, audit service | optimistic lock on the update time, audit after the write, which may fail unnoticed | no change is lost or undone, a change has its audit record or a warning |
| Firestore client provider (`platform/firestore/provider.go`) | the client, an initialisation channel | Client, Close | all repositories | single initialisation with waiters, Close during it | one client, closed in the end; nobody waits for ever |
| authentication (`platform/auth`) | set of signing keys, nonce store | middleware, background refresh | handlers, Google's keys | a cache refreshed behind requests, rotation, expiry | a request is accepted or refused rightly |
| secrets (`platform/secrets`) | cache, slice of watchers | Resolve, Invalidate, Subscribe, Close | Secret Manager, a fallback file, authentication, readiness | rotation, a slice shared outside the lock | no stale value after a notice, every watcher is told |
| pricing engine (`services/pricing_engine.go`) | cache of shipping quotes | Calculate | carts, promotions, tax and shipping services | rounding and allocation in int64, a cache read in two steps | the parts add up to the totals, the quote is in force |
| content (`services/content_service.go`, `handlers/public_templates.go`) | a document per page or guide and language; clients hold copies | Upsert, Delete, GetPage, GetGuideBySlug, ListGuides with ETags | staff, HTTP clients | tags that do not look at the text, fallback between languages | a 304 leaves the client with the right text |
| readiness (`handlers/health.go`, `services/system_service.go`, `repositories/health_repository.go`) | none of its own | Readyz | Firestore, Secret Manager through the fetcher | probes side by side with deadlines of their own | 200 only if all answered in time |
| payments, storage, pagination, catalog, audit, observability, configuration, applications | mostly none | see `PROJECT.json` | external services | – | – |

`PROJECT.json` lists every component with its sources and status, and every
behaviour that a test would hardly reach, at its line (`hazards`), with the
properties that cover it.

## 2. Modules

```
StockDocs      documents, constants, what one line requires and does
  StockBook    the inventory as atomic operations      --refines--> StockLedger
  Inventory    the inventory as concurrent requests    --refines--> StockBook
  Orders       the order service, over the operations of StockBook
  LowStock     pages of the low-stock list, while StockBook moves the stock
Idempotency    the middleware and its stores
Counters       the counter service and its repository
Jobs  Reviews  Profiles  Provider  Health      one service each  } MCServices
KeySet  Secrets  Pricing  Content              one cache each    } MCCaches
MCInventory and MCCaches side by side                            } MCRecords
MC*            constants for TLC

InventoryProofs  OrdersProofs  IdempotencyProofs      theorems about the
CountersProofs   PricingProofs                        module of that name
PlatformProofs                                        Jobs, Provider
ServicesProofs                                        Reviews, Profiles, Health, LowStock; MCServices
CachesProofs                                          KeySet, Secrets, Content; MCCaches
```

**StockDocs.** `Docs`, `Reservations` are the fields of `stockDocument` and
`reservationDocument` that decide anything. `StockOk(op, d, n)` and
`Adjusted(op, d, n)` are the checks and the assignments in the line loops of
Reserve, Commit and Release, with `recalculate()`. A `Basket` is what
`normaliseInventoryLines` lets through: distinct SKUs with positive quantities.

**StockLedger** is the promise to callers and has no counters: a claim is granted if
the pieces sold, the pieces held by open claims and the new ones do not exceed what
there was; it is then sold or given back, once.

**StockBook** executes each repository function in one step.

**Inventory** splits it: a request (`tx[p]`) reads the reservation
(`ReadReservation`), then a stock document per line (`ReadStock`), buffers its writes
(`writes[p]`), and is applied at once (`Apply`) unless something it read was written
meanwhile (`stale`), in which case the transaction function runs again, at most
`MaxAttempts` times (`Retry`, `platform/firestore/transaction.go`). Then it
publishes one event per SKU (`PublishEvent`). `CutOff` is a timeout, a failed publish
or the end of the instance at any point; a cut-off after `Apply` is also a lost
reply. `PurgeExpired` is the TTL policy of
`src/infra/terraform/modules/firestore/main.tf`, part of `Next`; `RequestNext` is what
requests do. With `TtlPolicy = FALSE` the two are the same.

**Idempotency.** A request is a header value, a sender and a content; `ScopedKey`
and `RequestFingerprint` are what the middleware makes of the header, the content and
the requester, so that a key that is used for another content is told by its fingerprint.
The requester is not the sender: `ExtractRequester` finds whom an authentication further
out has named (`Known`), and `"anonymous"` otherwise. `cmd/api/main.go` installs the
middleware for the whole router, in front of the authentication of each group of routes
(`router.go:65` and `:86`), and no Firebase authentication is mounted; the program therefore
has `Known = {}`, as all runs have: a header value that two users share is one key. One action per step of the middleware: `Arrive` (key, fingerprint,
clock), `Reserve`, `Handle`, `SaveResponse`, `Release`; `ReserveFails` and
`SaveFails` are a store that fails with or without effect; `Panic` is a handler that
panics, or an instance that ends. `Outcome` is the decision of the two stores, which
differ in the order in which they look at fingerprint and expiry. `CleanupQuery` and
`CleanupDelete` are the two calls of the Firestore store's cleanup; the memory store
holds its mutex throughout (`CleanupMemory`) and its calls do not fail. Time is
abstracted to whether a record has expired; a request that read the clock before and
asks the store after is `early`. The variable `store` is fixed at the start.

**Counters.** `LockConfig` … `UnlockConfig` are `ensureConfiguration` step by step,
`StoreFails` a Configure that fails, or takes effect although its reply is lost,
`Draw` is the repository's transaction on one document (atomic, because it reads and
writes that document only), `DrawFails` the error paths including a lost reply,
`Format` the reading of the clock and the formatted number. `Restart` ends an
instance, `Turn` is the turn of the month or year.

**Orders.** A request reads the order and works on its copy (`TransitionStatus`,
`Cancel`, `AppendProductionEvent`, `RequestInvoice`, `CreateFromCart`,
`CloneForReorder` with `Moved` for `applyStatusTransition`), then makes its writes one
by one (`CommitReservation`, `InsertEvent`, `Store`, `ReleaseReservation`); `CutOff` is
a failed write or the end of the request. With a transactional UnitOfWork the writes
to `orders` and its subcollection appear together, in `Store`; those of the inventory
do not, because the inventory repository opens a transaction of its own
(`inventory_repository.go:156`). The repository contains no implementation of
`UnitOfWork` besides `noopUnitOfWork`, so both kinds are checked (`transactional`).
Inventory steps are those of StockBook, which Inventory implements.

**Jobs.** `QueueAISuggestion`, `FindByIdempotencyKey`, `InsertJob`, `Publish` and
`FailJob` are the steps of the queueing call; `Deliver`, `FindJob`, `InsertSuggestion`,
`UpdateStatus` and `Ack` those of the worker with `CompleteAISuggestion`. Repositories
fail with or without effect, Pub/Sub delivers what is not acknowledged again, calls and
workers die (`JobFault`, bounded). The repositories are interfaces: whether inserting a
suggestion again overwrites it or conflicts is left open (`upserts`).

**Reviews.** Each operation is a read (`EnsureNoExistingReview`, `FindReview`) and an
unconditional write (`InsertReview`, `Moderate`, `StoreReply`).

**Profiles.** `GetProfile` and `Seed` are `getProfile`, `Write` is the repository's
transaction that compares the update time, `ReadBackFails` and `ReadBack` its read of the
result, which the audit record follows. `Record` of `audit_log_service.go` swallows a
failed `Append` and calls the logger: such calls are in `warned`. Without an audit service
(`auditService`) `appendAudit` returns at once.

**Provider.** `Client` and `Close` step by step between two operations on the mutex, the
channel or the closed flag; contexts may end while a call waits.

**KeySet.** `Key` reads the clock once; `LookUp` looks into the cache, at most twice;
`LockRefresh`, `Fetch`, `Install` and `FetchFails` are `refresh`, by a request or in the
background (`BackgroundRefresh`). `Rotate` is Google publishing or withdrawing a key.

**Secrets.** The slice of watchers is modelled with its backing array, because
`Invalidate` walks the slice it copied without the lock, while subscribers append to and
cancellations shift the same array.

**Pricing.** The arithmetic of int64 (`Wrap`, `Quotient`, `AllocateByWeight`) and the
result (`Breakdown`) are operators; the actions are what races, the cache of shipping
quotes (`GetQuote`, `CheckQuote`, `PutQuote`). `Tuple(f)` is `f` itself: concatenation
with the empty sequence makes TLC evaluate a function once instead of at every use.

**Content.** A page, a guide, or the list that shows the guide (`kind`) in its
languages. `Stamp` and `Upsert` are an edit, whose time is taken before it is stored;
`Find`, `FindDefault` and `FindList` look a document up, `AnswerDocument` compares its
tag with the one the client holds.

**Health.** `Readyz` starts the two probes that `cmd/api/main.go` wires in; each ends
with an outcome that `ProbeStatus` judges, in or after its time; `RespondReady` answers
when both have ended. Secret Manager is probed through the fetcher's cache.

**LowStock.** `FirstPage` and `NextPage` are one query each of `ListLowStock`, with the
token of the page before; `StockMoves` is any operation of StockBook between two pages.

## 3. What is checked

All runs finish within minutes; the passing ones explore their state spaces fully.

| run | bounds | shows |
|---|---|---|
| `inventory` | 2 requests, 2 reservations, SKUs a (3 pieces), b (1), c (no document), 3 baskets, 2 attempts | `NoOversell`, `SettledOnce`, `ReservedAccounted` (counters = open reservations), `EventsReconcile` (event deltas add up), `ImplementsBook`, `ImplementsLedger` |
| `idempotency` | both stores, 2 header values, 2 contents, 2 clients that repeat requests, all failures, cleanup; 1 sender, since all are anonymous and senders only matter to `PerUser` | `Exclusive`, `NoRerun`, `ReplayFaithful`, `AnswersOwnRequest`, `ExpiredNotReplayed` |
| `counters` | 2 instances, 3 calls of which 2 at a time, 2 periods, a limit of 3 | `NumbersUnique`, `LimitHolds`, and under fairness `CallsEnd` |
| `orders` | 2 requests, 2 orders, 1 reservation, both UnitOfWorks | `OwnReservation`, `StampsAgree`, `EventsBacked`, `ForwardUnlessOvertaken` |
| `services`: jobs | 2 calls, with or without 1 key, 1 worker, 2 faults | `OneJobPerKey`, and under fairness `JobsEnd` |
| `services`: reviews | 1 order, 2 calls of Create, 3 of the staff | `OneReviewPerOrder`, `RepliesOnApproved` |
| `services`: profiles | 2 calls, 1 name, 4 writes | `ChangesSurvive`, `AuditTrail` |
| `services`: provider | 3 callers, 1 Close | `ClientsAccounted`, and under fairness `CallersReturn` |
| `services`: health | 1 request of 3 ticks, probes of 2 and 1 | `ReadyTells` |
| `services`: lowstock | 3 SKUs, 2 of the same level; 2 reservations, 3 baskets of a piece; pages of 1 and 2; both orders of the list | `WalkFaithful` |
| `records`: reservations | 1 SKU with 1 piece, 2 orders, 2 requests, TTL | `ClaimsCanSettle` also while documents are deleted (the refinement under the TTL is proved, section 4) |
| `records`: keys | 1 request at a time and the background refresh, 2 keys, validities 1 and 2, fetches of 1 tick, 4 ticks | `AnswersJustified` |
| `records`: secrets | 2 watchers, 1 Invalidate at a time, 2 versions; two calls of Resolve race only while both watchers are subscribed, or none, and an Invalidate that walks then walks the array in use | `NotifyAll`, `FreshAfterNotice` |
| `records`: prices | a range of 127 for int64; all carts of at most 3 of 6 items with 3 promotions, and 5 refused carts; one of them priced by 2 racing calls, the others by one at a time; quotes of 1 tick, 2 ticks | `PricesSound` |
| `records`: documents | 2 editors, 2 languages of which the client asks for the one that is not the default, 3 edits, 2 seconds | `NotModifiedFaithful` |

`MCServices`, `MCCaches` and `MCRecords` extend modules that share no variable and choose at the
start (`service`, `part`, `records`) whose behaviour it is; the variables of the others stay as they
were. The state spaces add up instead of multiplying, and one run checks the properties
of all of them: what is violated in one part is violated in the run.

Why these bounds are enough to be interesting. Two requests are a race, and a
request slot is reused, so that sequences of any length occur. The baskets overlap in
a SKU that cannot serve both, one spans two SKUs, one names a missing document. Two
attempts give a retry and a refusal. A limit of 3 with a step of 2 is reached and
missed. Three callers of `Client` are one that creates and two that wait; three staff
calls are two decisions and a reply. The second watcher moves the slice to a
larger array, and one that subscribes after a cancellation is written in place; two faults are an error and
a death.
The shelf has equal and different prices, free, heavy and weightless items, discounts
below and above the price, and one item so dear that products leave the range: every
branch of the allocation is taken. Two seconds and three edits allow two edits within a
second and one after it. Deadlock is checked where the system never stops; order ids,
calls, periods, edits and ticks are used up in the other runs, which say so; so does
`records`, for its caches.

`CallsEnd` assumes (`CallFairness`) weak fairness of each step of a call and strong fairness of taking
the mutex: a goroutine keeps running, and Go's `sync.Mutex` hands itself to a waiter
after a millisecond (starvation mode). `CallersReturn` assumes (`ProviderFairness`) weak
fairness of each step of a call of Client or Close, the creation of the client included, which has a
dial timeout; it does not assume that contexts end. `JobsEnd` assumes (`JobsFairness`) weak fairness of
the steps of calls and workers, and strong fairness of the delivery of each message:
Pub/Sub delivers a message again until it is acknowledged. No other liveness is claimed:
whether a client retries is not the API's choice.

### What the properties except

A property that the code does not keep is stated with the exception that the code
makes, and no wider; each exception is a hazard in `PROJECT.json`.

- `OneJobPerKey`, `OneReviewPerOrder`: calls that overlap both insert.
- `JobsEnd`: a job whose call died, or could not say whether it was published, stays
  queued; so does one whose suggestion was stored by a delivery that failed afterwards,
  if storing it again conflicts.
- `RepliesOnApproved`: two moderators decide differently, and the later write wins.
- `ChangesSurvive`: a seeding that was overtaken overwrites the profile, even a mask.
- `AuditTrail`: a call that died, or could not read back, leaves neither a record nor a
  warning; one whose `Append` failed leaves a warning, and the record perhaps; without an
  audit service there are no records. `di/container.go:79` constructs the audit service
  without a logger, so that in the program the warning that
  `src/doc/api/tasks/024-…` asks for goes to `noopAuditLogger` and is lost.
- `NoRerun`: a key that was released, because its response could not be saved, has its
  handler run again, as the code means it to.
- `FreshAfterNotice`: an entry stored by a Resolve that an Invalidate overtook, and a
  value of the fallback file, which are both cached for good.
- `NotifyAll`: a watcher that cancels, or Close, under a walk of Invalidate.
- `PricesSound`: carts with products that leave int64.
- `NotModifiedFaithful`: two edits of the same language within a second.
- `ReadyTells`: Secret Manager is not asked again once its secret is cached, although
  `src/doc/api/tasks/027-…:11` says that /readyz verifies it "before responding". The same
  line names Storage and Pub/Sub, for which the code has no probe.
- `WalkFaithful`: a SKU whose stock fell during the walk may be missed, and one whose
  stock rose may be listed twice.

### Disagreements found

Six runs show, by a counterexample, where the code does not do what a comment or a
document says (`findings` in `PROJECT.json` quotes them).

- `inventory_ttl_leak`: the TTL policy deletes an open reservation; its pieces stay
  `reserved` for ever.
- `idempotency_cleanup`: `FirestoreStore.CleanupExpired` deletes a record that was
  reserved again between its query and its batch. `Exclusive`, `NoRerun` and
  `ReplayFaithful` therefore except the keys this has happened to (`swept`).
- `idempotency_users`: the middleware knows no requester, so that a user is answered with
  the response to another user's request if header value and content are the same;
  `src/doc/api/tasks/011-…:7` wants requests deduplicated per user. `AnswersOwnRequest`
  therefore speaks of the requester only where one is known, and `KnownUsersApart`
  (section 4) says what an authentication in front of the middleware would give.
- `counter_year`: `NextOrderNumber` takes the year from the clock twice. The run
  `counters` leaves that function out.
- `orders_race`: two updates of an order that read it before either wrote: a canceled
  order becomes paid. `ForwardUnlessOvertaken` says that nothing else leaves the
  workflow.
- `provider_waiter`: of two calls that wait for the client's creation, the second
  receives the zero value from the closed channel and returns neither a client nor an
  error.

Also seen while modelling, without a run of its own: a reservation is committed, in a
transaction of its own, for an order that is then not inserted; an expired record of another
request refuses a key in the Firestore store (`firestore.go:98`); a panic leaves a key
pending for a day; an order's id is generated inside `CreateFromCart`, so that with the
default generator a reservation cannot have been made for it and its commit is refused
(`inventory_repository.go:175`) – the models let reservations be made for the ids that
are given out later, as an injected generator allows; a stock transaction with two
lines reads after it has written, which the Firestore client refuses; a caller that
configures `InitialValue` resets its counter; the cache key of a secret omits an
overriding project (`fetcher.go:590`); shipping quotes are only deleted when their key is
asked for again (`pricing_engine.go:788`); the tag of a list of guides omits the token of
the next page, and an empty list has none (`public_templates.go:1478`); tags omit the
resolved addresses of images (`public_templates.go:1530`); `getGuide` does not look at the
publication, as `getPage` does (`public_templates.go:656`); a material's translation
depends on the iteration of a map (`public_templates.go:1137`); `/readyz` waits for its
probes however long they take, and its answer 408 cannot occur (`health.go:129`).

## 4. What is proved

Eight modules of theorems; every property of a passing run is stated by one of them. A
theorem is about a component's specification alone (`ServicesTyped` and `CachesTyped` are
about the composition that a run checks): none of the bounds of section 3 applies. It holds
for every value of the constants that satisfies the ASSUMEs of the module it is about;
hypotheses beyond those are named in the table: what callers of the code can be held to, how
it is deployed, and, for what must happen, that steps can be taken and that faults cease.

Most of the properties are not inductive, because they speak of what is stored and not of
what a request in flight is about to store. The invariant behind a theorem says what the
steps in between rely on.

| theorem | states | hypotheses beyond the module's |
|---|---|---|
| **InventoryProofs** `Invariance`, `TypeCorrect`, `ReadsStayCurrent` | `IInv`, `TypeOK`, `ReadsCurrent` | – |
| `Isolation` | `ImplementsBook`: the interleaved requests implement StockBook | – |
| `NeverOversells`, `SettlesOnce` | `NoOversell`, `SettledOnce` | – |
| `BookInvariance`, `ClaimsSettle` | `BookInv`, `ClaimsCanSettle` | – |
| `CountersAccounted` | `ReservedAccounted` | `TtlPolicy = FALSE` |
| `LedgerKept` | `ImplementsLedger` | `TtlPolicy = FALSE` |
| `EventsAddUp` | `EventsReconcile` | – |
| **OrdersProofs** `TypeCorrect`, `ReservationsOwned`, `StampsTruthful`, `EventsStored`, `OvertakingAlone` | `TypeOK`, `OwnReservation`, `StampsAgree`, `EventsBacked`, `ForwardUnlessOvertaken` | – |
| **IdempotencyProofs** `TypeCorrect`, `HandlersExclusive`, `RepliesFaithful`, `AnswersOwn`, `NeverRerun`, `ExpiredStaysUnused` | `TypeOK`, `Exclusive`, `ReplayFaithful`, `AnswersOwnRequest`, `NoRerun`, `ExpiredNotReplayed` | – |
| `KnownUsersApart` | `PerUser` | `Known = Identity` |
| **CountersProofs** `TypeCorrect` | `TypeOK` | – |
| `DrawsUnique` | `ValuesUnique` | `NoInitialValue` |
| `NumbersNeverRepeat` | `NumbersUnique` | `NoInitialValue`, `"order" \notin Kind` |
| `LimitsHold` | `LimitHolds` | `OneLimit` |
| `CallsAlwaysEnd` | `CallsEnd` | `[]StepsEnabled` |
| **PlatformProofs** `JobsTyped`, `RetriesGetTheJob` | `JobsTypeOK`, `OneJobPerKey` | – |
| `JobsAlwaysEnd` | `JobsEnd` | `Worker # {}`, `[]JobsEnabled`, `<>NoFaults` |
| `ProviderTyped`, `OneClient` | `ProviderTypeOK`, `ClientsAccounted` | – |
| `ClientsAnswered` | every call of `Client` returns | `[]ProviderEnabled` |
| `EveryoneReturns` | `CallersReturn` | `[]ProviderEnabled`, `<>NoneCreates` |
| **ServicesProofs** `ReviewsTyped`, `ReviewsUnique`, `RepliesApproved` | `ReviewsTypeOK`, `OneReviewPerOrder`, `RepliesOnApproved` | – |
| `ProfilesTyped`, `ChangesAudited`, `NoChangeUndone` | `ProfilesTypeOK`, `AuditTrail`, `ChangesSurvive` | – |
| `HealthTyped`, `ReadinessTrue` | `HealthTypeOK`, `ReadyTells` | – |
| `LowStockTyped`, `WalksFaithful` | `LowStockTypeOK`, `WalkFaithful` | – |
| `ServicesTyped` | `ServicesTypeOK`, of the six services side by side | – |
| **CachesProofs** `KeysTyped`, `AnswersRight` | `KeySetTypeOK`, `AnswersJustified` | – |
| `SecretsTyped`, `EveryoneTold`, `NoticesFresh` | `SecretsTypeOK`, `NotifyAll`, `FreshAfterNotice` | – |
| `ContentTyped`, `TagsFaithful` | `ContentTypeOK`, `NotModifiedFaithful` | – |
| `CachesTyped` | `CachesTypeOK`, of the four caches side by side | – |
| **PricingProofs** `PricesTyped`, `PricesRight` | `PricingTypeOK`, `PricesSound` | – |

`TtlPolicy = FALSE`: with the policy the two statements are false, as `inventory_ttl_leak`
shows; a deleted open reservation leaves its pieces counted. `NoInitialValue`: a caller
that configures an initial value resets the counter. `"order" \notin Kind`: the year of
`NextOrderNumber`, as `counter_year` shows. `OneLimit`: all callers that name a limit
name the same one; `Configure` overwrites a limit, so that a value drawn under one may be
past the other. `Known = Identity`: an authentication in front of the middleware names every
sender, as the wired program has none.

`StepsEnabled`, `JobsEnabled`, `ProviderEnabled`: where a guard holds that the model spells
out (`MayLock`, `MayDeliver`, `MayStep`, ...), the fair step that it guards is ENABLED. The
provers know nothing of ENABLED, TLC does: `MCCounters.cfg` and `MCServices.cfg` name the
three in comments, and with these lines uncommented TLC finds them true in every reachable
state. `<>NoFaults`: in the end no repository call, publication or delivery fails any more.
`MaxJobFaults` bounds the faults of every behaviour, so that each satisfies this, but to
infer it takes an induction over a temporal formula. `<>NoneCreates`: in the end no call
begins to create a client; a caller calls once, so that finitely many satisfy it. The faults and creations
before that moment are any, in any order.

### The arguments

**Isolation and overselling.** `Apply` writes what was computed from reads that may be
long past. `IInv` adds to the types `ReadsCurrent` – as long as a transaction is not
marked `stale`, its checks would pass again on the present documents and it would buffer
the same writes – and `WellFormed`, which ties the buffered writes to the lines of the
reservation. Only `Apply` and `PurgeExpired` write documents; `OutdateKeeps` shows that
each leaves every other transaction either untouched or marked. With `IInv`, `Apply` is an
atomic operation of StockBook (`ApplyBook`), which gives `Isolation`; what StockBook keeps
then holds of Inventory. `ReadsCurrent` says of the model's bookkeeping that it is right.

**Counters and reservations.** The pieces that the open reservations hold of a SKU are
defined as a set, of one block `{r} \X 1..n` per reservation. Its cardinality is the sum
of the lines, and a reservation that opens or closes adds or removes one block that meets
no other; the library's facts about cardinalities of unions do the rest, and no induction
over the reservations is needed. `BookInv` says that the reserved counter covers the
pieces held, and equals them without the TTL policy. The first gives `ClaimsSettle`, the
second `CountersAccounted` and `LedgerKept`. `EventsOwed` is the same for events: stock
and the published deltas differ by the lines of the requests that are still publishing.

**Orders.** What a request carries (`Sound`) is good enough to be stored: its stamps agree,
its reservation is committed for it, its event is stored or goes with it, and it is one
step of the workflow from what is stored, unless marked `stale`. `CreatesAlone`: nobody
works on an order that is being created, since its id is new.

**Idempotency.** `LiveHeld` and `OneRuns`: a key that is live, and not swept, has a record in
force; it is pending while one request, and no other, runs or stores. `Held`, `RecordsOwn`
and `Latest` follow a response from its handler through the record to the client.

**Counters.** `ValuesInv`: values handed out are at most the stored one, and each call
holds one that no other call holds. `NumbersInv` adds the printed ones: each stands for a
value handed out that no call still holds, and prefix and number determine the value.
`LimitsInv`: a limit that an instance remembers, or that a call is about to draw under,
is in the document.

**Jobs and reviews.** `LookedUp`, `RevLookedUp`: a call that is about to insert, or has
inserted, found nothing by a call that had ended when it began, and what has ended stays
ended. **Provider.** `Creation`, `Channels`, `Ownership`: the call that creates is the one
that the channel names, Close waits for it, and the open client has one owner.
**Profiles.** `ReadsExact`: a version names one content, so that a call whose version is
still stored has read what is stored. **Readiness.** `ReachedSound`: what answers at the
moment has answered during the requests that still collect.

**What must happen.** Each proof names the stages that a call goes through and shows of
each that it is left only for a later one, that the step that leaves it is among the fair
ones, and that its guard holds as long as the stage lasts; PTL chains them. The parts that
are not mere chains: who holds an instance's mutex in Counters gives it back, so that it is
free again and again, and strong fairness lets each waiter lock it. In Provider the call
that creates the client sends, and then closes the channel that the others wait on, so that
every wait ends; Close may have to wait for one creation after the other. In Jobs
(`JEndInv`) a queued job that is not excused is with a call that will publish or fail it, or
its message is unacknowledged; a worker gives every delivery up again, hence one is idle
again and again, and strong fairness delivers the message to it.

**Side by side.** The components of a composition share no variable, so that a step of the
composition is a step or a stutter of each, and `SideBySide` carries each component's
specification, with its fairness, over to the composition; every theorem about a component
then holds of the composition that the run checks.

**Keys.** `KeyInv`: the mutex has the owner whose state says so; what a refresh fetched was
published when the fetch began, or later, and covers the keys that requests rely on
(`Covers`); hence a cached key was published at most the longest validity and one fetch
before its expiry (`CacheOK`). **Secrets.** `SliceInv`: of each walk, the watchers still to
be told stand at positions still to be visited, in the array being walked, whether it is
the one in use or one left behind. `FreshInv`: the cache, and every Resolve about to store,
is as new as what any watcher was told, or belongs to an exception that
`FreshAfterNotice` names. **Content.** `ContentInv`: every tag a client holds is the tag of
an edit of its text.

**Induction over data.** The library's induction theorems take an operator as a parameter,
which the provers cannot instantiate; that a set of numbers has a least element (`Least`)
follows from facts of the library without one. A statement about all lengths is then
proved from the least length for which it would not hold (`UpTo`).

**The low-stock list.** A page is described by what is on it: the SKUs, in the order of the
list, that at most as many others lead as the page is long (`Leading`), after the last one
of the page before. `LowInv`: a SKU that was low all the while is listed already or comes
after the token, unless it fell; what was listed comes before the token, unless it rose
(`Tracked`).

**Prices.** `SumIs`: whatever accumulates a sequence's amounts has their sum in the end, so
that sums of sums, multiples, larger amounts and units are compared by giving a sequence
(`SumAdds`, `SumScaled`, `SumGrows`, `SumOfUnits`). `FirstInRank`: no two items have the
same rank among the remainders, hence exactly k items are among the first k, and handing
out what is left adds exactly that (`HandsOut`). `FewLeft`: the remainders are each below
the total weight and together a multiple of it, so that there are at least as many items
with a remainder as units left; an item whose share is whole gets none, and nobody gets
more than their weight (`Allocated`). For the same reason a share that is rounded up had
a remainder, and no share is a whole unit away from the exact proportion (`InProportion`);
shares of equal weights differ by one unit at most. Under `WithinInt64` every `Wrap` in the breakdown is
the identity (`WrapNone`), which has to be shown at each, since it rests on the sums found
so far. `PriceInv`, for the cache: an entry that a call accepts expires no earlier than the
call began, and a call that bypasses the cache gets no entry of it.

### What is only model-checked

- That steps whose guards hold are ENABLED, and that a bounded number of faults ceases:
  the hypotheses `[]StepsEnabled`, `[]JobsEnabled`, `[]ProviderEnabled`, `<>NoFaults` and
  `<>NoneCreates` above. TLC checks the three liveness properties `CallsEnd`, `JobsEnd` and
  `CallersReturn` without any of them.
- The statements that the code violates: the runs of section 3 that expect a violation
  show a counterexample each.

## 5. Assumptions and what is left out

- Firestore transactions are serializable and abort on conflict; a document write is
  atomic; the client allows a transaction to read after a write, as the code does.
- Generated ids are fresh (ULIDs); a purged reservation id is not issued again.
- The TTL policy deletes a reservation only after the request that made it has ended.
- A record of the idempotency store outlives its request (60 s against 24 h).
- Quantities stay far below 2^63.
- `counter_repository.go:113` stores the whole counter; it passes a struct with `MergeAll`,
  a combination that the Firestore client refuses (it takes maps).
- Signatures, tokens and hashes do what they are for: two contents have two
  fingerprints, a token is signed by the key that it names.
- Validation of inputs, logging, metadata, the texts of errors, and what only reads are
  left out, except where a property is about them.

**Not modelled.** Object storage, observability, pagination parameters, configuration:
they compute on one call's input and keep nothing. Payments: a manager that selects from
a map that never changes and an adapter of an external service; nothing in the source
calls them yet. The catalog service and handlers, and the audit service but for the failing
`Append` in Profiles: they validate, pass one call to a repository that is only an
interface, and format. Addresses of the
user service pass one call on; payment methods, favorites, registrability checks and stock
cleanup return "not implemented". `platform/auth/hmac.go` verifies one request at a time
against a set of nonces, whose store is not modelled; the other middleware of
`platform/auth` keeps nothing. The models of health, prices and secrets stand for one
secret, one cart and one quote key per address. `src/app`, `src/web` and `src/admin` are
skeletons.

## 6. Plan

All modules planned are written, and the theorems planned are proved. What could be added:

1. For Pricing, that no order of the items changes a total of the cart.
2. The hazards without a property, for which the code has nothing to hold on to: a
   repeated ReserveStocks, a refused release of a canceled order, a cancellation under a
   walk of Invalidate, a fresh quote deleted for an expired one, the cached secret of
   `/readyz`, and the tag of the list of guides.
