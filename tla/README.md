# TLA+ development of the PhonePe PG Python SDK

The SDK (`phonepe/sdk/pg`) is a client library for payments. It turns requests
into JSON and JSON into responses, reports every call as an event, and every
client it hands out runs three kinds of background threads, is shared between
application threads, and can be closed while all of them work. These modules
model both halves: the concurrent core (token service, connection pool, event
pipeline, client registry) and the calls made through it (every operation of the
three clients, from the request builder to the decoded response, the exception
and the event). TLC checks them on small instances; TLAPS proves the safety
properties that hold for every instance.

## 1. The system

| Component | State it keeps | Operations | Talks to |
|---|---|---|---|
| Token service (`token_handler/token_service.py`) | `cached_token_data`, `_token_lock`, `_stop_event`, `_wake_event`, the refresher thread | `start`, `get_auth_token`, `force_refresh_token`, the background loop, `close` | OAuth endpoint through its own `BaseHttpCommand`; reports failures to the event publisher |
| Recycling pool (`http_client_modules/recycling_http_adapter.py`) | urllib3's LIFO queue of slots, `_conn_opened_at`, the sweeper thread and its stop event | `_get_conn`, `_evict_idle_connections`, `_sweep_loop`, `close` | urllib3, sockets |
| Event queue and publisher (`events/`) | a bounded `Queue`, an APScheduler job, the event sender's session | `send`, `send_events`, `start_publishing_events`, `close` | asks the token service for a token, and is called by it |
| Client registry (`base_client.py`, the `get_instance` methods) | `_cached_instances`, `_key_locks`, `_instance_lock` | `get_instance`, `__init__` with its cleanup, `close`, eviction | owns one of each of the above per client |
| Request path (`base_client.py`, `base_http_command.py`, `exceptions.py`) | none | `_request_with_token_invalidation`, `handle_response` | token service, pool |
| API operations of the three clients | none | `pay`, `refund`, `setup`, `notify`, `redeem`, ... | request path, event builders, publisher |
| Event builders, request builders, models, mappers, exceptions, configuration | immutable data | construction, conversion | - |

How they interact: an API call asks the token service for a header, sends one
request through the pool and queues one event. A 401 makes it call
`force_refresh_token`. The flush job of the publisher is itself a caller of the
token service, and a failed token fetch is an event in the queue that the flush
empties. `close` stops the publisher, then the sessions, then the token service,
from whatever thread calls it.

What is hard, and therefore modelled (the list with lines and properties is
`hazards` in `PROJECT.json`):

* reads of shared attributes without the lock, and snapshots taken late;
* events set by one thread and cleared by another in the opposite order;
* a lock held across a network call, and a `close` that joins its holder;
* a sweeper that takes the whole pool apart while requests use it;
* check-then-act on the queue size, on the cache and on the scheduler's state;
* a construction that fails half way, a component whose `close` raises;
* several threads closing the same client, or closing while others get it;
* a 401 whose token another thread has replaced, or whose refresh fails;
* a failure after the server has run a request: a lost answer, a response that
  cannot be decoded, an event that cannot be built;
* an event built far from the request it reports, and a host chosen far from where
  the card data is put into the request.

What makes each component correct:

* Token service: fetches exclude each other; a token is not replaced by a thread
  that had not seen it; callers never lose a token they could have used; the
  refresher outlives every error, never oversleeps, and always obeys `close`.
* Pool: slots are conserved; a connection has one owner; nothing stale is handed
  out, nothing idle lives for ever; `close` leaves nothing behind.
* Events: the queue is bounded; events arrive at most once and in order; closing
  ends; the sender outlives the flush.
* Registry: no client is orphaned, leaked or handed out closed; keys do not block
  one another.
* Calls: a request is run at most once; what is reported agrees with what the
  caller sees and can be matched with the request; the exception tells the server's
  answer; a rejected token is replaced; card data goes to the PCI host and nothing
  else does; nothing in a response the SDK does not know turns success into failure.

## 2. The modules

| Module | Models | Checked or proved by |
|---|---|---|
| `TokenService` | the token cache, callers, refresher, closers | `MCTokenService`: `TokenServiceSafety`, `TokenServiceLiveness`, `TokenServiceHerd`, `TokenServiceStranded`; `TokenServiceProofs` |
| `TokenContract` | what the token service promises callers | refined by `TokenService` (`KeepsPromise`; `TokenRefinementProofs`), used by `ApiCalls` |
| `RecyclingPool` | one pool, its sweeper, `close` | `MCRecyclingPool`: `PoolBlocking`, `PoolOverflow`, `PoolCloseDeadlock`; `RecyclingPoolProofs` |
| `EventPipeline` | queue, flush job, closers | `MCEventPipeline`: `EventPipelineOneCloser`, `EventPipelineTwoClosers`; `EventPipelineProofs` |
| `LossyChannel` | what the pipeline promises the backend | refined by `EventPipeline` (`DeliveredAtMostOnceInOrder`; `EventPipelineProofs`) |
| `ClientRegistry` | cache, key locks, construction, `close` | `MCClientRegistry`: `ClientRegistry`; `ClientRegistryProofs` |
| `PaymentRequests` | request objects and their builders | through `ApiCalls`; `CardRoutingProofs`, `CallReportProofs` |
| `CallEvents` | the event builders | through `ApiCalls`; `CallReportProofs` |
| `HttpResponses` | hosts, headers, status codes to exceptions | through `ApiCalls`; `ApiCallsProofs` |
| `ResponseModels` | decoding of responses and callbacks | through `ApiCalls`; `CallReportProofs` (responses) |
| `ApiOperations`, `StandardCheckoutClient`, `CustomCheckoutClient`, `SubscriptionClient` | each operation: its request and its two events | through `ApiCalls`; `CardRoutingProofs`, `CallReportProofs` |
| `ApiCalls` | calls by threads that share a client | `MCApiCalls`: `ApiCalls`, `ApiRejectedToken`; `ApiCallsProofs`, `CardRoutingProofs`, `CallReportProofs` |
| `CallContract` | what a call promises the merchant | refined by `ApiCalls` (`KeepsContract`; `ApiCallsProofs`) |

Two components meet through a contract: `ApiCalls` runs over
`INSTANCE TokenContract`, and `TokenService` implements it, so every interleaving
of the token service that a call can observe is a behaviour of `ApiCalls`.

In every module a definition whose name ends in `_Bug` is the following
definition with a plausible mistake. It is not part of the specification: it
documents which mistake a property notices (`mutants` in `PROJECT.json`).

### TokenService

A variable per attribute (`cached`, `lock`, `stop`, `wake`), a program counter
per thread, and the locals that survive from one step to the next (`prev`,
`issued`, `op`, `used`). One action reads or writes the shared attributes at most
once where another thread could come in between: the validity check is the two
actions `ReadIssued` and `ReadExpires`, `_fetch_and_store_token` is `Snapshot`,
`AcquireToFetch` or `AcquireAndSkip`, then `FetchStore` or `FetchFail`. The
background loop is `BgLoop` ... `BgBackoffOver`, `close` is `CloseStop`,
`CloseWake`, then `Joined` or `JoinTimeout`. A token is an id (one per successful
fetch, standing for object identity), its two times and whether its fields were
present. Time is whole seconds, as in `get_current_time`; the refresher's timed
waits are the countdown `timer`, which goes on when the clock has reached its
bound. `begun` and `lazily` are history variables.

What is left out: the text of events and logs. The failure reports of the token
service go to the queue of `EventPipeline`, where a call cannot block for more
than its one-second timeout.

### RecyclingPool

The queue `pool` holds connections and placeholders; `items` is what a sweep has
drained. `_get_conn` is `GetPooled` (or `Overflow` when the pool does not block),
the sweep is `SweepBegin`, `SweepDrain` per entry, `SweepItem` per entry,
`SweepEnd`, and `close` is `CloseStop`, `CloseJoin`, then urllib3's own draining.
`tracked` is the age recorded in `_conn_opened_at`; `age` and `idle` are history
variables that measure what the code does not. urllib3's part is external and
modelled from what the adapter relies on. The model drops connections that urllib3
finds dead (`dropped`), and lets every request fail at any point (`Break`).

Read with care: `keep_alive_seconds` is documented as idle time but measured as
connection age, so a busy connection is recycled as well; with `pool_block=True`
the comment that a request racing the sweep mints a new connection does not apply
(it waits, and is woken); and a sweep puts the entries back in reverse order.
These change no property here.

### EventPipeline and LossyChannel

`CheckSize` then `Put` or `PutTimeout` is `enqueue_event`; `FlushBegin` ...
`FlushEnd` is one run of `send_events`, whose token request may fail and enqueue
(`FlushAuthFails`, `FlushReported`); `CloseCheck` ... `CloseSender` is the part of
`BaseClient.close` that stops the publisher and closes its session. Events are
numbers in the order of queueing. `LossyChannel` says that the backend receives
consecutive batches, in order, nothing twice, some perhaps never;
`DeliveredAtMostOnceInOrder` is that specification, checked as a property with
the variables of the same names. Events still queued at `close` are lost, which
the channel allows.

### ClientRegistry

Application threads call `get_instance` for a key (`GetInstance`, the unlocked
`Lookup`, `GetKeyLock`, `Acquire`, `RecheckHit` or `Miss`), which may construct a
client step by step (`Build`, or `BuildFails` and the reversed `Cleanup`), publish
it (`Register`) and return it (`Announce`); or they `Close` any client some call
returned (`Evict`, then `Closing` component by component). What a component holds
is abstracted to named resources (`open`); `Faulty` components raise from `close`
without releasing anything. A lock is known by its key and its creator, so that
two lock objects for one key would be two locks. Clients constructed directly,
without `get_instance`, take part in neither cache nor locks and are left out.

The close of the publisher is two steps, since `shutdown(wait=True)` marks the
scheduler stopped before it waits: `StopPublisher` puts the wait (`"flush"`) at the
head of the closing thread's list and `Finish` ends it. A second closer finds the
scheduler stopped and passes over it (`PassOver`), the wait included, so it may close
the sender while the flush still sends; `FlushSends` is that flush opening connections
of the sender, or of the token service it asks for a token, behind the close that
released them. `raced` records the clients on which two calls of `close` overlapped.

All else a component holds is taken out of `open` when it is *told* to stop or let go.
The token service joins its refresher for at most five seconds (`token_service.py:199`),
the adapter its sweeper for two, so `close` may return while such a thread finishes
what it is in the middle of, and a fetch in flight may open a connection of the oauth
session once more. `TokenService` and `RecyclingPool` model those joins; the registry
does not.

### TokenContract

Tokens are numbered as they are stored. A caller that asks is given the token
stored at that moment (`Give`), or refused when there is none or it lacks its
fields (`Refuse`); after a rejection `Refresh` leads to `Refreshed` only once the
stored token is newer than the rejected one, else the caller leaves by an
exception. `TokenService!Promise` is the mapping: the version is `cached.id`, a
caller's phase is a function of its program counter and operation
(`TokenService!Phase`), the token it was given is its local `used`.

### The calls

`PaymentRequests`, `CallEvents`, `HttpResponses` and `ResponseModels` are functions
without state, one definition per builder, mapper or model, under the name it has
in the source. A dataclass is a record; a missing field is `None`; a value nobody
looks into is opaque. Kept are the things control depends on: type tags, presence
of fields, enumerations, ids, status codes, the sizes of user defined fields.
Left out are fields that are copied and can neither fail nor be confused.

The three client modules give an `Operation` record per method: verb, url, data,
response class, headers, whether the PCI command is used, and the event of each
outcome. `ApiCalls` runs any of them as the code does: `Begin` and `Send`
(`_prepare_headers`, the request), `Run` (the server), `Accept`, `Reject` or
`Lose` (the answer), `ForceRefresh`, `Refreshed` or `RefreshFails` (the except
clause for `UnauthorizedAccess`), `Return` or `Raise` (the event, then the
outcome). `NoToken` is an exception of `get_auth_token`; `ValidateCallback` is the
one operation that sends nothing. An event that cannot be built is `None` and
raises `AttributeError` in `Return` (which sends the call into its except clause)
or in `Raise` (which replaces the exception). `runs`, `answer`, `reports` and
`rejected` are history variables.

`CallContract` is the promise: begun, run at most once, returned with a success
report or raised with a failure report or none.

## 3. Runs and bounds

| Run | Question | Bounds, and why they suffice |
|---|---|---|
| `token_safety` | Can two callers, the refresher and a closer corrupt, lose or blindly overwrite the token, or leave the refresher asleep? | lifetimes 2 and 4 with a clock to 3 put tokens before, at and past their half-life; two refreshed versions let one thread hold a snapshot across another's replacement |
| `token_liveness` | Do `close` and the refresh always finish, does the refresher survive everything, and do callers get what `TokenContract` promises? | two closers, one caller that may hold the lock, either refreshed token may be malformed |
| `token_herd`, `token_stranded` | Two statements of the documentation that the code does not keep, see section 6 | smallest instances that show them |
| `pool_blocking` | Slots, ownership, staleness, closing with `pool_block=True`; is every waiter served? | three requests on two slots: one waits; keep-alive 1 and sweep interval 1, the floor of `max(1.0, keep_alive_seconds / 2)` |
| `pool_overflow` | Slots and closing with `pool_block=False` | two requests on one slot, three connections: overflow during a sweep; keep-alive 2 and sweep interval 1, the ratio of the code |
| `pool_close_deadlock` | "Waiting cannot deadlock" | one slot, two requests |
| `events_one_closer` | Queue bound, order, refinement, closing order; does `close` end, does every event leave? | capacity 3 below two producers and the flusher's own event; batches of 2, so a flush has more than one |
| `events_two_closers` | "waits for any in-flight event flush" | two closers |
| `registry` | Orphans, leaks, closed clients handed out; is the flush over before its sender is closed? Does a hanging construction block other keys? | two threads, two keys, three calls: get, close, and get again, or a second `close`, beside it; one key's construction may hang, one component's `close` may raise |
| `api_calls` | Does every operation keep its contract, report itself truly, name the cause of its failure, replace a rejected token, keep card data on the PCI host and survive unknown parts of a response? | 30 operations: every method of the three clients, `pay` and `setup` once per builder, and requests without a payment flow; every class of answer (2xx known, unknown, at the limits and undecodable; 3xx, 400, 401, 402, 404, 500, with and without JSON; no answer); one thread calls all of it, a second only cancels, which is enough to get in the way of a token; two calls, two tokens: a call after a rejected one, and a token stored beside each |
| `api_rejected_token` | "the next call fetches a fresh token" | one thread, two calls |

The parameters of the operations are words that differ from one another, so a field
that is filled from the wrong argument shows.

Bounds are constants named in the modules: `MaxTime`, `MaxVersion`, `MaxDrained`,
`MaxEvents`, `MaxCalls` (of the registry and of the API calls). Reaching one only
disables further inputs (server tokens, requests, events, calls), so deadlock checking
is off: a system whose inputs are used up has stopped legitimately. Symmetry is used for callers,
requests, connections and producers, which no definition distinguishes, and never in
a run that checks liveness.

## 4. Fairness

* Threads that are not blocked run (weak fairness of their steps). Requests end
  because the session has connect and read timeouts.
* Waiting for a lock or a slot: strong fairness for the refresher's lock and for
  the pool's waiters. `threading.Lock` and `queue.Queue` promise no order, only
  that somebody is woken; the properties hold if no thread loses every race. In
  `ClientRegistry` calls are bounded, so weak fairness is enough.
* Nothing is assumed of the users: no caller must begin a request, nobody must
  call `close`, and a call may be abandoned while idle.
* `RecoveringSpec` adds that the server does not fail the refresher's fetches for
  ever. Only `StaleTokenReplaced` and `MalformedTokenReplaced` need it.
* `ClientRegistry!FairSpec` excludes the constructions of `Hanging` keys. A flush that
  a close waits for ends, because its requests have timeouts.
* `ApiCalls` states no fairness: a call ends by the timeouts of the session, which
  are external, and the waiting inside it is the token service's.

## 5. Proofs

The theorems hold for all sets of threads, requests, events and operations and all
bounds that satisfy the named assumptions. Every inductive invariant was first
checked by TLC on the instances of section 3.

`TokenServiceProofs`, from `ThreadsDistinct` and `DurationsOK`:

* `TypeCorrect`: `TypeOK` is inductive as it stands.
* `FetchesExclusive`: `FetchUnderLock` becomes inductive with `NotYetStarted`
  (before `start` is over no worker has left its first stage): without it,
  `StartFetched` could store a token under a worker's feet.
* `OverwritesAreSeen`: every change of `cached` after `start` is a `FetchStore`,
  whose thread is in stage `fetch`; the previous invariant gives the rest.
* `CloseIsHeard`: with "some closer has left its first stage, so the stop event is
  set", each step that clears the wake event goes on to read the stop event.
* `OnlyCloseEnds`: the refresher reaches its end only from a set stop event, which
  only closers set; every exception on its way leads back into the loop.
* `CachedTokenKept`, if `Malformed` is false: `CacheInv` says that every cached
  token but the initial one is well-formed, that `begun` never exceeds the current
  version, and that a caller about to format a token has one. Versions only grow.
* `TornReadsAreSafe`, if the skew between server clock and local clock is one
  constant: `IssueInv` says that the `issued_at` read first is never later than the
  one of the token cached now; `HalfLifeMonotone` then gives that the half-life
  computed from the mixed pair is never later than the true one. With a skew that
  jumps back the theorem does not apply, and the run uses one skew as well.
* `PromptSnapshotsCollapse`: the herd guard works as documented as long as no caller
  enters `force_refresh_token` after its rejected token has been replaced (section 6);
  `HerdInv` keeps the snapshot equal to the token used until the fetch is over.
* `SleepsNotPastHalfLife`: `NapInv` says of the two stages where a wait exists that,
  unless somebody is about to set the wake event, the half-life the wait was computed
  from is that of the token cached now. A store changes that, but `lazily` sets aside
  the one of `get_auth_token`, the one of `force_refresh_token` goes on to `nudge`, and
  after its own the refresher is back in the loop.

`TokenRefinementProofs`: `PromiseKept`, the refinement of `TokenContract`.
`PromiseInv` says which locals a caller has at each program counter; the step
that matters is the return from `force_refresh_token`, where the caller's snapshot
is at least the token it used, and the cache is newer than the snapshot.

`RecyclingPoolProofs`, from `PoolConstants`:

* `ConnectionsHaveOneOwner`: `OwnInv` keeps the queue, the drained entries and the
  holders apart, and each of them free of repetitions.
* `CloseLeavesNothingOpen`: `PhaseInv` (a sweep is over before `close` detaches
  the queue, and a detached queue takes nothing back) and `LiveInv` (an open socket
  is somewhere).
* `SlotsAddUp`, for finitely many requests, since it counts them: `SlotInv`.
* `CheckoutsAreFresh` and `IdleSocketsAreSwept`: `AgeInv` says that a placed
  connection is tracked and its recorded age is the true one up to the cap;
  `IdleInv` trades idle time against the time to the next sweep.
* `PoolTyped`, for finitely many requests: `SizeInv` adds up the queue, what a sweep
  has drained and the requests under way. A request that ends moves one from the last
  to the first, so a sweep holds at most `Size + MaxDrained + Cardinality(Requests)`
  entries; the queue itself keeps to `Size` because urllib3 drops what does not fit.

`EventPipelineProofs`, from `PipelineConstants`:

* `QueueKeepsItsBound`: inductive with the types of the counters; a flush knows at
  its start how many events to take, and nobody else takes any.
* `SenderClosedLast` and `OneCloserWaits`, for one closer: it has stopped the scheduler
  itself, so it waited, and a stopped scheduler begins no flush (`CloseInv`). For two
  closers both are false (section 6).
* `ChannelImplemented`, the refinement of `LossyChannel`: `OrderInv` says that the
  queue holds consecutive events up to the last accepted, that each batch is a run of
  consecutive events, the batches follow one another up to the queue, and what has
  been delivered comes before them. `BatchLeaves` is the step that sends, loses or
  gives up a batch.
* `PipelineTyped`: the types follow from the order and the bound of the queue.

`ClientRegistryProofs`, from `RegistryConstants`:

* `NoClientOrphaned`: locks are never replaced, so threads past `_get_key_lock` for
  one key exclude each other (`KeyInv`); a client is new until its thread, still
  holding the lock, publishes or drops it (`ClientInv`).
* `ClosedNeverHandedOut`: `OpenInv` says that a published client is complete, and one
  from which something was taken has been evicted before and never returns to the
  cache (`RetiredStays`); `AimInv`, that `close` evicts under the key of its client.
* `AllReleased` and `PublisherBeforeSender`: `LeakInv` has four parts, proved
  together. `ReleaseInv`: what a client being taken apart still holds is owed by
  the threads that do so, together; none of them alone owes all of it, since a second
  closer passes over the flush the first one waits for, and that flush may open again
  what the second has closed. In every list the publisher comes before the sender
  (`InOrder`), and in that of a close, where a flush may be in flight, the publisher and
  its flush come before the token service as well (`FlushFirst`), so the thread that
  waits has those sessions still to close.
  `FlushInv`: a flush without a scheduler is waited for by some closer. `RaceInv`: two
  closers at work on one client are in `raced`. The fourth is `PublisherStopsFirst`:
  the scheduler is stopped before the sender is closed by anybody, and with no overlap
  of closers the flush is over by then. With one it need not be (section 6).
  That the cleanup of a construction that failed at a step closes exactly what was
  acquired before the step is `Closables`.
* `RegistryTyped`: `CountInv` bounds the clients by the calls: what exists and what may
  still be constructed together never exceed the calls made.

`ApiCallsProofs`, from `ParametersOK` and `OperationsOK` (the events of an operation
tell the outcome they are for, and one is missing only without a payment flow):

* `CallsTyped`: a call holds, awaits or has been refused a token exactly according
  to its stage.
* `RejectedIsReplaced`: a call in `raised` with the server's 401 has gone through
  `Refreshed`, hence past a version newer than its own.
* `ContractKept`, the refinement of `CallContract`: nothing is reported of a call
  before its last step (`UnreportedInv`), and only a call that was run gets to
  `succeeded`.
* `CausesKept`: `CauseInv` follows the exception from the answer to the report, for
  every response the conversion of `HttpResponses` can meet.
* `RefreshedNotReused`: if no `RefreshFails` step is taken, no later call sends a
  rejected token. `OvertakenInv` says that a call lets the 401 out only when the cache
  has moved past its token, and `End`, which records the rejection, comes after that.
  Everything else may fail, the fetch of a token for the headers included.

`CardRoutingProofs`: `CardsGoToPciHost`, if every operation is one of the three
clients', made with any arguments by any builder or without a payment flow, and
`None` is neither a dict (`NoneIsNoDict`) nor one of the tags that are looked for
(`NoneIsNoTag`). `CardFields`, `CardlessFields` and `FlowlessFields` compare, builder
by builder, the tag the host is chosen by with the fields that carry card data;
`HostInv` carries that to every request in flight. A request object put together by
hand, with an instrument of one kind and the tag of another, is outside the hypothesis.

`CallReportProofs`, if every operation is called with a request made for it
(`FittingOperation`: a payment for `pay`, a set-up for `setup`, a notification for
`notify`, a checkout for the Standard client, each with any arguments; or a
`PgPaymentRequest` without a flow) and `None` is as above:

* `OutcomesAreTold`: what `OperationsOK` asks of an operation's events is true of every
  such operation, so the theorems of `ApiCallsProofs` hold for the three clients;
  `BuildersTell` goes through the event builders.
* `EventsMatchRequests`: `Facts` is what a request says and `Told` what an event tells;
  a lemma per builder and operation compares them, for the success and for the failure
  event. `ReportInv` says that the events of a call are those of its operation, the
  last one with the fields of the exception added, which changes none of the others.
* `SuccessIsReturned`, if moreover `Undecodable`, the mark of a response that makes a
  model raise, is no model (`UndecodableIsNoModel`) and a body is not that mark
  (`BodiesAreBodies`, which the bodies of the run satisfy): `ReadableDecodes` goes
  through the mappers and shows that no tag, known or not, makes them fail, only what
  `Readable` excludes. `AcceptedInv` says that a call with a readable 2xx fails only when
  its success event could not be built, which `SuccessReported` denies for every
  operation but a notify without a payment flow.

Every safety property of a run that passes is now stated by a theorem. Left to TLC:

* the liveness properties `CloseTerminates`, `StaleTokenReplaced`, `WaitersServed`,
  `CloseEnds`, `EventsLeave` and `OthersNotBlocked`, since fairness and `ENABLED` are
  beyond the prover;
* the properties of section 6, which are false; where a theorem gives a condition
  under which one holds, that section says so;
* that the table of operations of the instance is one the theorems speak of: TLC
  evaluates `ParametersOK` and `OperationsOK` on every run.

The modules contain no recursion, so nothing is left out for that reason.

## 6. Where the code and its documentation disagree

* `HerdCollapses` (`token_herd`): `force_refresh_token` takes the snapshot that
  the herd guard compares after the 401, so two callers rejected with the same
  token fetch twice if the second starts after the first has finished. Only that
  defeats the guard: `PromptSnapshotsCollapse`.
* `MalformedTokenReplaced` (`token_stranded`): a 200 response without the token
  fields is cached, and every validity check raises from then on.
* `WaitingEnds` (`pool_close_deadlock`): a request waiting for a slot when the
  pool is closed is never woken.
* `CloseWaitsForFlush` (`events_two_closers`): a second concurrent `close` does
  not wait for the flush, and closes the sender under it. Two closers are needed:
  `OneCloserWaits`. The comment at `base_client.py:192-193`, that the publisher is stopped
  before the sender is closed lest a flush open connections on a closed session, is
  true of closes that do not overlap (`PublisherBeforeSender`), and false of two that
  do; the first closer closes what is opened again when its wait is over (`AllReleased`).
* `RejectedTokenNotReused` (`api_rejected_token`): after a 401 the token is not
  invalidated but replaced at once; if that fetch fails, the next call sends the
  rejected token again. Such a failure is needed: `RefreshedNotReused`.

Two properties of `ApiCalls` name an exception the code makes: the event of a notify
call never carries the subscription id (`EventTracesCall`), and a notify request
without a payment flow raises after the server has accepted it, because its event
cannot be built (`AcceptedCallsReturn`, `CauseKept`).

Seen while reading, without a property of its own. A token stored by
`get_auth_token` sets no wake event, so the refresher can oversleep one half-life of
a shorter-lived token (excluded by `lazily` in `NeverOversleeps`); `task_done` is
called once per flush; the drain loop of a sweep has no bound of its own when
`pool_block=False` (hence `MaxDrained`); a lock in `_key_locks` is never removed.

About calls: `setup` never sends the `x-device-os` header, though the comment on
`device_os` in `pg_payment_request.py` asks for it with UPI collect; a 401 of the
OAuth endpoint while headers are prepared makes the call fetch a second time in its
except clause; a failed `force_refresh_token` hides the `UnauthorizedAccess` it
followed; a 2xx response whose body cannot be decoded, or holds a payment mode or
callback type the SDK does not know, is reported as failed and lost to the caller
though the server has acted (`Readable` in `ApiCalls` draws that line); the limits on
user defined fields run on responses too, and their `$` admits a trailing newline; the
sandbox event host is spelt `locahost`.

## 7. Plan

Done: the concurrent core, the calls on top of it, three refinements, and a theorem
for every safety property of a passing run. Left: a composition of the registry with
pool and pipeline, for requests and flushes after `close`.

## 8. Not modelled

* The initialization event and the two OAuth failure events: they say nothing of a
  call. That the failures are queued is in `EventPipeline`.
* The validation of `HttpClientConfig` and the values in `constants` and `configs`:
  they are `CONSTANTS` here.
* JSON text, percent encoding, logging, hash functions (a callback's header is what is
  hashed), `requests` (its redirects included), urllib3 and APScheduler beyond what the
  SDK relies on.
* A request issued after `close`: it makes the pool manager create another pool, which
  only its owner's next `close` sweeps; the documentation promises nothing about it.
* Clients constructed without `get_instance`: they take part in neither cache nor locks.
