# A verification development for async-hyperliquid

`async-hyperliquid` is an asyncio client for the Hyperliquid exchange: one HTTP
transport, an `InfoClient` for unsigned queries that caches the exchange's market
metadata, an `ExchangeClient` that numbers, signs and posts actions, and
`AsyncHyperliquid`, which composes them into an order workflow. This directory
holds TLA+ models of its stateful core, the TLC configurations that check them,
and theorems about them checked by TLAPS. Paths below are relative to
`src/async_hyperliquid/`.

## Inventory

| Part | State | Operations | What is hard | What makes it correct |
|---|---|---|---|---|
| `_HttpTransport` (`_internal/http.py`) | `_state`, `_session`, `_owns_session` | `open`, `close`, `post_json` | `close()` suspends while the state is still open; it may be cancelled or overlap anything; a borrowed session has another owner | close() is complete, closed is for good, a borrowed session is left alone |
| metadata cache (`info.py` 482-570) | `_metadata`, `_metadata_lock` | lookups through `_metadata_for`, `_ensure_metadata`, `refresh_metadata` | overlapping cold lookups, misses and refreshes; three requests per load that fail or are cancelled one by one; waiters that are cancelled after they were woken | loads exclude each other, snapshots never go back, every answer is current, nobody waits for ever |
| snapshot construction (`_internal/metadata.py`) | none (pure) | `_build_metadata`, `_market_info`, outcome markets | asset-id ranges, aliases, parts read at different times | every asset id means one market; an inconsistent load is rejected as a whole |
| fan-out (`_internal/info.py` 59-66) | none | `wait_for_tasks` | one request fails while its siblings run | no request outlives the call that made it |
| signed actions (`exchange.py`, `_internal/exchange.py`, `_internal/signing.py`) | `_last_nonce` | some 40 methods over `_submit_action`, `_submit_user_action`, `_post_envelope` | one nonce stream for overlapping calls; clock set back; nonces of the caller's; lost and late requests; restarts; the account and the nonce are written in several places of one request; what is signed is never sent, only recomputed | nonces increase, no caller is told something untrue, what is posted verifies and names one account, only answers of the declared type are returned |
| order workflow (`client.py`) | none of its own | place, cancel, modify, TWAP, close positions | data read in several requests is used after further awaits; names may mean other markets after a reload | one submission or none, made of one snapshot; a close never opens a position; a TWAP's direction is its own market's |
| encoding (`_internal/encoding.py`, amounts in `_internal/exchange.py`) | none (pure) | rounding, price bands, amounts in units | two roundings in a row, ties, text that loses digits, the edges of the outcome domain | prices are tradable and within a tick, sizes within half a lot, amounts never more than asked, modifying does not drift |
| Info queries (`info.py` 154-465, 572-653) | none | one POST and a shape check each; `mark_price`, `account_state`, `positions` and mid prices combine several | a mark is found by an index from an older answer | a mark is of the market asked for; parts are complete |
| live benchmark suite (`benchmarks/live`), scripts, docs, tests | run records | measurement | pacing and clean-up | not part of the running system |

How they interact: `AsyncHyperliquid` owns one transport and hands it to both
clients (`client.py` 195-207). A workflow call first asks the metadata cache for its
markets, may fan out price or position requests, encodes, and makes exactly one
signed submission. Everything runs on one event loop: between two `await`s that
really suspend a task is never interrupted, and that is what a step of the models
is.

The hazards the code is exposed to are listed with their lines in `PROJECT.json`
("hazards"), each with the properties that would catch it.

## Modules

| Module | Role |
|---|---|
| `MetadataCache` | the cache, the lock, the loads; properties; inductive invariant |
| `MetadataRegister` | what the cache promises, as a single register |
| `MCMetadataCache` | a small provider for TLC |
| `MetadataCacheProofs` | theorems about `MetadataCache`, and that it implements `MetadataRegister` |
| `ExchangeClient`, `MCExchangeClient`, `ExchangeClientProofs` | the nonce stream and the fate of signed actions |
| `HttpTransport`, `MCHttpTransport`, `HttpTransportProofs` | the session's life cycle |
| `MetadataBuild`, `MCMetadataBuild`, `MetadataBuildProofs` | how one snapshot is built from three responses |
| `OrderWorkflow`, `MCOrderWorkflow`, `OrderWorkflowProofs` | placing orders and closing positions, against an exchange that moves on |
| `Commands`, `MCCommands`, `CommandsProofs` | every other command, and `account_state`, while listings and marks move |
| `ActionEnvelope`, `MCActionEnvelope`, `ActionEnvelopeProofs` | one action: fields, account, signature, envelope, answer |
| `Encoding`, `MCEncoding`, `EncodingProofs` | numbers on their way to the wire |

The modules meet at narrow seams. `OrderWorkflow` and `Commands` take a snapshot from
the cache in one step (`MetadataCache` says how a call gets it and `MetadataRegister`
what it may rely on), hand numbers to `Encoding` and end in one submission, whose
nonce and fate are `ExchangeClient`'s and whose content is `ActionEnvelope`'s.

Definitions named `Mutant of ...` are deliberately wrong forms of the definition
after them. They are used by no specification; substituting one must make a
property fail, which shows that the property depends on that code.

### MetadataCache

One action per stretch of code between two suspension points.

| Code | Model |
|---|---|
| `_metadata_for` with a warm cache that knows every coin (`info.py` 515-518) | `LookupHit`, one step |
| the miss path (519-529) | `LookupMiss`, then `ResumeAndLoad` or `ResumeAndReturn` |
| `_ensure_metadata` (498-507) | `LookupCold` and the same |
| `refresh_metadata` (509-512) | `Refresh` |
| `_load_metadata` (489-496) with `wait_for_tasks` | `StartLoad`, three `Answer`s in any order, `Publish`; or `RequestFails`, `Settle` for each sibling, `Unwound`; or `BuildFails` |
| `except (HyperliquidError, TimeoutError)` (524-527) | `EndFailed`: the miss answers from its own snapshot; `RuntimeError` of a closed transport and `CancelledError` pass |
| `task.cancel()` by anybody | `Cancel`, in any suspended state |
| `asyncio.Lock` (external) | `LockFree`, `WakeFirst`, `Release`, `AbandonWait`: a release leaves the lock free and wakes the first waiter, which takes it only when it runs |

A snapshot is abstracted to the version of the provider's listings at which each
of its three parts was read, and to a publication number, because `is` at line 521
compares objects. The provider only adds listings (`List`). Whether a coin is known
and whether the parts fit (`Buildable`) follow from the versions; a version in
`DexVersions` adds a DEX, so a load that straddles it cannot be built.

Outcome coins, which every snapshot knows, take the path of `LookupHit` on a warm
cache. `_metadata_lock` is created on first use without a suspension, so it is one
lock.

### ExchangeClient

| Code | Model |
|---|---|
| `_next_nonce` (171-173) | `NextNonce`, `Draw` |
| methods that validate first (`approve_builder_fee`, `convert_to_multi_sig_user`, the outcome methods) | `RejectEarly` |
| methods that draw first and format, encode or sign after (505-691) | `RejectLate`: the nonce is used up |
| `_submit_action`, `_submit_user_action`, `_post_envelope` up to the POST | `Submit`, `SignAndPost` |
| `noop(nonce)` (486-497) | `Noop` |
| reply accepted, `status` "ok" or "err" | `Executed`, `Refused` |
| `except (TimeoutError, HttpError, ProtocolError)` | `NoTrustedReply`, possible at any moment after the POST |
| `CancelledError` | `Cancel` |
| `close()` | `CloseTransport` |

External and so modelled by what the client can observe: the wall clock (`Tick`,
forward one millisecond or back to any time), the network and the exchange
(`Deliver`: any request in flight, in any order, at any time, also after its caller
gave up; a request that is never delivered is a lost one; a nonce is good for one
request), and the death of the process (`Restart`).

### HttpTransport

`open()` and the checks of `post_json()` do not suspend and are one step each.
`close()` of an owned session is two: `CloseSession` up to `await session.close()`,
and `FinishClose`. aiohttp may count the session as closed from the start of its
`close()` or only at the end, so both are allowed. `OwnerCloses` is the owner of a
borrowed session closing it.

### MetadataBuild

`_build_metadata` never suspends, so for the cache a build is one step. Here its
loops are the steps, because what they keep from one item to the next decides what
an asset id and a name mean.

| Code (`_internal/metadata.py`) | Model |
|---|---|
| `_dex_offsets` (100-112) | `CheckDexs`, `Offset` |
| the loop over `allPerpMetas` (124-138, 157) | `SkipEmpty`, `EnterMeta`, `LeaveMeta`, `EndPerps` |
| the loop over one DEX's universe (140-155) | `IndexAsset` |
| `_index_spot_tokens` (161-190) | `IndexTokens` |
| the loop over spot pairs (200-230) | `IndexPair`, `NameAliases` for the order of the three alias writes |
| every `ProtocolError` (47-97 and in the loops) | `Reject` |
| `_market_info`, `_outcome_market_info` (254-297) | `MarketInfo`, `OutcomeAsset` |

A dict is a function that `Put` and `SetDefault` extend. A display name is the pair of
its token names; that a pair may have the same name as a display name, and a token
that of a perpetual, is part of the model. No token is called like a display name
(`BuildAssumption`: no "/" in it), which the code relies on and does not check. Nor does it
check that no listed name begins with "#" or "+": `_market_info` takes such a name as an
outcome market before it looks anything up (281-283), so `MarketInfo` and `Resolves` are
about the other names only. `Consistent` and `BuiltAsListed` define the result
a second time, without loops, from the responses as a whole.

### OrderWorkflow

| Code (`client.py`) | Model |
|---|---|
| `place_orders`, `_validate_orders` (76-106, 290-293) | `BeginPlace`, `BeginInVain` |
| `close_positions` up to the request for positions (641-651) | `BeginClose`, `QueriedDexs`; `BeginInVain` for no coins |
| `InfoClient.positions` (`info.py` 634-653) | one `AnswerPositions` per DEX, in any order |
| sizing (653-690) | `SizeOrders`, `NothingToClose` |
| lookup, venue and builder checks (295-301) | `Admitted`, `LookupAndFetch`, `LookupAndPost` |
| `_mid_prices` (`info.py` 593-611) | one `AnswerMids` per DEX |
| `_market_order`, `encode_order`'s spot check, the submission (303-319) | `PriceAndPost`, `Normalized`, `Encodable` |
| whatever raises between the requests | `RaiseLocally` |
| `wait_for_tasks`, cancellation | `RequestFails`, `Settle`, `Unwound`, `Cancel` |
| the end of a submission | `Reply`, `NoTrustedReply` (what these mean is `ExchangeClient`'s subject) |

The lookup waits for the metadata cache, which `MetadataCache` models; here it is part
of the step before the prices. External are matching (`Execute`: the orders of a batch
in their order, each filled or not, also after the caller gave up), everybody else
(`Trade`) and the market (`PriceMoves`). That a reduce-only order changes a position
towards zero and not past it (`Change`) is the exchange's promise, which `ro=True` in
`close_positions` relies on. A price is counted by its moves, so "a price of the
time of the call" is an interval.

### Commands

| Code (`client.py`, `info.py`) | Model |
|---|---|
| checks before anything is asked (`client.py` 355-357 and the like) | `BeginInVain` |
| a warm cache that knows every name | `BeginHit`, then `Proceed` in the same step: nothing suspends |
| a miss or a cold cache | `BeginMiss`, then `Loaded` with whatever is published then, or `WaitFails` |
| `_market_infos`, `_market_info`, `spot_token_metadata` (`info.py` 547-567) | `Resolved`, `Leads` |
| a cancel, modification, leverage, margin, TWAP cancel or transfer | `Submit` |
| `place_twap` with a trigger (`client.py` 483-532), `mark_price` (`info.py` 572-589) | `AskMark`, `MarkAnswered`, `MarkAt` |
| `account_state` (`info.py` 617-632) | `BeginAccount`, one `Answered` per part, `RequestFails`, `Cancel`, `Unwound` |

The world moves while a command waits: `List` adds a listing, which may give a name
to another market, `Publish` replaces the snapshot on behalf of the other tasks, and
`Change` moves a mark or a state. A snapshot is the version of the listings it was
read at. `mark_price` finds a perpetual's context at the index its snapshot gave it, so
`DirectionIsOwn` needs `UniverseAppends`: a DEX only appends to its universe. The
second lookup in `place_twap` happens without a suspension and is part of the step.

### ActionEnvelope

| Code | Model |
|---|---|
| what each method builds (`exchange.py` 175-226, 363-857, `types/exchange.py` 132-281) | `L1Builds`, `UserBuilds`, `Optional`, `L1Action`, `UserAction` |
| `_ROOT_SCOPED_ACTIONS`, `_ACTION_SCOPED_TRANSFERS` (103-112), the choice of a vault (328-330, 349-351) | `L1Scope`, `UserScope` |
| `hash_action`, `sign_exchange_action` (`_internal/signing.py` 193-226) | `L1Content` |
| the message types and `_sign_user_action` (41-185, 229-242) | `SigningSpec`, `WireAction`, `UserContent` |
| `approve_agent`, which drops a field after it signed (667-691) | `ApproveAgent`, `Approved` |
| `_post_envelope` (228-260) | `Post`, `Answer`, `NoReply` |
| `expect_action_response` (`_internal/exchange.py` 52-149) | `Expected`, `Acknowledged`, `ExpectedType` |

An action is a function from field names to values. A hash and a signature are taken
to be injective, so a signature is the content under it. `Recomputed` is the exchange's
side: what it can rebuild from the envelope alone. `DeclaredUser`, `DeclaredReply` and
`Annotated` translate the type declarations, which the code only casts to; the
properties compare them with what the code does.

### Encoding

A number is an integer count of the smallest decimal the model has. The code's base
and digits are parameters, and so the same definitions are checked in base 2 with three
significant digits, where every rounding and every tie occurs among a few hundred
numbers. Python rounds the binary double nearest to a decimal, so which way a tie
goes is open: `Nearest` is a set of one or two results, and the properties hold for
each. `_wire_float` tolerates a loss below 1e-12 (45) and raises for more. Numbers of the
model are finer than the wire's, and `WireFloat` is a set, too: the nearest number
of the wire if the loss is within `Tolerance`, an error if it is the tolerance or more,
either at exactly the tolerance. Orders are rounded before they are written and lose nothing
(`NeverRefusedLate`); amounts of outcomes and rates are not, so `WrittenIsClose` says of
them what the code keeps, and exactness is claimed of no number that is written so.

| Code | Model |
|---|---|
| `_round_price`, `_normalize_price`, `_normalize_size`, `_wire_float` (`_internal/encoding.py` 15-63) | the operators of the same names |
| `encode_order` (66-116) | `EncodeOrder` |
| `_market_price`, `_market_order` (`client.py` 57-65, 124-144) | `MarketPrice`, `MarketOrder` |
| `_encode_modify` with numbers read back (400-412) | `Replace` |
| `place_twap` (483-521) | `PlaceTwap` |
| `format_token_amount`, `amount_in_units`, `exact_signed_units`, `positive_wire_amount` (`_internal/exchange.py` 16-49) | the operators of the same names, in `Send`, `SendUnits`, `UpdateMargin`, `Hip3Transfer`, `OutcomeAmount` |
| `vote_risk_free_rate` (`exchange.py` 826-834) | `VoteRiskFreeRate` |

## What the runs check

| Run | Instance | Shows | Distinct states |
|---|---|---|---|
| `MetadataCache` | 3 tasks, 3 calls, 1 listing, 2 coins | lock discipline, answers, the inductive invariant | 1 394 044 |
| `MetadataCacheHistory` | 2 tasks, 3 calls, 2 listings, 2 coins | freshness and order of publications, refinement of `MetadataRegister` | 2 039 377 |
| `MetadataCacheLive` | 3 tasks, no listing, fairness | every call ends | 171 693 |
| `MetadataCacheMiss` | as its cfg says | finding 1 (a violation) | - |
| `ExchangeClient` | 2 tasks, 3 calls, 1 restart, clock 1..2, limit 5, noops -1, 2, 4, 5 | nonces, outcomes, the inductive invariant | 1 229 148 |
| `HttpTransport` | 3 tasks, 6 calls, owned and borrowed | life cycle | 4 728 |
| `MetadataBuild` | up to 3 DEXes, 3 perp objects of 10 kinds, 3 pairs of 11 kinds, ranges of 2 | ids, names, acceptance, the inductive invariant | 182 870 |
| `OrderWorkflow` | 1 call of 13 kinds, 2 perps on 2 DEXes and a spot market, positions -2..2, 1 trade, 1 price move per coin | batches, closing, fan-outs | 1 385 683 |
| `OrderWorkflowRace` | 2 calls of 3 kinds on the same positions | closes that overlap, the inductive invariant | 479 026 |
| `Commands` | 1 call of 18 kinds, 3 listings, 2 DEXes, an outcome market, 2 changes of a mark or a state | one snapshot, own market, complete parts, the inductive invariant | 267 636 |
| `ActionEnvelope` | every method twice, with and without a vault, both networks, every reply of up to 2 statuses of 7 kinds | signature, account, nonce, answers | 190 580 |
| `Encoding` | prices -1..40 and multiples of 4 up to 1200, 6 markets, 7 sizes, 5 triggers, amounts -5..600, all in parts of 256, base 2 | rounding and amounts | 402 935 |

Why the bounds are enough. The lock's hard cases need a holder, a woken waiter and
one behind it: three tasks. A call that overlaps one that overlaps another, and a
call that starts after a finished one, need three calls. One listing separates old
from new; two listings, of different endpoints, give a snapshot that is new in one
part and old in another. For nonces, three calls contain every pair with a call
between, times 1 and 2 a clock that stands still, advances or is set back, and a
limit of 5 is reached by a noop and by drawing after it. In `MetadataBuild` offsets and
stride are 2, so that three assets or an index of 2 or -1 leave their range and two
do not; three objects give each order of a repeated, an empty and a mixed one. In the
order workflow positions of 2 can be reduced in part, two DEXes make an answer that
comes between two others, and one trade or one other call makes every size stale
that was read before it. A command is
one call because everything other tasks can do to it is an action of its own
(`Publish`, `List`, `Change`); three listings give a name that moves away and back and a
market that is new in each. An envelope depends on nothing but its call and the last
nonce: two calls show that nothing is carried over. In `Encoding` a whole unit
is 256 parts, the last decimal of the wire 8 and the tolerance 2: prices reach past four
units, so that they have up to three digits before the point and more after it than a
market or the wire takes, every slippage reaches both edges of the outcome domain, and
there are amounts below, at and above the tolerance from a number of the wire, zero
among these. Deadlock is not checked:
when the call bound is used up, and in the code when nobody calls, the systems stop.

The task sets are symmetric in the safety runs; no liveness run uses symmetry.

### Properties

`MetadataCache`: `LoadsUnderLock` (loads exclude each other, and a failed one keeps
the lock until its last request has ended), `LockHandedOn` (no lost wake-up),
`ReloadsInTurn` (a call loads at most once and nobody overtakes a call that queued
before it: the most a call ever waits for is one reload of each call ahead of it),
`AnswersAreCurrent`, `PublishedAdvances`, `PublishedIsFresh`, `RefreshIsFresh`,
`EveryCallEnds`, `ImplementsRegister`.

`ExchangeClient`: `NoncesAdvance`, `OnlyReuseIsRefused`, `HonestOutcome`;
`PostedNoncesFit` is a part of `ExchangeInv`.

`HttpTransport`: `CloseIsComplete`, `ClosedForGood`.

`MetadataBuild`: `AssetMeansOneMarket` (under `RangesHold`, the sizes the code assumes
of the provider), `NamesKeepTheirMarkets`, `AliasesAreTruthful`, `BuiltIffConsistent`,
`BuiltAsListed`.

`OrderWorkflow`: `CloseOnlyReduces`, `UndisturbedCloseCloses`, `FaithfulBatch`,
`NothingLeftBehind`.

`Commands`: `OneCurrentSnapshot` (what is submitted is what one snapshot, published
during the call, makes of every name of it), `DirectionIsOwn` (the trigger of a TWAP is
compared with a mark of its own market, of the time of the call); `AccountIsOwn` and
`NothingLeftBehind` follow from `CommandsInv`.

`ActionEnvelope`: `Verifies` (what the exchange recomputes is what was signed, on the
client's network only), `SaysOneThing` (one account, one nonce), `DeclaredAndSigned`
(the three lists of fields agree), `ReturnsAsDeclared` and `AnswerIsTrusted` (the
replies that are admitted lie between those the exchange gives unambiguously and
those the types declare).

`Encoding`: `PriceIsTradable`, `NearestToAsked`, `ReplaceKeeps`, `NeverRefusedLate`,
`AmountsAreHonest` (exact for margin and HIP-3 transfers, truncated to the unit for the
others, within the tolerance for what is written as a decimal).

### Fairness

`MetadataCache`: `WF(Run(t))` for every task. The event loop runs what is ready, and
a request in flight ends because `_validate_timeout` insists on a finite total
timeout (`http.py` 31-37); that the timeout works is assumed, not shown. No fairness is
assumed of listings, new calls or cancellations. Elsewhere a call waits for nothing but its own requests, which the
same timeout ends, so no liveness is stated there.

### Findings

1. `MetadataCacheMiss`: `docs/coin-name-mapping.md` (16-18) says that a lookup that
   misses reloads once before raising, so that later listings resolve. A miss that
   waits behind another miss's reload returns that reload (`info.py` 521-529) without
   a check whether it knows the coin; its parts may have been read before the market
   was listed, although the market was listed before the second lookup began.

Observations that contradict no document: a failed shared reload is repeated by every
waiting miss in turn (`ReloadsInTurn` bounds it); `noop` with the largest nonce leaves
a client that can post nothing more (it fails before sending, `PostedNoncesFit`);
after a cancelled `close()`, or once the owner of a borrowed session closed it, `open()`
succeeds and every request raises; `close_positions` with DEXes that do not contain a
coin's returns `None` as if it had no position; the number of statuses in a reply is
not compared with the number of items sent (`_internal/exchange.py` 131); a TWAP with a
trigger in an outcome market always raises, because `mark_price` looks for an alias
outcome names do not have; rounding a price is not monotone, since whole prices keep
all their digits and others have five (123457 is sent as it is and 123456.5 as 123460,
within the tick `PriceWithinTick` allows); `positive_wire_amount` checks that an amount is
positive before it writes it, so that one below 1e-12 is posted as "0", and drops the noise
of 0.30000000000000004 instead of refusing it; a client that is made anew while the clock
is set back, or behind a stream that ran ahead, draws nonces again that an earlier client
of the same key used, which the exchange refuses (`OnlyReuseIsRefused` excludes these,
`HonestOutcome` covers what the caller is told).

## What is proved

TLAPS proves the following for every set of tasks and coins, every bound, any
listings, clock and nonces, from the assumptions `CacheAssumption`,
`ExchangeAssumption`, `TransportAssumption`, `BuildAssumption`, `WorkflowAssumption`,
`CommandsAssumption`, `EnvelopeAssumption` and `EncodingAssumption` only (types of the
constants, the order of the id ranges, that `None` is none of the other values, in
`BuildAssumption` that no token is called like a display name, which only
`SnapshotIsWhatWasListed` uses, in `CommandsAssumption` that a DEX appends to its
universe and every listed perpetual is in it, and in `EncodingAssumption` that the wire
has the decimals of every market (the code takes `szDecimals` as it comes and does not
compare it), that the tolerance is positive, that an outcome price has a decimal and no more of them
than significant digits, and that prices are below a bound, `MaxDigits`, which is any
power of the base from `Scale + WireDecimals` up).

`MetadataCacheProofs`: `CacheInv` is inductive (`CacheInvariant`), and from it
`TypeCorrect`, `ExclusiveLoads`, `WakeupNeverLost`, `SnapshotAdvances`,
`CurrentAnswers`, `FreshPublications`, `FreshRefreshes`, `InTurn`, and the refinement
`CacheImplementsRegister`. The invariant needs more than the properties: that the
holder is exactly the task that loads (`LockInv`), that at most the head of the queue
is woken and only while the lock is free (`QueueInv`), that a loading miss still
replaces the very snapshot it missed on (`MissInv`, which is why a failed reload
answers currently), and that what a load has read is no older than its call and than
what is published (`FreshInv`, which rests on mutual exclusion: nobody publishes
while somebody else loads). Three lemmas about queues (`RemoveAtQueue`,
`AppendQueue` and what they rest on) say what leaving and joining does.

What `EveryCallEnds` rests on besides fairness is proved, too. `NeverStuck`: while a call is
under way, the task that holds the lock has a step to take, or the first one that waits
for it; with `AnsweredInv`, that a load still waits for exactly the answers it does not
have. `EveryCallAdvances`: a call has a `Distance` of at most six steps to its end, every
step of its own task makes it smaller, and no failure, cancellation or step of another
task makes it greater. A waiter's own turn is `InTurn`'s subject. That the steps are taken is
fairness, and `EveryCallEnds` itself stays with TLC.

`ExchangeClientProofs`: `ExchangeInv` is inductive. `NonceInv` bounds every nonce of
the live client by `lastNonce`, `CallInv` ties each suspended task to one posted call.
`OnlyReuseIsRefused` is preserved by a delivery because of `NoncesAdvance`: two
nonces one client drew differ.

`HttpTransportProofs`: `TransportInv` is inductive; `CompleteClose`, `StaysClosed` and
`BorrowedSession` follow.

`MetadataBuildProofs`: `BuildInv` is inductive, for any responses. `PerpInv` says that a
perpetual's id is the offset of its DEX plus its place, that no place is taken twice
and that the current DEX's places are taken up to the cursor; `SpotInv` says the same
of pair indexes. `AssetsAreDistinct` follows from them with the arithmetic of the
ranges (`RangesHold`): two offsets of different DEXes are at least a stride apart, and
spot ids lie between the base DEX's and the first HIP-3 DEX's. `NamesAreKept`
and `AliasesLeadHome` are parts of `MarketInv`.

Two more invariants relate what the loops have done so far to the responses as a whole.
`CheckedInv`: the places and pairs they are through with (`Listed`, `Paired`) fit
together, and what was rejected does not; when all are listed that is `Consistent`, so
`BuiltFromConsistent`. `ListedInv`: the entries of those places and pairs are what they
say, and a display name that is no market's own leads to the first pair that shows it;
no later entry disturbs an earlier one because ids are distinct
(`AssetMeansOneMarket`). `SnapshotIsWhatWasListed` follows.

`OrderWorkflowProofs`: `WorkflowInv` is inductive. `PriceInv` says that a market order has
its price or its DEX is still to answer, which makes what is posted well formed and
`FaithfulBatch` true (`BatchIsFaithful`); `CloseInv`, that a close holds reduce-only
orders. With `ReduceOnlyReduces` they give `CloseIsSafe`: the proof uses nothing
about the sizes that were read, so staleness cannot matter. `NothingIsLeftBehind`
follows from `PhaseInv`. With `WorkflowInv`, `ClosingInv` is inductive (`ClosingInvariant`):
while nobody else trades, every position a close covers was read as it is, or is zero,
or has a command, and later an order not yet executed, that takes it to zero
(`OrderComing`); and no order is executed twice. It needs that the batch of a close has
an order for each open position (`BatchIsComplete`) and that an earlier order of the
batch leaves the closing one good (`FilledAndClosing`). `UndisturbedCloseIsComplete`
follows.

`CommandsProofs`: `CommandsInv` is inductive. For each call, `WaitInv` says what a waiting
call has found and that the snapshot it found it in was published since it began;
`MarkInv` that the index it waits with still is its market's, now that the universe has
only been appended to; `SentInv` that what was sent is what those make of the request;
`PartsInv` that answers and requests in flight are the parts asked for. From it
`SubmissionsAreCurrent`, `DirectionsAreOwn`, `AccountsAreOwn` and `NothingIsLeft`.

`ActionEnvelopeProofs`: `MadeCorrect` says that a posted envelope and its signature are
those of one of the three ways to submit, for some arguments; the rest is a comparison
of the tables of fields for each way: `VerifiesCorrect`, `OneTargetCorrect`,
`OneNonceCorrect`, `AllSignedCorrect`, `AsDeclaredCorrect`. `ReturnsAsDeclaredCorrect` and
`AnswerIsTrustedCorrect` hold for every set of replies, where the run has those of two
statuses.

`EncodingProofs`: `EncodingInv` is inductive, for any base of at least 2, any digits and
decimals, any markets, prices, sizes, slippages and amounts; with the code's constants
(base 10, 5 digits, 8, 6 and 5 decimals) these are the numbers of the program, of which
the run checks those of base 2. What a power is for every exponent (positive,
increasing, a sum of exponents a product) follows by a least counterexample
(`LeastExists`), since the library's induction theorem cannot be used. A grain is a power of
the base, so the coarser of two is a multiple of the finer one, and what was rounded to
digits and then to decimals is a multiple of both (`RoundedPrice`). The invariant says of
every order on the wire that it is tradable and near the one asked for (`Sent`). A
tradable price has nothing left to round (`TradableKept`), also where rounding carries into
one more digit: that is why a modification does not drift (`ReplacesKeep`) and why the wire
always has the decimals (`NothingRefusedLate`, with `MarketPriceIs` for the domain of
outcome prices). `PricesTradable`, `NearestIsSent` and `AmountsHonest` follow from its parts. The amounts that
are only written are close (`WrittenAmount`), and one that is refused has no number of the
wire nearer than the tolerance, since none is nearer than the nearest (`RefusedAmount`).

Model-checked only: liveness (`EveryCallEnds`), which is outside what the prover
handles. Every other property of the passing runs is a theorem.

## What is not modelled, and the plan

Left out for good: cryptography and byte layouts, JSON shapes field by field, the
error of binary floats beyond the way a tie goes and what `_wire_float` tolerates, NaN
and infinity (refused first),
the thin Info queries and the types of their answers, documentation and release
scripts.

Next, in this order:

1. `Lifecycle`: the transport, the cache and the exchange client composed, with
   `close()` in the middle of a load and of a submission.
2. An abstract close against a position register that `OrderWorkflow` implements.
3. The live benchmark's runner: pacing, and clean-up of orders after failures.

A theorem worth adding with them: that `OrderWorkflow` implements the abstract close.
