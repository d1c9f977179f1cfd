--------------------------- MODULE MetadataCache ---------------------------
(***************************************************************************)
(* The metadata snapshot InfoClient keeps: concurrent lookups and          *)
(* refreshes on one event loop, the asyncio.Lock that serialises their     *)
(* loads, the three requests of a load, failures and cancellation.         *)
(*                                                                         *)
(* A step is what one task runs between two suspension points.  The        *)
(* provider only ever appends listings: version v is its v-th listing, and *)
(* what an endpoint answers is the version at which it was read.           *)
(***************************************************************************)
EXTENDS Integers, SequencesExt

CONSTANTS Tasks,        \* the tasks that share the client
          Coins,        \* names a lookup may ask for
          ListedAt,     \* [Coins -> the version that lists the coin]
          EndpointOf,   \* [Coins -> the endpoint that reports the coin]
          DexVersions,  \* the versions that list a new DEX
          MaxVersion,   \* bound: listings the provider makes
          MaxCalls,     \* bound: calls the tasks make, together
          None          \* Python's None

Endpoints == {"perpDexs", "allPerpMetas", "spotMeta"}
Versions == 0 .. MaxVersion
Unread == -1
NothingRead == [e \in Endpoints |-> Unread]

ASSUME CacheAssumption ==
    /\ MaxVersion \in Nat
    /\ MaxCalls \in Nat
    /\ ListedAt \in [Coins -> Nat]
    /\ EndpointOf \in [Coins -> Endpoints]
    /\ DexVersions \subseteq Nat
    /\ None \notin Tasks \union [epoch : Nat, read : [Endpoints -> Nat]]

VARIABLES version,   \* listings the provider has made
          metadata,  \* InfoClient._metadata
          holder,    \* the task that holds _metadata_lock, or None
          waiters,   \* the lock's queue
          granted,   \* waiters whose future was set by a release
          pc,        \* where each task is suspended
          call,      \* the call each task is in, or was last in
          inflight,  \* the requests of each task's load that have not ended
          read,      \* the version each request of a task's load was answered at
          fate,      \* why a task is unwinding, or that it was cancelled
          outcome,   \* how the last call of each task ended
          calls      \* calls begun so far (bounds the model)

lockVars == <<holder, waiters, granted>>
loadVars == <<inflight, read, fate>>
vars == <<version, metadata, holder, waiters, granted,
          pc, call, inflight, read, fate, outcome, calls>>

-----------------------------------------------------------------------------
(* A snapshot object: which publication it is (Python's `is` compares      *)
(* objects, so two loads with equal contents differ) and the version at    *)
(* which each of its three parts was read.                                 *)
Readings == [Endpoints -> Versions]
Snapshots == [epoch : Nat, read : Readings]

\* _build_metadata rejects a DEX without metadata and metadata of no DEX, so
\* perpDexs and allPerpMetas must agree on the DEXes that are listed.
Buildable(readings) ==
    \A v \in DexVersions : v <= readings["perpDexs"] <=> v <= readings["allPerpMetas"]

IsKnownCoin(snapshot, coin) == ListedAt[coin] <= snapshot.read[EndpointOf[coin]]
AllKnown(snapshot, coins) == \A coin \in coins : IsKnownCoin(snapshot, coin)

-----------------------------------------------------------------------------
(* asyncio.Lock.  A release leaves the lock unlocked and sets the future   *)
(* of the first waiter; that waiter takes it when it runs.  A cancelled    *)
(* waiter stays queued until it runs, and its future counts as done.       *)
Queued == Range(waiters)
FutureCancelled(t) == fate[t] = "cancelled" /\ t \notin granted

\* Mutant of LockFree: whoever finds the lock unlocked takes it, past the queue.
LockFreeBarging == holder = None

LockFree == holder = None /\ \A t \in Queued : FutureCancelled(t)

\* _wake_up_first on the queue `rest`: the futures that are set afterwards.
WakeFirst(rest, set) ==
    IF rest # <<>> /\ ~FutureCancelled(Head(rest)) THEN set \union {Head(rest)} ELSE set

Release ==
    /\ holder' = None
    /\ granted' = WakeFirst(waiters, granted)
    /\ UNCHANGED waiters

-----------------------------------------------------------------------------
\* What the model keeps of a call: the snapshot and the version it began at.
NoCall == [kind |-> "none", coins |-> {}, snapshot |-> None, began |-> 0]

Init ==
    /\ version = 0
    /\ metadata = None
    /\ holder = None
    /\ waiters = <<>>
    /\ granted = {}
    /\ pc = [t \in Tasks |-> "idle"]
    /\ call = [t \in Tasks |-> NoCall]
    /\ inflight = [t \in Tasks |-> {}]
    /\ read = [t \in Tasks |-> NothingRead]
    /\ fate = [t \in Tasks |-> "none"]
    /\ outcome = [t \in Tasks |-> [status |-> "none", answer |-> None]]
    /\ calls = 0

\* The provider lists one more market.
List ==
    /\ version < MaxVersion
    /\ version' = version + 1
    /\ UNCHANGED <<metadata, lockVars, pc, call, loadVars, outcome, calls>>

-----------------------------------------------------------------------------
(* The pieces the steps of a call are made of.                             *)

\* Mutant of End: the answers of a load that failed are kept for the next.
EndKeepsAnswers(t, status, answer) ==
    /\ pc' = [pc EXCEPT ![t] = "idle"]
    /\ fate' = [fate EXCEPT ![t] = "none"]
    /\ inflight' = [inflight EXCEPT ![t] = {}]
    /\ UNCHANGED read
    /\ outcome' = [outcome EXCEPT ![t] = [status |-> status, answer |-> answer]]

\* The call of t is over: it returns a snapshot or raises.
End(t, status, answer) ==
    /\ pc' = [pc EXCEPT ![t] = "idle"]
    /\ fate' = [fate EXCEPT ![t] = "none"]
    /\ inflight' = [inflight EXCEPT ![t] = {}]
    /\ read' = [read EXCEPT ![t] = NothingRead]
    /\ outcome' = [outcome EXCEPT ![t] = [status |-> status, answer |-> answer]]

\* _load_metadata up to its first suspension: the three requests are made.
StartLoad(t) ==
    /\ holder' = t
    /\ pc' = [pc EXCEPT ![t] = "loading"]
    /\ inflight' = [inflight EXCEPT ![t] = Endpoints]

\* Mutant of AcquireOrQueue: every call makes a lock of its own.
AcquireAtOnce(t) ==
    /\ StartLoad(t)
    /\ UNCHANGED <<waiters, granted>>

\* `async with self._get_metadata_lock()` reached in the first step of a call:
\* nothing has run since the call read _metadata, so a free lock means a load.
AcquireOrQueue(t) ==
    \/ /\ LockFree
       /\ StartLoad(t)
       /\ UNCHANGED <<waiters, granted>>
    \/ /\ ~LockFree
       /\ waiters' = Append(waiters, t)
       /\ pc' = [pc EXCEPT ![t] = "waiting"]
       /\ UNCHANGED <<holder, granted, inflight>>

Begin(t, kind, coins) ==
    /\ pc[t] = "idle"
    /\ calls < MaxCalls
    /\ calls' = calls + 1
    /\ call' = [call EXCEPT ![t] =
                  [kind |-> kind, coins |-> coins, snapshot |-> metadata, began |-> version]]
    /\ UNCHANGED <<version, metadata>>

\* _metadata_for on a warm cache that knows every coin: no suspension at all.
LookupHit(t, coins) ==
    /\ metadata # None
    /\ AllKnown(metadata, coins)
    /\ Begin(t, "hit", coins)
    /\ End(t, "answered", metadata)
    /\ UNCHANGED lockVars

\* _metadata_for on a warm cache that misses a coin.
LookupMiss(t, coins) ==
    /\ metadata # None
    /\ ~AllKnown(metadata, coins)
    /\ Begin(t, "miss", coins)
    /\ AcquireOrQueue(t)
    /\ UNCHANGED <<read, fate, outcome>>

\* _metadata_for on a cold cache: _ensure_metadata takes the lock.
LookupCold(t, coins) ==
    /\ metadata = None
    /\ Begin(t, "cold", coins)
    /\ AcquireOrQueue(t)
    /\ UNCHANGED <<read, fate, outcome>>

\* refresh_metadata.
Refresh(t) ==
    /\ Begin(t, "refresh", {})
    /\ AcquireOrQueue(t)
    /\ UNCHANGED <<read, fate, outcome>>

-----------------------------------------------------------------------------
(* The waiter whose future was set runs and holds the lock.                *)

\* Mutant of NeedsLoad: a miss does not look whether another call reloaded.
NeedsLoadAgain(t) ==
    \/ call[t].kind \in {"refresh", "miss"}
    \/ call[t].kind = "cold" /\ metadata = None

\* Mutant of NeedsLoad: a refresh is content with the load it waited for.
NeedsLoadUnlessPublished(t) ==
    \/ call[t].kind = "cold" /\ metadata = None
    \/ call[t].kind \in {"miss", "refresh"} /\ metadata = call[t].snapshot

\* Whether the call still has to load: a cold lookup only while nothing is
\* published, a miss only while the snapshot it missed on is the published one.
NeedsLoad(t) ==
    \/ call[t].kind = "refresh"
    \/ call[t].kind = "cold" /\ metadata = None
    \/ call[t].kind = "miss" /\ metadata = call[t].snapshot

ResumeAndLoad(t) ==
    /\ pc[t] = "waiting"
    /\ t \in granted
    /\ fate[t] = "none"
    /\ NeedsLoad(t)
    /\ \E i \in DOMAIN waiters : waiters[i] = t /\ waiters' = RemoveAt(waiters, i)
    /\ granted' = granted \ {t}
    /\ StartLoad(t)
    /\ UNCHANGED <<version, metadata, call, read, fate, outcome, calls>>

\* Mutant of ResumeAndReturn: the waiter answers from the snapshot it came with.
ResumeAndReturnStale(t) ==
    /\ pc[t] = "waiting"
    /\ t \in granted
    /\ fate[t] = "none"
    /\ ~NeedsLoad(t)
    /\ \E i \in DOMAIN waiters :
          /\ waiters[i] = t
          /\ waiters' = RemoveAt(waiters, i)
          /\ granted' = WakeFirst(RemoveAt(waiters, i), granted \ {t})
    /\ End(t, "answered", call[t].snapshot)
    /\ UNCHANGED <<version, metadata, holder, call, calls>>

\* Another call published meanwhile: the waiter takes the lock, returns what is
\* published and releases it, all in one step.
ResumeAndReturn(t) ==
    /\ pc[t] = "waiting"
    /\ t \in granted
    /\ fate[t] = "none"
    /\ ~NeedsLoad(t)
    /\ \E i \in DOMAIN waiters :
          /\ waiters[i] = t
          /\ waiters' = RemoveAt(waiters, i)
          /\ granted' = WakeFirst(RemoveAt(waiters, i), granted \ {t})
    /\ End(t, "answered", metadata)
    /\ UNCHANGED <<version, metadata, holder, call, calls>>

\* Mutant of AbandonWait: a cancelled waiter keeps the wake-up to itself.
AbandonWaitSilently(t) ==
    /\ pc[t] = "waiting"
    /\ fate[t] = "cancelled"
    /\ \E i \in DOMAIN waiters : waiters[i] = t /\ waiters' = RemoveAt(waiters, i)
    /\ granted' = granted \ {t}
    /\ End(t, "cancelled", None)
    /\ UNCHANGED <<version, metadata, holder, call, calls>>

\* A cancelled waiter runs: it leaves the queue and, if nobody holds the lock,
\* passes the wake-up on.
AbandonWait(t) ==
    /\ pc[t] = "waiting"
    /\ fate[t] = "cancelled"
    /\ \E i \in DOMAIN waiters :
          /\ waiters[i] = t
          /\ waiters' = RemoveAt(waiters, i)
          /\ granted' = IF holder = None THEN WakeFirst(RemoveAt(waiters, i), granted \ {t})
                                         ELSE granted \ {t}
    /\ End(t, "cancelled", None)
    /\ UNCHANGED <<version, metadata, holder, call, calls>>

-----------------------------------------------------------------------------
(* A load.                                                                 *)

\* The provider answers one request with what it lists now.
Answer(t, e) ==
    /\ pc[t] = "loading"
    /\ e \in inflight[t]
    /\ inflight' = [inflight EXCEPT ![t] = @ \ {e}]
    /\ read' = [read EXCEPT ![t][e] = version]
    /\ UNCHANGED <<version, metadata, lockVars, pc, call, fate, outcome, calls>>

\* One request fails.  "error" is a HyperliquidError or TimeoutError, "runtime" the
\* RuntimeError of a transport that is not open.  wait_for_tasks cancels the
\* others and waits for them.
RequestFails(t, e, kind) ==
    /\ pc[t] = "loading"
    /\ e \in inflight[t]
    /\ inflight' = [inflight EXCEPT ![t] = @ \ {e}]
    /\ pc' = [pc EXCEPT ![t] = "unwinding"]
    /\ fate' = [fate EXCEPT ![t] = kind]
    /\ UNCHANGED <<version, metadata, lockVars, call, read, outcome, calls>>

\* A cancelled request of an unwinding load comes to its end.
Settle(t, e) ==
    /\ pc[t] = "unwinding"
    /\ e \in inflight[t]
    /\ inflight' = [inflight EXCEPT ![t] = @ \ {e}]
    /\ UNCHANGED <<version, metadata, lockVars, pc, call, read, fate, outcome, calls>>

Answered(t) == \A e \in Endpoints : read[t][e] # Unread

\* The three parts are there and fit: publish, release, return.
Publish(t) ==
    /\ pc[t] = "loading"
    /\ Answered(t)
    /\ Buildable(read[t])
    /\ metadata' = [epoch |-> IF metadata = None THEN 1 ELSE metadata.epoch + 1,
                    read |-> read[t]]
    /\ Release
    /\ End(t, "answered", metadata')
    /\ UNCHANGED <<version, call, calls>>

\* The end of a call whose load failed for `why`: a miss falls back on the
\* snapshot it had, and only for the errors it catches.
EndFailed(t, why) ==
    IF why = "cancelled" THEN End(t, "cancelled", None)
    ELSE IF call[t].kind = "miss" /\ why = "error" THEN End(t, "answered", call[t].snapshot)
    ELSE End(t, "raised", None)

\* The three parts do not fit: _build_metadata raises ProtocolError.
BuildFails(t) ==
    /\ pc[t] = "loading"
    /\ Answered(t)
    /\ ~Buildable(read[t])
    /\ Release
    /\ EndFailed(t, "error")
    /\ UNCHANGED <<version, metadata, call, calls>>

\* Every request of the failed load has ended: the exception leaves the lock.
Unwound(t) ==
    /\ pc[t] = "unwinding"
    /\ inflight[t] = {}
    /\ Release
    /\ EndFailed(t, fate[t])
    /\ UNCHANGED <<version, metadata, call, calls>>

\* Somebody cancels the task: a waiter finds out when it runs, a load unwinds.
Cancel(t) ==
    /\ pc[t] # "idle"
    /\ fate[t] # "cancelled"
    /\ fate' = [fate EXCEPT ![t] = "cancelled"]
    /\ pc' = [pc EXCEPT ![t] = IF @ = "waiting" THEN "waiting" ELSE "unwinding"]
    /\ UNCHANGED <<version, metadata, lockVars, call, inflight, read, outcome, calls>>

-----------------------------------------------------------------------------
Lookup(t, coins) == LookupHit(t, coins) \/ LookupMiss(t, coins) \/ LookupCold(t, coins)

\* What the event loop and the requests do by themselves once a call has begun.
Run(t) ==
    \/ ResumeAndLoad(t)
    \/ ResumeAndReturn(t)
    \/ AbandonWait(t)
    \/ \E e \in Endpoints :
          \/ Answer(t, e)
          \/ \E kind \in {"error", "runtime"} : RequestFails(t, e, kind)
          \/ Settle(t, e)
    \/ Publish(t)
    \/ BuildFails(t)
    \/ Unwound(t)

Next ==
    \/ List
    \/ \E t \in Tasks :
          \/ \E coins \in SUBSET Coins : coins # {} /\ Lookup(t, coins)
          \/ Refresh(t)
          \/ Run(t)
          \/ Cancel(t)

Spec == Init /\ [][Next]_vars

\* The event loop runs every task that is ready, and the total timeout of the
\* HTTP session ends every request.  Nobody has to list, to call or to cancel.
Fairness == \A t \in Tasks : WF_vars(Run(t))
FairSpec == Spec /\ Fairness

-----------------------------------------------------------------------------
(* Properties.                                                             *)

Calls == [kind : {"none", "hit", "miss", "cold", "refresh"}, coins : SUBSET Coins,
          snapshot : Snapshots \union {None}, began : Versions]
Outcomes == [status : {"none", "answered", "raised", "cancelled"},
             answer : Snapshots \union {None}]

\* The type of the state.
TypeOK ==
    /\ version \in Versions
    /\ metadata \in Snapshots \union {None}
    /\ holder \in Tasks \union {None}
    /\ waiters \in Seq(Tasks)
    /\ granted \in SUBSET Tasks
    /\ pc \in [Tasks -> {"idle", "waiting", "loading", "unwinding"}]
    /\ call \in [Tasks -> Calls]
    /\ inflight \in [Tasks -> SUBSET Endpoints]
    /\ read \in [Tasks -> [Endpoints -> Versions \union {Unread}]]
    /\ fate \in [Tasks -> {"none", "error", "runtime", "cancelled"}]
    /\ outcome \in [Tasks -> Outcomes]
    /\ calls \in 0 .. MaxCalls

\* No request of a load is ever in flight without the lock: loads never overlap,
\* and a load that failed or was cancelled gives the lock up only when the last
\* request it made has ended (wait_for_tasks inside `async with`).
LoadsUnderLock == \A t \in Tasks : inflight[t] # {} => holder = t

\* The wake-up is never lost: while the lock is free, the first waiter has been
\* woken (by a release or by a cancellation), so that the queue moves on.
LockHandedOn ==
    holder = None /\ waiters # <<>> => \/ Head(waiters) \in granted
                                       \/ fate[Head(waiters)] = "cancelled"

\* A published snapshot is only ever replaced, never cleared, and by one in which
\* no part was read earlier: overlapping calls cannot bring old listings back.
PublishedAdvances ==
    [][metadata # None =>
          /\ metadata' # None
          /\ metadata'.epoch = metadata.epoch + 1
          /\ \A e \in Endpoints : metadata'.read[e] >= metadata.read[e]]_metadata

Returns(t) == pc'[t] = "idle" /\ (pc[t] # "idle" \/ call'[t] # call[t])

\* However long a call waited or its reload took, the snapshot it answers from is
\* the one published when it returns, also when the reload of a miss failed.
AnswersAreCurrent ==
    [][\A t \in Tasks : Returns(t) /\ outcome'[t].status = "answered"
                           => outcome'[t].answer = metadata']_vars

\* What a call publishes was read from the provider during that call: after a
\* refresh, or a miss that reloaded, a market listed before the call is known.
PublishedIsFresh ==
    [][\E t \in Tasks :
          /\ Returns(t)
          /\ outcome'[t] = [status |-> "answered", answer |-> metadata']
          /\ \A e \in Endpoints : metadata'.read[e] >= call'[t].began]_metadata

\* A refresh never returns on a load of somebody else: every part of what is
\* published when it returns was read after the refresh was called.
RefreshIsFresh ==
    [][\A t \in Tasks :
          Returns(t) /\ call'[t].kind = "refresh" /\ outcome'[t].status = "answered"
             => \A e \in Endpoints : metadata'.read[e] >= call'[t].began]_vars

\* The queue before t: all of it for a call that is not in it.
Ahead(t) ==
    {waiters[i] : i \in {j \in DOMAIN waiters : \A k \in 1 .. j : waiters[k] # t}}

\* Misses on one stale snapshot reload one after the other as long as their reloads
\* fail.  A call begins a load only when everyone ahead of it has had a turn or gave
\* up, and having loaded it never queues again: it waits for one reload of each call
\* that was ahead of it and for its own, no more.
ReloadsInTurn ==
    [][\A t \in Tasks :
          /\ holder # t /\ holder' = t =>
                pc[t] \in {"idle", "waiting"} /\ \A u \in Ahead(t) : FutureCancelled(u)
          /\ pc[t] \in {"loading", "unwinding"} => pc'[t] # "waiting"]_vars

\* Every call ends, whatever fails and whoever is cancelled.
EveryCallEnds == \A t \in Tasks : pc[t] # "idle" ~> pc[t] = "idle"

\* docs/coin-name-mapping.md: a lookup that misses reloads before it raises, so
\* that markets listed since resolve.  (A miss whose reload failed is not meant:
\* it answers from the snapshot it missed on.)
MissFindsListedCoin ==
    [][\A t \in Tasks, coin \in Coins :
          ( /\ Returns(t)
            /\ call'[t].kind = "miss"
            /\ outcome'[t].status = "answered"
            /\ outcome'[t].answer # call'[t].snapshot
            /\ coin \in call'[t].coins
            /\ ListedAt[coin] <= call'[t].began )
          => IsKnownCoin(outcome'[t].answer, coin)]_vars

\* Seen by its callers the cache is MetadataRegister: locks, waiting, requests,
\* failures and cancellation change nothing a caller can tell from one register.
Register ==
    INSTANCE MetadataRegister WITH
        published <- metadata,
        busy <- {t \in Tasks : pc[t] # "idle"},
        since <- [t \in Tasks |-> call[t].began]
ImplementsRegister == Register!Spec

-----------------------------------------------------------------------------
(* The inductive invariant the proofs use, by parts.                       *)

Loads(t) == pc[t] \in {"loading", "unwinding"}

\* Who holds the lock is loading, and only its requests are in flight.
LockInv ==
    \A t \in Tasks : /\ Loads(t) <=> holder = t
                     /\ ~Loads(t) => inflight[t] = {} /\ read[t] = NothingRead

\* The queue holds the waiting tasks once each, and at most its head was woken,
\* and that only while nobody holds the lock.
QueueInv ==
    /\ \A t \in Tasks : pc[t] = "waiting" <=> t \in Queued
    /\ IsInjective(waiters)
    /\ \A t \in granted : holder = None /\ waiters # <<>> /\ t = Head(waiters)

\* What each suspended call has noted about itself.
CallInv ==
    \A t \in Tasks :
       /\ pc[t] = "idle" => fate[t] = "none"
       /\ pc[t] = "waiting" => fate[t] \in {"none", "cancelled"}
       /\ pc[t] = "loading" => fate[t] = "none"
       /\ pc[t] = "unwinding" => fate[t] # "none"
       /\ call[t].began <= version
       /\ pc[t] # "idle" =>
             /\ call[t].kind \in {"miss", "cold", "refresh"}
             /\ call[t].kind = "miss" => metadata # None

\* A miss that reloads still replaces the snapshot it missed on.
MissInv ==
    \A t \in Tasks : Loads(t) /\ call[t].kind = "miss" => metadata = call[t].snapshot

\* What a load has read is no older than its call and than what is published.
FreshInv ==
    /\ metadata # None => \A e \in Endpoints : metadata.read[e] <= version
    /\ \A t \in Tasks, e \in Endpoints :
          read[t][e] # Unread =>
             /\ read[t][e] \in call[t].began .. version
             /\ metadata # None => metadata.read[e] <= read[t][e]

CacheInv ==
    TypeOK /\ LockInv /\ QueueInv /\ LockHandedOn /\ CallInv /\ MissInv /\ FreshInv

=============================================================================
