------------------------------ MODULE Commands ------------------------------
(***************************************************************************)
(* The other commands of AsyncHyperliquid, each a lookup of its names and  *)
(* one submission: cancels, modifications, leverage, margin, TWAPs and     *)
(* transfers, and account_state(), a fan-out without one.  Listings are    *)
(* added, names are given to other markets, the snapshot is replaced and   *)
(* marks move while a command waits.                                       *)
(*                                                                         *)
(* How a lookup gets its snapshot is MetadataCache's, what the numbers     *)
(* become is Encoding's, what becomes of a submission is ExchangeClient's. *)
(* A value (a mark, a state of an account) is how often it has changed.    *)
(***************************************************************************)
EXTENDS Integers, Sequences, FiniteSets

CONSTANTS Names, Markets, Tokens,
          Perps,           \* the markets of perpetuals; all others are spot
          Outcomes,        \* names of outcome markets, listed or not
          OutcomeMarket,   \* the market of a well-formed outcome name
          Dexs, BaseDex, DexOf,
          Listings,        \* what a snapshot of each version says of names
          Universe,        \* the perpetuals of every DEX at each version, in order
          Requests, Calls,
          MaxValue,        \* bound: changes of a mark or a state
          MaxMoved,        \* bound: marks and states that change
          None

Versions == DOMAIN Listings
Parts == Dexs \cup {"spot"}
Item == [coin : Names \cup Outcomes, id : Nat]
Listing == [names : SUBSET Names, market : UNION {[S -> Markets] : S \in SUBSET Names},
            token : UNION {[S -> Tokens] : S \in SUBSET Names}]
Lookups == {"cancel", "modify", "batchModify", "leverage", "twap", "twapCancel", "send"}
Request == [kind : Lookups \cup {"account"}, items : Seq(Item), valid : BOOLEAN,
            encodes : BOOLEAN, ro : BOOLEAN, trigger : Nat \cup {None}, dexs : SUBSET Dexs]

\* A DEX only appends to its universe: line 590 of info.py relies on it.
UniverseAppends ==
    \A v, w \in Versions, dex \in Dexs :
        v <= w => \A i \in DOMAIN Universe[v][dex] :
                     i \in DOMAIN Universe[w][dex] /\ Universe[w][dex][i] = Universe[v][dex][i]

\* _build_metadata gives every perpetual it lists an index in its DEX.
ListedHasContext ==
    \A v \in Versions : \A name \in DOMAIN Listings[v].market :
        LET market == Listings[v].market[name]
        IN  market \in Perps => \E i \in DOMAIN Universe[v][DexOf[market]] :
                                   Universe[v][DexOf[market]][i] = market

\* Batches apart, a command has one name; only a TWAP has a trigger price.
RequestsFit ==
    \A r \in Requests :
        /\ r.kind \in {"leverage", "modify", "twap", "twapCancel", "send"} => Len(r.items) = 1
        /\ r.trigger # None => r.kind = "twap"

ASSUME CommandsAssumption ==
    /\ Perps \subseteq Markets
    /\ DexOf \in [Perps -> Dexs] /\ BaseDex \in Dexs
    /\ "spot" \notin Dexs
    /\ Listings \in Seq(Listing) /\ Listings # <<>>
    /\ \A v \in Versions : /\ DOMAIN Listings[v].market \subseteq Listings[v].names
                           /\ DOMAIN Listings[v].token \subseteq Listings[v].names
    /\ Universe \in [Versions -> [Dexs -> Seq(Perps)]]
    /\ UniverseAppends /\ ListedHasContext
    /\ OutcomeMarket \in UNION {[S -> Markets \ Perps] : S \in SUBSET Outcomes}
    /\ Requests \subseteq Request /\ RequestsFit
    /\ MaxValue \in Nat /\ MaxMoved \in Nat
    /\ None \notin Nat \cup Markets \cup Tokens \cup Requests

VARIABLES
    version,    \* the provider's listings
    published,  \* the version of InfoClient._metadata, or 0 for None
    value,      \* the mark of every market, the state of every part of the account
    pc, request,
    markets,    \* what the names of each call led to
    mark,       \* the index of the mark it waits for, 0 when it is found by name
    inflight,   \* the parts of the account it waits for
    answers,    \* the parts it was answered
    sent,       \* the submissions it made: none or one
    outcome,
    began       \* history: the version published, and every value, when it began

world == <<version, published, value>>
vars == <<world, pc, request, markets, mark, inflight, answers, sent, outcome, began>>

-----------------------------------------------------------------------------
(* A snapshot.                                                             *)

\* _is_known_coin.
IsKnownCoin(v, name) == name \in Outcomes \cup Listings[v].names

\* _market_info: an outcome name says what its market is, any other is looked up.
MarketInfo(v, name) ==
    IF name \in Outcomes
    THEN IF name \in DOMAIN OutcomeMarket THEN OutcomeMarket[name] ELSE None
    ELSE IF name \in DOMAIN Listings[v].market THEN Listings[v].market[name] ELSE None

\* spot_token_metadata.
SpotToken(v, name) ==
    IF name \in DOMAIN Listings[v].token THEN Listings[v].token[name] ELSE None

Leads(v, kind, name) == IF kind = "send" THEN SpotToken(v, name) ELSE MarketInfo(v, name)

\* Mutant of Resolved: an item is looked up in the snapshot before the one of the rest.
ResolvedEach(v, r) ==
    [i \in DOMAIN r.items |-> Leads(IF i > 1 /\ v > 1 THEN v - 1 ELSE v, r.kind, r.items[i].coin)]

\* _market_infos: every item in one snapshot.
Resolved(v, r) == [i \in DOMAIN r.items |-> Leads(v, r.kind, r.items[i].coin)]

\* Mutant of IndexIn: counted from the end of the universe.
IndexInReverse(v, market) ==
    LET perps == Universe[v][DexOf[market]]
    IN  Len(perps) + 1 - (CHOOSE i \in DOMAIN perps : perps[i] = market)

\* perp_context_by_coin: where a perpetual is in its DEX.
IndexIn(v, market) ==
    LET perps == Universe[v][DexOf[market]] IN CHOOSE i \in DOMAIN perps : perps[i] = market

-----------------------------------------------------------------------------
Init ==
    /\ version = 1 /\ published = 0
    /\ value = [x \in Markets \cup Parts |-> 0]
    /\ pc = [c \in Calls |-> "new"]
    /\ request = [c \in Calls |-> None]
    /\ markets = [c \in Calls |-> <<>>]
    /\ mark = [c \in Calls |-> 0]
    /\ inflight = [c \in Calls |-> {}]
    /\ answers = [c \in Calls |-> [part \in {} |-> 0]]
    /\ sent = [c \in Calls |-> {}]
    /\ outcome = [c \in Calls |-> "none"]
    /\ began = [c \in Calls |-> [published |-> 0, value |-> value]]

List ==
    /\ version + 1 \in Versions
    /\ version' = version + 1
    /\ UNCHANGED <<published, value, pc, request, markets, mark, inflight, answers, sent,
                   outcome, began>>

\* Another task's lookup or refresh_metadata publishes what it read.
Publish ==
    /\ published' \in published + 1 .. version
    /\ UNCHANGED <<version, value, pc, request, markets, mark, inflight, answers, sent,
                   outcome, began>>

Change(x) ==
    /\ value[x] < MaxValue
    /\ Cardinality({y \in DOMAIN value : value[y] > 0} \cup {x}) <= MaxMoved
    /\ value' = [value EXCEPT ![x] = @ + 1]
    /\ UNCHANGED <<version, published, pc, request, markets, mark, inflight, answers, sent,
                   outcome, began>>

-----------------------------------------------------------------------------
End(c, how) ==
    /\ pc' = [pc EXCEPT ![c] = "ended"]
    /\ outcome' = [outcome EXCEPT ![c] = how]

\* The pairs zip() makes of commands and markets.
Items(r, found) == [i \in DOMAIN r.items |-> [asset |-> found[i], id |-> r.items[i].id]]

Submit(c, r, found, above) ==
    /\ sent' = [sent EXCEPT ![c] = @ \cup {[items |-> Items(r, found), above |-> above]}]
    /\ End(c, "submitted")

\* place_twap with a trigger price calls mark_price, which looks the name up again.
\* Neither call suspends between the two lookups: both have snapshot v.
AskMark(c, r, v, market) ==
    LET name == r.items[1].coin
    IN  IF name \in Outcomes \ Listings[v].names  \* no alias leads to it
        THEN End(c, "raised") /\ UNCHANGED <<mark, sent>>
        ELSE /\ mark' = [mark EXCEPT ![c] = IF market \in Perps THEN IndexIn(v, market) ELSE 0]
             /\ pc' = [pc EXCEPT ![c] = "mark"]
             /\ UNCHANGED <<sent, outcome>>

\* From the snapshot to the submission nothing suspends, unless a mark is needed.
Proceed(c, r, v) ==
    LET found == Resolved(v, r)
        fits == /\ \A i \in DOMAIN found : found[i] # None
                /\ r.encodes
                /\ r.kind = "twap" /\ r.ro => found[1] \in Perps
    IN  /\ markets' = [markets EXCEPT ![c] = found]
        /\ IF ~fits THEN End(c, "raised") /\ UNCHANGED <<mark, sent>>
           ELSE IF r.kind = "twap" /\ r.trigger # None THEN AskMark(c, r, v, found[1])
           ELSE Submit(c, r, found, None) /\ UNCHANGED mark

Begin(c, r) ==
    /\ pc[c] = "new"
    /\ request' = [request EXCEPT ![c] = r]
    /\ began' = [began EXCEPT ![c] = [published |-> published, value |-> value]]
    /\ UNCHANGED <<world, answers>>

Hits(r) == published # 0 /\ \A i \in DOMAIN r.items : IsKnownCoin(published, r.items[i].coin)

\* No items, or numbers that are wrong whatever the market: nothing is asked.
BeginInVain(c, r) ==
    /\ r.kind \in Lookups
    /\ r.items = <<>> \/ ~r.valid
    /\ Begin(c, r)
    /\ End(c, "raised")
    /\ UNCHANGED <<markets, mark, inflight, sent>>

\* The snapshot knows every name: it is used at once.
BeginHit(c, r) ==
    /\ r.kind \in Lookups /\ r.items # <<>> /\ r.valid
    /\ Hits(r)
    /\ Begin(c, r)
    /\ Proceed(c, r, published)
    /\ UNCHANGED inflight

\* There is none, or it misses a name: the call waits for a load.
BeginMiss(c, r) ==
    /\ r.kind \in Lookups /\ r.items # <<>> /\ r.valid
    /\ ~Hits(r)
    /\ Begin(c, r)
    /\ pc' = [pc EXCEPT ![c] = "lookup"]
    /\ UNCHANGED <<markets, mark, inflight, sent, outcome>>

\* The load was published, by this call or another, or it failed and an older
\* snapshot is there: what is published now is used.
Loaded(c) ==
    /\ pc[c] = "lookup"
    /\ \E v \in published .. version :
          /\ v # 0
          /\ published' = v
          /\ Proceed(c, request[c], v)
    /\ UNCHANGED <<version, value, request, inflight, answers, began>>

\* _context_price and _context_price_by_coin, in the contexts of now.
MarkAt(market, index) ==
    IF market \notin Perps THEN value[market]
    ELSE LET perps == Universe[version][DexOf[market]]
         IN  IF index \in DOMAIN perps THEN value[perps[index]] ELSE None

\* Mutant of MarkAnswered: the trigger is above a mark it equals.
MarkAnsweredAtLeast(c) ==
    /\ pc[c] = "mark"
    /\ LET r == request[c]
           px == MarkAt(markets[c][1], mark[c])
       IN  IF px = None THEN End(c, "raised") /\ UNCHANGED sent
           ELSE Submit(c, r, markets[c], r.trigger >= px)
    /\ UNCHANGED <<world, request, markets, mark, inflight, answers, began>>

\* place_twap: the trigger is compared with the mark, and the order is sent.
MarkAnswered(c) ==
    /\ pc[c] = "mark"
    /\ LET r == request[c]
           px == MarkAt(markets[c][1], mark[c])
       IN  IF px = None THEN End(c, "raised") /\ UNCHANGED sent
           ELSE Submit(c, r, markets[c], r.trigger > px)
    /\ UNCHANGED <<world, request, markets, mark, inflight, answers, began>>

\* The load of a cold cache fails, the mark is not answered, or the caller gives up.
WaitFails(c) ==
    /\ pc[c] \in {"lookup", "mark"}
    /\ End(c, "raised")
    /\ UNCHANGED <<world, request, markets, mark, inflight, answers, sent, began>>

-----------------------------------------------------------------------------
(* account_state: the base DEX, the spot state and every other DEX once.   *)

BeginAccount(c, r) ==
    /\ r.kind = "account"
    /\ Begin(c, r)
    /\ inflight' = [inflight EXCEPT ![c] = {BaseDex, "spot"} \cup r.dexs]
    /\ pc' = [pc EXCEPT ![c] = "account"]
    /\ UNCHANGED <<markets, mark, sent, outcome>>

Answered(c, part) ==
    LET all == [p \in DOMAIN answers[c] \cup {part} |->
                   IF p = part THEN value[part] ELSE answers[c][p]]
    IN  /\ pc[c] = "account"
        /\ part \in inflight[c]
        /\ inflight' = [inflight EXCEPT ![c] = @ \ {part}]
        /\ answers' = [answers EXCEPT ![c] = all]
        /\ IF inflight[c] = {part} THEN End(c, "answered") ELSE UNCHANGED <<pc, outcome>>
        /\ UNCHANGED <<world, request, markets, mark, sent, began>>

\* wait_for_tasks: the first failure cancels the rest.
RequestFails(c, part) ==
    /\ pc[c] = "account"
    /\ part \in inflight[c]
    /\ inflight' = [inflight EXCEPT ![c] = @ \ {part}]
    /\ IF inflight[c] = {part} THEN End(c, "raised")
       ELSE pc' = [pc EXCEPT ![c] = "unwinding"] /\ UNCHANGED outcome
    /\ UNCHANGED <<world, request, markets, mark, answers, sent, began>>

\* The caller gives up: every request is cancelled.
Cancel(c) ==
    /\ pc[c] = "account"
    /\ pc' = [pc EXCEPT ![c] = "unwinding"]
    /\ UNCHANGED <<world, request, markets, mark, inflight, answers, sent, outcome, began>>

\* A cancelled request ends, and the call after the last of them.
Unwound(c, part) ==
    /\ pc[c] = "unwinding"
    /\ part \in inflight[c]
    /\ inflight' = [inflight EXCEPT ![c] = @ \ {part}]
    /\ IF inflight[c] = {part} THEN End(c, "raised") ELSE UNCHANGED <<pc, outcome>>
    /\ UNCHANGED <<world, request, markets, mark, answers, sent, began>>

Next ==
    \/ List
    \/ Publish
    \/ \E x \in Markets \cup Parts : Change(x)
    \/ \E c \in Calls, r \in Requests :
          BeginInVain(c, r) \/ BeginHit(c, r) \/ BeginMiss(c, r) \/ BeginAccount(c, r)
    \/ \E c \in Calls : Loaded(c) \/ MarkAnswered(c) \/ WaitFails(c) \/ Cancel(c)
    \/ \E c \in Calls, part \in Parts :
          Answered(c, part) \/ RequestFails(c, part) \/ Unwound(c, part)

Spec == Init /\ [][Next]_vars

-----------------------------------------------------------------------------
TypeOK ==
    /\ version \in Versions /\ published \in 0 .. version
    /\ value \in [Markets \cup Parts -> 0 .. MaxValue]
    /\ pc \in [Calls -> {"new", "lookup", "mark", "account", "unwinding", "ended"}]
    /\ request \in [Calls -> Requests \cup {None}]
    /\ inflight \in [Calls -> SUBSET Parts]
    /\ outcome \in [Calls -> {"none", "raised", "submitted", "answered"}]
    /\ DOMAIN markets = Calls /\ DOMAIN mark = Calls /\ DOMAIN answers = Calls
    /\ DOMAIN sent = Calls /\ DOMAIN began = Calls
    /\ \A c \in Calls : /\ began[c].published \in 0 .. published
                        /\ began[c].value \in [Markets \cup Parts -> 0 .. MaxValue]

\* What snapshot v makes of a command.
By(v, r) == [i \in DOMAIN r.items |->
                [asset |-> Leads(v, r.kind, r.items[i].coin), id |-> r.items[i].id]]

\* All items of a command are sent for the markets, or the token, that one snapshot
\* gives them, each with its own number; the snapshot is the one published at that
\* moment, or, when a TWAP had to wait for a mark, one published during the call.
OneCurrentSnapshot ==
    [][\A c \in Calls : \A s \in sent'[c] \ sent[c] :
          \E v \in (IF pc[c] = "mark" THEN began[c].published ELSE published') .. published' :
              /\ v # 0
              /\ s.items = By(v, request'[c])
              /\ \A i \in DOMAIN s.items : s.items[i].asset # None]_vars

\* The activation direction of a TWAP compares its trigger with a mark that the very
\* market it is sent for had during the call, though the index of the mark comes of an
\* older listing than the marks, and the name may lead elsewhere by then.
DirectionIsOwn ==
    \A c \in Calls : \A s \in sent[c] : request[c].trigger # None =>
        LET market == s.items[1].asset
        IN  \E px \in began[c].value[market] .. value[market] :
                s.above <=> request[c].trigger > px

\* account_state returns the base DEX, the spot state and every DEX asked for, each as
\* it was at some time during the call.
AccountIsOwn ==
    \A c \in Calls : outcome[c] = "answered" =>
        /\ DOMAIN answers[c] = {BaseDex, "spot"} \cup request[c].dexs
        /\ \A part \in DOMAIN answers[c] :
              answers[c][part] \in began[c].value[part] .. value[part]

\* A call that ended has no request in flight, and one that raised sent nothing.
NothingLeftBehind ==
    \A c \in Calls : pc[c] = "ended" =>
        inflight[c] = {} /\ (sent[c] # {} <=> outcome[c] = "submitted")

-----------------------------------------------------------------------------
(* The inductive invariant the proofs use, by parts.                       *)

\* What was true when a call began, is not in the future.
BeganInv(c) ==
    /\ began[c].published <= published
    /\ \A x \in Markets \cup Parts : began[c].value[x] <= value[x]

\* A call that waits has sent nothing, and only account_state has parts.
WaitInv(c) ==
    /\ pc[c] # "new" => request[c] \in Requests
    /\ pc[c] # "ended" => sent[c] = {} /\ outcome[c] = "none"
    /\ pc[c] \in {"new", "lookup", "mark"} => inflight[c] = {}
    /\ pc[c] = "new" => DOMAIN answers[c] = {}

\* A TWAP that had a trigger was sent for a market.
SentInv(c) ==
    \A s \in sent[c] : request[c].trigger # None => s.items[1].asset \in Markets

\* The index a TWAP that waits for its mark has noted is its market's in every later
\* universe, and its market is what its name meant in a snapshot of the call.
MarkInv(c) ==
    pc[c] = "mark" =>
        /\ request[c].kind = "twap" /\ request[c].trigger # None
        /\ markets[c][1] \in Markets
        /\ \E v \in began[c].published .. published :
              v # 0 /\ markets[c] = Resolved(v, request[c])
        /\ markets[c][1] \in Perps =>
              LET perps == Universe[version][DexOf[markets[c][1]]]
              IN  mark[c] \in DOMAIN perps /\ perps[mark[c]] = markets[c][1]

\* What account_state waits for and what it was answered are all it asked for.
PartsInv(c) ==
    pc[c] = "account" =>
        /\ inflight[c] \cup DOMAIN answers[c] = {BaseDex, "spot"} \cup request[c].dexs
        /\ inflight[c] \cap DOMAIN answers[c] = {}
        /\ \A part \in DOMAIN answers[c] :
              answers[c][part] \in began[c].value[part] .. value[part]

CommandsInv ==
    /\ TypeOK
    /\ \A c \in Calls : BeganInv(c) /\ WaitInv(c) /\ SentInv(c) /\ MarkInv(c) /\ PartsInv(c)
    /\ DirectionIsOwn /\ AccountIsOwn /\ NothingLeftBehind
=============================================================================
