--------------------------- MODULE CommandsProofs ---------------------------
(***************************************************************************)
(* For all names, markets, listings, requests, calls and bounds:           *)
(* CommandsInv is inductive, so whatever is listed, published and changed  *)
(* while a command waits, what it sends is one snapshot's, a TWAP's        *)
(* direction its own market's, and account_state complete or an error.     *)
(***************************************************************************)
EXTENDS Commands, TLAPS

\* The parts of the inductive invariant that are one call's.
DirectionOf(c) ==
    \A s \in sent[c] : request[c].trigger # None =>
        \E px \in began[c].value[s.items[1].asset] .. value[s.items[1].asset] :
            s.above <=> request[c].trigger > px

AccountOf(c) ==
    outcome[c] = "answered" =>
        /\ DOMAIN answers[c] = {BaseDex, "spot"} \cup request[c].dexs
        /\ \A part \in DOMAIN answers[c] :
              answers[c][part] \in began[c].value[part] .. value[part]

EndedOf(c) ==
    pc[c] = "ended" => inflight[c] = {} /\ (sent[c] # {} <=> outcome[c] = "submitted")

CallInv(c) ==
    /\ BeganInv(c) /\ WaitInv(c) /\ SentInv(c) /\ MarkInv(c) /\ PartsInv(c)
    /\ DirectionOf(c) /\ AccountOf(c) /\ EndedOf(c)

LEMMA InvByCall == CommandsInv <=> TypeOK /\ \A c \in Calls : CallInv(c)
  BY DEF CommandsInv, CallInv, DirectionIsOwn, DirectionOf, AccountIsOwn, AccountOf,
         NothingLeftBehind, EndedOf

LEMMA InvByCallNext == CommandsInv' <=> TypeOK' /\ \A c \in Calls : CallInv(c)'
  BY DEF CommandsInv, CallInv, DirectionIsOwn, DirectionOf, AccountIsOwn, AccountOf,
         NothingLeftBehind, EndedOf

-----------------------------------------------------------------------------
(* The constants.                                                          *)

LEMMA Constants ==
    /\ Perps \subseteq Markets /\ BaseDex \in Dexs
    /\ DexOf \in [Perps -> Dexs]
    /\ MaxValue \in Nat /\ None \notin Markets /\ None \notin Requests
    /\ Versions \subseteq Nat \ {0} /\ 1 \in Versions
    /\ \A v \in Versions : 1 .. v \subseteq Versions
  <1>1. Listings \in Seq(Listing) /\ Listings # <<>> BY CommandsAssumption DEF CommandsAssumption
  <1> HIDE DEF Listing
  <1>2. Len(Listings) \in Nat /\ Versions = 1 .. Len(Listings) BY <1>1 DEF Versions
  <1>3. Len(Listings) # 0 BY <1>1
  <1> QED BY <1>2, <1>3, CommandsAssumption DEF CommandsAssumption

LEMMA RequestShape ==
    ASSUME NEW r \in Requests
    PROVE  /\ r.dexs \subseteq Dexs
           /\ r.trigger # None => r.kind = "twap"
           /\ r.kind = "twap" => DOMAIN r.items = {1}
  <1>1. r \in Request BY CommandsAssumption DEF CommandsAssumption
  <1>2. r.dexs \subseteq Dexs /\ r.items \in Seq(Item) BY <1>1 DEF Request
  <1>3. /\ r.kind = "twap" => Len(r.items) = 1
        /\ r.trigger # None => r.kind = "twap"
    BY CommandsAssumption DEF CommandsAssumption, RequestsFit
  <1> QED BY <1>2, <1>3

\* What a snapshot says of a name is a market of its listing or of an outcome.
LEMMA MarketShape ==
    ASSUME NEW v \in Versions, NEW name, MarketInfo(v, name) # None
    PROVE  /\ MarketInfo(v, name) \in Markets
           /\ MarketInfo(v, name) \in Perps =>
                 /\ name \in DOMAIN Listings[v].market
                 /\ Listings[v].market[name] = MarketInfo(v, name)
  <1>1. CASE name \in Outcomes
    <2>1. name \in DOMAIN OutcomeMarket /\ MarketInfo(v, name) = OutcomeMarket[name]
      BY <1>1 DEF MarketInfo
    <2>2. PICK S \in SUBSET Outcomes : OutcomeMarket \in [S -> Markets \ Perps]
      BY CommandsAssumption DEF CommandsAssumption
    <2>3. OutcomeMarket[name] \in Markets \ Perps BY <2>1, <2>2
    <2> QED BY <2>1, <2>3
  <1>2. CASE name \notin Outcomes
    <2>1. name \in DOMAIN Listings[v].market /\ MarketInfo(v, name) = Listings[v].market[name]
      BY <1>2 DEF MarketInfo
    <2>2. Listings[v] \in Listing BY CommandsAssumption DEF CommandsAssumption, Versions
    <2>3. PICK S \in SUBSET Names : Listings[v].market \in [S -> Markets] BY <2>2 DEF Listing
    <2>4. Listings[v].market[name] \in Markets BY <2>1, <2>3
    <2> QED BY <2>1, <2>4
  <1> QED BY <1>1, <1>2

\* A perpetual a snapshot names is at its index, and stays there.
LEMMA IndexHolds ==
    ASSUME NEW v \in Versions, NEW w \in Versions, v <= w,
           NEW name, MarketInfo(v, name) \in Perps
    PROVE  LET market == MarketInfo(v, name)
               perps == Universe[w][DexOf[market]]
           IN  IndexIn(v, market) \in DOMAIN perps /\ perps[IndexIn(v, market)] = market
  <1> DEFINE market == MarketInfo(v, name)
             dex == DexOf[market]
  <1>1. market # None /\ dex \in Dexs BY Constants
  <1>2. name \in DOMAIN Listings[v].market /\ Listings[v].market[name] = market
    BY <1>1, MarketShape
  <1>3. \E i \in DOMAIN Universe[v][dex] : Universe[v][dex][i] = market
    <2>1. ListedHasContext BY CommandsAssumption DEF CommandsAssumption
    <2> QED BY <1>2, <2>1 DEF ListedHasContext
  <1>4. /\ IndexIn(v, market) \in DOMAIN Universe[v][dex]
        /\ Universe[v][dex][IndexIn(v, market)] = market
    <2> HIDE DEF market
    <2> QED BY <1>3 DEF IndexIn
  <1>5. UniverseAppends BY CommandsAssumption DEF CommandsAssumption
  <1> HIDE DEF market
  <1>6. \A i \in DOMAIN Universe[v][dex] :
           i \in DOMAIN Universe[w][dex] /\ Universe[w][dex][i] = Universe[v][dex][i]
    BY <1>1, <1>5 DEF UniverseAppends
  <1>7. IndexIn(v, market) \in DOMAIN Universe[w][dex] /\ Universe[w][dex][IndexIn(v, market)] = market
    BY <1>4, <1>6
  <1> QED BY <1>7 DEF market

-----------------------------------------------------------------------------
(* Steps.                                                                  *)

Opens(c, r) == BeginInVain(c, r) \/ BeginHit(c, r) \/ BeginMiss(c, r) \/ BeginAccount(c, r)
Proceeds(c) == Loaded(c) \/ MarkAnswered(c) \/ WaitFails(c) \/ Cancel(c)
Gathers(c, part) == Answered(c, part) \/ RequestFails(c, part) \/ Unwound(c, part)

CallStep(c) ==
    \/ \E r \in Requests : Opens(c, r)
    \/ Proceeds(c)
    \/ \E part \in Parts : Gathers(c, part)

LEMMA NextSplits ==
    ASSUME Next
    PROVE  \/ List \/ Publish \/ \E x \in Markets \cup Parts : Change(x)
           \/ \E c \in Calls : CallStep(c)
  BY Zenon DEF Next, CallStep, Opens, Proceeds, Gathers

Same(d) ==
    /\ pc'[d] = pc[d] /\ request'[d] = request[d] /\ markets'[d] = markets[d]
    /\ mark'[d] = mark[d] /\ inflight'[d] = inflight[d] /\ answers'[d] = answers[d]
    /\ sent'[d] = sent[d] /\ outcome'[d] = outcome[d] /\ began'[d] = began[d]

\* Listings, publications and values only grow.
Grows ==
    /\ version \in Versions /\ version' \in Versions /\ version <= version'
    /\ published \in 0 .. version /\ published' \in 0 .. version' /\ published <= published'
    /\ value \in [Markets \cup Parts -> Nat] /\ value' \in [Markets \cup Parts -> Nat]
    /\ \A x \in Markets \cup Parts : value[x] <= value'[x]

\* The fields of TypeOK no action of the world touches.
LocalTypes ==
    /\ pc \in [Calls -> {"new", "lookup", "mark", "account", "unwinding", "ended"}]
    /\ request \in [Calls -> Requests \cup {None}]
    /\ inflight \in [Calls -> SUBSET Parts]
    /\ outcome \in [Calls -> {"none", "raised", "submitted", "answered"}]
    /\ DOMAIN markets = Calls /\ DOMAIN mark = Calls /\ DOMAIN answers = Calls
    /\ DOMAIN sent = Calls /\ DOMAIN began = Calls

WorldTypes ==
    /\ version \in Versions /\ published \in 0 .. version
    /\ value \in [Markets \cup Parts -> 0 .. MaxValue]

BeganTypes ==
    \A c \in Calls : /\ began[c].published \in 0 .. published
                     /\ began[c].value \in [Markets \cup Parts -> 0 .. MaxValue]

LEMMA TypeParts == /\ TypeOK <=> WorldTypes /\ LocalTypes /\ BeganTypes
                   /\ TypeOK' <=> WorldTypes' /\ LocalTypes' /\ BeganTypes'
  BY DEF TypeOK, WorldTypes, LocalTypes, BeganTypes

\* A call that goes on from a snapshot publishes nothing newer than the listings.
LEMMA CallWorld ==
    ASSUME NEW c \in Calls, CallStep(c)
    PROVE  /\ version' = version /\ value' = value
           /\ published' = published \/ (published' \in published .. version /\ published' # 0)
  <1>1. ASSUME NEW r \in Requests, Opens(c, r)
        PROVE  version' = version /\ value' = value /\ published' = published
    BY <1>1 DEF Opens, BeginInVain, BeginHit, BeginMiss, BeginAccount, Begin, world
  <1>2. CASE Loaded(c) BY <1>2 DEF Loaded
  <1>3. CASE MarkAnswered(c) \/ WaitFails(c) \/ Cancel(c)
    BY <1>3 DEF MarkAnswered, WaitFails, Cancel, world
  <1>4. ASSUME NEW part \in Parts, Gathers(c, part)
        PROVE  version' = version /\ value' = value /\ published' = published
    BY <1>4 DEF Gathers, Answered, RequestFails, Unwound, world
  <1> QED BY <1>1, <1>2, <1>3, <1>4 DEF CallStep, Proceeds

LEMMA WorldGrows ==
    ASSUME WorldTypes, [Next]_vars
    PROVE  WorldTypes' /\ Grows
  <1>0. /\ MaxValue \in Nat /\ version \in Nat /\ published \in Nat /\ Versions \subseteq Nat
        /\ \A x \in Markets \cup Parts : value[x] \in 0 .. MaxValue
    BY Constants DEF WorldTypes
  <1>1. CASE List
    <2>1. version' = version + 1 /\ version' \in Versions /\ value' = value /\ published' = published
      BY <1>1 DEF List
    <2> QED BY <1>0, <2>1 DEF WorldTypes, Grows
  <1>2. CASE Publish
    <2>1. published' \in published + 1 .. version /\ version' = version /\ value' = value
      BY <1>2 DEF Publish
    <2> QED BY <1>0, <2>1 DEF WorldTypes, Grows
  <1>3. ASSUME NEW x \in Markets \cup Parts, Change(x) PROVE WorldTypes' /\ Grows
    <2>1. /\ value[x] < MaxValue /\ value' = [value EXCEPT ![x] = @ + 1]
          /\ version' = version /\ published' = published
      BY <1>3 DEF Change
    <2> QED BY <1>0, <2>1 DEF WorldTypes, Grows
  <1>4. ASSUME NEW c \in Calls, CallStep(c) PROVE WorldTypes' /\ Grows
    BY <1>0, <1>4, CallWorld DEF WorldTypes, Grows
  <1>5. CASE UNCHANGED vars
    BY <1>0, <1>5 DEF WorldTypes, Grows, vars, world
  <1> QED BY <1>1, <1>2, <1>3, <1>4, <1>5, NextSplits

\* What a call does from its snapshot to its submission, to itself only.
LEMMA ProceedLocal ==
    ASSUME LocalTypes, NEW c \in Calls, NEW r, NEW v, Proceed(c, r, v)
    PROVE  /\ pc' \in [Calls -> {"new", "lookup", "mark", "account", "unwinding", "ended"}]
           /\ outcome' \in [Calls -> {"none", "raised", "submitted", "answered"}]
           /\ DOMAIN markets' = Calls /\ DOMAIN mark' = Calls /\ DOMAIN sent' = Calls
           /\ \A d \in Calls \ {c} :
                 /\ pc'[d] = pc[d] /\ outcome'[d] = outcome[d] /\ markets'[d] = markets[d]
                 /\ mark'[d] = mark[d] /\ sent'[d] = sent[d]
  <1>1. DOMAIN markets' = Calls /\ \A d \in Calls \ {c} : markets'[d] = markets[d]
    <2>1. markets' = [markets EXCEPT ![c] = Resolved(v, r)] BY DEF Proceed
    <2> QED BY <2>1 DEF LocalTypes
  <1>2. \/ End(c, "raised") /\ UNCHANGED <<mark, sent>>
        \/ AskMark(c, r, v, Resolved(v, r)[1])
        \/ Submit(c, r, Resolved(v, r), None) /\ UNCHANGED mark
    BY DEF Proceed
  <1>3. CASE End(c, "raised") /\ UNCHANGED <<mark, sent>>
    BY <1>1, <1>3 DEF End, LocalTypes
  <1>4. CASE AskMark(c, r, v, Resolved(v, r)[1])
    <2>1. CASE End(c, "raised") /\ UNCHANGED <<mark, sent>>
      BY <1>3, <2>1
    <2>2. CASE /\ \E i : mark' = [mark EXCEPT ![c] = i]
               /\ pc' = [pc EXCEPT ![c] = "mark"]
               /\ UNCHANGED <<sent, outcome>>
      BY <1>1, <2>2 DEF LocalTypes
    <2> QED BY <1>4, <2>1, <2>2 DEF AskMark
  <1>5. CASE Submit(c, r, Resolved(v, r), None) /\ UNCHANGED mark
    <2>1. PICK s : sent' = [sent EXCEPT ![c] = @ \cup {s}] BY <1>5 DEF Submit
    <2>2. End(c, "submitted") /\ UNCHANGED mark BY <1>5 DEF Submit
    <2> QED BY <1>1, <2>1, <2>2 DEF End, LocalTypes
  <1> QED BY <1>2, <1>3, <1>4, <1>5


\* A call's step changes nothing of another call's.
Alone(c) == \A d \in Calls \ {c} : Same(d)

LEMMA BeginLocal ==
    ASSUME LocalTypes, NEW c \in Calls, NEW r \in Requests, Begin(c, r)
    PROVE  /\ request' \in [Calls -> Requests \cup {None}] /\ DOMAIN began' = Calls
           /\ answers' = answers
           /\ request'[c] = r
           /\ began'[c] = [published |-> published, value |-> value]
           /\ \A d \in Calls \ {c} : request'[d] = request[d] /\ began'[d] = began[d]
  BY DEF Begin, LocalTypes

LEMMA OpensLocal ==
    ASSUME LocalTypes, NEW c \in Calls, NEW r \in Requests, Opens(c, r)
    PROVE  LocalTypes' /\ Alone(c)
  <1>0. Begin(c, r) BY DEF Opens, BeginInVain, BeginHit, BeginMiss, BeginAccount
  <1>1. /\ request' \in [Calls -> Requests \cup {None}] /\ DOMAIN began' = Calls
        /\ answers' = answers
        /\ \A d \in Calls \ {c} : request'[d] = request[d] /\ began'[d] = began[d]
    BY <1>0, BeginLocal
  <1>2. CASE BeginInVain(c, r)
    <2>1. End(c, "raised") /\ UNCHANGED <<markets, mark, inflight, sent>>
      BY <1>2 DEF BeginInVain
    <2> QED BY <1>1, <2>1 DEF End, LocalTypes, Alone, Same
  <1>3. CASE BeginHit(c, r)
    <2>1. Proceed(c, r, published) /\ inflight' = inflight BY <1>3 DEF BeginHit
    <2> QED BY <1>1, <2>1, ProceedLocal DEF LocalTypes, Alone, Same
  <1>4. CASE BeginMiss(c, r)
    <2>1. /\ pc' = [pc EXCEPT ![c] = "lookup"]
          /\ UNCHANGED <<markets, mark, inflight, sent, outcome>>
      BY <1>4 DEF BeginMiss
    <2> QED BY <1>1, <2>1 DEF LocalTypes, Alone, Same
  <1>5. CASE BeginAccount(c, r)
    <2>1. /\ pc' = [pc EXCEPT ![c] = "account"]
          /\ inflight' = [inflight EXCEPT ![c] = {BaseDex, "spot"} \cup r.dexs]
          /\ UNCHANGED <<markets, mark, sent, outcome>>
      BY <1>5 DEF BeginAccount
    <2>2. {BaseDex, "spot"} \cup r.dexs \subseteq Parts
      BY Constants, RequestShape DEF Parts
    <2> QED BY <1>1, <2>1, <2>2 DEF LocalTypes, Alone, Same
  <1> QED BY <1>2, <1>3, <1>4, <1>5 DEF Opens

LEMMA ProceedsLocal ==
    ASSUME LocalTypes, NEW c \in Calls, Proceeds(c)
    PROVE  LocalTypes' /\ Alone(c)
  <1>1. CASE Loaded(c)
    <2>1. /\ \E v : Proceed(c, request[c], v)
          /\ UNCHANGED <<request, inflight, answers, began>>
      BY <1>1 DEF Loaded
    <2> QED BY <2>1, ProceedLocal DEF LocalTypes, Alone, Same
  <1>2. CASE MarkAnswered(c)
    <2>1. /\ \/ End(c, "raised") /\ UNCHANGED sent
             \/ End(c, "submitted") /\ \E s : sent' = [sent EXCEPT ![c] = @ \cup {s}]
          /\ UNCHANGED <<request, markets, mark, inflight, answers, began>>
      BY <1>2 DEF MarkAnswered, Submit
    <2> QED BY <2>1 DEF End, LocalTypes, Alone, Same
  <1>3. CASE WaitFails(c)
    BY <1>3 DEF WaitFails, End, LocalTypes, Alone, Same
  <1>4. CASE Cancel(c)
    BY <1>4 DEF Cancel, LocalTypes, Alone, Same
  <1> QED BY <1>1, <1>2, <1>3, <1>4 DEF Proceeds

LEMMA GathersLocal ==
    ASSUME LocalTypes, NEW c \in Calls, NEW part \in Parts, Gathers(c, part)
    PROVE  LocalTypes' /\ Alone(c)
  <1>1. /\ inflight' = [inflight EXCEPT ![c] = @ \ {part}]
        /\ UNCHANGED <<request, markets, mark, sent, began>>
    BY DEF Gathers, Answered, RequestFails, Unwound
  <1>2. answers' = answers \/ \E f : answers' = [answers EXCEPT ![c] = f]
    BY DEF Gathers, Answered, RequestFails, Unwound
  <1>3. \/ \E how \in {"answered", "raised"} : End(c, how)
        \/ UNCHANGED <<pc, outcome>>
        \/ pc' = [pc EXCEPT ![c] = "unwinding"] /\ UNCHANGED outcome
    BY DEF Gathers, Answered, RequestFails, Unwound
  <1>4. /\ inflight' \in [Calls -> SUBSET Parts] /\ DOMAIN answers' = Calls
        /\ \A d \in Calls \ {c} : inflight'[d] = inflight[d] /\ answers'[d] = answers[d]
    BY <1>1, <1>2 DEF LocalTypes
  <1>5. /\ pc' \in [Calls -> {"new", "lookup", "mark", "account", "unwinding", "ended"}]
        /\ outcome' \in [Calls -> {"none", "raised", "submitted", "answered"}]
        /\ \A d \in Calls \ {c} : pc'[d] = pc[d] /\ outcome'[d] = outcome[d]
    BY <1>3 DEF End, LocalTypes
  <1> QED BY <1>1, <1>4, <1>5 DEF LocalTypes, Alone, Same

LEMMA StepLocal ==
    ASSUME LocalTypes, NEW c \in Calls, CallStep(c)
    PROVE  LocalTypes' /\ Alone(c)
  BY OpensLocal, ProceedsLocal, GathersLocal DEF CallStep

\* When the world moves, no call does.
LEMMA WorldLocal ==
    ASSUME LocalTypes,
           List \/ Publish \/ (\E x \in Markets \cup Parts : Change(x)) \/ UNCHANGED vars
    PROVE  LocalTypes' /\ \A d \in Calls : Same(d)
  <1>1. UNCHANGED <<pc, request, markets, mark, inflight, answers, sent, outcome, began>>
    BY DEF List, Publish, Change, vars
  <1> QED BY <1>1 DEF LocalTypes, Same

\* A call that is not this step's keeps its invariant while the world grows.
LEMMA Quiet ==
    ASSUME Grows, BeganTypes, NEW d \in Calls, CallInv(d), Same(d)
    PROVE  CallInv(d)'
  <1>0. /\ began[d].published \in Nat /\ published \in Nat /\ published' \in Nat
        /\ \A x \in Markets \cup Parts : /\ began[d].value[x] \in Nat
                                         /\ value[x] \in Nat /\ value'[x] \in Nat
                                         /\ value[x] <= value'[x]
    BY Constants DEF Grows, BeganTypes
  <1>1. BeganInv(d)' BY <1>0 DEF Grows, Same, CallInv, BeganInv
  <1>2. WaitInv(d)' BY DEF Same, CallInv, WaitInv
  <1>3. SentInv(d)' BY DEF Same, CallInv, SentInv
  <1>4. MarkInv(d)'
    <2>1. SUFFICES ASSUME pc[d] = "mark" PROVE MarkInv(d)' BY DEF Same, MarkInv
    <2> DEFINE market == markets[d][1]
    <2>2. /\ request[d].kind = "twap" /\ request[d].trigger # None
          /\ market \in Markets
      BY <2>1 DEF CallInv, MarkInv
    <2>3. \E v \in began[d].published .. published' :
             v # 0 /\ markets[d] = Resolved(v, request[d])
      <3>1. PICK v \in began[d].published .. published :
               v # 0 /\ markets[d] = Resolved(v, request[d])
        BY <2>1 DEF CallInv, MarkInv
      <3>2. v \in began[d].published .. published' BY <1>0, <3>1 DEF Grows
      <3> QED BY <3>1, <3>2
    <2>4. ASSUME market \in Perps
          PROVE  /\ mark[d] \in DOMAIN Universe[version'][DexOf[market]]
                 /\ Universe[version'][DexOf[market]][mark[d]] = market
      <3>1. /\ mark[d] \in DOMAIN Universe[version][DexOf[market]]
            /\ Universe[version][DexOf[market]][mark[d]] = market
        BY <2>1, <2>4 DEF CallInv, MarkInv
      <3>2. UniverseAppends BY CommandsAssumption DEF CommandsAssumption
      <3>3. DexOf[market] \in Dexs BY <2>4, Constants
      <3> HIDE DEF market
      <3> QED BY <3>1, <3>2, <3>3 DEF UniverseAppends, Grows
    <2> QED BY <2>2, <2>3, <2>4 DEF Same, MarkInv
  <1>5. PartsInv(d)'
    <2>1. SUFFICES ASSUME pc[d] = "account" PROVE PartsInv(d)' BY DEF Same, PartsInv
    <2>2. request[d] \in Requests BY <2>1 DEF CallInv, WaitInv
    <2>3. {BaseDex, "spot"} \cup request[d].dexs \subseteq Parts
      BY <2>2, Constants, RequestShape DEF Parts
    <2>4. DOMAIN answers[d] \subseteq Parts BY <2>1, <2>3 DEF CallInv, PartsInv
    <2>5. \A part \in DOMAIN answers[d] :
             answers[d][part] \in began[d].value[part] .. value'[part]
      BY <1>0, <2>1, <2>4 DEF CallInv, PartsInv
    <2> QED BY <2>1, <2>5 DEF Same, CallInv, PartsInv
  <1>6. DirectionOf(d)'
    <2>1. SUFFICES ASSUME NEW s \in sent[d], request[d].trigger # None
                   PROVE  \E px \in began[d].value[s.items[1].asset] .. value'[s.items[1].asset] :
                             s.above <=> request[d].trigger > px
      BY DEF Same, DirectionOf
    <2> DEFINE market == s.items[1].asset
    <2>2. market \in Markets BY <2>1 DEF CallInv, SentInv
    <2>3. PICK px \in began[d].value[market] .. value[market] :
             s.above <=> request[d].trigger > px
      BY <2>1 DEF CallInv, DirectionOf
    <2>4. px \in began[d].value[market] .. value'[market] BY <1>0, <2>2, <2>3
    <2> QED BY <2>3, <2>4
  <1>7. AccountOf(d)'
    <2>1. SUFFICES ASSUME outcome[d] = "answered" PROVE AccountOf(d)' BY DEF Same, AccountOf
    <2>2. request[d] \in Requests BY <2>1 DEF CallInv, WaitInv
    <2>3. {BaseDex, "spot"} \cup request[d].dexs \subseteq Parts
      BY <2>2, Constants, RequestShape DEF Parts
    <2>4. DOMAIN answers[d] \subseteq Parts BY <2>1, <2>3 DEF CallInv, AccountOf
    <2>5. \A part \in DOMAIN answers[d] :
             answers[d][part] \in began[d].value[part] .. value'[part]
      BY <1>0, <2>1, <2>4 DEF CallInv, AccountOf
    <2> QED BY <2>1, <2>5 DEF Same, CallInv, AccountOf
  <1>8. EndedOf(d)' BY DEF Same, CallInv, EndedOf
  <1> QED BY <1>1, <1>2, <1>3, <1>4, <1>5, <1>6, <1>7, <1>8 DEF CallInv

-----------------------------------------------------------------------------
(* The call that takes the step.                                           *)

\* What a call submits for the snapshot it has: its items' markets, or nothing.
LEMMA ProceedSends ==
    ASSUME LocalTypes, NEW c \in Calls, NEW r \in Requests, NEW v \in Versions,
           sent[c] = {}, outcome[c] = "none", Proceed(c, r, v)
    PROVE  /\ markets'[c] = Resolved(v, r)
           /\ \/ sent'[c] = {} /\ pc'[c] = "ended" /\ outcome'[c] = "raised"
              \/ /\ sent'[c] = {[items |-> Items(r, Resolved(v, r)), above |-> None]}
                 /\ pc'[c] = "ended" /\ outcome'[c] = "submitted"
                 /\ r.trigger = None
                 /\ \A i \in DOMAIN r.items : Resolved(v, r)[i] # None
              \/ /\ sent'[c] = {} /\ pc'[c] = "mark" /\ outcome'[c] = "none"
                 /\ r.kind = "twap" /\ r.trigger # None
                 /\ Resolved(v, r)[1] # None
                 /\ Resolved(v, r)[1] \in Perps => mark'[c] = IndexIn(v, Resolved(v, r)[1])
  <1>1. markets' = [markets EXCEPT ![c] = Resolved(v, r)] BY DEF Proceed
  <1>2. DOMAIN Resolved(v, r) = DOMAIN r.items BY DEF Resolved
  <1>3. \/ End(c, "raised") /\ UNCHANGED <<mark, sent>>
        \/ /\ r.kind = "twap" /\ r.trigger # None
           /\ \A i \in DOMAIN r.items : Resolved(v, r)[i] # None
           /\ AskMark(c, r, v, Resolved(v, r)[1])
        \/ /\ ~(r.kind = "twap" /\ r.trigger # None)
           /\ \A i \in DOMAIN r.items : Resolved(v, r)[i] # None
           /\ Submit(c, r, Resolved(v, r), None)
    BY <1>2 DEF Proceed
  <1>4. CASE End(c, "raised") /\ UNCHANGED <<mark, sent>>
    BY <1>1, <1>4 DEF End, LocalTypes
  <1>5. CASE /\ r.kind = "twap" /\ r.trigger # None
             /\ \A i \in DOMAIN r.items : Resolved(v, r)[i] # None
             /\ AskMark(c, r, v, Resolved(v, r)[1])
    <2>1. Resolved(v, r)[1] # None BY <1>5, RequestShape
    <2>2. \/ End(c, "raised") /\ UNCHANGED <<mark, sent>>
          \/ /\ mark' = [mark EXCEPT ![c] = IF Resolved(v, r)[1] \in Perps
                                            THEN IndexIn(v, Resolved(v, r)[1]) ELSE 0]
             /\ pc' = [pc EXCEPT ![c] = "mark"]
             /\ UNCHANGED <<sent, outcome>>
      BY <1>5 DEF AskMark
    <2>3. CASE End(c, "raised") /\ UNCHANGED <<mark, sent>>
      BY <1>4, <2>3
    <2>4. CASE /\ mark' = [mark EXCEPT ![c] = IF Resolved(v, r)[1] \in Perps
                                              THEN IndexIn(v, Resolved(v, r)[1]) ELSE 0]
               /\ pc' = [pc EXCEPT ![c] = "mark"]
               /\ UNCHANGED <<sent, outcome>>
      <3>1. mark'[c] = (IF Resolved(v, r)[1] \in Perps THEN IndexIn(v, Resolved(v, r)[1]) ELSE 0)
        BY <2>4 DEF LocalTypes
      <3>2. /\ sent'[c] = {} /\ pc'[c] = "mark" /\ outcome'[c] = "none"
            /\ markets'[c] = Resolved(v, r)
        BY <1>1, <2>4 DEF LocalTypes
      <3>3. Resolved(v, r)[1] \in Perps => mark'[c] = IndexIn(v, Resolved(v, r)[1])
        BY <3>1
      <3> QED BY <1>5, <2>1, <3>2, <3>3
    <2> QED BY <2>2, <2>3, <2>4
  <1>6. CASE /\ ~(r.kind = "twap" /\ r.trigger # None)
             /\ \A i \in DOMAIN r.items : Resolved(v, r)[i] # None
             /\ Submit(c, r, Resolved(v, r), None)
    <2>1. r.trigger = None BY <1>6, RequestShape
    <2>2. /\ sent' = [sent EXCEPT ![c] = @ \cup {[items |-> Items(r, Resolved(v, r)), above |-> None]}]
          /\ End(c, "submitted")
      BY <1>6 DEF Submit
    <2>3. sent'[c] = {[items |-> Items(r, Resolved(v, r)), above |-> None]}
      BY <2>2 DEF LocalTypes
    <2>4. pc'[c] = "ended" /\ outcome'[c] = "submitted" BY <2>2 DEF End, LocalTypes
    <2>5. markets'[c] = Resolved(v, r) BY <1>1 DEF LocalTypes
    <2>6. \A i \in DOMAIN r.items : Resolved(v, r)[i] # None BY <1>6
    <2> QED BY <2>1, <2>3, <2>4, <2>5, <2>6, Zenon
  <1> QED BY <1>3, <1>4, <1>5, <1>6

LEMMA ProceedKeeps ==
    ASSUME LocalTypes, LocalTypes', Grows, version' = version,
           NEW c \in Calls, NEW r \in Requests, NEW v \in 1 .. version,
           sent[c] = {}, outcome[c] = "none", Proceed(c, r, v),
           request'[c] = r, inflight'[c] = {}, BeganInv(c)',
           began'[c].published \in Nat, began'[c].published <= v, v <= published'
    PROVE  CallInv(c)'
  <1>0. v \in Versions /\ v \in Nat /\ version \in Versions /\ v <= version /\ v # 0
    <2>1. version \in Versions BY DEF Grows
    <2>2. version \in Nat BY <2>1, Constants
    <2>3. 1 .. version \subseteq Versions BY <2>1, Constants
    <2> QED BY <2>1, <2>2, <2>3
  <1> DEFINE found == Resolved(v, r)
             none == sent'[c] = {} /\ pc'[c] = "ended" /\ outcome'[c] = "raised"
             submitted == /\ sent'[c] = {[items |-> Items(r, found), above |-> None]}
                          /\ pc'[c] = "ended" /\ outcome'[c] = "submitted"
                          /\ r.trigger = None
             asked == /\ sent'[c] = {} /\ pc'[c] = "mark" /\ outcome'[c] = "none"
                      /\ r.kind = "twap" /\ r.trigger # None
                      /\ found[1] # None
                      /\ found[1] \in Perps => mark'[c] = IndexIn(v, found[1])
  <1>1. markets'[c] = found /\ (none \/ submitted \/ asked) BY <1>0, ProceedSends
  <1> HIDE DEF found
  <1>2. CASE none
    BY <1>2 DEF CallInv, WaitInv, SentInv, MarkInv, PartsInv, DirectionOf, AccountOf, EndedOf
  <1>3. CASE submitted
    BY <1>3 DEF CallInv, WaitInv, SentInv, MarkInv, PartsInv, DirectionOf, AccountOf, EndedOf
  <1>4. CASE asked
    <2>1. found[1] = MarketInfo(v, r.items[1].coin)
      <3>1. DOMAIN r.items = {1} BY <1>4, RequestShape
      <3>2. found[1] = Leads(v, r.kind, r.items[1].coin) BY <3>1 DEF found, Resolved
      <3> QED BY <1>4, <3>2 DEF Leads
    <2>2. found[1] \in Markets BY <1>0, <1>4, <2>1, MarketShape
    <2>3. ASSUME found[1] \in Perps
          PROVE  /\ mark'[c] \in DOMAIN Universe[version'][DexOf[found[1]]]
                 /\ Universe[version'][DexOf[found[1]]][mark'[c]] = found[1]
      <3>1. /\ IndexIn(v, found[1]) \in DOMAIN Universe[version][DexOf[found[1]]]
            /\ Universe[version][DexOf[found[1]]][IndexIn(v, found[1])] = found[1]
        <4> DEFINE name == r.items[1].coin
        <4>1. MarketInfo(v, name) \in Perps BY <2>1, <2>3
        <4> HIDE DEF name
        <4>2. /\ IndexIn(v, MarketInfo(v, name)) \in DOMAIN Universe[version][DexOf[MarketInfo(v, name)]]
              /\ Universe[version][DexOf[MarketInfo(v, name)]][IndexIn(v, MarketInfo(v, name))]
                 = MarketInfo(v, name)
          BY <1>0, <4>1, IndexHolds
        <4>3. found[1] = MarketInfo(v, name) BY <2>1 DEF name
        <4> QED BY <4>2, <4>3
      <3> QED BY <1>4, <2>3, <3>1
    <2>4. \E w \in began'[c].published .. published' : w # 0 /\ markets'[c] = Resolved(w, request'[c])
      <3>1. published' \in Int BY DEF Grows
      <3>2. v \in began'[c].published .. published' BY <1>0, <3>1
      <3> QED BY <1>0, <1>1, <3>2 DEF found
    <2>5. MarkInv(c)' BY <1>1, <1>4, <2>2, <2>3, <2>4 DEF MarkInv
    <2> QED BY <1>4, <2>5 DEF CallInv, WaitInv, SentInv, PartsInv, DirectionOf, AccountOf, EndedOf
  <1> QED BY <1>1, <1>2, <1>3, <1>4

LEMMA OpensKeep ==
    ASSUME WorldTypes, LocalTypes, LocalTypes', Grows, version' = version, value' = value,
           NEW c \in Calls, NEW r \in Requests, CallInv(c), Opens(c, r)
    PROVE  CallInv(c)'
  <1>0. Begin(c, r) BY DEF Opens, BeginInVain, BeginHit, BeginMiss, BeginAccount
  <1>1. /\ pc[c] = "new" /\ sent[c] = {} /\ outcome[c] = "none" /\ inflight[c] = {}
        /\ DOMAIN answers[c] = {}
        /\ published' = published
    BY <1>0 DEF Begin, CallInv, WaitInv, world
  <1>2. /\ request'[c] = r /\ answers' = answers
        /\ began'[c] = [published |-> published, value |-> value]
    BY <1>0, BeginLocal
  <1>3. /\ began'[c].published = published /\ published \in Nat
        /\ \A x \in Markets \cup Parts : began'[c].value[x] = value[x] /\ value[x] \in Nat
    BY <1>2, Constants DEF WorldTypes
  <1>4. BeganInv(c)' BY <1>1, <1>3 DEF BeganInv
  <1>5. CASE BeginInVain(c, r)
    <2>1. End(c, "raised") /\ UNCHANGED <<inflight, sent>> BY <1>5 DEF BeginInVain
    <2>2. pc'[c] = "ended" /\ outcome'[c] = "raised" BY <2>1 DEF End, LocalTypes
    <2> QED BY <1>1, <1>2, <1>4, <2>1, <2>2
            DEF CallInv, WaitInv, SentInv, MarkInv, PartsInv, DirectionOf, AccountOf, EndedOf
  <1>6. CASE BeginHit(c, r)
    <2>1. /\ published # 0 /\ Proceed(c, r, published) /\ inflight' = inflight
      BY <1>6 DEF BeginHit, Hits
    <2>2. published \in 1 .. version BY <2>1, Constants DEF WorldTypes
    <2> QED BY <1>1, <1>2, <1>3, <1>4, <2>1, <2>2, ProceedKeeps
  <1>7. CASE BeginMiss(c, r)
    <2>1. pc' = [pc EXCEPT ![c] = "lookup"] /\ UNCHANGED <<inflight, sent, outcome>>
      BY <1>7 DEF BeginMiss
    <2>2. pc'[c] = "lookup" BY <2>1 DEF LocalTypes
    <2> QED BY <1>1, <1>2, <1>4, <2>1, <2>2
            DEF CallInv, WaitInv, SentInv, MarkInv, PartsInv, DirectionOf, AccountOf, EndedOf
  <1>8. CASE BeginAccount(c, r)
    <2>1. /\ r.kind = "account"
          /\ pc' = [pc EXCEPT ![c] = "account"]
          /\ inflight' = [inflight EXCEPT ![c] = {BaseDex, "spot"} \cup r.dexs]
          /\ UNCHANGED <<sent, outcome>>
      BY <1>8 DEF BeginAccount
    <2>2. pc'[c] = "account" /\ inflight'[c] = {BaseDex, "spot"} \cup r.dexs
      BY <2>1 DEF LocalTypes
    <2> QED BY <1>1, <1>2, <1>4, <2>1, <2>2
            DEF CallInv, WaitInv, SentInv, MarkInv, PartsInv, DirectionOf, AccountOf, EndedOf
  <1> QED BY <1>5, <1>6, <1>7, <1>8 DEF Opens

\* The mark a TWAP is answered is one its own market has now.
LEMMA MarkIsOwn ==
    ASSUME WorldTypes, NEW c \in Calls, CallInv(c), pc[c] = "mark",
           MarkAt(markets[c][1], mark[c]) # None
    PROVE  MarkAt(markets[c][1], mark[c]) = value[markets[c][1]]
  <1>1. CASE markets[c][1] \in Perps
    <2>1. LET perps == Universe[version][DexOf[markets[c][1]]]
          IN  mark[c] \in DOMAIN perps /\ perps[mark[c]] = markets[c][1]
      BY <1>1 DEF CallInv, MarkInv
    <2> QED BY <1>1, <2>1 DEF MarkAt
  <1>2. CASE markets[c][1] \notin Perps BY <1>2 DEF MarkAt
  <1> QED BY <1>1, <1>2

\* What a TWAP with a trigger submits when its mark has come.
LEMMA MarkSends ==
    ASSUME WorldTypes, LocalTypes, NEW c \in Calls, CallInv(c), MarkAnswered(c)
    PROVE  /\ pc'[c] = "ended"
           /\ \/ sent'[c] = {} /\ outcome'[c] = "raised"
              \/ /\ sent'[c] = {[items |-> Items(request[c], markets[c]),
                                 above |-> request[c].trigger > value[markets[c][1]]]}
                 /\ outcome'[c] = "submitted"
  <1> DEFINE px == MarkAt(markets[c][1], mark[c])
             s(p) == [items |-> Items(request[c], markets[c]), above |-> request[c].trigger > p]
  <1>1. pc[c] = "mark" /\ sent[c] = {} BY DEF MarkAnswered, CallInv, WaitInv
  <1>2. \/ End(c, "raised") /\ UNCHANGED sent
        \/ px # None /\ End(c, "submitted") /\ sent' = [sent EXCEPT ![c] = @ \cup {s(px)}]
    BY DEF MarkAnswered, Submit
  <1>3. CASE End(c, "raised") /\ UNCHANGED sent
    BY <1>1, <1>3 DEF End, LocalTypes
  <1>4. CASE px # None /\ End(c, "submitted") /\ sent' = [sent EXCEPT ![c] = @ \cup {s(px)}]
    <2>1. px = value[markets[c][1]] BY <1>1, <1>4, MarkIsOwn
    <2>2. pc'[c] = "ended" /\ outcome'[c] = "submitted" BY <1>4 DEF End, LocalTypes
    <2> HIDE DEF px, s
    <2>3. sent'[c] = {s(px)} BY <1>1, <1>4 DEF LocalTypes
    <2> QED BY <2>1, <2>2, <2>3 DEF s
  <1> QED BY <1>2, <1>3, <1>4

LEMMA MarkAnsweredKeeps ==
    ASSUME WorldTypes, LocalTypes, BeganTypes, NEW c \in Calls, CallInv(c), MarkAnswered(c)
    PROVE  CallInv(c)'
  <1> DEFINE market == markets[c][1]
             r == request[c]
             s == [items |-> Items(r, markets[c]), above |-> r.trigger > value[market]]
  <1>1. /\ pc[c] = "mark" /\ inflight[c] = {} /\ r \in Requests
        /\ r.kind = "twap" /\ r.trigger # None /\ market \in Markets
    BY DEF MarkAnswered, CallInv, WaitInv, MarkInv
  <1>2. UNCHANGED <<world, request, markets, mark, inflight, answers, began>>
    BY DEF MarkAnswered
  <1>3. /\ pc'[c] = "ended"
        /\ \/ sent'[c] = {} /\ outcome'[c] = "raised"
           \/ sent'[c] = {s} /\ outcome'[c] = "submitted"
    BY MarkSends
  <1>4. s.items[1].asset = market
    BY <1>1, RequestShape DEF Items
  <1>5. s.above <=> r.trigger > value[market] OBVIOUS
  <1>6. value[market] \in began[c].value[market] .. value[market]
    <2>1. value[market] \in Nat /\ began[c].value[market] \in Nat
      BY <1>1, Constants DEF WorldTypes, BeganTypes
    <2>2. began[c].value[market] <= value[market] BY <1>1 DEF CallInv, BeganInv
    <2> QED BY <2>1, <2>2
  <1> HIDE DEF market, r, s
  <1>7. BeganInv(c)' BY <1>2 DEF BeganInv, CallInv, world
  <1>8. SentInv(c)'
    BY <1>1, <1>3, <1>4 DEF SentInv
  <1>9. DirectionOf(c)'
    <2>1. SUFFICES ASSUME sent'[c] = {s}
                   PROVE  \E px \in began[c].value[s.items[1].asset] .. value[s.items[1].asset] :
                             s.above <=> request[c].trigger > px
      BY <1>2, <1>3 DEF DirectionOf, world
    <2> QED BY <1>4, <1>5, <1>6 DEF r
  <1>10. WaitInv(c)' /\ MarkInv(c)' /\ PartsInv(c)' /\ AccountOf(c)' /\ EndedOf(c)'
    BY <1>1, <1>2, <1>3 DEF WaitInv, MarkInv, PartsInv, AccountOf, EndedOf, r
  <1> QED BY <1>7, <1>8, <1>9, <1>10 DEF CallInv

LEMMA ProceedsKeep ==
    ASSUME WorldTypes, LocalTypes, LocalTypes', BeganTypes, Grows,
           NEW c \in Calls, CallInv(c), Proceeds(c)
    PROVE  CallInv(c)'
  <1>1. CASE Loaded(c)
    <2>1. pc[c] = "lookup" BY <1>1 DEF Loaded
    <2>2. /\ sent[c] = {} /\ outcome[c] = "none" /\ inflight[c] = {} /\ request[c] \in Requests
      BY <2>1 DEF CallInv, WaitInv
    <2>3. PICK v \in published .. version : v # 0 /\ published' = v /\ Proceed(c, request[c], v)
      BY <1>1 DEF Loaded
    <2>4. UNCHANGED <<version, value, request, inflight, answers, began>> BY <1>1 DEF Loaded
    <2>5. /\ version \in Nat /\ published \in Nat /\ began[c].published \in Nat
          /\ began[c].published <= published
      BY Constants DEF WorldTypes, BeganTypes, CallInv, BeganInv
    <2>6. v \in 1 .. version /\ began[c].published <= v /\ v <= published' BY <2>3, <2>5
    <2>7. BeganInv(c)' BY <2>3, <2>4, <2>5, <2>6 DEF BeganInv, CallInv
    <2> QED BY <2>2, <2>3, <2>4, <2>5, <2>6, <2>7, ProceedKeeps
  <1>2. CASE MarkAnswered(c) BY <1>2, MarkAnsweredKeeps
  <1>3. CASE WaitFails(c)
    <2>1. /\ pc[c] \in {"lookup", "mark"} /\ End(c, "raised")
          /\ UNCHANGED <<world, request, markets, mark, inflight, answers, sent, began>>
      BY <1>3 DEF WaitFails
    <2>2. pc'[c] = "ended" /\ outcome'[c] = "raised" BY <2>1 DEF End, LocalTypes
    <2> QED BY <2>1, <2>2
            DEF CallInv, BeganInv, WaitInv, SentInv, MarkInv, PartsInv, DirectionOf, AccountOf,
                EndedOf, world
  <1>4. CASE Cancel(c)
    <2>1. /\ pc[c] = "account" /\ pc' = [pc EXCEPT ![c] = "unwinding"]
          /\ UNCHANGED <<world, request, markets, mark, inflight, answers, sent, outcome, began>>
      BY <1>4 DEF Cancel
    <2>2. pc'[c] = "unwinding" BY <2>1 DEF LocalTypes
    <2> QED BY <2>1, <2>2
            DEF CallInv, BeganInv, WaitInv, SentInv, MarkInv, PartsInv, DirectionOf, AccountOf,
                EndedOf, world
  <1> QED BY <1>1, <1>2, <1>3, <1>4 DEF Proceeds

LEMMA AnsweredKeeps ==
    ASSUME WorldTypes, LocalTypes, BeganTypes, NEW c \in Calls, NEW part \in Parts,
           CallInv(c), Answered(c, part)
    PROVE  CallInv(c)'
  <1> DEFINE all == [p \in DOMAIN answers[c] \cup {part} |->
                       IF p = part THEN value[part] ELSE answers[c][p]]
  <1>1. /\ pc[c] = "account" /\ part \in inflight[c]
        /\ inflight' = [inflight EXCEPT ![c] = @ \ {part}]
        /\ answers' = [answers EXCEPT ![c] = all]
        /\ IF inflight[c] = {part} THEN End(c, "answered") ELSE UNCHANGED <<pc, outcome>>
        /\ UNCHANGED <<world, request, markets, mark, sent, began>>
    BY DEF Answered
  <1> HIDE DEF all
  <1>2. /\ sent[c] = {} /\ outcome[c] = "none" /\ request[c] \in Requests
        /\ inflight[c] \cup DOMAIN answers[c] = {BaseDex, "spot"} \cup request[c].dexs
        /\ inflight[c] \cap DOMAIN answers[c] = {}
        /\ \A p \in DOMAIN answers[c] : answers[c][p] \in began[c].value[p] .. value[p]
    BY <1>1 DEF CallInv, WaitInv, PartsInv
  <1>3. value[part] \in began[c].value[part] .. value[part]
    <2>1. value[part] \in Nat /\ began[c].value[part] \in Nat
      BY Constants DEF WorldTypes, BeganTypes
    <2>2. began[c].value[part] <= value[part] BY DEF CallInv, BeganInv
    <2> QED BY <2>1, <2>2
  <1>4. /\ DOMAIN all = DOMAIN answers[c] \cup {part}
        /\ \A p \in DOMAIN all : all[p] \in began[c].value[p] .. value[p]
    BY <1>2, <1>3 DEF all
  <1>5. answers'[c] = all /\ inflight'[c] = inflight[c] \ {part}
    BY <1>1 DEF LocalTypes
  <1>6. CASE inflight[c] = {part}
    <2>1. pc'[c] = "ended" /\ outcome'[c] = "answered" /\ inflight'[c] = {}
      BY <1>1, <1>5, <1>6 DEF End, LocalTypes
    <2>2. DOMAIN all = {BaseDex, "spot"} \cup request[c].dexs BY <1>2, <1>4, <1>6
    <2>3. AccountOf(c)' BY <1>1, <1>4, <1>5, <2>2 DEF AccountOf, world
    <2> QED BY <1>1, <1>2, <2>1, <2>3
            DEF CallInv, BeganInv, WaitInv, SentInv, MarkInv, PartsInv, DirectionOf, EndedOf, world
  <1>7. CASE inflight[c] # {part}
    <2>1. pc'[c] = "account" /\ outcome'[c] = "none" BY <1>1, <1>2, <1>7
    <2>2. PartsInv(c)' BY <1>1, <1>2, <1>4, <1>5 DEF PartsInv, world
    <2> QED BY <1>1, <1>2, <2>1, <2>2
            DEF CallInv, BeganInv, WaitInv, SentInv, MarkInv, DirectionOf, AccountOf, EndedOf, world
  <1> QED BY <1>6, <1>7

LEMMA GathersKeep ==
    ASSUME WorldTypes, LocalTypes, BeganTypes, NEW c \in Calls, NEW part \in Parts,
           CallInv(c), Gathers(c, part)
    PROVE  CallInv(c)'
  <1>1. CASE Answered(c, part) BY <1>1, AnsweredKeeps
  <1>2. CASE RequestFails(c, part) \/ Unwound(c, part)
    <2>1. /\ pc[c] \in {"account", "unwinding"} /\ part \in inflight[c]
          /\ inflight' = [inflight EXCEPT ![c] = @ \ {part}]
          /\ UNCHANGED <<world, request, markets, mark, answers, sent, began>>
          /\ \/ inflight[c] = {part} /\ End(c, "raised")
             \/ pc' = [pc EXCEPT ![c] = "unwinding"] /\ UNCHANGED outcome
             \/ pc[c] = "unwinding" /\ UNCHANGED <<pc, outcome>>
      BY <1>2 DEF RequestFails, Unwound
    <2>2. \/ inflight'[c] = {} /\ pc'[c] = "ended" /\ outcome'[c] = "raised"
          \/ pc'[c] = "unwinding" /\ outcome'[c] = outcome[c]
      BY <2>1 DEF End, LocalTypes
    <2> QED BY <2>1, <2>2
            DEF CallInv, BeganInv, WaitInv, SentInv, MarkInv, PartsInv, DirectionOf, AccountOf,
                EndedOf, world
  <1> QED BY <1>1, <1>2 DEF Gathers

LEMMA StepKeeps ==
    ASSUME WorldTypes, LocalTypes, LocalTypes', BeganTypes, Grows,
           NEW c \in Calls, CallInv(c), CallStep(c)
    PROVE  CallInv(c)'
  <1>1. version' = version /\ value' = value BY CallWorld
  <1>2. ASSUME NEW r \in Requests, Opens(c, r) PROVE CallInv(c)' BY <1>1, <1>2, OpensKeep
  <1>3. CASE Proceeds(c) BY <1>3, ProceedsKeep
  <1>4. ASSUME NEW part \in Parts, Gathers(c, part) PROVE CallInv(c)' BY <1>4, GathersKeep
  <1> QED BY <1>2, <1>3, <1>4 DEF CallStep

-----------------------------------------------------------------------------
(* The invariant.                                                          *)

\* What was published and valued when a call begins is of the right type.
LEMMA StepBegan ==
    ASSUME WorldTypes, BeganTypes, LocalTypes, Grows, NEW c \in Calls, CallStep(c)
    PROVE  /\ began'[c].published \in 0 .. published'
           /\ began'[c].value \in [Markets \cup Parts -> 0 .. MaxValue]
  <1>0. /\ published \in Nat /\ published' \in Nat /\ published <= published'
        /\ began[c].published \in 0 .. published
        /\ began[c].value \in [Markets \cup Parts -> 0 .. MaxValue]
    BY Constants DEF Grows, BeganTypes
  <1>1. ASSUME NEW r \in Requests, Opens(c, r)
        PROVE  began'[c] = [published |-> published, value |-> value]
    <2>1. Begin(c, r) BY <1>1 DEF Opens, BeginInVain, BeginHit, BeginMiss, BeginAccount
    <2> QED BY <2>1, BeginLocal
  <1>2. CASE \E r \in Requests : Opens(c, r)
    <2>1. began'[c] = [published |-> published, value |-> value] BY <1>1, <1>2
    <2> QED BY <1>0, <2>1 DEF WorldTypes
  <1>3. ASSUME Proceeds(c) \/ \E part \in Parts : Gathers(c, part)
        PROVE  began' = began
    BY <1>3 DEF Proceeds, Gathers, Loaded, MarkAnswered, WaitFails, Cancel, Answered,
                RequestFails, Unwound
  <1>4. CASE Proceeds(c) \/ \E part \in Parts : Gathers(c, part)
    BY <1>0, <1>3, <1>4
  <1> QED BY <1>2, <1>4 DEF CallStep

LEMMA InitInv == Init => CommandsInv
  <1> SUFFICES ASSUME Init PROVE CommandsInv OBVIOUS
  <1>1. 0 \in Nat /\ MaxValue \in Nat /\ 0 \in 0 .. MaxValue BY Constants
  <1>2. WorldTypes BY <1>1, Constants DEF Init, WorldTypes
  <1>3. LocalTypes BY DEF Init, LocalTypes
  <1>4. BeganTypes BY <1>1 DEF Init, BeganTypes
  <1>5. ASSUME NEW c \in Calls PROVE CallInv(c)
    <2>1. /\ pc[c] = "new" /\ inflight[c] = {} /\ sent[c] = {} /\ outcome[c] = "none"
          /\ DOMAIN answers[c] = {}
      BY DEF Init
    <2>2. BeganInv(c) BY <1>1 DEF Init, BeganInv
    <2> QED BY <2>1, <2>2
            DEF CallInv, WaitInv, SentInv, MarkInv, PartsInv, DirectionOf, AccountOf, EndedOf
  <1> QED BY <1>2, <1>3, <1>4, <1>5, TypeParts, InvByCall

LEMMA NextInv == CommandsInv /\ [Next]_vars => CommandsInv'
  <1> SUFFICES ASSUME CommandsInv, [Next]_vars PROVE CommandsInv' OBVIOUS
  <1>1. /\ WorldTypes /\ LocalTypes /\ BeganTypes
        /\ \A d \in Calls : CallInv(d)
    BY InvByCall, TypeParts
  <1>2. WorldTypes' /\ Grows BY <1>1, WorldGrows
  <1>3. \A d \in Calls : /\ began[d].published \in 0 .. published'
                         /\ began[d].value \in [Markets \cup Parts -> 0 .. MaxValue]
    <2>1. published \in Nat /\ published' \in Nat /\ published <= published'
      BY <1>2, Constants DEF Grows
    <2>2. \A d \in Calls : /\ began[d].published \in 0 .. published
                           /\ began[d].value \in [Markets \cup Parts -> 0 .. MaxValue]
      BY <1>1 DEF BeganTypes
    <2>3. 0 .. published \subseteq 0 .. published' BY <2>1
    <2> QED BY <2>2, <2>3, Zenon
  <1>4. CASE List \/ Publish \/ (\E x \in Markets \cup Parts : Change(x)) \/ UNCHANGED vars
    <2>1. LocalTypes' /\ \A d \in Calls : Same(d) BY <1>1, <1>4, WorldLocal
    <2>2. BeganTypes' BY <1>3, <2>1 DEF BeganTypes, Same
    <2>3. \A d \in Calls : CallInv(d)' BY <1>1, <1>2, <2>1, Quiet
    <2> QED BY <1>2, <2>1, <2>2, <2>3, TypeParts, InvByCallNext
  <1>5. ASSUME NEW c \in Calls, CallStep(c) PROVE CommandsInv'
    <2>1. LocalTypes' /\ Alone(c) BY <1>1, <1>5, StepLocal
    <2>2. BeganTypes'
      <3>1. /\ began'[c].published \in 0 .. published'
            /\ began'[c].value \in [Markets \cup Parts -> 0 .. MaxValue]
        BY <1>1, <1>2, <1>5, StepBegan
      <3>2. \A d \in Calls \ {c} : began'[d] = began[d] BY <2>1 DEF Alone, Same
      <3> QED BY <1>3, <3>1, <3>2 DEF BeganTypes
    <2>3. CallInv(c)' BY <1>1, <1>2, <1>5, <2>1, StepKeeps
    <2>4. ASSUME NEW d \in Calls \ {c} PROVE CallInv(d)'
      <3>1. Same(d) /\ CallInv(d) BY <1>1, <2>1 DEF Alone
      <3> QED BY <1>1, <1>2, <3>1, Quiet
    <2>5. \A d \in Calls : CallInv(d)' BY <2>3, <2>4
    <2> QED BY <1>2, <2>1, <2>2, <2>5, TypeParts, InvByCallNext
  <1> QED BY <1>4, <1>5, NextSplits

\* The inductive invariant of the commands: what a waiting call knows is still its own.
THEOREM CommandsInvariant == Spec => []CommandsInv
  BY InitInv, NextInv, PTL DEF Spec

\* The types of the commands' state.
THEOREM CommandsTypeCorrect == Spec => []TypeOK
  <1>1. CommandsInv => TypeOK BY DEF CommandsInv
  <1> QED BY <1>1, CommandsInvariant, PTL

\* place_twap compares its trigger with a mark of the market it sends the order for,
\* whatever is listed and renamed while it waits for the mark.
THEOREM DirectionsAreOwn == Spec => []DirectionIsOwn
  <1>1. CommandsInv => DirectionIsOwn BY DEF CommandsInv
  <1> QED BY <1>1, CommandsInvariant, PTL

\* account_state returns exactly the parts it was asked for, each of the call's time.
THEOREM AccountsAreOwn == Spec => []AccountIsOwn
  <1>1. CommandsInv => AccountIsOwn BY DEF CommandsInv
  <1> QED BY <1>1, CommandsInvariant, PTL

\* A command that ended waits for nothing, and one that raised submitted nothing.
THEOREM NothingIsLeft == Spec => []NothingLeftBehind
  <1>1. CommandsInv => NothingLeftBehind BY DEF CommandsInv
  <1> QED BY <1>1, CommandsInvariant, PTL

-----------------------------------------------------------------------------
(* What is sent.                                                           *)

\* The items of a submission are what one snapshot makes of the command's.
LEMMA ItemsAreBy ==
    ASSUME NEW r, NEW v, \A i \in DOMAIN r.items : Resolved(v, r)[i] # None
    PROVE  /\ Items(r, Resolved(v, r)) = By(v, r)
           /\ \A i \in DOMAIN By(v, r) : By(v, r)[i].asset # None
  <1>1. \A i \in DOMAIN r.items : Resolved(v, r)[i] = Leads(v, r.kind, r.items[i].coin)
    BY DEF Resolved
  <1>2. \A i \in DOMAIN r.items : By(v, r)[i].asset = Resolved(v, r)[i]
    BY <1>1 DEF By
  <1>3. DOMAIN By(v, r) = DOMAIN r.items BY DEF By
  <1>4. Items(r, Resolved(v, r)) = By(v, r)
    BY <1>1, Zenon DEF Items, By
  <1> QED BY <1>2, <1>3, <1>4

\* A mark that comes sends what a snapshot of the call made of the command.
LEMMA MarkedIsCurrent ==
    ASSUME CommandsInv, NEW c \in Calls, MarkAnswered(c), NEW s \in sent'[c]
    PROVE  /\ pc[c] = "mark" /\ published' = published /\ request' = request
           /\ \E v \in began[c].published .. published :
                 /\ v # 0
                 /\ s.items = By(v, request[c])
                 /\ \A i \in DOMAIN s.items : s.items[i].asset # None
  <1>0. /\ WorldTypes /\ LocalTypes /\ CallInv(c) BY InvByCall, TypeParts
  <1>1. pc[c] = "mark" /\ published' = published /\ request' = request
    BY DEF MarkAnswered, world
  <1>2. s.items = Items(request[c], markets[c]) BY <1>0, MarkSends
  <1>3. PICK v \in began[c].published .. published : v # 0 /\ markets[c] = Resolved(v, request[c])
    BY <1>0, <1>1 DEF CallInv, MarkInv
  <1>4. \A i \in DOMAIN request[c].items : Resolved(v, request[c])[i] # None
    <2>1. request[c] \in Requests /\ request[c].kind = "twap" /\ markets[c][1] \in Markets
      BY <1>0, <1>1 DEF CallInv, WaitInv, MarkInv
    <2>2. DOMAIN request[c].items = {1} BY <2>1, RequestShape
    <2>3. Resolved(v, request[c])[1] # None BY <1>3, <2>1, Constants
    <2> QED BY <2>2, <2>3
  <1>5. s.items = By(v, request[c]) /\ \A i \in DOMAIN s.items : s.items[i].asset # None
    BY <1>2, <1>3, <1>4, ItemsAreBy
  <1>6. v # 0 /\ v \in began[c].published .. published BY <1>3
  <1> QED BY <1>1, <1>5, <1>6, Zenon

\* A snapshot that is enough sends what it makes of the command.
LEMMA ProceedIsCurrent ==
    ASSUME CommandsInv, NEW c \in Calls, NEW r \in Requests, NEW v \in 1 .. version,
           pc[c] \in {"new", "lookup"}, Proceed(c, r, v), NEW s \in sent'[c]
    PROVE  /\ s.items = By(v, r)
           /\ \A i \in DOMAIN s.items : s.items[i].asset # None
  <1>0. WorldTypes /\ LocalTypes /\ CallInv(c) BY InvByCall, TypeParts
  <1>1. v \in Versions
    <2>1. version \in Versions BY <1>0 DEF WorldTypes
    <2> QED BY <2>1, Constants
  <1>2. sent[c] = {} /\ outcome[c] = "none" BY <1>0 DEF CallInv, WaitInv
  <1>3. /\ sent'[c] = {[items |-> Items(r, Resolved(v, r)), above |-> None]}
        /\ \A i \in DOMAIN r.items : Resolved(v, r)[i] # None
    BY <1>0, <1>1, <1>2, ProceedSends
  <1>4. s.items = Items(r, Resolved(v, r)) BY <1>3
  <1> QED BY <1>3, <1>4, ItemsAreBy

\* Every submission is what one snapshot that was published during the call makes of
\* the command: the latest of the call, but for a TWAP that waited for its mark.
THEOREM SubmissionsAreCurrent == Spec => OneCurrentSnapshot
  <1> DEFINE Current(c, s) ==
               \E v \in (IF pc[c] = "mark" THEN began[c].published ELSE published') .. published' :
                  /\ v # 0
                  /\ s.items = By(v, request'[c])
                  /\ \A i \in DOMAIN s.items : s.items[i].asset # None
             Sends == \A c \in Calls : \A s \in sent'[c] \ sent[c] : Current(c, s)
  <1>1. ASSUME CommandsInv, [Next]_vars PROVE Sends \/ UNCHANGED vars
    <2>0. WorldTypes /\ LocalTypes /\ \A c \in Calls : CallInv(c)
      BY <1>1, InvByCall, TypeParts
    <2>1. WorldTypes' BY <1>1, <2>0, WorldGrows
    <2>2. published' \in Int /\ published' <= published' BY <2>1, Constants DEF WorldTypes
    <2>3. CASE List \/ Publish \/ \E x \in Markets \cup Parts : Change(x)
      <3>1. sent' = sent BY <2>3 DEF List, Publish, Change
      <3> QED BY <3>1
    <2>4. ASSUME NEW c \in Calls, CallStep(c) PROVE Sends
      <3>1. Alone(c) BY <2>0, <2>4, StepLocal
      <3>2. \A d \in Calls \ {c} : sent'[d] = sent[d] BY <3>1 DEF Alone, Same
      <3>3. SUFFICES ASSUME NEW s \in sent'[c] \ sent[c] PROVE Current(c, s)
        BY <3>2
      <3>4. CASE sent' = sent BY <3>3, <3>4
      <3>5. ASSUME NEW r \in Requests, BeginHit(c, r) PROVE Current(c, s)
        <4>1. /\ pc[c] = "new" /\ published # 0 /\ Proceed(c, r, published)
              /\ published' = published
          BY <3>5 DEF BeginHit, Hits, Begin, world
        <4>2. request'[c] = r
          <5>1. Begin(c, r) BY <3>5 DEF BeginHit
          <5> QED BY <2>0, <5>1, BeginLocal
        <4>3. published \in 1 .. version BY <2>0, <4>1, Constants DEF WorldTypes
        <4>4. /\ s.items = By(published, r)
              /\ \A i \in DOMAIN s.items : s.items[i].asset # None
          BY <1>1, <3>3, <4>1, <4>3, ProceedIsCurrent
        <4> QED BY <2>2, <4>1, <4>2, <4>4
      <3>6. CASE Loaded(c)
        <4>1. PICK v \in published .. version :
                 v # 0 /\ published' = v /\ Proceed(c, request[c], v)
          BY <3>6 DEF Loaded
        <4>2. pc[c] = "lookup" /\ request' = request BY <3>6 DEF Loaded
        <4>3. request[c] \in Requests BY <2>0, <4>2 DEF CallInv, WaitInv
        <4>4. v \in 1 .. version BY <2>0, <4>1, Constants DEF WorldTypes
        <4>5. /\ s.items = By(v, request[c])
              /\ \A i \in DOMAIN s.items : s.items[i].asset # None
          BY <1>1, <3>3, <4>1, <4>2, <4>3, <4>4, ProceedIsCurrent
        <4> QED BY <2>2, <4>1, <4>2, <4>5
      <3>7. CASE MarkAnswered(c)
        BY <1>1, <3>3, <3>7, MarkedIsCurrent
      <3>8. CASE WaitFails(c) \/ Cancel(c) \/ \E part \in Parts : Gathers(c, part)
        <4>1. sent' = sent
          BY <3>8 DEF WaitFails, Cancel, Gathers, Answered, RequestFails, Unwound
        <4> QED BY <3>4, <4>1
      <3>9. ASSUME NEW r \in Requests, BeginInVain(c, r) \/ BeginMiss(c, r) \/ BeginAccount(c, r)
            PROVE  Current(c, s)
        <4>1. sent' = sent BY <3>9 DEF BeginInVain, BeginMiss, BeginAccount
        <4> QED BY <3>4, <4>1
      <3> QED BY <2>4, <3>5, <3>6, <3>7, <3>8, <3>9 DEF CallStep, Opens, Proceeds
    <2> QED BY <1>1, <2>3, <2>4, NextSplits
  <1>2. CommandsInv /\ [Next]_vars => [Sends]_vars
    BY <1>1
  <1> HIDE DEF Sends
  <1>3. Spec => [][Sends]_vars
    BY <1>2, CommandsInvariant, PTL DEF Spec
  <1> QED BY <1>3 DEF OneCurrentSnapshot, Sends
=============================================================================
