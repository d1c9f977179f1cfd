---------------------------- MODULE MetadataBuild ----------------------------
(***************************************************************************)
(* _build_metadata: how one snapshot is made from the three responses of   *)
(* the provider, one listed item per step.  The construction itself does   *)
(* not suspend; its loops are steps here because what it keeps from one    *)
(* item to the next is what decides whether an asset id means one market   *)
(* and what a name resolves to.                                            *)
(*                                                                         *)
(* An item that has a field of a wrong type is one that is not valid.      *)
(***************************************************************************)
EXTENDS Integers, Sequences

CONSTANTS PerpNames,     \* names of perpetuals
          PairNames,     \* names of spot pairs, display names among them
          TokenNames,    \* names of tokens
          DexNames,      \* names of DEXes
          BaseDex,       \* "", the base DEX
          DexOf,         \* _perp_dex: the prefix of a perpetual's name
          Responses,     \* what the provider may answer
          Encodings,     \* encodings of outcome markets
          SpotOffset, DexOffset, Stride, OutcomeOffset  \* constants.py

Asset == [name : PerpNames, szDecimals : Int, valid : BOOLEAN]
Token == [index : Nat, name : TokenNames, szDecimals : Nat, valid : BOOLEAN]
Pair == [name : PairNames, index : Int, base : Int, quote : Int, valid : BOOLEAN]
Answers == [dexNames : Seq(DexNames), allPerpMetas : Seq(Seq(Asset)),
            tokens : Seq(Token), pairs : Seq(Pair)]

ASSUME BuildAssumption ==
    /\ DexOf \in [PerpNames -> DexNames]
    /\ Responses \subseteq Answers
    /\ Encodings \subseteq Nat
    /\ {SpotOffset, DexOffset, Stride, OutcomeOffset} \subseteq Nat
    /\ SpotOffset <= DexOffset /\ DexOffset <= OutcomeOffset
    /\ \A name \in TokenNames : name \notin TokenNames \X TokenNames  \* no "/" in it

VARIABLES
    response,             \* the three responses the load was given
    phase,                \* the loop that runs
    metaAt,               \* the object of allPerpMetas it is at
    assetIndex,           \* asset_index
    pairAt,               \* the pair of spotMeta it is at
    seen,                 \* seen_perp_dexes
    tokensByIndex, spotPairIndexes,
    coinByAlias, assetByCoin, symbolByCoin, sizeDecimalsByAsset,
    spotTokenByCoin, perpContextByCoin, spotMarketCoins

cursor == <<phase, metaAt, assetIndex, pairAt, seen>>
spotWork == <<tokensByIndex, spotPairIndexes>>
spotIndex == <<spotTokenByCoin, spotMarketCoins>>
names == <<coinByAlias, assetByCoin, symbolByCoin, sizeDecimalsByAsset>>
vars == <<response, cursor, spotWork, spotIndex, names, perpContextByCoin>>

-----------------------------------------------------------------------------
\* dict[key] = value, and dict.setdefault(key, value).
Put(f, k, v) == [x \in DOMAIN f \cup {k} |-> IF x = k THEN v ELSE f[x]]
SetDefault(f, k, v) == IF k \in DOMAIN f THEN f ELSE Put(f, k, v)

Elements(s) == {s[i] : i \in DOMAIN s}
Distinct(s) == \A i, j \in DOMAIN s : s[i] = s[j] => i = j
Display(base, quote) == <<base, quote>>
NoEntries == [x \in {} |-> 0]

Declared == Elements(response.dexNames)
Universe == response.allPerpMetas[metaAt]
Dex == DexOf[Universe[1].name]
Listing == Universe[assetIndex + 1]
Market == response.pairs[pairAt]

Init ==
    /\ response \in Responses
    /\ phase = "dexs"
    /\ metaAt = 1
    /\ assetIndex = 0
    /\ pairAt = 1
    /\ seen = {}
    /\ spotPairIndexes = {}
    /\ spotMarketCoins = {}
    /\ tokensByIndex = NoEntries
    /\ coinByAlias = NoEntries
    /\ assetByCoin = NoEntries
    /\ symbolByCoin = NoEntries
    /\ sizeDecimalsByAsset = NoEntries
    /\ spotTokenByCoin = NoEntries
    /\ perpContextByCoin = NoEntries

-----------------------------------------------------------------------------
(* _dex_offsets.                                                           *)

DexNamesFit ==
    /\ response.dexNames # <<>>
    /\ response.dexNames[1] = BaseDex
    /\ Distinct(response.dexNames)

Position(dex) == CHOOSE i \in DOMAIN response.dexNames : response.dexNames[i] = dex

\* Mutant of Offset: every HIP-3 DEX starts where the first one does.
OffsetFlat(dex) == IF dex = BaseDex THEN 0 ELSE DexOffset

\* Mutant of Offset: the position in perpDexs is not corrected for the base DEX.
OffsetLate(dex) ==
    IF dex = BaseDex THEN 0 ELSE DexOffset + (Position(dex) - 1) * Stride

\* The base DEX is first of perpDexs, a HIP-3 DEX counts from the second on.
Offset(dex) ==
    IF dex = BaseDex THEN 0 ELSE DexOffset + (Position(dex) - 2) * Stride

CheckDexs ==
    /\ phase = "dexs"
    /\ DexNamesFit
    /\ phase' = "metas"
    /\ UNCHANGED <<response, metaAt, assetIndex, pairAt, seen, spotWork, spotIndex,
                   names, perpContextByCoin>>

-----------------------------------------------------------------------------
(* _index_perp_metadata.                                                   *)

MoreMetas == phase = "metas" /\ metaAt <= Len(response.allPerpMetas)
MoreAssets == phase = "assets" /\ assetIndex < Len(Universe)

\* An object without assets names no DEX and is passed over.
SkipEmpty ==
    /\ MoreMetas
    /\ Universe = <<>>
    /\ metaAt' = metaAt + 1
    /\ UNCHANGED <<response, phase, assetIndex, pairAt, seen, spotWork, spotIndex,
                   names, perpContextByCoin>>

MetaFits == Universe[1].valid /\ Dex \notin seen /\ Dex \in Declared

EnterMeta ==
    /\ MoreMetas
    /\ Universe # <<>>
    /\ MetaFits
    /\ seen' = seen \cup {Dex}
    /\ assetIndex' = 0
    /\ phase' = "assets"
    /\ UNCHANGED <<response, metaAt, pairAt, spotWork, spotIndex, names,
                   perpContextByCoin>>

\* Mutant of AssetFits: an asset of another DEX is taken for one of this DEX.
AssetFitsMixed ==
    /\ Listing.valid
    /\ Listing.name \notin DOMAIN assetByCoin

AssetFits ==
    /\ Listing.valid
    /\ DexOf[Listing.name] = Dex
    /\ Listing.name \notin DOMAIN assetByCoin

PerpContext(dex, index) == <<dex, index>>

IndexAsset ==
    /\ MoreAssets
    /\ AssetFits
    /\ LET name == Listing.name
           asset == Offset(Dex) + assetIndex
       IN  /\ coinByAlias' = Put(coinByAlias, name, name)
           /\ assetByCoin' = Put(assetByCoin, name, asset)
           /\ symbolByCoin' = Put(symbolByCoin, name, name)
           /\ sizeDecimalsByAsset' = Put(sizeDecimalsByAsset, asset, Listing.szDecimals)
           /\ perpContextByCoin' = Put(perpContextByCoin, name,
                                         PerpContext(Dex, assetIndex))
    /\ assetIndex' = assetIndex + 1
    /\ UNCHANGED <<response, phase, metaAt, pairAt, seen, spotWork, spotIndex>>

LeaveMeta ==
    /\ phase = "assets"
    /\ assetIndex = Len(Universe)
    /\ metaAt' = metaAt + 1
    /\ phase' = "metas"
    /\ UNCHANGED <<response, assetIndex, pairAt, seen, spotWork, spotIndex, names,
                   perpContextByCoin>>

PerpsDone == phase = "metas" /\ metaAt > Len(response.allPerpMetas)

\* Every declared DEX must have been seen.
EndPerps ==
    /\ PerpsDone
    /\ seen = Declared
    /\ phase' = "tokens"
    /\ UNCHANGED <<response, metaAt, assetIndex, pairAt, seen, spotWork, spotIndex,
                   names, perpContextByCoin>>

-----------------------------------------------------------------------------
(* _index_spot_tokens and _index_spot_metadata.                            *)

TokensFit ==
    /\ \A i \in DOMAIN response.tokens : response.tokens[i].valid
    /\ \A i, j \in DOMAIN response.tokens :
          response.tokens[i].index = response.tokens[j].index => i = j

IndexTokens ==
    /\ phase = "tokens"
    /\ TokensFit
    /\ tokensByIndex' =
          [n \in {t.index : t \in Elements(response.tokens)} |->
              CHOOSE t \in Elements(response.tokens) : t.index = n]
    /\ phase' = "pairs"
    /\ UNCHANGED <<response, metaAt, assetIndex, pairAt, seen, spotPairIndexes,
                   spotIndex, names, perpContextByCoin>>

MorePairs == phase = "pairs" /\ pairAt <= Len(response.pairs)

\* Mutant of PairFits: two pairs may have one index.
PairFitsByName ==
    /\ Market.valid
    /\ {Market.base, Market.quote} \subseteq DOMAIN tokensByIndex
    /\ Market.name \notin DOMAIN assetByCoin

PairFits ==
    /\ Market.valid
    /\ {Market.base, Market.quote} \subseteq DOMAIN tokensByIndex
    /\ Market.name \notin DOMAIN assetByCoin
    /\ Market.index \notin spotPairIndexes

\* Mutant of NameAliases: a pair leaves its own name to an earlier display name.
NameAliasesFirst(coin, base, quote) ==
    SetDefault(SetDefault(SetDefault(coinByAlias, coin, coin),
                          Display(base, quote), coin),
               quote, quote)

\* Mutant of NameAliases: the quote token's name stands for the pair.
NameAliasesQuote(coin, base, quote) ==
    SetDefault(SetDefault(Put(coinByAlias, coin, coin), Display(base, quote), coin),
               quote, coin)

\* A pair has its own name, and the others if nobody had them before.
NameAliases(coin, base, quote) ==
    SetDefault(SetDefault(Put(coinByAlias, coin, coin), Display(base, quote), coin),
               quote, quote)

IndexPair ==
    /\ MorePairs
    /\ PairFits
    /\ LET coin == Market.name
           base == tokensByIndex[Market.base]
           quote == tokensByIndex[Market.quote]
           asset == SpotOffset + Market.index
       IN  /\ coinByAlias' = NameAliases(coin, base.name, quote.name)
           /\ assetByCoin' = Put(assetByCoin, coin, asset)
           /\ symbolByCoin' = Put(symbolByCoin, coin, Display(base.name, quote.name))
           /\ sizeDecimalsByAsset' = Put(sizeDecimalsByAsset, asset, base.szDecimals)
           /\ spotTokenByCoin' =
                 SetDefault(Put(spotTokenByCoin, coin, base), quote.name, quote)
    /\ spotPairIndexes' = spotPairIndexes \cup {Market.index}
    /\ spotMarketCoins' = spotMarketCoins \cup {Market.name}
    /\ pairAt' = pairAt + 1
    /\ UNCHANGED <<response, phase, metaAt, assetIndex, seen, tokensByIndex,
                   perpContextByCoin>>

\* _build_metadata returns the snapshot.
Return ==
    /\ phase = "pairs"
    /\ pairAt > Len(response.pairs)
    /\ phase' = "built"
    /\ UNCHANGED <<response, metaAt, assetIndex, pairAt, seen, spotWork, spotIndex,
                   names, perpContextByCoin>>

\* ProtocolError: what was indexed so far is dropped.
Reject ==
    /\ \/ phase = "dexs" /\ ~DexNamesFit
       \/ MoreMetas /\ Universe # <<>> /\ ~MetaFits
       \/ MoreAssets /\ ~AssetFits
       \/ PerpsDone /\ seen # Declared
       \/ phase = "tokens" /\ ~TokensFit
       \/ MorePairs /\ ~PairFits
    /\ phase' = "rejected"
    /\ UNCHANGED <<response, metaAt, assetIndex, pairAt, seen, spotWork, spotIndex,
                   names, perpContextByCoin>>

Next ==
    \/ CheckDexs \/ SkipEmpty \/ EnterMeta \/ IndexAsset \/ LeaveMeta \/ EndPerps
    \/ IndexTokens \/ IndexPair \/ Return \/ Reject

Spec == Init /\ [][Next]_vars

-----------------------------------------------------------------------------
(* _market_info and _outcome_market_info: what a name resolves to.         *)
(* A name that begins with "#" or "+" is taken as an outcome market before *)
(* anything is looked up.  No listed name is assumed to begin so, which    *)
(* the code does not check: such a market could not be reached.            *)

Resolves(coin) ==
    /\ coin \in DOMAIN coinByAlias
    /\ coinByAlias[coin] \in DOMAIN assetByCoin

MarketInfo(coin) ==
    LET name == coinByAlias[coin] IN
    [coin |-> name,
     asset |-> assetByCoin[name],
     sizeDecimals |-> sizeDecimalsByAsset[assetByCoin[name]],
     isSpot |-> name \in spotMarketCoins,
     dex |-> IF name \in DOMAIN perpContextByCoin THEN perpContextByCoin[name][1]
             ELSE BaseDex]

\* "#" or "+" and an encoding whose last digit is a side.
OutcomeEncodings == {e \in Encodings : e % 10 \in {0, 1}}
OutcomeAsset(e) == OutcomeOffset + e

-----------------------------------------------------------------------------
(* Properties.                                                             *)

Names == PerpNames \cup PairNames \cup TokenNames \cup (TokenNames \X TokenNames)

TypeOK ==
    /\ response \in Answers
    /\ phase \in {"dexs", "metas", "assets", "tokens", "pairs", "built", "rejected"}
    /\ {metaAt, pairAt} \subseteq Nat \ {0}
    /\ assetIndex \in Nat
    /\ seen \subseteq DexNames
    /\ spotPairIndexes \subseteq Int
    /\ spotMarketCoins \subseteq PairNames
    /\ tokensByIndex \in [DOMAIN tokensByIndex -> Token]
    /\ DOMAIN coinByAlias \subseteq Names
    /\ assetByCoin \in [DOMAIN assetByCoin -> Int]
    /\ DOMAIN assetByCoin \subseteq PerpNames \cup PairNames
    /\ spotTokenByCoin \in [DOMAIN spotTokenByCoin -> Token]
    /\ perpContextByCoin \in [DOMAIN perpContextByCoin -> DexNames \X Nat]

\* The sizes for which the ranges of asset ids do not meet: a DEX lists no more
\* assets than its stride, the base DEX stays below the spot ids, spot indexes stay
\* below the first HIP-3 id, and the DEXes below the outcome ids.  The code assumes
\* this of the provider; it checks none of it.
RangesHold ==
    /\ \A m \in DOMAIN response.allPerpMetas :
          LET universe == response.allPerpMetas[m] IN
          /\ Len(universe) <= Stride
          /\ universe # <<>> /\ DexOf[universe[1].name] = BaseDex
                => Len(universe) <= SpotOffset
    /\ \A i \in DOMAIN response.pairs :
          response.pairs[i].index \in 0 .. DexOffset - SpotOffset - 1
    /\ DexOffset + (Len(response.dexNames) - 1) * Stride <= OutcomeOffset

\* An asset id stands for one market, whatever the order, the number and the kinds
\* of the markets: an order is never signed for another market than the one named.
AssetMeansOneMarket ==
    RangesHold =>
       /\ \A c, d \in DOMAIN assetByCoin : assetByCoin[c] = assetByCoin[d] => c = d
       /\ \A c \in DOMAIN assetByCoin, e \in OutcomeEncodings :
             assetByCoin[c] # OutcomeAsset(e)

\* A listed market keeps its own name, also when an earlier pair has displayed it or
\* an earlier quote token was called so.
NamesKeepTheirMarkets ==
    \A c \in DOMAIN assetByCoin : c \in DOMAIN coinByAlias /\ coinByAlias[c] = c

\* A name that is not a market's own leads to a spot pair that displays it, or to a
\* token of that name and then to no market but one of that name.
AliasesAreTruthful ==
    \A a \in DOMAIN coinByAlias :
       \/ coinByAlias[a] = a /\ (a \in DOMAIN assetByCoin \/ a \in DOMAIN spotTokenByCoin)
       \/ coinByAlias[a] \in spotMarketCoins /\ symbolByCoin[coinByAlias[a]] = a

-----------------------------------------------------------------------------
(* The same construction stated of the responses as a whole, without loops. *)

Positions ==
    UNION {{m} \X DOMAIN response.allPerpMetas[m] : m \in DOMAIN response.allPerpMetas}
At(p) == response.allPerpMetas[p[1]][p[2]]
TokenAt(n) == {t \in Elements(response.tokens) : t.index = n}

\* The responses fit together: what the parts say of each other can be true.
Consistent ==
    /\ response.dexNames # <<>> /\ response.dexNames[1] = BaseDex
    /\ Distinct(response.dexNames)
    /\ {DexOf[At(p).name] : p \in Positions} = Declared
    /\ \A p \in Positions : At(p).valid
    /\ \A p, q \in Positions :
          /\ At(p).name = At(q).name => p = q
          /\ DexOf[At(p).name] = DexOf[At(q).name] <=> p[1] = q[1]
    /\ \A i \in DOMAIN response.tokens : response.tokens[i].valid
    /\ Distinct([i \in DOMAIN response.tokens |-> response.tokens[i].index])
    /\ \A i \in DOMAIN response.pairs :
          LET pair == response.pairs[i] IN
          /\ pair.valid
          /\ TokenAt(pair.base) # {} /\ TokenAt(pair.quote) # {}
          /\ \A p \in Positions : At(p).name # pair.name
          /\ \A j \in DOMAIN response.pairs \ {i} :
                /\ response.pairs[j].name # pair.name
                /\ response.pairs[j].index # pair.index

\* A snapshot comes of responses that fit together and of no others: a load that
\* read its parts at different times, one before and one after a listing, is dropped
\* as a whole if the parts disagree.
BuiltIffConsistent ==
    /\ phase = "built" => Consistent
    /\ phase = "rejected" => ~Consistent

\* Every listed market resolves to itself with the id of its position, the decimals
\* and the DEX it was listed with, in the ranges docs/coin-name-mapping.md:35-41 give;
\* a display name to the first pair that shows it; and nothing else to a market.
BuiltAsListed ==
    phase = "built" /\ RangesHold =>
       /\ \A p \in Positions, i \in DOMAIN response.dexNames :
             LET asset == At(p) IN
             DexOf[asset.name] = response.dexNames[i] =>
                MarketInfo(asset.name) =
                   [coin |-> asset.name,
                    asset |-> p[2] - 1 + (IF i = 1 THEN 0 ELSE DexOffset + (i - 2) * Stride),
                    sizeDecimals |-> asset.szDecimals,
                    isSpot |-> FALSE,
                    dex |-> response.dexNames[i]]
       /\ \A i \in DOMAIN response.pairs :
             LET pair == response.pairs[i]
                 base == CHOOSE t \in TokenAt(pair.base) : TRUE
             IN  /\ MarketInfo(pair.name) =
                       [coin |-> pair.name,
                        asset |-> SpotOffset + pair.index,
                        sizeDecimals |-> base.szDecimals,
                        isSpot |-> TRUE,
                        dex |-> BaseDex]
                 /\ spotTokenByCoin[pair.name] = base
                 /\ LET shown == symbolByCoin[pair.name] IN
                    \/ shown \in DOMAIN assetByCoin
                    \/ \E j \in 1 .. i : /\ response.pairs[j].name = MarketInfo(shown).coin
                                         /\ symbolByCoin[response.pairs[j].name] = shown
                                         /\ \A k \in 1 .. j - 1 :
                                               symbolByCoin[response.pairs[k].name] # shown
       /\ DOMAIN assetByCoin = {At(p).name : p \in Positions}
                               \cup {response.pairs[i].name : i \in DOMAIN response.pairs}

-----------------------------------------------------------------------------
(* The inductive invariant the proofs use, by parts.                       *)

\* Where the loop over a DEX's assets is, and that only declared DEXes were seen.
LoopInv ==
    /\ seen \subseteq Declared
    /\ seen # {} => DexNamesFit
    /\ phase = "metas" => DexNamesFit
    /\ phase = "assets" =>
          /\ metaAt \in DOMAIN response.allPerpMetas
          /\ Universe # <<>>
          /\ Dex \in seen
          /\ assetIndex <= Len(Universe)

\* A perpetual's id is that of its place, no place is taken twice, and the places of
\* the DEX at hand are taken up to assetIndex.
PerpInv ==
    /\ \A c \in DOMAIN perpContextByCoin :
          LET dex == perpContextByCoin[c][1]
              index == perpContextByCoin[c][2]
          IN  /\ dex \in seen
              /\ assetByCoin[c] = Offset(dex) + index
              /\ RangesHold => index < Stride /\ (dex = BaseDex => index < SpotOffset)
              /\ phase = "assets" /\ dex = Dex => index < assetIndex
    /\ \A b, c \in DOMAIN perpContextByCoin :
          perpContextByCoin[b] = perpContextByCoin[c] => b = c

\* A spot pair's id is that of its index, and no index is taken twice.
SpotInv ==
    /\ \A c \in spotMarketCoins : assetByCoin[c] - SpotOffset \in spotPairIndexes
    /\ \A b, c \in spotMarketCoins : assetByCoin[b] = assetByCoin[c] => b = c
    /\ RangesHold => spotPairIndexes \subseteq 0 .. DexOffset - SpotOffset - 1

\* Every market is a perpetual or a spot pair, and has a symbol and a name.
MarketInv ==
    /\ DOMAIN assetByCoin = DOMAIN perpContextByCoin \cup spotMarketCoins
    /\ DOMAIN perpContextByCoin \cap spotMarketCoins = {}
    /\ DOMAIN symbolByCoin = DOMAIN assetByCoin
    /\ NamesKeepTheirMarkets
    /\ AliasesAreTruthful

BuildInv == TypeOK /\ LoopInv /\ PerpInv /\ SpotInv /\ MarketInv

-----------------------------------------------------------------------------
(* What the loops have found to fit together so far.                       *)

\* The places and the pairs the loops are through with.
Listed ==
    {p \in Positions : \/ p[1] < metaAt
                       \/ phase = "assets" /\ p[1] = metaAt /\ p[2] <= assetIndex}
Paired == {i \in DOMAIN response.pairs : i < pairAt}

\* What comes after a loop rests on the whole of it.
StageInv ==
    /\ phase # "dexs" => DexNamesFit
    /\ phase \in {"tokens", "pairs", "built"} =>
          metaAt > Len(response.allPerpMetas) /\ seen = Declared
    /\ phase \in {"pairs", "built"} =>
          TokensFit /\ DOMAIN tokensByIndex = {t.index : t \in Elements(response.tokens)}
    /\ phase \notin {"pairs", "built"} => pairAt = 1
    /\ phase = "built" => pairAt > Len(response.pairs)

\* A DEX was seen at one place of allPerpMetas, and its assets are there.
DexsInv ==
    /\ \A dex \in seen : \E p \in Positions :
          /\ DexOf[At(p).name] = dex
          /\ p[1] < metaAt \/ (phase = "assets" /\ p[1] = metaAt)
    /\ \A p \in Listed :
          /\ At(p).valid
          /\ DexOf[At(p).name] \in seen
          /\ phase = "assets" => (DexOf[At(p).name] = Dex <=> p[1] = metaAt)
    /\ \A p, q \in Listed :
          /\ At(p).name = At(q).name => p = q
          /\ DexOf[At(p).name] = DexOf[At(q).name] <=> p[1] = q[1]

\* The pairs indexed so far fit to the tokens, to each other and to the perpetuals.
PairsInv ==
    /\ spotPairIndexes = {response.pairs[i].index : i \in Paired}
    /\ \A i \in Paired :
          LET pair == response.pairs[i] IN
          /\ pair.valid
          /\ TokenAt(pair.base) # {} /\ TokenAt(pair.quote) # {}
          /\ \A p \in Positions : At(p).name # pair.name
          /\ \A j \in Paired \ {i} :
                /\ response.pairs[j].name # pair.name
                /\ response.pairs[j].index # pair.index

\* The markets are those of what was indexed.
IndexedInv ==
    DOMAIN assetByCoin =
       {At(p).name : p \in Listed} \cup {response.pairs[i].name : i \in Paired}

\* With TypeOK and LoopInv, inductive.
CheckedInv ==
    IF phase = "rejected" THEN ~Consistent
    ELSE StageInv /\ DexsInv /\ PairsInv /\ IndexedInv

\* What was indexed of the places and pairs listed so far is what they say.
EntriesInv ==
    /\ \A p \in Listed :
          LET coin == At(p).name IN
          /\ coin \in DOMAIN perpContextByCoin
          /\ perpContextByCoin[coin] = <<DexOf[coin], p[2] - 1>>
          /\ RangesHold =>
                /\ assetByCoin[coin] \in DOMAIN sizeDecimalsByAsset
                /\ sizeDecimalsByAsset[assetByCoin[coin]] = At(p).szDecimals
    /\ phase \in {"pairs", "built"} =>
          \A n \in DOMAIN tokensByIndex : TokenAt(n) = {tokensByIndex[n]}
    /\ spotMarketCoins = {response.pairs[i].name : i \in Paired}
    /\ DOMAIN spotTokenByCoin \subseteq spotMarketCoins \cup TokenNames
    /\ \A i \in Paired :
          LET pair == response.pairs[i] IN
          /\ assetByCoin[pair.name] = SpotOffset + pair.index
          /\ pair.name \in DOMAIN spotTokenByCoin
          /\ TokenAt(pair.base) = {spotTokenByCoin[pair.name]}
          /\ RangesHold =>
                /\ assetByCoin[pair.name] \in DOMAIN sizeDecimalsByAsset
                /\ sizeDecimalsByAsset[assetByCoin[pair.name]] =
                      spotTokenByCoin[pair.name].szDecimals

\* A display name that is no market's own leads to the first pair that shows it.
ShownInv ==
    \A i \in Paired :
       LET shown == symbolByCoin[response.pairs[i].name] IN
       /\ shown \in DOMAIN coinByAlias
       /\ \/ shown \in DOMAIN assetByCoin
          \/ \E j \in 1 .. i : /\ response.pairs[j].name = coinByAlias[shown]
                               /\ symbolByCoin[response.pairs[j].name] = shown
                               /\ \A k \in 1 .. j - 1 :
                                     symbolByCoin[response.pairs[k].name] # shown

\* With BuildInv and CheckedInv, inductive.
ListedInv == phase # "rejected" => EntriesInv /\ ShownInv

=============================================================================
