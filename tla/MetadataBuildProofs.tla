------------------------ MODULE MetadataBuildProofs -------------------------
(***************************************************************************)
(* Proofs about MetadataBuild, for responses of every size and any place   *)
(* of the asset ranges: ids are distinct and names are kept (BuildInv), a  *)
(* snapshot is built exactly if the responses fit together (CheckedInv),   *)
(* and it is what was listed (ListedInv).                                  *)
(***************************************************************************)
EXTENDS MetadataBuild, TLAPS

\* An assignment keeps the type of a dict.
LEMMA PutType ==
    ASSUME NEW S, NEW f, f \in [DOMAIN f -> S], NEW k, NEW v \in S
    PROVE  Put(f, k, v) \in [DOMAIN Put(f, k, v) -> S]
BY DEF Put

\* setdefault keeps the type of a dict.
LEMMA SetDefaultType ==
    ASSUME NEW S, NEW f, f \in [DOMAIN f -> S], NEW k, NEW v \in S
    PROVE  SetDefault(f, k, v) \in [DOMAIN SetDefault(f, k, v) -> S]
BY PutType DEF SetDefault

\* What is said of the response alone stays as it is in every step.
LEMMA ResponseStays ==
    ASSUME response' = response
    PROVE  /\ RangesHold' = RangesHold
           /\ DexNamesFit' = DexNamesFit
           /\ Declared' = Declared
           /\ \A dex : Offset(dex)' = Offset(dex)
<1>1. RangesHold' = RangesHold  BY DEF RangesHold
<1>2. DexNamesFit' = DexNamesFit  BY DEF DexNamesFit, Distinct
<1>3. Declared' = Declared  BY DEF Declared, Elements
<1>4. ASSUME NEW dex PROVE Offset(dex)' = Offset(dex)  BY DEF Offset, Position
<1>. QED  BY <1>1, <1>2, <1>3, <1>4

\* A longer factor gives no smaller product.
LEMMA ProductGrows ==
    ASSUME NEW k \in Nat, NEW l \in Nat, NEW s \in Nat, k < l
    PROVE  k * s + s <= l * s
<1>1. l * s = (k + 1) * s + (l - (k + 1)) * s  OBVIOUS
<1>2. (l - (k + 1)) * s >= 0  OBVIOUS
<1>3. (k + 1) * s = k * s + s  OBVIOUS
<1>. QED  BY <1>1, <1>2, <1>3

\* A product of natural numbers is one.
LEMMA ProductType == ASSUME NEW k \in Nat, NEW s \in Nat PROVE k * s \in Nat
OBVIOUS

\* The place of a HIP-3 DEX: it is declared after the base DEX, and its offset is a
\* multiple of the stride.
LEMMA Hip3Place ==
    ASSUME response \in Answers, DexNamesFit, NEW dex \in Declared, dex # BaseDex
    PROVE  /\ Position(dex) \in 2 .. Len(response.dexNames)
           /\ response.dexNames[Position(dex)] = dex
           /\ Position(dex) - 2 \in Nat
           /\ (Position(dex) - 2) * Stride \in Nat
           /\ Offset(dex) = DexOffset + (Position(dex) - 2) * Stride
<1>1. response.dexNames \in Seq(DexNames)  BY DEF Answers
<1>2. Position(dex) \in DOMAIN response.dexNames /\ response.dexNames[Position(dex)] = dex
  BY DEF Declared, Elements, Position
<1>3. Position(dex) \in 1 .. Len(response.dexNames)  BY <1>1, <1>2
<1>4. Position(dex) # 1  BY <1>2 DEF DexNamesFit
<1>5. Position(dex) \in 2 .. Len(response.dexNames) /\ Position(dex) - 2 \in Nat
  BY <1>3, <1>4
<1>6. Stride \in Nat  BY BuildAssumption
<1>7. (Position(dex) - 2) * Stride \in Nat  BY <1>5, <1>6, ProductType
<1>8. Offset(dex) = DexOffset + (Position(dex) - 2) * Stride  BY DEF Offset
<1>. QED  BY <1>2, <1>5, <1>7, <1>8

\* Of two HIP-3 DEXes the one declared later starts a stride further at least.
LEMMA StrideApart ==
    ASSUME response \in Answers, DexNamesFit,
           NEW d \in Declared, NEW e \in Declared, d # BaseDex, e # BaseDex,
           Position(d) < Position(e)
    PROVE  Offset(d) + Stride <= Offset(e)
<1>. DEFINE k == Position(d) - 2
            l == Position(e) - 2
<1>1. /\ k \in Nat /\ k * Stride \in Nat /\ Offset(d) = DexOffset + k * Stride
      /\ l \in Nat /\ l * Stride \in Nat /\ Offset(e) = DexOffset + l * Stride
  BY Hip3Place
<1>2. k < l  BY Hip3Place
<1>3. Stride \in Nat /\ DexOffset \in Nat  BY BuildAssumption
<1>. HIDE DEF k, l
<1>4. k * Stride + Stride <= l * Stride  BY <1>1, <1>2, <1>3, ProductGrows
<1>. QED  BY <1>1, <1>3, <1>4

\* The ids of a DEX are natural numbers; those of the base DEX start at zero, those of
\* the others above all spot ids, and all end below the outcome ids.
LEMMA OffsetBounds ==
    ASSUME response \in Answers, DexNamesFit, NEW dex \in Declared
    PROVE  /\ Offset(dex) \in Nat
           /\ dex # BaseDex => Offset(dex) >= DexOffset
           /\ dex = BaseDex => Offset(dex) = 0
           /\ RangesHold /\ dex # BaseDex => Offset(dex) + Stride <= OutcomeOffset
<1>1. CASE dex = BaseDex  BY <1>1 DEF Offset
<1>2. CASE dex # BaseDex
  <2>. DEFINE k == Position(dex) - 2
              n == Len(response.dexNames) - 1
  <2>1. k \in Nat /\ k * Stride \in Nat /\ Offset(dex) = DexOffset + k * Stride
    BY <1>2, Hip3Place
  <2>2. n \in Nat /\ k < n
    <3>1. Len(response.dexNames) \in Nat  BY DEF Answers
    <3>. QED  BY <1>2, <3>1, Hip3Place
  <2>3. Stride \in Nat /\ DexOffset \in Nat /\ OutcomeOffset \in Nat  BY BuildAssumption
  <2>4. RangesHold => DexOffset + n * Stride <= OutcomeOffset  BY DEF RangesHold
  <2>. HIDE DEF k, n
  <2>5. n * Stride \in Nat  BY <2>2, <2>3, ProductType
  <2>6. k * Stride + Stride <= n * Stride  BY <2>1, <2>2, <2>3, ProductGrows
  <2>. QED  BY <1>2, <2>1, <2>3, <2>4, <2>5, <2>6
<1>. QED  BY <1>1, <1>2

\* The ranges of two DEXes do not meet.
LEMMA OffsetsApart ==
    ASSUME response \in Answers, DexNamesFit,
           NEW d \in Declared, NEW e \in Declared, NEW i \in Nat, NEW j \in Nat,
           i < Stride, j < Stride,
           d = BaseDex => i < SpotOffset,
           e = BaseDex => j < SpotOffset,
           Offset(d) + i = Offset(e) + j
    PROVE  d = e /\ i = j
<1>1. {SpotOffset, DexOffset, Stride} \subseteq Nat /\ SpotOffset <= DexOffset
  BY BuildAssumption
<1>2. Offset(d) \in Nat /\ Offset(e) \in Nat  BY OffsetBounds
<1>3. CASE d = e  BY <1>2, <1>3
<1>4. CASE d # e /\ (d = BaseDex \/ e = BaseDex)  BY <1>1, <1>2, <1>4, OffsetBounds
<1>5. CASE d # e /\ d # BaseDex /\ e # BaseDex
  <2>1. /\ Position(d) \in Int /\ response.dexNames[Position(d)] = d
        /\ Position(e) \in Int /\ response.dexNames[Position(e)] = e
    <3>1. Len(response.dexNames) \in Nat  BY DEF Answers
    <3>. QED  BY <1>5, <3>1, Hip3Place
  <2>2. CASE Position(d) < Position(e)  BY <1>1, <1>2, <1>5, <2>2, StrideApart
  <2>3. CASE Position(e) < Position(d)  BY <1>1, <1>2, <1>5, <2>3, StrideApart
  <2>4. Position(d) # Position(e)  BY <1>5, <2>1
  <2>. QED  BY <2>1, <2>2, <2>3, <2>4
<1>. QED  BY <1>3, <1>4, <1>5

-----------------------------------------------------------------------------
\* The item a loop is at has the fields the code requires.
LEMMA ItemTypes ==
    ASSUME TypeOK, LoopInv
    PROVE  /\ phase = "assets" => Dex \in DexNames
           /\ MoreAssets => Listing \in Asset
           /\ MoreMetas /\ Universe # <<>> => Universe[1] \in Asset /\ Dex \in DexNames
           /\ MorePairs => Market \in Pair
           /\ MorePairs /\ PairFits =>
                 tokensByIndex[Market.base] \in Token /\ tokensByIndex[Market.quote] \in Token
<1>1. /\ response.allPerpMetas \in Seq(Seq(Asset))
      /\ response.pairs \in Seq(Pair)
      /\ metaAt \in Nat \ {0} /\ assetIndex \in Nat /\ pairAt \in Nat \ {0}
      /\ tokensByIndex \in [DOMAIN tokensByIndex -> Token]
  BY DEF TypeOK, Answers
<1>2. DexOf \in [PerpNames -> DexNames]  BY BuildAssumption
<1>3. metaAt \in DOMAIN response.allPerpMetas => Universe \in Seq(Asset)
  BY <1>1 DEF Universe
<1>4. metaAt \in DOMAIN response.allPerpMetas /\ Universe # <<>>
         => Universe[1] \in Asset /\ Dex \in DexNames
  <2>1. ASSUME metaAt \in DOMAIN response.allPerpMetas, Universe # <<>>
        PROVE  Universe[1] \in Asset
    BY <1>3, <2>1
  <2>2. Universe[1] \in Asset => Universe[1].name \in PerpNames  BY DEF Asset
  <2>. QED  BY <1>2, <2>1, <2>2 DEF Dex
<1>5. MoreMetas => metaAt \in DOMAIN response.allPerpMetas
  BY <1>1 DEF MoreMetas
<1>6. phase = "assets" => metaAt \in DOMAIN response.allPerpMetas /\ Universe # <<>>
  BY DEF LoopInv
<1>7. MoreAssets => Listing \in Asset
  BY <1>1, <1>3, <1>6 DEF MoreAssets, Listing
<1>8. MorePairs => Market \in Pair
  BY <1>1 DEF MorePairs, Market
<1>9. PairFits => tokensByIndex[Market.base] \in Token /\ tokensByIndex[Market.quote] \in Token
  BY <1>1 DEF PairFits
<1>. QED  BY <1>4, <1>5, <1>6, <1>7, <1>8, <1>9

\* Every step keeps the types.
LEMMA TypeStep ==
    ASSUME TypeOK, LoopInv, [Next]_vars
    PROVE  TypeOK'
<1>. USE DEF cursor, spotWork, spotIndex, names
<1>1. CASE UNCHANGED vars  BY <1>1 DEF vars, TypeOK
<1>2. CASE CheckDexs  BY <1>2 DEF CheckDexs, TypeOK
<1>3. CASE SkipEmpty  BY <1>3 DEF SkipEmpty, TypeOK
<1>4. CASE EnterMeta  BY <1>4, ItemTypes DEF EnterMeta, TypeOK
<1>5. CASE IndexAsset
  <2>1. Listing.name \in PerpNames /\ Dex \in DexNames
    BY <1>5, ItemTypes DEF IndexAsset, MoreAssets, Asset
  <2>2. Offset(Dex) + assetIndex \in Int
    <3>1. DexNamesFit /\ Dex \in Declared  BY <1>5 DEF LoopInv, IndexAsset, MoreAssets
    <3>. QED  BY <3>1, OffsetBounds DEF TypeOK
  <2>3. /\ DOMAIN coinByAlias' \subseteq Names
        /\ DOMAIN assetByCoin' \subseteq PerpNames \cup PairNames
    BY <1>5, <2>1 DEF IndexAsset, TypeOK, Names, Put
  <2>4. assetByCoin' \in [DOMAIN assetByCoin' -> Int]
    BY <1>5, <2>2, PutType DEF IndexAsset, TypeOK
  <2>5. perpContextByCoin' \in [DOMAIN perpContextByCoin' -> DexNames \X Nat]
    <3>1. PerpContext(Dex, assetIndex) \in DexNames \X Nat
      BY <2>1 DEF PerpContext, TypeOK
    <3>. QED  BY <1>5, <3>1, PutType DEF IndexAsset, TypeOK
  <2>. QED  BY <1>5, <2>3, <2>4, <2>5 DEF IndexAsset, TypeOK
<1>6. CASE LeaveMeta  BY <1>6 DEF LeaveMeta, TypeOK
<1>7. CASE EndPerps  BY <1>7 DEF EndPerps, TypeOK
<1>8. CASE IndexTokens
  <2>1. Elements(response.tokens) \subseteq Token  BY DEF TypeOK, Answers, Elements
  <2>2. tokensByIndex' \in [DOMAIN tokensByIndex' -> Token]
    BY <1>8, <2>1 DEF IndexTokens
  <2>. QED  BY <1>8, <2>2 DEF IndexTokens, TypeOK
<1>9. CASE IndexPair
  <2>. DEFINE base == tokensByIndex[Market.base]
              quote == tokensByIndex[Market.quote]
              shown == Display(base.name, quote.name)
              own == Put(coinByAlias, Market.name, Market.name)
  <2>1. Market \in Pair /\ base \in Token /\ quote \in Token
    BY <1>9, ItemTypes DEF IndexPair
  <2>2. /\ Market.name \in PairNames /\ Market.index \in Int
        /\ base.name \in TokenNames /\ quote.name \in TokenNames
        /\ shown \in TokenNames \X TokenNames
    BY <2>1 DEF Pair, Token, Display
  <2>3. DOMAIN coinByAlias' \subseteq Names
    <3>1. coinByAlias' = SetDefault(SetDefault(own, shown, Market.name),
                                    quote.name, quote.name)
      BY <1>9 DEF IndexPair, NameAliases
    <3>2. DOMAIN coinByAlias'
            = DOMAIN coinByAlias \cup {Market.name} \cup {shown} \cup {quote.name}
      <4>. DEFINE two == SetDefault(own, shown, Market.name)
      <4>1. DOMAIN own = DOMAIN coinByAlias \cup {Market.name}  BY DEF Put
      <4>. HIDE DEF own
      <4>2. DOMAIN two = DOMAIN own \cup {shown}  BY DEF SetDefault, Put
      <4>3. coinByAlias' = SetDefault(two, quote.name, quote.name)  BY <3>1
      <4>. HIDE DEF two, quote, shown
      <4>4. DOMAIN coinByAlias' = DOMAIN two \cup {quote.name}
        BY <4>3 DEF SetDefault, Put
      <4>. QED  BY <4>1, <4>2, <4>4
    <3>. QED  BY <2>2, <3>2 DEF TypeOK, Names
  <2>4. /\ assetByCoin' \in [DOMAIN assetByCoin' -> Int]
        /\ DOMAIN assetByCoin' \subseteq PerpNames \cup PairNames
    <3>1. SpotOffset + Market.index \in Int  BY <2>2, BuildAssumption
    <3>2. assetByCoin' = Put(assetByCoin, Market.name, SpotOffset + Market.index)
      BY <1>9 DEF IndexPair
    <3>3. assetByCoin' \in [DOMAIN assetByCoin' -> Int]  BY <3>1, <3>2, PutType DEF TypeOK
    <3>4. DOMAIN assetByCoin' = DOMAIN assetByCoin \cup {Market.name}
      BY <3>2 DEF Put
    <3>. QED  BY <2>2, <3>3, <3>4 DEF TypeOK
  <2>5. spotTokenByCoin' \in [DOMAIN spotTokenByCoin' -> Token]
    <3>1. spotTokenByCoin' = SetDefault(Put(spotTokenByCoin, Market.name, base),
                                        quote.name, quote)
      BY <1>9 DEF IndexPair
    <3>. QED  BY <2>1, <3>1, PutType, SetDefaultType DEF TypeOK
  <2>6. /\ spotPairIndexes' \subseteq Int
        /\ spotMarketCoins' \subseteq PairNames
        /\ pairAt' \in Nat \ {0}
    BY <1>9, <2>2 DEF IndexPair, TypeOK
  <2>. QED  BY <1>9, <2>3, <2>4, <2>5, <2>6 DEF IndexPair, TypeOK
<1>10. CASE Return  BY <1>10 DEF Return, TypeOK
<1>11. CASE Reject  BY <1>11 DEF Reject, TypeOK
<1>. QED
  BY <1>1, <1>2, <1>3, <1>4, <1>5, <1>6, <1>7, <1>8, <1>9, <1>10, <1>11 DEF Next

\* Every step keeps the loops where they belong.
LEMMA LoopStep ==
    ASSUME TypeOK, LoopInv, [Next]_vars
    PROVE  LoopInv'
<1>. USE DEF cursor, spotWork, spotIndex, names
<1>1. response' = response
  BY DEF Next, vars, CheckDexs, SkipEmpty, EnterMeta, IndexAsset, LeaveMeta, EndPerps,
         IndexTokens, IndexPair, Return, Reject
<1>2. DexNamesFit' = DexNamesFit /\ Declared' = Declared  BY <1>1, ResponseStays
<1>3. metaAt' = metaAt => Universe' = Universe /\ Dex' = Dex
  BY <1>1 DEF Universe, Dex
<1>4. CASE UNCHANGED vars  BY <1>2, <1>3, <1>4 DEF vars, LoopInv
<1>5. CASE CheckDexs  BY <1>2, <1>5 DEF CheckDexs, LoopInv
<1>6. CASE EnterMeta
  <2>1. metaAt \in DOMAIN response.allPerpMetas
    BY <1>6 DEF EnterMeta, MoreMetas, TypeOK, Answers
  <2>2. Len(Universe) \in Nat
    BY <2>1 DEF TypeOK, Answers, Universe
  <2>3. Dex \in Declared /\ seen' = seen \cup {Dex}  BY <1>6 DEF EnterMeta, MetaFits
  <2>4. DexNamesFit  BY <1>6 DEF EnterMeta, MoreMetas, LoopInv
  <2>. QED  BY <1>1, <1>2, <1>3, <1>6, <2>1, <2>2, <2>3, <2>4 DEF EnterMeta, LoopInv
<1>7. CASE IndexAsset
  <2>1. assetIndex + 1 <= Len(Universe)
    <3>1. Len(Universe) \in Nat
      BY <1>7 DEF TypeOK, Answers, Universe, IndexAsset, MoreAssets, LoopInv
    <3>. QED  BY <1>7, <3>1 DEF IndexAsset, MoreAssets, TypeOK
  <2>. QED  BY <1>1, <1>2, <1>3, <1>7, <2>1 DEF IndexAsset, LoopInv
<1>8. CASE SkipEmpty \/ LeaveMeta
  BY <1>2, <1>8 DEF SkipEmpty, LeaveMeta, MoreMetas, LoopInv
<1>9. CASE EndPerps \/ IndexTokens \/ IndexPair \/ Return \/ Reject
  BY <1>2, <1>9 DEF EndPerps, IndexTokens, IndexPair, MorePairs, Return, Reject, LoopInv
<1>. QED  BY <1>4, <1>5, <1>6, <1>7, <1>8, <1>9 DEF Next

\* The response does not change.
LEMMA ResponseFixed == ASSUME [Next]_vars PROVE response' = response
BY DEF Next, vars, CheckDexs, SkipEmpty, EnterMeta, IndexAsset, LeaveMeta, EndPerps,
       IndexTokens, IndexPair, Return, Reject

\* A step that lists no perpetual keeps the places of those there are, if it lets no
\* DEX begin again.
LEMMA PlacesStay ==
    ASSUME PerpInv, response' = response, perpContextByCoin' = perpContextByCoin,
           seen \subseteq seen',
           \A c \in DOMAIN perpContextByCoin : assetByCoin'[c] = assetByCoin[c],
           \A c \in DOMAIN perpContextByCoin :
              phase' = "assets" /\ perpContextByCoin[c][1] = Dex'
                 => perpContextByCoin[c][2] < assetIndex'
    PROVE  PerpInv'
<1>1. RangesHold' = RangesHold /\ \A dex : Offset(dex)' = Offset(dex)  BY ResponseStays
<1>2. ASSUME NEW c \in DOMAIN perpContextByCoin
      PROVE  LET dex == perpContextByCoin[c][1]
                 index == perpContextByCoin[c][2]
             IN  /\ dex \in seen'
                 /\ assetByCoin'[c] = Offset(dex)' + index
                 /\ RangesHold' => index < Stride /\ (dex = BaseDex => index < SpotOffset)
                 /\ phase' = "assets" /\ dex = Dex' => index < assetIndex'
  BY <1>1, <1>2 DEF PerpInv
<1>3. \A b, c \in DOMAIN perpContextByCoin :
         perpContextByCoin[b] = perpContextByCoin[c] => b = c
  BY DEF PerpInv
<1>. QED  BY <1>2, <1>3 DEF PerpInv

\* Every step keeps every perpetual at a place of its own.
LEMMA PerpStep ==
    ASSUME TypeOK, LoopInv, MarketInv, PerpInv, [Next]_vars
    PROVE  PerpInv'
<1>. USE DEF cursor, spotWork, spotIndex, names
<1>1. response' = response  BY ResponseFixed
<1>2. \A c \in DOMAIN perpContextByCoin : c \in DOMAIN assetByCoin  BY DEF MarketInv
<1>3. metaAt' = metaAt => Dex' = Dex  BY <1>1 DEF Universe, Dex
<1>4. CASE UNCHANGED vars  BY <1>1, <1>3, <1>4, PlacesStay DEF vars, PerpInv
<1>5. CASE CheckDexs \/ SkipEmpty \/ LeaveMeta \/ EndPerps \/ IndexTokens \/ Return \/ Reject
  BY <1>1, <1>5, PlacesStay
     DEF CheckDexs, SkipEmpty, LeaveMeta, EndPerps, IndexTokens, Return, Reject, MoreMetas
<1>6. CASE EnterMeta
  <2>1. \A c \in DOMAIN perpContextByCoin : perpContextByCoin[c][1] # Dex
    BY <1>6 DEF EnterMeta, MetaFits, PerpInv
  <2>. QED  BY <1>1, <1>3, <1>6, <2>1, PlacesStay DEF EnterMeta
<1>7. CASE IndexPair
  <2>1. \A c \in DOMAIN assetByCoin : assetByCoin'[c] = assetByCoin[c]
    BY <1>7 DEF IndexPair, PairFits, Put
  <2>2. phase' = "pairs"  BY <1>7 DEF IndexPair, MorePairs
  <2>. QED  BY <1>1, <1>2, <1>7, <2>1, <2>2, PlacesStay DEF IndexPair
<1>8. CASE IndexAsset
  <2>. DEFINE coin == Listing.name
  <2>1. /\ coin \notin DOMAIN assetByCoin
        /\ coin \notin DOMAIN perpContextByCoin
        /\ DOMAIN perpContextByCoin' = DOMAIN perpContextByCoin \cup {coin}
        /\ perpContextByCoin'[coin] = <<Dex, assetIndex>>
        /\ assetByCoin'[coin] = Offset(Dex) + assetIndex
        /\ \A c \in DOMAIN perpContextByCoin :
              /\ perpContextByCoin'[c] = perpContextByCoin[c]
              /\ assetByCoin'[c] = assetByCoin[c]
    BY <1>2, <1>8 DEF IndexAsset, AssetFits, Put, PerpContext
  <2>2. /\ seen' = seen /\ Dex \in seen /\ Dex' = Dex
        /\ assetIndex' = assetIndex + 1 /\ assetIndex \in Nat
        /\ phase = "assets" /\ phase' = "assets"
    BY <1>3, <1>8 DEF IndexAsset, MoreAssets, LoopInv, TypeOK
  <2>3. RangesHold => assetIndex < Stride /\ (Dex = BaseDex => assetIndex < SpotOffset)
    <3>1. metaAt \in DOMAIN response.allPerpMetas /\ Universe # <<>> /\ Len(Universe) \in Nat
      BY <2>2 DEF LoopInv, TypeOK, Answers, Universe
    <3>2. assetIndex < Len(Universe)  BY <1>8 DEF IndexAsset, MoreAssets
    <3>3. RangesHold => Len(Universe) <= Stride /\ (Dex = BaseDex => Len(Universe) <= SpotOffset)
      BY <3>1 DEF RangesHold, Universe, Dex
    <3>. QED  BY <2>2, <3>1, <3>2, <3>3, BuildAssumption
  <2>4. RangesHold' = RangesHold /\ \A dex : Offset(dex)' = Offset(dex)
    BY <1>1, ResponseStays
  <2>5. \A c \in DOMAIN perpContextByCoin :
           perpContextByCoin[c] \in DexNames \X Nat
    BY DEF TypeOK
  <2>6. \A c \in DOMAIN perpContextByCoin :
           /\ perpContextByCoin[c] # <<Dex, assetIndex>>
           /\ perpContextByCoin[c][1] = Dex => perpContextByCoin[c][2] < assetIndex + 1
    BY <2>2, <2>5 DEF PerpInv
  <2>. HIDE DEF coin
  <2>7. ASSUME NEW c \in DOMAIN perpContextByCoin'
        PROVE  LET dex == perpContextByCoin'[c][1]
                   index == perpContextByCoin'[c][2]
               IN  /\ dex \in seen'
                   /\ assetByCoin'[c] = Offset(dex) + index
                   /\ RangesHold' => index < Stride /\ (dex = BaseDex => index < SpotOffset)
                   /\ phase' = "assets" /\ dex = Dex' => index < assetIndex'
    <3>1. CASE c = coin  BY <2>1, <2>2, <2>3, <2>4, <3>1
    <3>2. CASE c \in DOMAIN perpContextByCoin
      BY <2>1, <2>2, <2>4, <2>6, <3>2 DEF PerpInv
    <3>. QED  BY <2>1, <2>7, <3>1, <3>2
  <2>8. ASSUME NEW b \in DOMAIN perpContextByCoin', NEW c \in DOMAIN perpContextByCoin',
               perpContextByCoin'[b] = perpContextByCoin'[c]
        PROVE  b = c
    BY <2>1, <2>6, <2>8 DEF PerpInv
  <2>9. ASSUME NEW c PROVE Offset(perpContextByCoin[c][1])' = Offset(perpContextByCoin'[c][1])
    BY <1>1 DEF Offset, Position
  <2>. QED  BY <2>7, <2>8, <2>9 DEF PerpInv
<1>. QED  BY <1>4, <1>5, <1>6, <1>7, <1>8 DEF Next

\* Every step keeps the index of every spot pair its own.
LEMMA SpotStep ==
    ASSUME TypeOK, MarketInv, SpotInv, [Next]_vars
    PROVE  SpotInv'
<1>. USE DEF cursor, spotWork, spotIndex, names
<1>1. RangesHold' = RangesHold  BY ResponseFixed, ResponseStays
<1>2. \A c \in spotMarketCoins : c \in DOMAIN assetByCoin  BY DEF MarketInv
<1>3. CASE \/ CheckDexs \/ SkipEmpty \/ EnterMeta \/ LeaveMeta \/ EndPerps
           \/ IndexTokens \/ Return \/ Reject \/ UNCHANGED vars
  <2>1. UNCHANGED <<assetByCoin, spotMarketCoins, spotPairIndexes>>
    BY <1>3 DEF CheckDexs, SkipEmpty, EnterMeta, LeaveMeta, EndPerps, IndexTokens,
                Return, Reject, vars
  <2>. QED  BY <1>1, <2>1 DEF SpotInv
<1>4. CASE IndexAsset
  <2>1. \A c \in DOMAIN assetByCoin : assetByCoin'[c] = assetByCoin[c]
    BY <1>4 DEF IndexAsset, AssetFits, Put
  <2>2. UNCHANGED <<spotMarketCoins, spotPairIndexes>>  BY <1>4 DEF IndexAsset
  <2>. QED  BY <1>1, <1>2, <2>1, <2>2 DEF SpotInv
<1>5. CASE IndexPair
  <2>. DEFINE coin == Market.name
              index == Market.index
  <2>1. index \in Int /\ SpotOffset \in Nat
    <3>1. response.pairs \in Seq(Pair) /\ pairAt \in Nat \ {0} /\ pairAt <= Len(response.pairs)
      BY <1>5 DEF IndexPair, MorePairs, TypeOK, Answers
    <3>2. Market \in Pair  BY <3>1 DEF Market
    <3>. QED  BY <3>2, BuildAssumption DEF Pair
  <2>2. /\ coin \notin DOMAIN assetByCoin
        /\ assetByCoin'[coin] = SpotOffset + index
        /\ \A c \in DOMAIN assetByCoin : assetByCoin'[c] = assetByCoin[c]
        /\ index \notin spotPairIndexes
        /\ spotPairIndexes' = spotPairIndexes \cup {index}
        /\ spotMarketCoins' = spotMarketCoins \cup {coin}
    BY <1>5 DEF IndexPair, PairFits, Put
  <2>3. RangesHold => index \in 0 .. DexOffset - SpotOffset - 1
    BY <1>5 DEF IndexPair, MorePairs, Market, RangesHold, TypeOK, Answers
  <2>4. \A c \in spotMarketCoins : assetByCoin[c] \in Int  BY <1>2 DEF TypeOK
  <2>5. \A c \in spotMarketCoins : assetByCoin[c] # SpotOffset + index
    BY <2>1, <2>2, <2>4 DEF SpotInv
  <2>. HIDE DEF coin, index
  <2>6. \A c \in spotMarketCoins' : assetByCoin'[c] - SpotOffset \in spotPairIndexes'
    BY <1>2, <2>1, <2>2 DEF SpotInv
  <2>7. \A b, c \in spotMarketCoins' : assetByCoin'[b] = assetByCoin'[c] => b = c
    BY <1>2, <2>2, <2>5 DEF SpotInv
  <2>8. RangesHold' => spotPairIndexes' \subseteq 0 .. DexOffset - SpotOffset - 1
    BY <1>1, <2>2, <2>3 DEF SpotInv
  <2>. QED  BY <2>6, <2>7, <2>8 DEF SpotInv
<1>. QED  BY <1>3, <1>4, <1>5 DEF Next

\* Every step keeps markets apart and names true.
LEMMA MarketStep ==
    ASSUME MarketInv, [Next]_vars
    PROVE  MarketInv'
<1>. USE DEF cursor, spotWork, spotIndex, names
<1>1. CASE \/ CheckDexs \/ SkipEmpty \/ EnterMeta \/ LeaveMeta \/ EndPerps
           \/ IndexTokens \/ Return \/ Reject \/ UNCHANGED vars
  <2>1. UNCHANGED <<names, spotIndex, perpContextByCoin>>
    BY <1>1 DEF CheckDexs, SkipEmpty, EnterMeta, LeaveMeta, EndPerps, IndexTokens,
                Return, Reject, vars
  <2>. QED  BY <2>1 DEF MarketInv, NamesKeepTheirMarkets, AliasesAreTruthful
<1>2. CASE IndexAsset
  <2>. DEFINE coin == Listing.name
  <2>1. /\ coin \notin DOMAIN assetByCoin
        /\ DOMAIN assetByCoin' = DOMAIN assetByCoin \cup {coin}
        /\ DOMAIN symbolByCoin' = DOMAIN symbolByCoin \cup {coin}
        /\ DOMAIN perpContextByCoin' = DOMAIN perpContextByCoin \cup {coin}
        /\ DOMAIN coinByAlias' = DOMAIN coinByAlias \cup {coin}
        /\ coinByAlias'[coin] = coin
        /\ \A a \in DOMAIN coinByAlias \ {coin} : coinByAlias'[a] = coinByAlias[a]
        /\ \A c \in DOMAIN symbolByCoin \ {coin} : symbolByCoin'[c] = symbolByCoin[c]
        /\ UNCHANGED <<spotMarketCoins, spotTokenByCoin>>
    BY <1>2 DEF IndexAsset, AssetFits, Put
  <2>. HIDE DEF coin
  <2>2. NamesKeepTheirMarkets'  BY <2>1 DEF MarketInv, NamesKeepTheirMarkets
  <2>3. AliasesAreTruthful'  BY <2>1 DEF MarketInv, AliasesAreTruthful
  <2>. QED  BY <2>1, <2>2, <2>3 DEF MarketInv
<1>3. CASE IndexPair
  <2>. DEFINE coin == Market.name
              base == tokensByIndex[Market.base]
              quote == tokensByIndex[Market.quote]
              shown == Display(base.name, quote.name)
              own == Put(coinByAlias, coin, coin)
              two == SetDefault(own, shown, coin)
  <2>1. /\ coin \notin DOMAIN assetByCoin
        /\ DOMAIN assetByCoin' = DOMAIN assetByCoin \cup {coin}
        /\ DOMAIN symbolByCoin' = DOMAIN symbolByCoin \cup {coin}
        /\ symbolByCoin'[coin] = shown
        /\ \A c \in DOMAIN symbolByCoin \ {coin} : symbolByCoin'[c] = symbolByCoin[c]
        /\ spotMarketCoins' = spotMarketCoins \cup {coin}
        /\ perpContextByCoin' = perpContextByCoin
    BY <1>3 DEF IndexPair, PairFits, Put
  <2>2. coinByAlias' = SetDefault(two, quote.name, quote.name)
    BY <1>3 DEF IndexPair, NameAliases
  <2>3. DOMAIN spotTokenByCoin \cup {coin, quote.name} \subseteq DOMAIN spotTokenByCoin'
    BY <1>3 DEF IndexPair, Put, SetDefault
  <2>4. /\ DOMAIN own = DOMAIN coinByAlias \cup {coin}
        /\ own[coin] = coin
        /\ \A a \in DOMAIN coinByAlias \ {coin} : own[a] = coinByAlias[a]
    BY DEF Put
  <2>. HIDE DEF coin, base, quote, shown, own
  <2>5. /\ DOMAIN two = DOMAIN own \cup {shown}
        /\ \A a \in DOMAIN own : two[a] = own[a]
        /\ shown \notin DOMAIN own => two[shown] = coin
    BY DEF SetDefault, Put
  <2>. HIDE DEF two
  <2>6. /\ DOMAIN coinByAlias' = DOMAIN two \cup {quote.name}
        /\ \A a \in DOMAIN two : coinByAlias'[a] = two[a]
        /\ quote.name \notin DOMAIN two => coinByAlias'[quote.name] = quote.name
    BY <2>2 DEF SetDefault, Put
  <2>7. NamesKeepTheirMarkets'
    BY <2>1, <2>4, <2>5, <2>6 DEF MarketInv, NamesKeepTheirMarkets
  <2>8. AliasesAreTruthful'
    <3>1. SUFFICES ASSUME NEW a \in DOMAIN coinByAlias'
          PROVE  \/ /\ coinByAlias'[a] = a
                    /\ a \in DOMAIN assetByCoin' \/ a \in DOMAIN spotTokenByCoin'
                 \/ /\ coinByAlias'[a] \in spotMarketCoins'
                    /\ symbolByCoin'[coinByAlias'[a]] = a
      BY DEF AliasesAreTruthful
    <3>2. CASE a = coin  BY <2>1, <2>4, <2>5, <2>6, <3>2
    <3>3. CASE a # coin /\ a \in DOMAIN coinByAlias
      <4>1. coinByAlias'[a] = coinByAlias[a]  BY <2>4, <2>5, <2>6, <3>3
      <4>. QED  BY <2>1, <2>3, <3>3, <4>1 DEF MarketInv, AliasesAreTruthful
    <3>4. CASE a \notin DOMAIN own /\ a = shown  BY <2>1, <2>5, <2>6, <3>4
    <3>5. CASE a \notin DOMAIN two /\ a = quote.name  BY <2>3, <2>6, <3>5
    <3>. QED  BY <2>4, <2>5, <2>6, <3>2, <3>3, <3>4, <3>5
  <2>. QED
    <3>1. coin \notin DOMAIN perpContextByCoin  BY <2>1 DEF MarketInv
    <3>. QED  BY <2>1, <2>7, <2>8, <3>1 DEF MarketInv
<1>. QED  BY <1>1, <1>2, <1>3 DEF Next

\* Construction starts with nothing listed.
LEMMA InitBuilds == Init => BuildInv
<1>. USE DEF Init, NoEntries
<1>1. Init => TypeOK
  <2>1. Init => response \in Answers  BY BuildAssumption
  <2>. QED  BY <2>1 DEF TypeOK
<1>2. Init => LoopInv  BY DEF LoopInv
<1>3. Init => PerpInv  BY DEF PerpInv
<1>4. Init => SpotInv  BY DEF SpotInv
<1>5. Init => MarketInv  BY DEF MarketInv, NamesKeepTheirMarkets, AliasesAreTruthful
<1>. QED  BY <1>1, <1>2, <1>3, <1>4, <1>5 DEF BuildInv

\* BuildInv is inductive.
LEMMA StepBuilds == BuildInv /\ [Next]_vars => BuildInv'
BY TypeStep, LoopStep, PerpStep, SpotStep, MarketStep DEF BuildInv

\* BuildInv holds whatever the provider answers.
THEOREM BuildInvariant == Spec => []BuildInv
BY InitBuilds, StepBuilds, PTL DEF Spec

\* Types of all that is indexed (metadata.py 100-251), for responses of every size.
THEOREM BuildTypeCorrect == Spec => []TypeOK
<1>1. BuildInv => TypeOK  BY DEF BuildInv
<1>. QED  BY <1>1, BuildInvariant, PTL

\* As long as no range is exceeded, perpetuals, spot pairs and outcome markets never
\* share an id, whatever the number and sizes of the DEXes (metadata.py 100-114,
\* 143, 217, 273).
THEOREM AssetsAreDistinct == Spec => []AssetMeansOneMarket
<1>1. ASSUME BuildInv, RangesHold PROVE AssetMeansOneMarket
  <2>. USE <1>1 DEF BuildInv
  <2>1. response \in Answers  BY DEF TypeOK
  <2>2. {SpotOffset, DexOffset, Stride, OutcomeOffset} \subseteq Nat
        /\ SpotOffset <= DexOffset /\ DexOffset <= OutcomeOffset
    BY BuildAssumption
  <2>3. ASSUME NEW c \in DOMAIN perpContextByCoin
        PROVE  LET dex == perpContextByCoin[c][1]
                   index == perpContextByCoin[c][2]
               IN  /\ DexNamesFit /\ dex \in Declared /\ index \in Nat
                   /\ assetByCoin[c] = Offset(dex) + index
                   /\ index < Stride /\ (dex = BaseDex => index < SpotOffset)
                   /\ perpContextByCoin[c] = <<dex, index>>
    <3>1. perpContextByCoin[c] \in DexNames \X Nat  BY DEF TypeOK
    <3>. QED  BY <3>1 DEF PerpInv, LoopInv
  <2>4. ASSUME NEW c \in DOMAIN perpContextByCoin
        PROVE  /\ assetByCoin[c] \in Nat
               /\ assetByCoin[c] < SpotOffset \/ assetByCoin[c] >= DexOffset
               /\ assetByCoin[c] < OutcomeOffset
    <3>. DEFINE dex == perpContextByCoin[c][1]
                index == perpContextByCoin[c][2]
    <3>1. /\ DexNamesFit /\ dex \in Declared /\ index \in Nat
          /\ assetByCoin[c] = Offset(dex) + index
          /\ index < Stride /\ (dex = BaseDex => index < SpotOffset)
      BY <2>3
    <3>. HIDE DEF dex, index
    <3>. QED  BY <2>1, <2>2, <3>1, OffsetBounds
  <2>5. ASSUME NEW c \in spotMarketCoins
        PROVE  assetByCoin[c] \in Int /\ SpotOffset <= assetByCoin[c] /\ assetByCoin[c] < DexOffset
    <3>1. assetByCoin[c] \in Int  BY DEF TypeOK, MarketInv
    <3>2. assetByCoin[c] - SpotOffset \in 0 .. DexOffset - SpotOffset - 1
      BY DEF SpotInv
    <3>. QED  BY <2>2, <3>1, <3>2
  <2>6. ASSUME NEW b \in DOMAIN perpContextByCoin, NEW c \in DOMAIN perpContextByCoin,
               assetByCoin[b] = assetByCoin[c]
        PROVE  b = c
    <3>. DEFINE d == perpContextByCoin[b][1]
                i == perpContextByCoin[b][2]
                e == perpContextByCoin[c][1]
                j == perpContextByCoin[c][2]
    <3>1. /\ DexNamesFit /\ d \in Declared /\ i \in Nat /\ e \in Declared /\ j \in Nat
          /\ Offset(d) + i = Offset(e) + j
          /\ i < Stride /\ (d = BaseDex => i < SpotOffset)
          /\ j < Stride /\ (e = BaseDex => j < SpotOffset)
          /\ perpContextByCoin[b] = <<d, i>> /\ perpContextByCoin[c] = <<e, j>>
      BY <2>3, <2>6
    <3>. HIDE DEF d, i, e, j
    <3>2. d = e /\ i = j  BY <2>1, <3>1, OffsetsApart
    <3>. QED  BY <3>1, <3>2 DEF PerpInv
  <2>7. ASSUME NEW b \in DOMAIN assetByCoin, NEW c \in DOMAIN assetByCoin,
               assetByCoin[b] = assetByCoin[c]
        PROVE  b = c
    <3>1. DOMAIN assetByCoin = DOMAIN perpContextByCoin \cup spotMarketCoins
      BY DEF MarketInv
    <3>2. CASE b \in DOMAIN perpContextByCoin /\ c \in DOMAIN perpContextByCoin
      BY <2>6, <2>7, <3>2
    <3>3. CASE b \in spotMarketCoins /\ c \in spotMarketCoins
      BY <2>7, <3>3 DEF SpotInv
    <3>4. CASE b \in DOMAIN perpContextByCoin /\ c \in spotMarketCoins
      BY <2>2, <2>4, <2>5, <2>7, <3>4
    <3>5. CASE b \in spotMarketCoins /\ c \in DOMAIN perpContextByCoin
      BY <2>2, <2>4, <2>5, <2>7, <3>5
    <3>. QED  BY <3>1, <3>2, <3>3, <3>4, <3>5
  <2>8. ASSUME NEW c \in DOMAIN assetByCoin, NEW e \in OutcomeEncodings
        PROVE  assetByCoin[c] # OutcomeAsset(e)
    <3>1. e \in Nat  BY BuildAssumption DEF OutcomeEncodings
    <3>2. c \in DOMAIN perpContextByCoin \/ c \in spotMarketCoins  BY DEF MarketInv
    <3>3. assetByCoin[c] \in Int /\ assetByCoin[c] < OutcomeOffset
      BY <2>2, <2>4, <2>5, <3>2
    <3>. QED  BY <2>2, <3>1, <3>3 DEF OutcomeAsset
  <2>. QED  BY <2>7, <2>8 DEF AssetMeansOneMarket
<1>2. BuildInv => AssetMeansOneMarket  BY <1>1 DEF AssetMeansOneMarket
<1>. QED  BY <1>2, BuildInvariant, PTL

\* A listed market keeps its own name (metadata.py 145, 219-221).
THEOREM NamesAreKept == Spec => []NamesKeepTheirMarkets
<1>1. BuildInv => NamesKeepTheirMarkets  BY DEF BuildInv, MarketInv
<1>. QED  BY <1>1, BuildInvariant, PTL

\* No alias leads to a market that does not show it (metadata.py 219-221).
THEOREM AliasesLeadHome == Spec => []AliasesAreTruthful
<1>1. BuildInv => AliasesAreTruthful  BY DEF BuildInv, MarketInv
<1>. QED  BY <1>1, BuildInvariant, PTL

-----------------------------------------------------------------------------
(* A snapshot comes of responses that fit together, and of no others.      *)

\* The places of allPerpMetas.
LEMMA PlaceShape ==
    ASSUME response \in Answers, NEW p \in Positions
    PROVE  /\ p = <<p[1], p[2]>>
           /\ p[1] \in 1 .. Len(response.allPerpMetas)
           /\ p[2] \in 1 .. Len(response.allPerpMetas[p[1]])
           /\ Len(response.allPerpMetas) \in Nat
           /\ Len(response.allPerpMetas[p[1]]) \in Nat
<1>1. PICK m \in DOMAIN response.allPerpMetas : p \in {m} \X DOMAIN response.allPerpMetas[m]
  BY DEF Positions
<1>2. response.allPerpMetas \in Seq(Seq(Asset))  BY DEF Answers
<1>3. response.allPerpMetas[m] \in Seq(Asset)  BY <1>1, <1>2
<1>4. p[1] = m /\ p[2] \in DOMAIN response.allPerpMetas[m] /\ p = <<p[1], p[2]>>  BY <1>1
<1>. QED  BY <1>1, <1>2, <1>3, <1>4

LEMMA PlaceIs ==
    ASSUME NEW m \in DOMAIN response.allPerpMetas,
           NEW i \in DOMAIN response.allPerpMetas[m]
    PROVE  /\ <<m, i>> \in Positions
           /\ At(<<m, i>>) = response.allPerpMetas[m][i]
<1>1. <<m, i>> \in {m} \X DOMAIN response.allPerpMetas[m]  OBVIOUS
<1>. QED  BY <1>1 DEF Positions, At

\* The place a loop is at.
LEMMA PlaceAtHand ==
    ASSUME TypeOK, LoopInv
    PROVE  /\ MoreMetas /\ Universe # <<>> =>
                 <<metaAt, 1>> \in Positions /\ At(<<metaAt, 1>>) = Universe[1]
           /\ phase = "assets" =>
                 <<metaAt, 1>> \in Positions /\ At(<<metaAt, 1>>) = Universe[1]
           /\ MoreAssets =>
                 /\ <<metaAt, assetIndex + 1>> \in Positions
                 /\ At(<<metaAt, assetIndex + 1>>) = Listing
<1>1. response.allPerpMetas \in Seq(Seq(Asset)) /\ metaAt \in Nat \ {0} /\ assetIndex \in Nat
  BY DEF TypeOK, Answers
<1>2. metaAt \in DOMAIN response.allPerpMetas =>
         Universe \in Seq(Asset) /\ DOMAIN Universe = 1 .. Len(Universe) /\ Len(Universe) \in Nat
  BY <1>1 DEF Universe
<1>3. ASSUME metaAt \in DOMAIN response.allPerpMetas, Universe # <<>>
      PROVE  <<metaAt, 1>> \in Positions /\ At(<<metaAt, 1>>) = Universe[1]
  <2>1. 1 \in DOMAIN Universe  BY <1>2, <1>3
  <2>. QED  BY <1>3, <2>1, PlaceIs DEF Universe
<1>4. MoreMetas => metaAt \in DOMAIN response.allPerpMetas  BY <1>1 DEF MoreMetas
<1>5. phase = "assets" => metaAt \in DOMAIN response.allPerpMetas /\ Universe # <<>>
  BY DEF LoopInv
<1>6. ASSUME MoreAssets
      PROVE  /\ <<metaAt, assetIndex + 1>> \in Positions
             /\ At(<<metaAt, assetIndex + 1>>) = Listing
  <2>1. metaAt \in DOMAIN response.allPerpMetas  BY <1>5, <1>6 DEF MoreAssets
  <2>2. assetIndex + 1 \in DOMAIN Universe  BY <1>1, <1>2, <1>6, <2>1 DEF MoreAssets
  <2>. QED  BY <2>1, <2>2, PlaceIs DEF Universe, Listing
<1>. QED  BY <1>3, <1>4, <1>5, <1>6

\* Only the loop over assets lists places, and one at a time.
LEMMA ListedStep ==
    ASSUME TypeOK, LoopInv, Next
    PROVE  /\ Positions' = Positions
           /\ \A p : At(p)' = At(p)
           /\ phase' # "rejected" /\ ~IndexAsset => Listed' = Listed
           /\ IndexAsset => Listed' = Listed \cup {<<metaAt, assetIndex + 1>>}
<1>. USE DEF cursor
<1>1. response' = response  BY ResponseFixed
<1>2. Positions' = Positions /\ \A p : At(p)' = At(p)  BY <1>1 DEF Positions, At
<1>3. response \in Answers /\ metaAt \in Nat /\ assetIndex \in Nat  BY DEF TypeOK
<1>4. CASE \/ CheckDexs \/ EndPerps \/ IndexTokens \/ IndexPair \/ Return
  <2>1. metaAt' = metaAt /\ phase # "assets" /\ phase' # "assets"
    BY <1>4 DEF CheckDexs, EndPerps, PerpsDone, IndexTokens, IndexPair, MorePairs, Return
  <2>2. ~IndexAsset  BY <2>1 DEF IndexAsset, MoreAssets
  <2>. QED  BY <1>2, <2>1, <2>2 DEF Listed
<1>5. CASE SkipEmpty
  <2>1. metaAt' = metaAt + 1 /\ phase = "metas" /\ phase' = "metas"
        /\ response.allPerpMetas[metaAt] = <<>>
    BY <1>5 DEF SkipEmpty, MoreMetas, Universe
  <2>2. ASSUME NEW p \in Positions PROVE p[1] < metaAt + 1 <=> p[1] < metaAt
    <3>1. p[1] # metaAt  BY <1>3, <2>1, PlaceShape
    <3>. QED  BY <1>3, <3>1, PlaceShape
  <2>3. ~IndexAsset  BY <2>1 DEF IndexAsset, MoreAssets
  <2>. QED  BY <1>2, <2>1, <2>2, <2>3 DEF Listed
<1>6. CASE EnterMeta
  <2>1. metaAt' = metaAt /\ assetIndex' = 0 /\ phase = "metas" /\ phase' = "assets"
    BY <1>6 DEF EnterMeta, MoreMetas
  <2>2. \A p \in Positions : ~(p[2] <= 0)  BY <1>3, PlaceShape
  <2>3. ~IndexAsset  BY <2>1 DEF IndexAsset, MoreAssets
  <2>. QED  BY <1>2, <2>1, <2>2, <2>3 DEF Listed
<1>7. CASE LeaveMeta
  <2>1. metaAt' = metaAt + 1 /\ phase = "assets" /\ phase' = "metas"
        /\ assetIndex = Len(response.allPerpMetas[metaAt])
    BY <1>7 DEF LeaveMeta, Universe
  <2>2. ASSUME NEW p \in Positions
        PROVE  p[1] < metaAt + 1 <=> p[1] < metaAt \/ (p[1] = metaAt /\ p[2] <= assetIndex)
    BY <1>3, <2>1, PlaceShape
  <2>3. ~IndexAsset  BY <1>3, <2>1 DEF IndexAsset, MoreAssets, Universe
  <2>. QED  BY <1>2, <2>1, <2>2, <2>3 DEF Listed
<1>8. CASE IndexAsset
  <2>1. /\ metaAt' = metaAt /\ assetIndex' = assetIndex + 1
        /\ phase = "assets" /\ phase' = "assets"
    BY <1>8 DEF IndexAsset, MoreAssets
  <2>2. <<metaAt, assetIndex + 1>> \in Positions  BY <1>8, PlaceAtHand DEF IndexAsset
  <2>3. ASSUME NEW p \in Positions
        PROVE  p[1] = metaAt /\ p[2] <= assetIndex + 1 <=>
                  (p[1] = metaAt /\ p[2] <= assetIndex) \/ p = <<metaAt, assetIndex + 1>>
    <3>1. p = <<p[1], p[2]>> /\ p[2] \in Int  BY <1>3, PlaceShape
    <3>2. p[2] <= assetIndex + 1 <=> p[2] <= assetIndex \/ p[2] = assetIndex + 1
      BY <1>3, <3>1
    <3>. QED  BY <3>1, <3>2
  <2>. QED  BY <1>2, <1>8, <2>1, <2>2, <2>3 DEF Listed
<1>9. CASE Reject
  <2>1. ASSUME IndexAsset PROVE FALSE
    BY <1>9, <2>1 DEF Reject, IndexAsset, MoreAssets
  <2>. QED  BY <1>2, <1>9, <2>1 DEF Reject
<1>. QED  BY <1>4, <1>5, <1>6, <1>7, <1>8, <1>9 DEF Next

\* After the loops over perpetuals all places are listed.
LEMMA AllListed ==
    ASSUME TypeOK, metaAt > Len(response.allPerpMetas)
    PROVE  Listed = Positions
<1>1. response \in Answers /\ metaAt \in Nat  BY DEF TypeOK
<1>2. \A p \in Positions : p[1] < metaAt  BY <1>1, PlaceShape
<1>. QED  BY <1>2 DEF Listed

\* What is rejected does not fit together.
LEMMA RejectStep ==
    ASSUME TypeOK, LoopInv, CheckedInv, Reject
    PROVE  ~Consistent
<1>1. phase # "rejected"  BY DEF Reject, MoreMetas, MoreAssets, PerpsDone, MorePairs
<1>2. StageInv /\ DexsInv /\ PairsInv /\ IndexedInv  BY <1>1 DEF CheckedInv
<1>3. response \in Answers /\ metaAt \in Nat /\ assetIndex \in Nat  BY DEF TypeOK
<1>4. CASE phase = "dexs" /\ ~DexNamesFit  BY <1>4 DEF DexNamesFit, Consistent
<1>5. CASE MoreMetas /\ Universe # <<>> /\ ~MetaFits
  <2>. DEFINE p == <<metaAt, 1>>
  <2>1. p \in Positions /\ At(p) = Universe[1]  BY <1>5, PlaceAtHand
  <2>2. DexOf[At(p).name] = Dex  BY <2>1 DEF Dex
  <2>3. CASE ~Universe[1].valid  BY <2>1, <2>3 DEF Consistent
  <2>4. CASE Dex \in seen
    <3>1. PICK q \in Positions : DexOf[At(q).name] = Dex /\ q[1] < metaAt
      BY <1>2, <1>5, <2>4 DEF DexsInv, MoreMetas
    <3>2. q[1] # p[1]  BY <1>3, <3>1, PlaceShape
    <3>. QED  BY <2>1, <2>2, <3>1, <3>2 DEF Consistent
  <2>5. CASE Dex \notin Declared  BY <2>1, <2>2, <2>5 DEF Consistent
  <2>. QED  BY <1>5, <2>3, <2>4, <2>5 DEF MetaFits
<1>6. CASE MoreAssets /\ ~AssetFits
  <2>. DEFINE p == <<metaAt, assetIndex + 1>>
              q == <<metaAt, 1>>
  <2>1. /\ p \in Positions /\ At(p) = Listing
        /\ q \in Positions /\ At(q) = Universe[1]
    BY <1>6, PlaceAtHand DEF MoreAssets
  <2>2. p[1] = q[1] /\ DexOf[At(q).name] = Dex  BY <2>1 DEF Dex
  <2>3. CASE ~Listing.valid  BY <2>1, <2>3 DEF Consistent
  <2>4. CASE DexOf[Listing.name] # Dex  BY <2>1, <2>2, <2>4 DEF Consistent
  <2>5. CASE Listing.name \in DOMAIN assetByCoin
    <3>1. Paired = {}
      <4>1. pairAt = 1  BY <1>2, <1>6 DEF StageInv, MoreAssets
      <4>. QED  BY <1>3, <4>1 DEF Paired, Answers
    <3>2. PICK r \in Listed : At(r).name = Listing.name
      BY <1>2, <2>5, <3>1 DEF IndexedInv
    <3>3. r # p  BY <1>3, <3>2 DEF Listed
    <3>4. r \in Positions  BY DEF Listed
    <3>. QED  BY <2>1, <3>2, <3>3, <3>4 DEF Consistent
  <2>. QED  BY <1>6, <2>3, <2>4, <2>5 DEF AssetFits
<1>7. CASE PerpsDone /\ seen # Declared
  <2>1. Listed = Positions  BY <1>7, AllListed DEF PerpsDone
  <2>2. \A p \in Positions : DexOf[At(p).name] \in seen  BY <1>2, <2>1 DEF DexsInv
  <2>3. \A dex \in seen : \E p \in Positions : DexOf[At(p).name] = dex
    BY <1>2 DEF DexsInv
  <2>4. {DexOf[At(p).name] : p \in Positions} = seen  BY <2>2, <2>3
  <2>. QED  BY <1>7, <2>4 DEF Consistent
<1>8. CASE phase = "tokens" /\ ~TokensFit
  <2>1. ASSUME Consistent PROVE TokensFit
    <3>. DEFINE f == [i \in DOMAIN response.tokens |-> response.tokens[i].index]
    <3>1. Distinct(f) /\ \A i \in DOMAIN response.tokens : response.tokens[i].valid
      BY <2>1 DEF Consistent
    <3>2. \A i, j \in DOMAIN response.tokens : f[i] = f[j] => i = j
      BY <3>1 DEF Distinct
    <3>. QED  BY <3>1, <3>2 DEF TokensFit
  <2>. QED  BY <1>8, <2>1
<1>9. CASE MorePairs /\ ~PairFits
  <2>1. phase = "pairs" /\ pairAt \in DOMAIN response.pairs
    BY <1>9 DEF MorePairs, TypeOK, Answers
  <2>2. \A i \in Paired : i \in DOMAIN response.pairs \ {pairAt}
    BY <1>3 DEF Paired, Answers
  <2>3. DOMAIN tokensByIndex = {t.index : t \in Elements(response.tokens)}
    BY <1>2, <2>1 DEF StageInv
  <2>4. ASSUME Consistent PROVE PairFits
    <3>1. /\ Market.valid
          /\ TokenAt(Market.base) # {} /\ TokenAt(Market.quote) # {}
          /\ \A p \in Positions : At(p).name # Market.name
          /\ \A j \in DOMAIN response.pairs \ {pairAt} :
                /\ response.pairs[j].name # Market.name
                /\ response.pairs[j].index # Market.index
      BY <2>1, <2>4 DEF Consistent, Market
    <3>2. {Market.base, Market.quote} \subseteq DOMAIN tokensByIndex
      BY <2>3, <3>1 DEF TokenAt
    <3>3. Market.name \notin DOMAIN assetByCoin
      BY <1>2, <2>2, <3>1 DEF IndexedInv, Listed
    <3>4. Market.index \notin spotPairIndexes
      BY <1>2, <2>2, <3>1 DEF PairsInv
    <3>. QED  BY <3>1, <3>2, <3>3, <3>4 DEF PairFits
  <2>. QED  BY <1>9, <2>4
<1>. QED  BY <1>4, <1>5, <1>6, <1>7, <1>8, <1>9 DEF Reject

\* Each loop begins when the one before it has found nothing wrong.
LEMMA StageStep ==
    ASSUME TypeOK, StageInv, Next, phase' # "rejected"
    PROVE  StageInv'
<1>. USE DEF cursor, spotWork
<1>1. /\ response' = response /\ DexNamesFit' = DexNamesFit /\ Declared' = Declared
      /\ TokensFit' = TokensFit
  BY ResponseFixed DEF DexNamesFit, Distinct, Declared, Elements, TokensFit
<1>2. CASE CheckDexs  BY <1>1, <1>2 DEF CheckDexs, StageInv
<1>3. CASE SkipEmpty  BY <1>1, <1>3 DEF SkipEmpty, MoreMetas, StageInv
<1>4. CASE EnterMeta  BY <1>1, <1>4 DEF EnterMeta, MoreMetas, StageInv
<1>5. CASE IndexAsset  BY <1>1, <1>5 DEF IndexAsset, MoreAssets, StageInv
<1>6. CASE LeaveMeta  BY <1>1, <1>6 DEF LeaveMeta, StageInv
<1>7. CASE EndPerps  BY <1>1, <1>7 DEF EndPerps, PerpsDone, StageInv
<1>8. CASE IndexTokens  BY <1>1, <1>8 DEF IndexTokens, StageInv
<1>9. CASE IndexPair  BY <1>1, <1>9 DEF IndexPair, MorePairs, StageInv
<1>10. CASE Return  BY <1>1, <1>10 DEF Return, StageInv
<1>11. CASE Reject  BY <1>11 DEF Reject
<1>. QED  BY <1>2, <1>3, <1>4, <1>5, <1>6, <1>7, <1>8, <1>9, <1>10, <1>11 DEF Next

\* A DEX is entered once, and only its assets are listed in its turn.
LEMMA DexsStep ==
    ASSUME TypeOK, LoopInv, StageInv, DexsInv, IndexedInv, Next, phase' # "rejected"
    PROVE  DexsInv'
<1>. USE DEF cursor
<1>1. response' = response /\ Positions' = Positions /\ \A p : At(p)' = At(p)
  BY ResponseFixed, ListedStep
<1>2. response \in Answers /\ metaAt \in Nat /\ assetIndex \in Nat  BY DEF TypeOK
<1>3. \A p \in Positions : p[1] \in Int  BY <1>2, PlaceShape
<1>4. CASE \/ CheckDexs \/ EndPerps \/ IndexTokens \/ IndexPair \/ Return \/ SkipEmpty
  <2>1. /\ phase # "assets" /\ phase' # "assets" /\ seen' = seen
        /\ metaAt' = metaAt \/ metaAt' = metaAt + 1
    BY <1>4 DEF CheckDexs, EndPerps, PerpsDone, IndexTokens, IndexPair, MorePairs, Return,
                SkipEmpty, MoreMetas
  <2>2. Listed' = Listed  BY <1>4, <2>1, ListedStep DEF IndexAsset, MoreAssets
  <2>. QED  BY <1>1, <1>2, <1>3, <2>1, <2>2 DEF DexsInv
<1>5. CASE EnterMeta
  <2>1. /\ phase = "metas" /\ phase' = "assets" /\ metaAt' = metaAt
        /\ seen' = seen \cup {Dex} /\ Dex \notin seen
        /\ <<metaAt, 1>> \in Positions /\ At(<<metaAt, 1>>) = Universe[1]
    BY <1>5, PlaceAtHand DEF EnterMeta, MoreMetas, MetaFits
  <2>2. Listed' = Listed /\ Dex' = Dex
    BY <1>1, <2>1, ListedStep DEF IndexAsset, MoreAssets, Dex, Universe
  <2>3. \A p \in Listed : p \in Positions /\ p[1] < metaAt  BY <2>1 DEF Listed
  <2>4. \A p \in Listed : DexOf[At(p).name] # Dex /\ p[1] # metaAt
    BY <1>2, <1>3, <2>1, <2>3 DEF DexsInv
  <2>5. ASSUME NEW dex \in seen'
        PROVE  \E p \in Positions : DexOf[At(p).name] = dex /\ p[1] <= metaAt
    <3>1. CASE dex = Dex  BY <1>2, <2>1, <3>1 DEF Dex
    <3>2. CASE dex \in seen  BY <1>2, <1>3, <2>1, <3>2 DEF DexsInv
    <3>. QED  BY <2>1, <3>1, <3>2
  <2>6. ASSUME NEW p \in Positions, p[1] <= metaAt PROVE p[1] < metaAt \/ p[1] = metaAt
    BY <1>2, <1>3, <2>6
  <2>. QED  BY <1>1, <2>1, <2>2, <2>4, <2>5, <2>6 DEF DexsInv
<1>6. CASE LeaveMeta
  <2>1. /\ phase = "assets" /\ phase' = "metas" /\ metaAt' = metaAt + 1 /\ seen' = seen
        /\ assetIndex = Len(Universe)
    BY <1>6 DEF LeaveMeta
  <2>2. Listed' = Listed
    <3>1. ~IndexAsset  BY <2>1 DEF IndexAsset
    <3>. QED  BY <3>1, ListedStep
  <2>3. \A p \in Positions : p[1] < metaAt \/ p[1] = metaAt => p[1] < metaAt + 1
    BY <1>2, <1>3
  <2>. QED  BY <1>1, <2>1, <2>2, <2>3 DEF DexsInv
<1>7. CASE IndexAsset
  <2>. DEFINE n == <<metaAt, assetIndex + 1>>
  <2>1. /\ phase = "assets" /\ phase' = "assets" /\ metaAt' = metaAt /\ seen' = seen
        /\ n \in Positions /\ At(n) = Listing
        /\ Listing.valid /\ DexOf[Listing.name] = Dex
        /\ Listing.name \notin DOMAIN assetByCoin
    BY <1>7, PlaceAtHand DEF IndexAsset, MoreAssets, AssetFits
  <2>2. Listed' = Listed \cup {n} /\ Dex' = Dex
    BY <1>1, <1>7, <2>1, ListedStep DEF Dex, Universe
  <2>3. Dex \in seen /\ n[1] = metaAt  BY <2>1 DEF LoopInv
  <2>4. \A q \in Listed : At(q).name # At(n).name  BY <2>1 DEF IndexedInv
  <2>5. \A q \in Listed : DexOf[At(q).name] = DexOf[At(n).name] <=> q[1] = n[1]
    BY <2>1, <2>3 DEF DexsInv
  <2>. HIDE DEF n
  <2>6. \A p, q \in Listed' :
           /\ At(p).name = At(q).name => p = q
           /\ DexOf[At(p).name] = DexOf[At(q).name] <=> p[1] = q[1]
    BY <2>2, <2>4, <2>5 DEF DexsInv
  <2>7. \A p \in Listed' :
           /\ At(p).valid /\ DexOf[At(p).name] \in seen
           /\ DexOf[At(p).name] = Dex <=> p[1] = metaAt
    BY <2>1, <2>2, <2>3 DEF DexsInv
  <2>. QED  BY <1>1, <2>1, <2>2, <2>6, <2>7 DEF DexsInv
<1>8. CASE Reject  BY <1>8 DEF Reject
<1>. QED  BY <1>4, <1>5, <1>6, <1>7, <1>8 DEF Next

\* A pair is indexed if it has its tokens and neither name nor index of another market.
LEMMA PairsStep ==
    ASSUME TypeOK, LoopInv, StageInv, PairsInv, IndexedInv, Next, phase' # "rejected"
    PROVE  PairsInv' /\ Paired' = IF IndexPair THEN Paired \cup {pairAt} ELSE Paired
<1>. USE DEF cursor, spotWork
<1>1. /\ response' = response /\ Positions' = Positions /\ \A p : At(p)' = At(p)
      /\ \A n : TokenAt(n)' = TokenAt(n)
  BY ResponseFixed, ListedStep DEF TokenAt, Elements
<1>2. response.pairs \in Seq(Pair) /\ pairAt \in Nat \ {0}  BY DEF TypeOK, Answers
<1>3. CASE IndexPair
  <2>1. /\ phase = "pairs" /\ pairAt \in DOMAIN response.pairs /\ pairAt' = pairAt + 1
        /\ spotPairIndexes' = spotPairIndexes \cup {Market.index}
        /\ Market = response.pairs[pairAt]
        /\ PairFits
    BY <1>2, <1>3 DEF IndexPair, MorePairs, Market
  <2>2. Paired' = Paired \cup {pairAt} /\ pairAt \notin Paired
    BY <1>1, <1>2, <2>1 DEF Paired
  <2>3. TokenAt(Market.base) # {} /\ TokenAt(Market.quote) # {}
    BY <2>1 DEF PairFits, StageInv, TokenAt
  <2>4. \A p \in Positions : At(p).name # Market.name
    <3>1. Listed = Positions  BY <2>1, AllListed DEF StageInv
    <3>. QED  BY <2>1, <3>1 DEF PairFits, IndexedInv
  <2>5. \A j \in Paired : response.pairs[j].name # Market.name
                          /\ response.pairs[j].index # Market.index
    BY <2>1 DEF PairFits, IndexedInv, PairsInv
  <2>6. Market.valid  BY <2>1 DEF PairFits
  <2>7. spotPairIndexes' = {response.pairs[i].index : i \in Paired'}
    BY <2>1, <2>2 DEF PairsInv
  <2>8. ASSUME NEW i \in Paired'
        PROVE  LET pair == response.pairs[i] IN
               /\ pair.valid
               /\ TokenAt(pair.base) # {} /\ TokenAt(pair.quote) # {}
               /\ \A p \in Positions : At(p).name # pair.name
               /\ \A j \in Paired' \ {i} :
                     /\ response.pairs[j].name # pair.name
                     /\ response.pairs[j].index # pair.index
    <3>1. CASE i = pairAt
      BY <2>1, <2>2, <2>3, <2>4, <2>5, <2>6, <3>1
    <3>2. CASE i \in Paired
      BY <2>1, <2>2, <2>5, <3>2 DEF PairsInv
    <3>. QED  BY <2>2, <3>1, <3>2
  <2>. QED  BY <1>1, <1>3, <2>2, <2>7, <2>8 DEF PairsInv
<1>4. CASE ~IndexPair
  <2>1. pairAt' = pairAt /\ spotPairIndexes' = spotPairIndexes
    BY <1>4 DEF Next, CheckDexs, SkipEmpty, EnterMeta, IndexAsset, LeaveMeta, EndPerps,
                IndexTokens, Return, Reject
  <2>2. Paired' = Paired  BY <1>1, <2>1 DEF Paired
  <2>. QED  BY <1>1, <1>4, <2>1, <2>2 DEF PairsInv
<1>. QED  BY <1>3, <1>4

\* A market is indexed in the step that lists it.
LEMMA IndexedStep ==
    ASSUME TypeOK, LoopInv, StageInv, PairsInv, IndexedInv, Next, phase' # "rejected"
    PROVE  IndexedInv'
<1>. USE DEF names
<1>1. response' = response /\ \A p : At(p)' = At(p)  BY ResponseFixed, ListedStep
<1>2. CASE IndexAsset
  <2>1. /\ \E v : assetByCoin' = Put(assetByCoin, Listing.name, v)
        /\ MoreAssets /\ ~IndexPair
    BY <1>2 DEF IndexAsset, MoreAssets, IndexPair, MorePairs
  <2>2. DOMAIN assetByCoin' = DOMAIN assetByCoin \cup {Listing.name}  BY <2>1 DEF Put
  <2>3. Listed' = Listed \cup {<<metaAt, assetIndex + 1>>} /\ Paired' = Paired
        /\ At(<<metaAt, assetIndex + 1>>) = Listing
    BY <1>2, <2>1, ListedStep, PairsStep, PlaceAtHand
  <2>. QED  BY <1>1, <2>2, <2>3 DEF IndexedInv
<1>3. CASE IndexPair
  <2>1. DOMAIN assetByCoin' = DOMAIN assetByCoin \cup {response.pairs[pairAt].name}
    <3>1. \E v : assetByCoin' = Put(assetByCoin, Market.name, v)  BY <1>3 DEF IndexPair
    <3>. QED  BY <3>1 DEF Put, Market
  <2>2. ~IndexAsset  BY <1>3 DEF IndexAsset, MoreAssets, IndexPair, MorePairs
  <2>3. Listed' = Listed /\ Paired' = Paired \cup {pairAt}
    BY <1>3, <2>2, ListedStep, PairsStep
  <2>. QED  BY <1>1, <2>1, <2>3 DEF IndexedInv
<1>4. CASE ~IndexAsset /\ ~IndexPair
  <2>1. assetByCoin' = assetByCoin
    BY <1>4 DEF Next, CheckDexs, SkipEmpty, EnterMeta, LeaveMeta, EndPerps, IndexTokens,
                Return, Reject
  <2>2. Listed' = Listed /\ Paired' = Paired  BY <1>4, ListedStep, PairsStep
  <2>. QED  BY <1>1, <2>1, <2>2 DEF IndexedInv
<1>. QED  BY <1>2, <1>3, <1>4

\* CheckedInv holds whatever the provider answers.
THEOREM CheckedInvariant == Spec => []CheckedInv
<1>1. Init => CheckedInv
  <2>. SUFFICES ASSUME Init PROVE CheckedInv  OBVIOUS
  <2>1. response \in Answers  BY BuildAssumption DEF Init
  <2>2. Listed = {}
    <3>1. \A p \in Positions : ~(p[1] < 1)  BY <2>1, PlaceShape
    <3>. QED  BY <3>1 DEF Init, Listed
  <2>3. Paired = {}  BY <2>1 DEF Init, Paired, Answers
  <2>4. StageInv  BY DEF Init, StageInv
  <2>5. DexsInv  BY <2>2 DEF Init, DexsInv
  <2>6. PairsInv  BY <2>3 DEF Init, PairsInv
  <2>7. IndexedInv  BY <2>2, <2>3 DEF Init, NoEntries, IndexedInv
  <2>8. phase # "rejected"  BY DEF Init
  <2>. QED  BY <2>4, <2>5, <2>6, <2>7, <2>8 DEF CheckedInv
<1>2. ASSUME BuildInv, CheckedInv, Next PROVE CheckedInv'
  <2>1. TypeOK /\ LoopInv  BY <1>2 DEF BuildInv
  <2>2. CASE Reject
    <3>1. phase' = "rejected" /\ response' = response  BY <2>2 DEF Reject
    <3>2. Consistent' = Consistent
      BY <3>1 DEF Consistent, Distinct, Positions, At, Declared, Elements, TokenAt
    <3>. QED  BY <1>2, <2>1, <2>2, <3>1, <3>2, RejectStep DEF CheckedInv
  <2>3. CASE ~Reject
    <3>1. phase # "rejected" /\ phase' # "rejected"
      BY <1>2, <2>3 DEF Next, CheckDexs, SkipEmpty, EnterMeta, IndexAsset, LeaveMeta,
         EndPerps, IndexTokens, IndexPair, Return, MoreMetas, MoreAssets, PerpsDone, MorePairs
    <3>2. StageInv /\ DexsInv /\ PairsInv /\ IndexedInv  BY <1>2, <3>1 DEF CheckedInv
    <3>. QED  BY <1>2, <2>1, <3>1, <3>2, StageStep, DexsStep, PairsStep, IndexedStep
              DEF CheckedInv
  <2>. QED  BY <2>2, <2>3
<1>3. ASSUME CheckedInv, UNCHANGED vars PROVE CheckedInv'
  <2>1. UNCHANGED <<response, phase, metaAt, assetIndex, pairAt, seen, tokensByIndex,
                    spotPairIndexes, assetByCoin>>
    BY <1>3 DEF vars, cursor, spotWork, names
  <2>2. /\ Positions' = Positions /\ \A p : At(p)' = At(p)
        /\ \A n : TokenAt(n)' = TokenAt(n)
        /\ Declared' = Declared /\ DexNamesFit' = DexNamesFit /\ TokensFit' = TokensFit
        /\ Dex' = Dex
    BY <2>1 DEF Positions, At, TokenAt, Declared, Elements, DexNamesFit, Distinct,
                TokensFit, Dex, Universe
  <2>3. Listed' = Listed /\ Paired' = Paired  BY <2>1, <2>2 DEF Listed, Paired
  <2>4. Consistent' = Consistent
    BY <2>1 DEF Consistent, Distinct, Positions, At, Declared, Elements, TokenAt
  <2>5. StageInv' = StageInv  BY <2>1, <2>2 DEF StageInv, Elements
  <2>6. DexsInv' = DexsInv  BY <2>1, <2>2, <2>3 DEF DexsInv
  <2>7. PairsInv' = PairsInv  BY <2>1, <2>2, <2>3 DEF PairsInv
  <2>8. IndexedInv' = IndexedInv  BY <2>1, <2>2, <2>3 DEF IndexedInv
  <2>. QED  BY <1>3, <2>1, <2>4, <2>5, <2>6, <2>7, <2>8 DEF CheckedInv
<1>. QED  BY <1>1, <1>2, <1>3, BuildInvariant, PTL DEF Spec

\* A snapshot is built of responses that fit together and of no others, whatever their
\* number and sizes: the checks strewn over the loops (metadata.py 100-251) find every
\* disagreement of the parts, and nothing else.
THEOREM BuiltFromConsistent == Spec => []BuiltIffConsistent
<1>1. ASSUME BuildInv, CheckedInv PROVE BuiltIffConsistent
  <2>1. phase = "rejected" => ~Consistent  BY <1>1 DEF CheckedInv
  <2>2. ASSUME phase = "built" PROVE Consistent
    <3>1. StageInv /\ DexsInv /\ PairsInv /\ IndexedInv /\ TypeOK
      BY <1>1, <2>2 DEF CheckedInv, BuildInv
    <3>2. Listed = Positions  BY <2>2, <3>1, AllListed DEF StageInv
    <3>3. Paired = DOMAIN response.pairs
      BY <2>2, <3>1 DEF StageInv, Paired, TypeOK, Answers
    <3>4. {DexOf[At(p).name] : p \in Positions} = Declared
      <4>1. \A p \in Positions : DexOf[At(p).name] \in seen  BY <3>1, <3>2 DEF DexsInv
      <4>2. \A dex \in seen : \E p \in Positions : DexOf[At(p).name] = dex
        BY <3>1 DEF DexsInv
      <4>3. seen = Declared  BY <2>2, <3>1 DEF StageInv
      <4>. QED  BY <4>1, <4>2, <4>3
    <3>5. DexNamesFit /\ TokensFit  BY <2>2, <3>1 DEF StageInv
    <3>6. Distinct([i \in DOMAIN response.tokens |-> response.tokens[i].index])
      BY <3>5 DEF TokensFit, Distinct
    <3>7. \A i \in DOMAIN response.pairs :
             LET pair == response.pairs[i] IN
             /\ pair.valid
             /\ TokenAt(pair.base) # {} /\ TokenAt(pair.quote) # {}
             /\ \A p \in Positions : At(p).name # pair.name
             /\ \A j \in DOMAIN response.pairs \ {i} :
                   /\ response.pairs[j].name # pair.name
                   /\ response.pairs[j].index # pair.index
      BY <3>1, <3>3 DEF PairsInv
    <3>8. \A p, q \in Positions :
             /\ At(p).name = At(q).name => p = q
             /\ DexOf[At(p).name] = DexOf[At(q).name] <=> p[1] = q[1]
      BY <3>1, <3>2 DEF DexsInv
    <3>9. \A p \in Positions : At(p).valid  BY <3>1, <3>2 DEF DexsInv
    <3>. QED  BY <3>4, <3>5, <3>6, <3>7, <3>8, <3>9 DEF Consistent, DexNamesFit, TokensFit
  <2>. QED  BY <2>1, <2>2 DEF BuiltIffConsistent
<1>. QED  BY <1>1, BuildInvariant, CheckedInvariant, PTL

-----------------------------------------------------------------------------
(* A snapshot is what was listed.                                          *)

\* What the names lead to after a pair was indexed.
LEMMA PairNamed ==
    ASSUME IndexPair
    PROVE  LET coin == Market.name
               quote == tokensByIndex[Market.quote].name
               shown == Display(tokensByIndex[Market.base].name, quote)
           IN
           /\ DOMAIN coinByAlias' = DOMAIN coinByAlias \cup {coin, shown, quote}
           /\ \A x \in DOMAIN coinByAlias : x # coin => coinByAlias'[x] = coinByAlias[x]
           /\ shown \notin DOMAIN coinByAlias /\ shown # coin => coinByAlias'[shown] = coin
<1>. DEFINE coin == Market.name
            quote == tokensByIndex[Market.quote].name
            shown == Display(tokensByIndex[Market.base].name, quote)
            f1 == Put(coinByAlias, coin, coin)
            f2 == SetDefault(f1, shown, coin)
<1>1. /\ DOMAIN f1 = DOMAIN coinByAlias \cup {coin}
      /\ \A x \in DOMAIN coinByAlias : x # coin => f1[x] = coinByAlias[x]
  BY DEF Put
<1>2. /\ DOMAIN f2 = DOMAIN f1 \cup {shown}
      /\ \A x \in DOMAIN f1 : f2[x] = f1[x]
      /\ shown \notin DOMAIN f1 => f2[shown] = coin
  <2>. HIDE DEF f1
  <2>. QED  BY DEF SetDefault, Put
<1>3. /\ DOMAIN coinByAlias' = DOMAIN f2 \cup {quote}
      /\ \A x \in DOMAIN f2 : coinByAlias'[x] = f2[x]
  <2>1. coinByAlias' = SetDefault(f2, quote, quote)  BY DEF IndexPair, NameAliases
  <2>. HIDE DEF f2
  <2>. QED  BY <2>1 DEF SetDefault, Put
<1>. HIDE DEF f1, f2, coin, quote, shown
<1>4. shown \in DOMAIN f2  BY <1>2
<1>. QED  BY <1>1, <1>2, <1>3, <1>4 DEF coin, quote, shown

\* A step that indexes no market keeps all entries.
LEMMA EntriesStay ==
    ASSUME TypeOK, LoopInv, EntriesInv, ShownInv, StageInv, PairsInv, IndexedInv,
           Next, phase' # "rejected", ~IndexAsset, ~IndexPair
    PROVE  EntriesInv' /\ ShownInv'
<1>. USE DEF cursor, spotWork, spotIndex, names
<1>1. /\ UNCHANGED <<response, spotTokenByCoin, spotMarketCoins, coinByAlias, assetByCoin,
                     symbolByCoin, sizeDecimalsByAsset, perpContextByCoin>>
      /\ IndexTokens \/ (tokensByIndex' = tokensByIndex
                         /\ (phase' \in {"pairs", "built"} => phase = "pairs"))
  BY DEF Next, CheckDexs, SkipEmpty, EnterMeta, LeaveMeta, EndPerps, Return, Reject,
         IndexTokens, MoreMetas, PerpsDone
<1>2. Listed' = Listed /\ Paired' = Paired /\ \A p : At(p)' = At(p)
  BY ListedStep, PairsStep
<1>3. RangesHold' = RangesHold /\ \A n : TokenAt(n)' = TokenAt(n)
  BY <1>1, ResponseStays DEF TokenAt, Elements
<1>4. phase' \in {"pairs", "built"} =>
         \A n \in DOMAIN tokensByIndex' : TokenAt(n) = {tokensByIndex'[n]}
  <2>1. CASE IndexTokens
    <3>1. /\ TokensFit
          /\ tokensByIndex' =
                [n \in {t.index : t \in Elements(response.tokens)} |->
                    CHOOSE t \in Elements(response.tokens) : t.index = n]
      BY <2>1 DEF IndexTokens
    <3>2. \A t, u \in Elements(response.tokens) : t.index = u.index => t = u
      BY <3>1 DEF TokensFit, Elements
    <3>3. ASSUME NEW n \in DOMAIN tokensByIndex' PROVE TokenAt(n) = {tokensByIndex'[n]}
      <4>1. PICK u \in Elements(response.tokens) : u.index = n  BY <3>1
      <4>2. tokensByIndex'[n] = CHOOSE t \in Elements(response.tokens) : t.index = n
        BY <3>1
      <4>3. tokensByIndex'[n] \in Elements(response.tokens) /\ tokensByIndex'[n].index = n
        BY <4>1, <4>2
      <4>. QED  BY <3>2, <4>3 DEF TokenAt
    <3>. QED  BY <3>3
  <2>2. CASE ~IndexTokens  BY <1>1, <2>2 DEF EntriesInv
  <2>. QED  BY <2>1, <2>2
<1>5. EntriesInv'  BY <1>1, <1>2, <1>3, <1>4 DEF EntriesInv
<1>6. ShownInv'  BY <1>1, <1>2 DEF ShownInv
<1>. QED  BY <1>5, <1>6

\* An asset is entered with its place, and leaves the other entries alone.
LEMMA EntriesOfAsset ==
    ASSUME TypeOK, LoopInv, EntriesInv, ShownInv, StageInv, PairsInv, IndexedInv,
           AssetMeansOneMarket', IndexedInv', Next, IndexAsset
    PROVE  EntriesInv' /\ ShownInv'
<1>. USE DEF cursor, spotWork, spotIndex, names
<1>. DEFINE n == <<metaAt, assetIndex + 1>>
            asset == Offset(Dex) + assetIndex
            coin == Listing.name
<1>1. /\ phase = "assets" /\ phase' = "assets"
      /\ UNCHANGED <<response, spotTokenByCoin, spotMarketCoins, tokensByIndex>>
      /\ coin \notin DOMAIN assetByCoin /\ DexOf[coin] = Dex
  BY DEF IndexAsset, MoreAssets, AssetFits
<1>2. /\ Listed' = Listed \cup {n} /\ \A p : At(p)' = At(p)
      /\ n \in Positions /\ At(n) = Listing
  BY ListedStep, PlaceAtHand DEF IndexAsset
<1>3. Paired = {} /\ Paired' = {}
  <2>1. pairAt = 1 /\ pairAt' = 1  BY <1>1 DEF StageInv, IndexAsset
  <2>2. \A i \in DOMAIN response.pairs : ~(i < 1)  BY DEF TypeOK, Answers
  <2>. QED  BY <1>1, <2>1, <2>2 DEF Paired
<1>4. RangesHold' = RangesHold  BY <1>1, ResponseStays
<1>5. /\ DOMAIN assetByCoin' = DOMAIN assetByCoin \cup {coin} /\ assetByCoin'[coin] = asset
      /\ \A x \in DOMAIN assetByCoin : x # coin => assetByCoin'[x] = assetByCoin[x]
  <2>1. assetByCoin' = Put(assetByCoin, coin, asset)  BY DEF IndexAsset
  <2>. QED  BY <2>1 DEF Put
<1>6. /\ asset \in DOMAIN sizeDecimalsByAsset'
      /\ sizeDecimalsByAsset'[asset] = Listing.szDecimals
      /\ \A x \in DOMAIN sizeDecimalsByAsset :
            /\ x \in DOMAIN sizeDecimalsByAsset'
            /\ x # asset => sizeDecimalsByAsset'[x] = sizeDecimalsByAsset[x]
  <2>1. sizeDecimalsByAsset' = Put(sizeDecimalsByAsset, asset, Listing.szDecimals)
    BY DEF IndexAsset
  <2>. QED  BY <2>1 DEF Put
<1>7. /\ coin \in DOMAIN perpContextByCoin' /\ perpContextByCoin'[coin] = <<Dex, assetIndex>>
      /\ \A x \in DOMAIN perpContextByCoin :
            /\ x \in DOMAIN perpContextByCoin'
            /\ x # coin => perpContextByCoin'[x] = perpContextByCoin[x]
  <2>1. perpContextByCoin' = Put(perpContextByCoin, coin, <<Dex, assetIndex>>)
    BY DEF IndexAsset, PerpContext
  <2>. QED  BY <2>1 DEF Put
<1>8. RangesHold => \A c \in DOMAIN assetByCoin : assetByCoin'[c] # asset
  BY <1>1, <1>4, <1>5 DEF AssetMeansOneMarket
<1>9. n[2] - 1 = assetIndex  BY DEF TypeOK
<1>. HIDE DEF n, asset, coin
<1>10. ASSUME NEW p \in Listed'
       PROVE  LET c == At(p).name IN
              /\ c \in DOMAIN perpContextByCoin'
              /\ perpContextByCoin'[c] = <<DexOf[c], p[2] - 1>>
              /\ RangesHold =>
                    /\ assetByCoin'[c] \in DOMAIN sizeDecimalsByAsset'
                    /\ sizeDecimalsByAsset'[assetByCoin'[c]] = At(p).szDecimals
  <2>1. CASE p = n
    BY <1>1, <1>2, <1>5, <1>6, <1>7, <1>9, <2>1 DEF coin
  <2>2. CASE p \in Listed
    <3>1. At(p).name \in DOMAIN assetByCoin  BY <2>2 DEF IndexedInv
    <3>2. At(p).name # coin /\ assetByCoin'[At(p).name] = assetByCoin[At(p).name]
      BY <1>1, <1>5, <3>1
    <3>. QED  BY <1>6, <1>7, <1>8, <2>2, <3>1, <3>2 DEF EntriesInv
  <2>. QED  BY <1>2, <2>1, <2>2
<1>11. EntriesInv'  BY <1>1, <1>2, <1>3, <1>4, <1>10 DEF EntriesInv
<1>12. ShownInv'  BY <1>3 DEF ShownInv
<1>. QED  BY <1>11, <1>12

\* What indexing a pair sets, and what it leaves.
LEMMA PairIndexed ==
    ASSUME TypeOK, LoopInv, StageInv, PairsInv, IndexedInv, Next, IndexPair
    PROVE  LET coin == Market.name
               base == tokensByIndex[Market.base]
               quote == tokensByIndex[Market.quote]
               asset == SpotOffset + Market.index
           IN
           /\ Listed' = Listed /\ Paired' = Paired \cup {pairAt}
           /\ pairAt \in DOMAIN response.pairs /\ pairAt \notin Paired
           /\ phase = "pairs" /\ phase' = "pairs"
           /\ {Market.base, Market.quote} \subseteq DOMAIN tokensByIndex
           /\ coin \notin DOMAIN assetByCoin /\ coin = response.pairs[pairAt].name
           /\ base \in Token /\ quote \in Token
           /\ /\ assetByCoin'[coin] = asset
              /\ \A x \in DOMAIN assetByCoin :
                    x \in DOMAIN assetByCoin' /\ assetByCoin'[x] = assetByCoin[x]
           /\ /\ symbolByCoin'[coin] = Display(base.name, quote.name)
              /\ \A x \in DOMAIN symbolByCoin :
                    x # coin => symbolByCoin'[x] = symbolByCoin[x]
           /\ /\ asset \in DOMAIN sizeDecimalsByAsset'
              /\ sizeDecimalsByAsset'[asset] = base.szDecimals
              /\ \A x \in DOMAIN sizeDecimalsByAsset :
                    /\ x \in DOMAIN sizeDecimalsByAsset'
                    /\ x # asset => sizeDecimalsByAsset'[x] = sizeDecimalsByAsset[x]
           /\ /\ DOMAIN spotTokenByCoin' = DOMAIN spotTokenByCoin \cup {coin, quote.name}
              /\ spotTokenByCoin'[coin] = base
              /\ \A x \in DOMAIN spotTokenByCoin :
                    x # coin => spotTokenByCoin'[x] = spotTokenByCoin[x]
           /\ spotMarketCoins' = spotMarketCoins \cup {coin}
           /\ UNCHANGED <<response, tokensByIndex, perpContextByCoin>>
<1>. DEFINE coin == Market.name
            base == tokensByIndex[Market.base]
            quote == tokensByIndex[Market.quote]
            asset == SpotOffset + Market.index
<1>1. /\ phase = "pairs" /\ phase' = "pairs" /\ pairAt \in DOMAIN response.pairs
      /\ {Market.base, Market.quote} \subseteq DOMAIN tokensByIndex
      /\ coin \notin DOMAIN assetByCoin /\ coin = response.pairs[pairAt].name
      /\ spotMarketCoins' = spotMarketCoins \cup {coin}
      /\ UNCHANGED <<response, tokensByIndex, perpContextByCoin>>
  BY DEF IndexPair, MorePairs, PairFits, Market, TypeOK, Answers
<1>2. base \in Token /\ quote \in Token  BY <1>1 DEF TypeOK
<1>3. ~IndexAsset /\ phase' # "rejected"  BY <1>1 DEF IndexAsset, MoreAssets
<1>4. Listed' = Listed /\ Paired' = Paired \cup {pairAt} /\ pairAt \notin Paired
  <2>1. pairAt \notin Paired  BY DEF Paired, TypeOK
  <2>. QED  BY <1>3, <2>1, ListedStep, PairsStep
<1>5. /\ assetByCoin'[coin] = asset
      /\ \A x \in DOMAIN assetByCoin :
            x \in DOMAIN assetByCoin' /\ assetByCoin'[x] = assetByCoin[x]
  <2>1. assetByCoin' = Put(assetByCoin, coin, asset)  BY DEF IndexPair
  <2>. QED  BY <1>1, <2>1 DEF Put
<1>6. /\ symbolByCoin'[coin] = Display(base.name, quote.name)
      /\ \A x \in DOMAIN symbolByCoin : x # coin => symbolByCoin'[x] = symbolByCoin[x]
  <2>1. symbolByCoin' = Put(symbolByCoin, coin, Display(base.name, quote.name))
    BY DEF IndexPair
  <2>. QED  BY <2>1 DEF Put
<1>7. /\ asset \in DOMAIN sizeDecimalsByAsset'
      /\ sizeDecimalsByAsset'[asset] = base.szDecimals
      /\ \A x \in DOMAIN sizeDecimalsByAsset :
            /\ x \in DOMAIN sizeDecimalsByAsset'
            /\ x # asset => sizeDecimalsByAsset'[x] = sizeDecimalsByAsset[x]
  <2>1. sizeDecimalsByAsset' = Put(sizeDecimalsByAsset, asset, base.szDecimals)
    BY DEF IndexPair
  <2>. QED  BY <2>1 DEF Put
<1>8. /\ DOMAIN spotTokenByCoin' = DOMAIN spotTokenByCoin \cup {coin, quote.name}
      /\ spotTokenByCoin'[coin] = base
      /\ \A x \in DOMAIN spotTokenByCoin :
            x # coin => spotTokenByCoin'[x] = spotTokenByCoin[x]
  <2>1. spotTokenByCoin' = SetDefault(Put(spotTokenByCoin, coin, base), quote.name, quote)
    BY DEF IndexPair
  <2>. QED  BY <2>1 DEF SetDefault, Put
<1>. QED  BY <1>1, <1>2, <1>4, <1>5, <1>6, <1>7, <1>8

\* A pair is entered with its tokens, and leaves the other entries alone.
LEMMA EntriesOfPair ==
    ASSUME TypeOK, LoopInv, EntriesInv, StageInv, PairsInv, IndexedInv,
           AssetMeansOneMarket', IndexedInv', Next, IndexPair
    PROVE  EntriesInv'
<1>. DEFINE coin == Market.name
            base == tokensByIndex[Market.base]
            quote == tokensByIndex[Market.quote]
            asset == SpotOffset + Market.index
<1>1. /\ Listed' = Listed /\ Paired' = Paired \cup {pairAt}
      /\ phase = "pairs" /\ pairAt \in DOMAIN response.pairs
      /\ {Market.base, Market.quote} \subseteq DOMAIN tokensByIndex
      /\ coin \notin DOMAIN assetByCoin /\ base \in Token /\ quote \in Token
      /\ spotMarketCoins' = spotMarketCoins \cup {coin}
      /\ UNCHANGED <<response, tokensByIndex, perpContextByCoin>>
  BY PairIndexed
<1>2. Market = response.pairs[pairAt]  BY DEF Market
<1>3. /\ assetByCoin'[coin] = asset
      /\ \A x \in DOMAIN assetByCoin :
            x \in DOMAIN assetByCoin' /\ assetByCoin'[x] = assetByCoin[x]
  BY PairIndexed
<1>4. /\ asset \in DOMAIN sizeDecimalsByAsset'
      /\ sizeDecimalsByAsset'[asset] = base.szDecimals
      /\ \A x \in DOMAIN sizeDecimalsByAsset :
            /\ x \in DOMAIN sizeDecimalsByAsset'
            /\ x # asset => sizeDecimalsByAsset'[x] = sizeDecimalsByAsset[x]
  BY PairIndexed
<1>5. /\ DOMAIN spotTokenByCoin' = DOMAIN spotTokenByCoin \cup {coin, quote.name}
      /\ spotTokenByCoin'[coin] = base
      /\ \A x \in DOMAIN spotTokenByCoin :
            x # coin => spotTokenByCoin'[x] = spotTokenByCoin[x]
  BY PairIndexed
<1>6. RangesHold' = RangesHold /\ (\A n : TokenAt(n)' = TokenAt(n)) /\ \A p : At(p)' = At(p)
  BY <1>1, ResponseStays DEF TokenAt, Elements, At
<1>7. coin \in DOMAIN assetByCoin'
  BY <1>1, <1>2 DEF IndexedInv
<1>8. RangesHold => \A c \in DOMAIN assetByCoin : assetByCoin'[c] # asset
  BY <1>1, <1>3, <1>6, <1>7 DEF AssetMeansOneMarket
<1>9. quote.name \in TokenNames  BY <1>1 DEF Token
<1>10. TokenAt(Market.base) = {base}  BY <1>1 DEF EntriesInv
<1>. HIDE DEF coin, asset, base, quote
<1>11. ASSUME NEW p \in Listed
       PROVE  LET c == At(p).name IN
              /\ c \in DOMAIN perpContextByCoin
              /\ perpContextByCoin[c] = <<DexOf[c], p[2] - 1>>
              /\ RangesHold =>
                    /\ assetByCoin'[c] \in DOMAIN sizeDecimalsByAsset'
                    /\ sizeDecimalsByAsset'[assetByCoin'[c]] = At(p).szDecimals
  <2>1. At(p).name \in DOMAIN assetByCoin  BY DEF IndexedInv
  <2>2. assetByCoin'[At(p).name] = assetByCoin[At(p).name]  BY <1>3, <2>1
  <2>. QED  BY <1>4, <1>8, <2>1, <2>2 DEF EntriesInv
<1>12. ASSUME NEW i \in Paired'
       PROVE  LET pair == response.pairs[i] IN
              /\ assetByCoin'[pair.name] = SpotOffset + pair.index
              /\ pair.name \in DOMAIN spotTokenByCoin'
              /\ TokenAt(pair.base) = {spotTokenByCoin'[pair.name]}
              /\ RangesHold =>
                    /\ assetByCoin'[pair.name] \in DOMAIN sizeDecimalsByAsset'
                    /\ sizeDecimalsByAsset'[assetByCoin'[pair.name]] =
                          spotTokenByCoin'[pair.name].szDecimals
  <2>1. CASE i = pairAt
    BY <1>2, <1>3, <1>4, <1>5, <1>10, <2>1 DEF coin, asset
  <2>2. CASE i \in Paired
    <3>. DEFINE name == response.pairs[i].name
    <3>1. name \in DOMAIN assetByCoin  BY <2>2 DEF IndexedInv
    <3>2. name # coin /\ assetByCoin'[name] = assetByCoin[name]  BY <1>1, <1>3, <3>1
    <3>3. /\ assetByCoin[name] = SpotOffset + response.pairs[i].index
          /\ name \in DOMAIN spotTokenByCoin
          /\ TokenAt(response.pairs[i].base) = {spotTokenByCoin[name]}
          /\ RangesHold =>
                /\ assetByCoin[name] \in DOMAIN sizeDecimalsByAsset
                /\ sizeDecimalsByAsset[assetByCoin[name]] = spotTokenByCoin[name].szDecimals
      BY <2>2 DEF EntriesInv
    <3>4. name \in DOMAIN spotTokenByCoin' /\ spotTokenByCoin'[name] = spotTokenByCoin[name]
      BY <1>5, <3>2, <3>3
    <3>5. RangesHold => assetByCoin[name] # asset  BY <1>8, <3>1, <3>2
    <3>. QED  BY <1>4, <3>2, <3>3, <3>4, <3>5
  <2>. QED  BY <1>1, <2>1, <2>2
<1>13. spotMarketCoins' = {response.pairs[i].name : i \in Paired'}
  BY <1>1, <1>2 DEF EntriesInv, coin
<1>14. DOMAIN spotTokenByCoin' \subseteq spotMarketCoins' \cup TokenNames
  BY <1>1, <1>5, <1>9 DEF EntriesInv
<1>15. \A m \in DOMAIN tokensByIndex : TokenAt(m) = {tokensByIndex[m]}
  BY <1>1 DEF EntriesInv
<1>16. ASSUME NEW p \in Listed'
       PROVE  (LET c == At(p).name IN
               /\ c \in DOMAIN perpContextByCoin
               /\ perpContextByCoin[c] = <<DexOf[c], p[2] - 1>>
               /\ RangesHold =>
                     /\ assetByCoin[c] \in DOMAIN sizeDecimalsByAsset
                     /\ sizeDecimalsByAsset[assetByCoin[c]] = At(p).szDecimals)'
  BY <1>1, <1>6, <1>11
<1>17. ASSUME NEW i \in Paired'
       PROVE  (LET pair == response.pairs[i] IN
               /\ assetByCoin[pair.name] = SpotOffset + pair.index
               /\ pair.name \in DOMAIN spotTokenByCoin
               /\ TokenAt(pair.base) = {spotTokenByCoin[pair.name]}
               /\ RangesHold =>
                     /\ assetByCoin[pair.name] \in DOMAIN sizeDecimalsByAsset
                     /\ sizeDecimalsByAsset[assetByCoin[pair.name]] =
                           spotTokenByCoin[pair.name].szDecimals)'
  BY <1>1, <1>6, <1>12
<1>18. (spotMarketCoins = {response.pairs[i].name : i \in Paired})'  BY <1>1, <1>13
<1>19. (\A m \in DOMAIN tokensByIndex : TokenAt(m) = {tokensByIndex[m]})'
  BY <1>1, <1>6, <1>15
<1>. QED  BY <1>14, <1>16, <1>17, <1>18, <1>19 DEF EntriesInv

\* A pair takes over the name it displays if nobody has it, so the first one does.
LEMMA ShownStep ==
    ASSUME TypeOK, LoopInv, MarketInv, EntriesInv, ShownInv, StageInv, PairsInv, IndexedInv,
           IndexedInv', Next, IndexPair
    PROVE  ShownInv'
<1>. DEFINE coin == Market.name
            base == tokensByIndex[Market.base]
            quote == tokensByIndex[Market.quote]
            shown == Display(base.name, quote.name)
<1>1. /\ Paired' = Paired \cup {pairAt} /\ pairAt \notin Paired
      /\ coin \notin DOMAIN assetByCoin /\ coin = response.pairs[pairAt].name
      /\ base \in Token /\ quote \in Token
      /\ UNCHANGED response
  BY PairIndexed
<1>2. /\ symbolByCoin'[coin] = shown
      /\ \A x \in DOMAIN symbolByCoin : x # coin => symbolByCoin'[x] = symbolByCoin[x]
  BY PairIndexed
<1>3. \A x \in DOMAIN assetByCoin : x \in DOMAIN assetByCoin'
  BY PairIndexed
<1>4. /\ DOMAIN coinByAlias' = DOMAIN coinByAlias \cup {coin, shown, quote.name}
      /\ \A x \in DOMAIN coinByAlias : x # coin => coinByAlias'[x] = coinByAlias[x]
      /\ shown \notin DOMAIN coinByAlias /\ shown # coin => coinByAlias'[shown] = coin
  BY PairNamed
<1>5. shown \notin TokenNames
  BY <1>1, BuildAssumption DEF BuildAssumption, Display, Token
<1>6. coin \in DOMAIN assetByCoin'  BY <1>1 DEF IndexedInv
<1>7. ASSUME NEW i \in Paired
      PROVE  response.pairs[i].name # coin /\ response.pairs[i].name \in DOMAIN symbolByCoin
  BY <1>1 DEF IndexedInv, MarketInv
<1>8. \A i \in Paired : symbolByCoin'[response.pairs[i].name] = symbolByCoin[response.pairs[i].name]
  BY <1>2, <1>7
<1>9. pairAt \in Nat /\ \A i \in Paired : i \in Nat /\ i < pairAt /\ 1 .. i \subseteq Paired
  BY DEF TypeOK, Answers, Paired
<1>. HIDE DEF coin, base, quote, shown
<1>10. ASSUME NEW s, NEW i \in Paired, s # coin, s \in DOMAIN coinByAlias,
              \E j \in 1 .. i : /\ response.pairs[j].name = coinByAlias[s]
                                /\ symbolByCoin[response.pairs[j].name] = s
                                /\ \A k \in 1 .. j - 1 :
                                      symbolByCoin[response.pairs[k].name] # s
       PROVE  \E j \in 1 .. i : /\ response.pairs[j].name = coinByAlias'[s]
                                /\ symbolByCoin'[response.pairs[j].name] = s
                                /\ \A k \in 1 .. j - 1 :
                                      symbolByCoin'[response.pairs[k].name] # s
  <2>1. PICK j \in 1 .. i : /\ response.pairs[j].name = coinByAlias[s]
                            /\ symbolByCoin[response.pairs[j].name] = s
                            /\ \A k \in 1 .. j - 1 :
                                  symbolByCoin[response.pairs[k].name] # s
    BY <1>10
  <2>2. j \in Paired /\ \A k \in 1 .. j - 1 : k \in Paired  BY <1>9
  <2>. QED  BY <1>4, <1>8, <1>10, <2>1, <2>2
<1>11. ASSUME NEW i \in Paired
       PROVE  LET s == symbolByCoin'[response.pairs[i].name] IN
              /\ s \in DOMAIN coinByAlias'
              /\ \/ s \in DOMAIN assetByCoin'
                 \/ \E j \in 1 .. i : /\ response.pairs[j].name = coinByAlias'[s]
                                      /\ symbolByCoin'[response.pairs[j].name] = s
                                      /\ \A k \in 1 .. j - 1 :
                                            symbolByCoin'[response.pairs[k].name] # s
  <2>. DEFINE s == symbolByCoin[response.pairs[i].name]
  <2>1. s \in DOMAIN coinByAlias
        /\ \/ s \in DOMAIN assetByCoin
           \/ \E j \in 1 .. i : /\ response.pairs[j].name = coinByAlias[s]
                                /\ symbolByCoin[response.pairs[j].name] = s
                                /\ \A k \in 1 .. j - 1 :
                                      symbolByCoin[response.pairs[k].name] # s
    BY DEF ShownInv
  <2>2. symbolByCoin'[response.pairs[i].name] = s  BY <1>8
  <2>. HIDE DEF s
  <2>3. s \in DOMAIN coinByAlias'  BY <1>4, <2>1
  <2>4. CASE s \in DOMAIN assetByCoin \/ s = coin  BY <1>3, <1>6, <2>2, <2>3, <2>4
  <2>5. CASE ~(s \in DOMAIN assetByCoin \/ s = coin)
    BY <1>10, <2>1, <2>2, <2>3, <2>5
  <2>. QED  BY <2>4, <2>5
<1>12. shown \in DOMAIN coinByAlias'  BY <1>4
<1>13. ASSUME shown \notin DOMAIN assetByCoin'
       PROVE  \E j \in 1 .. pairAt :
                 /\ response.pairs[j].name = coinByAlias'[shown]
                 /\ symbolByCoin'[response.pairs[j].name] = shown
                 /\ \A k \in 1 .. j - 1 : symbolByCoin'[response.pairs[k].name] # shown
  <2>1. shown # coin /\ shown \notin DOMAIN assetByCoin  BY <1>3, <1>6, <1>13
  <2>2. CASE shown \in DOMAIN coinByAlias
    <3>1. shown \notin DOMAIN spotTokenByCoin
      BY <1>5, <2>1 DEF EntriesInv, MarketInv
    <3>2. /\ coinByAlias[shown] \in spotMarketCoins
          /\ symbolByCoin[coinByAlias[shown]] = shown
      BY <2>1, <2>2, <3>1 DEF MarketInv, AliasesAreTruthful
    <3>3. PICK i \in Paired : response.pairs[i].name = coinByAlias[shown]
      BY <3>2 DEF EntriesInv
    <3>4. \E j \in 1 .. i : /\ response.pairs[j].name = coinByAlias[shown]
                            /\ symbolByCoin[response.pairs[j].name] = shown
                            /\ \A k \in 1 .. j - 1 :
                                  symbolByCoin[response.pairs[k].name] # shown
      BY <2>1, <3>2, <3>3 DEF ShownInv
    <3>5. \E j \in 1 .. i : /\ response.pairs[j].name = coinByAlias'[shown]
                            /\ symbolByCoin'[response.pairs[j].name] = shown
                            /\ \A k \in 1 .. j - 1 :
                                  symbolByCoin'[response.pairs[k].name] # shown
      BY <1>10, <2>1, <2>2, <3>4
    <3>6. 1 .. i \subseteq 1 .. pairAt  BY <1>9
    <3>. QED  BY <3>5, <3>6
  <2>3. CASE shown \notin DOMAIN coinByAlias
    <3>1. \A k \in Paired : symbolByCoin[response.pairs[k].name] # shown
      BY <2>3 DEF ShownInv
    <3>2. \A k \in 1 .. pairAt - 1 : k \in Paired
      <4>1. pairAt \in DOMAIN response.pairs /\ response.pairs \in Seq(Pair)
        BY PairIndexed DEF TypeOK, Answers
      <4>. QED  BY <4>1 DEF Paired
    <3>3. pairAt \in 1 .. pairAt  BY DEF TypeOK
    <3>. QED  BY <1>1, <1>2, <1>4, <1>8, <2>1, <2>3, <3>1, <3>2, <3>3
  <2>. QED  BY <2>2, <2>3
<1>. QED  BY <1>1, <1>2, <1>11, <1>12, <1>13 DEF ShownInv

\* ListedInv holds whatever the provider answers.
THEOREM ListedInvariant == Spec => []ListedInv
<1>1. Init => ListedInv
  <2>. SUFFICES ASSUME Init PROVE EntriesInv /\ ShownInv  BY DEF ListedInv
  <2>1. response \in Answers  BY BuildAssumption DEF Init
  <2>2. Listed = {}
    <3>1. \A p \in Positions : ~(p[1] < 1)  BY <2>1, PlaceShape
    <3>. QED  BY <3>1 DEF Init, Listed
  <2>3. Paired = {}  BY <2>1 DEF Init, Paired, Answers
  <2>4. EntriesInv  BY <2>2, <2>3 DEF Init, NoEntries, EntriesInv
  <2>5. ShownInv  BY <2>3 DEF ShownInv
  <2>. QED  BY <2>4, <2>5
<1>2. ASSUME BuildInv, CheckedInv, CheckedInv', AssetMeansOneMarket', ListedInv, Next
      PROVE  ListedInv'
  <2>. SUFFICES ASSUME phase' # "rejected" PROVE EntriesInv' /\ ShownInv'
    BY DEF ListedInv
  <2>1. phase # "rejected"
    BY <1>2 DEF Next, CheckDexs, SkipEmpty, EnterMeta, IndexAsset, LeaveMeta, EndPerps,
       IndexTokens, IndexPair, Return, Reject, MoreMetas, MoreAssets, PerpsDone, MorePairs
  <2>2. /\ TypeOK /\ LoopInv /\ MarketInv
        /\ StageInv /\ PairsInv /\ IndexedInv /\ EntriesInv /\ ShownInv
    BY <1>2, <2>1 DEF BuildInv, CheckedInv, ListedInv
  <2>3. IndexedInv'  BY <1>2 DEF CheckedInv
  <2>4. CASE IndexAsset  BY <1>2, <2>2, <2>3, <2>4, EntriesOfAsset
  <2>5. CASE IndexPair  BY <1>2, <2>2, <2>3, <2>5, EntriesOfPair, ShownStep
  <2>6. CASE ~IndexAsset /\ ~IndexPair  BY <1>2, <2>2, <2>6, EntriesStay
  <2>. QED  BY <2>4, <2>5, <2>6
<1>3. ASSUME ListedInv, UNCHANGED vars PROVE ListedInv'
  <2>1. UNCHANGED <<response, phase, metaAt, assetIndex, pairAt, tokensByIndex,
                    spotTokenByCoin, spotMarketCoins, coinByAlias, assetByCoin,
                    symbolByCoin, sizeDecimalsByAsset, perpContextByCoin>>
    BY <1>3 DEF vars, cursor, spotWork, spotIndex, names
  <2>2. /\ Listed' = Listed /\ Paired' = Paired /\ \A p : At(p)' = At(p)
        /\ \A n : TokenAt(n)' = TokenAt(n)
    BY <2>1 DEF Listed, Paired, Positions, At, TokenAt, Elements
  <2>3. RangesHold' = RangesHold  BY <2>1, ResponseStays
  <2>4. EntriesInv => EntriesInv'  BY <2>1, <2>2, <2>3 DEF EntriesInv
  <2>5. ShownInv => ShownInv'  BY <2>1, <2>2 DEF ShownInv
  <2>. QED  BY <1>3, <2>1, <2>4, <2>5 DEF ListedInv
<1>. QED  BY <1>1, <1>2, <1>3, BuildInvariant, CheckedInvariant, AssetsAreDistinct, PTL
          DEF Spec

\* In every snapshot each listed market resolves to itself, with the id of its place, its
\* decimals and its DEX, and a display name to the first pair that shows it, whatever was
\* listed and however much of it (metadata.py 100-251).
THEOREM SnapshotIsWhatWasListed == Spec => []BuiltAsListed
<1>1. ASSUME BuildInv, CheckedInv, ListedInv, phase = "built", RangesHold
      PROVE  BuiltAsListed
  <2>1. /\ TypeOK /\ LoopInv /\ PerpInv /\ MarketInv /\ StageInv /\ IndexedInv
        /\ EntriesInv /\ ShownInv /\ PairsInv
    BY <1>1 DEF BuildInv, CheckedInv, ListedInv
  <2>2. Listed = Positions  BY <1>1, <2>1, AllListed DEF StageInv
  <2>3. Paired = DOMAIN response.pairs
    BY <1>1, <2>1 DEF StageInv, Paired, TypeOK, Answers
  <2>4. DOMAIN assetByCoin = {At(p).name : p \in Positions}
                             \cup {response.pairs[i].name : i \in DOMAIN response.pairs}
    BY <2>1, <2>2, <2>3 DEF IndexedInv
  <2>5. ASSUME NEW p \in Positions, NEW i \in DOMAIN response.dexNames,
               DexOf[At(p).name] = response.dexNames[i]
        PROVE  MarketInfo(At(p).name) =
                  [coin |-> At(p).name,
                   asset |-> p[2] - 1 + (IF i = 1 THEN 0 ELSE DexOffset + (i - 2) * Stride),
                   sizeDecimals |-> At(p).szDecimals,
                   isSpot |-> FALSE,
                   dex |-> response.dexNames[i]]
    <3>. DEFINE c == At(p).name
                dex == response.dexNames[i]
    <3>1. /\ c \in DOMAIN perpContextByCoin /\ perpContextByCoin[c] = <<dex, p[2] - 1>>
          /\ sizeDecimalsByAsset[assetByCoin[c]] = At(p).szDecimals
      BY <1>1, <2>1, <2>2, <2>5 DEF EntriesInv
    <3>2. assetByCoin[c] = Offset(dex) + (p[2] - 1)  BY <2>1, <3>1 DEF PerpInv
    <3>3. c \notin spotMarketCoins /\ coinByAlias[c] = c
      BY <2>1, <3>1 DEF MarketInv, NamesKeepTheirMarkets
    <3>4. Offset(dex) = IF i = 1 THEN 0 ELSE DexOffset + (i - 2) * Stride
      <4>1. DexNamesFit  BY <1>1, <2>1 DEF StageInv
      <4>2. dex = BaseDex <=> i = 1
        <5>1. response.dexNames[1] = BaseDex /\ 1 \in DOMAIN response.dexNames
          BY <2>1, <4>1 DEF DexNamesFit, TypeOK, Answers
        <5>. QED  BY <4>1, <5>1 DEF DexNamesFit, Distinct
      <4>3. Position(dex) = i
        BY <4>1 DEF DexNamesFit, Distinct, Position
      <4>. QED  BY <4>2, <4>3 DEF Offset
    <3>5. Offset(dex) \in Int /\ p[2] \in Int
      <4>1. p[2] \in Int  BY <2>1, PlaceShape DEF TypeOK
      <4>2. Offset(dex) \in Int
        BY <1>1, <2>1, OffsetBounds DEF TypeOK, StageInv, Declared, Elements
      <4>. QED  BY <4>1, <4>2
    <3>. HIDE DEF c, dex
    <3>6. assetByCoin[c] = p[2] - 1 + (IF i = 1 THEN 0 ELSE DexOffset + (i - 2) * Stride)
      <4>. DEFINE offset == IF i = 1 THEN 0 ELSE DexOffset + (i - 2) * Stride
      <4>1. offset = Offset(dex)  BY <3>4
      <4>. HIDE DEF offset
      <4>2. assetByCoin[c] = p[2] - 1 + offset  BY <3>2, <3>5, <4>1
      <4>. QED  BY <4>2 DEF offset
    <3>7. perpContextByCoin[c][1] = dex  BY <3>1
    <3>8. MarketInfo(c) = [coin |-> c, asset |-> assetByCoin[c],
                           sizeDecimals |-> At(p).szDecimals, isSpot |-> FALSE, dex |-> dex]
      <4>1. (c \in spotMarketCoins) = FALSE  BY <3>3
      <4>2. coinByAlias[c] = c  BY <3>3
      <4>. QED  BY <3>1, <3>7, <4>1, <4>2 DEF MarketInfo
    <3>. QED  BY <3>6, <3>8 DEF c, dex
  <2>6. ASSUME NEW i \in DOMAIN response.pairs
        PROVE  LET pair == response.pairs[i]
                   base == CHOOSE t \in TokenAt(pair.base) : TRUE
               IN  /\ MarketInfo(pair.name) =
                         [coin |-> pair.name,
                          asset |-> SpotOffset + pair.index,
                          sizeDecimals |-> base.szDecimals,
                          isSpot |-> TRUE,
                          dex |-> BaseDex]
                   /\ spotTokenByCoin[pair.name] = base
    <3>. DEFINE c == response.pairs[i].name
                base == CHOOSE t \in TokenAt(response.pairs[i].base) : TRUE
    <3>1. /\ assetByCoin[c] = SpotOffset + response.pairs[i].index
          /\ TokenAt(response.pairs[i].base) = {spotTokenByCoin[c]}
          /\ sizeDecimalsByAsset[assetByCoin[c]] = spotTokenByCoin[c].szDecimals
          /\ c \in spotMarketCoins
      BY <1>1, <2>1, <2>3 DEF EntriesInv
    <3>2. base = spotTokenByCoin[c]  BY <3>1
    <3>3. c \notin DOMAIN perpContextByCoin /\ coinByAlias[c] = c
      BY <2>1, <3>1 DEF MarketInv, NamesKeepTheirMarkets
    <3>. HIDE DEF c, base
    <3>4. MarketInfo(c) = [coin |-> c, asset |-> assetByCoin[c],
                           sizeDecimals |-> sizeDecimalsByAsset[assetByCoin[c]],
                           isSpot |-> TRUE, dex |-> BaseDex]
      BY <3>1, <3>3 DEF MarketInfo
    <3>. QED  BY <3>1, <3>2, <3>4 DEF c, base
  <2>7. ASSUME NEW i \in DOMAIN response.pairs
        PROVE  LET shown == symbolByCoin[response.pairs[i].name] IN
               \/ shown \in DOMAIN assetByCoin
               \/ \E j \in 1 .. i : /\ response.pairs[j].name = MarketInfo(shown).coin
                                    /\ symbolByCoin[response.pairs[j].name] = shown
                                    /\ \A k \in 1 .. j - 1 :
                                          symbolByCoin[response.pairs[k].name] # shown
    <3>1. \A s : MarketInfo(s).coin = coinByAlias[s]  BY DEF MarketInfo
    <3>. QED  BY <2>1, <2>3, <3>1 DEF ShownInv
  <2>. QED  BY <2>4, <2>5, <2>6, <2>7 DEF BuiltAsListed
<1>2. ASSUME BuildInv, CheckedInv, ListedInv PROVE BuiltAsListed
  BY <1>1, <1>2 DEF BuiltAsListed
<1>. QED  BY <1>2, BuildInvariant, CheckedInvariant, ListedInvariant, PTL

=============================================================================
