-------------------------- MODULE MCMetadataBuild --------------------------
(* Small responses for MetadataBuild: every order of a few objects and     *)
(* pairs that fit, repeat, mix, miss or exceed the ranges.                 *)
EXTENDS MetadataBuild

CONSTANTS dex0, dexA, dexB,     \* DEXes
          p1, p2, p3,           \* perpetuals of the base DEX; p1 is a token's name too
          a1, a2, b1,           \* perpetuals of dexA and dexB
          s1, s2,               \* pairs
          hype, usdc            \* tokens

MCDexOf ==
    [n \in PerpNames |-> IF n \in {p1, p2, p3} THEN dex0
                        ELSE IF n = b1 THEN dexB ELSE dexA]
MCPairNames == {s1, s2, p1, <<hype, usdc>>}

Perp(name, decimals) == [name |-> name, szDecimals |-> decimals, valid |-> TRUE]
Broken(name) == [name |-> name, szDecimals |-> 0, valid |-> FALSE]
Universes ==
    {<<>>, <<Perp(p1, 0)>>, <<Perp(p2, 0), Perp(p1, 1)>>,
     <<Perp(p1, 0), Perp(p2, 1), Perp(p3, 2)>>,
     <<Perp(a1, 1)>>, <<Perp(a1, 1), Perp(a2, 2)>>, <<Perp(b1, 3)>>,
     <<Perp(a1, 1), Perp(b1, 1)>>, <<Perp(a1, 1), Perp(a1, 2)>>,
     <<Perp(a1, 1), Broken(a2)>>}

Tkn(index, name) == [index |-> index, name |-> name, szDecimals |-> index, valid |-> TRUE]
TokenLists ==
    {<<Tkn(0, usdc), Tkn(1, hype), Tkn(2, p1)>>,
     <<Tkn(2, p1), Tkn(1, hype), Tkn(0, usdc)>>,
     <<Tkn(0, usdc), Tkn(1, hype), Tkn(2, hype)>>,
     <<Tkn(0, usdc), Tkn(0, hype)>>,
     <<Tkn(0, usdc), [Tkn(1, hype) EXCEPT !.valid = FALSE]>>}

Spot(name, index, b, q) ==
    [name |-> name, index |-> index, base |-> b, quote |-> q, valid |-> TRUE]
SpotPairs ==
    {Spot(s1, 0, 1, 0), Spot(s1, 1, 2, 0), Spot(s2, 1, 1, 0), Spot(s2, 0, 1, 2),
     Spot(s2, 2, 1, 0), Spot(s2, -1, 1, 0), Spot(<<hype, usdc>>, 1, 2, 0),
     Spot(<<hype, usdc>>, 0, 1, 0), Spot(p1, 1, 1, 0), Spot(s2, 1, 7, 0),
     [Spot(s2, 1, 1, 0) EXCEPT !.valid = FALSE]}

UpTo(n, S) == UNION {[1 .. k -> S] : k \in 0 .. n}
Response(dexs, metas, tokens, pairs) ==
    [dexNames |-> dexs, allPerpMetas |-> metas, tokens |-> tokens, pairs |-> pairs]

MCResponses ==
    {Response(dexs, metas, tokens, pairs) :
        dexs \in {<<>>, <<dex0>>, <<dex0, dexA>>, <<dex0, dexB, dexA>>,
                  <<dexA, dex0>>, <<dex0, dexA, dexA>>},
        metas \in UpTo(3, Universes),
        tokens \in {<<Tkn(0, usdc), Tkn(1, hype)>>},
        pairs \in {<<>>, <<Spot(s1, 0, 1, 0), Spot(s2, 1, 1, 0)>>}}
    \cup
    {Response(dexs, metas, tokens, pairs) :
        dexs \in {<<dex0>>},
        metas \in {<< <<Perp(p1, 0)>> >>, << <<Perp(p2, 0), Perp(p1, 1)>> >>},
        tokens \in TokenLists,
        pairs \in UpTo(3, SpotPairs)}
=============================================================================
