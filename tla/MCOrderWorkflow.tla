--------------------------- MODULE MCOrderWorkflow ---------------------------
(* A perpetual on the base DEX, one on another, and a spot market: one call *)
(* of every sort while others trade, or two calls of one account at once.   *)
EXTENDS OrderWorkflow, TLC

CONSTANTS btc, purr, abc, base, xyz, c1, c2

MCCoins == {btc, purr, abc}
MCCoinDex == (btc :> base) @@ (purr :> base) @@ (abc :> xyz)

Cmd(coin, isBuy, isMarket) ==
    [coin |-> coin, isBuy |-> isBuy, size |-> 1, px |-> MaxPrice, ro |-> FALSE,
     isMarket |-> isMarket, isTrigger |-> FALSE, slippageFits |-> TRUE]

Close(coins, dexs) ==
    [kind |-> "close", commands |-> <<>>, coins |-> coins, dexs |-> dexs,
     grouping |-> "na", builderFits |-> {"spot", "perp"}]

Place(cmds, grouping, builderFits) ==
    [kind |-> "place", commands |-> cmds, coins |-> None, dexs |-> None,
     grouping |-> grouping, builderFits |-> builderFits]

Trigger(cmd) == [cmd EXCEPT !.isTrigger = TRUE, !.ro = TRUE]

\* Orders, each a definition of its own.
BuyBtc == Cmd(btc, TRUE, FALSE)
MarketBtc == Cmd(btc, TRUE, TRUE)
SellBtc == Cmd(btc, FALSE, TRUE)
StopBtc == Trigger(Cmd(btc, FALSE, FALSE))
MarketStop == Trigger(MarketBtc)
BuyAbc == Cmd(abc, TRUE, FALSE)
SellAbc == Cmd(abc, FALSE, FALSE)
BuyPurr == Cmd(purr, TRUE, FALSE)
ReducePurr == [Cmd(purr, TRUE, TRUE) EXCEPT !.ro = TRUE]

LimitFirst == <<BuyAbc, SellBtc>>
ParentAndStop == <<MarketBtc, StopBtc>>
StopFirst == <<StopBtc, StopBtc>>
TwoVenues == <<BuyBtc, BuyPurr>>
Sell == <<SellBtc, SellAbc>>

MCRequests ==
    { Close({}, None), Close(None, None), Close({btc, abc}, None), Close({abc}, {base}),
      Place(<<>>, "na", {"spot", "perp"}),
      \* a limit order before a market order, of two DEXes; a limit order
      Place(LimitFirst, "na", {"perp"}), Place(<<BuyAbc>>, "na", {"perp"}),
      \* a parent and its trigger; no parent; a trigger that is a market order
      Place(ParentAndStop, "normalTpsl", {"spot", "perp"}),
      Place(StopFirst, "normalTpsl", {"spot", "perp"}),
      Place(<<MarketStop>>, "na", {"spot", "perp"}),
      \* two venues; a builder fee too high; a spot order that is reduce-only
      Place(TwoVenues, "na", {"spot", "perp"}),
      Place(<<BuyBtc>>, "na", {"spot"}),
      Place(<<ReducePurr>>, "na", {"spot"}) }

\* For two calls at once.
MCRacing ==
    { Close(None, None), Close({btc, abc}, None), Place(Sell, "na", {"perp"}) }
=============================================================================
