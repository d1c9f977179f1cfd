----------------------------- MODULE MCCommands -----------------------------
(* A name that moves to another market, a market listed later, one more    *)
(* DEX, and a request of every kind.  Publish stands for the other tasks,  *)
(* so that one call shows what happens to any of them.                     *)
EXTENDS Commands

MCNames == {"perp", "pair", "new", "token"}
MCPerps == {"p1", "p2", "p3"}
MCMarkets == MCPerps \cup {"s1", "s2", "o1"}
MCTokens == {"t1", "t2"}
MCOutcomes == {"#10", "#12"}
MCOutcomeMarket == [name \in {"#10"} |-> "o1"]
MCDexs == {"", "x"}
MCDexOf == [m \in MCPerps |-> IF m = "p3" THEN "x" ELSE ""]

First == [names |-> {"perp", "pair", "token"},
          market |-> [n \in {"perp", "pair"} |-> IF n = "perp" THEN "p1" ELSE "s1"],
          token |-> [n \in {"pair", "token"} |-> "t1"]]
Second == [names |-> MCNames,
           market |-> [n \in {"perp", "pair", "new"} |->
                          CASE n = "perp" -> "p1" [] n = "pair" -> "s2" [] n = "new" -> "p2"],
           token |-> [n \in {"pair", "token"} |-> IF n = "pair" THEN "t2" ELSE "t1"]]
Third == [Second EXCEPT !.market["pair"] = "s1"]
MCListings == <<First, Second, Third>>

FirstUniverse == [dex \in MCDexs |-> IF dex = "" THEN <<"p1">> ELSE <<>>]
SecondUniverse == [dex \in MCDexs |-> IF dex = "" THEN <<"p1", "p2">> ELSE <<>>]
ThirdUniverse == [dex \in MCDexs |-> IF dex = "" THEN <<"p1", "p2">> ELSE <<"p3">>]
MCUniverse == <<FirstUniverse, SecondUniverse, ThirdUniverse>>

It(coin, id) == [coin |-> coin, id |-> id]
Ask(kind, items, trigger) ==
    [kind |-> kind, items |-> items, valid |-> TRUE, encodes |-> TRUE, ro |-> FALSE,
     trigger |-> trigger, dexs |-> {}]
Plain(kind, items) == Ask(kind, items, None)

MCRequests ==
    {Plain("cancel", <<It("new", 1), It("pair", 2)>>),
     Plain("cancel", <<>>),
     Plain("batchModify", <<It("perp", 1), It("#10", 2)>>),
     Plain("modify", <<It("#12", 1)>>),
     Plain("leverage", <<It("perp", 0)>>),
     Plain("twapCancel", <<It("pair", 3)>>),
     Plain("send", <<It("pair", 0)>>),
     Plain("send", <<It("perp", 0)>>),
     Plain("twap", <<It("new", 0)>>),
     [Plain("twap", <<It("pair", 0)>>) EXCEPT !.ro = TRUE],
     [Plain("modify", <<It("perp", 1)>>) EXCEPT !.encodes = FALSE],
     [Plain("leverage", <<It("perp", 0)>>) EXCEPT !.valid = FALSE],
     Ask("twap", <<It("perp", 0)>>, 1),
     Ask("twap", <<It("new", 0)>>, 1),
     Ask("twap", <<It("pair", 0)>>, 1),
     Ask("twap", <<It("#10", 0)>>, 1),
     [Plain("account", <<>>) EXCEPT !.dexs = {"x"}],
     [Plain("account", <<>>) EXCEPT !.dexs = {""}]}
=============================================================================
