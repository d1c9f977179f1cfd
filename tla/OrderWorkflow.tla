---------------------------- MODULE OrderWorkflow ----------------------------
(***************************************************************************)
(* place_orders() and close_positions() of AsyncHyperliquid: one request   *)
(* of positions per DEX, the markets, one request of prices per DEX, and   *)
(* one signed submission, while positions and prices move on, requests     *)
(* fail, calls are cancelled and other calls of the same account run.      *)
(*                                                                         *)
(* A price is the number of times it has moved, so that a later price is a *)
(* larger one; the limit a market order is sent with is known by the mid   *)
(* price it was made from.  The markets come from MetadataCache and        *)
(* MetadataBuild, what becomes of a submission is ExchangeClient's.        *)
(***************************************************************************)
EXTENDS Integers, Sequences, FiniteSets

CONSTANTS Coins, SpotCoins,      \* all coins, and those of spot markets
          Dexs, BaseDex,
          CoinDex,               \* _coin_dex: the DEX a coin trades on
          DefaultDexs,           \* dexs given to the constructor
          Requests,              \* the calls callers make
          Calls,                 \* the calls of one run
          MaxSize,               \* bound: positions reach from -MaxSize to MaxSize
          MaxTrades, MaxPrice,   \* bounds: trades of others, prices
          None

Positions == -MaxSize .. MaxSize
Prices == 0 .. MaxPrice

Command == [coin : Coins, isBuy : BOOLEAN, size : Nat, px : Prices, ro : BOOLEAN,
            isMarket : BOOLEAN, isTrigger : BOOLEAN, slippageFits : BOOLEAN]
Order == [coin : Coins, isBuy : BOOLEAN, size : Nat, px : Prices, ro : BOOLEAN]
Request == [kind : {"place", "close"}, commands : Seq(Command),
            coins : (SUBSET Coins) \cup {None}, dexs : (SUBSET Dexs) \cup {None},
            grouping : {"na", "normalTpsl", "positionTpsl"},
            builderFits : SUBSET {"spot", "perp"}]

ASSUME WorkflowAssumption ==
    /\ SpotCoins \subseteq Coins
    /\ IsFiniteSet(Coins)
    /\ CoinDex \in [Coins -> Dexs]
    /\ \A coin \in SpotCoins : CoinDex[coin] = BaseDex
    /\ DefaultDexs \subseteq Dexs
    /\ Requests \subseteq Request
    /\ {MaxSize, MaxTrades, MaxPrice} \subseteq Nat
    /\ None \notin Requests /\ None \notin Prices
    /\ \A s \in SUBSET Coins : s # None

VARIABLES
    position, price,  \* of every coin, at the exchange
    pc,               \* where each call is
    request,          \* what its caller asked for
    inflight,         \* DEXes whose answer it waits for
    sizes,            \* positions it read
    mids,             \* prices it read
    commands,         \* its orders, as place_orders got them
    submission,       \* the orders it signed and posted
    executed,         \* how many of them the exchange is through with
    outcome,          \* how it ended
    began, quiet, filled,  \* history: the prices it began at; nobody else changed a
                           \* position since; every executed order was filled
    trades            \* trades of others so far

exchange == <<position, price, trades>>
work == <<inflight, sizes, mids, commands>>
sent == <<submission, executed, filled>>
vars == <<exchange, pc, request, work, sent, outcome, began, quiet>>

-----------------------------------------------------------------------------
Venue(coin) == IF coin \in SpotCoins THEN "spot" ELSE "perp"
Abs(n) == IF n < 0 THEN -n ELSE n
Lesser(m, n) == IF m < n THEN m ELSE n

\* Mutant of QueriedDexs: the client's DEXes are asked, not those of the coins.
QueriedDexsDefault(r) == IF r.dexs # None THEN r.dexs ELSE DefaultDexs

QueriedDexs(r) ==
    IF r.dexs # None THEN r.dexs
    ELSE IF r.coins # None THEN {CoinDex[coin] : coin \in r.coins}
    ELSE DefaultDexs

Chosen(r) == IF r.coins = None THEN Coins ELSE r.coins

\* _validate_orders.
ValidOrders(cmds, grouping) ==
    /\ \A i \in DOMAIN cmds : cmds[i].isMarket => ~cmds[i].isTrigger /\ cmds[i].slippageFits
    /\ grouping = "normalTpsl" =>
          /\ Len(cmds) >= 2
          /\ \A i \in DOMAIN cmds : cmds[i].isTrigger <=> i > 1

Init ==
    /\ position \in [Coins -> Positions]
    /\ \A coin \in SpotCoins : position[coin] = 0
    /\ price = [coin \in Coins |-> 0]
    /\ pc = [c \in Calls |-> "new"]
    /\ request = [c \in Calls |-> None]
    /\ inflight = [c \in Calls |-> {}]
    /\ sizes = [c \in Calls |-> [coin \in Coins |-> 0]]
    /\ mids = [c \in Calls |-> [coin \in Coins |-> None]]
    /\ commands = [c \in Calls |-> <<>>]
    /\ submission = [c \in Calls |-> <<>>]
    /\ executed = [c \in Calls |-> 0]
    /\ outcome = [c \in Calls |-> "none"]
    /\ began = [c \in Calls |-> price]
    /\ quiet = [c \in Calls |-> TRUE]
    /\ filled = [c \in Calls |-> TRUE]
    /\ trades = 0

-----------------------------------------------------------------------------
End(c, how) ==
    /\ pc' = [pc EXCEPT ![c] = "ended"]
    /\ outcome' = [outcome EXCEPT ![c] = how]

Begin(c, r) ==
    /\ pc[c] = "new"
    /\ request' = [request EXCEPT ![c] = r]
    /\ began' = [began EXCEPT ![c] = price]
    /\ quiet' = [quiet EXCEPT ![c] = TRUE]
    /\ UNCHANGED <<exchange, sent, sizes, mids>>

\* No coins, no orders or orders that do not go together: nothing is asked.
BeginInVain(c, r) ==
    /\ Begin(c, r)
    /\ \/ r.kind = "close" /\ r.coins = {} /\ End(c, "nothing")
       \/ /\ r.kind = "place"
          /\ r.commands = <<>> \/ ~ValidOrders(r.commands, r.grouping)
          /\ End(c, "raised")
    /\ UNCHANGED <<inflight, commands>>

\* close_positions: InfoClient.positions asks every DEX at once.
BeginClose(c, r) ==
    /\ r.kind = "close"
    /\ r.coins # {}
    /\ Begin(c, r)
    /\ inflight' = [inflight EXCEPT ![c] = QueriedDexs(r)]
    /\ pc' = [pc EXCEPT ![c] = "positions"]
    /\ UNCHANGED <<commands, outcome>>

BeginPlace(c, r) ==
    /\ r.kind = "place"
    /\ r.commands # <<>>
    /\ ValidOrders(r.commands, r.grouping)
    /\ Begin(c, r)
    /\ commands' = [commands EXCEPT ![c] = r.commands]
    /\ pc' = [pc EXCEPT ![c] = "lookup"]
    /\ UNCHANGED <<inflight, outcome>>

AnswerPositions(c, dex) ==
    /\ pc[c] = "positions"
    /\ dex \in inflight[c]
    /\ inflight' = [inflight EXCEPT ![c] = @ \ {dex}]
    /\ sizes' = [sizes EXCEPT ![c] =
                    [coin \in Coins |-> IF CoinDex[coin] = dex THEN position[coin]
                                        ELSE @[coin]]]
    /\ UNCHANGED <<exchange, pc, request, sent, mids, commands, outcome, began, quiet>>

\* The order that closes what was read of a coin.
Closing(c, coin) ==
    [coin |-> coin, isBuy |-> sizes[c][coin] < 0, size |-> Abs(sizes[c][coin]),
     px |-> 0, ro |-> TRUE, isMarket |-> TRUE, isTrigger |-> FALSE,
     slippageFits |-> TRUE]

Open(c) == {coin \in Chosen(request[c]) : sizes[c][coin] # 0}

\* Orders come in the order of the coins asked for or of the positions read, which
\* may be any.
Batches(c) ==
    {[i \in 1 .. Cardinality(Open(c)) |-> Closing(c, s[i])] :
        s \in {s \in [1 .. Cardinality(Open(c)) -> Open(c)] :
                  \A i, j \in DOMAIN s : s[i] = s[j] => i = j}}

NothingToClose(c) ==
    /\ pc[c] = "positions"
    /\ inflight[c] = {}
    /\ Open(c) = {}
    /\ End(c, "nothing")
    /\ UNCHANGED <<exchange, request, work, sent, began, quiet>>

SizeOrders(c) ==
    /\ pc[c] = "positions"
    /\ inflight[c] = {}
    /\ Open(c) # {}
    /\ \E batch \in Batches(c) : commands' = [commands EXCEPT ![c] = batch]
    /\ pc' = [pc EXCEPT ![c] = "lookup"]
    /\ UNCHANGED <<exchange, request, inflight, sizes, mids, sent, outcome, began, quiet>>

-----------------------------------------------------------------------------
(* place_orders.                                                           *)

MarketDexs(c) ==
    {CoinDex[commands[c][i].coin] : i \in {i \in DOMAIN commands[c] : commands[c][i].isMarket}}

\* One venue for all orders, and a builder fee that is allowed there.
Admitted(c) ==
    \E venue \in request[c].builderFits :
       \A i \in DOMAIN commands[c] : Venue(commands[c][i].coin) = venue

\* Mutant of MarketOrder: the limit order forgets that it may only reduce.
MarketOrderOpen(cmd, mid) ==
    [coin |-> cmd.coin, isBuy |-> cmd.isBuy, size |-> cmd.size, px |-> mid, ro |-> FALSE]

\* _market_order: the same order with a limit made from the mid price.
MarketOrder(cmd, mid) ==
    [coin |-> cmd.coin, isBuy |-> cmd.isBuy, size |-> cmd.size, px |-> mid, ro |-> cmd.ro]

LimitOrder(cmd) ==
    [coin |-> cmd.coin, isBuy |-> cmd.isBuy, size |-> cmd.size, px |-> cmd.px, ro |-> cmd.ro]

\* encode_order raises for a spot order that is reduce-only.
Encodable(c) ==
    \A i \in DOMAIN commands[c] :
       ~(commands[c][i].coin \in SpotCoins /\ commands[c][i].ro)

\* Mutant of Normalized: the k-th price goes to the k-th order.
NormalizedByRank(c) ==
    [i \in DOMAIN commands[c] |->
        IF i <= Cardinality({j \in DOMAIN commands[c] : commands[c][j].isMarket})
        THEN MarketOrder(commands[c][i],
                         mids[c][commands[c][CHOOSE j \in DOMAIN commands[c] :
                            commands[c][j].isMarket /\
                            Cardinality({k \in 1 .. j : commands[c][k].isMarket}) = i].coin])
        ELSE LimitOrder(commands[c][i])]

\* Market orders get their prices, the others stay.
Normalized(c) ==
    [i \in DOMAIN commands[c] |->
        IF commands[c][i].isMarket
        THEN MarketOrder(commands[c][i], mids[c][commands[c][i].coin])
        ELSE LimitOrder(commands[c][i])]

Post(c) ==
    /\ Encodable(c)
    /\ submission' = [submission EXCEPT ![c] = Normalized(c)]
    /\ pc' = [pc EXCEPT ![c] = "posted"]
    /\ UNCHANGED <<exchange, request, sizes, mids, commands, executed, filled, outcome,
                   began, quiet>>

LookupAndFetch(c) ==
    /\ pc[c] = "lookup"
    /\ Admitted(c)
    /\ MarketDexs(c) # {}
    /\ inflight' = [inflight EXCEPT ![c] = MarketDexs(c)]
    /\ pc' = [pc EXCEPT ![c] = "prices"]
    /\ UNCHANGED <<exchange, request, sizes, mids, commands, sent, outcome, began, quiet>>

LookupAndPost(c) ==
    /\ pc[c] = "lookup"
    /\ Admitted(c)
    /\ MarketDexs(c) = {}
    /\ Post(c)
    /\ UNCHANGED inflight

AnswerMids(c, dex) ==
    /\ pc[c] = "prices"
    /\ dex \in inflight[c]
    /\ inflight' = [inflight EXCEPT ![c] = @ \ {dex}]
    /\ mids' = [mids EXCEPT ![c] =
                   [coin \in Coins |-> IF CoinDex[coin] = dex THEN price[coin] ELSE @[coin]]]
    /\ UNCHANGED <<exchange, pc, request, sent, sizes, commands, outcome, began, quiet>>

PriceAndPost(c) ==
    /\ pc[c] = "prices"
    /\ inflight[c] = {}
    /\ Post(c)
    /\ UNCHANGED inflight

\* What raises between the requests: an answer that is malformed or lacks a market or a
\* price, orders of two venues, a builder fee or a number that is not allowed.
RaiseLocally(c) ==
    /\ pc[c] \in {"positions", "lookup", "prices"}
    /\ inflight[c] = {}
    /\ End(c, "raised")
    /\ UNCHANGED <<exchange, request, work, sent, began, quiet>>

-----------------------------------------------------------------------------
(* wait_for_tasks, cancellation, and the end of a submission.              *)

\* Mutant of RequestFails: the call ends with the first failure.
RequestFailsFast(c, dex) ==
    /\ pc[c] \in {"positions", "prices"}
    /\ dex \in inflight[c]
    /\ inflight' = [inflight EXCEPT ![c] = @ \ {dex}]
    /\ End(c, "raised")
    /\ UNCHANGED <<exchange, request, sizes, mids, commands, sent, began, quiet>>

RequestFails(c, dex) ==
    /\ pc[c] \in {"positions", "prices"}
    /\ dex \in inflight[c]
    /\ inflight' = [inflight EXCEPT ![c] = @ \ {dex}]
    /\ pc' = [pc EXCEPT ![c] = "unwinding"]
    /\ outcome' = [outcome EXCEPT ![c] = "raised"]
    /\ UNCHANGED <<exchange, request, sizes, mids, commands, sent, began, quiet>>

Settle(c, dex) ==
    /\ pc[c] = "unwinding"
    /\ dex \in inflight[c]
    /\ inflight' = [inflight EXCEPT ![c] = @ \ {dex}]
    /\ UNCHANGED <<exchange, pc, request, sizes, mids, commands, sent, outcome, began, quiet>>

Unwound(c) ==
    /\ pc[c] = "unwinding"
    /\ inflight[c] = {}
    /\ pc' = [pc EXCEPT ![c] = "ended"]
    /\ UNCHANGED <<exchange, request, work, sent, outcome, began, quiet>>

\* The task is cancelled, while it waits or while it unwinds, which goes on: a second
\* cancellation, or one after a failure, changes only what is raised in the end.
Cancel(c) ==
    /\ pc[c] \in {"positions", "lookup", "prices", "posted", "unwinding"}
    /\ pc' = [pc EXCEPT ![c] = IF inflight[c] = {} THEN "ended" ELSE "unwinding"]
    /\ outcome' = [outcome EXCEPT ![c] = "cancelled"]
    /\ UNCHANGED <<exchange, request, work, sent, began, quiet>>

Reply(c) ==
    /\ pc[c] = "posted"
    /\ executed[c] = Len(submission[c])
    /\ End(c, "answered")
    /\ UNCHANGED <<exchange, request, work, sent, began, quiet>>

NoTrustedReply(c) ==
    /\ pc[c] = "posted"
    /\ End(c, "unknown")
    /\ UNCHANGED <<exchange, request, work, sent, began, quiet>>

-----------------------------------------------------------------------------
(* The exchange.                                                           *)

\* What an order changes a position by if it is filled: a reduce-only order no more
\* than the position it reduces.
Change(order) ==
    LET room == IF order.isBuy THEN -position[order.coin] ELSE position[order.coin]
        size == IF ~order.ro THEN order.size
                ELSE IF room <= 0 THEN 0 ELSE Lesser(order.size, room)
    IN  IF order.coin \in SpotCoins THEN 0 ELSE IF order.isBuy THEN size ELSE -size

\* The next order of a submission arrives and is filled or not.
Execute(c) ==
    /\ executed[c] < Len(submission[c])
    /\ LET order == submission[c][executed[c] + 1]
           after == position[order.coin] + Change(order)
       IN  \/ /\ after \in Positions
              /\ position' = [position EXCEPT ![order.coin] = after]
              /\ quiet' = IF Change(order) = 0 THEN quiet
                          ELSE [d \in Calls |-> quiet[d] /\ d = c]
              /\ UNCHANGED filled
           \/ /\ filled' = [filled EXCEPT ![c] = FALSE]
              /\ UNCHANGED <<position, quiet>>
    /\ executed' = [executed EXCEPT ![c] = @ + 1]
    /\ UNCHANGED <<price, trades, pc, request, work, submission, outcome, began>>

\* Orders of others, resting orders, liquidation.
Trade(coin, to) ==
    /\ trades < MaxTrades
    /\ coin \notin SpotCoins
    /\ to # position[coin]
    /\ position' = [position EXCEPT ![coin] = to]
    /\ trades' = trades + 1
    /\ quiet' = [c \in Calls |-> FALSE]
    /\ UNCHANGED <<price, pc, request, work, sent, outcome, began>>

PriceMoves(coin) ==
    /\ price[coin] < MaxPrice
    /\ price' = [price EXCEPT ![coin] = @ + 1]
    /\ UNCHANGED <<position, trades, pc, request, work, sent, outcome, began, quiet>>

-----------------------------------------------------------------------------
Next ==
    \/ \E c \in Calls, r \in Requests : BeginInVain(c, r) \/ BeginClose(c, r) \/ BeginPlace(c, r)
    \/ \E c \in Calls, dex \in Dexs :
          \/ AnswerPositions(c, dex) \/ AnswerMids(c, dex)
          \/ RequestFails(c, dex) \/ Settle(c, dex)
    \/ \E c \in Calls :
          \/ NothingToClose(c) \/ SizeOrders(c)
          \/ LookupAndFetch(c) \/ LookupAndPost(c) \/ PriceAndPost(c) \/ RaiseLocally(c)
          \/ Unwound(c) \/ Cancel(c) \/ Reply(c) \/ NoTrustedReply(c)
          \/ Execute(c)
    \/ \E coin \in Coins, to \in Positions : Trade(coin, to)
    \/ \E coin \in Coins : PriceMoves(coin)

Spec == Init /\ [][Next]_vars

-----------------------------------------------------------------------------
(* Properties.                                                             *)

TypeOK ==
    /\ position \in [Coins -> Positions]
    /\ price \in [Coins -> Prices]
    /\ pc \in [Calls -> {"new", "positions", "lookup", "prices", "posted", "unwinding",
                         "ended"}]
    /\ request \in [Calls -> Requests \cup {None}]
    /\ inflight \in [Calls -> SUBSET Dexs]
    /\ sizes \in [Calls -> [Coins -> Positions]]
    /\ mids \in [Calls -> [Coins -> Prices \cup {None}]]
    /\ commands \in [Calls -> Seq(Command)]
    /\ submission \in [Calls -> Seq(Order)]
    /\ executed \in [Calls -> Nat]
    /\ outcome \in [Calls -> {"none", "nothing", "raised", "cancelled", "answered", "unknown"}]
    /\ began \in [Calls -> [Coins -> Prices]]
    /\ quiet \in [Calls -> BOOLEAN]
    /\ filled \in [Calls -> BOOLEAN]
    /\ trades \in 0 .. MaxTrades

\* A close never opens, enlarges or turns over a position, though it was sized from a
\* position read long before it is executed, several calls may close the same one, and
\* an order may be executed after its caller gave up.
CloseOnlyReduces ==
    [][\A c \in Calls :
          executed'[c] # executed[c] /\ request[c] # None /\ request[c].kind = "close" =>
             \A coin \in Coins :
                \/ position[coin] <= position'[coin] /\ position'[coin] <= 0
                \/ 0 <= position'[coin] /\ position'[coin] <= position[coin]]_vars

\* Orders that are those asked of a call.
FaithfulTo(c, batch) ==
    /\ Len(batch) = Len(commands[c])
    /\ \A i \in DOMAIN commands[c] :
          LET cmd == commands[c][i]
              order == batch[i]
          IN  /\ order.coin = cmd.coin /\ order.isBuy = cmd.isBuy
              /\ order.size = cmd.size /\ order.ro = cmd.ro
              /\ IF cmd.isMarket
                 THEN began[c][cmd.coin] <= order.px /\ order.px <= price[cmd.coin]
                 ELSE order.px = cmd.px

\* What is posted is what was asked for: an order per command, in their order, a limit
\* order at its own price, a market order at a price its own market had during the call.
FaithfulBatch ==
    \A c \in Calls : submission[c] # <<>> => FaithfulTo(c, submission[c])

\* If nobody else trades and its orders are filled, a close leaves none of the positions
\* open that it was asked to close on the DEXes it reads; nor does it say that there is
\* nothing to close while one of them is open.
UndisturbedCloseCloses ==
    \A c \in Calls :
       ( /\ request[c] # None /\ request[c].kind = "close" /\ quiet[c]
         /\ \/ outcome[c] = "nothing"
            \/ submission[c] # <<>> /\ executed[c] = Len(submission[c]) /\ filled[c] )
       => \A coin \in Chosen(request[c]) :
             \/ position[coin] = 0
             \/ request[c].dexs # None /\ CoinDex[coin] \notin request[c].dexs
             \/ request[c].dexs = None /\ request[c].coins = None
                /\ CoinDex[coin] \notin DefaultDexs

\* No request of a fan-out outlives its call, and a call that raised before it posted, or
\* had nothing to close, has nothing at the exchange.
NothingLeftBehind ==
    \A c \in Calls :
       /\ pc[c] = "ended" => inflight[c] = {}
       /\ outcome[c] \in {"nothing", "raised"} => submission[c] = <<>>

\* What each phase of a call has and has not done yet.
PhaseInv ==
    \A c \in Calls :
       /\ pc[c] \in {"new", "lookup", "posted", "ended"} => inflight[c] = {}
       /\ pc[c] \in {"new", "positions", "lookup", "prices", "unwinding"} => submission[c] = <<>>
       /\ pc[c] \in {"new", "positions", "lookup", "prices", "posted"} => outcome[c] = "none"
       /\ outcome[c] \in {"nothing", "raised"} => submission[c] = <<>>
       /\ pc[c] = "new" => commands[c] = <<>> /\ mids[c] = [coin \in Coins |-> None]
       /\ pc[c] # "new" => request[c] # None

\* A price that was read is one its coin had during the call.
PricesInTime(c) ==
    \A coin \in Coins :
       /\ began[c][coin] <= price[coin]
       /\ mids[c][coin] # None =>
             began[c][coin] <= mids[c][coin] /\ mids[c][coin] <= price[coin]

\* While answers are awaited, a market order has its price or its DEX has yet to answer.
PricesComing(c) ==
    pc[c] = "prices" =>
       \A i \in DOMAIN commands[c] :
          commands[c][i].isMarket =>
             \/ CoinDex[commands[c][i].coin] \in inflight[c]
             \/ mids[c][commands[c][i].coin] # None

PriceInv == \A c \in Calls : PricesInTime(c) /\ PricesComing(c)

\* Every order of a close is reduce-only.
CloseInv ==
    \A c \in Calls :
       request[c] # None /\ request[c].kind = "close" =>
          \A i \in DOMAIN commands[c] : commands[c][i].ro

\* The inductive invariant: together these imply the next state's, and the properties.
WorkflowInv == TypeOK /\ PhaseInv /\ PriceInv /\ CloseInv /\ FaithfulBatch

-----------------------------------------------------------------------------
(* Why an undisturbed close closes.                                        *)

\* A reduce-only order that takes the position of a coin to zero, if it is filled.
Closes(order, coin) ==
    /\ order.coin = coin
    /\ order.ro
    /\ IF order.isBuy THEN position[coin] <= 0 /\ -position[coin] <= order.size
       ELSE position[coin] >= 0 /\ position[coin] <= order.size

\* The coins a close was asked for on the DEXes it reads.
Covered(c) == {coin \in Chosen(request[c]) : CoinDex[coin] \in QueriedDexs(request[c])}

\* While nobody else trades, what a close read is what is there, and every position it
\* covers is closed or has an order on its way that will close it.
OrderComing(c) ==
    request[c] # None /\ request[c].kind = "close" /\ quiet[c] =>
       \A coin \in Covered(c) :
          /\ pc[c] = "positions" =>
                CoinDex[coin] \in inflight[c] \/ sizes[c][coin] = position[coin]
          /\ pc[c] \in {"lookup", "prices"} =>
                \/ position[coin] = 0
                \/ \E i \in DOMAIN commands[c] : Closes(commands[c][i], coin)
          /\ outcome[c] = "nothing" => position[coin] = 0
          /\ submission[c] # <<>> /\ filled[c] =>
                \/ position[coin] = 0
                \/ \E i \in executed[c] + 1 .. Len(submission[c]) :
                      Closes(submission[c][i], coin)

\* With WorkflowInv, inductive.
ClosingInv ==
    /\ \A coin \in SpotCoins : position[coin] = 0
    /\ \A c \in Calls : executed[c] <= Len(submission[c]) /\ OrderComing(c)

=============================================================================
