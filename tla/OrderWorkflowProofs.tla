------------------------ MODULE OrderWorkflowProofs ------------------------
(***************************************************************************)
(* For all coins, DEXes, requests, calls and bounds: WorkflowInv is        *)
(* inductive, so whatever happens between its requests a call submits what *)
(* it was asked for, at prices of its own time, a close can only reduce    *)
(* positions, a call that fails before it posts leaves nothing behind, and *)
(* a close that nobody disturbs and whose orders are filled closes all it  *)
(* was asked to close (ClosingInv).                                        *)
(***************************************************************************)
EXTENDS OrderWorkflow, TLAPS, FiniteSetTheorems

-----------------------------------------------------------------------------
(* The pieces.                                                             *)

LEMMA RequestShape ==
    ASSUME NEW r \in Requests
    PROVE  /\ r \in Request /\ r # None
           /\ r.kind \in {"place", "close"}
           /\ r.commands \in Seq(Command)
           /\ r.coins \in (SUBSET Coins) \cup {None}
           /\ r.dexs \in (SUBSET Dexs) \cup {None}
  BY WorkflowAssumption DEF WorkflowAssumption, Request

\* The DEXes a close asks are DEXes of the exchange.
LEMMA QueriedAreDexs ==
    ASSUME NEW r \in Requests
    PROVE  QueriedDexs(r) \subseteq Dexs
  BY RequestShape, WorkflowAssumption DEF WorkflowAssumption, QueriedDexs

\* What is left open is finite, so its orders make a sequence.
LEMMA OpenIsFinite ==
    ASSUME TypeOK, NEW c \in Calls, request[c] \in Requests
    PROVE  Open(c) \subseteq Coins /\ Cardinality(Open(c)) \in Nat
  <1>1. Open(c) \subseteq Coins
    BY RequestShape DEF Open, Chosen
  <1>2. IsFiniteSet(Open(c))
    BY <1>1, FS_Subset, WorkflowAssumption DEF WorkflowAssumption
  <1> QED BY <1>1, <1>2, FS_CardinalityType

\* The order that closes a position is well formed and reduce-only.
LEMMA ClosingShape ==
    ASSUME TypeOK, NEW c \in Calls, NEW coin \in Coins
    PROVE  Closing(c, coin) \in Command /\ Closing(c, coin).ro
  <1>1. sizes[c][coin] \in Positions BY DEF TypeOK
  <1>2. sizes[c][coin] \in Int /\ 0 \in Prices
    BY <1>1, WorkflowAssumption DEF WorkflowAssumption, Positions, Prices
  <1>3. Abs(sizes[c][coin]) \in Nat BY <1>2 DEF Abs
  <1> QED BY <1>2, <1>3 DEF Closing, Command

LEMMA BatchShape ==
    ASSUME TypeOK, NEW c \in Calls, request[c] \in Requests, NEW batch \in Batches(c)
    PROVE  /\ batch \in Seq(Command)
           /\ \A i \in DOMAIN batch : batch[i].ro
  <1> DEFINE n == Cardinality(Open(c))
  <1>1. PICK s \in [1 .. n -> Open(c)] : batch = [i \in 1 .. n |-> Closing(c, s[i])]
    BY DEF Batches
  <1>2. n \in Nat /\ Open(c) \subseteq Coins BY OpenIsFinite
  <1>3. ASSUME NEW i \in 1 .. n PROVE Closing(c, s[i]) \in Command /\ Closing(c, s[i]).ro
    <2>1. s[i] \in Coins BY <1>1, <1>2
    <2> QED BY <2>1, ClosingShape
  <1> HIDE DEF n
  <1>4. batch \in [1 .. n -> Command] BY <1>1, <1>3
  <1>5. batch \in Seq(Command) BY <1>2, <1>4
  <1>6. DOMAIN batch = 1 .. n BY <1>4
  <1> QED BY <1>1, <1>3, <1>5, <1>6

\* Once every market order has its price, what Post submits is well formed.
LEMMA NormalizedShape ==
    ASSUME TypeOK, NEW c \in Calls,
           \A i \in DOMAIN commands[c] :
              commands[c][i].isMarket => mids[c][commands[c][i].coin] # None
    PROVE  Normalized(c) \in Seq(Order)
  <1> DEFINE cmds == commands[c]
  <1>1. cmds \in Seq(Command) /\ mids[c] \in [Coins -> Prices \cup {None}] BY DEF TypeOK
  <1>2. Len(cmds) \in Nat /\ DOMAIN cmds = 1 .. Len(cmds) BY <1>1
  <1>3. ASSUME NEW i \in DOMAIN cmds PROVE Normalized(c)[i] \in Order
    <2>1. cmds[i] \in Command BY <1>1, <1>2
    <2>2. CASE cmds[i].isMarket
      <3>1. mids[c][cmds[i].coin] \in Prices BY <1>1, <2>1, <2>2 DEF Command
      <3>2. Normalized(c)[i] = MarketOrder(cmds[i], mids[c][cmds[i].coin])
        BY <2>2 DEF Normalized
      <3> QED BY <2>1, <3>1, <3>2 DEF MarketOrder, Command, Order
    <2>3. CASE ~cmds[i].isMarket
      <3>1. Normalized(c)[i] = LimitOrder(cmds[i]) BY <2>3 DEF Normalized
      <3> QED BY <2>1, <3>1 DEF LimitOrder, Command, Order
    <2> QED BY <2>2, <2>3
  <1>4. DOMAIN Normalized(c) = 1 .. Len(cmds) BY <1>2 DEF Normalized
  <1>5. Normalized(c) = [i \in 1 .. Len(cmds) |-> Normalized(c)[i]]
    BY <1>2 DEF Normalized
  <1>6. Normalized(c) \in [1 .. Len(cmds) -> Order] BY <1>2, <1>3, <1>5
  <1> QED BY <1>2, <1>6

\* When every price has come, every market order has one.
LEMMA PricesComplete ==
    ASSUME PriceInv, NEW c \in Calls, pc[c] = "prices", inflight[c] = {}
    PROVE  \A i \in DOMAIN commands[c] :
              commands[c][i].isMarket => mids[c][commands[c][i].coin] # None
  BY DEF PriceInv, PricesComing

\* Without market orders none needs a price.
LEMMA NoPricesNeeded ==
    ASSUME NEW c \in Calls, MarketDexs(c) = {}
    PROVE  \A i \in DOMAIN commands[c] :
              commands[c][i].isMarket => mids[c][commands[c][i].coin] # None
  BY DEF MarketDexs

\* An order has a size, a side, and a position it changes.
LEMMA OrderShape ==
    ASSUME TypeOK, NEW order \in Order
    PROVE  /\ position[order.coin] \in Int
           /\ order.size \in Nat /\ order.isBuy \in BOOLEAN
  <1>1. order.coin \in Coins /\ order.size \in Nat /\ order.isBuy \in BOOLEAN
    BY DEF Order
  <1>2. position[order.coin] \in Positions BY <1>1 DEF TypeOK
  <1> QED BY <1>1, <1>2, WorkflowAssumption DEF WorkflowAssumption, Positions

\* A filled order moves the position of a reduce-only order towards zero and not past it.
LEMMA ReduceOnlyReduces ==
    ASSUME TypeOK, NEW order \in Order, order.ro
    PROVE  LET before == position[order.coin]
               after == before + Change(order)
           IN  \/ before <= after /\ after <= 0
               \/ 0 <= after /\ after <= before
  <1>1. position[order.coin] \in Int
    BY WorkflowAssumption DEF WorkflowAssumption, TypeOK, Order, Positions
  <1>2. order.size \in Nat /\ order.isBuy \in BOOLEAN BY DEF Order
  <1> QED BY <1>1, <1>2 DEF Change, Lesser

-----------------------------------------------------------------------------
(* Each part of WorkflowInv is kept by every step.                         *)

LEMMA InitWorkflow == Init => WorkflowInv
  <1> SUFFICES ASSUME Init PROVE WorkflowInv OBVIOUS
  <1>1. 0 \in Prices /\ 0 \in Positions /\ 0 \in 0 .. MaxTrades
    BY WorkflowAssumption DEF WorkflowAssumption, Prices, Positions
  <1>2. TypeOK
    BY <1>1 DEF Init, TypeOK
  <1>3. PhaseInv
    BY DEF Init, PhaseInv
  <1>4. PriceInv
    BY <1>1 DEF Init, PriceInv, PricesInTime, PricesComing, Prices
  <1>5. CloseInv
    BY DEF Init, CloseInv
  <1>6. FaithfulBatch
    BY DEF Init, FaithfulBatch
  <1> QED BY <1>2, <1>3, <1>4, <1>5, <1>6 DEF WorkflowInv

LEMMA TypeStep ==
    ASSUME TypeOK, PhaseInv, PriceInv, Next
    PROVE  TypeOK'
  <1>1. ASSUME NEW c \in Calls, NEW r \in Requests, BeginInVain(c, r) PROVE TypeOK'
    BY <1>1 DEF BeginInVain, Begin, End, TypeOK, exchange, sent, work
  <1>2. ASSUME NEW c \in Calls, NEW r \in Requests, BeginClose(c, r) PROVE TypeOK'
    BY <1>2, QueriedAreDexs DEF BeginClose, Begin, TypeOK, exchange, sent, work
  <1>3. ASSUME NEW c \in Calls, NEW r \in Requests, BeginPlace(c, r) PROVE TypeOK'
    BY <1>3, RequestShape DEF BeginPlace, Begin, TypeOK, exchange, sent, work
  <1>4. ASSUME NEW c \in Calls, NEW dex \in Dexs, AnswerPositions(c, dex) PROVE TypeOK'
    <2>1. [coin \in Coins |-> IF CoinDex[coin] = dex THEN position[coin]
                              ELSE sizes[c][coin]] \in [Coins -> Positions]
      BY DEF TypeOK
    <2> QED BY <1>4, <2>1 DEF AnswerPositions, TypeOK, exchange, sent, work
  <1>5. ASSUME NEW c \in Calls, NEW dex \in Dexs, AnswerMids(c, dex) PROVE TypeOK'
    <2>1. [coin \in Coins |-> IF CoinDex[coin] = dex THEN price[coin]
                              ELSE mids[c][coin]] \in [Coins -> Prices \cup {None}]
      BY DEF TypeOK
    <2> QED BY <1>5, <2>1 DEF AnswerMids, TypeOK, exchange, sent, work
  <1>6. ASSUME NEW c \in Calls, NEW dex \in Dexs, RequestFails(c, dex) PROVE TypeOK'
    BY <1>6 DEF RequestFails, TypeOK, exchange, sent, work
  <1>7. ASSUME NEW c \in Calls, NEW dex \in Dexs, Settle(c, dex) PROVE TypeOK'
    BY <1>7 DEF Settle, TypeOK, exchange, sent, work
  <1>8. ASSUME NEW c \in Calls, NothingToClose(c) PROVE TypeOK'
    BY <1>8 DEF NothingToClose, End, TypeOK, exchange, sent, work
  <1>9. ASSUME NEW c \in Calls, SizeOrders(c) PROVE TypeOK'
    <2>1. request[c] \in Requests
      BY <1>9 DEF SizeOrders, TypeOK, PhaseInv
    <2>2. PICK batch \in Batches(c) : commands' = [commands EXCEPT ![c] = batch]
      BY <1>9 DEF SizeOrders
    <2>3. batch \in Seq(Command) BY <2>1, BatchShape
    <2> QED BY <1>9, <2>2, <2>3 DEF SizeOrders, TypeOK, exchange, sent, work
  <1>10. ASSUME NEW c \in Calls, LookupAndFetch(c) PROVE TypeOK'
    <2>1. commands[c] \in Seq(Command) BY DEF TypeOK
    <2>2. ASSUME NEW i \in DOMAIN commands[c] PROVE CoinDex[commands[c][i].coin] \in Dexs
      <3>1. commands[c][i] \in Command BY <2>1
      <3> QED BY <3>1, WorkflowAssumption DEF WorkflowAssumption, Command
    <2>3. MarketDexs(c) \subseteq Dexs
      BY <2>2 DEF MarketDexs
    <2> QED BY <1>10, <2>3 DEF LookupAndFetch, TypeOK, exchange, sent, work
  <1>11. ASSUME NEW c \in Calls, LookupAndPost(c) PROVE TypeOK'
    <2>1. Normalized(c) \in Seq(Order)
      BY <1>11, NoPricesNeeded, NormalizedShape DEF LookupAndPost
    <2> QED BY <1>11, <2>1 DEF LookupAndPost, Post, TypeOK, exchange, sent, work
  <1>12. ASSUME NEW c \in Calls, PriceAndPost(c) PROVE TypeOK'
    <2>1. Normalized(c) \in Seq(Order)
      BY <1>12, PricesComplete, NormalizedShape DEF PriceAndPost
    <2> QED BY <1>12, <2>1 DEF PriceAndPost, Post, TypeOK, exchange, sent, work
  <1>13. ASSUME NEW c \in Calls, RaiseLocally(c) PROVE TypeOK'
    BY <1>13 DEF RaiseLocally, End, TypeOK, exchange, sent, work
  <1>14. ASSUME NEW c \in Calls, Unwound(c) PROVE TypeOK'
    BY <1>14 DEF Unwound, TypeOK, exchange, sent, work
  <1>15. ASSUME NEW c \in Calls, Cancel(c) PROVE TypeOK'
    BY <1>15 DEF Cancel, TypeOK, exchange, sent, work
  <1>16. ASSUME NEW c \in Calls, Reply(c) PROVE TypeOK'
    BY <1>16 DEF Reply, End, TypeOK, exchange, sent, work
  <1>17. ASSUME NEW c \in Calls, NoTrustedReply(c) PROVE TypeOK'
    BY <1>17 DEF NoTrustedReply, End, TypeOK, exchange, sent, work
  <1>18. ASSUME NEW c \in Calls, Execute(c) PROVE TypeOK'
    <2> DEFINE order == submission[c][executed[c] + 1]
    <2>1. position' \in [Coins -> Positions]
      <3>1. CASE UNCHANGED position BY <3>1 DEF TypeOK
      <3>2. CASE /\ position[order.coin] + Change(order) \in Positions
                 /\ position' = [position EXCEPT ![order.coin] =
                                    position[order.coin] + Change(order)]
        <4> HIDE DEF order
        <4> QED BY <3>2 DEF TypeOK
      <3> QED BY <1>18, <3>1, <3>2 DEF Execute
    <2>2. quiet' \in [Calls -> BOOLEAN]
      <3>1. [d \in Calls |-> quiet[d] /\ d = c] \in [Calls -> BOOLEAN] OBVIOUS
      <3>2. quiet' = quiet \/ quiet' = [d \in Calls |-> quiet[d] /\ d = c]
        BY <1>18 DEF Execute
      <3> QED BY <3>1, <3>2, Zenon DEF TypeOK
    <2>3. filled' \in [Calls -> BOOLEAN]
      BY <1>18 DEF Execute, TypeOK
    <2>4. executed' \in [Calls -> Nat]
      BY <1>18 DEF Execute, TypeOK
    <2>5. UNCHANGED <<price, trades, pc, request, work, submission, outcome, began>>
      BY <1>18 DEF Execute
    <2> QED BY <2>1, <2>2, <2>3, <2>4, <2>5 DEF TypeOK, work
  <1>19. ASSUME NEW coin \in Coins, NEW to \in Positions, Trade(coin, to) PROVE TypeOK'
    <2>1. trades' \in 0 .. MaxTrades
      BY <1>19, WorkflowAssumption DEF WorkflowAssumption, Trade, TypeOK
    <2> QED BY <1>19, <2>1 DEF Trade, TypeOK, sent, work
  <1>20. ASSUME NEW coin \in Coins, PriceMoves(coin) PROVE TypeOK'
    <2>1. price[coin] + 1 \in Prices
      BY <1>20, WorkflowAssumption DEF WorkflowAssumption, PriceMoves, TypeOK, Prices
    <2> QED BY <1>20, <2>1 DEF PriceMoves, TypeOK, sent, work
  <1> QED BY <1>1, <1>2, <1>3, <1>4, <1>5, <1>6, <1>7, <1>8, <1>9, <1>10, <1>11, <1>12,
             <1>13, <1>14, <1>15, <1>16, <1>17, <1>18, <1>19, <1>20 DEF Next

\* A call's phase tells what it has done.
LEMMA PhaseStep ==
    ASSUME TypeOK, PhaseInv, Next
    PROVE  PhaseInv'
  <1>1. ASSUME NEW c \in Calls, NEW r \in Requests, BeginInVain(c, r) PROVE PhaseInv'
    BY <1>1, RequestShape DEF BeginInVain, Begin, End, PhaseInv, TypeOK, exchange, sent, work
  <1>2. ASSUME NEW c \in Calls, NEW r \in Requests, BeginClose(c, r) PROVE PhaseInv'
    BY <1>2, RequestShape DEF BeginClose, Begin, PhaseInv, TypeOK, exchange, sent, work
  <1>3. ASSUME NEW c \in Calls, NEW r \in Requests, BeginPlace(c, r) PROVE PhaseInv'
    BY <1>3, RequestShape DEF BeginPlace, Begin, PhaseInv, TypeOK, exchange, sent, work
  <1>4. ASSUME NEW c \in Calls, NEW dex \in Dexs, AnswerPositions(c, dex) PROVE PhaseInv'
    BY <1>4 DEF AnswerPositions, PhaseInv, TypeOK, exchange, sent, work
  <1>5. ASSUME NEW c \in Calls, NEW dex \in Dexs, AnswerMids(c, dex) PROVE PhaseInv'
    BY <1>5 DEF AnswerMids, PhaseInv, TypeOK, exchange, sent, work
  <1>6. ASSUME NEW c \in Calls, NEW dex \in Dexs, RequestFails(c, dex) PROVE PhaseInv'
    BY <1>6 DEF RequestFails, PhaseInv, TypeOK, exchange, sent, work
  <1>7. ASSUME NEW c \in Calls, NEW dex \in Dexs, Settle(c, dex) PROVE PhaseInv'
    BY <1>7 DEF Settle, PhaseInv, TypeOK, exchange, sent, work
  <1>8. ASSUME NEW c \in Calls, NothingToClose(c) PROVE PhaseInv'
    BY <1>8 DEF NothingToClose, End, PhaseInv, TypeOK, exchange, sent, work
  <1>9. ASSUME NEW c \in Calls, SizeOrders(c) PROVE PhaseInv'
    BY <1>9 DEF SizeOrders, PhaseInv, TypeOK, exchange, sent, work
  <1>10. ASSUME NEW c \in Calls, LookupAndFetch(c) PROVE PhaseInv'
    BY <1>10 DEF LookupAndFetch, PhaseInv, TypeOK, exchange, sent, work
  <1>11. ASSUME NEW c \in Calls, LookupAndPost(c) PROVE PhaseInv'
    BY <1>11 DEF LookupAndPost, Post, PhaseInv, TypeOK, exchange, sent, work
  <1>12. ASSUME NEW c \in Calls, PriceAndPost(c) PROVE PhaseInv'
    BY <1>12 DEF PriceAndPost, Post, PhaseInv, TypeOK, exchange, sent, work
  <1>13. ASSUME NEW c \in Calls, RaiseLocally(c) PROVE PhaseInv'
    BY <1>13 DEF RaiseLocally, End, PhaseInv, TypeOK, exchange, sent, work
  <1>14. ASSUME NEW c \in Calls, Unwound(c) PROVE PhaseInv'
    BY <1>14 DEF Unwound, PhaseInv, TypeOK, exchange, sent, work
  <1>15. ASSUME NEW c \in Calls, Cancel(c) PROVE PhaseInv'
    BY <1>15 DEF Cancel, PhaseInv, TypeOK, exchange, sent, work
  <1>16. ASSUME NEW c \in Calls, Reply(c) PROVE PhaseInv'
    BY <1>16 DEF Reply, End, PhaseInv, TypeOK, exchange, sent, work
  <1>17. ASSUME NEW c \in Calls, NoTrustedReply(c) PROVE PhaseInv'
    BY <1>17 DEF NoTrustedReply, End, PhaseInv, TypeOK, exchange, sent, work
  <1>18. ASSUME NEW c \in Calls, Execute(c) PROVE PhaseInv'
    BY <1>18 DEF Execute, PhaseInv, TypeOK, exchange, sent, work
  <1>19. ASSUME NEW coin \in Coins, NEW to \in Positions, Trade(coin, to) PROVE PhaseInv'
    BY <1>19 DEF Trade, PhaseInv, TypeOK, exchange, sent, work
  <1>20. ASSUME NEW coin \in Coins, PriceMoves(coin) PROVE PhaseInv'
    BY <1>20 DEF PriceMoves, PhaseInv, TypeOK, exchange, sent, work
  <1> QED BY <1>1, <1>2, <1>3, <1>4, <1>5, <1>6, <1>7, <1>8, <1>9, <1>10, <1>11, <1>12,
             <1>13, <1>14, <1>15, <1>16, <1>17, <1>18, <1>19, <1>20 DEF Next

\* Prices only grow, and an answer is the price of its moment.
LEMMA PriceStep ==
    ASSUME TypeOK, PhaseInv, PriceInv, Next
    PROVE  PriceInv'
  <1>1. ASSUME NEW c \in Calls, NEW r \in Requests, BeginInVain(c, r) PROVE PriceInv'
    <2>1. /\ mids' = mids /\ price' = price
          /\ pc[c] = "new" /\ pc'[c] # "prices"
          /\ began' = [began EXCEPT ![c] = price]
      BY <1>1 DEF BeginInVain, Begin, End, exchange, TypeOK
    <2>2. mids[c] = [coin \in Coins |-> None] BY <2>1 DEF PhaseInv
    <2>3. ASSUME NEW d \in Calls, d # c
          PROVE  pc'[d] = pc[d] /\ inflight'[d] = inflight[d] /\ commands'[d] = commands[d]
      BY <2>3, <1>1 DEF BeginInVain, Begin, End, TypeOK
    <2>4. \A d \in Calls : PricesComing(d)'
      BY <2>1, <2>3 DEF PriceInv, PricesComing
    <2>5. \A d \in Calls : PricesInTime(d)'
      BY <2>1, <2>2 DEF PriceInv, PricesInTime, TypeOK, Prices
    <2> QED BY <2>4, <2>5 DEF PriceInv
  <1>2. ASSUME NEW c \in Calls, NEW r \in Requests, BeginClose(c, r) PROVE PriceInv'
    <2>1. /\ mids' = mids /\ price' = price
          /\ pc[c] = "new" /\ pc'[c] # "prices"
          /\ began' = [began EXCEPT ![c] = price]
      BY <1>2 DEF BeginClose, Begin, exchange, TypeOK
    <2>2. mids[c] = [coin \in Coins |-> None] BY <2>1 DEF PhaseInv
    <2>3. ASSUME NEW d \in Calls, d # c
          PROVE  pc'[d] = pc[d] /\ inflight'[d] = inflight[d] /\ commands'[d] = commands[d]
      BY <2>3, <1>2 DEF BeginClose, Begin, TypeOK
    <2>4. \A d \in Calls : PricesComing(d)'
      BY <2>1, <2>3 DEF PriceInv, PricesComing
    <2>5. \A d \in Calls : PricesInTime(d)'
      BY <2>1, <2>2 DEF PriceInv, PricesInTime, TypeOK, Prices
    <2> QED BY <2>4, <2>5 DEF PriceInv
  <1>3. ASSUME NEW c \in Calls, NEW r \in Requests, BeginPlace(c, r) PROVE PriceInv'
    <2>1. /\ mids' = mids /\ price' = price
          /\ pc[c] = "new" /\ pc'[c] # "prices"
          /\ began' = [began EXCEPT ![c] = price]
      BY <1>3 DEF BeginPlace, Begin, exchange, TypeOK
    <2>2. mids[c] = [coin \in Coins |-> None] BY <2>1 DEF PhaseInv
    <2>3. ASSUME NEW d \in Calls, d # c
          PROVE  pc'[d] = pc[d] /\ inflight'[d] = inflight[d] /\ commands'[d] = commands[d]
      BY <2>3, <1>3 DEF BeginPlace, Begin, TypeOK
    <2>4. \A d \in Calls : PricesComing(d)'
      BY <2>1, <2>3 DEF PriceInv, PricesComing
    <2>5. \A d \in Calls : PricesInTime(d)'
      BY <2>1, <2>2 DEF PriceInv, PricesInTime, TypeOK, Prices
    <2> QED BY <2>4, <2>5 DEF PriceInv
  <1>4. ASSUME NEW c \in Calls, NEW dex \in Dexs, AnswerPositions(c, dex) PROVE PriceInv'
    BY <1>4 DEF AnswerPositions, PriceInv, PricesInTime, PricesComing, TypeOK, exchange, sent, work
  <1>5. ASSUME NEW c \in Calls, NEW dex \in Dexs, AnswerMids(c, dex) PROVE PriceInv'
    <2>1. /\ inflight' = [inflight EXCEPT ![c] = @ \ {dex}]
          /\ mids' = [mids EXCEPT ![c] =
                        [coin \in Coins |-> IF CoinDex[coin] = dex THEN price[coin]
                                            ELSE mids[c][coin]]]
          /\ UNCHANGED <<price, pc, commands, began>>
      BY <1>5 DEF AnswerMids, exchange
    <2>2. \A coin \in Coins : price[coin] \in Int /\ price[coin] # None
      BY WorkflowAssumption DEF WorkflowAssumption, TypeOK, Prices
    <2>3. ASSUME NEW d \in Calls, d # c
          PROVE  mids'[d] = mids[d] /\ inflight'[d] = inflight[d]
      BY <2>3, <2>1 DEF TypeOK
    <2>4. ASSUME NEW coin \in Coins
          PROVE  mids'[c][coin] = IF CoinDex[coin] = dex THEN price[coin] ELSE mids[c][coin]
      BY <2>1 DEF TypeOK
    <2>5. inflight'[c] = inflight[c] \ {dex} BY <2>1 DEF TypeOK
    <2>6. ASSUME NEW i \in DOMAIN commands[c] PROVE commands[c][i].coin \in Coins
      <3>1. commands[c][i] \in Command BY DEF TypeOK
      <3> QED BY <3>1 DEF Command
    <2>7. PricesComing(c)'
      BY <2>1, <2>2, <2>4, <2>5, <2>6 DEF PriceInv, PricesComing
    <2>8. PricesInTime(c)'
      BY <2>1, <2>2, <2>4 DEF PriceInv, PricesInTime
    <2>9. ASSUME NEW d \in Calls, d # c PROVE PricesComing(d)' /\ PricesInTime(d)'
      BY <2>1, <2>3, <2>9 DEF PriceInv, PricesComing, PricesInTime
    <2> QED BY <2>7, <2>8, <2>9 DEF PriceInv
  <1>6. ASSUME NEW c \in Calls, NEW dex \in Dexs, RequestFails(c, dex) PROVE PriceInv'
    BY <1>6 DEF RequestFails, PriceInv, PricesInTime, PricesComing, TypeOK, exchange, sent, work
  <1>7. ASSUME NEW c \in Calls, NEW dex \in Dexs, Settle(c, dex) PROVE PriceInv'
    BY <1>7 DEF Settle, PriceInv, PricesInTime, PricesComing, TypeOK, exchange, sent, work
  <1>8. ASSUME NEW c \in Calls, NothingToClose(c) PROVE PriceInv'
    BY <1>8 DEF NothingToClose, End, PriceInv, PricesInTime, PricesComing, TypeOK, exchange, sent, work
  <1>9. ASSUME NEW c \in Calls, SizeOrders(c) PROVE PriceInv'
    <2>1. /\ UNCHANGED <<price, mids, began, inflight>>
          /\ pc'[c] = "lookup"
      BY <1>9 DEF SizeOrders, TypeOK, exchange
    <2>2. ASSUME NEW d \in Calls, d # c PROVE pc'[d] = pc[d] /\ commands'[d] = commands[d]
      BY <2>2, <1>9 DEF SizeOrders, TypeOK
    <2> QED BY <2>1, <2>2 DEF PriceInv, PricesComing, PricesInTime
  <1>10. ASSUME NEW c \in Calls, LookupAndFetch(c) PROVE PriceInv'
    <2>1. /\ UNCHANGED <<price, mids, began, commands>>
          /\ inflight'[c] = MarketDexs(c)
      BY <1>10 DEF LookupAndFetch, TypeOK, exchange
    <2>2. ASSUME NEW d \in Calls, d # c PROVE pc'[d] = pc[d] /\ inflight'[d] = inflight[d]
      BY <2>2, <1>10 DEF LookupAndFetch, TypeOK
    <2>3. PricesComing(c)'
      BY <2>1 DEF MarketDexs, PricesComing
    <2> QED BY <2>1, <2>2, <2>3 DEF PriceInv, PricesComing, PricesInTime
  <1>11. ASSUME NEW c \in Calls, LookupAndPost(c) PROVE PriceInv'
    BY <1>11 DEF LookupAndPost, Post, PriceInv, PricesInTime, PricesComing, TypeOK, exchange, sent, work
  <1>12. ASSUME NEW c \in Calls, PriceAndPost(c) PROVE PriceInv'
    BY <1>12 DEF PriceAndPost, Post, PriceInv, PricesInTime, PricesComing, TypeOK, exchange, sent, work
  <1>13. ASSUME NEW c \in Calls, RaiseLocally(c) PROVE PriceInv'
    BY <1>13 DEF RaiseLocally, End, PriceInv, PricesInTime, PricesComing, TypeOK, exchange, sent, work
  <1>14. ASSUME NEW c \in Calls, Unwound(c) PROVE PriceInv'
    BY <1>14 DEF Unwound, PriceInv, PricesInTime, PricesComing, TypeOK, exchange, sent, work
  <1>15. ASSUME NEW c \in Calls, Cancel(c) PROVE PriceInv'
    BY <1>15 DEF Cancel, PriceInv, PricesInTime, PricesComing, TypeOK, exchange, sent, work
  <1>16. ASSUME NEW c \in Calls, Reply(c) PROVE PriceInv'
    BY <1>16 DEF Reply, End, PriceInv, PricesInTime, PricesComing, TypeOK, exchange, sent, work
  <1>17. ASSUME NEW c \in Calls, NoTrustedReply(c) PROVE PriceInv'
    BY <1>17 DEF NoTrustedReply, End, PriceInv, PricesInTime, PricesComing, TypeOK, exchange, sent, work
  <1>18. ASSUME NEW c \in Calls, Execute(c) PROVE PriceInv'
    BY <1>18 DEF Execute, PriceInv, PricesInTime, PricesComing, TypeOK, exchange, sent, work
  <1>19. ASSUME NEW coin \in Coins, NEW to \in Positions, Trade(coin, to) PROVE PriceInv'
    BY <1>19 DEF Trade, PriceInv, PricesInTime, PricesComing, TypeOK, exchange, sent, work
  <1>20. ASSUME NEW coin \in Coins, PriceMoves(coin) PROVE PriceInv'
    <2>1. /\ UNCHANGED <<pc, mids, began, commands, inflight>>
          /\ price' = [price EXCEPT ![coin] = @ + 1]
      BY <1>20 DEF PriceMoves, work
    <2>2. ASSUME NEW d \in Coins PROVE price[d] \in Int /\ price[d] <= price'[d] /\ price'[d] \in Int
      BY <2>1 DEF TypeOK, Prices
    <2>3. ASSUME NEW c \in Calls, NEW d \in Coins
          PROVE  began[c][d] \in Int /\ (mids[c][d] # None => mids[c][d] \in Int)
      BY DEF TypeOK, Prices
    <2>4. \A c \in Calls : PricesInTime(c)'
      BY <2>1, <2>2, <2>3 DEF PriceInv, PricesInTime
    <2> QED BY <2>1, <2>4 DEF PriceInv, PricesComing
  <1> QED BY <1>1, <1>2, <1>3, <1>4, <1>5, <1>6, <1>7, <1>8, <1>9, <1>10, <1>11, <1>12,
             <1>13, <1>14, <1>15, <1>16, <1>17, <1>18, <1>19, <1>20 DEF Next

\* No other orders than reduce-only ones get into a close.
LEMMA CloseStep ==
    ASSUME TypeOK, PhaseInv, CloseInv, Next
    PROVE  CloseInv'
  <1>1. ASSUME NEW c \in Calls, NEW r \in Requests, BeginInVain(c, r) PROVE CloseInv'
    <2>1. commands[c] = <<>> BY <1>1 DEF BeginInVain, Begin, PhaseInv
    <2>2. /\ commands' = commands
          /\ \A d \in Calls \ {c} : request'[d] = request[d]
      BY <1>1 DEF BeginInVain, Begin, End, TypeOK
    <2> QED BY <2>1, <2>2 DEF CloseInv
  <1>2. ASSUME NEW c \in Calls, NEW r \in Requests, BeginClose(c, r) PROVE CloseInv'
    <2>1. commands[c] = <<>> BY <1>2 DEF BeginClose, Begin, PhaseInv
    <2>2. /\ commands' = commands
          /\ \A d \in Calls \ {c} : request'[d] = request[d]
      BY <1>2 DEF BeginClose, Begin, TypeOK
    <2> QED BY <2>1, <2>2 DEF CloseInv
  <1>3. ASSUME NEW c \in Calls, NEW r \in Requests, BeginPlace(c, r) PROVE CloseInv'
    BY <1>3 DEF BeginPlace, Begin, CloseInv, TypeOK, exchange, sent, work
  <1>4. ASSUME NEW c \in Calls, NEW dex \in Dexs, AnswerPositions(c, dex) PROVE CloseInv'
    BY <1>4 DEF AnswerPositions, CloseInv, TypeOK, exchange, sent, work
  <1>5. ASSUME NEW c \in Calls, NEW dex \in Dexs, AnswerMids(c, dex) PROVE CloseInv'
    BY <1>5 DEF AnswerMids, CloseInv, TypeOK, exchange, sent, work
  <1>6. ASSUME NEW c \in Calls, NEW dex \in Dexs, RequestFails(c, dex) PROVE CloseInv'
    BY <1>6 DEF RequestFails, CloseInv, TypeOK, exchange, sent, work
  <1>7. ASSUME NEW c \in Calls, NEW dex \in Dexs, Settle(c, dex) PROVE CloseInv'
    BY <1>7 DEF Settle, CloseInv, TypeOK, exchange, sent, work
  <1>8. ASSUME NEW c \in Calls, NothingToClose(c) PROVE CloseInv'
    BY <1>8 DEF NothingToClose, End, CloseInv, TypeOK, exchange, sent, work
  <1>9. ASSUME NEW c \in Calls, SizeOrders(c) PROVE CloseInv'
    <2>1. request[c] \in Requests
      BY <1>9 DEF SizeOrders, TypeOK, PhaseInv
    <2>2. PICK batch \in Batches(c) : commands' = [commands EXCEPT ![c] = batch]
      BY <1>9 DEF SizeOrders
    <2>3. request' = request BY <1>9 DEF SizeOrders
    <2>4. \A i \in DOMAIN batch : batch[i].ro BY <2>1, BatchShape
    <2> QED BY <2>2, <2>3, <2>4 DEF CloseInv, TypeOK
  <1>10. ASSUME NEW c \in Calls, LookupAndFetch(c) PROVE CloseInv'
    BY <1>10 DEF LookupAndFetch, CloseInv, TypeOK, exchange, sent, work
  <1>11. ASSUME NEW c \in Calls, LookupAndPost(c) PROVE CloseInv'
    BY <1>11 DEF LookupAndPost, Post, CloseInv, TypeOK, exchange, sent, work
  <1>12. ASSUME NEW c \in Calls, PriceAndPost(c) PROVE CloseInv'
    BY <1>12 DEF PriceAndPost, Post, CloseInv, TypeOK, exchange, sent, work
  <1>13. ASSUME NEW c \in Calls, RaiseLocally(c) PROVE CloseInv'
    BY <1>13 DEF RaiseLocally, End, CloseInv, TypeOK, exchange, sent, work
  <1>14. ASSUME NEW c \in Calls, Unwound(c) PROVE CloseInv'
    BY <1>14 DEF Unwound, CloseInv, TypeOK, exchange, sent, work
  <1>15. ASSUME NEW c \in Calls, Cancel(c) PROVE CloseInv'
    BY <1>15 DEF Cancel, CloseInv, TypeOK, exchange, sent, work
  <1>16. ASSUME NEW c \in Calls, Reply(c) PROVE CloseInv'
    BY <1>16 DEF Reply, End, CloseInv, TypeOK, exchange, sent, work
  <1>17. ASSUME NEW c \in Calls, NoTrustedReply(c) PROVE CloseInv'
    BY <1>17 DEF NoTrustedReply, End, CloseInv, TypeOK, exchange, sent, work
  <1>18. ASSUME NEW c \in Calls, Execute(c) PROVE CloseInv'
    BY <1>18 DEF Execute, CloseInv, TypeOK, exchange, sent, work
  <1>19. ASSUME NEW coin \in Coins, NEW to \in Positions, Trade(coin, to) PROVE CloseInv'
    BY <1>19 DEF Trade, CloseInv, TypeOK, exchange, sent, work
  <1>20. ASSUME NEW coin \in Coins, PriceMoves(coin) PROVE CloseInv'
    BY <1>20 DEF PriceMoves, CloseInv, TypeOK, exchange, sent, work
  <1> QED BY <1>1, <1>2, <1>3, <1>4, <1>5, <1>6, <1>7, <1>8, <1>9, <1>10, <1>11, <1>12,
             <1>13, <1>14, <1>15, <1>16, <1>17, <1>18, <1>19, <1>20 DEF Next

\* What Post makes of a call's orders is faithful to them.
LEMMA NormalizedIsFaithful ==
    ASSUME TypeOK, PriceInv, NEW c \in Calls,
           \A i \in DOMAIN commands[c] :
              commands[c][i].isMarket => mids[c][commands[c][i].coin] # None
    PROVE  FaithfulTo(c, Normalized(c))
  <1>1. Normalized(c) \in Seq(Order) /\ DOMAIN Normalized(c) = DOMAIN commands[c]
    BY NormalizedShape DEF Normalized
  <1>2. commands[c] \in Seq(Command) BY DEF TypeOK
  <1>3. Len(Normalized(c)) = Len(commands[c]) BY <1>1, <1>2
  <1>4. ASSUME NEW i \in DOMAIN commands[c]
        PROVE  LET cmd == commands[c][i]
                   order == Normalized(c)[i]
               IN  /\ order.coin = cmd.coin /\ order.isBuy = cmd.isBuy
                   /\ order.size = cmd.size /\ order.ro = cmd.ro
                   /\ IF cmd.isMarket
                      THEN began[c][cmd.coin] <= order.px /\ order.px <= price[cmd.coin]
                      ELSE order.px = cmd.px
    <2>1. commands[c][i].coin \in Coins
      <3>1. commands[c][i] \in Command BY <1>2
      <3> QED BY <3>1 DEF Command
    <2>2. Normalized(c)[i] =
             IF commands[c][i].isMarket
             THEN MarketOrder(commands[c][i], mids[c][commands[c][i].coin])
             ELSE LimitOrder(commands[c][i])
      BY DEF Normalized
    <2>3. commands[c][i].isMarket =>
             /\ began[c][commands[c][i].coin] <= mids[c][commands[c][i].coin]
             /\ mids[c][commands[c][i].coin] <= price[commands[c][i].coin]
      BY <2>1 DEF PriceInv, PricesInTime
    <2> QED BY <2>2, <2>3 DEF MarketOrder, LimitOrder
  <1> QED BY <1>3, <1>4 DEF FaithfulTo

\* What is submitted is submitted once, and made from the call's own orders.
LEMMA FaithfulStep ==
    ASSUME TypeOK, PhaseInv, PriceInv, FaithfulBatch, Next
    PROVE  FaithfulBatch'
  <1>1. ASSUME NEW c \in Calls, NEW r \in Requests, BeginInVain(c, r) PROVE FaithfulBatch'
    <2>1. submission' = submission /\ price' = price
      BY <1>1 DEF BeginInVain, Begin, End, exchange, sent
    <2>2. submission[c] = <<>> BY <1>1 DEF BeginInVain, Begin, PhaseInv
    <2>3. ASSUME NEW d \in Calls, d # c
          PROVE  began'[d] = began[d] /\ commands'[d] = commands[d]
      BY <2>3, <1>1 DEF BeginInVain, Begin, End, TypeOK
    <2> QED BY <2>1, <2>2, <2>3 DEF FaithfulBatch, FaithfulTo
  <1>2. ASSUME NEW c \in Calls, NEW r \in Requests, BeginClose(c, r) PROVE FaithfulBatch'
    <2>1. submission' = submission /\ price' = price
      BY <1>2 DEF BeginClose, Begin, exchange, sent
    <2>2. submission[c] = <<>> BY <1>2 DEF BeginClose, Begin, PhaseInv
    <2>3. ASSUME NEW d \in Calls, d # c
          PROVE  began'[d] = began[d] /\ commands'[d] = commands[d]
      BY <2>3, <1>2 DEF BeginClose, Begin, TypeOK
    <2> QED BY <2>1, <2>2, <2>3 DEF FaithfulBatch, FaithfulTo
  <1>3. ASSUME NEW c \in Calls, NEW r \in Requests, BeginPlace(c, r) PROVE FaithfulBatch'
    <2>1. submission' = submission /\ price' = price
      BY <1>3 DEF BeginPlace, Begin, exchange, sent
    <2>2. submission[c] = <<>> BY <1>3 DEF BeginPlace, Begin, PhaseInv
    <2>3. ASSUME NEW d \in Calls, d # c
          PROVE  began'[d] = began[d] /\ commands'[d] = commands[d]
      BY <2>3, <1>3 DEF BeginPlace, Begin, TypeOK
    <2> QED BY <2>1, <2>2, <2>3 DEF FaithfulBatch, FaithfulTo
  <1>4. ASSUME NEW c \in Calls, NEW dex \in Dexs, AnswerPositions(c, dex) PROVE FaithfulBatch'
    BY <1>4 DEF AnswerPositions, FaithfulBatch, FaithfulTo, TypeOK, exchange, sent, work
  <1>5. ASSUME NEW c \in Calls, NEW dex \in Dexs, AnswerMids(c, dex) PROVE FaithfulBatch'
    BY <1>5 DEF AnswerMids, FaithfulBatch, FaithfulTo, TypeOK, exchange, sent, work
  <1>6. ASSUME NEW c \in Calls, NEW dex \in Dexs, RequestFails(c, dex) PROVE FaithfulBatch'
    BY <1>6 DEF RequestFails, FaithfulBatch, FaithfulTo, TypeOK, exchange, sent, work
  <1>7. ASSUME NEW c \in Calls, NEW dex \in Dexs, Settle(c, dex) PROVE FaithfulBatch'
    BY <1>7 DEF Settle, FaithfulBatch, FaithfulTo, TypeOK, exchange, sent, work
  <1>8. ASSUME NEW c \in Calls, NothingToClose(c) PROVE FaithfulBatch'
    BY <1>8 DEF NothingToClose, End, FaithfulBatch, FaithfulTo, TypeOK, exchange, sent, work
  <1>9. ASSUME NEW c \in Calls, SizeOrders(c) PROVE FaithfulBatch'
    <2>1. UNCHANGED <<submission, price, began>>
      BY <1>9 DEF SizeOrders, exchange, sent
    <2>2. submission[c] = <<>> BY <1>9 DEF SizeOrders, PhaseInv
    <2>3. ASSUME NEW d \in Calls, d # c PROVE commands'[d] = commands[d]
      BY <2>3, <1>9 DEF SizeOrders, TypeOK
    <2> QED BY <2>1, <2>2, <2>3 DEF FaithfulBatch, FaithfulTo
  <1>10. ASSUME NEW c \in Calls, LookupAndFetch(c) PROVE FaithfulBatch'
    BY <1>10 DEF LookupAndFetch, FaithfulBatch, FaithfulTo, TypeOK, exchange, sent, work
  <1>11. ASSUME NEW c \in Calls, LookupAndPost(c) PROVE FaithfulBatch'
    <2>1. FaithfulTo(c, Normalized(c)) BY <1>11, NoPricesNeeded, NormalizedIsFaithful DEF LookupAndPost
    <2>2. /\ submission' = [submission EXCEPT ![c] = Normalized(c)]
          /\ UNCHANGED <<commands, began, price>>
      BY <1>11 DEF LookupAndPost, Post, exchange
    <2>3. submission'[c] = Normalized(c) BY <2>2 DEF TypeOK
    <2>4. ASSUME NEW d \in Calls, d # c PROVE submission'[d] = submission[d]
      BY <2>4, <2>2 DEF TypeOK
    <2>5. FaithfulTo(c, submission[c])'
      BY <2>1, <2>2, <2>3 DEF FaithfulTo
    <2>6. ASSUME NEW d \in Calls, d # c, (submission[d] # <<>>)'
          PROVE  FaithfulTo(d, submission[d])'
      BY <2>6, <2>2, <2>4 DEF FaithfulBatch, FaithfulTo
    <2> QED BY <2>5, <2>6 DEF FaithfulBatch
  <1>12. ASSUME NEW c \in Calls, PriceAndPost(c) PROVE FaithfulBatch'
    <2>1. FaithfulTo(c, Normalized(c)) BY <1>12, PricesComplete, NormalizedIsFaithful DEF PriceAndPost
    <2>2. /\ submission' = [submission EXCEPT ![c] = Normalized(c)]
          /\ UNCHANGED <<commands, began, price>>
      BY <1>12 DEF PriceAndPost, Post, exchange
    <2>3. submission'[c] = Normalized(c) BY <2>2 DEF TypeOK
    <2>4. ASSUME NEW d \in Calls, d # c PROVE submission'[d] = submission[d]
      BY <2>4, <2>2 DEF TypeOK
    <2>5. FaithfulTo(c, submission[c])'
      BY <2>1, <2>2, <2>3 DEF FaithfulTo
    <2>6. ASSUME NEW d \in Calls, d # c, (submission[d] # <<>>)'
          PROVE  FaithfulTo(d, submission[d])'
      BY <2>6, <2>2, <2>4 DEF FaithfulBatch, FaithfulTo
    <2> QED BY <2>5, <2>6 DEF FaithfulBatch
  <1>13. ASSUME NEW c \in Calls, RaiseLocally(c) PROVE FaithfulBatch'
    BY <1>13 DEF RaiseLocally, End, FaithfulBatch, FaithfulTo, TypeOK, exchange, sent, work
  <1>14. ASSUME NEW c \in Calls, Unwound(c) PROVE FaithfulBatch'
    BY <1>14 DEF Unwound, FaithfulBatch, FaithfulTo, TypeOK, exchange, sent, work
  <1>15. ASSUME NEW c \in Calls, Cancel(c) PROVE FaithfulBatch'
    BY <1>15 DEF Cancel, FaithfulBatch, FaithfulTo, TypeOK, exchange, sent, work
  <1>16. ASSUME NEW c \in Calls, Reply(c) PROVE FaithfulBatch'
    BY <1>16 DEF Reply, End, FaithfulBatch, FaithfulTo, TypeOK, exchange, sent, work
  <1>17. ASSUME NEW c \in Calls, NoTrustedReply(c) PROVE FaithfulBatch'
    BY <1>17 DEF NoTrustedReply, End, FaithfulBatch, FaithfulTo, TypeOK, exchange, sent, work
  <1>18. ASSUME NEW c \in Calls, Execute(c) PROVE FaithfulBatch'
    BY <1>18 DEF Execute, FaithfulBatch, FaithfulTo, TypeOK, exchange, sent, work
  <1>19. ASSUME NEW coin \in Coins, NEW to \in Positions, Trade(coin, to) PROVE FaithfulBatch'
    BY <1>19 DEF Trade, FaithfulBatch, FaithfulTo, TypeOK, exchange, sent, work
  <1>20. ASSUME NEW coin \in Coins, PriceMoves(coin) PROVE FaithfulBatch'
    <2>1. /\ UNCHANGED <<submission, commands, began>>
          /\ price' = [price EXCEPT ![coin] = @ + 1]
      BY <1>20 DEF PriceMoves, work, sent
    <2>2. ASSUME NEW d \in Coins PROVE price[d] \in Int /\ price[d] <= price'[d] /\ price'[d] \in Int
      BY <2>1 DEF TypeOK, Prices
    <2>3. ASSUME NEW c \in Calls, FaithfulTo(c, submission[c])
          PROVE  FaithfulTo(c, submission[c])'
      <3>1. ASSUME NEW i \in DOMAIN commands[c]
            PROVE  /\ commands[c][i].coin \in Coins
                   /\ submission[c][i].px \in Int
        <4>1. commands[c] \in Seq(Command) /\ submission[c] \in Seq(Order) BY DEF TypeOK
        <4>2. commands[c][i] \in Command /\ submission[c][i] \in Order
          BY <4>1, <2>3 DEF FaithfulTo
        <4> QED BY <4>2 DEF Command, Order, Prices
      <3> QED BY <2>1, <2>2, <2>3, <3>1 DEF FaithfulTo
    <2> QED BY <2>1, <2>3 DEF FaithfulBatch
  <1> QED BY <1>1, <1>2, <1>3, <1>4, <1>5, <1>6, <1>7, <1>8, <1>9, <1>10, <1>11, <1>12,
             <1>13, <1>14, <1>15, <1>16, <1>17, <1>18, <1>19, <1>20 DEF Next

-----------------------------------------------------------------------------
(* Theorems.                                                               *)

\* Whatever calls, answers, failures, cancellations and trades come in whatever order:
\* each phase of place_orders and close_positions has what the next one relies on.
THEOREM WorkflowInvariant == Spec => []WorkflowInv
  <1>1. Init => WorkflowInv BY InitWorkflow
  <1>2. WorkflowInv /\ [Next]_vars => WorkflowInv'
    <2> SUFFICES ASSUME WorkflowInv, [Next]_vars PROVE WorkflowInv' OBVIOUS
    <2>1. CASE Next
      BY <2>1, TypeStep, PhaseStep, PriceStep, CloseStep, FaithfulStep DEF WorkflowInv
    <2>2. CASE UNCHANGED vars
      BY <2>2 DEF vars, exchange, work, sent, WorkflowInv, TypeOK, PhaseInv, PriceInv,
                  PricesInTime, PricesComing, CloseInv, FaithfulBatch, FaithfulTo
    <2> QED BY <2>1, <2>2
  <1> QED BY <1>1, <1>2, PTL DEF Spec

\* Every variable keeps its type, the sizes and prices that reach a signed order among
\* them.
THEOREM WorkflowTypeCorrect == Spec => []TypeOK
  <1>1. WorkflowInv => TypeOK BY DEF WorkflowInv
  <1> QED BY <1>1, WorkflowInvariant, PTL

\* place_orders posts what it was asked for: order by order, limit orders at their own
\* price, market orders at a price their own market had during the call.
THEOREM BatchIsFaithful == Spec => []FaithfulBatch
  <1>1. WorkflowInv => FaithfulBatch BY DEF WorkflowInv
  <1> QED BY <1>1, WorkflowInvariant, PTL

\* No task of positions() or _mid_prices() outlives its call, and a call that raised
\* before it posted has nothing at the exchange.
THEOREM NothingIsLeftBehind == Spec => []NothingLeftBehind
  <1>1. WorkflowInv => NothingLeftBehind
    BY DEF WorkflowInv, PhaseInv, NothingLeftBehind
  <1> QED BY <1>1, WorkflowInvariant, PTL

\* The action whose every step CloseOnlyReduces is about.
LEMMA CloseReduces ==
    ASSUME WorkflowInv, Next, NEW c \in Calls, NEW coin \in Coins,
           executed'[c] # executed[c], request[c] # None, request[c].kind = "close"
    PROVE  \/ position[coin] <= position'[coin] /\ position'[coin] <= 0
           \/ 0 <= position'[coin] /\ position'[coin] <= position[coin]
  <1>1. \E d \in Calls : Execute(d)
    BY DEF Next, BeginInVain, BeginClose, BeginPlace, Begin, AnswerPositions, AnswerMids,
           RequestFails, Settle, NothingToClose, SizeOrders, LookupAndFetch, LookupAndPost,
           PriceAndPost, Post, RaiseLocally, Unwound, Cancel, Reply, NoTrustedReply, Trade,
           PriceMoves, sent
  <1>2. PICK d \in Calls : Execute(d) BY <1>1
  <1>3. d = c BY <1>2 DEF Execute, WorkflowInv, TypeOK
  <1> DEFINE k == executed[c] + 1
             order == submission[c][k]
  <1>4. submission[c] \in Seq(Order) /\ executed[c] \in Nat /\ executed[c] < Len(submission[c])
    BY <1>2, <1>3 DEF Execute, WorkflowInv, TypeOK
  <1>5. k \in 1 .. Len(submission[c]) /\ submission[c] # <<>> BY <1>4
  <1>6. order \in Order BY <1>4, <1>5
  <1>7. order.ro
    <2>1. FaithfulTo(c, submission[c]) BY <1>5 DEF WorkflowInv, FaithfulBatch
    <2>2. commands[c] \in Seq(Command) BY DEF WorkflowInv, TypeOK
    <2>3. k \in DOMAIN commands[c] BY <1>5, <2>1, <2>2 DEF FaithfulTo
    <2>4. commands[c][k].ro BY <2>3 DEF WorkflowInv, CloseInv
    <2> HIDE DEF k
    <2> QED BY <2>1, <2>3, <2>4 DEF FaithfulTo
  <1>8. position[coin] \in Int
    BY WorkflowAssumption DEF WorkflowAssumption, WorkflowInv, TypeOK, Positions
  <1>9. \/ UNCHANGED position
        \/ position' = [position EXCEPT ![order.coin] =
                           position[order.coin] + Change(order)]
    BY <1>2, <1>3 DEF Execute
  <1> HIDE DEF order
  <1>10. CASE UNCHANGED position BY <1>8, <1>10
  <1>11. CASE position' = [position EXCEPT ![order.coin] =
                              position[order.coin] + Change(order)]
    <2>1. CASE coin = order.coin
      <3>1. position'[coin] = position[coin] + Change(order)
        BY <1>11, <2>1 DEF WorkflowInv, TypeOK
      <3> QED BY <1>6, <1>7, <2>1, <3>1, ReduceOnlyReduces DEF WorkflowInv
    <2>2. CASE coin # order.coin
      <3>1. position'[coin] = position[coin] BY <1>11, <2>2 DEF WorkflowInv, TypeOK
      <3> QED BY <1>8, <3>1
    <2> QED BY <2>1, <2>2
  <1> QED BY <1>9, <1>10, <1>11

\* close_positions never opens, enlarges or turns over a position, however stale the
\* sizes it read are when its orders are executed.
THEOREM CloseIsSafe == Spec => CloseOnlyReduces
  <1> DEFINE Reduces ==
        \A c \in Calls :
          executed'[c] # executed[c] /\ request[c] # None /\ request[c].kind = "close" =>
             \A coin \in Coins :
                \/ position[coin] <= position'[coin] /\ position'[coin] <= 0
                \/ 0 <= position'[coin] /\ position'[coin] <= position[coin]
  <1>1. WorkflowInv /\ [Next]_vars => [Reduces]_vars
    BY CloseReduces
  <1> QED BY <1>1, WorkflowInvariant, PTL DEF Spec, CloseOnlyReduces

-----------------------------------------------------------------------------
(* An undisturbed close closes.                                            *)

\* A coin is covered exactly if UndisturbedCloseCloses does not except it.
LEMMA CoveredUnlessExcepted ==
    ASSUME NEW c \in Calls, NEW coin \in Chosen(request[c]), request[c] \in Requests
    PROVE  \/ coin \in Covered(c)
           \/ request[c].dexs # None /\ CoinDex[coin] \notin request[c].dexs
           \/ request[c].dexs = None /\ request[c].coins = None
              /\ CoinDex[coin] \notin DefaultDexs
  BY DEF Covered, QueriedDexs, Chosen

\* Every position that was read gets an order.
LEMMA BatchIsComplete ==
    ASSUME TypeOK, NEW c \in Calls, request[c] \in Requests, NEW batch \in Batches(c),
           NEW coin \in Open(c)
    PROVE  \E i \in DOMAIN batch : batch[i] = Closing(c, coin)
  <1> DEFINE n == Cardinality(Open(c))
  <1>1. PICK s \in [1 .. n -> Open(c)] :
           /\ \A i, j \in DOMAIN s : s[i] = s[j] => i = j
           /\ batch = [i \in 1 .. n |-> Closing(c, s[i])]
    BY DEF Batches
  <1>2. n \in Nat /\ Open(c) \subseteq Coins BY OpenIsFinite
  <1>3. IsFiniteSet(Open(c))
    BY <1>2, FS_Subset, WorkflowAssumption DEF WorkflowAssumption
  <1> HIDE DEF n
  <1>4. s \in Injection(1 .. n, Open(c)) BY <1>1 DEF Injection, IsInjective
  <1>5. Cardinality(1 .. n) = n BY <1>2, FS_Interval
  <1>6. s \in Surjection(1 .. n, Open(c))
    BY <1>3, <1>4, <1>5, FS_Injection DEF n
  <1>7. PICK i \in 1 .. n : s[i] = coin BY <1>6 DEF Surjection
  <1> QED BY <1>1, <1>7

\* The order made from a position closes it.
LEMMA ClosingCloses ==
    ASSUME TypeOK, NEW c \in Calls, NEW coin \in Coins, sizes[c][coin] = position[coin]
    PROVE  Closes(Closing(c, coin), coin)
  <1>1. position[coin] \in Int
    BY WorkflowAssumption DEF WorkflowAssumption, TypeOK, Positions
  <1>2. /\ Closing(c, coin).coin = coin /\ Closing(c, coin).ro
        /\ Closing(c, coin).isBuy <=> position[coin] < 0
        /\ Closing(c, coin).size = Abs(position[coin])
    BY DEF Closing
  <1> QED BY <1>1, <1>2 DEF Closes, Abs

\* A step that leaves the positions and what a call promises of them keeps the promise.
LEMMA PromiseKept ==
    ASSUME NEW d \in Calls, OrderComing(d), position' = position,
           request'[d] = request[d], quiet'[d] => quiet[d],
           pc'[d] = "positions" =>
              pc[d] = "positions" /\ sizes'[d] = sizes[d] /\ inflight'[d] = inflight[d],
           pc'[d] \in {"lookup", "prices"} =>
              pc[d] \in {"lookup", "prices"} /\ commands'[d] = commands[d],
           outcome'[d] = "nothing" => outcome[d] = "nothing",
           submission'[d] = submission[d], executed'[d] = executed[d],
           filled'[d] => filled[d]
    PROVE  OrderComing(d)'
  BY DEF OrderComing, Covered, Closes

\* A call that has just begun, and asks for positions, promises nothing yet.
LEMMA PromiseBegins ==
    ASSUME PhaseInv, NEW c \in Calls, NEW r \in Requests, BeginClose(c, r), TypeOK
    PROVE  OrderComing(c)'
  <1>1. pc[c] = "new" /\ request'[c] = r BY DEF BeginClose, Begin, TypeOK
  <1>2. /\ pc'[c] = "positions" /\ inflight'[c] = QueriedDexs(r)
        /\ outcome'[c] = outcome[c] /\ submission'[c] = submission[c]
    BY DEF BeginClose, Begin, TypeOK, sent
  <1>3. outcome[c] = "none" /\ submission[c] = <<>> BY <1>1 DEF PhaseInv
  <1> QED BY <1>1, <1>2, <1>3 DEF OrderComing, Covered

\* A close of no coins has covered them all.
LEMMA PromiseInVain ==
    ASSUME PhaseInv, NEW c \in Calls, NEW r \in Requests, BeginInVain(c, r), TypeOK
    PROVE  OrderComing(c)'
  <1>1. pc[c] = "new" /\ request'[c] = r BY DEF BeginInVain, Begin, TypeOK
  <1>2. pc'[c] = "ended" /\ submission'[c] = submission[c]
    BY DEF BeginInVain, Begin, End, TypeOK, sent
  <1>3. submission[c] = <<>> BY <1>1 DEF PhaseInv
  <1>4. r.kind = "close" => r.coins = {} BY DEF BeginInVain
  <1>5. r.kind = "close" => Covered(c)' = {}
    <2>1. {} # None BY WorkflowAssumption DEF WorkflowAssumption
    <2> QED BY <1>1, <1>4, <2>1 DEF Covered, Chosen
  <1> QED BY <1>1, <1>2, <1>3, <1>5 DEF OrderComing

\* An answer brings what is there.
LEMMA PromiseAnswered ==
    ASSUME TypeOK, PhaseInv, NEW c \in Calls, NEW dex \in Dexs, AnswerPositions(c, dex),
           OrderComing(c)
    PROVE  OrderComing(c)'
  <1>1. /\ inflight'[c] = inflight[c] \ {dex} /\ pc[c] = "positions"
        /\ \A coin \in Coins :
              sizes'[c][coin] = IF CoinDex[coin] = dex THEN position[coin] ELSE sizes[c][coin]
    BY DEF AnswerPositions, TypeOK
  <1>2. UNCHANGED <<position, pc, request, quiet, outcome, submission>>
    BY DEF AnswerPositions, exchange, sent
  <1>3. outcome[c] = "none" /\ submission[c] = <<>> BY <1>1 DEF PhaseInv
  <1>4. ASSUME request[c] # None, request[c].kind = "close", quiet[c],
               NEW coin \in Covered(c)
        PROVE  CoinDex[coin] \in inflight'[c] \/ sizes'[c][coin] = position[coin]
    <2>1. coin \in Coins
      BY <1>4, RequestShape DEF Covered, Chosen, TypeOK
    <2> QED BY <1>1, <1>4, <2>1 DEF OrderComing
  <1> QED BY <1>1, <1>2, <1>3, <1>4 DEF OrderComing, Covered

\* Every position that was read and is not zero gets its order.
LEMMA PromiseSized ==
    ASSUME TypeOK, PhaseInv, NEW c \in Calls, SizeOrders(c), OrderComing(c)
    PROVE  OrderComing(c)'
  <1>1. PICK batch \in Batches(c) : commands' = [commands EXCEPT ![c] = batch]
    BY DEF SizeOrders
  <1>2. /\ commands'[c] = batch /\ pc'[c] = "lookup"
        /\ pc[c] = "positions" /\ inflight[c] = {}
        /\ UNCHANGED <<position, request, quiet, outcome, submission>>
    BY <1>1 DEF SizeOrders, TypeOK, exchange, sent
  <1>3. outcome[c] = "none" /\ submission[c] = <<>> BY <1>2 DEF PhaseInv
  <1>4. ASSUME request[c] # None, request[c].kind = "close", quiet[c],
               NEW coin \in Covered(c)
        PROVE  position[coin] = 0 \/ \E i \in DOMAIN batch : Closes(batch[i], coin)
    <2>1. request[c] \in Requests BY <1>4 DEF TypeOK
    <2>2. coin \in Coins /\ coin \in Chosen(request[c])
      BY <2>1, RequestShape DEF Covered, Chosen
    <2>3. sizes[c][coin] = position[coin] BY <1>2, <1>4 DEF OrderComing
    <2>4. CASE position[coin] # 0
      <3>1. coin \in Open(c) BY <2>2, <2>3, <2>4 DEF Open
      <3>2. PICK i \in DOMAIN batch : batch[i] = Closing(c, coin)
        BY <2>1, <3>1, BatchIsComplete
      <3> QED BY <2>2, <2>3, <3>2, ClosingCloses
    <2> QED BY <2>4
  <1> QED BY <1>2, <1>3, <1>4 DEF OrderComing, Covered, Closes

\* No position that was read means that none is open.
LEMMA PromiseNothing ==
    ASSUME TypeOK, PhaseInv, NEW c \in Calls, NothingToClose(c), OrderComing(c)
    PROVE  OrderComing(c)'
  <1>1. /\ pc'[c] = "ended" /\ pc[c] = "positions" /\ inflight[c] = {} /\ Open(c) = {}
        /\ UNCHANGED <<position, request, quiet, submission>>
    BY DEF NothingToClose, End, TypeOK, exchange, sent
  <1>2. submission[c] = <<>> BY <1>1 DEF PhaseInv
  <1>3. ASSUME request[c] # None, request[c].kind = "close", quiet[c],
               NEW coin \in Covered(c)
        PROVE  position[coin] = 0
    <2>1. sizes[c][coin] = position[coin] BY <1>1, <1>3 DEF OrderComing
    <2>2. sizes[c][coin] = 0 BY <1>1 DEF Open, Covered
    <2> QED BY <2>1, <2>2
  <1> QED BY <1>1, <1>2, <1>3 DEF OrderComing, Covered

\* What is posted closes what the commands would.
LEMMA PromisePosted ==
    ASSUME TypeOK, PhaseInv, NEW c \in Calls, Post(c), OrderComing(c),
           pc[c] \in {"lookup", "prices"}, executed[c] <= Len(submission[c])
    PROVE  OrderComing(c)'
  <1>1. /\ submission'[c] = Normalized(c) /\ pc'[c] = "posted"
        /\ UNCHANGED <<position, request, quiet, outcome, executed>>
    BY DEF Post, TypeOK, exchange
  <1>2. outcome[c] = "none" /\ submission[c] = <<>> BY DEF PhaseInv
  <1>3. executed[c] = 0 BY <1>2 DEF TypeOK
  <1>4. commands[c] \in Seq(Command) BY DEF TypeOK
  <1>5. /\ DOMAIN commands[c] = 1 .. Len(commands[c]) /\ Len(commands[c]) \in Nat
        /\ Len(Normalized(c)) = Len(commands[c])
    BY <1>4 DEF Normalized
  <1>6. ASSUME NEW i \in DOMAIN commands[c], NEW coin, Closes(commands[c][i], coin)
        PROVE  Closes(Normalized(c)[i], coin)
    BY <1>6 DEF Normalized, MarketOrder, LimitOrder, Closes
  <1>7. executed'[c] + 1 .. Len(submission'[c]) = DOMAIN commands[c]
    BY <1>1, <1>3, <1>5
  <1>8. ASSUME request[c] # None, request[c].kind = "close", quiet[c],
               NEW coin \in Covered(c)
        PROVE  \/ position[coin] = 0
               \/ \E i \in DOMAIN commands[c] : Closes(Normalized(c)[i], coin)
    BY <1>6, <1>8 DEF OrderComing
  <1>9. ASSUME NEW i \in DOMAIN commands[c], NEW coin, Closes(Normalized(c)[i], coin)
        PROVE  Closes(submission[c][i], coin)'
    BY <1>1, <1>9 DEF Closes
  <1>10. ASSUME request[c] # None, request[c].kind = "close", quiet[c],
                NEW coin \in Covered(c)
         PROVE  \/ position[coin] = 0
                \/ \E i \in executed'[c] + 1 .. Len(submission'[c]) :
                      Closes(submission[c][i], coin)'
    BY <1>7, <1>8, <1>9, <1>10
  <1>11. Covered(c)' = Covered(c) BY <1>1 DEF Covered
  <1>12. outcome'[c] # "nothing" /\ pc'[c] \notin {"positions", "lookup", "prices"}
    BY <1>1, <1>2
  <1> QED BY <1>1, <1>10, <1>11, <1>12 DEF OrderComing

\* Every order a close submits may only reduce.
LEMMA SubmittedReduceOnly ==
    ASSUME WorkflowInv, NEW c \in Calls, request[c] # None, request[c].kind = "close",
           NEW k \in 1 .. Len(submission[c])
    PROVE  submission[c][k] \in Order /\ submission[c][k].ro
  <1>1. submission[c] \in Seq(Order) /\ commands[c] \in Seq(Command)
    BY DEF WorkflowInv, TypeOK
  <1>2. submission[c] # <<>> BY <1>1
  <1>3. FaithfulTo(c, submission[c]) BY <1>2 DEF WorkflowInv, FaithfulBatch
  <1>4. k \in DOMAIN commands[c] BY <1>1, <1>3 DEF FaithfulTo
  <1>5. commands[c][k].ro BY <1>4 DEF WorkflowInv, CloseInv
  <1> QED BY <1>1, <1>3, <1>4, <1>5 DEF FaithfulTo

\* An order that closes a coin does so, and one that only reduces it leaves the order
\* that will close it good for that.
LEMMA FilledAndClosing ==
    ASSUME TypeOK, \A coin \in SpotCoins : position[coin] = 0,
           NEW order \in Order, order.ro, NEW other \in Order,
           Closes(order, order.coin) \/ Closes(other, order.coin)
           \/ position[order.coin] = 0,
           NEW after \in Int, after = position[order.coin] + Change(order)
    PROVE  \/ after = 0
           \/ /\ Closes(other, order.coin) /\ order # other
              /\ IF other.isBuy THEN after <= 0 /\ -after <= other.size
                 ELSE after >= 0 /\ after <= other.size
  <1> DEFINE pos == position[order.coin]
  <1>1. pos \in Int BY OrderShape
  <1>2. /\ order.size \in Nat /\ order.isBuy \in BOOLEAN
        /\ other.size \in Nat /\ other.isBuy \in BOOLEAN
    BY OrderShape
  <1>3. \/ pos <= after /\ after <= 0
        \/ 0 <= after /\ after <= pos
    BY ReduceOnlyReduces
  <1>4. CASE pos = 0 BY <1>1, <1>3, <1>4
  <1>5. CASE pos # 0 /\ Closes(order, order.coin)
    <2>1. order.coin \notin SpotCoins BY <1>5
    <2>2. IF order.isBuy THEN pos <= 0 /\ -pos <= order.size
          ELSE pos >= 0 /\ pos <= order.size
      BY <1>5 DEF Closes
    <2>3. Change(order) = -pos
      BY <1>1, <1>2, <1>5, <2>1, <2>2 DEF Change, Lesser
    <2> QED BY <1>1, <2>3
  <1>6. CASE pos # 0 /\ ~Closes(order, order.coin)
    <2>1. Closes(other, order.coin) /\ order # other BY <1>6
    <2>2. IF other.isBuy THEN pos <= 0 /\ -pos <= other.size
          ELSE pos >= 0 /\ pos <= other.size
      BY <2>1 DEF Closes
    <2>3. IF other.isBuy THEN after <= 0 /\ -after <= other.size
          ELSE after >= 0 /\ after <= other.size
      BY <1>1, <1>2, <1>3, <1>6, <2>2
    <2> QED BY <2>1, <2>3
  <1> QED BY <1>4, <1>5, <1>6

\* An order of the close itself is filled, or none is needed any more.
LEMMA PromiseExecutedOwn ==
    ASSUME WorkflowInv, ClosingInv, NEW c \in Calls, Execute(c)
    PROVE  OrderComing(c)'
  <1> DEFINE k == executed[c] + 1
             order == submission[c][k]
             after == position[order.coin] + Change(order)
             n == Len(submission[c])
  <1>1. /\ executed'[c] = k /\ executed[c] \in Nat /\ n \in Nat /\ executed[c] < n
        /\ UNCHANGED <<pc, request, submission, outcome, commands>>
    BY DEF Execute, WorkflowInv, TypeOK, work
  <1>2. submission[c] # <<>> BY <1>1
  <1>3. outcome[c] # "nothing" /\ pc[c] \notin {"positions", "lookup", "prices"}
    BY <1>2 DEF WorkflowInv, PhaseInv
  <1>4. quiet'[c] => quiet[c]
    BY DEF Execute, WorkflowInv, TypeOK
  <1>5. /\ filled'[c] => filled[c]
        /\ filled'[c] => position' = [position EXCEPT ![order.coin] = after]
    BY DEF Execute, WorkflowInv, TypeOK
  <1>6. Covered(c)' = Covered(c) BY <1>1 DEF Covered
  <1>7. ASSUME request[c] # None, request[c].kind = "close", quiet'[c], filled'[c],
               NEW coin \in Covered(c)
        PROVE  \/ position'[coin] = 0
               \/ \E i \in k + 1 .. n : Closes(submission[c][i], coin)'
    <2>1. \/ position[coin] = 0
          \/ \E i \in k .. n : Closes(submission[c][i], coin)
      BY <1>2, <1>4, <1>5, <1>7 DEF ClosingInv, OrderComing
    <2>2. coin \in Coins
      BY <1>7, RequestShape DEF Covered, Chosen, WorkflowInv, TypeOK
    <2>3. order \in Order /\ order.ro BY <1>1, <1>7, SubmittedReduceOnly
    <2>4. position[order.coin] \in Int /\ order.size \in Nat /\ order.isBuy \in BOOLEAN
      BY <2>3, OrderShape DEF WorkflowInv
    <2>5. after \in Int BY <2>4, <2>3, ReduceOnlyReduces DEF WorkflowInv, Change, Lesser
    <2>6. position'[coin] = IF coin = order.coin THEN after ELSE position[coin]
      BY <1>5, <1>7, <2>2 DEF WorkflowInv, TypeOK
    <2> HIDE DEF after, order, k, n
    <2>7. CASE coin # order.coin
      <3>1. CASE position[coin] = 0 BY <2>6, <2>7, <3>1
      <3>2. CASE \E i \in k .. n : Closes(submission[c][i], coin)
        <4>1. PICK i \in k .. n : Closes(submission[c][i], coin) BY <3>2
        <4>2. i # k BY <2>7, <4>1 DEF Closes, order
        <4>3. i \in k + 1 .. n BY <1>1, <4>1, <4>2 DEF k, n
        <4>4. Closes(submission[c][i], coin)' BY <1>1, <2>6, <2>7, <4>1 DEF Closes
        <4> QED BY <4>3, <4>4
      <3> QED BY <2>1, <3>1, <3>2
    <2>8. CASE coin = order.coin
      <3>1. CASE position[coin] = 0
        <4>1. after = 0
          BY <2>3, <2>5, <2>8, <3>1, FilledAndClosing DEF WorkflowInv, ClosingInv, after
        <4> QED BY <2>6, <2>8, <4>1
      <3>2. CASE \E i \in k .. n : Closes(submission[c][i], coin)
        <4>1. PICK i \in k .. n : Closes(submission[c][i], coin) BY <3>2
        <4> DEFINE other == submission[c][i]
        <4>2. i \in 1 .. n BY <1>1, <4>1 DEF k, n
        <4>3. other \in Order BY <1>7, <4>2, SubmittedReduceOnly DEF n
        <4>4. \/ after = 0
              \/ /\ Closes(other, order.coin) /\ order # other
                 /\ IF other.isBuy THEN after <= 0 /\ -after <= other.size
                    ELSE after >= 0 /\ after <= other.size
          BY <2>3, <2>5, <2>8, <4>1, <4>3, FilledAndClosing
          DEF WorkflowInv, ClosingInv, after
        <4>5. CASE after = 0 BY <2>6, <2>8, <4>5
        <4>6. CASE after # 0
          <5>1. i # k BY <4>4, <4>6 DEF order
          <5>2. i \in k + 1 .. n BY <1>1, <4>1, <5>1 DEF k, n
          <5>3. Closes(submission[c][i], coin)'
            BY <1>1, <2>6, <2>8, <4>4, <4>6 DEF Closes
          <5> QED BY <5>2, <5>3
        <4> QED BY <4>5, <4>6
      <3> QED BY <2>1, <3>1, <3>2
    <2> QED BY <2>7, <2>8
  <1> HIDE DEF k, n
  <1>8. Len(submission[c])' = n BY <1>1 DEF n
  <1> QED BY <1>1, <1>3, <1>6, <1>7, <1>8 DEF OrderComing

\* If an order of another call moves a position, this one is not undisturbed.
LEMMA PromiseExecutedOther ==
    ASSUME WorkflowInv, ClosingInv, NEW c \in Calls, Execute(c), NEW d \in Calls, d # c
    PROVE  OrderComing(d)'
  <1>1. UNCHANGED <<pc, request, sizes, inflight, commands, submission, outcome>>
    BY DEF Execute, work
  <1>2. executed'[d] = executed[d] /\ (filled'[d] => filled[d])
    BY DEF Execute, WorkflowInv, TypeOK
  <1>3. CASE quiet'[d]
    <2> DEFINE order == submission[c][executed[c] + 1]
    <2>1. quiet[d]
      BY <1>3 DEF Execute, WorkflowInv, TypeOK
    <2>2. \/ UNCHANGED position
          \/ /\ position' = [position EXCEPT ![order.coin] =
                                position[order.coin] + Change(order)]
             /\ Change(order) = 0
      BY <1>3 DEF Execute, WorkflowInv, TypeOK
    <2>3. order \in Order
      <3>1. /\ submission[c] \in Seq(Order) /\ executed[c] \in Nat
            /\ executed[c] < Len(submission[c])
        BY DEF Execute, WorkflowInv, TypeOK
      <3> QED BY <3>1
    <2> HIDE DEF order
    <2>4. position[order.coin] \in Int /\ position \in [Coins -> Positions]
      BY <2>3, OrderShape DEF WorkflowInv, TypeOK
    <2>5. position' = position
      <3>1. position[order.coin] + 0 = position[order.coin] BY <2>4
      <3> QED BY <2>2, <2>4, <3>1
    <2> QED BY <1>1, <1>2, <2>1, <2>5, PromiseKept DEF ClosingInv
  <1>4. CASE ~quiet'[d] BY <1>4 DEF OrderComing
  <1> QED BY <1>3, <1>4

\* A call that only places orders promises to close nothing.
LEMMA PromiseOfPlacing ==
    ASSUME TypeOK, NEW c \in Calls, NEW r \in Requests, BeginPlace(c, r)
    PROVE  OrderComing(c)'
  BY DEF BeginPlace, Begin, TypeOK, OrderComing

\* The parts of ClosingInv that are not a promise, for the steps of calls.
LEMMA ClosingFrame ==
    ASSUME ClosingInv, TypeOK, position' = position, executed' = executed,
           \A c \in Calls : submission'[c] = submission[c] \/ submission[c] = <<>>,
           TypeOK', \A c \in Calls : OrderComing(c)'
    PROVE  ClosingInv'
  <1>1. ASSUME NEW c \in Calls PROVE executed'[c] <= Len(submission'[c])
    <2>1. /\ executed[c] <= Len(submission[c]) /\ executed[c] \in Nat
          /\ submission[c] \in Seq(Order) /\ submission'[c] \in Seq(Order)
      BY DEF ClosingInv, TypeOK
    <2>2. CASE submission'[c] = submission[c] BY <2>1, <2>2
    <2>3. CASE submission[c] = <<>>
      <3>1. executed[c] = 0 BY <2>1, <2>3
      <3> QED BY <2>1, <3>1
    <2> QED BY <2>2, <2>3
  <1> QED BY <1>1 DEF ClosingInv

\* Every step keeps what an undisturbed close promises.
LEMMA ClosingStep ==
    ASSUME WorkflowInv, ClosingInv, Next, TypeOK'
    PROVE  ClosingInv'
  <1> USE DEF WorkflowInv
  <1>1. ASSUME NEW c \in Calls, NEW r \in Requests, BeginInVain(c, r) PROVE ClosingInv'
    <2>1. UNCHANGED <<position, executed, submission>>
      BY <1>1 DEF BeginInVain, Begin, End, exchange, sent
    <2>2. ASSUME NEW d \in Calls, d # c PROVE OrderComing(d)'
      <3>1. /\ request'[d] = request[d] /\ quiet'[d] = quiet[d] /\ pc'[d] = pc[d]
            /\ outcome'[d] = outcome[d] /\ commands'[d] = commands[d]
            /\ inflight'[d] = inflight[d]
        BY <1>1, <2>2 DEF TypeOK, BeginInVain, Begin, End
      <3>2. UNCHANGED <<sizes, filled>>
        BY <1>1 DEF BeginInVain, Begin, sent
      <3> QED BY <2>1, <3>1, <3>2, PromiseKept DEF ClosingInv
    <2>3. OrderComing(c)' BY <1>1, PromiseInVain DEF ClosingInv
    <2> QED BY <2>1, <2>2, <2>3, ClosingFrame
  <1>2. ASSUME NEW c \in Calls, NEW r \in Requests, BeginClose(c, r) PROVE ClosingInv'
    <2>1. UNCHANGED <<position, executed, submission>>
      BY <1>2 DEF BeginClose, Begin, exchange, sent
    <2>2. ASSUME NEW d \in Calls, d # c PROVE OrderComing(d)'
      BY <1>2, <2>2, PromiseKept DEF ClosingInv, TypeOK, BeginClose, Begin, exchange, sent
    <2>3. OrderComing(c)' BY <1>2, PromiseBegins DEF ClosingInv
    <2> QED BY <2>1, <2>2, <2>3, ClosingFrame
  <1>3. ASSUME NEW c \in Calls, NEW r \in Requests, BeginPlace(c, r) PROVE ClosingInv'
    <2>1. UNCHANGED <<position, executed, submission>>
      BY <1>3 DEF BeginPlace, Begin, exchange, sent
    <2>2. ASSUME NEW d \in Calls, d # c PROVE OrderComing(d)'
      BY <1>3, <2>2, PromiseKept DEF ClosingInv, TypeOK, BeginPlace, Begin, exchange, sent
    <2>3. OrderComing(c)' BY <1>3, PromiseOfPlacing DEF ClosingInv
    <2> QED BY <2>1, <2>2, <2>3, ClosingFrame
  <1>4. ASSUME NEW c \in Calls, NEW dex \in Dexs, AnswerPositions(c, dex) PROVE ClosingInv'
    <2>1. UNCHANGED <<position, executed, submission>>
      BY <1>4 DEF AnswerPositions, exchange, sent
    <2>2. ASSUME NEW d \in Calls, d # c PROVE OrderComing(d)'
      BY <1>4, <2>2, PromiseKept DEF ClosingInv, TypeOK, AnswerPositions, exchange, sent
    <2>3. OrderComing(c)' BY <1>4, PromiseAnswered DEF ClosingInv
    <2> QED BY <2>1, <2>2, <2>3, ClosingFrame
  <1>5. ASSUME NEW c \in Calls, NEW dex \in Dexs, AnswerMids(c, dex) PROVE ClosingInv'
    <2>1. UNCHANGED <<position, executed, submission>>
      BY <1>5 DEF AnswerMids, exchange, sent
    <2>2. ASSUME NEW d \in Calls PROVE OrderComing(d)'
      BY <1>5, PromiseKept DEF ClosingInv, TypeOK, AnswerMids, exchange, sent
    <2> QED BY <2>1, <2>2, ClosingFrame
  <1>6. ASSUME NEW c \in Calls, NEW dex \in Dexs, RequestFails(c, dex) PROVE ClosingInv'
    <2>1. UNCHANGED <<position, executed, submission>>
      BY <1>6 DEF RequestFails, exchange, sent
    <2>2. ASSUME NEW d \in Calls PROVE OrderComing(d)'
      BY <1>6, PromiseKept DEF ClosingInv, TypeOK, RequestFails, exchange, sent
    <2> QED BY <2>1, <2>2, ClosingFrame
  <1>7. ASSUME NEW c \in Calls, NEW dex \in Dexs, Settle(c, dex) PROVE ClosingInv'
    <2>1. UNCHANGED <<position, executed, submission>>
      BY <1>7 DEF Settle, exchange, sent
    <2>2. ASSUME NEW d \in Calls PROVE OrderComing(d)'
      BY <1>7, PromiseKept DEF ClosingInv, TypeOK, Settle, exchange, sent
    <2> QED BY <2>1, <2>2, ClosingFrame
  <1>8. ASSUME NEW c \in Calls, NothingToClose(c) PROVE ClosingInv'
    <2>1. UNCHANGED <<position, executed, submission>>
      BY <1>8 DEF NothingToClose, End, exchange, sent, work
    <2>2. ASSUME NEW d \in Calls, d # c PROVE OrderComing(d)'
      BY <1>8, <2>2, PromiseKept DEF ClosingInv, TypeOK, NothingToClose, End, exchange, sent, work
    <2>3. OrderComing(c)' BY <1>8, PromiseNothing DEF ClosingInv
    <2> QED BY <2>1, <2>2, <2>3, ClosingFrame
  <1>9. ASSUME NEW c \in Calls, SizeOrders(c) PROVE ClosingInv'
    <2>1. UNCHANGED <<position, executed, submission>>
      BY <1>9 DEF SizeOrders, exchange, sent
    <2>2. ASSUME NEW d \in Calls, d # c PROVE OrderComing(d)'
      BY <1>9, <2>2, PromiseKept DEF ClosingInv, TypeOK, SizeOrders, exchange, sent
    <2>3. OrderComing(c)' BY <1>9, PromiseSized DEF ClosingInv
    <2> QED BY <2>1, <2>2, <2>3, ClosingFrame
  <1>10. ASSUME NEW c \in Calls, LookupAndFetch(c) PROVE ClosingInv'
    <2>1. UNCHANGED <<position, executed, submission>>
      BY <1>10 DEF LookupAndFetch, exchange, sent
    <2>2. ASSUME NEW d \in Calls PROVE OrderComing(d)'
      BY <1>10, PromiseKept DEF ClosingInv, TypeOK, LookupAndFetch, exchange, sent
    <2> QED BY <2>1, <2>2, ClosingFrame
  <1>11. ASSUME NEW c \in Calls, LookupAndPost(c) PROVE ClosingInv'
    <2>1. /\ pc[c] = "lookup" /\ Post(c)
          /\ UNCHANGED <<position, executed>>
      BY <1>11 DEF LookupAndPost, Post, exchange
    <2>2. submission[c] = <<>> BY <2>1 DEF PhaseInv
    <2>3. ASSUME NEW d \in Calls, d # c
          PROVE  submission'[d] = submission[d] /\ OrderComing(d)'
      <3>1. submission'[d] = submission[d] BY <2>1, <2>3 DEF Post, TypeOK
      <3> QED BY <1>11, <2>3, <3>1, PromiseKept DEF ClosingInv, TypeOK, LookupAndPost, Post, exchange
    <2>4. OrderComing(c)' BY <2>1, PromisePosted DEF ClosingInv
    <2> QED BY <2>1, <2>2, <2>3, <2>4, ClosingFrame
  <1>12. ASSUME NEW c \in Calls, PriceAndPost(c) PROVE ClosingInv'
    <2>1. /\ pc[c] = "prices" /\ Post(c)
          /\ UNCHANGED <<position, executed>>
      BY <1>12 DEF PriceAndPost, Post, exchange
    <2>2. submission[c] = <<>> BY <2>1 DEF PhaseInv
    <2>3. ASSUME NEW d \in Calls, d # c
          PROVE  submission'[d] = submission[d] /\ OrderComing(d)'
      <3>1. submission'[d] = submission[d] BY <2>1, <2>3 DEF Post, TypeOK
      <3> QED BY <1>12, <2>3, <3>1, PromiseKept DEF ClosingInv, TypeOK, PriceAndPost, Post, exchange
    <2>4. OrderComing(c)' BY <2>1, PromisePosted DEF ClosingInv
    <2> QED BY <2>1, <2>2, <2>3, <2>4, ClosingFrame
  <1>13. ASSUME NEW c \in Calls, RaiseLocally(c) PROVE ClosingInv'
    <2>1. UNCHANGED <<position, executed, submission>>
      BY <1>13 DEF RaiseLocally, End, exchange, sent, work
    <2>2. ASSUME NEW d \in Calls PROVE OrderComing(d)'
      BY <1>13, PromiseKept DEF ClosingInv, TypeOK, RaiseLocally, End, exchange, sent, work
    <2> QED BY <2>1, <2>2, ClosingFrame
  <1>14. ASSUME NEW c \in Calls, Unwound(c) PROVE ClosingInv'
    <2>1. UNCHANGED <<position, executed, submission>>
      BY <1>14 DEF Unwound, exchange, sent, work
    <2>2. ASSUME NEW d \in Calls PROVE OrderComing(d)'
      BY <1>14, PromiseKept DEF ClosingInv, TypeOK, Unwound, exchange, sent, work
    <2> QED BY <2>1, <2>2, ClosingFrame
  <1>15. ASSUME NEW c \in Calls, Cancel(c) PROVE ClosingInv'
    <2>1. UNCHANGED <<position, executed, submission>>
      BY <1>15 DEF Cancel, exchange, sent, work
    <2>2. ASSUME NEW d \in Calls PROVE OrderComing(d)'
      BY <1>15, PromiseKept DEF ClosingInv, TypeOK, Cancel, exchange, sent, work
    <2> QED BY <2>1, <2>2, ClosingFrame
  <1>16. ASSUME NEW c \in Calls, Reply(c) PROVE ClosingInv'
    <2>1. UNCHANGED <<position, executed, submission>>
      BY <1>16 DEF Reply, End, exchange, sent, work
    <2>2. ASSUME NEW d \in Calls PROVE OrderComing(d)'
      BY <1>16, PromiseKept DEF ClosingInv, TypeOK, Reply, End, exchange, sent, work
    <2> QED BY <2>1, <2>2, ClosingFrame
  <1>17. ASSUME NEW c \in Calls, NoTrustedReply(c) PROVE ClosingInv'
    <2>1. UNCHANGED <<position, executed, submission>>
      BY <1>17 DEF NoTrustedReply, End, exchange, sent, work
    <2>2. ASSUME NEW d \in Calls PROVE OrderComing(d)'
      BY <1>17, PromiseKept DEF ClosingInv, TypeOK, NoTrustedReply, End, exchange, sent, work
    <2> QED BY <2>1, <2>2, ClosingFrame
  <1>18. ASSUME NEW c \in Calls, Execute(c) PROVE ClosingInv'
    <2> DEFINE order == submission[c][executed[c] + 1]
    <2>1. /\ submission[c] \in Seq(Order) /\ executed[c] \in Nat
          /\ executed[c] < Len(submission[c])
      BY <1>18 DEF Execute, TypeOK
    <2>2. order \in Order BY <2>1
    <2>3. \/ UNCHANGED position
          \/ position' = [position EXCEPT ![order.coin] =
                            position[order.coin] + Change(order)]
      BY <1>18 DEF Execute
    <2>4. executed' = [executed EXCEPT ![c] = @ + 1] /\ submission' = submission
      BY <1>18 DEF Execute
    <2> HIDE DEF order
    <2>5. ASSUME NEW coin \in SpotCoins PROVE position'[coin] = 0
      <3>1. position[coin] = 0 /\ coin \in Coins
        BY WorkflowAssumption DEF ClosingInv, WorkflowAssumption
      <3>2. CASE coin # order.coin BY <2>3, <3>1, <3>2 DEF TypeOK
      <3>3. CASE coin = order.coin
        <4>1. Change(order) = 0 BY <3>3 DEF Change
        <4>2. position[order.coin] + Change(order) = 0 BY <3>1, <3>3, <4>1
        <4> QED BY <2>3, <3>1, <3>3, <4>2 DEF TypeOK
      <3> QED BY <3>2, <3>3
    <2>6. ASSUME NEW d \in Calls PROVE executed'[d] <= Len(submission'[d])
      BY <2>1, <2>4 DEF ClosingInv, TypeOK
    <2>7. \A d \in Calls : OrderComing(d)'
      BY <1>18, PromiseExecutedOwn, PromiseExecutedOther
    <2> QED BY <2>5, <2>6, <2>7 DEF ClosingInv
  <1>19. ASSUME NEW coin \in Coins, NEW to \in Positions, Trade(coin, to) PROVE ClosingInv'
    <2>1. /\ UNCHANGED <<executed, submission>>
          /\ \A spot \in SpotCoins : position'[spot] = position[spot]
          /\ \A d \in Calls : ~quiet'[d]
      BY <1>19, WorkflowAssumption DEF WorkflowAssumption, Trade, sent, TypeOK
    <2>2. \A d \in Calls : OrderComing(d)' BY <2>1 DEF OrderComing
    <2> QED BY <2>1, <2>2 DEF ClosingInv
  <1>20. ASSUME NEW coin \in Coins, PriceMoves(coin) PROVE ClosingInv'
    <2>1. UNCHANGED <<position, executed, submission>>
      BY <1>20 DEF PriceMoves, sent, work
    <2>2. ASSUME NEW d \in Calls PROVE OrderComing(d)'
      BY <1>20, PromiseKept DEF ClosingInv, TypeOK, PriceMoves, sent, work
    <2> QED BY <2>1, <2>2, ClosingFrame
  <1> QED BY <1>1, <1>2, <1>3, <1>4, <1>5, <1>6, <1>7, <1>8, <1>9, <1>10, <1>11, <1>12,
             <1>13, <1>14, <1>15, <1>16, <1>17, <1>18, <1>19, <1>20 DEF Next

\* ClosingInv is an invariant.
THEOREM ClosingInvariant == Spec => []ClosingInv
  <1>1. Init => ClosingInv
    BY DEF Init, ClosingInv, OrderComing
  <1>2. ASSUME WorkflowInv, WorkflowInv', ClosingInv, Next PROVE ClosingInv'
    BY <1>2, ClosingStep DEF WorkflowInv
  <1>3. ASSUME WorkflowInv, ClosingInv, UNCHANGED vars PROVE ClosingInv'
    BY <1>3 DEF vars, exchange, work, sent, ClosingInv, OrderComing, Covered, Closes
  <1> QED BY <1>1, <1>2, <1>3, WorkflowInvariant, PTL DEF Spec

\* If nobody else trades and its orders are filled, a close leaves none of the positions
\* open that it covers, whatever its requests, its neighbours and the prices do meanwhile;
\* nor does it answer that there is nothing to close while one of them is open.
THEOREM UndisturbedCloseIsComplete == Spec => []UndisturbedCloseCloses
  <1>1. ASSUME WorkflowInv, ClosingInv PROVE UndisturbedCloseCloses
    <2> SUFFICES ASSUME NEW c \in Calls,
                        request[c] # None, request[c].kind = "close", quiet[c],
                        \/ outcome[c] = "nothing"
                        \/ /\ submission[c] # <<>> /\ filled[c]
                           /\ executed[c] = Len(submission[c]),
                        NEW coin \in Covered(c)
                 PROVE  position[coin] = 0
      BY <1>1, CoveredUnlessExcepted DEF UndisturbedCloseCloses, WorkflowInv, TypeOK
    <2>1. CASE outcome[c] = "nothing" BY <1>1, <2>1 DEF ClosingInv, OrderComing
    <2>2. CASE /\ submission[c] # <<>> /\ filled[c]
               /\ executed[c] = Len(submission[c])
      <3>1. executed[c] + 1 .. Len(submission[c]) = {}
        BY <1>1, <2>2 DEF WorkflowInv, TypeOK
      <3> QED BY <1>1, <2>2, <3>1 DEF ClosingInv, OrderComing
    <2> QED BY <2>1, <2>2
  <1> QED BY <1>1, WorkflowInvariant, ClosingInvariant, PTL

=============================================================================
