------------------------------ MODULE Encoding ------------------------------
(***************************************************************************)
(* Encoding: the numbers of a request, from the caller's floats to the     *)
(* text on the wire, and back through what the exchange stored when an     *)
(* order is modified with the values read from it.                         *)
(*                                                                         *)
(* A number is an integer count of 1 / Base^Scale.  Python rounds the      *)
(* binary double nearest to the caller's decimal, so which way a tie goes  *)
(* is open, and whether a loss at exactly the tolerance is one: rounding   *)
(* is a set of outcomes.  Base, the digits and the scale are parameters;   *)
(* the code has 10, 5 digits, 8, 6 and 5 decimals, and loses below 1e-12.  *)
(***************************************************************************)
EXTENDS Integers, FiniteSetsExt

CONSTANTS Base,            \* the base of the decimals
          Scale,           \* the decimals a number of the model has
          Sig,             \* the significant digits of a price
          WireDecimals,    \* the decimals of a number on the wire
          Tolerance,       \* what a number may lose on the wire, in 1 / Base^Scale
          SpotDecimals,    \* price decimals plus size decimals of a spot market
          PerpDecimals,    \* the same of a perpetual
          OutcomeDecimals, \* price decimals of an outcome market
          Markets,         \* the markets: size_decimals and kind
          Prices,          \* the prices, marks and mids the inputs come from
          Sizes,           \* the sizes
          Triggers,        \* the trigger prices, and None for an order without one
          Amounts,         \* the amounts of transfers
          TokenDecimals,   \* the decimals of tokens
          Slippages,       \* slippages of market orders, in 1 / Base^Scale
          MaxDigits,       \* bound: a price of the caller's is below Base^MaxDigits
          Quantum,         \* units an exact transfer is a multiple of: 1000 * 10^6
          None

\* The powers of the base, as a function: its recursion can be reasoned about.
Power[k \in Nat] == IF k = 0 THEN 1 ELSE Base * Power[k - 1]

ASSUME EncodingAssumption ==
    /\ Base \in Nat \ {0, 1}
    /\ Scale \in Nat /\ Sig \in Nat \ {0} /\ WireDecimals \in 0 .. Scale
    /\ Tolerance \in Nat \ {0}
    /\ SpotDecimals \in 0 .. WireDecimals /\ PerpDecimals \in 0 .. WireDecimals
    /\ OutcomeDecimals \in 1 .. WireDecimals /\ OutcomeDecimals <= Sig  \* 5, and 5 digits
    /\ Markets \subseteq [decimals : 0 .. WireDecimals, kind : {"spot", "perp", "outcome"}]
    /\ MaxDigits \in Nat /\ Scale + WireDecimals <= MaxDigits
    /\ \A n \in Prices : n < Power[MaxDigits]
    /\ Triggers \ {None} \subseteq Prices
    /\ Prices \subseteq Int /\ Sizes \subseteq Int /\ Amounts \subseteq Int
    /\ TokenDecimals \subseteq 0 .. Scale
    /\ Slippages \subseteq 0 .. Power[Scale] - 1
    /\ Quantum \in Nat \ {0}
    /\ None \notin Int /\ None \notin [amount : Int]

VARIABLES market,  \* the market of the request
          op,      \* the operation last run
          asked,   \* the numbers it was given
          wire     \* the numbers it sent, or None when it raised

vars == <<market, op, asked, wire>>

-----------------------------------------------------------------------------
(* Rounding.                                                               *)

\* One unit of the d-th decimal.
Unit(d) == Power[Scale - d]
Whole == Unit(0)

\* The multiples of grain nearest to n: two of them on a tie.
Nearest(n, grain) ==
    LET below == (n \div grain) * grain
    IN  {m \in {below, below + grain} : 2 * (n - m) <= grain /\ 2 * (m - n) <= grain}

\* The grain of a number written with Sig significant digits.
SigGrain(n) == Power[Min({e \in 0 .. MaxDigits : n < Power[e + Sig]})]

\* The decimals of a price in a market.
MaxDecimals ==
    CASE market.kind = "spot" -> SpotDecimals - market.decimals
      [] market.kind = "perp" -> PerpDecimals - market.decimals
      [] market.kind = "outcome" -> OutcomeDecimals

\* Mutant of RoundPrice: whole numbers lose digits, too.
RoundPriceWhole(n) ==
    UNION {Nearest(m, Unit(MaxDecimals)) : m \in Nearest(n, SigGrain(n))}

\* Mutant of RoundPrice: half a unit is added to round up, and then rounded again.
RoundPriceHalfUp(n) ==
    IF n % Whole = 0 THEN {n}
    ELSE UNION {Nearest(m + Unit(MaxDecimals) \div 2, Unit(MaxDecimals)) :
                   m \in Nearest(n, SigGrain(n))}

\* _round_price: whole numbers are kept, others have five digits and then the
\* decimals of the market.
RoundPrice(n) ==
    IF n % Whole = 0 THEN {n}
    ELSE UNION {Nearest(m, Unit(MaxDecimals)) : m \in Nearest(n, SigGrain(n))}

OutcomeMin == Unit(OutcomeDecimals)
OutcomeMax == Whole - Unit(OutcomeDecimals)

Positive(n) == IF n > 0 THEN n ELSE None

\* _normalize_price: None stands for ValueError.
NormalizePrice(n) ==
    IF n <= 0 \/ (market.kind = "outcome" /\ n \notin OutcomeMin .. OutcomeMax)
    THEN {None}
    ELSE {Positive(m) : m \in RoundPrice(n)}

\* _normalize_size: zero passes, but nothing is rounded to zero.
NormalizeSize(n) ==
    CASE n < 0 -> {None}
      [] n = 0 -> {0}
      [] n > 0 -> {Positive(m) : m \in Nearest(n, Unit(market.decimals))}

\* What is lost when n is written as m.
Loss(n, m) == IF m < n THEN n - m ELSE m - n

\* Mutant of WireFloat: the loss is not checked.
WireFloatUnchecked(n) == Nearest(n, Unit(WireDecimals))

\* _wire_float: the nearest number the wire has, or None, an error, when that loses the
\* tolerance or more.  Noise of a float is dropped so, and with it a number that is
\* nothing but noise: it is written as zero.
WireFloat(n) ==
    LET written == Nearest(n, Unit(WireDecimals))
    IN  {m \in written : Loss(n, m) <= Tolerance}
        \cup {None : m \in {m \in written : Loss(n, m) >= Tolerance}}

\* Mutant of MarketPrice: an outcome price is not kept in its domain.
MarketPriceFree(mid, slippage, isBuy) ==
    (mid * (IF isBuy THEN Whole + slippage ELSE Whole - slippage)) \div Whole

\* _market_price, for a mid that is not an error already.
MarketPrice(mid, slippage, isBuy) ==
    LET price == (mid * (IF isBuy THEN Whole + slippage ELSE Whole - slippage)) \div Whole
    IN  IF market.kind = "outcome" THEN Min({Max({price, OutcomeMin}), OutcomeMax}) ELSE price

-----------------------------------------------------------------------------
(* Amounts.                                                                *)

\* amount_in_units: truncated; zero is an error, which Positive makes of it.
AmountInUnits(n, d) == n \div Unit(d)

\* Decimals as text, without the zeros they end in.
Stripped(fraction, width) ==
    LET count == Min({c \in 0 .. width : fraction % Power[width - c] = 0})
    IN  [digits |-> fraction \div Power[width - count], count |-> count]

\* Mutant of FormatTokenAmount: the fraction is not padded with zeros.
FormatUnpadded(units, d) ==
    LET fraction == units % Power[d]
    IN  [whole |-> units \div Power[d],
         fraction |-> Stripped(fraction, Min({w \in 0 .. d : fraction < Power[w]}))]

\* format_token_amount: the whole part, and d decimals stripped of final zeros.
FormatTokenAmount(units, d) ==
    [whole |-> units \div Power[d], fraction |-> Stripped(units % Power[d], d)]

\* What an amount of text is worth.
Worth(text) == text.whole * Whole + text.fraction.digits * Unit(text.fraction.count)

\* exact_signed_units: excess decimals are an error.
ExactUnits(n, d) == IF n % Unit(d) = 0 THEN n \div Unit(d) ELSE None

-----------------------------------------------------------------------------
(* The operations.                                                         *)

Init ==
    /\ market \in Markets
    /\ op = "none" /\ asked = None /\ wire = None

Run(name, numbers) == op' = name /\ asked' = numbers /\ UNCHANGED market

\* Mutant of EncodeOrder: a trigger price is sent as it was given.
EncodeOrderRawTrigger(order) ==
    \E px \in NormalizePrice(order.px), sz \in NormalizeSize(order.sz) :
        wire' \in IF px = None \/ sz = None \/ (market.kind # "perp" /\ order.ro) THEN {None}
                  ELSE [px : WireFloat(px), sz : WireFloat(sz), ro : {order.ro},
                        trigger : {order.trigger}]

\* encode_order: a spot order cannot reduce, the prices and the size are normalized
\* and then written.  The first error ends it, whichever it is.
EncodeOrder(order) ==
    \E px \in NormalizePrice(order.px), sz \in NormalizeSize(order.sz),
       trigger \in IF order.trigger = None THEN {0} ELSE NormalizePrice(order.trigger) :
        wire' \in IF None \in {px, sz, trigger} \/ (market.kind # "perp" /\ order.ro) THEN {None}
                  ELSE [px : WireFloat(px), sz : WireFloat(sz), ro : {order.ro},
                        trigger : IF order.trigger = None THEN {None} ELSE WireFloat(trigger)]

\* A limit or trigger order of the caller's.
LimitOrder(px, sz, trigger, ro) ==
    LET order == [px |-> px, sz |-> sz, trigger |-> trigger, ro |-> ro]
    IN  /\ Run("limit", order)
        /\ EncodeOrder(order)

\* _market_order: a limit order at the mid and the slippage.
MarketOrder(mid, slippage, isBuy, sz, ro) ==
    LET order == [px |-> MarketPrice(mid, slippage, isBuy), sz |-> sz,
                  trigger |-> None, ro |-> ro]
    IN  /\ mid > 0
        /\ Run("market", order)
        /\ EncodeOrder(order)

\* _encode_modify with the order the exchange shows.
Replace ==
    /\ op \in {"limit", "market"} /\ wire # None
    /\ None \notin {wire.px, wire.sz}
    /\ Run("replace", wire)
    /\ EncodeOrder(wire)

\* place_twap: the size, which may not be zero, then a trigger or stop price.
PlaceTwap(px, sz, ro) ==
    /\ Run("twap", [px |-> px, sz |-> sz, trigger |-> None, ro |-> ro])
    /\ IF sz = 0 THEN wire' = None
       ELSE EncodeOrder([px |-> px, sz |-> sz, trigger |-> None, ro |-> ro])

\* A transfer whose amount is text.
Send(n, d) ==
    /\ Run("send", [amount |-> n, decimals |-> d])
    /\ LET units == AmountInUnits(n, d)
       IN  wire' = IF n <= 0 \/ units = 0 THEN None ELSE FormatTokenAmount(units, d)

\* A transfer whose amount is a count of units: vault, staking.
SendUnits(n, d) ==
    /\ Run("units", [amount |-> n, decimals |-> d])
    /\ LET units == AmountInUnits(n, d)
       IN  wire' = IF n <= 0 \/ units = 0 THEN None ELSE [units |-> units]

\* _update_isolated_margin: exactly the amount, which may be negative.
UpdateMargin(n, d) ==
    /\ Run("margin", [amount |-> n, decimals |-> d])
    /\ wire' = IF ExactUnits(n, d) = None THEN None ELSE [units |-> ExactUnits(n, d)]

\* hip3_liquidator_transfer: exactly the amount, a positive multiple of 1000.
Hip3Transfer(n, d) ==
    /\ Run("hip3", [amount |-> n, decimals |-> d])
    /\ LET units == ExactUnits(n, d)
       IN  wire' = IF units = None THEN None
                   ELSE IF units <= 0 \/ units % Quantum # 0 THEN None ELSE [units |-> units]

\* positive_wire_amount, for splitting, merging and negating outcomes: the amount is
\* checked before it is written, so that what is written may be zero.
OutcomeAmount(n) ==
    /\ Run("outcome", [amount |-> n])
    /\ \E written \in WireFloat(n) :
          wire' = IF n <= 0 \/ written = None THEN None ELSE [amount |-> written]

\* vote_risk_free_rate: the same for a rate, which may be zero.
VoteRiskFreeRate(n) ==
    /\ Run("rate", [amount |-> n])
    /\ \E written \in WireFloat(n) :
          wire' = IF n < 0 \/ written = None THEN None ELSE [amount |-> written]

Next ==
    \/ /\ op = "none"
       /\ \/ \E px \in Prices, sz \in Sizes, trigger \in Triggers, ro \in BOOLEAN :
                LimitOrder(px, sz, trigger, ro)
          \/ \E mid \in Prices, slippage \in Slippages, isBuy, ro \in BOOLEAN, sz \in Sizes :
                MarketOrder(mid, slippage, isBuy, sz, ro)
          \/ \E px \in Prices, sz \in Sizes, ro \in BOOLEAN : PlaceTwap(px, sz, ro)
          \/ \E n \in Amounts, d \in TokenDecimals :
                Send(n, d) \/ SendUnits(n, d) \/ UpdateMargin(n, d) \/ Hip3Transfer(n, d)
          \/ \E n \in Amounts : OutcomeAmount(n) \/ VoteRiskFreeRate(n)
    \/ Replace

Spec == Init /\ [][Next]_vars

-----------------------------------------------------------------------------
IsOrder == op \in {"limit", "market", "replace", "twap"} /\ wire # None

\* The step between neighbouring prices at n.
Tick(n) == Max({SigGrain(n), Unit(MaxDecimals)})

\* The prices of an order, as pairs of what was asked for and what is sent.
Priced == {<<asked.px, wire.px>>}
          \cup (IF asked.trigger = None THEN {} ELSE {<<asked.trigger, wire.trigger>>})

\* Whatever passes the checks can be written on the wire: an order that was
\* normalized does not fail on its own text, halfway through a batch.
NormalizedFits == IsOrder => wire.sz # None /\ \A p \in Priced : p[2] # None

\* The exchange takes price and trigger: each is positive and whole, or it has at
\* most the significant digits and the decimals of its market; in an outcome market
\* it lies strictly between 0 and 1.  A spot order does not claim to reduce.
PriceIsTradable ==
    IsOrder =>
        /\ \A p \in Priced :
              /\ p[2] > 0
              /\ p[2] % Whole = 0 \/ p[2] % Tick(p[2]) = 0
              /\ market.kind = "outcome" => p[2] \in OutcomeMin .. OutcomeMax
        /\ wire.ro => market.kind = "perp"

\* Rounding twice, first to digits and then to decimals, stays within a tick of
\* the price asked for, and a whole price is sent as it is.
PriceWithinTick ==
    IsOrder =>
        \A p \in Priced :
            IF p[1] % Whole = 0 THEN p[2] = p[1]
            ELSE p[2] - p[1] < Tick(p[1]) /\ p[1] - p[2] < Tick(p[1])

\* The size sent is the whole lot nearest to the one asked for; a size is never
\* rounded to nothing, and nothing is not a size for a TWAP.
SizeWithinLot ==
    IsOrder =>
        /\ 2 * (wire.sz - asked.sz) <= Unit(market.decimals)
        /\ 2 * (asked.sz - wire.sz) <= Unit(market.decimals)
        /\ wire.sz = 0 => asked.sz = 0 /\ op # "twap"

\* What is sent is the price and the size asked for, as near as the market's tick
\* and lot allow.
NearestToAsked == PriceWithinTick /\ SizeWithinLot

\* Modifying an order with the numbers read back from the exchange sends the same
\* numbers: repeated modification does not let price or size drift.
ReplaceKeeps == op = "replace" => wire = asked

\* A market order in an outcome market is never refused for its price, however
\* close the mid is to 0 or 1 and however large the slippage.
OutcomeMarketPriced ==
    op = "market" /\ market.kind = "outcome" => NormalizePrice(asked.px) # {None}

\* No order is refused after it was admitted: not for digits the wire cannot carry,
\* nor, in an outcome market, for a price the program chose itself.
NeverRefusedLate == NormalizedFits /\ OutcomeMarketPriced

\* A transfer never moves more than was asked for, and less than one unit less.
NeverMoreThanAsked ==
    op \in {"send", "units"} /\ wire # None =>
        LET unit == Unit(asked.decimals)
            sent == IF op = "send" THEN Worth(wire) ELSE wire.units * unit
        IN  0 < sent /\ sent <= asked.amount /\ asked.amount < sent + unit

\* An exact transfer moves what was asked for, to the last digit.
ExactIsExact ==
    op \in {"margin", "hip3"} /\ wire # None =>
        /\ wire.units * Unit(asked.decimals) = asked.amount
        /\ op = "hip3" => wire.units > 0 /\ wire.units % Quantum = 0

\* An outcome amount or a rate is written as a number of the wire no further from it
\* than the tolerance, exactly if the wire has it; and one that is legal is refused only
\* if every number of the wire is at least the tolerance away.
WrittenIsClose ==
    op \in {"outcome", "rate"} =>
        LET unit == Unit(WireDecimals)
        IN  IF wire # None
            THEN /\ wire.amount % unit = 0
                 /\ Loss(asked.amount, wire.amount) <= Tolerance
                 /\ asked.amount % unit = 0 => wire.amount = asked.amount
            ELSE \/ asked.amount < 0 \/ (op = "outcome" /\ asked.amount = 0)
                 \/ \A m \in asked.amount - Tolerance + 1 .. asked.amount + Tolerance - 1 :
                        m % unit # 0

\* The amount a transfer moves is the one asked for: exactly where the method promises
\* it, up to the noise of a float where it is written as a decimal, and less than one
\* unit below it elsewhere.
AmountsAreHonest == NeverMoreThanAsked /\ ExactIsExact /\ WrittenIsClose
=============================================================================
