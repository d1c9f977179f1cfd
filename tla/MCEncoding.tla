----------------------------- MODULE MCEncoding -----------------------------
(* Base 2 with three significant digits: every rounding of the code, and   *)
(* every tie, happens below 1200 parts of 256.  The wire has every eighth: *)
(* the nearest is 0 to 4 away, of which 1 is noise and 3 an error.         *)
EXTENDS Encoding

M(decimals, kind) == [decimals |-> decimals, kind |-> kind]

\* The last perpetual has more size decimals than leave any for its prices.
MCMarkets ==
    {M(0, "spot"), M(2, "spot"), M(0, "perp"), M(2, "perp"), M(5, "perp"), M(0, "outcome")}

\* All small prices, and larger ones to half of what the wire has.
MCPrices == -1 .. 40 \cup {4 * k : k \in 11 .. 300}
MCSizes == {-1, 0, 1, 96, 148, 185, 400}
MCTriggers == {None, -1, 12, 37, 596}
MCAmounts == -5 .. 600
MCTokenDecimals == 0 .. 8
MCSlippages == {0, 20, 255}
=============================================================================
