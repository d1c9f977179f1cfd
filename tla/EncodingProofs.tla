--------------------------- MODULE EncodingProofs ---------------------------
(***************************************************************************)
(* The numbers of requests, for every base, scale, number of digits and    *)
(* decimals that EncodingAssumption allows: the ten, the eight decimals    *)
(* and the five digits of the code among them, whose numbers are far too   *)
(* many to enumerate.                                                      *)
(*                                                                         *)
(* The powers of the base come from a recursive function, so what is known *)
(* of them is proved first, by the least counterexample.  Multiples of a   *)
(* grain and roundings to one follow, then prices, orders and amounts.     *)
(***************************************************************************)
EXTENDS Encoding, WellFoundedInduction, TLAPS

-----------------------------------------------------------------------------
(* Least elements.                                                         *)

\* A nonempty set of natural numbers has a least element.
LEMMA LeastExists ==
    ASSUME NEW T, T \subseteq Nat, T # {}
    PROVE  \E x \in T : \A y \in T : x <= y
<1>1. \E R : IsWellFoundedOn(R, Nat) /\ \A x, y \in Nat : <<y, x>> \in R <=> y < x
  <2>1. \A x, y \in Nat : <<y, x>> \in OpToRel(<, Nat) <=> y < x
    BY DEF OpToRel
  <2> QED BY <2>1, NatLessThanWellFounded
<1>2. PICK R : IsWellFoundedOn(R, Nat) /\ \A x, y \in Nat : <<y, x>> \in R <=> y < x
  BY <1>1
<1>3. PICK x \in T : \A y \in T : ~ (<<y, x>> \in R)
  BY <1>2, WFMin
<1>4. \A y \in T : ~ (y < x)
  BY <1>2, <1>3, Zenon
<1>5. \A y \in T : x <= y
  BY <1>4
<1> QED BY <1>5

\* Min is the least element.
LEMMA MinIsLeast ==
    ASSUME NEW T, T \subseteq Nat, T # {}
    PROVE  Min(T) \in T /\ \A y \in T : Min(T) <= y
BY LeastExists DEF Min

\* The greater of two numbers, and the lesser.
LEMMA MaxOfTwo ==
    ASSUME NEW a \in Int, NEW b \in Int
    PROVE  Max({a, b}) = IF a >= b THEN a ELSE b
<1>1. (IF a >= b THEN a ELSE b) \in {a, b} /\ \A y \in {a, b} : (IF a >= b THEN a ELSE b) >= y
  OBVIOUS
<1>2. Max({a, b}) \in {a, b} /\ \A y \in {a, b} : Max({a, b}) >= y
  BY <1>1 DEF Max
<1> QED BY <1>2

LEMMA MinOfTwo ==
    ASSUME NEW a \in Int, NEW b \in Int
    PROVE  Min({a, b}) = IF a <= b THEN a ELSE b
<1>1. (IF a <= b THEN a ELSE b) \in {a, b} /\ \A y \in {a, b} : (IF a <= b THEN a ELSE b) <= y
  OBVIOUS
<1>2. Min({a, b}) \in {a, b} /\ \A y \in {a, b} : Min({a, b}) <= y
  BY <1>1 DEF Min
<1> QED BY <1>2

-----------------------------------------------------------------------------
(* The powers of the base.                                                 *)

LEMMA BaseType == Base \in Nat /\ Base >= 2
BY EncodingAssumption

\* The powers of the base up to the n-th.
IsPower(f, n) ==
    /\ f \in [0 .. n -> Nat]
    /\ f[0] = 1
    /\ \A k \in 0 .. n - 1 : f[k + 1] = Base * f[k]

LEMMA PowerUpTo == \A n \in Nat : \E f : IsPower(f, n)
<1> DEFINE T == {n \in Nat : ~ \E f : IsPower(f, n)}
<1>1. SUFFICES ASSUME T # {} PROVE FALSE
  OBVIOUS
<1>2. PICK n \in T : \A m \in T : n <= m
  BY <1>1, LeastExists
<1>3. CASE n = 0
  <2>1. IsPower([k \in 0 .. 0 |-> 1], 0)
    BY DEF IsPower
  <2> QED BY <2>1, <1>3
<1>4. CASE n # 0
  <2>1. n - 1 \in Nat /\ n - 1 \notin T
    BY <1>4, <1>2
  <2>2. PICK f : IsPower(f, n - 1)
    BY <2>1
  <2>3. IsPower([k \in 0 .. n |-> IF k = n THEN Base * f[n - 1] ELSE f[k]], n)
    BY <2>2, <2>1, BaseType DEF IsPower
  <2> QED BY <2>3, <1>2
<1> QED BY <1>3, <1>4

LEMMA PowersAgree ==
    ASSUME NEW m \in Nat, NEW n \in Nat, NEW f, NEW g,
           IsPower(f, m), IsPower(g, n), m <= n, NEW k \in 0 .. m
    PROVE  f[k] = g[k]
<1> DEFINE T == {j \in 0 .. m : f[j] # g[j]}
<1>1. SUFFICES ASSUME T # {} PROVE FALSE
  OBVIOUS
<1>2. PICK j \in T : \A i \in T : j <= i
  <2>1. T \subseteq Nat
    OBVIOUS
  <2> QED BY <1>1, <2>1, LeastExists
<1>3. j # 0
  BY DEF IsPower
<1>4. j - 1 \in 0 .. m - 1 /\ j - 1 \notin T
  BY <1>2, <1>3
<1> QED BY <1>4 DEF IsPower

\* Power is the function its recursive definition describes.
LEMMA PowerIsDefined == Power = [k \in Nat |-> IF k = 0 THEN 1 ELSE Base * Power[k - 1]]
<1> DEFINE Body(f) == [k \in Nat |-> IF k = 0 THEN 1 ELSE Base * f[k - 1]]
           F(n) == CHOOSE f : IsPower(f, n)
           g == [n \in Nat |-> F(n)[n]]
<1>1. \A n \in Nat : IsPower(F(n), n)
  BY PowerUpTo
<1> HIDE DEF F
<1>2. g[0] = 1
  BY <1>1 DEF IsPower
<1>3. ASSUME NEW k \in Nat, k # 0 PROVE g[k] = Base * g[k - 1]
  <2>1. F(k)[k] = Base * F(k)[k - 1]
    BY <1>3, <1>1 DEF IsPower
  <2>2. F(k)[k - 1] = F(k - 1)[k - 1]
    BY <1>3, <1>1, PowersAgree, k - 1 \in Nat, k - 1 <= k, k - 1 \in 0 .. k - 1
  <2> QED BY <2>1, <2>2, <1>3
<1>4. g = Body(g)
  BY <1>2, <1>3
<1>5. Power = CHOOSE f : f = Body(f)
  BY DEF Power
<1> HIDE DEF g, Body
<1>6. Power = Body(Power)
  BY <1>4, <1>5
<1> QED BY <1>6 DEF Body

LEMMA PowerStep == Power[0] = 1 /\ \A k \in Nat : Power[k + 1] = Base * Power[k]
<1> DEFINE Body == [k \in Nat |-> IF k = 0 THEN 1 ELSE Base * Power[k - 1]]
<1>1. Body[0] = 1 /\ \A k \in Nat : Body[k + 1] = Base * Power[k]
  OBVIOUS
<1> HIDE DEF Body
<1>2. Power = Body
  BY PowerIsDefined DEF Body
<1> QED BY <1>1, <1>2

LEMMA PowerPositive == \A k \in Nat : Power[k] \in Nat \ {0}
<1> DEFINE T == {k \in Nat : Power[k] \notin Nat \ {0}}
<1>1. SUFFICES ASSUME T # {} PROVE FALSE
  OBVIOUS
<1>2. PICK k \in T : \A m \in T : k <= m
  BY <1>1, LeastExists
<1>3. k # 0
  BY PowerStep
<1>4. k - 1 \in Nat /\ Power[k - 1] \in Nat \ {0}
  BY <1>2, <1>3
<1>5. Power[k] = Base * Power[k - 1]
  <2>1. Power[(k - 1) + 1] = Base * Power[k - 1]
    BY <1>4, PowerStep
  <2> QED BY <2>1, <1>4
<1>6. \A b, p \in Nat \ {0} : b * p \in Nat \ {0}
  OBVIOUS
<1> QED BY <1>4, <1>5, <1>6, BaseType

LEMMA PowerSum == \A a, b \in Nat : Power[a + b] = Power[a] * Power[b]
<1> SUFFICES ASSUME NEW a \in Nat PROVE \A b \in Nat : Power[a + b] = Power[a] * Power[b]
  OBVIOUS
<1> DEFINE T == {b \in Nat : Power[a + b] # Power[a] * Power[b]}
<1>1. SUFFICES ASSUME T # {} PROVE FALSE
  OBVIOUS
<1>2. PICK b \in T : \A m \in T : b <= m
  BY <1>1, LeastExists
<1>3. b # 0
  BY PowerStep, PowerPositive
<1>4. b - 1 \in Nat /\ Power[a + (b - 1)] = Power[a] * Power[b - 1]
  BY <1>2, <1>3
<1>5. Power[b] = Base * Power[b - 1]
  <2>1. Power[(b - 1) + 1] = Base * Power[b - 1]
    BY <1>4, PowerStep
  <2> QED BY <2>1, <1>4
<1>6. Power[a + b] = Base * Power[a + (b - 1)]
  <2>1. Power[(a + (b - 1)) + 1] = Base * Power[a + (b - 1)] /\ (a + (b - 1)) + 1 = a + b
    BY <1>4, PowerStep
  <2> QED BY <2>1
<1>7. \A x, y, z \in Nat : x * (y * z) = y * (x * z)
  OBVIOUS
<1> QED BY <1>4, <1>5, <1>6, <1>7, PowerPositive, BaseType

\* A power divides the powers above it, and is no greater.
LEMMA PowerAbove ==
    ASSUME NEW a \in Nat, NEW b \in Nat, a <= b
    PROVE  \E q \in Nat \ {0} : Power[b] = q * Power[a]
<1>1. b - a \in Nat /\ a + (b - a) = b
  OBVIOUS
<1>2. Power[b] = Power[a] * Power[b - a]
  BY <1>1, PowerSum
<1>3. \A x, y \in Nat : x * y = y * x
  OBVIOUS
<1> QED BY <1>1, <1>2, <1>3, PowerPositive

LEMMA PowerUp ==
    ASSUME NEW a \in Nat, NEW b \in Nat, a <= b
    PROVE  Power[a] <= Power[b]
<1>1. \A q, p \in Nat \ {0} : p <= q * p
  OBVIOUS
<1>2. PICK q \in Nat \ {0} : Power[b] = q * Power[a]
  BY PowerAbove
<1> QED BY <1>1, <1>2, PowerPositive

LEMMA PowerDoubles ==
    ASSUME NEW a \in Nat, NEW b \in Nat, a < b
    PROVE  2 * Power[a] <= Power[b]
<1>1. Power[a + 1] = Base * Power[a]
  BY PowerStep
<1>2. \A x, p \in Nat \ {0} : x # 1 => 2 * p <= x * p
  OBVIOUS
<1>3. 2 * Power[a] <= Power[a + 1]
  BY <1>1, <1>2, PowerPositive, BaseType
<1>4. Power[a + 1] <= Power[b]
  BY PowerUp
<1> QED BY <1>3, <1>4, PowerPositive

-----------------------------------------------------------------------------
(* Multiples.                                                              *)

\* What \div and % return.
LEMMA Division ==
    ASSUME NEW n \in Int, NEW g \in Nat \ {0}
    PROVE  /\ n \div g \in Int /\ n % g \in 0 .. g - 1
           /\ n = (n \div g) * g + (n % g)
OBVIOUS

LEMMA SmallMultiple ==
    ASSUME NEW x \in Int, NEW g \in Nat \ {0}, x * g < g, -g < x * g
    PROVE  x = 0
<1>1. ASSUME x >= 1 PROVE x * g >= g
  <2>1. x - 1 \in Nat /\ x * g = (x - 1) * g + g
    BY <1>1
  <2>2. \A a, b \in Nat : a * b \in Nat
    OBVIOUS
  <2> QED BY <2>1, <2>2
<1>2. ASSUME x <= -1 PROVE x * g <= -g
  <2>1. -1 - x \in Nat /\ x * g = -((-1 - x) * g) - g
    BY <1>2
  <2>2. \A a, b \in Nat : a * b \in Nat
    OBVIOUS
  <2> QED BY <2>1, <2>2
<1> QED BY <1>1, <1>2

Multiple(n, g) == \E q \in Int : n = q * g

\* The quotient of a multiple is what it is a multiple by.
LEMMA Quotient ==
    ASSUME NEW n \in Int, NEW q \in Int, NEW g \in Nat \ {0}, n = q * g
    PROVE  n \div g = q /\ n % g = 0
<1>1. PICK d \in Int : d = n \div g
  BY Division, Zenon
<1>2. PICK r \in 0 .. g - 1 : r = n % g
  BY Division, Zenon
<1>3. n = d * g + r
  BY <1>1, <1>2, Division, Zenon
<1>4. \A x, y, z \in Int : (x - y) * z = x * z - y * z
  OBVIOUS
<1>5. q - d \in Int /\ (q - d) * g = r
  BY <1>3, <1>4
<1>6. q - d = 0
  BY <1>5, SmallMultiple
<1> QED BY <1>1, <1>2, <1>5, <1>6

LEMMA MultipleMod ==
    ASSUME NEW n \in Int, NEW g \in Nat \ {0}
    PROVE  n % g = 0 <=> Multiple(n, g)
<1>1. ASSUME n % g = 0 PROVE Multiple(n, g)
  <2>1. PICK d \in Int : d = n \div g
    BY Division, Zenon
  <2>2. n = d * g + 0
    BY <1>1, <2>1, Division, Zenon
  <2>3. n = d * g
    BY <2>2
  <2> QED BY <2>3 DEF Multiple
<1>2. ASSUME Multiple(n, g) PROVE n % g = 0
  <2>1. PICK q \in Int : n = q * g
    BY <1>2 DEF Multiple
  <2> QED BY <2>1, Quotient
<1> QED BY <1>1, <1>2

\* Sums, differences and multiples of multiples.
LEMMA MultipleSum ==
    ASSUME NEW a \in Int, NEW b \in Int, NEW g \in Nat \ {0}, Multiple(a, g), Multiple(b, g)
    PROVE  Multiple(a + b, g) /\ Multiple(a - b, g)
<1>1. PICK p \in Int : a = p * g
  BY DEF Multiple
<1>2. PICK q \in Int : b = q * g
  BY DEF Multiple
<1>3. a + b = (p + q) * g /\ a - b = (p - q) * g
  BY <1>1, <1>2
<1>4. p + q \in Int /\ p - q \in Int
  OBVIOUS
<1> QED BY <1>3, <1>4, Zenon DEF Multiple

LEMMA MultipleOf ==
    ASSUME NEW a \in Int, NEW b \in Nat \ {0}, NEW g \in Nat \ {0}, Multiple(a, b), Multiple(b, g)
    PROVE  Multiple(a, g)
<1>1. PICK p \in Int : a = p * b
  BY DEF Multiple
<1>2. PICK q \in Int : b = q * g
  BY DEF Multiple
<1>3. \A x, y, z \in Int : x * (y * z) = (x * y) * z
  OBVIOUS
<1>4. a = (p * q) * g /\ p * q \in Int
  BY <1>1, <1>2, <1>3
<1> QED BY <1>4, Zenon DEF Multiple

LEMMA MultipleSelf == ASSUME NEW g \in Nat \ {0} PROVE Multiple(g, g) /\ Multiple(0, g)
<1>1. g = 1 * g /\ 0 = 0 * g
  OBVIOUS
<1> QED BY <1>1 DEF Multiple

\* Different multiples of a grain are at least a grain apart.
LEMMA MultiplesApart ==
    ASSUME NEW a \in Int, NEW b \in Int, NEW g \in Nat \ {0},
           Multiple(a, g), Multiple(b, g), a < b
    PROVE  a + g <= b
<1>1. PICK x \in Int : b - a = x * g
  BY MultipleSum DEF Multiple
<1>2. x # 0
  BY <1>1
<1>3. -g < x * g
  BY <1>1
<1> QED BY <1>1, <1>2, <1>3, SmallMultiple

\* A power of the base is a multiple of those below it.
LEMMA PowerMultiple ==
    ASSUME NEW a \in Nat, NEW b \in Nat, a <= b
    PROVE  Multiple(Power[b], Power[a])
BY PowerAbove DEF Multiple

-----------------------------------------------------------------------------
(* Rounding to a grain.                                                    *)

\* What is nearest is a multiple, half a grain away at most.
LEMMA NearestIs ==
    ASSUME NEW n \in Int, NEW g \in Nat \ {0}, NEW m \in Nearest(n, g)
    PROVE  m \in Int /\ Multiple(m, g) /\ 2 * (n - m) <= g /\ 2 * (m - n) <= g
<1>1. PICK d \in Int : d = n \div g
  BY Division, Zenon
<1>2. Multiple(d * g, g) /\ d * g \in Int
  BY DEF Multiple
<1>3. Multiple(d * g + g, g)
  BY <1>2, MultipleSelf, MultipleSum
<1>4. m \in {d * g, d * g + g} /\ 2 * (n - m) <= g /\ 2 * (m - n) <= g
  BY <1>1 DEF Nearest
<1> QED BY <1>2, <1>3, <1>4

\* Something is nearest.
LEMMA NearestExists ==
    ASSUME NEW n \in Int, NEW g \in Nat \ {0}
    PROVE  \E m : m \in Nearest(n, g)
<1>1. PICK d \in Int : d = n \div g
  BY Division, Zenon
<1>2. PICK r \in 0 .. g - 1 : r = n % g
  BY Division, Zenon
<1>3. n = d * g + r
  BY <1>1, <1>2, Division, Zenon
<1>4. PICK b \in Int : b = d * g
  OBVIOUS
<1>5. Nearest(n, g) = {m \in {b, b + g} : 2 * (n - m) <= g /\ 2 * (m - n) <= g}
  BY <1>1, <1>4 DEF Nearest
<1>6. CASE 2 * r <= g
  <2>1. b \in Nearest(n, g)
    BY <1>3, <1>4, <1>5, <1>6
  <2> QED BY <2>1
<1>7. CASE 2 * r > g
  <2>1. b + g \in Nearest(n, g)
    BY <1>3, <1>4, <1>5, <1>7
  <2> QED BY <2>1
<1> QED BY <1>6, <1>7

\* Rounding does not cross a multiple of the grain.
LEMMA NearestBelow ==
    ASSUME NEW n \in Int, NEW g \in Nat \ {0}, NEW m \in Nearest(n, g),
           NEW b \in Int, Multiple(b, g), n <= b
    PROVE  m <= b
<1>1. m \in Int /\ Multiple(m, g) /\ 2 * (m - n) <= g
  BY NearestIs
<1>2. b < m => b + g <= m
  BY <1>1, MultiplesApart
<1> QED BY <1>1, <1>2

LEMMA NearestAbove ==
    ASSUME NEW n \in Int, NEW g \in Nat \ {0}, NEW m \in Nearest(n, g),
           NEW b \in Int, Multiple(b, g), b <= n
    PROVE  b <= m
<1>1. m \in Int /\ Multiple(m, g) /\ 2 * (n - m) <= g
  BY NearestIs
<1>2. m < b => m + g <= b
  BY <1>1, MultiplesApart
<1> QED BY <1>1, <1>2

\* A multiple is rounded to itself.
LEMMA NearestKeeps ==
    ASSUME NEW n \in Int, NEW g \in Nat \ {0}, Multiple(n, g)
    PROVE  Nearest(n, g) = {n}
<1>1. \A m \in Nearest(n, g) : m = n
  <2> TAKE m \in Nearest(n, g)
  <2>1. m <= n
    BY NearestBelow
  <2>2. n <= m
    BY NearestAbove
  <2> QED BY <2>1, <2>2, NearestIs
<1> QED BY <1>1, NearestExists, Zenon

-----------------------------------------------------------------------------
(* The steps of prices.                                                    *)

\* Above every number SigGrain looks at.
Bound == Power[MaxDigits + Sig]

LEMMA ScaleType ==
    /\ Scale \in Nat /\ Sig \in Nat /\ Sig >= 1
    /\ MaxDigits \in Nat /\ Scale + WireDecimals <= MaxDigits
    /\ WireDecimals \in 0 .. Scale
BY EncodingAssumption

LEMMA PowerType == \A k \in Nat : Power[k] \in Nat /\ Power[k] > 0 /\ Power[k] \in Nat \ {0}
BY PowerPositive

LEMMA BoundIs ==
    /\ Bound \in Nat /\ Bound > 0
    /\ \A k \in Nat : k <= MaxDigits => Power[k + Sig] <= Bound
<1>1. MaxDigits + Sig \in Nat
  BY ScaleType
<1>2. ASSUME NEW k \in Nat, k <= MaxDigits PROVE Power[k + Sig] <= Bound
  <2>1. k + Sig \in Nat /\ k + Sig <= MaxDigits + Sig
    BY <1>2, ScaleType
  <2> QED BY <2>1, <1>1, PowerUp DEF Bound
<1>3. Bound \in Nat /\ Bound > 0
  BY <1>1, PowerType DEF Bound
<1> QED BY <1>2, <1>3

\* The grain of a number is the least power that leaves it Sig digits.
LEMMA SigGrainIs ==
    ASSUME NEW n \in Int, n < Bound
    PROVE  \E e \in 0 .. MaxDigits :
              /\ SigGrain(n) = Power[e] /\ n < Power[e + Sig]
              /\ \A k \in 0 .. MaxDigits : n < Power[k + Sig] => e <= k
<1> DEFINE E == {e \in 0 .. MaxDigits : n < Power[e + Sig]}
<1>1. MaxDigits \in E /\ E \subseteq Nat
  BY ScaleType DEF Bound
<1>2. Min(E) \in E /\ \A k \in E : Min(E) <= k
  BY <1>1, MinIsLeast
<1>3. SigGrain(n) = Power[Min(E)]
  BY DEF SigGrain
<1> QED BY <1>2, <1>3

\* The decimals of a price in a market, and the power they leave.
PriceDecimals(mk) ==
    CASE mk.kind = "spot" -> SpotDecimals - mk.decimals
      [] mk.kind = "perp" -> PerpDecimals - mk.decimals
      [] mk.kind = "outcome" -> OutcomeDecimals

Finest(mk) == Scale - PriceDecimals(mk)

\* The step between neighbouring prices at n in a market.
Step(n, mk) == Max({SigGrain(n), Power[Finest(mk)]})

LEMMA FinestType ==
    ASSUME NEW mk \in Markets
    PROVE  /\ Finest(mk) \in Nat /\ Finest(mk) <= MaxDigits
           /\ Scale - WireDecimals <= Finest(mk)
           /\ mk.kind = "outcome" => Finest(mk) = Scale - OutcomeDecimals
<1>1. mk \in [decimals : 0 .. WireDecimals, kind : {"spot", "perp", "outcome"}]
  BY EncodingAssumption
<1>2. SpotDecimals \in 0 .. WireDecimals /\ PerpDecimals \in 0 .. WireDecimals
      /\ OutcomeDecimals \in 0 .. WireDecimals
  BY EncodingAssumption
<1> QED BY <1>1, <1>2, ScaleType DEF Finest, PriceDecimals

\* The step is a power of the base, too: the greater of the two.
LEMMA StepIs ==
    ASSUME NEW mk \in Markets, NEW e \in Nat, NEW n, SigGrain(n) = Power[e]
    PROVE  Step(n, mk) = Power[IF e >= Finest(mk) THEN e ELSE Finest(mk)]
<1>1. Finest(mk) \in Nat
  BY FinestType
<1>2. Step(n, mk) = IF Power[e] >= Power[Finest(mk)] THEN Power[e] ELSE Power[Finest(mk)]
  BY <1>1, PowerType, MaxOfTwo DEF Step
<1>3. CASE e >= Finest(mk)
  BY <1>1, <1>2, <1>3, PowerUp, PowerType
<1>4. CASE e < Finest(mk)
  <2>1. Power[e] <= Power[Finest(mk)]
    BY <1>1, <1>4, PowerUp
  <2> QED BY <1>1, <1>2, <1>4, <2>1, PowerType
<1> QED BY <1>1, <1>3, <1>4

LEMMA StepDivides ==
    ASSUME NEW mk \in Markets, NEW p \in Int, p < Bound,
           NEW k \in 0 .. MaxDigits, p < Power[k + Sig],
           Multiple(p, Power[Finest(mk)]), k <= Finest(mk) \/ Multiple(p, Power[k])
    PROVE  Multiple(p, Step(p, mk))
<1>1. PICK e \in 0 .. MaxDigits :
         SigGrain(p) = Power[e] /\ \A j \in 0 .. MaxDigits : p < Power[j + Sig] => e <= j
  BY SigGrainIs, Zenon
<1>2. e \in Nat /\ k \in Nat /\ e <= k /\ Finest(mk) \in Nat
  BY <1>1, FinestType, ScaleType
<1>3. CASE e <= Finest(mk)
  <2>1. Step(p, mk) = Power[Finest(mk)]
    BY <1>1, <1>2, <1>3, StepIs
  <2> QED BY <2>1
<1>4. CASE e > Finest(mk)
  <2>1. Step(p, mk) = Power[e]
    BY <1>1, <1>2, <1>4, StepIs
  <2>2. Multiple(p, Power[k]) /\ Multiple(Power[k], Power[e])
    BY <1>2, <1>4, PowerMultiple
  <2> QED BY <1>2, <2>1, <2>2, MultipleOf, PowerType
<1> QED BY <1>2, <1>3, <1>4

\* A price rounded to digits and then to the decimals of its market lies on a step, or
\* is whole, and is less than a step away.
LEMMA RoundedPrice ==
    ASSUME NEW mk \in Markets, NEW n \in Int, n < Bound,
           NEW m \in Nearest(n, SigGrain(n)), NEW p \in Nearest(m, Power[Finest(mk)])
    PROVE  /\ p \in Int /\ p <= Bound
           /\ Multiple(p, Power[Finest(mk)])
           /\ Multiple(p, Whole) \/ (p < Bound /\ Multiple(p, Step(p, mk)))
           /\ p - n < Step(n, mk) /\ n - p < Step(n, mk)
<1>1. PICK e \in 0 .. MaxDigits : SigGrain(n) = Power[e] /\ n < Power[e + Sig]
  BY SigGrainIs, Zenon
<1>2. PICK u \in Nat : u = Finest(mk) /\ u <= MaxDigits
  BY FinestType
<1>3. e \in Nat /\ e <= MaxDigits /\ e + Sig \in Nat /\ u + Sig \in Nat
  BY <1>1, <1>2, ScaleType
<1>4. m \in Int /\ Multiple(m, Power[e]) /\ 2 * (n - m) <= Power[e] /\ 2 * (m - n) <= Power[e]
  BY <1>1, <1>3, NearestIs, PowerType
<1>5. p \in Int /\ Multiple(p, Power[u]) /\ 2 * (m - p) <= Power[u] /\ 2 * (p - m) <= Power[u]
  BY <1>2, <1>4, NearestIs, PowerType
<1>6. m <= Power[e + Sig]
  <2>1. Multiple(Power[e + Sig], Power[e])
    BY <1>3, PowerMultiple, ScaleType
  <2>2. Power[e + Sig] \in Int /\ n <= Power[e + Sig]
    BY <1>1, <1>3, PowerType
  <2> QED BY <2>1, <2>2, <1>1, <1>3, NearestBelow, PowerType
<1>7. Power[e + Sig] <= Bound /\ Power[u + Sig] <= Bound
  BY <1>2, <1>3, BoundIs
<1>8. CASE u <= e
  <2>1. p = m
    <3>1. Multiple(m, Power[u])
      BY <1>3, <1>4, <1>8, MultipleOf, PowerMultiple, PowerType
    <3> QED BY <3>1, <1>2, <1>4, NearestKeeps, PowerType
  <2>2. Step(n, mk) = Power[e]
    BY <1>1, <1>2, <1>3, <1>8, StepIs
  <2>3. p - n < Step(n, mk) /\ n - p < Step(n, mk)
    BY <2>1, <2>2, <1>3, <1>4, PowerType
  <2>4. CASE p < Power[e + Sig]
    <3>1. p < Bound
      BY <2>4, <1>3, <1>5, <1>7, BoundIs, PowerType
    <3>2. Multiple(p, Step(p, mk))
      BY <3>1, <2>1, <2>4, <1>2, <1>4, <1>5, StepDivides
    <3> QED BY <3>1, <3>2, <2>3, <1>2, <1>5, BoundIs
  <2>5. CASE p = Power[e + Sig] /\ e = MaxDigits
    <3>1. Multiple(Power[e + Sig], Power[Scale]) /\ p = Bound
      BY <2>5, <1>3, PowerMultiple, ScaleType DEF Bound
    <3>2. Whole = Power[Scale]
      BY ScaleType DEF Whole, Unit
    <3> QED BY <3>1, <3>2, <2>5, <2>3, <1>2, <1>5, BoundIs
  <2>6. CASE p = Power[e + Sig] /\ e # MaxDigits
    <3>1. e + 1 \in 0 .. MaxDigits /\ e + 1 <= e + Sig /\ (e + 1) + Sig \in Nat
          /\ e + Sig < (e + 1) + Sig
      BY <2>6, <1>3, ScaleType
    <3>2. p < Power[(e + 1) + Sig]
      BY <3>1, <2>6, <1>3, PowerDoubles, PowerType
    <3>3. Multiple(p, Power[e + 1])
      BY <3>1, <2>6, <1>3, PowerMultiple
    <3>4. p < Bound
      <4>1. Power[(e + 1) + Sig] <= Bound
        BY <3>1, BoundIs
      <4> QED BY <4>1, <3>1, <3>2, <1>5, BoundIs, PowerType
    <3>5. Multiple(p, Step(p, mk))
      BY <3>1, <3>2, <3>3, <3>4, <1>2, <1>5, StepDivides
    <3> QED BY <3>4, <3>5, <2>3, <1>2, <1>5, BoundIs
  <2> QED BY <2>1, <2>4, <2>5, <2>6, <1>3, <1>5, <1>6, PowerType
<1>9. CASE u > e
  <2>1. Step(n, mk) = Power[u]
    BY <1>1, <1>2, <1>3, <1>9, StepIs
  <2>2. 2 * Power[e] <= Power[u]
    BY <1>3, <1>9, PowerDoubles
  <2>3. p - n < Step(n, mk) /\ n - p < Step(n, mk)
    BY <2>1, <2>2, <1>3, <1>4, <1>5, PowerType
  <2>4. PICK b \in Nat : b = IF u >= e + Sig THEN u ELSE e + Sig
    BY <1>3
  <2>5. b < u + Sig /\ u <= b /\ e + Sig <= b
    BY <2>4, <1>3, <1>9, ScaleType
  <2>6. p <= Power[b]
    <3>1. Power[e + Sig] <= Power[b] /\ Multiple(Power[b], Power[u])
      BY <2>5, <1>3, PowerUp, PowerMultiple
    <3>2. m <= Power[b] /\ Power[b] \in Int
      BY <3>1, <1>3, <1>4, <1>6, PowerType
    <3> QED BY <3>1, <3>2, <1>2, <1>4, NearestBelow, PowerType
  <2>7. p < Power[u + Sig]
    BY <2>5, <2>6, <1>3, <1>5, PowerDoubles, PowerType
  <2>8. p < Bound
    BY <2>7, <1>3, <1>5, <1>7, BoundIs, PowerType
  <2>9. Multiple(p, Step(p, mk))
    BY <2>7, <2>8, <1>2, <1>5, StepDivides
  <2> QED BY <2>3, <2>8, <2>9, <1>2, <1>5, BoundIs
<1> QED BY <1>2, <1>3, <1>8, <1>9

\* In an outcome market both roundings stay strictly between 0 and 1.
LEMMA OutcomeRange ==
    ASSUME NEW mk \in Markets, mk.kind = "outcome", NEW n \in OutcomeMin .. OutcomeMax,
           NEW m \in Nearest(n, SigGrain(n)), NEW p \in Nearest(m, Power[Finest(mk)])
    PROVE  p \in OutcomeMin .. OutcomeMax
<1>1. PICK u \in Nat : u = Finest(mk) /\ u <= MaxDigits /\ u = Scale - OutcomeDecimals
  BY FinestType
<1>2. PICK U \in Nat \ {0} : U = Power[u]
  BY PowerType
<1>3. PICK W \in Nat \ {0} : W = Power[Scale] /\ W = Whole
  BY ScaleType, PowerType DEF Whole, Unit
<1>4. OutcomeMin = U /\ OutcomeMax = W - U
  BY <1>1, <1>2, <1>3 DEF OutcomeMin, OutcomeMax, Unit
<1>5. u <= Scale /\ Scale <= u + Sig /\ u + Sig \in Nat
  BY <1>1, ScaleType, EncodingAssumption
<1>6. n \in Int /\ U <= n /\ n <= W - U
  BY <1>4
<1>7. n < Power[u + Sig]
  <2>1. W <= Power[u + Sig]
    BY <1>3, <1>5, PowerUp, ScaleType
  <2> QED BY <2>1, <1>2, <1>5, <1>6, PowerType
<1>8. n < Bound
  <2>1. Power[u + Sig] <= Bound
    BY <1>1, BoundIs
  <2> QED BY <2>1, <1>5, <1>6, <1>7, BoundIs, PowerType
<1>9. PICK e \in 0 .. MaxDigits :
         SigGrain(n) = Power[e] /\ \A k \in 0 .. MaxDigits : n < Power[k + Sig] => e <= k
  BY <1>6, <1>8, SigGrainIs, Zenon
<1>10. e \in Nat /\ e <= u
  BY <1>1, <1>5, <1>7, <1>9, ScaleType
<1>11. PICK g \in Nat \ {0} : g = Power[e]
  BY <1>10, PowerType
<1>12. Multiple(U, U) /\ Multiple(W - U, U) /\ W - U \in Int
  <2>1. Multiple(W, U)
    BY <1>2, <1>3, <1>5, PowerMultiple, ScaleType
  <2> QED BY <2>1, MultipleSelf, MultipleSum
<1>13. Multiple(U, g) /\ Multiple(W - U, g)
  <2>1. Multiple(U, g)
    BY <1>2, <1>10, <1>11, PowerMultiple
  <2> QED BY <2>1, <1>12, MultipleOf
<1>14. m \in Nearest(n, g) /\ m \in Int
  BY <1>6, <1>9, <1>11, NearestIs
<1>15. U <= m /\ m <= W - U
  BY <1>6, <1>12, <1>13, <1>14, NearestAbove, NearestBelow
<1>16. p \in Nearest(m, U) /\ p \in Int
  BY <1>1, <1>2, <1>14, NearestIs
<1>17. U <= p /\ p <= W - U
  BY <1>12, <1>14, <1>15, <1>16, NearestAbove, NearestBelow
<1> QED BY <1>4, <1>16, <1>17

-----------------------------------------------------------------------------
(* Prices of a market.                                                     *)

\* A price the exchange takes and the wire carries.
Tradable(p, mk) ==
    /\ p \in Nat \ {0} /\ p <= Bound
    /\ Multiple(p, Unit(WireDecimals))
    /\ Multiple(p, Whole) \/ (p < Bound /\ Multiple(p, Step(p, mk)))
    /\ mk.kind = "outcome" => p \in OutcomeMin .. OutcomeMax

\* A price as near to the one asked for as its step allows.
Near(n, p, mk) ==
    IF n % Whole = 0 THEN p = n
    ELSE n < Bound /\ p - n < Step(n, mk) /\ n - p < Step(n, mk)

LEMMA MarketGrain ==
    Unit(MaxDecimals) = Power[Finest(market)] /\ \A n : Tick(n) = Step(n, market)
BY DEF Unit, MaxDecimals, Finest, PriceDecimals, Tick, Step

LEMMA UnitType == \A d \in 0 .. Scale : Unit(d) \in Nat \ {0}
<1>1. \A d \in 0 .. Scale : Scale - d \in Nat
  BY ScaleType
<1> QED BY <1>1, PowerType DEF Unit

\* Whole numbers, and what has no finer decimals than a market's, fit on the wire.
LEMMA FitsWire ==
    ASSUME NEW d \in Int, d <= WireDecimals, Scale - d \in Nat
    PROVE  Multiple(Power[Scale - d], Unit(WireDecimals))
<1>1. Scale - WireDecimals \in Nat /\ Scale - WireDecimals <= Scale - d
  BY ScaleType
<1> QED BY <1>1, PowerMultiple DEF Unit

\* A number the wire has is written as it is: nothing is lost.
LEMMA WrittenExactly ==
    ASSUME NEW n \in Int, Multiple(n, Unit(WireDecimals))
    PROVE  WireFloat(n) = {n}
<1>1. Nearest(n, Unit(WireDecimals)) = {n}
  BY NearestKeeps, UnitType, ScaleType
<1>2. Loss(n, n) <= Tolerance /\ ~ (Loss(n, n) >= Tolerance)
  BY EncodingAssumption DEF Loss
<1> QED BY <1>1, <1>2 DEF WireFloat

\* A price that was normalized is tradable, and near the one it was made from.
LEMMA NormalizedPrice ==
    ASSUME market \in Markets, NEW n \in Int, n < Bound, NEW p \in NormalizePrice(n), p # None
    PROVE  Tradable(p, market) /\ Near(n, p, market)
<1> DEFINE w == Unit(WireDecimals)
<1>1. /\ n > 0 /\ (market.kind = "outcome" => n \in OutcomeMin .. OutcomeMax)
      /\ \E m \in RoundPrice(n) : p = Positive(m)
  <2>1. /\ ~ (n <= 0) /\ (market.kind = "outcome" => n \in OutcomeMin .. OutcomeMax)
        /\ \E m \in RoundPrice(n) : p = Positive(m)
    BY Zenon DEF NormalizePrice
  <2> QED BY <2>1
<1>2. p \in RoundPrice(n) /\ p > 0
  BY <1>1 DEF Positive
<1>3. w \in Nat \ {0} /\ Whole \in Nat \ {0}
  BY UnitType, ScaleType DEF Whole
<1>4. CASE n % Whole = 0
  <2>1. p = n /\ Multiple(p, Whole)
    BY <1>2, <1>3, <1>4, MultipleMod DEF RoundPrice
  <2>2. Multiple(Whole, w)
    BY FitsWire, ScaleType DEF Whole, Unit
  <2>3. Multiple(n, w)
    BY <1>3, <2>1, <2>2, MultipleOf
  <2> HIDE DEF w
  <2>4. Tradable(p, market)
    BY <1>1, <2>1, <2>3, BoundIs DEF Tradable, w
  <2> QED BY <1>4, <2>1, <2>4 DEF Near
<1>5. CASE n % Whole # 0
  <2>1. \E m \in Nearest(n, SigGrain(n)) : p \in Nearest(m, Power[Finest(market)])
    BY <1>2, <1>5, MarketGrain, Zenon DEF RoundPrice
  <2>2. PICK m \in Nearest(n, SigGrain(n)) : p \in Nearest(m, Power[Finest(market)])
    BY <2>1
  <2>3. /\ p \in Int /\ p <= Bound
        /\ Multiple(p, Power[Finest(market)])
        /\ Multiple(p, Whole) \/ (p < Bound /\ Multiple(p, Step(p, market)))
        /\ p - n < Step(n, market) /\ n - p < Step(n, market)
    BY <2>2, RoundedPrice, Zenon
  <2>4. market.kind = "outcome" => p \in OutcomeMin .. OutcomeMax
    BY <1>1, <2>2, OutcomeRange, Zenon
  <2>5. Multiple(Power[Finest(market)], w)
    <3>1. Finest(market) \in Nat /\ Scale - WireDecimals \in Nat /\ Scale - WireDecimals <= Finest(market)
      BY FinestType, ScaleType
    <3> QED BY <3>1, PowerMultiple DEF Unit
  <2>6. Multiple(p, w)
    <3>1. Power[Finest(market)] \in Nat \ {0}
      BY FinestType, PowerType
    <3> QED BY <3>1, <1>3, <2>3, <2>5, MultipleOf
  <2>7. p \in Nat \ {0}
    BY <1>2, <2>3
  <2> HIDE DEF w
  <2>8. Tradable(p, market)
    BY <2>3, <2>4, <2>6, <2>7 DEF Tradable, w
  <2>9. Near(n, p, market)
    BY <1>5, <2>3 DEF Near
  <2> QED BY <2>8, <2>9
<1> QED BY <1>4, <1>5

\* A tradable price is normalized to itself, and written as it is.
LEMMA TradableKept ==
    ASSUME market \in Markets, NEW p, Tradable(p, market)
    PROVE  NormalizePrice(p) = {p} /\ WireFloat(p) = {p} /\ p # None /\ Near(p, p, market)
<1>1. p \in Int /\ p > 0 /\ p <= Bound /\ p # None
  BY EncodingAssumption DEF Tradable
<1>2. Whole \in Nat \ {0} /\ Unit(WireDecimals) \in Nat \ {0}
  BY UnitType, ScaleType DEF Whole
<1>3. RoundPrice(p) = {p} /\ Near(p, p, market)
  <2>1. CASE p % Whole = 0
    BY <2>1 DEF RoundPrice, Near
  <2>2. CASE p % Whole # 0
    <3>1. p < Bound /\ Multiple(p, Step(p, market))
      BY <1>1, <1>2, <2>2, MultipleMod DEF Tradable
    <3>2. PICK e \in 0 .. MaxDigits : SigGrain(p) = Power[e]
      BY <1>1, <3>1, SigGrainIs, Zenon
    <3>3. PICK u \in Nat : u = Finest(market)
      BY FinestType
    <3>4. e \in Nat
      BY <3>2
    <3>5. PICK k \in Nat : k = (IF e >= u THEN e ELSE u)
      BY <3>4
    <3>6. Step(p, market) = Power[k]
      BY <3>2, <3>3, <3>4, <3>5, StepIs
    <3>7. Multiple(p, Power[e]) /\ Multiple(p, Power[u])
      <4>1. Multiple(Power[k], Power[e]) /\ Multiple(Power[k], Power[u])
        BY <3>4, <3>5, PowerMultiple
      <4> QED BY <4>1, <3>1, <3>4, <3>6, <1>1, MultipleOf, PowerType
    <3>8. Nearest(p, SigGrain(p)) = {p} /\ Nearest(p, Unit(MaxDecimals)) = {p}
      BY <1>1, <3>2, <3>3, <3>4, <3>7, NearestKeeps, PowerType, MarketGrain
    <3>9. RoundPrice(p) = {p}
      <4>1. RoundPrice(p) = UNION {Nearest(m, Unit(MaxDecimals)) : m \in {p}}
        BY <2>2, <3>8 DEF RoundPrice
      <4> QED BY <4>1, <3>8
    <3>10. Near(p, p, market)
      <4>1. Power[k] > 0 /\ p - p = 0
        BY <1>1, PowerType
      <4> QED BY <4>1, <2>2, <3>1, <3>6 DEF Near
    <3> QED BY <3>9, <3>10
  <2> QED BY <2>1, <2>2
<1>4. NormalizePrice(p) = {p}
  <2>1. NormalizePrice(p) = {Positive(m) : m \in RoundPrice(p)}
    BY <1>1 DEF NormalizePrice, Tradable
  <2> QED BY <2>1, <1>1, <1>3 DEF Positive
<1>5. WireFloat(p) = {p}
  BY <1>1, WrittenExactly DEF Tradable
<1> QED BY <1>1, <1>3, <1>4, <1>5

\* A price in the domain of an outcome market is not refused.
LEMMA OutcomeNotRefused ==
    ASSUME market \in Markets, market.kind = "outcome", NEW n \in OutcomeMin .. OutcomeMax
    PROVE  NormalizePrice(n) # {None}
<1>1. OutcomeMin \in Nat \ {0} /\ OutcomeMax \in Int
  <2>1. OutcomeDecimals \in 0 .. Scale /\ 0 \in 0 .. Scale
    BY EncodingAssumption
  <2> QED BY <2>1, UnitType DEF OutcomeMin, OutcomeMax, Whole
<1>2. n \in Int /\ n > 0
  BY <1>1
<1>3. NormalizePrice(n) = {Positive(m) : m \in RoundPrice(n)}
  BY <1>2 DEF NormalizePrice
<1>4. \E p \in RoundPrice(n) : p \in Int /\ p > 0
  <2>1. CASE n % Whole = 0
    BY <1>2, <2>1 DEF RoundPrice
  <2>2. CASE n % Whole # 0
    <3>1. n < Bound
      <4>1. n < Whole
        <5>1. OutcomeMax < Whole
          <6>1. Whole \in Int /\ OutcomeMin > 0 /\ OutcomeMax = Whole - OutcomeMin
            BY <1>1, UnitType, ScaleType DEF Whole, OutcomeMin, OutcomeMax
          <6> QED BY <6>1, <1>1
        <5> QED BY <5>1, <1>1, UnitType, ScaleType DEF Whole
      <4>2. Whole <= Bound
        <5>1. MaxDigits + Sig \in Nat /\ Scale <= MaxDigits + Sig
          BY ScaleType
        <5> QED BY <5>1, PowerUp, ScaleType DEF Whole, Unit, Bound
      <4> QED BY <4>1, <4>2, <1>2, BoundIs, UnitType, ScaleType DEF Whole
    <3>2. SigGrain(n) \in Nat \ {0} /\ Power[Finest(market)] \in Nat \ {0}
      BY <1>2, <3>1, SigGrainIs, FinestType, PowerType
    <3>3. PICK m : m \in Nearest(n, SigGrain(n))
      BY <1>2, <3>2, NearestExists
    <3>4. m \in Int
      BY <1>2, <3>2, <3>3, NearestIs
    <3>5. PICK p : p \in Nearest(m, Power[Finest(market)])
      BY <3>2, <3>4, NearestExists
    <3>6. p \in OutcomeMin .. OutcomeMax
      BY <3>3, <3>5, OutcomeRange
    <3>7. p \in RoundPrice(n)
      BY <2>2, <3>3, <3>5, MarketGrain, Zenon DEF RoundPrice
    <3> QED BY <3>6, <3>7, <1>1
  <2> QED BY <2>1, <2>2
<1>5. PICK p \in RoundPrice(n) : p \in Int /\ p > 0
  BY <1>4
<1>6. Positive(p) = p /\ p # None
  BY <1>5, EncodingAssumption DEF Positive
<1> QED BY <1>3, <1>5, <1>6, Zenon

-----------------------------------------------------------------------------
(* Sizes of a market.                                                      *)

Lot(mk) == Unit(mk.decimals)

\* The size sent is a number of lots, half a lot from the one asked for at most, and
\* nothing only where nothing was asked for.
SizeNear(n, s, mk) ==
    /\ s \in Nat /\ Multiple(s, Lot(mk))
    /\ 2 * (s - n) <= Lot(mk) /\ 2 * (n - s) <= Lot(mk)
    /\ s = 0 => n = 0

LEMMA LotType ==
    ASSUME NEW mk \in Markets
    PROVE  Lot(mk) \in Nat \ {0} /\ Multiple(Lot(mk), Unit(WireDecimals))
<1>1. mk.decimals \in 0 .. WireDecimals
  BY EncodingAssumption
<1> QED BY <1>1, UnitType, FitsWire, ScaleType DEF Lot, Unit

LEMMA NormalizedSize ==
    ASSUME market \in Markets, NEW n \in Int, NEW s \in NormalizeSize(n), s # None
    PROVE  SizeNear(n, s, market)
<1>1. Lot(market) \in Nat \ {0}
  BY LotType
<1>2. CASE n < 0
  BY <1>2 DEF NormalizeSize
<1>3. CASE n = 0
  BY <1>1, <1>3, MultipleSelf DEF NormalizeSize, SizeNear
<1>4. CASE n > 0
  <2>1. \E m \in Nearest(n, Lot(market)) : s = Positive(m)
    BY <1>4 DEF NormalizeSize, Lot
  <2>2. s \in Nearest(n, Lot(market)) /\ s > 0
    BY <2>1 DEF Positive
  <2> QED BY <1>1, <2>2, NearestIs DEF SizeNear
<1> QED BY <1>2, <1>3, <1>4

LEMMA SizeKept ==
    ASSUME market \in Markets, NEW s \in Nat, Multiple(s, Lot(market))
    PROVE  NormalizeSize(s) = {s} /\ WireFloat(s) = {s} /\ s # None /\ SizeNear(s, s, market)
<1>1. Lot(market) \in Nat \ {0} /\ s # None
  BY LotType, EncodingAssumption
<1>2. NormalizeSize(s) = {s}
  <2>1. CASE s = 0
    BY <2>1 DEF NormalizeSize
  <2>2. CASE s > 0
    <3>1. Nearest(s, Unit(market.decimals)) = {s}
      BY <1>1, NearestKeeps DEF Lot
    <3> QED BY <2>2, <3>1 DEF NormalizeSize, Positive
  <2> QED BY <2>1, <2>2
<1>3. WireFloat(s) = {s}
  <2>1. Unit(WireDecimals) \in Nat \ {0}
    BY UnitType, ScaleType
  <2>2. Multiple(s, Unit(WireDecimals))
    BY <1>1, <2>1, LotType, MultipleOf
  <2> QED BY <2>2, WrittenExactly
<1>4. SizeNear(s, s, market)
  BY <1>1 DEF SizeNear
<1> QED BY <1>1, <1>2, <1>3, <1>4

-----------------------------------------------------------------------------
(* Orders.                                                                 *)

Orders == [px : Int, sz : Int, ro : BOOLEAN, trigger : Int \cup {None}]

\* The order w is what may be sent for the order o in the market mk.
Sent(o, w, mk) ==
    /\ o \in Orders /\ w \in Orders
    /\ Tradable(w.px, mk) /\ Near(o.px, w.px, mk)
    /\ SizeNear(o.sz, w.sz, mk)
    /\ o.trigger = None <=> w.trigger = None
    /\ o.trigger # None => Tradable(w.trigger, mk) /\ Near(o.trigger, w.trigger, mk)
    /\ w.ro => mk.kind = "perp"

\* What encode_order sends for an order of the caller's, or of _market_order.
LEMMA EncodedOrder ==
    ASSUME market \in Markets, NEW o \in Orders, o.px < Bound,
           o.trigger # None => o.trigger < Bound, EncodeOrder(o), wire' # None
    PROVE  Sent(o, wire', market)
<1>1. PICK px \in NormalizePrice(o.px), sz \in NormalizeSize(o.sz),
           trigger \in IF o.trigger = None THEN {0} ELSE NormalizePrice(o.trigger) :
         wire' \in IF None \in {px, sz, trigger} \/ (market.kind # "perp" /\ o.ro) THEN {None}
                   ELSE [px : WireFloat(px), sz : WireFloat(sz), ro : {o.ro},
                         trigger : IF o.trigger = None THEN {None} ELSE WireFloat(trigger)]
  BY Zenon DEF EncodeOrder
<1>2. px # None /\ sz # None /\ trigger # None /\ ~ (market.kind # "perp" /\ o.ro)
  BY <1>1
<1>3. wire' \in [px : WireFloat(px), sz : WireFloat(sz), ro : {o.ro},
                 trigger : IF o.trigger = None THEN {None} ELSE WireFloat(trigger)]
  BY <1>1, <1>2
<1>4. o.px \in Int /\ o.sz \in Int /\ o.ro \in BOOLEAN /\ o.trigger \in Int \cup {None}
  BY DEF Orders
<1>5. Tradable(px, market) /\ Near(o.px, px, market) /\ WireFloat(px) = {px} /\ px \in Int
  <2>1. Tradable(px, market) /\ Near(o.px, px, market)
    BY <1>2, <1>4, NormalizedPrice
  <2> QED BY <2>1, TradableKept DEF Tradable
<1>6. SizeNear(o.sz, sz, market) /\ WireFloat(sz) = {sz} /\ sz \in Int
  <2>1. SizeNear(o.sz, sz, market)
    BY <1>2, <1>4, NormalizedSize
  <2> QED BY <2>1, SizeKept DEF SizeNear
<1>7. ASSUME o.trigger # None
      PROVE  /\ Tradable(trigger, market) /\ Near(o.trigger, trigger, market)
             /\ WireFloat(trigger) = {trigger} /\ trigger \in Int
  <2>1. trigger \in NormalizePrice(o.trigger) /\ o.trigger \in Int
    BY <1>4, <1>7
  <2>2. Tradable(trigger, market) /\ Near(o.trigger, trigger, market)
    BY <1>2, <1>7, <2>1, NormalizedPrice
  <2> QED BY <2>2, TradableKept DEF Tradable
<1>8. PICK t \in Int \cup {None} : t = IF o.trigger = None THEN None ELSE trigger
  BY <1>7
<1>9. wire' = [px |-> px, sz |-> sz, ro |-> o.ro, trigger |-> t]
  <2>1. (IF o.trigger = None THEN {None} ELSE WireFloat(trigger)) = {t}
    BY <1>7, <1>8
  <2>2. wire' \in [px : {px}, sz : {sz}, ro : {o.ro}, trigger : {t}]
    BY <1>3, <1>5, <1>6, <2>1, Zenon
  <2> QED BY <2>2
<1>10. o.trigger = None <=> t = None
  BY <1>2, <1>8
<1>11. o.trigger # None => Tradable(t, market) /\ Near(o.trigger, t, market)
  BY <1>7, <1>8
<1> HIDE DEF Tradable, Near, SizeNear
<1> QED BY <1>2, <1>4, <1>5, <1>6, <1>8, <1>9, <1>10, <1>11 DEF Sent, Orders

\* What encode_order sends for an order the exchange shows: the same.
LEMMA EncodedAgain ==
    ASSUME market \in Markets, NEW o, NEW w, Sent(o, w, market), EncodeOrder(w)
    PROVE  wire' = w /\ Sent(w, w, market)
<1>1. w \in Orders /\ Tradable(w.px, market) /\ SizeNear(o.sz, w.sz, market)
      /\ (w.ro => market.kind = "perp")
      /\ (w.trigger # None => Tradable(w.trigger, market))
  BY DEF Sent
<1>2. NormalizePrice(w.px) = {w.px} /\ WireFloat(w.px) = {w.px} /\ w.px # None
      /\ Near(w.px, w.px, market)
  BY <1>1, TradableKept
<1>3. NormalizeSize(w.sz) = {w.sz} /\ WireFloat(w.sz) = {w.sz} /\ w.sz # None
      /\ SizeNear(w.sz, w.sz, market)
  <2>1. w.sz \in Nat /\ Multiple(w.sz, Lot(market))
    BY <1>1 DEF SizeNear
  <2> QED BY <2>1, SizeKept
<1>4. ASSUME w.trigger # None
      PROVE  NormalizePrice(w.trigger) = {w.trigger} /\ WireFloat(w.trigger) = {w.trigger}
             /\ Near(w.trigger, w.trigger, market)
  BY <1>1, <1>4, TradableKept
<1>5. PICK trigger \in IF w.trigger = None THEN {0} ELSE {w.trigger} :
         wire' \in IF None \in {w.px, w.sz, trigger} \/ (market.kind # "perp" /\ w.ro)
                   THEN {None}
                   ELSE [px : {w.px}, sz : {w.sz}, ro : {w.ro},
                         trigger : IF w.trigger = None THEN {None} ELSE WireFloat(trigger)]
  <2>1. (IF w.trigger = None THEN {0} ELSE NormalizePrice(w.trigger))
        = IF w.trigger = None THEN {0} ELSE {w.trigger}
    BY <1>4
  <2> QED BY <1>2, <1>3, <2>1, Zenon DEF EncodeOrder
<1>6. trigger # None
  BY <1>5, EncodingAssumption
<1>7. wire' = [px |-> w.px, sz |-> w.sz, ro |-> w.ro, trigger |-> w.trigger]
  <2>1. (IF w.trigger = None THEN {None} ELSE WireFloat(trigger)) = {w.trigger}
    BY <1>4, <1>5
  <2>2. wire' \in [px : {w.px}, sz : {w.sz}, ro : {w.ro}, trigger : {w.trigger}]
    BY <1>1, <1>2, <1>3, <1>5, <1>6, <2>1
  <2> QED BY <2>2
<1>8. w = [px |-> w.px, sz |-> w.sz, ro |-> w.ro, trigger |-> w.trigger]
  BY <1>1 DEF Orders
<1>9. Sent(w, w, market)
  BY <1>1, <1>2, <1>3, <1>4 DEF Sent
<1> QED BY <1>7, <1>8, <1>9

-----------------------------------------------------------------------------
(* Amounts.                                                                *)

\* Dropping the zeros a fraction ends in does not change what it is worth.
LEMMA StrippedWorth ==
    ASSUME NEW f \in Int, NEW d \in 0 .. Scale
    PROVE  /\ Stripped(f, d).digits \in Int /\ Stripped(f, d).count \in 0 .. d
           /\ Stripped(f, d).digits * Unit(Stripped(f, d).count) = f * Unit(d)
<1> DEFINE C == {c \in 0 .. d : f % Power[d - c] = 0}
<1>1. d \in C /\ C \subseteq Nat
  <2>1. f % 1 = 0
    OBVIOUS
  <2> QED BY <2>1, PowerStep
<1>2. PICK count \in C : count = Min(C)
  BY <1>1, MinIsLeast
<1>3. d - count \in Nat /\ Scale - d \in Nat /\ (d - count) + (Scale - d) = Scale - count
  BY <1>2, ScaleType
<1>4. PICK g \in Nat \ {0} : g = Power[d - count]
  BY <1>3, PowerType
<1>5. PICK digits \in Int : digits = f \div g
  BY Division, Zenon
<1>6. Stripped(f, d) = [digits |-> digits, count |-> count]
  BY <1>2, <1>4, <1>5 DEF Stripped
<1>7. f = digits * g
  <2>1. f % g = 0
    BY <1>2, <1>4
  <2>2. f = digits * g + (f % g)
    BY <1>5, Division, Zenon
  <2> QED BY <2>1, <2>2
<1>8. PICK U \in Nat : U = Unit(d)
  BY UnitType
<1>9. Unit(count) = g * U
  BY <1>3, <1>4, <1>8, PowerSum DEF Unit
<1>10. \A x, y, z \in Int : x * (y * z) = (x * y) * z
  OBVIOUS
<1>11. digits * Unit(count) = f * U
  BY <1>7, <1>9, <1>10
<1> QED BY <1>2, <1>6, <1>8, <1>11

\* The text of an amount is worth the units it was made from.
LEMMA FormatWorth ==
    ASSUME NEW units \in Int, NEW d \in 0 .. Scale
    PROVE  Worth(FormatTokenAmount(units, d)) = units * Unit(d)
<1>1. d \in Nat /\ Scale - d \in Nat /\ d + (Scale - d) = Scale
  BY ScaleType
<1>2. PICK P \in Nat \ {0} : P = Power[d]
  BY <1>1, PowerType
<1>3. PICK U \in Nat : U = Unit(d)
  BY UnitType
<1>4. PICK whole \in Int : whole = units \div P
  BY Division, Zenon
<1>5. PICK rest \in 0 .. P - 1 : rest = units % P
  BY Division, Zenon
<1>6. units = whole * P + rest
  BY <1>4, <1>5, Division, Zenon
<1>7. Whole = P * U
  BY <1>1, <1>2, <1>3, PowerSum, ScaleType DEF Whole, Unit
<1>8. FormatTokenAmount(units, d) = [whole |-> whole, fraction |-> Stripped(rest, d)]
  BY <1>2, <1>4, <1>5 DEF FormatTokenAmount
<1>9. Stripped(rest, d).digits * Unit(Stripped(rest, d).count) = rest * U
  BY <1>3, StrippedWorth
<1>10. Worth(FormatTokenAmount(units, d)) = whole * (P * U) + rest * U
  BY <1>7, <1>8, <1>9 DEF Worth
<1>11. \A x, y, z, r \in Int : x * (y * z) + r * z = (x * y + r) * z
  OBVIOUS
<1> QED BY <1>3, <1>6, <1>10, <1>11

\* Truncation loses less than a unit.
LEMMA TruncatedAmount ==
    ASSUME NEW n \in Int, n > 0, NEW d \in 0 .. Scale, AmountInUnits(n, d) # 0
    PROVE  /\ AmountInUnits(n, d) \in Nat \ {0}
           /\ 0 < AmountInUnits(n, d) * Unit(d) /\ AmountInUnits(n, d) * Unit(d) <= n
           /\ n < AmountInUnits(n, d) * Unit(d) + Unit(d)
<1>1. PICK U \in Nat \ {0} : U = Unit(d)
  BY UnitType
<1>2. PICK u \in Int : u = n \div U
  BY Division, Zenon
<1>3. PICK r \in 0 .. U - 1 : r = n % U
  BY Division, Zenon
<1>4. n = u * U + r
  BY <1>2, <1>3, Division, Zenon
<1>5. AmountInUnits(n, d) = u /\ u # 0
  BY <1>1, <1>2 DEF AmountInUnits
<1>6. u > 0
  <2>1. ASSUME u < 0 PROVE FALSE
    <3>1. -1 - u \in Nat /\ u * U = -((-1 - u) * U) - U
      BY <2>1
    <3>2. (-1 - u) * U \in Nat
      BY <3>1
    <3> QED BY <3>1, <3>2, <1>4
  <2> QED BY <2>1, <1>5
<1>7. \A a, b \in Nat \ {0} : a * b > 0
  OBVIOUS
<1>8. u * U > 0
  BY <1>6, <1>7
<1> QED BY <1>1, <1>4, <1>5, <1>6, <1>8

\* An exact amount is exactly the units sent.
LEMMA ExactAmount ==
    ASSUME NEW n \in Int, NEW d \in 0 .. Scale, ExactUnits(n, d) # None
    PROVE  ExactUnits(n, d) \in Int /\ ExactUnits(n, d) * Unit(d) = n
<1>1. PICK U \in Nat \ {0} : U = Unit(d)
  BY UnitType
<1>2. n % U = 0 /\ ExactUnits(n, d) = n \div U
  BY <1>1 DEF ExactUnits
<1>3. PICK u \in Int : u = n \div U
  BY Division, Zenon
<1>4. n = u * U + (n % U)
  BY <1>3, Division, Zenon
<1>5. n = u * U
  BY <1>2, <1>4
<1> QED BY <1>1, <1>2, <1>3, <1>5

\* What is written for a number is a number of the wire, no further from it than the
\* tolerance, and the number itself if the wire has it.
LEMMA WrittenAmount ==
    ASSUME NEW n \in Int, NEW m \in WireFloat(n), m # None
    PROVE  /\ m \in Int /\ m % Unit(WireDecimals) = 0 /\ Loss(n, m) <= Tolerance
           /\ n % Unit(WireDecimals) = 0 => m = n
<1>1. Unit(WireDecimals) \in Nat \ {0}
  BY UnitType, ScaleType
<1>2. m \in Nearest(n, Unit(WireDecimals)) /\ Loss(n, m) <= Tolerance
  BY DEF WireFloat
<1>3. m \in Int /\ m % Unit(WireDecimals) = 0
  BY <1>1, <1>2, NearestIs, MultipleMod
<1>4. n % Unit(WireDecimals) = 0 => m = n
  BY <1>1, WrittenExactly, MultipleMod
<1> QED BY <1>2, <1>3, <1>4

\* A number is refused only if no number of the wire is nearer than the tolerance: none
\* is nearer than the nearest one.
LEMMA RefusedAmount ==
    ASSUME NEW n \in Int, None \in WireFloat(n),
           NEW m \in n - Tolerance + 1 .. n + Tolerance - 1
    PROVE  m % Unit(WireDecimals) # 0
<1>1. PICK w \in Nat \ {0} : w = Unit(WireDecimals)
  BY UnitType, ScaleType
<1>2. Tolerance \in Nat /\ m \in Int
  BY EncodingAssumption
<1>3. None \notin Nearest(n, w)
  BY <1>1, NearestIs, EncodingAssumption
<1>4. PICK k \in Nearest(n, w) : Loss(n, k) >= Tolerance
  BY <1>1, <1>3 DEF WireFloat
<1>5. k \in Int /\ Multiple(k, w) /\ 2 * (n - k) <= w /\ 2 * (k - n) <= w
  BY <1>1, <1>4, NearestIs
<1>6. n - k >= Tolerance \/ k - n >= Tolerance
  BY <1>2, <1>4, <1>5 DEF Loss
<1>7. m # k /\ -w < m - k /\ m - k < w
  BY <1>1, <1>2, <1>5, <1>6
<1>8. ~ Multiple(m, w)
  <2>1. Multiple(m, w) /\ m < k => m + w <= k
    BY <1>1, <1>2, <1>5, MultiplesApart
  <2>2. Multiple(m, w) /\ k < m => k + w <= m
    BY <1>1, <1>2, <1>5, MultiplesApart
  <2> QED BY <1>1, <1>2, <1>5, <1>7, <2>1, <2>2
<1> QED BY <1>1, <1>2, <1>8, MultipleMod

-----------------------------------------------------------------------------
(* The invariant.                                                          *)

\* What modifying an order rests on is that the numbers sent before were tradable: a
\* second rounding then has nothing left to round.
EncodingInv ==
    /\ market \in Markets
    /\ IsOrder => Sent(asked, wire, market)
    /\ op = "market" /\ market.kind = "outcome" => asked.px \in OutcomeMin .. OutcomeMax
    /\ op = "twap" /\ wire # None => asked.sz # 0
    /\ ReplaceKeeps
    /\ AmountsAreHonest

\* The prices the callers and the exchange have are below the bound.
LEMMA PriceBound == \A n \in Prices : n \in Int /\ 2 * n < Bound /\ n < Bound
<1>1. 2 * Power[MaxDigits] <= Bound
  <2>1. MaxDigits \in Nat /\ MaxDigits + Sig \in Nat /\ MaxDigits < MaxDigits + Sig
    BY ScaleType
  <2> QED BY <2>1, PowerDoubles DEF Bound
<1>2. Power[MaxDigits] \in Nat
  BY ScaleType, PowerType
<1>3. \A n \in Prices : n \in Int /\ n < Power[MaxDigits]
  BY EncodingAssumption
<1> QED BY <1>1, <1>2, <1>3, BoundIs

\* The domain of an outcome market is not empty.
LEMMA OutcomeDomain ==
    OutcomeMin \in Nat \ {0} /\ OutcomeMax \in Int /\ OutcomeMin <= OutcomeMax
    /\ OutcomeMax < Bound
<1>1. OutcomeDecimals \in 1 .. Scale
  BY EncodingAssumption
<1>2. Scale - OutcomeDecimals \in Nat /\ Scale - OutcomeDecimals < Scale /\ Scale \in Nat
      /\ Scale < MaxDigits + Sig /\ MaxDigits + Sig \in Nat
  BY <1>1, ScaleType
<1>3. PICK U \in Nat \ {0} : U = Power[Scale - OutcomeDecimals]
  BY <1>2, PowerType
<1>4. PICK W \in Nat \ {0} : W = Power[Scale]
  BY <1>2, PowerType
<1>5. OutcomeMin = U /\ OutcomeMax = W - U
  BY <1>2, <1>3, <1>4 DEF OutcomeMin, OutcomeMax, Whole, Unit
<1>6. 2 * U <= W
  BY <1>2, <1>3, <1>4, PowerDoubles
<1>7. W <= Bound
  BY <1>2, <1>4, PowerUp DEF Bound
<1> QED BY <1>3, <1>4, <1>5, <1>6, <1>7, BoundIs

\* The price of a market order, and in an outcome market its place in the domain.
LEMMA MarketPriceIs ==
    ASSUME NEW mid \in Prices, mid > 0, NEW slippage \in Slippages, NEW isBuy \in BOOLEAN
    PROVE  /\ MarketPrice(mid, slippage, isBuy) \in Int
           /\ MarketPrice(mid, slippage, isBuy) < Bound
           /\ market.kind = "outcome" =>
                 MarketPrice(mid, slippage, isBuy) \in OutcomeMin .. OutcomeMax
<1>1. PICK W \in Nat \ {0} : W = Whole /\ W = Power[Scale]
  BY ScaleType, PowerType DEF Whole, Unit
<1>2. slippage \in 0 .. W - 1
  BY <1>1, EncodingAssumption
<1>3. PICK f \in Int : f = (IF isBuy THEN Whole + slippage ELSE Whole - slippage) /\ f < 2 * W
  BY <1>1, <1>2
<1>4. mid \in Int /\ 2 * mid < Bound
  BY PriceBound
<1>5. PICK n \in Int : n = mid * f
  BY <1>4
<1>6. PICK price \in Int : price = n \div W
  BY Division, Zenon
<1>7. price < 2 * mid
  <2>1. PICK r \in 0 .. W - 1 : r = n % W
    BY Division, Zenon
  <2>2. n = price * W + r
    BY <1>6, <2>1, Division, Zenon
  <2>3. \A a, b \in Nat \ {0} : a * b > 0
    OBVIOUS
  <2>4. mid * (2 * W - f) > 0
    BY <1>3, <1>4, <2>3
  <2>5. mid * (2 * W - f) = (2 * mid) * W - mid * f
    BY <1>3, <1>4
  <2>6. n < (2 * mid) * W
    BY <2>4, <2>5, <1>4, <1>5
  <2>7. ASSUME price >= 2 * mid PROVE FALSE
    <3>1. \A a, b \in Nat : a * b >= 0
      OBVIOUS
    <3>2. (price - 2 * mid) * W >= 0
      BY <2>7, <3>1, <1>4
    <3>3. (price - 2 * mid) * W = price * W - (2 * mid) * W
      BY <1>4
    <3> QED BY <3>2, <3>3, <2>1, <2>2, <2>6, <1>4
  <2> QED BY <2>7, <1>4
<1>8. MarketPrice(mid, slippage, isBuy) =
        IF market.kind = "outcome" THEN Min({Max({price, OutcomeMin}), OutcomeMax}) ELSE price
  BY <1>1, <1>3, <1>5, <1>6 DEF MarketPrice
<1>9. PICK m \in Int : m = Max({price, OutcomeMin}) /\ m >= OutcomeMin
  BY MaxOfTwo, OutcomeDomain
<1>10. Min({m, OutcomeMax}) \in OutcomeMin .. OutcomeMax
  <2>1. Min({m, OutcomeMax}) = IF m <= OutcomeMax THEN m ELSE OutcomeMax
    BY MinOfTwo, OutcomeDomain
  <2> QED BY <2>1, <1>9, OutcomeDomain
<1>11. Min({m, OutcomeMax}) \in Int /\ Min({m, OutcomeMax}) < Bound
  BY <1>10, OutcomeDomain, BoundIs
<1> QED BY <1>4, <1>7, <1>8, <1>9, <1>10, <1>11, BoundIs

LEMMA EncodingInit == Init => EncodingInv
<1> SUFFICES ASSUME Init PROVE EncodingInv
  OBVIOUS
<1> QED BY DEF Init, EncodingInv, IsOrder, ReplaceKeeps, AmountsAreHonest, NeverMoreThanAsked,
               ExactIsExact, WrittenIsClose

\* An order of the caller's, or of _market_order, that is encoded.
LEMMA OrderEncoded ==
    ASSUME EncodingInv, NEW o \in Orders, o.px < Bound,
           o.trigger # None => o.trigger < Bound,
           EncodeOrder(o) \/ wire' = None, asked' = o, market' = market
    PROVE  (IsOrder => Sent(asked, wire, market))'
<1>1. market \in Markets
  BY DEF EncodingInv
<1>2. wire' # None => Sent(o, wire', market)
  BY <1>1, EncodedOrder
<1>3. wire' # None => Sent(asked', wire', market')
  BY <1>2
<1>4. IsOrder' => wire' # None
  BY DEF IsOrder
<1>5. IsOrder' => (Sent(asked, wire, market))'
  BY <1>3, <1>4, Zenon
<1> QED BY <1>5

LEMMA LimitStep ==
    ASSUME EncodingInv, NEW px \in Prices, NEW sz \in Sizes, NEW trigger \in Triggers,
           NEW ro \in BOOLEAN, LimitOrder(px, sz, trigger, ro)
    PROVE  EncodingInv'
<1> DEFINE o == [px |-> px, sz |-> sz, trigger |-> trigger, ro |-> ro]
<1>1. op' = "limit" /\ asked' = o /\ market' = market /\ EncodeOrder(o)
  BY DEF LimitOrder, Run
<1>2. o \in Orders /\ o.px < Bound /\ (o.trigger # None => o.trigger < Bound)
  BY PriceBound, EncodingAssumption DEF Orders
<1> HIDE DEF o
<1>3. (IsOrder => Sent(asked, wire, market))'
  BY <1>1, <1>2, OrderEncoded
<1>4. market' \in Markets
  BY <1>1 DEF EncodingInv
<1>5. ReplaceKeeps' /\ AmountsAreHonest'
  BY <1>1 DEF ReplaceKeeps, AmountsAreHonest, NeverMoreThanAsked, ExactIsExact, WrittenIsClose
<1> QED BY <1>1, <1>3, <1>4, <1>5 DEF EncodingInv

LEMMA MarketStep ==
    ASSUME EncodingInv, NEW mid \in Prices, NEW slippage \in Slippages, NEW isBuy \in BOOLEAN,
           NEW sz \in Sizes, NEW ro \in BOOLEAN, MarketOrder(mid, slippage, isBuy, sz, ro)
    PROVE  EncodingInv'
<1> DEFINE o == [px |-> MarketPrice(mid, slippage, isBuy), sz |-> sz, trigger |-> None,
                 ro |-> ro]
<1>1. mid > 0 /\ op' = "market" /\ asked' = o /\ market' = market /\ EncodeOrder(o)
  BY DEF MarketOrder, Run
<1>2. /\ MarketPrice(mid, slippage, isBuy) \in Int /\ MarketPrice(mid, slippage, isBuy) < Bound
      /\ market.kind = "outcome" =>
            MarketPrice(mid, slippage, isBuy) \in OutcomeMin .. OutcomeMax
  BY <1>1, MarketPriceIs
<1>3. o \in Orders /\ o.px < Bound /\ o.trigger = None
      /\ (market.kind = "outcome" => o.px \in OutcomeMin .. OutcomeMax)
  BY <1>2, EncodingAssumption DEF Orders
<1> HIDE DEF o
<1>4. (IsOrder => Sent(asked, wire, market))'
  BY <1>1, <1>3, OrderEncoded
<1>5. (op = "market" /\ market.kind = "outcome" => asked.px \in OutcomeMin .. OutcomeMax)'
  BY <1>1, <1>3
<1>6. market' \in Markets
  BY <1>1 DEF EncodingInv
<1>7. ReplaceKeeps' /\ AmountsAreHonest'
  BY <1>1 DEF ReplaceKeeps, AmountsAreHonest, NeverMoreThanAsked, ExactIsExact, WrittenIsClose
<1> QED BY <1>1, <1>4, <1>5, <1>6, <1>7 DEF EncodingInv

LEMMA TwapStep ==
    ASSUME EncodingInv, NEW px \in Prices, NEW sz \in Sizes, NEW ro \in BOOLEAN,
           PlaceTwap(px, sz, ro)
    PROVE  EncodingInv'
<1> DEFINE o == [px |-> px, sz |-> sz, trigger |-> None, ro |-> ro]
<1>1. op' = "twap" /\ asked' = o /\ market' = market
      /\ IF sz = 0 THEN wire' = None ELSE EncodeOrder(o)
  BY DEF PlaceTwap, Run
<1>2. o \in Orders /\ o.px < Bound /\ o.trigger = None /\ o.sz = sz
  BY PriceBound, EncodingAssumption DEF Orders
<1> HIDE DEF o
<1>3. (IsOrder => Sent(asked, wire, market))'
  BY <1>1, <1>2, OrderEncoded
<1>4. (op = "twap" /\ wire # None => asked.sz # 0)'
  BY <1>1, <1>2
<1>5. market' \in Markets
  BY <1>1 DEF EncodingInv
<1>6. ReplaceKeeps' /\ AmountsAreHonest'
  BY <1>1 DEF ReplaceKeeps, AmountsAreHonest, NeverMoreThanAsked, ExactIsExact, WrittenIsClose
<1> QED BY <1>1, <1>3, <1>4, <1>5, <1>6 DEF EncodingInv

\* A modification reads what was sent and sends it again.
LEMMA ReplaceStep == ASSUME EncodingInv, Replace PROVE EncodingInv'
<1>1. op' = "replace" /\ asked' = wire /\ market' = market /\ EncodeOrder(wire)
  BY DEF Replace, Run
<1>2. market \in Markets /\ Sent(asked, wire, market)
  BY DEF Replace, EncodingInv, IsOrder
<1>3. wire' = wire /\ Sent(wire, wire, market)
  BY <1>1, <1>2, EncodedAgain
<1>4. Sent(asked', wire', market')
  BY <1>1, <1>3
<1>5. (IsOrder => Sent(asked, wire, market))'
  BY <1>4, Zenon
<1>6. ReplaceKeeps'
  BY <1>1, <1>3 DEF ReplaceKeeps
<1>7. AmountsAreHonest'
  BY <1>1 DEF AmountsAreHonest, NeverMoreThanAsked, ExactIsExact, WrittenIsClose
<1> QED BY <1>1, <1>2, <1>5, <1>6, <1>7 DEF EncodingInv

\* A transfer: nothing but its amount matters.
LEMMA AmountStep ==
    ASSUME EncodingInv, op' \in {"send", "units", "margin", "hip3", "outcome", "rate"},
           market' = market, AmountsAreHonest'
    PROVE  EncodingInv'
BY DEF EncodingInv, IsOrder, ReplaceKeeps

LEMMA TransferStep ==
    ASSUME EncodingInv, NEW n \in Amounts, NEW d \in TokenDecimals, Send(n, d) \/ SendUnits(n, d)
    PROVE  EncodingInv'
<1>1. n \in Int /\ d \in 0 .. Scale
  BY EncodingAssumption
<1>2. PICK units : units = AmountInUnits(n, d)
  OBVIOUS
<1>3. asked' = [amount |-> n, decimals |-> d] /\ market' = market
  BY DEF Send, SendUnits, Run
<1>4. ASSUME n > 0, units # 0
      PROVE  units \in Int /\ Unit(d) \in Int
             /\ 0 < units * Unit(d) /\ units * Unit(d) <= n /\ n < units * Unit(d) + Unit(d)
  BY <1>1, <1>2, <1>4, TruncatedAmount, UnitType
<1>5. CASE Send(n, d)
  <2>1. op' = "send" /\ wire' = IF n <= 0 \/ units = 0 THEN None ELSE FormatTokenAmount(units, d)
    BY <1>2, <1>5 DEF Send, Run
  <2>2. ASSUME wire' # None
        PROVE  0 < Worth(wire') /\ Worth(wire') <= n /\ n < Worth(wire') + Unit(d)
    <3>1. n > 0 /\ units # 0 /\ wire' = FormatTokenAmount(units, d)
      BY <1>1, <2>1, <2>2
    <3>2. Worth(wire') = units * Unit(d)
      BY <1>1, <1>4, <3>1, FormatWorth
    <3> QED BY <1>4, <3>1, <3>2
  <2>3. NeverMoreThanAsked'
    <3>1. asked'.amount = n /\ asked'.decimals = d
      BY <1>3
    <3> QED BY <2>1, <2>2, <3>1 DEF NeverMoreThanAsked
  <2>4. ExactIsExact' /\ WrittenIsClose'
    BY <2>1 DEF ExactIsExact, WrittenIsClose
  <2> QED BY <1>3, <2>1, <2>3, <2>4, AmountStep DEF AmountsAreHonest
<1>6. CASE SendUnits(n, d)
  <2>1. op' = "units" /\ wire' = IF n <= 0 \/ units = 0 THEN None ELSE [units |-> units]
    BY <1>2, <1>6 DEF SendUnits, Run
  <2>2. ASSUME wire' # None
        PROVE  /\ 0 < wire'.units * Unit(d) /\ wire'.units * Unit(d) <= n
               /\ n < wire'.units * Unit(d) + Unit(d)
    <3>1. n > 0 /\ units # 0 /\ wire'.units = units
      BY <1>1, <2>1, <2>2
    <3> QED BY <1>4, <3>1
  <2>3. NeverMoreThanAsked'
    <3>1. asked'.amount = n /\ asked'.decimals = d
      BY <1>3
    <3> QED BY <2>1, <2>2, <3>1 DEF NeverMoreThanAsked
  <2>4. ExactIsExact' /\ WrittenIsClose'
    BY <2>1 DEF ExactIsExact, WrittenIsClose
  <2> QED BY <1>3, <2>1, <2>3, <2>4, AmountStep DEF AmountsAreHonest
<1> QED BY <1>5, <1>6

LEMMA ExactStep ==
    ASSUME EncodingInv, NEW n \in Amounts, NEW d \in TokenDecimals,
           UpdateMargin(n, d) \/ Hip3Transfer(n, d)
    PROVE  EncodingInv'
<1>1. n \in Int /\ d \in 0 .. Scale
  BY EncodingAssumption
<1>2. PICK units : units = ExactUnits(n, d)
  OBVIOUS
<1>3. /\ asked' = [amount |-> n, decimals |-> d] /\ market' = market
      /\ op' \in {"margin", "hip3"}
  BY DEF UpdateMargin, Hip3Transfer, Run
<1>4. ASSUME units # None PROVE units \in Int /\ units * Unit(d) = n
  BY <1>1, <1>2, <1>4, ExactAmount
<1>5. ASSUME wire' # None
      PROVE  /\ units # None /\ wire' = [units |-> units]
             /\ op' = "hip3" => units > 0 /\ units % Quantum = 0
  <2>1. CASE UpdateMargin(n, d)
    BY <1>2, <1>5, <2>1 DEF UpdateMargin, Run
  <2>2. CASE Hip3Transfer(n, d)
    <3>1. units # None /\ wire' = [units |-> units] /\ ~ (units <= 0) /\ units % Quantum = 0
      BY <1>2, <1>5, <2>2, Zenon DEF Hip3Transfer
    <3> QED BY <1>4, <3>1
  <2> QED BY <2>1, <2>2
<1>6. ExactIsExact'
  <2>1. asked'.amount = n /\ asked'.decimals = d
    BY <1>3
  <2>2. ASSUME wire' # None PROVE wire'.units = units
    BY <1>5, <2>2
  <2> QED BY <1>4, <1>5, <2>1, <2>2 DEF ExactIsExact
<1>7. NeverMoreThanAsked' /\ WrittenIsClose'
  BY <1>3 DEF NeverMoreThanAsked, WrittenIsClose
<1> QED BY <1>3, <1>6, <1>7, AmountStep DEF AmountsAreHonest

\* An amount or a rate that is written as a decimal, with no check but its sign.
LEMMA WrittenStep ==
    ASSUME EncodingInv, NEW n \in Amounts, OutcomeAmount(n) \/ VoteRiskFreeRate(n)
    PROVE  EncodingInv'
<1>1. n \in Int
  BY EncodingAssumption
<1>2. asked' = [amount |-> n] /\ market' = market /\ op' \in {"outcome", "rate"}
  BY DEF OutcomeAmount, VoteRiskFreeRate, Run
<1>3. asked'.amount = n
  BY <1>2
<1>4. PICK written \in WireFloat(n) :
         \/ written # None /\ wire' = [amount |-> written]
         \/ wire' = None /\ (written = None \/ n < 0 \/ (op' = "outcome" /\ n = 0))
  <2>1. CASE OutcomeAmount(n)
    <3>1. PICK written \in WireFloat(n) :
             wire' = IF n <= 0 \/ written = None THEN None ELSE [amount |-> written]
      BY <2>1 DEF OutcomeAmount
    <3> QED BY <1>1, <2>1, <3>1 DEF OutcomeAmount, Run
  <2>2. CASE VoteRiskFreeRate(n)
    <3>1. PICK written \in WireFloat(n) :
             wire' = IF n < 0 \/ written = None THEN None ELSE [amount |-> written]
      BY <2>2 DEF VoteRiskFreeRate
    <3> QED BY <1>1, <3>1
  <2> QED BY <2>1, <2>2
<1>5. WrittenIsClose'
  <2>1. CASE written # None /\ wire' = [amount |-> written]
    <3>1. written \in Int /\ written % Unit(WireDecimals) = 0 /\ Loss(n, written) <= Tolerance
          /\ (n % Unit(WireDecimals) = 0 => written = n)
      BY <1>1, <2>1, WrittenAmount
    <3>2. wire' # None /\ wire'.amount = written
      BY <2>1, <3>1, EncodingAssumption
    <3> QED BY <1>3, <3>1, <3>2 DEF WrittenIsClose
  <2>2. CASE wire' = None /\ (written = None \/ n < 0 \/ (op' = "outcome" /\ n = 0))
    <3>1. written = None => \A m \in n - Tolerance + 1 .. n + Tolerance - 1 :
                                m % Unit(WireDecimals) # 0
      BY <1>1, RefusedAmount
    <3> QED BY <1>3, <2>2, <3>1 DEF WrittenIsClose
  <2> QED BY <1>4, <2>1, <2>2
<1>6. NeverMoreThanAsked' /\ ExactIsExact'
  BY <1>2 DEF NeverMoreThanAsked, ExactIsExact
<1> QED BY <1>2, <1>5, <1>6, AmountStep DEF AmountsAreHonest

LEMMA EncodingStep == EncodingInv /\ [Next]_vars => EncodingInv'
<1> SUFFICES ASSUME EncodingInv, [Next]_vars PROVE EncodingInv'
  OBVIOUS
<1>1. ASSUME NEW px \in Prices, NEW sz \in Sizes, NEW trigger \in Triggers, NEW ro \in BOOLEAN,
             LimitOrder(px, sz, trigger, ro)
      PROVE  EncodingInv'
  BY <1>1, LimitStep
<1>2. ASSUME NEW mid \in Prices, NEW slippage \in Slippages, NEW isBuy \in BOOLEAN,
             NEW ro \in BOOLEAN, NEW sz \in Sizes, MarketOrder(mid, slippage, isBuy, sz, ro)
      PROVE  EncodingInv'
  BY <1>2, MarketStep
<1>3. ASSUME NEW px \in Prices, NEW sz \in Sizes, NEW ro \in BOOLEAN, PlaceTwap(px, sz, ro)
      PROVE  EncodingInv'
  BY <1>3, TwapStep
<1>4. ASSUME NEW n \in Amounts, NEW d \in TokenDecimals,
             Send(n, d) \/ SendUnits(n, d) \/ UpdateMargin(n, d) \/ Hip3Transfer(n, d)
      PROVE  EncodingInv'
  BY <1>4, TransferStep, ExactStep
<1>5. ASSUME NEW n \in Amounts, OutcomeAmount(n) \/ VoteRiskFreeRate(n) PROVE EncodingInv'
  BY <1>5, WrittenStep
<1>6. CASE Replace
  BY <1>6, ReplaceStep
<1>7. CASE UNCHANGED vars
  <2>1. market' = market /\ op' = op /\ asked' = asked /\ wire' = wire
    BY <1>7 DEF vars
  <2>2. (IsOrder => Sent(asked, wire, market))'
    <3>1. IsOrder' <=> IsOrder
      BY <2>1 DEF IsOrder
    <3>2. Sent(asked, wire, market) => Sent(asked', wire', market')
      BY <2>1
    <3> QED BY <3>1, <3>2, Zenon DEF EncodingInv
  <2>3. ReplaceKeeps'
    BY <2>1 DEF ReplaceKeeps, EncodingInv
  <2>4. AmountsAreHonest'
    <3>1. (NeverMoreThanAsked /\ ExactIsExact)'
      BY <2>1 DEF AmountsAreHonest, NeverMoreThanAsked, ExactIsExact, EncodingInv
    <3>2. WrittenIsClose'
      BY <2>1 DEF AmountsAreHonest, WrittenIsClose, EncodingInv
    <3> QED BY <3>1, <3>2 DEF AmountsAreHonest
  <2>5. (market \in Markets
         /\ (op = "market" /\ market.kind = "outcome" => asked.px \in OutcomeMin .. OutcomeMax)
         /\ (op = "twap" /\ wire # None => asked.sz # 0))'
    BY <2>1 DEF EncodingInv
  <2> QED BY <2>2, <2>3, <2>4, <2>5 DEF EncodingInv
<1> QED BY <1>1, <1>2, <1>3, <1>4, <1>5, <1>6, <1>7 DEF Next

\* EncodingInv is an invariant.
THEOREM EncodingInvariant == Spec => []EncodingInv
BY EncodingInit, EncodingStep, PTL DEF Spec

-----------------------------------------------------------------------------
(* What follows.                                                           *)

LEMMA StepType ==
    ASSUME market \in Markets, NEW n \in Int, n < Bound
    PROVE  Step(n, market) \in Nat \ {0}
<1>1. PICK e \in 0 .. MaxDigits : SigGrain(n) = Power[e]
  BY SigGrainIs, Zenon
<1>2. e \in Nat /\ Finest(market) \in Nat
  BY <1>1, FinestType
<1>3. PICK k \in Nat : k = (IF e >= Finest(market) THEN e ELSE Finest(market))
  BY <1>2
<1>4. Step(n, market) = Power[k]
  BY <1>1, <1>2, <1>3, StepIs
<1> QED BY <1>4, PowerType

\* Every price of an order, its trigger included, is tradable and near the one asked for.
LEMMA PricedSent ==
    ASSUME EncodingInv, IsOrder, NEW p \in Priced
    PROVE  p[1] \in Int /\ Tradable(p[2], market) /\ Near(p[1], p[2], market)
<1>1. Sent(asked, wire, market)
  BY DEF EncodingInv
<1>2. asked.px \in Int /\ asked.trigger \in Int \cup {None}
  BY <1>1 DEF Sent, Orders
<1>3. p = <<asked.px, wire.px>> \/ (asked.trigger # None /\ p = <<asked.trigger, wire.trigger>>)
  BY DEF Priced
<1> QED BY <1>1, <1>2, <1>3 DEF Sent

\* Every price that is sent is one the exchange takes: positive, in the digits and
\* decimals of its market or whole, in an outcome market strictly between 0 and 1.
THEOREM PricesTradable == Spec => []PriceIsTradable
<1>1. EncodingInv => PriceIsTradable
  <2> SUFFICES ASSUME EncodingInv, IsOrder PROVE PriceIsTradable
    BY DEF PriceIsTradable
  <2>1. market \in Markets /\ Whole \in Nat \ {0}
    BY UnitType, ScaleType DEF EncodingInv, Whole
  <2>2. wire.ro => market.kind = "perp"
    BY DEF EncodingInv, Sent
  <2>3. ASSUME NEW p \in Priced
        PROVE  /\ p[2] > 0
               /\ p[2] % Whole = 0 \/ p[2] % Tick(p[2]) = 0
               /\ market.kind = "outcome" => p[2] \in OutcomeMin .. OutcomeMax
    <3>1. Tradable(p[2], market)
      BY PricedSent
    <3>2. PICK q \in Int : q = p[2]
      BY <3>1 DEF Tradable
    <3>3. CASE Multiple(q, Whole)
      BY <2>1, <3>1, <3>2, <3>3, MultipleMod DEF Tradable
    <3>4. CASE q < Bound /\ Multiple(q, Step(q, market))
      <4>1. q % Step(q, market) = 0
        BY <2>1, <3>4, StepType, MultipleMod
      <4> QED BY <4>1, <3>1, <3>2, MarketGrain DEF Tradable
    <3> QED BY <3>1, <3>2, <3>3, <3>4 DEF Tradable
  <2> QED BY <2>2, <2>3 DEF PriceIsTradable
<1> QED BY <1>1, EncodingInvariant, PTL

\* Every price and size that is sent is the one asked for but for the rounding: less
\* than a tick, half a lot at most, and nothing only for nothing.
THEOREM NearestIsSent == Spec => []NearestToAsked
<1>1. EncodingInv => NearestToAsked
  <2> SUFFICES ASSUME EncodingInv, IsOrder PROVE PriceWithinTick /\ SizeWithinLot
    BY DEF NearestToAsked, PriceWithinTick, SizeWithinLot
  <2>1. PriceWithinTick
    <3>1. ASSUME NEW p \in Priced
          PROVE  IF p[1] % Whole = 0 THEN p[2] = p[1]
                 ELSE p[2] - p[1] < Tick(p[1]) /\ p[1] - p[2] < Tick(p[1])
      <4>1. Near(p[1], p[2], market)
        BY PricedSent
      <4> QED BY <4>1, MarketGrain DEF Near
    <3> QED BY <3>1 DEF PriceWithinTick
  <2>2. SizeWithinLot
    <3>1. SizeNear(asked.sz, wire.sz, market) /\ (op = "twap" => asked.sz # 0)
      BY DEF EncodingInv, Sent, IsOrder
    <3> QED BY <3>1 DEF SizeWithinLot, SizeNear, Lot
  <2> QED BY <2>1, <2>2
<1> QED BY <1>1, EncodingInvariant, PTL

\* Modifying an order with the numbers the exchange shows sends the same numbers.
THEOREM ReplacesKeep == Spec => []ReplaceKeeps
<1>1. EncodingInv => ReplaceKeeps
  BY DEF EncodingInv
<1> QED BY <1>1, EncodingInvariant, PTL

\* No normalized number is refused by the wire, and no price the program chose by its
\* own check.
THEOREM NothingRefusedLate == Spec => []NeverRefusedLate
<1>1. EncodingInv => NeverRefusedLate
  <2> SUFFICES ASSUME EncodingInv PROVE NormalizedFits /\ OutcomeMarketPriced
    BY DEF NeverRefusedLate
  <2>1. NormalizedFits
    <3>1. ASSUME IsOrder PROVE wire.sz # None
      BY <3>1, EncodingAssumption DEF EncodingInv, Sent, SizeNear
    <3>2. ASSUME IsOrder, NEW p \in Priced PROVE p[2] # None
      <4>1. Tradable(p[2], market)
        BY <3>2, PricedSent
      <4> QED BY <4>1, EncodingAssumption DEF Tradable
    <3> QED BY <3>1, <3>2 DEF NormalizedFits
  <2>2. OutcomeMarketPriced
    BY OutcomeNotRefused DEF EncodingInv, OutcomeMarketPriced
  <2> QED BY <2>1, <2>2
<1> QED BY <1>1, EncodingInvariant, PTL

\* A transfer moves what was asked for where it promises to, never more and less than a
\* unit less where it truncates, whatever the token's decimals; and a number written as
\* a decimal is off by the tolerance at most and not refused for less.
THEOREM AmountsHonest == Spec => []AmountsAreHonest
<1>1. EncodingInv => AmountsAreHonest
  BY DEF EncodingInv
<1> QED BY <1>1, EncodingInvariant, PTL
=============================================================================
