--------------------------- MODULE QuoteMathProofs ---------------------------
(***************************************************************************)
(* Proofs about QuoteMath, for all amounts, reserves, prices, fees and     *)
(* units.  Products and quotients of variables are beyond the prover's     *)
(* reach when they come with anything else, so each fact about them is a   *)
(* lemma on integers of its own.                                           *)
(***************************************************************************)
EXTENDS QuoteMath, TLAPS

-----------------------------------------------------------------------------
(* Rounding down and up.                                                   *)

LEMMA ProductOrder ==
  ASSUME NEW a \in Nat, NEW b \in Nat, NEW k \in Nat, a <= b
  PROVE  a * k <= b * k /\ a * k \in Nat /\ b * k \in Nat
  OBVIOUS

LEMMA ProductCancel ==
  ASSUME NEW a \in Int, NEW b \in Int, NEW n \in Nat \ {0}, a * n < b * n
  PROVE  a < b
  OBVIOUS

LEMMA DivFacts ==
  ASSUME NEW a \in Nat, NEW n \in Nat \ {0}
  PROVE  /\ a \div n \in Nat
         /\ (a \div n) * n <= a
         /\ a < (a \div n) * n + n
  OBVIOUS

\* The quotient is the greatest number whose product fits.
LEMMA DivIsGreatest ==
  ASSUME NEW a \in Nat, NEW n \in Nat \ {0}, NEW k \in Nat
  PROVE  /\ k * n <= a => k <= a \div n
         /\ a < k * n => a \div n < k
  <1> DEFINE q == a \div n
  <1>1. q \in Nat /\ q * n <= a /\ a < q * n + n
    BY DivFacts
  <1> HIDE DEF q
  <1>2. q * n + n = (q + 1) * n
    BY <1>1
  <1>3. k * n \in Nat /\ q * n \in Nat
    BY <1>1
  <1>4. k * n <= a => k < q + 1
    BY <1>1, <1>2, <1>3, ProductCancel
  <1>5. a < k * n => q < k
    BY <1>1, <1>3, ProductCancel
  <1>6. QED
    BY <1>1, <1>4, <1>5 DEF q

LEMMA DivMonotonic ==
  ASSUME NEW a \in Nat, NEW b \in Nat, NEW n \in Nat \ {0}, a <= b
  PROVE  a \div n <= b \div n
  <1> DEFINE q == a \div n
  <1>1. q \in Nat /\ q * n <= a
    BY DivFacts
  <1> HIDE DEF q
  <1>2. q * n <= b /\ q * n \in Nat
    BY <1>1
  <1>3. q <= b \div n
    BY <1>1, <1>2, DivIsGreatest
  <1>4. QED
    BY <1>3 DEF q

\* Rounding up gives the least number whose product is enough.
LEMMA CeilDivFacts ==
  ASSUME NEW a \in Nat, NEW n \in Nat \ {0}
  PROVE  /\ CeilDiv(a, n) \in Nat
         /\ a <= CeilDiv(a, n) * n
         /\ \A k \in Nat : a <= k * n => CeilDiv(a, n) <= k
  <1> DEFINE up == a + n - 1
             c  == up \div n
  <1>1. up \in Nat
    OBVIOUS
  <1>2. c \in Nat /\ up < c * n + n
    BY <1>1, DivFacts
  <1>3. ASSUME NEW k \in Nat, a <= k * n
        PROVE  c <= k
    <2>1. k + 1 \in Nat /\ (k + 1) * n = k * n + n
      OBVIOUS
    <2>2. k * n \in Nat
      OBVIOUS
    <2>3. up < (k + 1) * n
      BY <1>3, <2>1, <2>2
    <2>4. c < k + 1
      BY <1>1, <2>1, <2>3, DivIsGreatest
    <2>5. QED
      BY <1>2, <2>4
  <1>4. a <= c * n
    <2>1. c * n \in Nat
      BY <1>2
    <2>2. QED
      BY <1>2, <2>1
  <1>5. QED
    BY <1>2, <1>3, <1>4 DEF CeilDiv

LEMMA CeilDivMonotonic ==
  ASSUME NEW a \in Nat, NEW b \in Nat, NEW n \in Nat \ {0}, a <= b
  PROVE  CeilDiv(a, n) <= CeilDiv(b, n)
  <1>1. a + n - 1 \in Nat /\ b + n - 1 \in Nat /\ a + n - 1 <= b + n - 1
    OBVIOUS
  <1>2. QED
    BY <1>1, DivMonotonic DEF CeilDiv

\* A share of at most the whole, rounded up, is at most the whole.
LEMMA CeilShare ==
  ASSUME NEW a \in Nat, NEW r \in Nat, NEW n \in Nat \ {0}, r <= n
  PROVE  CeilDiv(a * r, n) \in 0..a
  <1>1. a * r \in Nat /\ a * r <= a * n
    BY ProductOrder
  <1>2. QED
    BY <1>1, CeilDivFacts

-----------------------------------------------------------------------------
(* Pump.                                                                   *)

Pools ==
  [base_reserve : Nat, quote_reserve : Nat, virtual : Nat, lp : Nat, protocol : Nat, creator : Nat]

\* Trading fees are charged in parts, each rounded up, and grow with the amount.
LEMMA FeesGrow ==
  ASSUME NEW pool \in Pools, NEW a \in Nat, NEW b \in Nat, a <= b
  PROVE  /\ pump_fees(a, pool) \in Nat /\ pump_fees(b, pool) \in Nat
         /\ pump_fees(a, pool) <= pump_fees(b, pool)
  <1>1. ASSUME NEW r \in Nat
        PROVE  /\ CeilDiv(a * r, Bps) \in Nat /\ CeilDiv(b * r, Bps) \in Nat
               /\ CeilDiv(a * r, Bps) <= CeilDiv(b * r, Bps)
    <2>1. a * r \in Nat /\ b * r \in Nat /\ a * r <= b * r
      BY ProductOrder
    <2>2. Bps \in Nat \ {0}
      BY UnitsAssumption
    <2>3. QED
      BY <2>1, <2>2, CeilDivMonotonic, CeilDivFacts
  <1>2. pool.lp \in Nat /\ pool.protocol \in Nat /\ pool.creator \in Nat
    BY DEF Pools
  <1> DEFINE part(x, r) == CeilDiv(x * r, Bps)
  <1>3. part(a, pool.lp) \in Nat /\ part(b, pool.lp) \in Nat /\ part(a, pool.lp) <= part(b, pool.lp)
    BY <1>1, <1>2
  <1>4. /\ part(a, pool.protocol) \in Nat /\ part(b, pool.protocol) \in Nat
        /\ part(a, pool.protocol) <= part(b, pool.protocol)
    BY <1>1, <1>2
  <1>5. /\ part(a, pool.creator) \in Nat /\ part(b, pool.creator) \in Nat
        /\ part(a, pool.creator) <= part(b, pool.creator)
    BY <1>1, <1>2
  <1>6. \A x : pump_fees(x, pool) = part(x, pool.lp) + part(x, pool.protocol) + part(x, pool.creator)
    BY DEF pump_fees
  <1> HIDE DEF part
  <1>7. QED
    BY <1>3, <1>4, <1>5, <1>6

\* The curve gives less than it has, and the product of the reserves does not fall.
LEMMA CurveFacts ==
  ASSUME NEW x \in Nat \ {0}, NEW y \in Nat \ {0}, NEW d \in Nat
  PROVE  LET out == (x * d) \div (y + d)
         IN  /\ out \in Nat /\ out < x
             /\ (x - out) * (y + d) >= x * y
  <1> DEFINE out == (x * d) \div (y + d)
  <1>1. x * d \in Nat /\ x * y \in Nat /\ x * y > 0 /\ y + d \in Nat \ {0}
    OBVIOUS
  <1>2. out \in Nat /\ out * (y + d) <= x * d
    BY <1>1, DivFacts
  <1> HIDE DEF out
  <1>3. x * (y + d) = x * y + x * d
    OBVIOUS
  <1>4. out * (y + d) \in Nat /\ x * (y + d) \in Nat
    BY <1>2
  <1>5. out * (y + d) < x * (y + d)
    BY <1>1, <1>2, <1>3, <1>4
  <1>6. out < x
    BY <1>1, <1>2, <1>5, ProductCancel
  <1>7. (x - out) * (y + d) = x * (y + d) - out * (y + d)
    BY <1>2
  <1>8. (x - out) * (y + d) >= x * y
    BY <1>1, <1>2, <1>3, <1>4, <1>7
  <1>9. QED
    BY <1>2, <1>6, <1>8 DEF out

\* pump_buy_exact_quote_in() finds, from an estimate that may be too high, an
\* effective amount that is paid for together with its fees: the buyer is never
\* charged more than quote_in.  What the pool gives is less than it has, and the
\* product of its reserves does not fall.
THEOREM BuyIsPaidFor ==
  ASSUME NEW pool \in Pools, NEW quote_in \in Nat,
         pump_buy_exact_quote_in(quote_in, pool).ok
  PROVE  LET quote     == pump_buy_exact_quote_in(quote_in, pool)
             effective == quote_in - quote.fee
             reserve   == pool.quote_reserve + pool.virtual
         IN  /\ effective \in 1..quote_in
             /\ effective + pump_fees(effective, pool) <= quote_in
             /\ quote.amount_out \in Nat /\ quote.amount_out < pool.base_reserve
             /\ (pool.base_reserve - quote.amount_out) * (reserve + effective - 1)
                   >= pool.base_reserve * reserve
  <1> DEFINE rates       == pool.lp + pool.protocol + pool.creator
             first       == (quote_in * Bps) \div (Bps + pool.lp + pool.protocol + pool.creator)
             excess      == first + pump_fees(first, pool) - quote_in
             effective   == IF excess > 0 THEN first - excess ELSE first
             curve_input == effective - 1
             reserve     == pool.quote_reserve + pool.virtual
             out         == (pool.base_reserve * curve_input) \div (reserve + curve_input)
             quote       == pump_buy_exact_quote_in(quote_in, pool)
  <1>1. /\ pool.base_reserve \in Nat /\ pool.quote_reserve \in Nat /\ pool.virtual \in Nat
        /\ pool.lp \in Nat /\ pool.protocol \in Nat /\ pool.creator \in Nat
    BY DEF Pools
  <1>2. Bps \in Nat \ {0}
    BY UnitsAssumption
  <1>3. first \in Nat /\ first <= quote_in
    <2>1. quote_in * Bps \in Nat /\ Bps + pool.lp + pool.protocol + pool.creator \in Nat \ {0}
      BY <1>1, <1>2
    <2>2. first \in Nat
      BY <2>1, DivFacts
    <2>3. quote_in * Bps < (quote_in + 1) * (Bps + pool.lp + pool.protocol + pool.creator)
      <3>1. rates \in Nat
        BY <1>1
      <3>2. (quote_in + 1) * (Bps + rates) = quote_in * Bps + Bps + (quote_in + 1) * rates
        BY <1>2, <3>1
      <3>3. (quote_in + 1) * rates \in Nat /\ quote_in * Bps \in Nat
        BY <1>2, <3>1
      <3>4. Bps + rates = Bps + pool.lp + pool.protocol + pool.creator
        BY <1>1, <1>2
      <3>5. QED
        BY <1>2, <3>2, <3>3, <3>4
    <2>4. first < quote_in + 1
      BY <2>1, <2>3, DivIsGreatest
    <2>5. QED
      BY <2>2, <2>4
  <1> HIDE DEF first, rates
  <1>4. /\ quote_in # 0 /\ pool.base_reserve # 0 /\ pool.quote_reserve # 0
        /\ ~(curve_input < 0)
        /\ quote = Quote(quote_in, out, quote_in - effective)
    BY DEF pump_buy_exact_quote_in, NoQuote, first
  <1>5. quote.amount_out = out /\ quote.fee = quote_in - effective
    BY <1>4 DEF Quote
  <1>6. pump_fees(first, pool) \in Nat
    BY <1>3, FeesGrow
  <1>7. effective \in Int /\ effective <= first
    BY <1>3, <1>6
  <1>8. effective \in 1..quote_in
    BY <1>3, <1>4, <1>7
  <1>9. effective + pump_fees(effective, pool) <= quote_in
    <2>1. pump_fees(effective, pool) <= pump_fees(first, pool) /\ pump_fees(effective, pool) \in Nat
      BY <1>3, <1>7, <1>8, FeesGrow
    <2>2. QED
      BY <1>3, <1>6, <2>1
  <1> HIDE DEF effective
  <1>10. /\ out \in Nat /\ out < pool.base_reserve
         /\ (pool.base_reserve - out) * (reserve + curve_input) >= pool.base_reserve * reserve
    <2>1. curve_input \in Nat /\ reserve \in Nat \ {0} /\ pool.base_reserve \in Nat \ {0}
      BY <1>1, <1>4, <1>8
    <2> HIDE DEF curve_input, reserve
    <2>2. QED
      BY <2>1, CurveFacts
  <1>11. reserve + curve_input = reserve + effective - 1
    BY <1>1, <1>8
  <1>12. quote_in - quote.fee = effective
    BY <1>5, <1>8
  <1> HIDE DEF out, quote, reserve, curve_input
  <1>13. QED
    BY <1>5, <1>8, <1>9, <1>10, <1>11, <1>12 DEF quote, reserve

-----------------------------------------------------------------------------
(* A larger input to pump_buy_exact_quote_in().                            *)

TotalRate(pool) == pool.lp + pool.protocol + pool.creator

\* The estimate, and the effective amount that it is corrected to.
FirstOf(quote_in, pool) == (quote_in * Bps) \div (Bps + TotalRate(pool))

EffectiveOf(quote_in, pool) ==
  LET first  == FirstOf(quote_in, pool)
      excess == first + pump_fees(first, pool) - quote_in
  IN  IF excess > 0 THEN first - excess ELSE first

LEMMA CeilDivIsClose ==
  ASSUME NEW a \in Nat, NEW n \in Nat \ {0}
  PROVE  CeilDiv(a, n) \in Nat /\ CeilDiv(a, n) * n < a + n
  <1> DEFINE c == CeilDiv(a, n)
  <1>1. c \in Nat /\ \A k \in Nat : a <= k * n => c <= k
    BY CeilDivFacts
  <1> HIDE DEF c
  <1>2. CASE c = 0
    <2>1. c * n = 0
      BY <1>2
    <2>2. c * n < a + n
      BY <2>1
    <2>3. QED
      BY <1>1, <2>2 DEF c
  <1>3. CASE c # 0
    <2>1. c - 1 \in Nat /\ ~(c <= c - 1)
      BY <1>1, <1>3
    <2>2. ~(a <= (c - 1) * n)
      BY <1>1, <2>1
    <2>3. (c - 1) * n = c * n - n /\ c * n \in Nat
      BY <1>1, <1>3
    <2>4. c * n < a + n
      BY <2>2, <2>3
    <2>5. QED
      BY <1>1, <2>4 DEF c
  <1>4. QED
    BY <1>2, <1>3

\* The estimate is the greatest amount that the input pays with fees that are not
\* rounded; rounding the three of them up takes off at most two units.
LEMMA EffectiveIsClose ==
  ASSUME NEW pool \in Pools, NEW quote_in \in Nat
  PROVE  LET first == FirstOf(quote_in, pool)
         IN  /\ first \in Nat
             /\ first * (Bps + TotalRate(pool)) <= quote_in * Bps
             /\ \A k \in Nat : k * (Bps + TotalRate(pool)) <= quote_in * Bps => k <= first
             /\ EffectiveOf(quote_in, pool) \in (first - 2)..first
  <1> DEFINE first   == FirstOf(quote_in, pool)
             part(r) == CeilDiv(first * r, Bps)
             fees    == pump_fees(first, pool)
             rate    == TotalRate(pool)
  <1>1. /\ pool.lp \in Nat /\ pool.protocol \in Nat /\ pool.creator \in Nat
        /\ Bps \in Nat \ {0}
    BY UnitsAssumption DEF Pools
  <1>2. rate \in Nat /\ quote_in * Bps \in Nat /\ Bps + rate \in Nat \ {0}
    BY <1>1 DEF TotalRate
  <1>3. /\ first \in Nat /\ first * (Bps + rate) <= quote_in * Bps
        /\ \A k \in Nat : k * (Bps + rate) <= quote_in * Bps => k <= first
    <2> HIDE DEF rate
    <2>1. QED
      BY <1>2, DivFacts, DivIsGreatest DEF FirstOf, rate
  <1> HIDE DEF first
  <1>4. \A r \in Nat : part(r) \in Nat /\ part(r) * Bps < first * r + Bps /\ first * r \in Nat
    <2>1. ASSUME NEW r \in Nat
          PROVE  part(r) \in Nat /\ part(r) * Bps < first * r + Bps /\ first * r \in Nat
      <3>1. first * r \in Nat
        BY <1>3
      <3>2. QED
        BY <1>1, <3>1, CeilDivIsClose
    <2>2. QED
      BY <2>1
  <1>5. fees = part(pool.lp) + part(pool.protocol) + part(pool.creator)
    BY DEF pump_fees
  <1> HIDE DEF part
  <1>6. fees \in Nat /\ fees * Bps < first * rate + 3 * Bps
    <2> DEFINE a == part(pool.lp)
               b == part(pool.protocol)
               c == part(pool.creator)
               x == first * pool.lp
               y == first * pool.protocol
               z == first * pool.creator
    <2>1. /\ a \in Nat /\ b \in Nat /\ c \in Nat /\ x \in Nat /\ y \in Nat /\ z \in Nat
          /\ a * Bps < x + Bps /\ b * Bps < y + Bps /\ c * Bps < z + Bps
      BY <1>1, <1>4
    <2>2. first * rate = x + y + z
      BY <1>1, <1>3 DEF TotalRate
    <2> HIDE DEF a, b, c, x, y, z
    <2>3. (a + b + c) * Bps = a * Bps + b * Bps + c * Bps
      BY <1>1, <2>1
    <2>4. a * Bps \in Nat /\ b * Bps \in Nat /\ c * Bps \in Nat
      BY <1>1, <2>1
    <2>5. fees = a + b + c
      BY <1>5 DEF a, b, c
    <2>6. QED
      BY <1>1, <2>1, <2>2, <2>3, <2>4, <2>5
  <1> HIDE DEF fees, rate
  <1>7. first + fees <= quote_in + 2
    <2>1. first * (Bps + rate) = first * Bps + first * rate
      BY <1>1, <1>2, <1>3
    <2>2. /\ (first + fees) * Bps = first * Bps + fees * Bps
          /\ (quote_in + 3) * Bps = quote_in * Bps + 3 * Bps
      BY <1>1, <1>3, <1>6
    <2>3. first * Bps \in Nat /\ first * rate \in Nat /\ fees * Bps \in Nat
      BY <1>1, <1>2, <1>3, <1>6
    <2>4. (first + fees) * Bps < (quote_in + 3) * Bps
      BY <1>1, <1>2, <1>3, <1>6, <2>1, <2>2, <2>3
    <2>5. first + fees < quote_in + 3
      BY <1>1, <1>3, <1>6, <2>4, ProductCancel
    <2>6. QED
      BY <1>3, <1>6, <2>5
  <1>8. EffectiveOf(quote_in, pool) \in (first - 2)..first
    <2>1. EffectiveOf(quote_in, pool)
            = IF first + fees - quote_in > 0 THEN first - (first + fees - quote_in) ELSE first
      BY DEF EffectiveOf, first, fees
    <2>2. QED
      BY <1>3, <1>6, <1>7, <2>1
  <1>9. QED
    BY <1>3, <1>8 DEF first, rate

LEMMA BuyForm ==
  ASSUME NEW pool \in Pools, NEW quote_in \in Nat
  PROVE  LET quote       == pump_buy_exact_quote_in(quote_in, pool)
             curve_input == EffectiveOf(quote_in, pool) - 1
             reserve     == pool.quote_reserve + pool.virtual
         IN  /\ quote.ok <=> /\ quote_in # 0 /\ pool.base_reserve # 0 /\ pool.quote_reserve # 0
                             /\ ~(curve_input < 0)
             /\ quote.ok => quote.amount_out
                              = (pool.base_reserve * curve_input) \div (reserve + curve_input)
  <1> DEFINE first     == (quote_in * Bps) \div (Bps + pool.lp + pool.protocol + pool.creator)
             effective == EffectiveOf(quote_in, pool)
             excess    == first + pump_fees(first, pool) - quote_in
  <1>1. Bps + TotalRate(pool) = Bps + pool.lp + pool.protocol + pool.creator
    BY UnitsAssumption DEF TotalRate, Pools
  <1>2. first = FirstOf(quote_in, pool)
    BY <1>1 DEF FirstOf
  <1>3. effective = IF excess > 0 THEN first - excess ELSE first
    <2> HIDE DEF first
    <2>1. QED
      BY <1>2 DEF EffectiveOf
  <1> HIDE DEF effective
  <1>4. pump_buy_exact_quote_in(quote_in, pool)
          = IF \/ quote_in = 0 \/ pool.base_reserve = 0 \/ pool.quote_reserve = 0
               \/ effective - 1 < 0
              THEN NoQuote
              ELSE Quote(quote_in,
                         (pool.base_reserve * (effective - 1))
                           \div (pool.quote_reserve + pool.virtual + (effective - 1)),
                         quote_in - effective)
    <2> HIDE DEF first
    <2>1. QED
      BY <1>3 DEF pump_buy_exact_quote_in, first
  <1>5. QED
    BY <1>4 DEF NoQuote, Quote, effective

\* The curve gives no less for more.
LEMMA CurveGrows ==
  ASSUME NEW x \in Nat \ {0}, NEW y \in Nat \ {0}, NEW d \in Nat, NEW e \in Nat, d <= e
  PROVE  (x * d) \div (y + d) <= (x * e) \div (y + e)
  <1> DEFINE out == (x * d) \div (y + d)
  <1>1. x * d \in Nat /\ x * e \in Nat /\ y + d \in Nat \ {0} /\ y + e \in Nat \ {0}
    OBVIOUS
  <1>2. out \in Nat /\ out < x /\ out * (y + d) <= x * d
    BY <1>1, CurveFacts, DivFacts
  <1> HIDE DEF out
  <1>3. out * (e - d) <= x * (e - d)
    BY <1>2, ProductOrder
  <1>4. out * (y + e) = out * (y + d) + out * (e - d) /\ x * e = x * d + x * (e - d)
    BY <1>2
  <1>5. /\ out * (y + d) \in Int /\ out * (e - d) \in Int /\ x * (e - d) \in Int
    BY <1>2
  <1>6. out * (y + e) <= x * e
    BY <1>1, <1>2, <1>3, <1>4, <1>5
  <1>7. out <= (x * e) \div (y + e)
    BY <1>1, <1>2, <1>6, DivIsGreatest
  <1>8. QED
    BY <1>7 DEF out

\* Fees of at most a third leave something of four units.
LEMMA BuyIsAnswered ==
  ASSUME NEW pool \in Pools, NEW quote_in \in Nat, quote_in >= 4, 3 * TotalRate(pool) <= Bps,
         pool.base_reserve # 0, pool.quote_reserve # 0
  PROVE  pump_buy_exact_quote_in(quote_in, pool).ok
  <1> DEFINE first == FirstOf(quote_in, pool)
             rate  == TotalRate(pool)
  <1>1. /\ first \in Nat /\ EffectiveOf(quote_in, pool) \in (first - 2)..first
        /\ \A k \in Nat : k * (Bps + rate) <= quote_in * Bps => k <= first
    BY EffectiveIsClose
  <1>2. Bps \in Nat /\ rate \in Nat
    BY UnitsAssumption DEF TotalRate, Pools
  <1> HIDE DEF first, rate
  <1>3. 4 * Bps <= quote_in * Bps
    BY <1>2, ProductOrder
  <1>4. 3 * (Bps + rate) <= quote_in * Bps
    <2>1. 3 * rate <= Bps
      BY DEF rate
    <2>2. quote_in * Bps \in Nat
      BY <1>2
    <2>3. QED
      BY <1>2, <1>3, <2>1, <2>2
  <1>5. 3 <= first
    BY <1>1, <1>4
  <1>6. EffectiveOf(quote_in, pool) \in Int /\ EffectiveOf(quote_in, pool) >= 1
    BY <1>1, <1>5
  <1>7. QED
    BY <1>6, BuyForm

\* Three units more are bought with no less, when the fees are at most a half.
THEOREM BuyNearlyRises ==
  ASSUME NEW pool \in Pools, NEW less \in Nat, NEW more \in Nat, less + 3 <= more,
         2 * TotalRate(pool) <= Bps, pump_buy_exact_quote_in(less, pool).ok
  PROVE  /\ pump_buy_exact_quote_in(more, pool).ok
         /\ pump_buy_exact_quote_in(less, pool).amount_out
              <= pump_buy_exact_quote_in(more, pool).amount_out
  <1> DEFINE first  == FirstOf(less, pool)
             second == FirstOf(more, pool)
             rate   == TotalRate(pool)
             d      == EffectiveOf(less, pool) - 1
             e      == EffectiveOf(more, pool) - 1
             x      == pool.base_reserve
             y      == pool.quote_reserve + pool.virtual
  <1>1. /\ first \in Nat /\ d + 1 \in (first - 2)..first /\ first * (Bps + rate) <= less * Bps
        /\ second \in Nat /\ e + 1 \in (second - 2)..second
        /\ \A k \in Nat : k * (Bps + rate) <= more * Bps => k <= second
    <2>1. /\ EffectiveOf(less, pool) \in (first - 2)..first
          /\ EffectiveOf(more, pool) \in (second - 2)..second
          /\ first \in Nat /\ second \in Nat
      BY EffectiveIsClose
    <2> HIDE DEF first, second
    <2>2. /\ d + 1 = EffectiveOf(less, pool) /\ e + 1 = EffectiveOf(more, pool)
      BY <2>1
    <2>3. /\ first * (Bps + rate) <= less * Bps
          /\ \A k \in Nat : k * (Bps + rate) <= more * Bps => k <= second
      BY EffectiveIsClose DEF first, second
    <2>4. QED
      BY <2>1, <2>2, <2>3
  <1>2. Bps \in Nat \ {0} /\ rate \in Nat /\ 2 * rate <= Bps
    BY UnitsAssumption DEF TotalRate, Pools
  <1>3. /\ x \in Nat /\ pool.quote_reserve \in Nat /\ pool.virtual \in Nat
    BY DEF Pools
  <1> HIDE DEF first, second, rate
  <1>4. first + 2 <= second
    <2>1. (first + 2) * (Bps + rate) = first * (Bps + rate) + 2 * Bps + 2 * rate
      BY <1>1, <1>2
    <2>2. (less + 3) * Bps <= more * Bps /\ (less + 3) * Bps = less * Bps + 3 * Bps
      BY <1>2, ProductOrder
    <2>3. first * (Bps + rate) \in Nat /\ less * Bps \in Nat /\ more * Bps \in Nat
      BY <1>1, <1>2
    <2>4. (first + 2) * (Bps + rate) <= more * Bps
      BY <1>1, <1>2, <2>1, <2>2, <2>3
    <2>5. QED
      BY <1>1, <2>4
  <1>5. /\ less # 0 /\ x # 0 /\ pool.quote_reserve # 0 /\ ~(d < 0)
        /\ pump_buy_exact_quote_in(less, pool).amount_out = (x * d) \div (y + d)
    BY BuyForm
  <1>6. d \in Int /\ e \in Int /\ d <= e /\ d >= 0
    <2>1. d \in Int /\ e \in Int
      <3>1. EffectiveOf(less, pool) \in Int /\ EffectiveOf(more, pool) \in Int
        BY EffectiveIsClose
      <3>2. QED
        BY <3>1
    <2> HIDE DEF d, e
    <2>2. QED
      BY <1>1, <1>4, <1>5, <2>1
  <1>7. /\ pump_buy_exact_quote_in(more, pool).ok
        /\ pump_buy_exact_quote_in(more, pool).amount_out = (x * e) \div (y + e)
    <2>1. more # 0 /\ ~(e < 0)
      <3> HIDE DEF d, e
      <3>1. QED
        BY <1>6
    <2>2. QED
      BY <1>5, <2>1, BuyForm
  <1>8. x \in Nat \ {0} /\ y \in Nat \ {0} /\ d \in Nat /\ e \in Nat
    <2> HIDE DEF d, e
    <2>1. QED
      BY <1>3, <1>5, <1>6
  <1> HIDE DEF d, e, x, y
  <1>9. (x * d) \div (y + d) <= (x * e) \div (y + e)
    BY <1>6, <1>8, CurveGrows
  <1>10. QED
    BY <1>5, <1>7, <1>9

\* Two units more can be bought with less: three fees are rounded up on their own,
\* and where all of them step at once the effective amount falls.  The comment
\* at dynamic_amount.rs:1111 says "Pump output is monotonic in quote input".  The
\* fees here are 20, 5 and 5 basis points: 2006 leaves an effective 2000, and 2008
\* leaves 1999.
THEOREM BuyDips ==
  Bps = 10000 =>
    \E pool \in Pools, quote_in \in Nat :
      /\ pump_buy_exact_quote_in(quote_in, pool).ok
      /\ pump_buy_exact_quote_in(quote_in + 2, pool).amount_out
           < pump_buy_exact_quote_in(quote_in, pool).amount_out
  <1> SUFFICES ASSUME Bps = 10000
               PROVE  \E pool \in Pools, quote_in \in Nat :
                        /\ pump_buy_exact_quote_in(quote_in, pool).ok
                        /\ pump_buy_exact_quote_in(quote_in + 2, pool).amount_out
                             < pump_buy_exact_quote_in(quote_in, pool).amount_out
    OBVIOUS
  <1> DEFINE million == 1000000
             pool    == [base_reserve |-> million, quote_reserve |-> million, virtual |-> 0,
                         lp |-> 20, protocol |-> 5, creator |-> 5]
  <1>1. /\ pool \in Pools /\ pool.lp = 20 /\ pool.protocol = 5 /\ pool.creator = 5
        /\ pool.base_reserve = million /\ pool.quote_reserve = million /\ pool.virtual = 0
    BY DEF Pools
  <1> HIDE DEF pool
  <1>2. EffectiveOf(2006, pool) = 2000
    <2>1. FirstOf(2006, pool) = 2000
      BY <1>1 DEF FirstOf, TotalRate
    <2>2. pump_fees(2000, pool) = 6
      BY <1>1 DEF pump_fees, CeilDiv
    <2>3. QED
      BY <2>1, <2>2 DEF EffectiveOf
  <1>3. EffectiveOf(2008, pool) = 1999
    <2>1. FirstOf(2008, pool) = 2001
      BY <1>1 DEF FirstOf, TotalRate
    <2>2. pump_fees(2001, pool) = 9
      BY <1>1 DEF pump_fees, CeilDiv
    <2>3. QED
      BY <2>1, <2>2 DEF EffectiveOf
  <1>4. /\ pump_buy_exact_quote_in(2006, pool).ok
        /\ pump_buy_exact_quote_in(2006, pool).amount_out = 1995
    <2>1. (million * 1999) \div (million + 0 + 1999) = 1995
      OBVIOUS
    <2> HIDE DEF million
    <2>2. QED
      BY <1>1, <1>2, <2>1, BuyForm DEF million
  <1>5. pump_buy_exact_quote_in(2008, pool).amount_out = 1994
    <2>1. (million * 1998) \div (million + 0 + 1998) = 1994
      OBVIOUS
    <2> HIDE DEF million
    <2>2. QED
      BY <1>1, <1>3, <2>1, BuyForm DEF million
  <1>6. QED
    BY <1>1, <1>4, <1>5

\* pump_sell_base_in() promises no more than the pool owns: the virtual part of
\* its reserve moves the price, and is never paid out.
THEOREM SaleIsCovered ==
  ASSUME NEW pool \in Pools, NEW base_in \in Nat,
         pump_sell_base_in(base_in, pool).ok
  PROVE  LET quote   == pump_sell_base_in(base_in, pool)
             reserve == pool.quote_reserve + pool.virtual
             raw     == quote.amount_out + quote.fee
         IN  /\ quote.amount_out \in 0..U64Max /\ quote.amount_out <= pool.quote_reserve
             /\ quote.fee = pump_fees(raw, pool)
             /\ raw < reserve
             /\ (reserve - raw) * (pool.base_reserve + base_in) >= reserve * pool.base_reserve
  <1> DEFINE reserve == pool.quote_reserve + pool.virtual
             raw     == (reserve * base_in) \div (pool.base_reserve + base_in)
             fee     == pump_fees(raw, pool)
             lp_fee  == CeilDiv(raw * pool.lp, Bps)
             quote   == pump_sell_base_in(base_in, pool)
  <1>1. /\ pool.base_reserve \in Nat /\ pool.quote_reserve \in Nat /\ pool.virtual \in Nat
        /\ pool.lp \in Nat /\ pool.protocol \in Nat /\ pool.creator \in Nat
    BY DEF Pools
  <1>2. /\ pool.base_reserve # 0 /\ pool.quote_reserve # 0
        /\ ~(fee > raw) /\ ~(pool.quote_reserve < raw - lp_fee) /\ ~(raw - fee > U64Max)
        /\ quote = Quote(base_in, raw - fee, fee)
    BY DEF pump_sell_base_in, NoQuote
  <1>3. quote.amount_out = raw - fee /\ quote.fee = fee
    BY <1>2 DEF Quote
  <1>4. /\ raw \in Nat /\ raw < reserve
        /\ (reserve - raw) * (pool.base_reserve + base_in) >= reserve * pool.base_reserve
    <2>1. reserve \in Nat \ {0} /\ pool.base_reserve \in Nat \ {0}
      BY <1>1, <1>2
    <2> HIDE DEF reserve
    <2>2. QED
      BY <2>1, CurveFacts
  <1> HIDE DEF raw
  <1>5. lp_fee \in Nat /\ fee \in Nat /\ lp_fee <= fee
    <2>1. Bps \in Nat \ {0} /\ raw * pool.lp \in Nat /\ raw * pool.protocol \in Nat
          /\ raw * pool.creator \in Nat
      BY <1>1, <1>4, UnitsAssumption
    <2>2. /\ lp_fee \in Nat
          /\ CeilDiv(raw * pool.protocol, Bps) \in Nat /\ CeilDiv(raw * pool.creator, Bps) \in Nat
      BY <2>1, CeilDivFacts
    <2>3. QED
      BY <2>2 DEF pump_fees
  <1> HIDE DEF lp_fee, fee
  <1>6. raw - fee \in Nat /\ raw - fee <= U64Max /\ raw - fee <= pool.quote_reserve
    BY <1>1, <1>2, <1>4, <1>5, WidthAssumption
  <1>7. quote.amount_out + quote.fee = raw
    BY <1>3, <1>4, <1>5
  <1> HIDE DEF quote, reserve
  <1>8. QED
    BY <1>3, <1>4, <1>6, <1>7, WidthAssumption DEF fee, quote, reserve

-----------------------------------------------------------------------------
(* One bin of the DLMM.                                                    *)

Rates == 0..MaxFeeRate

LEMMA RateFacts ==
  ASSUME NEW rate \in Rates
  PROVE  /\ rate \in Nat /\ rate <= FeePrecision
         /\ FeePrecision \in Nat \ {0} /\ FeePrecision - rate \in Nat \ {0}
  BY UnitsAssumption DEF Rates

\* included_fee_amount() is the least input of which that much is left, so the
\* two conversions of the quote agree however they round.
LEMMA FeeGalois ==
  ASSUME NEW rate \in Rates, NEW a \in Nat, NEW left \in Nat
  PROVE  /\ excluded_fee_amount(a, rate) \in 0..a
         /\ included_fee_amount(left, rate) \in Nat
         /\ included_fee_amount(left, rate) <= a <=> left <= excluded_fee_amount(a, rate)
  <1> DEFINE P    == FeePrecision
             kept == P - rate
             fee  == CeilDiv(a * rate, P)
             incl == CeilDiv(left * P, kept)
  <1>1. rate \in Nat /\ rate <= P /\ P \in Nat \ {0} /\ kept \in Nat \ {0}
    BY RateFacts
  <1>2. fee \in 0..a
    BY <1>1, CeilShare
  <1>3. a * rate \in Nat /\ left * P \in Nat /\ a * kept \in Nat /\ a * P \in Nat
    BY <1>1
  <1>4. a * kept = a * P - a * rate
    BY <1>1
  <1> HIDE DEF kept, P
  <1>5. incl \in Nat /\ left * P <= incl * kept /\ (left * P <= a * kept => incl <= a)
    BY <1>1, <1>3, CeilDivFacts
  <1>6. a * rate <= fee * P /\ \A k \in Nat : a * rate <= k * P => fee <= k
    BY <1>1, <1>3, CeilDivFacts
  <1> HIDE DEF fee, incl
  <1>7. ASSUME left <= a - fee
        PROVE  incl <= a
    <2>1. a - fee \in Nat /\ (a - fee) * P = a * P - fee * P /\ fee * P \in Nat
      BY <1>1, <1>2
    <2>2. left * P <= (a - fee) * P
      BY <1>1, <1>7, <2>1, ProductOrder
    <2>3. left * P <= a * kept
      BY <1>3, <1>4, <1>6, <2>1, <2>2
    <2>4. QED
      BY <1>5, <2>3
  <1>8. ASSUME incl <= a
        PROVE  left <= a - fee
    <2>1. incl * kept <= a * kept /\ incl * kept \in Nat
      BY <1>1, <1>5, <1>8, ProductOrder
    <2>2. left * P <= a * P - a * rate
      BY <1>3, <1>4, <1>5, <2>1
    <2>3. left <= a
      <3>1. left * P < (a + 1) * P
        BY <1>1, <1>3, <2>2
      <3>2. left < a + 1
        BY <1>1, <3>1, ProductCancel
      <3>3. QED
        BY <3>2
    <2>4. a - left \in Nat /\ (a - left) * P = a * P - left * P
      BY <1>1, <2>3
    <2>5. a * rate <= (a - left) * P
      BY <1>3, <2>2, <2>4
    <2>6. fee <= a - left
      BY <1>6, <2>4, <2>5
    <2>7. QED
      BY <1>2, <2>6
  <1>9. a - fee \in 0..a
    BY <1>2
  <1>10. QED
    BY <1>5, <1>7, <1>8, <1>9 DEF excluded_fee_amount, included_fee_amount, P, kept, fee, incl

LEMMA ExcludedGrows ==
  ASSUME NEW rate \in Rates, NEW a \in Nat, NEW b \in Nat, a <= b
  PROVE  excluded_fee_amount(a, rate) <= excluded_fee_amount(b, rate)
  <1> DEFINE left == excluded_fee_amount(a, rate)
  <1>1. left \in Nat /\ left <= left
    BY FeeGalois
  <1> HIDE DEF left
  <1>2. included_fee_amount(left, rate) <= a /\ included_fee_amount(left, rate) \in Nat
    BY <1>1, FeeGalois DEF left
  <1>3. included_fee_amount(left, rate) <= b
    BY <1>2
  <1>4. left <= excluded_fee_amount(b, rate)
    BY <1>1, <1>3, FeeGalois
  <1>5. QED
    BY <1>4 DEF left

Bins == [price : Nat \ {0}, x : Nat, y : Nat, open : Nat, processed : Nat, ask : BOOLEAN]

\* The bin and the swap that the rest of this part is about.
Swap(bin, swap_for_y) ==
  /\ bin \in Bins /\ swap_for_y \in BOOLEAN
  /\ ~BinOverflows(bin, swap_for_y)
  /\ max_out(bin, swap_for_y) # 0

Most(bin, swap_for_y) == amount_in_for_out(max_out(bin, swap_for_y), bin.price, swap_for_y)

LEMMA OutputNat ==
  ASSUME NEW bin, NEW swap_for_y, Swap(bin, swap_for_y)
  PROVE  /\ max_out(bin, swap_for_y) \in Nat \ {0}
         /\ bin.price \in Nat \ {0} /\ PriceUnit \in Nat \ {0}
         /\ swap_for_y \in BOOLEAN
  BY UnitsAssumption DEF Swap, Bins, max_out

\* Less input than the bin takes buys less output than it has, and more buys more.
LEMMA InputBuys ==
  ASSUME NEW bin, NEW swap_for_y, Swap(bin, swap_for_y)
  PROVE  /\ Most(bin, swap_for_y) \in Nat
         /\ \A a \in Nat : /\ amount_out_for_in(a, bin.price, swap_for_y) \in Nat
                           /\ a < Most(bin, swap_for_y) =>
                                amount_out_for_in(a, bin.price, swap_for_y)
                                  < max_out(bin, swap_for_y)
         /\ \A a, b \in Nat : a <= b => amount_out_for_in(a, bin.price, swap_for_y)
                                         <= amount_out_for_in(b, bin.price, swap_for_y)
  <1> DEFINE out   == max_out(bin, swap_for_y)
             price == bin.price
  <1>1. out \in Nat /\ price \in Nat \ {0} /\ PriceUnit \in Nat \ {0} /\ swap_for_y \in BOOLEAN
    BY OutputNat
  <1> HIDE DEF out, price
  <1>2. ASSUME NEW m \in Nat \ {0}, NEW n \in Nat \ {0}
        PROVE  /\ CeilDiv(out * m, n) \in Nat
               /\ \A a \in Nat : /\ (a * n) \div m \in Nat
                                 /\ a < CeilDiv(out * m, n) => (a * n) \div m < out
               /\ \A a, b \in Nat : a <= b => (a * n) \div m <= (b * n) \div m
    <2>1. out * m \in Nat
      BY <1>1
    <2>2. \A a \in Nat : a * n \in Nat
      OBVIOUS
    <2>3. CeilDiv(out * m, n) \in Nat /\ \A k \in Nat : out * m <= k * n => CeilDiv(out * m, n) <= k
      BY <2>1, CeilDivFacts
    <2>4. ASSUME NEW a \in Nat
          PROVE  (a * n) \div m \in Nat
      BY <2>2, DivFacts
    <2>5. ASSUME NEW a \in Nat, a < CeilDiv(out * m, n)
          PROVE  (a * n) \div m < out
      <3>1. a * n < out * m
        BY <2>1, <2>2, <2>3, <2>5
      <3>2. QED
        BY <1>1, <2>2, <3>1, DivIsGreatest
    <2>6. ASSUME NEW a \in Nat, NEW b \in Nat, a <= b
          PROVE  (a * n) \div m <= (b * n) \div m
      <3>1. a * n <= b * n /\ a * n \in Nat /\ b * n \in Nat
        BY <2>6, ProductOrder
      <3>2. QED
        BY <3>1, DivMonotonic
    <2>7. QED
      BY <2>3, <2>4, <2>5, <2>6
  <1>3. CASE swap_for_y
    BY <1>1, <1>2, <1>3 DEF Most, amount_in_for_out, amount_out_for_in, out, price
  <1>4. CASE ~swap_for_y
    BY <1>1, <1>2, <1>4 DEF Most, amount_in_for_out, amount_out_for_in, out, price
  <1>5. QED
    BY <1>3, <1>4

\* The parts of dlmm_quote_exact_in_partial(), for an input of amount_in.
Available(amount_in, foi, rate) ==
  IF foi THEN excluded_fee_amount(amount_in, rate) ELSE amount_in

Consumed(amount_in, bin, swap_for_y, foi, rate) ==
  Least(Available(amount_in, foi, rate), Most(bin, swap_for_y))

RawOut(amount_in, bin, swap_for_y, foi, rate) ==
  IF Consumed(amount_in, bin, swap_for_y, foi, rate) = Most(bin, swap_for_y)
    THEN max_out(bin, swap_for_y)
    ELSE amount_out_for_in(Consumed(amount_in, bin, swap_for_y, foi, rate), bin.price, swap_for_y)

Gross(amount_in, bin, swap_for_y, foi, rate) ==
  IF Consumed(amount_in, bin, swap_for_y, foi, rate) = Available(amount_in, foi, rate)
    THEN amount_in
    ELSE included_fee_amount(Consumed(amount_in, bin, swap_for_y, foi, rate), rate)

LEMMA PartFacts ==
  ASSUME NEW bin, NEW swap_for_y, Swap(bin, swap_for_y),
         NEW foi \in BOOLEAN, NEW rate \in Rates, NEW amount_in \in Nat
  PROVE  LET available == Available(amount_in, foi, rate)
             used      == Consumed(amount_in, bin, swap_for_y, foi, rate)
             raw_out   == RawOut(amount_in, bin, swap_for_y, foi, rate)
             most      == Most(bin, swap_for_y)
         IN  /\ available \in 0..amount_in /\ most \in Nat
             /\ used \in Nat /\ used <= available /\ used <= most
             /\ used = available \/ used = most
             /\ raw_out \in 0..max_out(bin, swap_for_y)
             /\ raw_out = max_out(bin, swap_for_y) <=> used = most
             /\ foi => Gross(amount_in, bin, swap_for_y, foi, rate) \in 0..amount_in
  <1> DEFINE available == Available(amount_in, foi, rate)
             used      == Consumed(amount_in, bin, swap_for_y, foi, rate)
             raw_out   == RawOut(amount_in, bin, swap_for_y, foi, rate)
             most      == Most(bin, swap_for_y)
             out       == max_out(bin, swap_for_y)
             gross     == Gross(amount_in, bin, swap_for_y, foi, rate)
  <1>1. available \in 0..amount_in
    BY FeeGalois DEF Available
  <1>2. most \in Nat /\ out \in Nat
    BY InputBuys, OutputNat
  <1>3. used = IF available < most THEN available ELSE most
    BY DEF Consumed, Least
  <1>4. raw_out = IF used = most THEN out ELSE amount_out_for_in(used, bin.price, swap_for_y)
    BY DEF RawOut
  <1>5. gross = IF used = available THEN amount_in ELSE included_fee_amount(used, rate)
    BY DEF Gross
  <1> HIDE DEF used, raw_out, gross
  <1>6. /\ used \in Nat /\ used <= available /\ used <= most
        /\ used = available \/ used = most
    <2> HIDE DEF available, most
    <2>1. QED
      BY <1>1, <1>2, <1>3
  <1>7. used # most => /\ amount_out_for_in(used, bin.price, swap_for_y) \in Nat
                       /\ amount_out_for_in(used, bin.price, swap_for_y) < out
    <2>1. used < most => /\ amount_out_for_in(used, bin.price, swap_for_y) \in Nat
                         /\ amount_out_for_in(used, bin.price, swap_for_y) < out
      BY <1>6, InputBuys
    <2>2. used # most => used < most
      <3> HIDE DEF most
      <3>1. QED
        BY <1>2, <1>6
    <2>3. QED
      BY <2>1, <2>2
  <1>8. raw_out \in 0..out /\ (raw_out = out <=> used = most)
    <2> HIDE DEF out, most
    <2>1. CASE used = most
      BY <1>2, <1>4, <2>1
    <2>2. CASE used # most
      BY <1>2, <1>4, <1>7, <2>2
    <2>3. QED
      BY <2>1, <2>2
  <1>9. ASSUME foi
        PROVE  gross \in 0..amount_in
    <2>1. available = excluded_fee_amount(amount_in, rate)
      BY <1>9 DEF Available
    <2>2. used <= excluded_fee_amount(amount_in, rate)
      BY <1>6, <2>1
    <2>3. included_fee_amount(used, rate) \in Nat /\ included_fee_amount(used, rate) <= amount_in
      BY <1>6, <2>2, FeeGalois
    <2>4. QED
      BY <1>5, <2>3
  <1>10. QED
    BY <1>1, <1>2, <1>6, <1>8, <1>9 DEF used, raw_out, gross

\* The quote, from its parts.
LEMMA PartialForm ==
  ASSUME NEW bin, NEW swap_for_y, Swap(bin, swap_for_y),
         NEW foi \in BOOLEAN, NEW rate \in Rates, NEW amount_in \in Nat \ {0}
  PROVE  dlmm_quote_exact_in_partial(amount_in, bin, swap_for_y, foi, rate) =
           IF foi
             THEN Quote(Gross(amount_in, bin, swap_for_y, foi, rate),
                        RawOut(amount_in, bin, swap_for_y, foi, rate),
                        Gross(amount_in, bin, swap_for_y, foi, rate)
                          - Consumed(amount_in, bin, swap_for_y, foi, rate))
             ELSE Quote(Consumed(amount_in, bin, swap_for_y, foi, rate),
                        excluded_fee_amount(RawOut(amount_in, bin, swap_for_y, foi, rate), rate),
                        RawOut(amount_in, bin, swap_for_y, foi, rate)
                          - excluded_fee_amount(RawOut(amount_in, bin, swap_for_y, foi, rate), rate))
  <1> DEFINE used    == Consumed(amount_in, bin, swap_for_y, foi, rate)
             raw_out == RawOut(amount_in, bin, swap_for_y, foi, rate)
             gross   == Gross(amount_in, bin, swap_for_y, foi, rate)
  <1>1. max_out(bin, swap_for_y) # 0 /\ ~BinOverflows(bin, swap_for_y) /\ amount_in # 0
    BY DEF Swap
  <1>2. dlmm_quote_exact_in_partial(amount_in, bin, swap_for_y, foi, rate) =
          IF foi
            THEN IF gross > amount_in THEN NoQuote ELSE Quote(gross, raw_out, gross - used)
            ELSE Quote(used, excluded_fee_amount(raw_out, rate),
                       raw_out - excluded_fee_amount(raw_out, rate))
    BY <1>1 DEF dlmm_quote_exact_in_partial, Gross, RawOut, Consumed, Available, Most
  <1>3. foi => gross \in 0..amount_in
    BY PartFacts
  <1> HIDE DEF raw_out, gross, used
  <1>4. foi => ~(gross > amount_in)
    BY <1>3
  <1>5. QED
    BY <1>2, <1>4 DEF raw_out, gross, used

LEMMA InputFeeForm ==
  ASSUME NEW bin, NEW swap_for_y, Swap(bin, swap_for_y), NEW rate \in Rates,
         NEW amount_in \in Nat \ {0}
  PROVE  LET quote == dlmm_quote_exact_in_partial(amount_in, bin, swap_for_y, TRUE, rate)
         IN  /\ quote.ok
             /\ quote.amount_in = Gross(amount_in, bin, swap_for_y, TRUE, rate)
             /\ quote.amount_out = RawOut(amount_in, bin, swap_for_y, TRUE, rate)
  <1> DEFINE used    == Consumed(amount_in, bin, swap_for_y, TRUE, rate)
             raw_out == RawOut(amount_in, bin, swap_for_y, TRUE, rate)
             gross   == Gross(amount_in, bin, swap_for_y, TRUE, rate)
             quote   == dlmm_quote_exact_in_partial(amount_in, bin, swap_for_y, TRUE, rate)
  <1>1. TRUE \in BOOLEAN
    OBVIOUS
  <1>2. quote = IF TRUE THEN Quote(gross, raw_out, gross - used)
                        ELSE Quote(used, excluded_fee_amount(raw_out, rate),
                                   raw_out - excluded_fee_amount(raw_out, rate))
    BY <1>1, PartialForm, Zenon
  <1> HIDE DEF used, raw_out, gross, quote
  <1>3. quote = Quote(gross, raw_out, gross - used)
    BY <1>2
  <1>4. quote.ok /\ quote.amount_in = gross /\ quote.amount_out = raw_out
    BY <1>3 DEF Quote
  <1>5. QED
    BY <1>4 DEF raw_out, gross, quote

LEMMA OutputFeeForm ==
  ASSUME NEW bin, NEW swap_for_y, Swap(bin, swap_for_y), NEW rate \in Rates,
         NEW amount_in \in Nat \ {0}
  PROVE  LET quote   == dlmm_quote_exact_in_partial(amount_in, bin, swap_for_y, FALSE, rate)
             raw_out == RawOut(amount_in, bin, swap_for_y, FALSE, rate)
         IN  /\ quote.ok
             /\ quote.amount_in = Consumed(amount_in, bin, swap_for_y, FALSE, rate)
             /\ quote.amount_out = excluded_fee_amount(raw_out, rate)
             /\ quote.amount_out + quote.fee = raw_out
  <1> DEFINE raw_out == RawOut(amount_in, bin, swap_for_y, FALSE, rate)
             used    == Consumed(amount_in, bin, swap_for_y, FALSE, rate)
             quote   == dlmm_quote_exact_in_partial(amount_in, bin, swap_for_y, FALSE, rate)
             after   == excluded_fee_amount(raw_out, rate)
             gross   == Gross(amount_in, bin, swap_for_y, FALSE, rate)
  <1>0. FALSE \in BOOLEAN
    OBVIOUS
  <1>1. quote = IF FALSE THEN Quote(gross, raw_out, gross - used)
                         ELSE Quote(used, after, raw_out - after)
    BY <1>0, PartialForm, Zenon
  <1>2. raw_out \in Nat
    <2> DEFINE out == max_out(bin, swap_for_y)
    <2>1. raw_out \in 0..out
      BY <1>0, PartFacts, Zenon
    <2>2. out \in Nat
      BY OutputNat
    <2> HIDE DEF raw_out, out
    <2>3. QED
      BY <2>1, <2>2
  <1> HIDE DEF raw_out, used, quote
  <1>3. after \in 0..raw_out
    BY <1>2, FeeGalois
  <1> HIDE DEF after
  <1>4. quote.ok /\ quote.amount_in = used /\ quote.amount_out = after /\ quote.fee = raw_out - after
    BY <1>1 DEF Quote
  <1>5. quote.amount_out + quote.fee = raw_out
    BY <1>2, <1>3, <1>4
  <1>6. QED
    BY <1>4, <1>5 DEF raw_out, used, quote, after

\* A bin that has something to give, and whose amounts fit their types, is always
\* quoted: what it takes with its fee is within the input, so the refusal of a
\* gross amount above it is dead code.  Nor does it give more than it has, and
\* input is left over only of a bin that is empty afterwards.
THEOREM BinIsQuoted ==
  ASSUME NEW bin, NEW swap_for_y, Swap(bin, swap_for_y),
         NEW foi \in BOOLEAN, NEW rate \in Rates, NEW amount_in \in Nat \ {0}
  PROVE  LET quote == dlmm_quote_exact_in_partial(amount_in, bin, swap_for_y, foi, rate)
             given == IF foi THEN quote.amount_out ELSE quote.amount_out + quote.fee
         IN  /\ quote.ok
             /\ quote.amount_in \in 0..amount_in
             /\ given \in 0..max_out(bin, swap_for_y)
             /\ quote.amount_in < amount_in => given = max_out(bin, swap_for_y)
  <1> DEFINE out == max_out(bin, swap_for_y)
  <1>1. CASE foi = TRUE
    <2> DEFINE available == Available(amount_in, TRUE, rate)
               used      == Consumed(amount_in, bin, swap_for_y, TRUE, rate)
               raw_out   == RawOut(amount_in, bin, swap_for_y, TRUE, rate)
               gross     == Gross(amount_in, bin, swap_for_y, TRUE, rate)
               most      == Most(bin, swap_for_y)
               quote     == dlmm_quote_exact_in_partial(amount_in, bin, swap_for_y, TRUE, rate)
    <2>1. quote.ok /\ quote.amount_in = gross /\ quote.amount_out = raw_out
      BY InputFeeForm
    <2>2. /\ used = available \/ used = most
          /\ raw_out \in 0..out /\ (raw_out = out <=> used = most)
          /\ gross \in 0..amount_in
      BY PartFacts
    <2>3. used = available => gross = amount_in
      BY DEF Gross
    <2> HIDE DEF quote, used, available, most, raw_out, gross, out
    <2>4. quote.amount_in < amount_in => quote.amount_out = out
      BY <2>1, <2>2, <2>3
    <2>5. QED
      BY <1>1, <2>1, <2>2, <2>4 DEF quote, out
  <1>2. CASE foi = FALSE
    <2> DEFINE used    == Consumed(amount_in, bin, swap_for_y, FALSE, rate)
               raw_out == RawOut(amount_in, bin, swap_for_y, FALSE, rate)
               most    == Most(bin, swap_for_y)
               quote   == dlmm_quote_exact_in_partial(amount_in, bin, swap_for_y, FALSE, rate)
    <2>1. quote.ok /\ quote.amount_in = used /\ quote.amount_out + quote.fee = raw_out
      BY OutputFeeForm
    <2> DEFINE available == Available(amount_in, FALSE, rate)
    <2>5. /\ used \in Nat /\ used <= available /\ (used = available \/ used = most)
          /\ raw_out \in 0..out /\ (raw_out = out <=> used = most)
      BY PartFacts
    <2>6. available = amount_in
      BY DEF Available
    <2> HIDE DEF quote, used, most, raw_out, out, available
    <2>2. /\ used \in 0..amount_in /\ (used = amount_in \/ used = most)
          /\ raw_out \in 0..out /\ (raw_out = out <=> used = most)
      BY <2>5, <2>6
    <2>3. quote.amount_in < amount_in => quote.amount_out + quote.fee = out
      BY <2>1, <2>2
    <2>4. QED
      BY <1>2, <2>1, <2>2, <2>3 DEF quote, out
  <1>3. QED
    BY <1>1, <1>2

\* The output of a bin does not fall when the input grows, however the fee and
\* the price are rounded.
THEOREM MoreInputGivesNoLess ==
  ASSUME NEW bin, NEW swap_for_y, Swap(bin, swap_for_y),
         NEW foi \in BOOLEAN, NEW rate \in Rates,
         NEW a \in Nat \ {0}, NEW b \in Nat \ {0}, a <= b
  PROVE  dlmm_quote_exact_in_partial(a, bin, swap_for_y, foi, rate).amount_out
           <= dlmm_quote_exact_in_partial(b, bin, swap_for_y, foi, rate).amount_out
  <1> DEFINE available(x) == Available(x, foi, rate)
             used(x)      == Consumed(x, bin, swap_for_y, foi, rate)
             raw_out(x)   == RawOut(x, bin, swap_for_y, foi, rate)
             most         == Most(bin, swap_for_y)
             out          == max_out(bin, swap_for_y)
             bought(x)    == amount_out_for_in(x, bin.price, swap_for_y)
  <1>1. ASSUME NEW x \in Nat \ {0}
        PROVE  /\ available(x) \in Nat /\ used(x) \in Nat /\ most \in Nat /\ used(x) <= most
               /\ raw_out(x) \in Nat /\ raw_out(x) <= out
    BY PartFacts, OutputNat
  <1>2. ASSUME NEW x
        PROVE  /\ raw_out(x) = IF used(x) = most THEN out ELSE bought(used(x))
               /\ used(x) = IF available(x) < most THEN available(x) ELSE most
    BY DEF RawOut, Consumed, Least
  <1>3. available(a) <= available(b)
    BY ExcludedGrows DEF Available
  <1>4. \A x, y \in Nat : x <= y => bought(x) <= bought(y)
    BY InputBuys
  <1> HIDE DEF available, used, raw_out, most, out, bought
  <1>5. /\ available(a) \in Nat /\ used(a) \in Nat /\ most \in Nat /\ used(a) <= most
        /\ raw_out(a) \in Nat /\ raw_out(a) <= out
    BY <1>1
  <1>6. available(b) \in Nat /\ used(b) \in Nat /\ used(b) <= most /\ raw_out(b) \in Nat
    BY <1>1
  <1>7. used(a) <= used(b)
    <2>1. /\ used(a) = IF available(a) < most THEN available(a) ELSE most
          /\ used(b) = IF available(b) < most THEN available(b) ELSE most
      BY <1>2
    <2>2. QED
      BY <1>3, <1>5, <1>6, <2>1
  <1>8. raw_out(a) <= raw_out(b)
    <2>1. CASE used(b) = most
      <3>1. raw_out(b) = out
        BY <1>2, <2>1
      <3>2. QED
        BY <1>5, <3>1
    <2>2. CASE used(b) # most
      <3>1. used(a) # most
        BY <1>5, <1>6, <1>7, <2>2
      <3>2. raw_out(a) = bought(used(a)) /\ raw_out(b) = bought(used(b))
        BY <1>2, <2>2, <3>1
      <3>3. QED
        BY <1>4, <1>5, <1>6, <1>7, <3>2
    <2>3. QED
      BY <2>1, <2>2
  <1>9. CASE foi = TRUE
    BY <1>8, <1>9, InputFeeForm DEF raw_out
  <1>10. CASE foi = FALSE
    <2>1. excluded_fee_amount(raw_out(a), rate) <= excluded_fee_amount(raw_out(b), rate)
      BY <1>5, <1>6, <1>8, ExcludedGrows
    <2>2. QED
      BY <1>10, <2>1, OutputFeeForm DEF raw_out
  <1>11. QED
    BY <1>9, <1>10

-----------------------------------------------------------------------------
(* A segment of a curve stands for its bin.                                *)

LEMMA WithinInputFee ==
  ASSUME NEW bin, NEW swap_for_y, Swap(bin, swap_for_y), NEW rate \in Rates,
         U64Max # 0, excluded_fee_amount(U64Max, rate) # Most(bin, swap_for_y),
         NEW amount_in \in 1..Gross(U64Max, bin, swap_for_y, TRUE, rate)
  PROVE  LET capacity == Gross(U64Max, bin, swap_for_y, TRUE, rate)
         IN  /\ Gross(amount_in, bin, swap_for_y, TRUE, rate) = amount_in
             /\ amount_in = capacity =>
                  RawOut(amount_in, bin, swap_for_y, TRUE, rate)
                    = RawOut(U64Max, bin, swap_for_y, TRUE, rate)
             /\ amount_in # capacity =>
                  RawOut(amount_in, bin, swap_for_y, TRUE, rate)
                    = amount_out_for_in(excluded_fee_amount(amount_in, rate), bin.price, swap_for_y)
  <1> DEFINE left(x)   == excluded_fee_amount(x, rate)
             incl(x)   == included_fee_amount(x, rate)
             used(x)   == Consumed(x, bin, swap_for_y, TRUE, rate)
             raw(x)    == RawOut(x, bin, swap_for_y, TRUE, rate)
             gross(x)  == Gross(x, bin, swap_for_y, TRUE, rate)
             bought(x) == amount_out_for_in(x, bin.price, swap_for_y)
             most      == Most(bin, swap_for_y)
             out       == max_out(bin, swap_for_y)
             all       == U64Max
  <1>1. ASSUME NEW x
        PROVE  /\ used(x) = IF left(x) < most THEN left(x) ELSE most
               /\ raw(x) = IF used(x) = most THEN out ELSE bought(used(x))
               /\ gross(x) = IF used(x) = left(x) THEN x ELSE incl(used(x))
    BY DEF Consumed, Available, Least, RawOut, Gross
  <1>2. all \in Nat \ {0}
    BY WidthAssumption
  <1>3. most \in Nat
    BY InputBuys
  <1>4. ASSUME NEW x \in Nat
        PROVE  /\ left(x) \in 0..x /\ incl(most) \in Nat
               /\ incl(most) <= x <=> most <= left(x)
    BY <1>3, FeeGalois
  <1>5. \A x, y \in Nat : x <= y => left(x) <= left(y)
    BY ExcludedGrows
  <1>6. left(all) # most /\ amount_in \in 1..gross(all)
    OBVIOUS
  <1> HIDE DEF left, incl, used, raw, gross, bought, most, out, all
  <1>7. left(all) \in 0..all /\ incl(most) \in Nat /\ (incl(most) <= all <=> most <= left(all))
    BY <1>2, <1>4
  <1>8. \/ left(all) < most /\ gross(all) = all /\ used(all) # most
        \/ most < left(all) /\ gross(all) = incl(most) /\ used(all) = most
    <2>1. CASE left(all) < most
      <3>1. used(all) = left(all) /\ gross(all) = all
        BY <1>1, <2>1
      <3>2. QED
        BY <1>6, <2>1, <3>1
    <2>2. CASE most < left(all)
      <3>1. ~(left(all) < most) /\ left(all) # most
        BY <1>3, <1>7, <2>2
      <3>2. used(all) = most
        BY <1>1, <3>1
      <3>3. gross(all) = incl(most)
        BY <1>1, <3>1, <3>2
      <3>4. QED
        BY <2>2, <3>2, <3>3
    <2>3. QED
      BY <1>3, <1>6, <1>7, <2>1, <2>2
  <1>9. gross(all) \in Nat /\ amount_in \in Nat /\ amount_in >= 1 /\ amount_in <= gross(all)
    BY <1>2, <1>6, <1>7, <1>8
  <1>10. /\ left(amount_in) \in Nat /\ left(amount_in) <= amount_in
         /\ incl(most) <= amount_in <=> most <= left(amount_in)
    BY <1>4, <1>9
  <1>11. CASE amount_in # gross(all)
    <2>1. left(amount_in) < most
      <3>1. CASE left(all) < most
        <4>1. amount_in <= all
          BY <1>3, <1>7, <1>8, <1>9, <3>1
        <4>2. left(amount_in) <= left(all)
          BY <1>2, <1>5, <1>9, <4>1
        <4>3. QED
          BY <1>3, <1>7, <1>10, <3>1, <4>2
      <3>2. CASE gross(all) = incl(most)
        BY <1>3, <1>9, <1>10, <1>11, <3>2
      <3>3. QED
        BY <1>8, <3>1, <3>2
    <2>2. used(amount_in) = left(amount_in) /\ used(amount_in) # most
      <3>1. used(amount_in) = left(amount_in)
        BY <1>1, <2>1
      <3>2. QED
        BY <1>3, <1>10, <2>1, <3>1
    <2>3. gross(amount_in) = amount_in /\ raw(amount_in) = bought(left(amount_in))
      BY <1>1, <2>2
    <2>4. QED
      BY <1>11, <2>3 DEF gross, raw, bought, left, all
  <1>12. CASE amount_in = gross(all)
    <2>1. CASE gross(all) = all
      <3>1. gross(amount_in) = amount_in /\ raw(amount_in) = raw(all)
        BY <1>12, <2>1
      <3>2. QED
        BY <1>12, <3>1 DEF gross, raw, all
    <2>2. CASE gross(all) = incl(most) /\ used(all) = most
      <3>1. most <= left(amount_in)
        BY <1>3, <1>7, <1>10, <1>12, <2>2
      <3>2. ~(left(amount_in) < most)
        BY <1>3, <1>10, <3>1
      <3>3. used(amount_in) = most
        BY <1>1, <3>2
      <3>4. raw(amount_in) = out /\ raw(all) = out
        BY <1>1, <2>2, <3>3
      <3>5. gross(amount_in) = amount_in
        BY <1>1, <1>12, <2>2, <3>3
      <3>6. QED
        BY <1>12, <3>4, <3>5 DEF gross, raw, all
    <2>3. QED
      BY <1>8, <2>1, <2>2
  <1>13. QED
    BY <1>11, <1>12

OutputWithin(amount_in, bin, swap_for_y, rate) ==
  LET capacity == Consumed(U64Max, bin, swap_for_y, FALSE, rate)
  IN  /\ Consumed(amount_in, bin, swap_for_y, FALSE, rate) = amount_in
      /\ amount_in = capacity =>
           RawOut(amount_in, bin, swap_for_y, FALSE, rate)
             = RawOut(U64Max, bin, swap_for_y, FALSE, rate)
      /\ amount_in # capacity =>
           RawOut(amount_in, bin, swap_for_y, FALSE, rate)
             = amount_out_for_in(amount_in, bin.price, swap_for_y)

LEMMA WithinOutputFee ==
  ASSUME NEW bin, NEW swap_for_y, Swap(bin, swap_for_y), NEW rate \in Rates,
         U64Max # 0,
         NEW amount_in \in 1..Consumed(U64Max, bin, swap_for_y, FALSE, rate)
  PROVE  OutputWithin(amount_in, bin, swap_for_y, rate)
  <1> DEFINE used(x)   == Consumed(x, bin, swap_for_y, FALSE, rate)
             raw(x)    == RawOut(x, bin, swap_for_y, FALSE, rate)
             bought(x) == amount_out_for_in(x, bin.price, swap_for_y)
             most      == Most(bin, swap_for_y)
             out       == max_out(bin, swap_for_y)
             all       == U64Max
  <1>1. ASSUME NEW x
        PROVE  /\ used(x) = IF x < most THEN x ELSE most
               /\ raw(x) = IF used(x) = most THEN out ELSE bought(used(x))
    BY DEF Consumed, Available, Least, RawOut
  <1>2. all \in Nat \ {0}
    BY WidthAssumption
  <1>3. most \in Nat
    BY InputBuys
  <1>4. amount_in \in 1..used(all)
    OBVIOUS
  <1> HIDE DEF used, raw, bought, most, out, all
  <1>5. used(all) \in Nat /\ used(all) <= all /\ used(all) <= most
    BY <1>1, <1>2, <1>3
  <1>6. amount_in \in Nat /\ amount_in <= all /\ amount_in <= most /\ amount_in <= used(all)
    BY <1>2, <1>3, <1>4, <1>5
  <1>7. used(amount_in) = amount_in
    BY <1>1, <1>3, <1>6
  <1>8. amount_in = used(all) => raw(amount_in) = raw(all)
    BY <1>1, <1>7
  <1>9. amount_in # used(all) => raw(amount_in) = bought(amount_in)
    <2>1. amount_in # used(all) => amount_in # most
      BY <1>3, <1>5, <1>6
    <2>2. QED
      BY <1>1, <1>7, <2>1
  <1>10. QED
    BY <1>7, <1>8, <1>9 DEF OutputWithin, used, raw, bought, all

\* What the curve answers for an input below the capacity of the bin, and that
\* it is what the bin gives.
Inside(amount_in, bin, swap_for_y, foi, rate) ==
  IF foi
    THEN amount_out_for_in(excluded_fee_amount(amount_in, rate), bin.price, swap_for_y)
    ELSE excluded_fee_amount(amount_out_for_in(amount_in, bin.price, swap_for_y), rate)

Agrees(amount_in, bin, swap_for_y, foi, rate) ==
  LET capacity == dlmm_bin_quote_capacity(bin, swap_for_y, foi, rate)
      quote    == dlmm_quote_exact_in_partial(amount_in, bin, swap_for_y, foi, rate)
  IN  amount_in <= capacity.amount_in =>
        /\ quote.amount_in = amount_in
        /\ quote.amount_out = IF amount_in = capacity.amount_in THEN capacity.amount_out
                              ELSE Inside(amount_in, bin, swap_for_y, foi, rate)

LEMMA BinInputFee ==
  ASSUME NEW bin, NEW swap_for_y, Swap(bin, swap_for_y), NEW rate \in Rates,
         U64Max # 0, excluded_fee_amount(U64Max, rate) # Most(bin, swap_for_y),
         NEW amount_in \in Nat \ {0}
  PROVE  Agrees(amount_in, bin, swap_for_y, TRUE, rate)
  <1> DEFINE gross(x) == Gross(x, bin, swap_for_y, TRUE, rate)
             raw(x)   == RawOut(x, bin, swap_for_y, TRUE, rate)
             bought   == amount_out_for_in(excluded_fee_amount(amount_in, rate), bin.price, swap_for_y)
             quote(x) == dlmm_quote_exact_in_partial(x, bin, swap_for_y, TRUE, rate)
  <1>1. U64Max \in Nat \ {0}
    BY WidthAssumption
  <1>2. quote(U64Max).amount_in = gross(U64Max) /\ quote(U64Max).amount_out = raw(U64Max)
    BY <1>1, InputFeeForm
  <1>3. quote(amount_in).amount_in = gross(amount_in) /\ quote(amount_in).amount_out = raw(amount_in)
    BY InputFeeForm
  <1>4. gross(U64Max) \in 0..U64Max
    BY <1>1, PartFacts
  <1>5. ASSUME amount_in \in 1..gross(U64Max)
        PROVE  /\ gross(amount_in) = amount_in
               /\ amount_in = gross(U64Max) => raw(amount_in) = raw(U64Max)
               /\ amount_in # gross(U64Max) => raw(amount_in) = bought
    BY <1>5, WithinInputFee
  <1> HIDE DEF gross, raw, bought, quote
  <1>6. ASSUME amount_in <= quote(U64Max).amount_in
        PROVE  /\ quote(amount_in).amount_in = amount_in
               /\ quote(amount_in).amount_out =
                    IF amount_in = quote(U64Max).amount_in THEN quote(U64Max).amount_out ELSE bought
    <2>1. amount_in \in 1..gross(U64Max)
      BY <1>1, <1>2, <1>4, <1>6
    <2>2. QED
      BY <1>2, <1>3, <1>5, <2>1
  <1>7. QED
    BY <1>6 DEF Agrees, Inside, dlmm_bin_quote_capacity, quote, bought

LEMMA BinOutputFee ==
  ASSUME NEW bin, NEW swap_for_y, Swap(bin, swap_for_y), NEW rate \in Rates,
         U64Max # 0,
         NEW amount_in \in Nat \ {0}
  PROVE  Agrees(amount_in, bin, swap_for_y, FALSE, rate)
  <1> DEFINE used(x)  == Consumed(x, bin, swap_for_y, FALSE, rate)
             raw(x)   == RawOut(x, bin, swap_for_y, FALSE, rate)
             left(x)  == excluded_fee_amount(x, rate)
             bought   == amount_out_for_in(amount_in, bin.price, swap_for_y)
             quote(x) == dlmm_quote_exact_in_partial(x, bin, swap_for_y, FALSE, rate)
  <1>1. U64Max \in Nat \ {0}
    BY WidthAssumption
  <1>2. quote(U64Max).amount_in = used(U64Max) /\ quote(U64Max).amount_out = left(raw(U64Max))
    BY <1>1, OutputFeeForm
  <1>3. quote(amount_in).amount_in = used(amount_in) /\ quote(amount_in).amount_out = left(raw(amount_in))
    BY OutputFeeForm
  <1>4. used(U64Max) \in Nat
    BY <1>1, PartFacts
  <1>5. ASSUME amount_in \in 1..used(U64Max)
        PROVE  /\ used(amount_in) = amount_in
               /\ amount_in = used(U64Max) => raw(amount_in) = raw(U64Max)
               /\ amount_in # used(U64Max) => raw(amount_in) = bought
    <2>1. OutputWithin(amount_in, bin, swap_for_y, rate)
      BY <1>5, WithinOutputFee
    <2>2. QED
      BY <2>1 DEF OutputWithin
  <1> HIDE DEF used, raw, left, bought, quote
  <1>6. ASSUME amount_in <= quote(U64Max).amount_in
        PROVE  /\ quote(amount_in).amount_in = amount_in
               /\ quote(amount_in).amount_out =
                    IF amount_in = quote(U64Max).amount_in THEN quote(U64Max).amount_out ELSE left(bought)
    <2>1. amount_in \in 1..used(U64Max)
      BY <1>1, <1>2, <1>4, <1>6
    <2>2. QED
      BY <1>2, <1>3, <1>5, <2>1
  <1>7. QED
    BY <1>6 DEF Agrees, Inside, dlmm_bin_quote_capacity, quote, left, bought

\* DlmmCurve::quote() answers from the capacity that build_curve() recorded of a
\* bin, without going through dlmm_quote_exact_in_partial() again: for every input
\* up to the capacity it gives what the bin gives, to the last unit.  (The one
\* exception is a bin that takes exactly what the fee leaves of the greatest u64.)
THEOREM SegmentIsBin ==
  ASSUME NEW bin, NEW swap_for_y, Swap(bin, swap_for_y),
         NEW foi \in BOOLEAN, NEW rate \in Rates, U64Max # 0,
         foi => excluded_fee_amount(U64Max, rate) # Most(bin, swap_for_y),
         NEW segment,
         segment.price = bin.price, segment.swap_for_y = swap_for_y,
         segment.fee_on_input = foi, segment.fee_rate = rate,
         segment.input_end - segment.input_start =
           dlmm_bin_quote_capacity(bin, swap_for_y, foi, rate).amount_in,
         segment.output_end - segment.output_start =
           dlmm_bin_quote_capacity(bin, swap_for_y, foi, rate).amount_out,
         NEW amount_in \in Nat \ {0},
         amount_in <= dlmm_bin_quote_capacity(bin, swap_for_y, foi, rate).amount_in
  PROVE  LET quote == dlmm_quote_exact_in_partial(amount_in, bin, swap_for_y, foi, rate)
         IN  /\ quote.amount_in = amount_in
             /\ quote.amount_out = dlmm_bin_output_within_capacity(amount_in, segment)
  <1> DEFINE capacity == dlmm_bin_quote_capacity(bin, swap_for_y, foi, rate)
             within   == dlmm_bin_output_within_capacity(amount_in, segment)
  <1>1. within = IF amount_in = capacity.amount_in THEN capacity.amount_out
                 ELSE Inside(amount_in, bin, swap_for_y, foi, rate)
    BY DEF dlmm_bin_output_within_capacity, Inside
  <1>2. Agrees(amount_in, bin, swap_for_y, foi, rate)
    <2>1. CASE foi = TRUE
      <3>1. excluded_fee_amount(U64Max, rate) # Most(bin, swap_for_y)
        BY <2>1
      <3>2. Agrees(amount_in, bin, swap_for_y, TRUE, rate)
        BY <3>1, BinInputFee
      <3>3. QED
        BY <2>1, <3>2, Zenon
    <2>2. CASE foi = FALSE
      <3>1. Agrees(amount_in, bin, swap_for_y, FALSE, rate)
        BY BinOutputFee
      <3>2. QED
        BY <2>2, <3>1, Zenon
    <2>3. QED
      BY <2>1, <2>2
  <1>3. QED
    BY <1>1, <1>2 DEF Agrees
=============================================================================
