------------------------------ MODULE Normalized ------------------------------
(***************************************************************************)
(* The positive numbers with which dynamic_amount.rs looks for the point   *)
(* inside a segment: mantissa / 2^(MantissaBits-1) * 2^exponent, cut off   *)
(* after every operation.  The code has 64 bits and compares with a margin *)
(* of 32; fewer bits cut off as often, of smaller numbers.                 *)
(***************************************************************************)
EXTENDS Integers, Sequences

CONSTANTS
  MantissaBits,
  WidestBits,   \* of the numbers that are given: 128
  RootMargin,   \* INTERIOR_ROOT_PREFILTER_MARGIN
  NewtonRounds  \* bound: rounds of integer_sqrt(), at least as many as it ever takes

ASSUME MantissaAssumption ==
  /\ MantissaBits \in Nat \ {0} /\ WidestBits \in Nat /\ 2 * MantissaBits <= WidestBits
  /\ RootMargin \in Nat /\ NewtonRounds \in Nat /\ MantissaBits <= NewtonRounds

Number(mantissa, exponent) == [mantissa |-> mantissa, exponent |-> exponent]

PowerOf2[n \in 0..WidestBits] == IF n = 0 THEN 1 ELSE 2 * PowerOf2[n - 1]

One == PowerOf2[MantissaBits - 1]  \* the least mantissa

\* The bits of a positive number: 128 - leading_zeros()
Bits(value) == CHOOSE n \in 1..WidestBits : PowerOf2[n - 1] <= value /\ value < PowerOf2[n]

\* value * 2^places or, where places is negative, what is left of it.
Shifted(value, places) ==
  IF places >= 0 THEN value * PowerOf2[places] ELSE value \div PowerOf2[-places]

from_u128(value) == Number(Shifted(value, MantissaBits - Bits(value)), Bits(value) - 1)

multiply(a, b) ==
  LET product  == (a.mantissa * b.mantissa) \div One
      exponent == a.exponent + b.exponent
  IN  IF product >= 2 * One THEN Number(product \div 2, exponent + 1)
                            ELSE Number(product, exponent)

divide(a, b) ==
  LET quotient == (a.mantissa * One) \div b.mantissa
      exponent == a.exponent - b.exponent
  IN  IF quotient < One THEN Number(quotient * 2, exponent - 1)
                        ELSE Number(quotient, exponent)

less(a, b) ==
  \/ a.exponent < b.exponent
  \/ a.exponent = b.exponent /\ a.mantissa < b.mantissa

Product(numerators) ==
  LET product[n \in 0..Len(numerators)] ==
        IF n = 0 THEN from_u128(1) ELSE multiply(product[n - 1], from_u128(numerators[n]))
  IN  product

Ratio(value, denominators) ==
  LET ratio[n \in 0..Len(denominators)] ==
        IF n = 0 THEN value ELSE divide(ratio[n - 1], from_u128(denominators[n]))
  IN  ratio

normalized_product_ratio(numerators, denominators) ==
  Ratio(Product(numerators)[Len(numerators)], denominators)[Len(denominators)]

normalized_square(value) == multiply(from_u128(value), from_u128(value))

\* Newton's method from above, until it stops falling.
Improved(value, estimate) ==
  LET next == (estimate + value \div estimate) \div 2
  IN  IF next < estimate THEN next ELSE estimate

Estimates(value) ==
  LET estimate[n \in 0..NewtonRounds] ==
        IF n = 0 THEN PowerOf2[(Bits(value) + 1) \div 2] ELSE Improved(value, estimate[n - 1])
  IN  estimate

integer_sqrt(value) == IF value < 2 THEN value ELSE Estimates(value)[NewtonRounds]

\* The exponent is made even and half of it taken.
sqrt_floor(a) ==
  LET odd == a.exponent % 2
  IN  Shifted(integer_sqrt(a.mantissa * PowerOf2[odd] * One),
              (a.exponent - odd) \div 2 - (MantissaBits - 1))

\* The mistake of comparing without the margin, for PrefilterKeepsRoots.
NoMargin(squared_value, lower_root, upper_root) ==
  \/ ~less(normalized_square(lower_root), squared_value)
  \/ ~less(squared_value, normalized_square(upper_root))

\* The root of squared_value is not between lower_root and upper_root, which
\* saves computing it.  (0 has no square here, and excludes nothing.)
sqrt_interval_definitely_excludes(squared_value, lower_root, upper_root) ==
  \/ /\ lower_root > RootMargin
     /\ ~less(normalized_square(lower_root - RootMargin), squared_value)
  \/ ~less(squared_value, normalized_square(upper_root + RootMargin))
=============================================================================
