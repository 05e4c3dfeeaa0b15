------------------------------ MODULE QuoteMath ------------------------------
(***************************************************************************)
(* The integer quote arithmetic of quote/math.rs and the volatility of      *)
(* quote/accounts.rs.  Amounts are u64 and intermediate values u128; an     *)
(* operator returns NoQuote where the code returns an error, because all   *)
(* callers treat the errors alike.  The units are constants, so that small *)
(* ones round as often as the real ones.                                   *)
(***************************************************************************)
EXTENDS Integers, Sequences

CONSTANTS
  U64Max, U128Max,
  Bps,            \* PUMP_FEE_DENOMINATOR and BASIS_POINT, 10_000
  FeePrecision,   \* FEE_PRECISION, 10^9
  MaxFeeRate,     \* MAX_FEE_RATE, a tenth of it
  PriceUnit,      \* 2^Q64
  BaseFeeUnit,    \* 10 of dlmm_total_fee_rate
  VariableFeeUnit \* 10^11 of dlmm_total_fee_rate

ASSUME WidthAssumption == U64Max \in Nat /\ U128Max \in Nat /\ U64Max > 1
ASSUME UnitsAssumption ==
  /\ Bps \in Nat \ {0} /\ PriceUnit \in Nat \ {0}
  /\ FeePrecision \in Nat \ {0} /\ MaxFeeRate \in 0..(FeePrecision - 1)
  /\ BaseFeeUnit \in Nat /\ VariableFeeUnit \in Nat \ {0}
ASSUME FeeCapAssumption == MaxFeeRate > 0 /\ 2 * MaxFeeRate <= FeePrecision

Quote(amount_in, amount_out, fee) ==
  [amount_in |-> amount_in, amount_out |-> amount_out, fee |-> fee, ok |-> TRUE]

NoQuote == [amount_in |-> 0, amount_out |-> 0, fee |-> 0, ok |-> FALSE]

CeilDiv(a, b) == (a + b - 1) \div b

Least(a, b) == IF a < b THEN a ELSE b

-----------------------------------------------------------------------------
(* Pump.  pool has base_reserve, quote_reserve, virtual and the three fees *)
(* lp, protocol and creator in basis points.                               *)

pump_fees(amount, pool) ==
  CeilDiv(amount * pool.lp, Bps) + CeilDiv(amount * pool.protocol, Bps)
    + CeilDiv(amount * pool.creator, Bps)

pump_buy_exact_quote_in(quote_in, pool) ==
  LET first       == (quote_in * Bps) \div (Bps + pool.lp + pool.protocol + pool.creator)
      excess      == first + pump_fees(first, pool) - quote_in
      effective   == IF excess > 0 THEN first - excess ELSE first
      curve_input == effective - 1
      reserve     == pool.quote_reserve + pool.virtual
  IN  IF quote_in = 0 \/ pool.base_reserve = 0 \/ pool.quote_reserve = 0 \/ curve_input < 0
        THEN NoQuote
        ELSE Quote(quote_in, (pool.base_reserve * curve_input) \div (reserve + curve_input),
                   quote_in - effective)

pump_sell_base_in(base_in, pool) ==
  LET reserve == pool.quote_reserve + pool.virtual
      raw     == (reserve * base_in) \div (pool.base_reserve + base_in)
      fee     == pump_fees(raw, pool)
  IN  IF \/ base_in = 0 \/ pool.base_reserve = 0 \/ pool.quote_reserve = 0
         \/ reserve * base_in > U128Max
         \/ fee > raw
         \/ pool.quote_reserve < raw - CeilDiv(raw * pool.lp, Bps)
         \/ raw - fee > U64Max
        THEN NoQuote
        ELSE Quote(base_in, raw - fee, fee)

-----------------------------------------------------------------------------
(* One bin of the DLMM.  bin has price, x, y, the open and the processed   *)
(* limit orders, and ask: the side of those.                               *)

\* fees.power is ten to the base_fee_power_factor.
base_fee(fees) == fees.base_factor * fees.bin_step * BaseFeeUnit * fees.power

variable_fee(fees, volatility_accumulator) ==
  LET volatility == volatility_accumulator * fees.bin_step
  IN  fees.variable_fee_control * volatility * volatility

FeeOverflows(fees, volatility_accumulator) ==
  \/ base_fee(fees) > U128Max
  \/ variable_fee(fees, volatility_accumulator) > U128Max - VariableFeeUnit

dlmm_total_fee_rate(fees, volatility_accumulator) ==
  Least(base_fee(fees) + CeilDiv(variable_fee(fees, volatility_accumulator), VariableFeeUnit),
        MaxFeeRate)

\* What is left of an input, or output, of that amount.
excluded_fee_amount(amount, fee_rate) == amount - CeilDiv(amount * fee_rate, FeePrecision)

\* The input of which that amount is left.
included_fee_amount(amount, fee_rate) ==
  CeilDiv(amount * FeePrecision, FeePrecision - fee_rate)

amount_in_for_out(amount_out, price, swap_for_y) ==
  IF swap_for_y THEN CeilDiv(amount_out * PriceUnit, price)
                ELSE CeilDiv(amount_out * price, PriceUnit)

amount_out_for_in(amount_in, price, swap_for_y) ==
  IF swap_for_y THEN (amount_in * price) \div PriceUnit
                ELSE (amount_in * PriceUnit) \div price

max_out(bin, swap_for_y) ==
  (IF swap_for_y THEN bin.y ELSE bin.x)
    + (IF swap_for_y # bin.ask THEN bin.open + bin.processed ELSE 0)

\* The code fails where one of these does not fit its type.
BinOverflows(bin, swap_for_y) ==
  \/ bin.price = 0
  \/ max_out(bin, swap_for_y) > U64Max
  \/ swap_for_y /\ max_out(bin, swap_for_y) * PriceUnit + bin.price - 1 > U128Max
  \/ ~swap_for_y /\ max_out(bin, swap_for_y) * bin.price + PriceUnit - 1 > U128Max
  \/ amount_in_for_out(max_out(bin, swap_for_y), bin.price, swap_for_y) > U64Max

\* dlmm_quote_exact_in_partial() for one bin: as much of amount_in as it takes.
dlmm_quote_exact_in_partial(amount_in, bin, swap_for_y, fee_on_input, fee_rate) ==
  LET out       == max_out(bin, swap_for_y)
      most      == amount_in_for_out(out, bin.price, swap_for_y)
      available == IF fee_on_input THEN excluded_fee_amount(amount_in, fee_rate) ELSE amount_in
      used      == Least(available, most)
      raw_out   == IF used = most THEN out
                   ELSE amount_out_for_in(used, bin.price, swap_for_y)
      gross     == IF used = available THEN amount_in ELSE included_fee_amount(used, fee_rate)
  IN  IF amount_in = 0 THEN NoQuote
      ELSE IF out = 0 THEN Quote(0, 0, 0)
      ELSE IF BinOverflows(bin, swap_for_y) THEN NoQuote
      ELSE IF fee_on_input THEN
        IF gross > amount_in THEN NoQuote ELSE Quote(gross, raw_out, gross - used)
      ELSE Quote(used, excluded_fee_amount(raw_out, fee_rate),
                 raw_out - excluded_fee_amount(raw_out, fee_rate))

\* What it takes to consume all the bin has.
dlmm_bin_quote_capacity(bin, swap_for_y, fee_on_input, fee_rate) ==
  dlmm_quote_exact_in_partial(U64Max, bin, swap_for_y, fee_on_input, fee_rate)

\* The output for an input inside the capacity that a segment of a curve records.
dlmm_bin_output_within_capacity(amount_in, segment) ==
  IF amount_in = segment.input_end - segment.input_start
    THEN segment.output_end - segment.output_start
  ELSE IF segment.fee_on_input
    THEN amount_out_for_in(excluded_fee_amount(amount_in, segment.fee_rate),
                           segment.price, segment.swap_for_y)
    ELSE excluded_fee_amount(amount_out_for_in(amount_in, segment.price, segment.swap_for_y),
                             segment.fee_rate)

-----------------------------------------------------------------------------
(* quote/accounts.rs: the volatility the variable fee depends on.          *)

\* update_reference(): variable has accumulator, reference, index_reference, updated.
update_reference(active_id, variable, fees, timestamp) ==
  LET elapsed == timestamp - variable.updated
  IN  IF elapsed < fees.filter_period THEN variable
      ELSE [variable EXCEPT
              !.index_reference = active_id,
              !.reference = IF elapsed < fees.decay_period
                              THEN (variable.accumulator * fees.reduction_factor) \div Bps
                              ELSE 0]

update_volatility_accumulator(active_id, variable, fees) ==
  LET distance == IF active_id < variable.index_reference
                    THEN variable.index_reference - active_id
                    ELSE active_id - variable.index_reference
  IN  [variable EXCEPT
         !.accumulator = Least(variable.reference + distance * Bps, fees.max_volatility)]

fee_on_input(pair, swap_for_y) == pair.collect_fee_mode = 0 \/ ~swap_for_y
=============================================================================
