------------------------------ MODULE DlmmCurve ------------------------------
(***************************************************************************)
(* Two quotes of a swap over the bins of a DLMM pair.                      *)
(*                                                                         *)
(* quote_dlmm_from_accounts() of best_direction.rs walks from the active   *)
(* bin and takes from each bin as much as it gives: the production quote.  *)
(* build_curve() of dynamic_amount.rs walks the same bins once, keeps the  *)
(* capacity of each as a segment, and DlmmCurve::quote() looks an amount   *)
(* up in the segments, so that many amounts can be tried.                  *)
(*                                                                         *)
(* A pair is a record with active_id, bins (by id), bitmap and extension   *)
(* (the array indices they mark), fees, variable, collect_fee_mode and     *)
(* limit_orders; pair.arrays are the indices of the arrays supplied with   *)
(* the instruction.  collect_fee_mode and the function type are values     *)
(* that the DLMM program defines.  The two walks are loops of at most      *)
(* MaxBins rounds; here walk[n] is the state after n of them.              *)
(***************************************************************************)
EXTENDS QuoteMath

CONSTANTS
  MaxBins,       \* MAX_QUOTE_VISITED_BINS_PER_DIRECTION
  MaxArrays,     \* MAX_QUOTE_BIN_ARRAYS_PER_DIRECTION
  BinsPerArray,  \* 70
  DefaultArrays  \* the indices the pair's own bitmap covers, -512..511

ASSUME WalkAssumption ==
  MaxBins \in Nat \ {0} /\ MaxArrays \in Nat \ {0} /\ BinsPerArray \in Nat \ {0}

bin_array_index(id) == id \div BinsPerArray

\* Outside the range of the bitmap an optional account extends it.
Initialized(pair, index) ==
  index \in (IF index \in DefaultArrays THEN pair.bitmap ELSE pair.extension)

Bin(pair, id) ==
  IF pair.limit_orders THEN pair.bins[id]
  ELSE [pair.bins[id] EXCEPT !.open = 0, !.processed = 0]

next_bin(id, swap_for_y) == IF swap_for_y THEN id - 1 ELSE id + 1

\* The arrays a walk has used, oldest first, once it has used this one too.
Used(used, index) ==
  IF used # <<>> /\ used[Len(used)] = index THEN used ELSE Append(used, index)

Start(pair, timestamp) == update_reference(pair.active_id, pair.variable, pair.fees, timestamp)
Moved(w, pair) == update_volatility_accumulator(w.id, w.variable, pair.fees)

-----------------------------------------------------------------------------
(* Plausible mistakes, for the properties that are checked of the curve.   *)

\* amount_in < segment.input_end
EndExcluded(curve, amount_in) ==
  {i \in DOMAIN curve.segments : amount_in < curve.segments[i].input_end}

\* The output is taken to grow evenly over the segment.
Interpolated(segment, inside) ==
  [ok |-> TRUE, used |-> segment.used,
   amount_out |-> segment.output_start +
     (inside * (segment.output_end - segment.output_start))
       \div (segment.input_end - segment.input_start)]

-----------------------------------------------------------------------------
(* The production quote.                                                   *)

\* An initialized array must have been supplied, and not be one too many.
ArrayFits(pair, used, index) ==
  index \in pair.arrays /\ Len(Used(used, index)) <= MaxArrays

\* The bin with the fee of the moment takes a part of what remains.
Taken(w, swap_for_y, index, variable, partial) ==
  IF ~partial.ok \/ w.amount_out + partial.amount_out > U64Max
    THEN [w EXCEPT !.ok = FALSE]
    ELSE [id         |-> IF partial.amount_in = w.remaining THEN w.id
                         ELSE next_bin(w.id, swap_for_y),
          remaining  |-> w.remaining - partial.amount_in,
          amount_out |-> w.amount_out + partial.amount_out,
          used       |-> Used(w.used, index),
          variable   |-> variable,
          ok         |-> TRUE]

VisitBin(w, pair, swap_for_y, index, variable) ==
  IF w.remaining = 0 \/ ~w.ok THEN w
  ELSE IF ~Initialized(pair, index) THEN [w EXCEPT !.id = next_bin(w.id, swap_for_y)]
  ELSE IF ~ArrayFits(pair, w.used, index) \/ FeeOverflows(pair.fees, variable.accumulator)
    THEN [w EXCEPT !.ok = FALSE]
  ELSE Taken(w, swap_for_y, index, variable,
             dlmm_quote_exact_in_partial(w.remaining, Bin(pair, w.id), swap_for_y,
               fee_on_input(pair, swap_for_y),
               dlmm_total_fee_rate(pair.fees, variable.accumulator)))

\* One round of quote_dlmm_from_accounts().
TakeFromBin(w, pair, swap_for_y) ==
  VisitBin(w, pair, swap_for_y, bin_array_index(w.id), Moved(w, pair))

AccountDataQuote(w) ==
  [amount_out |-> w.amount_out, used |-> w.used, ok |-> w.ok /\ w.remaining = 0]

QuoteStart(amount_in, pair, timestamp) ==
  [id |-> pair.active_id, remaining |-> amount_in, amount_out |-> 0, used |-> <<>>,
   variable |-> Start(pair, timestamp), ok |-> TRUE]

ProductionWalk(amount_in, pair, swap_for_y, timestamp) ==
  LET walk[n \in 0..MaxBins] ==
        IF n = 0 THEN QuoteStart(amount_in, pair, timestamp)
                 ELSE TakeFromBin(walk[n - 1], pair, swap_for_y)
  IN  walk

quote_dlmm_from_accounts(amount_in, pair, swap_for_y, timestamp) ==
  AccountDataQuote(ProductionWalk(amount_in, pair, swap_for_y, timestamp)[MaxBins])

-----------------------------------------------------------------------------
(* The curve.                                                              *)

\* The errors for which a walk stops end the instruction; the other reasons leave
\* a curve that can be used.
CurveErrors == {"BestDirectionQuoteIncomplete", "ArithmeticOverflow"}

\* A bin that gives nothing is passed.
Measured(w, passed, bin, capacity, swap_for_y, is_fee_on_input, fee_rate, input_limit) ==
  IF ~capacity.ok THEN [w EXCEPT !.stop = "BestDirectionQuoteIncomplete"]
  ELSE IF \/ w.total_in + capacity.amount_in > U64Max
          \/ w.total_out + capacity.amount_out > U64Max
    THEN [w EXCEPT !.stop = "ArithmeticOverflow"]
  ELSE IF capacity.amount_in = 0 \/ capacity.amount_out = 0 THEN passed
  ELSE [passed EXCEPT
          !.total_in  = @ + capacity.amount_in,
          !.total_out = @ + capacity.amount_out,
          !.segments  = Append(@,
             [input_start |-> w.total_in, input_end |-> w.total_in + capacity.amount_in,
              output_start |-> w.total_out, output_end |-> w.total_out + capacity.amount_out,
              price |-> bin.price, fee_rate |-> fee_rate, swap_for_y |-> swap_for_y,
              fee_on_input |-> is_fee_on_input, used |-> passed.used]),
          !.stop = IF w.total_in + capacity.amount_in >= input_limit THEN "input_limit" ELSE @]

MeasureBin(w, passed, bin, swap_for_y, is_fee_on_input, fee_rate, input_limit) ==
  Measured(w, passed, bin,
           dlmm_bin_quote_capacity(bin, swap_for_y, is_fee_on_input, fee_rate),
           swap_for_y, is_fee_on_input, fee_rate, input_limit)

\* One round of build_curve().
AddSegment(w, pair, swap_for_y, input_limit) ==
  LET index    == bin_array_index(w.id)
      variable == Moved(w, pair)
      next     == [w EXCEPT !.id = next_bin(w.id, swap_for_y)]
  IN  IF w.stop # "visited_bin_limit" THEN w
      ELSE IF ~Initialized(pair, index) THEN next
      ELSE IF index \notin pair.arrays THEN [w EXCEPT !.stop = "missing_bin_array"]
      ELSE IF ~ArrayFits(pair, w.used, index) THEN [w EXCEPT !.stop = "bin_array_limit"]
      ELSE IF FeeOverflows(pair.fees, variable.accumulator)
        THEN [w EXCEPT !.stop = "BestDirectionQuoteIncomplete"]
      ELSE MeasureBin(w, [next EXCEPT !.used = Used(w.used, index), !.variable = variable],
                      Bin(pair, w.id), swap_for_y, fee_on_input(pair, swap_for_y),
                      dlmm_total_fee_rate(pair.fees, variable.accumulator), input_limit)

Curve(w) ==
  [segments |-> w.segments,
   stop_reason |-> IF w.segments = <<>> /\ w.stop = "visited_bin_limit"
                     THEN "no_usable_liquidity" ELSE w.stop]

CurveStart(pair, timestamp) ==
  [id |-> pair.active_id, total_in |-> 0, total_out |-> 0, used |-> <<>>,
   variable |-> Start(pair, timestamp), segments |-> <<>>, stop |-> "visited_bin_limit"]

CurveWalk(pair, swap_for_y, timestamp, input_limit) ==
  LET walk[n \in 0..MaxBins] ==
        IF n = 0 THEN CurveStart(pair, timestamp)
                 ELSE AddSegment(walk[n - 1], pair, swap_for_y, input_limit)
  IN  walk

build_curve(pair, swap_for_y, timestamp, input_limit) ==
  Curve(CurveWalk(pair, swap_for_y, timestamp, input_limit)[MaxBins])

largest_complete_input(curve) ==
  IF curve.segments = <<>> THEN 0 ELSE curve.segments[Len(curve.segments)].input_end

\* What the binary search looks for: the segments that end at the amount or
\* after it.
Reaching(curve, amount_in) ==
  {i \in DOMAIN curve.segments : amount_in <= curve.segments[i].input_end}

NoCurveQuote == [amount_out |-> 0, used |-> <<>>, ok |-> FALSE]

SegmentQuote(segment, inside) ==
  [ok |-> TRUE, used |-> segment.used,
   amount_out |-> segment.output_start +
     IF inside = 0 THEN 0
     ELSE dlmm_bin_output_within_capacity(inside, segment)]

FirstSegment(curve, reaching) ==
  curve.segments[CHOOSE i \in reaching : \A j \in reaching : i <= j]

\* DlmmCurve::quote()
curve_quote(curve, amount_in) ==
  LET reaching == Reaching(curve, amount_in)
      InSegment(segment) == SegmentQuote(segment, amount_in - segment.input_start)
  IN  IF amount_in = 0 \/ reaching = {} THEN NoCurveQuote
      ELSE InSegment(FirstSegment(curve, reaching))
=============================================================================
