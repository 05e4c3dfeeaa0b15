---------------------------- MODULE DynamicSearch ----------------------------
(***************************************************************************)
(* select_dynamic() of dynamic_amount.rs: which amount to trade in which   *)
(* direction.  Both directions are probed with the smallest amount; one    *)
(* that promises a gain is searched for its best amount: the ends of the   *)
(* curve's segments as amounts of WSOL, and near the point inside a        *)
(* segment where the marginal gain is zero.                                *)
(*                                                                         *)
(* The statistics for the event and the failure log are left out.          *)
(***************************************************************************)
EXTENDS DlmmCurve, Normalized, PumpFees

CONSTANTS
  Accounts, \* what the instruction is given, with the clock
  Bounds,   \* min_amount, max_amount (capped by the balance) and min_profit
  RoundingLoss,  \* what the properties allow the selection to lose by rounding
  MaxExactOutput \* bound: of larger outputs TLC has no exact products

-----------------------------------------------------------------------------
(* What an instruction is given.                                           *)

FeeRates == [lp : Nat, protocol : Nat, creator : Nat]

PumpData ==
  [base_reserve : 0..U64Max, quote_reserve : Nat, virtual : Nat, supply : Nat,
   is_pump_pool : BOOLEAN, has_creator : BOOLEAN, global : FeeRates,
   fee_config : [flat : FeeRates, tier_count : Nat, tiers : Seq([threshold : Nat, fees : FeeRates])]]

BinData == [price : Nat, x : Nat, y : Nat, open : Nat, processed : Nat, ask : BOOLEAN]

\* The ids of the bins in an array.
BinsOf(index) == (index * BinsPerArray)..(index * BinsPerArray + BinsPerArray - 1)

IsPair(pair) ==
  /\ DOMAIN pair = {"active_id", "bins", "bitmap", "extension", "arrays", "fees", "variable",
                    "collect_fee_mode", "limit_orders"}
  /\ pair.active_id \in Int /\ pair.limit_orders \in BOOLEAN
  /\ pair.arrays \in SUBSET Int
  /\ \A index \in pair.arrays : \A id \in BinsOf(index) : pair.bins[id] \in BinData
  /\ pair.fees \in [base_factor : Nat, bin_step : Nat, power : Nat, variable_fee_control : Nat,
                    filter_period : Nat, decay_period : Nat, reduction_factor : Nat,
                    max_volatility : Nat]
  /\ pair.variable \in [accumulator : Nat, reference : Nat, index_reference : Int, updated : Int]

ASSUME AccountsAssumption ==
  \A a \in Accounts : /\ a.pump \in PumpData /\ IsPair(a.pair)
                      /\ a.target_is_x \in BOOLEAN /\ a.cashback_ready \in BOOLEAN
                      /\ a.timestamp \in Int

\* What validate_args() and the comparison with the balance let pass.
ASSUME BoundsAssumption ==
  \A b \in Bounds : /\ b.min_amount \in 1..U64Max /\ b.max_amount \in b.min_amount..U64Max
                    /\ b.min_profit \in 1..U64Max

-----------------------------------------------------------------------------
VARIABLES
  accounts, bounds,
  market,            \* MarketState
  forward, reverse,  \* DirectionSearch of each direction
  phase,
  selection          \* the direction and the choice, or the error

search_vars == <<accounts, bounds, market, forward, reverse, phase, selection>>

NoChoice == [amount_in |-> 0, amount_out |-> 0, profit |-> 0, used |-> <<>>, some |-> FALSE]

Choice(amount_in, quote) ==
  [amount_in |-> amount_in, amount_out |-> quote.amount_out,
   profit |-> quote.amount_out - amount_in, used |-> quote.used, some |-> TRUE]

\* incomplete_direction()
Incomplete == [minimum_complete |-> FALSE, minimum_out |-> 0, best |-> NoChoice]

NoMarket == [parsed |-> FALSE]

Selection(result, choice) == [result |-> result, choice |-> choice]

SearchInit ==
  /\ accounts \in Accounts
  /\ bounds \in Bounds
  /\ market = NoMarket
  /\ forward = Incomplete
  /\ reverse = Incomplete
  /\ phase = "parse_market"
  /\ selection = Selection("none", NoChoice)

-----------------------------------------------------------------------------
(* Plausible mistakes, for the properties below.                           *)

\* A loss counts as a profit.
ProfitNotAsked(choice) == TRUE

\* Without the point inside a segment.
NoInterior(segment) == {}

\* Only the ends of the segments are tried.
OnlyEnds(curve, min_amount, largest) ==
  {curve.segments[i].input_end : i \in DOMAIN curve.segments} \cap min_amount..largest

\* One quoted direction is enough to say that there is no profit.
EitherComplete == forward.minimum_complete \/ reverse.minimum_complete

-----------------------------------------------------------------------------
(* Evaluation of an amount, and the largest one the curve covers.          *)

Buy(amount) == pump_buy_exact_quote_in(amount, market.pool)

\* What is sold, when all of it is.
Sale(dlmm, sell) ==
  IF dlmm.ok /\ sell.ok THEN [dlmm EXCEPT !.amount_out = sell.amount_out] ELSE NoCurveQuote

Sold(dlmm) == Sale(dlmm, pump_sell_base_in(dlmm.amount_out, market.pool))

evaluate_forward(curve, amount) ==
  IF Buy(amount).ok THEN curve_quote(curve, Buy(amount).amount_out) ELSE NoCurveQuote

evaluate_reverse(curve, amount) == Sold(curve_quote(curve, amount))

Evaluate(direction, curve, amount) ==
  IF direction = "PumpToMeteora" THEN evaluate_forward(curve, amount)
                                 ELSE evaluate_reverse(curve, amount)

Below(amount, capacity) == Buy(amount).ok /\ Buy(amount).amount_out <= capacity

\* One round of the binary search over the interval that is left.
Halved(left, capacity) ==
  LET midpoint == left.lower + CeilDiv(left.upper - left.lower, 2)
  IN  IF left.lower = left.upper THEN left
      ELSE IF Below(midpoint, capacity) THEN [left EXCEPT !.lower = midpoint]
      ELSE [left EXCEPT !.upper = midpoint - 1]

Halvings(capacity, max_amount) ==
  LET search[n \in 0..max_amount] ==
        IF n = 0 THEN [lower |-> 0, upper |-> max_amount] ELSE Halved(search[n - 1], capacity)
  IN  search

largest_forward_complete_amount(curve, max_amount) ==
  LET capacity == largest_complete_input(curve)
  IN  IF evaluate_forward(curve, max_amount).ok THEN max_amount
      ELSE IF capacity = 0 THEN 0 ELSE Halvings(capacity, max_amount)[max_amount].lower

largest_reverse_complete_amount(curve, max_amount) ==
  Least(max_amount, largest_complete_input(curve))

-----------------------------------------------------------------------------
(* Candidates.                                                             *)

push_neighborhood(amount) == (amount - 1)..(amount + 1)

TotalFee == market.pool.lp + market.pool.protocol + market.pool.creator
EffectiveReserve == market.pool.quote_reserve + market.pool.virtual

\* An input whose output is below target_out, close to the first that reaches it.
\* 0 where the code returns None.
pump_input_at_or_below_target_out(target_out) ==
  LET first == CeilDiv(target_out * EffectiveReserve, market.pool.base_reserve - target_out)
      gross == (first * (Bps + TotalFee)) \div Bps
  IN  IF \/ target_out = 0 \/ target_out >= market.pool.base_reserve
         \/ gross \notin 1..U64Max
         \/ ~Buy(gross).ok \/ Buy(gross).amount_out >= target_out
        THEN 0 ELSE gross

Gain(segment)  == segment.output_end - segment.output_start
Price(segment) == segment.input_end - segment.input_start

\* The square of the root: the marginal gain is zero where the effective
\* reserve, of WSOL or of the token, is as large as the root.
forward_ratio(segment) ==
  normalized_product_ratio(
    <<Gain(segment), market.pool.base_reserve, Bps, EffectiveReserve>>,
    <<Price(segment), Bps + TotalFee>>)

reverse_ratio(segment) ==
  normalized_product_ratio(
    <<Gain(segment), EffectiveReserve, market.pool.base_reserve, Bps - TotalFee>>,
    <<Price(segment), Bps>>)

forward_lower_root(begin) == EffectiveReserve + (begin * Bps) \div (Bps + TotalFee)
forward_upper_root(end)   == EffectiveReserve + CeilDiv(end * Bps, Bps + TotalFee)

\* The amount between the ends of the segment: one or none.  The reserves are
\* positive, since the minimum was quoted.
forward_interior(segment, begin, end) ==
  LET Input(root) == ((root - EffectiveReserve) * (Bps + TotalFee)) \div Bps
      Of(ratio) ==
        IF sqrt_interval_definitely_excludes(ratio, forward_lower_root(begin),
                                             forward_upper_root(end))
          THEN {} ELSE {Input(sqrt_floor(ratio))}
  IN  Of(forward_ratio(segment)) \cap (begin + 1)..(end - 1)

reverse_interior(segment) ==
  LET base == market.pool.base_reserve
      Input(target) ==
        segment.input_start
          + ((target - segment.output_start) * Price(segment)) \div Gain(segment)
      Of(ratio) ==
        IF sqrt_interval_definitely_excludes(ratio, base + segment.output_start,
                                             base + segment.output_end)
          THEN {} ELSE {sqrt_floor(ratio) - base}
      targets == (segment.output_start + 1)..(segment.output_end - 1)
  IN  IF TotalFee >= Bps THEN {}
      ELSE {Input(target) : target \in Of(reverse_ratio(segment)) \cap targets}

\* One round of the loop of search_forward(): w has the candidates so far, and
\* previous_segment_end_input, 0 for None.
AddCandidates(w, segment, min_amount, largest) ==
  LET begin == IF segment.input_start = 0 THEN 1
               ELSE IF w.previous # 0 THEN w.previous
               ELSE pump_input_at_or_below_target_out(segment.input_start)
      end   == pump_input_at_or_below_target_out(segment.input_end)
  IN  IF begin = 0 \/ end = 0 THEN w
      ELSE IF end < min_amount \/ begin > largest THEN [w EXCEPT !.previous = end]
      ELSE [previous   |-> end,
            candidates |-> w.candidates \cup {end} \cup
              UNION {push_neighborhood(amount) :
                       amount \in forward_interior(segment, begin, end)
                                    \cap min_amount..largest}]

CandidateWalk(segments, min_amount, largest) ==
  LET walk[n \in 0..Len(segments)] ==
        IF n = 0 THEN [previous |-> 0, candidates |-> {min_amount, largest}]
                 ELSE AddCandidates(walk[n - 1], segments[n], min_amount, largest)
  IN  walk

ForwardCandidates(curve, min_amount, largest) ==
  CandidateWalk(curve.segments, min_amount, largest)[Len(curve.segments)].candidates
    \cap min_amount..largest

ReverseCandidates(curve, min_amount, largest) ==
  LET Of(segment) ==
        IF segment.input_end < min_amount \/ segment.input_start > largest THEN {}
        ELSE {segment.input_end} \cup
               UNION {push_neighborhood(amount) :
                        amount \in reverse_interior(segment) \cap min_amount..largest}
  IN  ({min_amount, largest} \cup UNION {Of(curve.segments[i]) : i \in DOMAIN curve.segments})
        \cap min_amount..largest

better_choice(candidate, current) ==
  \/ candidate.profit > current.profit
  \/ candidate.profit = current.profit /\ candidate.amount_in < current.amount_in

Acceptable(choice) == choice.profit >= bounds.min_profit

\* evaluate_candidates()
Evaluated(candidates, direction, curve) ==
  LET quotes  == {<<a, Evaluate(direction, curve, a)>> : a \in candidates}
      choices == {Choice(q[1], q[2]) : q \in {q \in quotes : q[2].ok}}
      enough  == {c \in choices : Acceptable(c)}
      minimum == Evaluate(direction, curve, bounds.min_amount)
  IN  [minimum_complete |-> minimum.ok,
       minimum_out |-> minimum.amount_out,
       best |-> IF enough = {} THEN NoChoice
                ELSE CHOOSE c \in enough : \A d \in enough \ {c} : better_choice(c, d)]

-----------------------------------------------------------------------------
(* The steps of select_dynamic().                                          *)

\* The DLMM legs: x is sold for y when the first leg bought x.
ForwardSide == market.target_is_x
ReverseSide == ~market.target_is_x

\* What the DLMM leg of a forward route is given for an amount of WSOL.
forward_input_limit(amount) == IF Buy(amount).ok THEN Buy(amount).amount_out ELSE U64Max

ForwardCurve(max_amount) ==
  build_curve(market.pair, ForwardSide, market.timestamp, forward_input_limit(max_amount))

ReverseCurve(max_amount) ==
  build_curve(market.pair, ReverseSide, market.timestamp, max_amount)

Refused(error) ==
  /\ selection' = Selection(error, NoChoice)
  /\ phase' = "done"
  /\ UNCHANGED market

Parsed(pump, fees) ==
  IF ReserveOverflows(pump) THEN Refused("ArithmeticOverflow")
  ELSE IF ~fees.ok THEN Refused("BestDirectionQuoteIncomplete")
  ELSE /\ market' = [parsed |-> TRUE, pool |-> Pool(pump, fees.fees), pair |-> accounts.pair,
                     target_is_x |-> accounts.target_is_x,
                     cashback_ready |-> accounts.cashback_ready,
                     timestamp |-> accounts.timestamp]
       /\ phase' = "probe_forward"
       /\ UNCHANGED selection

ParseMarket ==
  /\ phase = "parse_market"
  /\ Parsed(accounts.pump, select_pump_fees_from_data(accounts.pump))
  /\ UNCHANGED <<accounts, bounds, forward, reverse>>

\* An error of build_curve() ends the instruction.
Failed(curve) ==
  /\ curve.stop_reason \in CurveErrors
  /\ selection' = Selection(curve.stop_reason, NoChoice)
  /\ phase' = "done"
  /\ UNCHANGED <<accounts, bounds, market, forward, reverse>>

\* probe_minimum()
Probe(largest, direction, curve) ==
  IF largest < bounds.min_amount \/ ~Evaluate(direction, curve, bounds.min_amount).ok
    THEN Incomplete
    ELSE Evaluated({bounds.min_amount}, direction, curve)

ProbedForward(curve) ==
  /\ curve.stop_reason \notin CurveErrors
  /\ forward' = Probe(largest_forward_complete_amount(curve, bounds.min_amount),
                      "PumpToMeteora", curve)
  /\ phase' = "probe_reverse"
  /\ UNCHANGED <<accounts, bounds, market, reverse, selection>>

ProbeForward ==
  /\ phase = "probe_forward"
  /\ LET Probed(curve) == Failed(curve) \/ ProbedForward(curve)
     IN  Probed(ForwardCurve(bounds.min_amount))

\* Pump could not pay the cashback of a sale: the direction is not tried.
SkipReverse ==
  /\ phase = "probe_reverse"
  /\ ~market.cashback_ready
  /\ phase' = "search_forward"
  /\ UNCHANGED <<accounts, bounds, market, forward, reverse, selection>>

ProbedReverse(curve) ==
  /\ curve.stop_reason \notin CurveErrors
  /\ reverse' = Probe(largest_reverse_complete_amount(curve, bounds.min_amount),
                      "MeteoraToPump", curve)
  /\ phase' = "search_forward"
  /\ UNCHANGED <<accounts, bounds, market, forward, selection>>

ProbeReverse ==
  /\ phase = "probe_reverse"
  /\ market.cashback_ready
  /\ LET Probed(curve) == Failed(curve) \/ ProbedReverse(curve)
     IN  Probed(ReverseCurve(bounds.min_amount))

\* directions_to_expand()
Promising(direction) ==
  /\ bounds.max_amount # bounds.min_amount
  /\ direction.minimum_complete
  /\ direction.minimum_out > bounds.min_amount

SearchedForward(curve, largest) ==
  /\ curve.stop_reason \notin CurveErrors
  /\ forward' = IF largest < bounds.min_amount THEN Incomplete
                ELSE Evaluated(ForwardCandidates(curve, bounds.min_amount, largest),
                               "PumpToMeteora", curve)
  /\ phase' = "search_reverse"
  /\ UNCHANGED <<accounts, bounds, market, reverse, selection>>

SearchForward ==
  /\ phase = "search_forward"
  /\ Promising(forward)
  /\ LET Searched(curve) ==
           \/ Failed(curve)
           \/ SearchedForward(curve, largest_forward_complete_amount(curve, bounds.max_amount))
     IN  Searched(ForwardCurve(bounds.max_amount))

SearchedReverse(curve, largest) ==
  /\ curve.stop_reason \notin CurveErrors
  /\ reverse' = IF largest < bounds.min_amount THEN Incomplete
                ELSE Evaluated(ReverseCandidates(curve, bounds.min_amount, largest),
                               "MeteoraToPump", curve)
  /\ phase' = "decide"
  /\ UNCHANGED <<accounts, bounds, market, forward, selection>>

SearchReverse ==
  /\ phase = "search_reverse"
  /\ Promising(reverse)
  /\ LET Searched(curve) ==
           \/ Failed(curve)
           \/ SearchedReverse(curve, largest_reverse_complete_amount(curve, bounds.max_amount))
     IN  Searched(ReverseCurve(bounds.max_amount))

KeepProbe ==
  /\ \/ phase = "search_forward" /\ ~Promising(forward) /\ phase' = "search_reverse"
     \/ phase = "search_reverse" /\ ~Promising(reverse) /\ phase' = "decide"
  /\ UNCHANGED <<accounts, bounds, market, forward, reverse, selection>>

BothComplete == forward.minimum_complete /\ reverse.minimum_complete

\* decide_dynamic_search()
Decide ==
  /\ phase = "decide"
  /\ phase' = "done"
  /\ selection' =
       IF reverse.best.some /\ (forward.best.some => better_choice(reverse.best, forward.best))
         THEN Selection("MeteoraToPump", reverse.best)
       ELSE IF forward.best.some THEN Selection("PumpToMeteora", forward.best)
       ELSE IF BothComplete
         THEN Selection("NoProfitableDirection", NoChoice)
       ELSE Selection("BestDirectionQuoteIncomplete", NoChoice)
  /\ UNCHANGED <<accounts, bounds, market, forward, reverse>>

SearchNext ==
  \/ ParseMarket
  \/ ProbeForward \/ ProbeReverse \/ SkipReverse
  \/ SearchForward \/ SearchReverse \/ KeepProbe
  \/ Decide

SearchSpec == SearchInit /\ [][SearchNext]_search_vars

-----------------------------------------------------------------------------
(* Properties.                                                             *)

Directions == {"PumpToMeteora", "MeteoraToPump"}

ChoiceSet == {NoChoice} \cup
  [amount_in : bounds.min_amount..bounds.max_amount, amount_out : 0..U64Max,
   profit : bounds.min_profit..U64Max, used : Seq(accounts.pair.arrays), some : {TRUE}]

DirectionSearch == [minimum_complete : BOOLEAN, minimum_out : 0..U64Max, best : ChoiceSet]

\* Types; a choice that is kept lies within the bounds and pays min_profit,
\* which evaluate_candidates() subtracts unsigned numbers to find out.
SearchTypeOK ==
  /\ market.parsed \/ phase \in {"parse_market", "done"}
  /\ forward \in DirectionSearch /\ reverse \in DirectionSearch
  /\ phase \in {"parse_market", "probe_forward", "probe_reverse", "search_forward", "search_reverse",
                "decide", "done"}
  /\ selection.choice \in ChoiceSet
  /\ selection.result \in Directions \cup
       {"none", "NoProfitableDirection", "BestDirectionQuoteIncomplete", "ArithmeticOverflow"}
  /\ selection.choice.some <=> selection.result \in Directions

\* What an amount is paid when select_direction() of best_direction.rs quotes
\* both legs.
ProductionLeg(amount, swap_for_y) ==
  quote_dlmm_from_accounts(amount, market.pair, swap_for_y, market.timestamp)

\* A bin that has something to give gives it also after the fee, and does not
\* take exactly what the fee leaves of the greatest u64.
NoDust(bin, swap_for_y, is_fee_on_input) ==
  max_out(bin, swap_for_y) # 0 /\ ~BinOverflows(bin, swap_for_y) =>
    \A fee_rate \in 1..MaxFeeRate :
      /\ dlmm_bin_quote_capacity(bin, swap_for_y, is_fee_on_input, fee_rate).amount_out # 0
      /\ is_fee_on_input =>
           excluded_fee_amount(U64Max, fee_rate)
             # amount_in_for_out(max_out(bin, swap_for_y), bin.price, swap_for_y)

\* The markets of which the theorems speak: a fee is charged, and there is no dust.
Smooth(pair) ==
  /\ base_fee(pair.fees) # 0
  /\ \A index \in pair.arrays : \A id \in BinsOf(index) : \A swap_for_y \in BOOLEAN :
       NoDust(Bin(pair, id), swap_for_y, fee_on_input(pair, swap_for_y))

\* A minimum that is not at a dip of what Pump sells: the fees, of at most a third,
\* are three that round on their own, and an amount may buy less than one or two
\* units less.
Steady(pool, min_amount) ==
  LET Bought(amount) == pump_buy_exact_quote_in(amount, pool).amount_out
  IN  /\ min_amount >= 8
      /\ 3 * (pool.lp + pool.protocol + pool.creator) <= Bps
      /\ \A distance \in 1..2 :
           /\ Bought(min_amount - distance) <= Bought(min_amount)
           /\ Bought(min_amount) <= Bought(min_amount + distance)

Production(direction, amount) ==
  IF direction = "PumpToMeteora"
    THEN IF Buy(amount).ok THEN ProductionLeg(Buy(amount).amount_out, market.target_is_x)
         ELSE NoCurveQuote
    ELSE IF market.cashback_ready THEN Sold(ProductionLeg(amount, ~market.target_is_x))
         ELSE NoCurveQuote

\* The first quote pays as the second, and names all arrays that it uses.
AnswersLike(short, full) ==
  full.ok /\ full.amount_out = short.amount_out /\ IsPrefix(full.used, short.used)

\* Both ways to select the fees agree on every config that both can read:
\* quote_probe measures the one, the program charges by the other.
SelectionsAgree ==
  LET Agree(config) ==
        config.ok =>
          select_pump_fees_from_data(accounts.pump) = select_pump_fees(config, accounts.pump)
  IN  Agree(parse_pump_fee_config(accounts.pump.fee_config))

\* The curve is the production walk, cut into segments: an amount that
\* DlmmCurve::quote() answers is answered alike by quote_dlmm_from_accounts();
\* one that only the latter answers is a unit more than what the curve covers.
\* (A unit that fee rounding leaves over goes to the bin it is left over from in
\* production, and on the curve to the next, whose array is then named too.)
\* For markets without dust.
CurveIsProduction ==
  LET Agree(curve, amount, short, full) ==
        /\ short.ok => AnswersLike(short, full)
        /\ full.ok /\ amount > 1 => curve_quote(curve, amount - 1).ok
      Covers(curve, swap_for_y) ==
        curve.stop_reason \notin CurveErrors =>
          \A amount \in 1..bounds.max_amount :
            Agree(curve, amount, curve_quote(curve, amount), ProductionLeg(amount, swap_for_y))
  IN  phase = "probe_forward" =>
        \A swap_for_y \in BOOLEAN :
          Covers(build_curve(market.pair, swap_for_y, market.timestamp, bounds.max_amount),
                 swap_for_y)

\* What select_dynamic() promises is what the production quotes of both legs
\* answer: "Every candidate is re-quoted with the production Pump and Meteora
\* arithmetic before it can be selected" (docs/architecture.md:34-35).
SelectedIsProduction ==
  selection.result \in Directions =>
    AnswersLike(selection.choice, Production(selection.result, selection.choice.amount_in))

\* What the directions pay for that amount, by the production quotes.
Paid(amount) ==
  {quote.amount_out - amount : quote \in {q \in {Production(d, amount) : d \in Directions} : q.ok}}

\* NoProfitableDirection is an answer about both directions (ADR-008): the
\* minimum has a production quote in each and pays too little in each.
NoProfitIsComplete ==
  selection.result = "NoProfitableDirection" =>
    /\ \A direction \in Directions : Production(direction, bounds.min_amount).ok
    /\ \A paid \in Paid(bounds.min_amount) : paid < bounds.min_profit

\* Of the directions that pass the gate, no amount in the range pays more than
\* the selected one, but for RoundingLoss: the ends of the segments and the
\* neighbourhood of the point inside are candidates enough.
NearOptimal ==
  LET Beaten(quote, amount) ==
        quote.ok /\ quote.amount_out >= amount + bounds.min_profit + RoundingLoss =>
          quote.amount_out - amount <= selection.choice.profit + RoundingLoss
  IN  selection.result \in Directions \cup {"NoProfitableDirection"} =>
        \A direction \in Directions :
          Production(direction, bounds.min_amount).amount_out > bounds.min_amount =>
            \A amount \in bounds.min_amount..bounds.max_amount :
              Beaten(Production(direction, amount), amount)

\* The interval test keeps the root of n / d if it lies between lower and upper.
\* (Where a factor is 0 the ratio is None, and there is no point to find.)
RootKept(ratio, n, d, lower, upper) ==
  n > 0 /\ lower * lower * d <= n /\ n <= upper * upper * d =>
    ~sqrt_interval_definitely_excludes(ratio, lower, upper)

ForwardKept(segment, begin, end) ==
  RootKept(forward_ratio(segment),
           Gain(segment) * market.pool.base_reserve * Bps * EffectiveReserve,
           Price(segment) * (Bps + TotalFee),
           forward_lower_root(begin), forward_upper_root(end))

ReverseKept(segment) ==
  RootKept(reverse_ratio(segment),
           Gain(segment) * EffectiveReserve * market.pool.base_reserve * (Bps - TotalFee),
           Price(segment) * Bps,
           market.pool.base_reserve + segment.output_start,
           market.pool.base_reserve + segment.output_end)

\* The interval test never drops a segment that has the point inside, although
\* it compares squares that were cut off in six products and quotients.
PrefilterKeepsRoots ==
  LET AllKept(segments) ==
        \A i \in DOMAIN segments :
          segments[i].output_end <= MaxExactOutput =>
            /\ ReverseKept(segments[i])
            /\ \A begin \in {1, bounds.min_amount},
                  end \in {bounds.min_amount + 1, bounds.max_amount} :
                 ForwardKept(segments[i], begin, end)
  IN  phase = "probe_forward" =>
        /\ AllKept(ForwardCurve(bounds.max_amount).segments)
        /\ AllKept(ReverseCurve(bounds.max_amount).segments)

\* The margin of the interval test for which it is proved: it covers what is lost
\* by numbers whose mantissas hold a u64.  The code's 32 of 64 bits is the least that does.
MarginCovers ==
  /\ U64Max < 2 * One /\ 16 <= One
  /\ 16 * U64Max <= RootMargin * One
  /\ 2 * (U64Max + 1) + RootMargin <= PowerOf2[WidestBits]

\* The fees fit a u64 with what they are parts of, as sums of u16 do.
FeesFit ==
  \A a \in Accounts :
    LET fees == select_pump_fees_from_data(a.pump).fees
    IN  Bps + fees.lp + fees.protocol + fees.creator <= U64Max

\* What is paid to a direction is not lost or lowered.
Kept(direction, direction_next) ==
  direction.best.some =>
    direction_next.best.some /\ direction_next.best.profit >= direction.best.profit

\* The search of the range never ends with less than the probe of the minimum
\* found: "An incomplete large amount never invalidates a smaller complete
\* candidate" (docs/architecture.md:46-47).
ProbeIsKept == [][Kept(forward, forward') /\ Kept(reverse, reverse')]_search_vars

\* What the comment at dynamic_amount.rs:404 and ADR-009 say: a direction whose
\* minimum has no gain has none at any other amount.  Violated: the variable fee
\* falls while the walk approaches the bin the volatility refers to.
MinimumDecides ==
  selection.result = "NoProfitableDirection" =>
    \A amount \in bounds.min_amount..bounds.max_amount :
      \A paid \in Paid(amount) : paid < bounds.min_profit
=============================================================================
