-------------------------- MODULE MCDynamicSearch --------------------------
(* Small markets for DynamicSearch: arrays of two bins, at most two arrays and   *)
(* four bins to a walk, fees of at most a tenth.                           *)
EXTENDS QuoteProbe

MCDefaultArrays == -2..1

Fees == [base_factor |-> 1, bin_step |-> 1, power |-> 1, variable_fee_control |-> 1,
         filter_period |-> 2, decay_period |-> 4, reduction_factor |-> 10,
         max_volatility |-> 80]

\* The tiers of a config are the fees 0, 1 and 2 in this order of thresholds.
FeeConfig(flat, tier_count, thresholds) ==
  [flat |-> flat, tier_count |-> tier_count,
   tiers |-> [i \in DOMAIN thresholds |->
               [threshold |-> thresholds[i], fees |-> PumpFees(i - 1, i - 1, 2 * (i - 1))]]]

PumpAccounts(base, quote, virtual, supply, is_pump_pool, has_creator, fee_config) ==
  [base_reserve |-> base, quote_reserve |-> quote, virtual |-> virtual, supply |-> supply,
   is_pump_pool |-> is_pump_pool, has_creator |-> has_creator,
   global |-> PumpFees(0, 0, 0), fee_config |-> fee_config]

NoTiers     == FeeConfig(PumpFees(2, 1, 0), 0, <<>>)
FlatCreator == FeeConfig(PumpFees(2, 1, 3), 0, <<>>)
TwoTiers    == FeeConfig(PumpFees(0, 0, 0), 2, <<0, 5>>)

\* The fees are 0, 0, 0, then 2, 1, 0, then 1, 1, 2.
Pumps ==
  {PumpAccounts(100, 120, 20, 1, TRUE, TRUE, NoTiers),
   PumpAccounts(100, 120, 0, 1, FALSE, FALSE, FlatCreator),
   PumpAccounts(180, 120, 20, 9, TRUE, TRUE, TwoTiers)}

\* Market caps below, between and above thresholds out of order; configs that
\* state fewer tiers than there are, or more; a reserve that does not fit a u64.
OddPumps ==
  {PumpAccounts(base, 120, virtual, supply, TRUE, has_creator,
                FeeConfig(PumpFees(0, 0, 0), tier_count, thresholds)) :
     base \in {0, 180}, virtual \in {20, U64Max}, supply \in {1, 9, 40},
     has_creator \in BOOLEAN, tier_count \in 0..4, thresholds \in {<<5, 20, 8>>, <<8>>}}

\* x at the active bin and above it, y at it and below it; the bin `deep` has
\* more than fits a u64 at its price.
PairBins(active, price, x, y, deep) ==
  [id \in -4..5 |->
     [price |-> price + 2 * id,
      x |-> IF id < active THEN 0 ELSE IF id = deep THEN U64Max ELSE x,
      y |-> IF id > active THEN 0 ELSE IF id = deep THEN U64Max ELSE y,
      open |-> 0, processed |-> 0, ask |-> FALSE]]

Pair(active, bins, arrays, reference, mode, limit_orders) ==
  [active_id |-> active, bins |-> bins, bitmap |-> {-2, -1, 0}, extension |-> {2},
   arrays |-> arrays, fees |-> Fees,
   variable |-> [accumulator |-> 20, reference |-> 0, index_reference |-> reference,
                 updated |-> 0],
   collect_fee_mode |-> mode, limit_orders |-> limit_orders]

\* No bin is so small that the fee takes all of it.
Pairs ==
  {Pair(active, PairBins(active, price, size, size, 9), arrays, reference, mode, FALSE) :
     active \in {0, 1}, price \in {10, 18, 26}, size \in {4, 60},
     arrays \in {{-1, 0, 2}, {0}}, reference \in {-2, 0}, mode \in {0, 1}}

\* A bin too deep to quote, and bins with limit orders.
OddPairs ==
  {Pair(0, PairBins(0, 10, 7, 7, deep), {-1, 0}, 0, 0, FALSE) : deep \in {-1, 0, 1}}
    \cup {Pair(0, [PairBins(0, price, 7, 7, 9) EXCEPT ![0].open = 4, ![0].processed = 2,
                                                    ![0].ask = ask],
              {-1, 0}, 0, 0, TRUE) : price \in {10, 18}, ask \in BOOLEAN}

AccountsOf(pumps, pairs) ==
  {[pump |-> pump, pair |-> pair, target_is_x |-> target_is_x,
    cashback_ready |-> cashback_ready, timestamp |-> timestamp] :
     pump \in pumps, pair \in pairs, target_is_x \in BOOLEAN,
     cashback_ready \in BOOLEAN, timestamp \in {1, 3}}

MCAccounts ==
  AccountsOf(Pumps, Pairs \cup OddPairs)
    \cup {a \in AccountsOf(OddPumps, {Pair(0, PairBins(0, 18, 60, 60, 9), {-1, 0}, 0, 0, FALSE)}) :
            a.target_is_x /\ a.cashback_ready /\ a.timestamp = 1}

\* The theorems speak of these markets.
ASSUME MarketsAssumption == \A a \in MCAccounts : Smooth(a.pair)

\* One unit is left of an order or of a position in the first bin.
DustAccounts ==
  AccountsOf(Pumps, {Pair(0, [PairBins(0, 18, 12, 12, 9) EXCEPT ![0].x = 1, ![0].y = 1],
                          {-1, 0}, 0, 1, FALSE)})

\* The volatility refers to the bin two below the active one, and was updated
\* less than filter_period ago: a walk down starts with the highest fee.
FallingFeeAccounts ==
  {a \in AccountsOf({PumpAccounts(8000, 10000, 0, 1, TRUE, TRUE, NoTiers)},
                    {Pair(0, PairBins(0, price, size, size, 9), {-2, -1, 0}, -2, 0, FALSE) :
                       price \in 140..143, size \in {60, 80, 100, 150}}) :
     a.target_is_x /\ a.cashback_ready /\ a.timestamp = 1}

Amounts(min_amount, max_amount) ==
  [min_amount |-> min_amount, max_amount |-> max_amount, min_profit |-> 1]

MCBounds == {Amounts(8, 56), Amounts(8, 8)}

\* The one about the interval test speaks of these numbers, margins and fees.
ASSUME MarginAssumption == MarginCovers /\ FeesFit

\* So do those about the probe of the minimum.
ASSUME MinimumsAssumption ==
  Accounts = MCAccounts => \A a \in Accounts, b \in Bounds :
    LET fees == select_pump_fees_from_data(a.pump)
    IN  fees.ok => Steady(Pool(a.pump, fees.fees), b.min_amount)

\* Small amounts, of which several pay the same.
MCTrials == <<8, 9, 10, 11, 24, 40, 56>>

FallingFeeBounds == {[min_amount |-> 100, max_amount |-> 500, min_profit |-> 5]}
=============================================================================
