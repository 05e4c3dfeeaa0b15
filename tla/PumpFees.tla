------------------------------- MODULE PumpFees -------------------------------
(***************************************************************************)
(* Which fees a Pump pool charges, from the accounts of an instruction     *)
(* (quote/accounts.rs) and as parse_market() of dynamic_amount.rs takes    *)
(* them.                                                                   *)
(*                                                                         *)
(* A fee config account is a record: flat fees, the tier_count it states,  *)
(* and the tiers that the length of its data has room for.  That a fee     *)
(* fits a u16 and that the data has its fixed part are left out.           *)
(***************************************************************************)
EXTENDS QuoteMath, SequencesExt

CONSTANT MaxTiers  \* 64

ASSUME TiersAssumption == MaxTiers \in Nat \ {0}

PumpFees(lp, protocol, creator) == [lp |-> lp, protocol |-> protocol, creator |-> creator]

Selected(fees) == [fees |-> fees, ok |-> TRUE]
NoFees         == [fees |-> PumpFees(0, 0, 0), ok |-> FALSE]

TierCountFits(data) == data.tier_count \in 1..MaxTiers /\ data.tier_count <= Len(data.tiers)

parse_pump_fee_config(data) ==
  [ok |-> TierCountFits(data), flat |-> data.flat,
   tiers |-> IF TierCountFits(data) THEN SubSeq(data.tiers, 1, data.tier_count) ELSE <<>>]

\* The last tier whose threshold is reached; below all of them, the first one.
TierFees(tiers, market_cap) ==
  LET reached == {i \in DOMAIN tiers : market_cap >= tiers[i].threshold}
  IN  tiers[IF reached = {} THEN 1 ELSE Max(reached)].fees

market_cap(pump) == ((pump.quote_reserve + pump.virtual) * pump.supply) \div pump.base_reserve

\* The mistake of reading all tiers the data has room for, for SelectionsAgree.
AllTiersRead(pump) ==
  IF ~pump.is_pump_pool THEN Selected(pump.fee_config.flat)
  ELSE IF pump.base_reserve = 0 THEN NoFees
  ELSE IF ~TierCountFits(pump.fee_config)
    THEN IF pump.fee_config.tier_count = 0 THEN Selected(pump.global) ELSE NoFees
  ELSE Selected(TierFees(pump.fee_config.tiers, market_cap(pump)))

\* From the bytes of the account, tier by tier.
select_pump_fees_from_data(pump) ==
  IF ~pump.is_pump_pool THEN Selected(pump.fee_config.flat)
  ELSE IF pump.base_reserve = 0 THEN NoFees
  ELSE IF ~TierCountFits(pump.fee_config)
    THEN IF pump.fee_config.tier_count = 0 THEN Selected(pump.global) ELSE NoFees
  ELSE Selected(TierFees(SubSeq(pump.fee_config.tiers, 1, pump.fee_config.tier_count),
                         market_cap(pump)))

\* From the config that parse_pump_fee_config() returns.
select_pump_fees(config, pump) ==
  IF ~pump.is_pump_pool THEN Selected(config.flat)
  ELSE IF pump.base_reserve = 0 \/ config.tiers = <<>> THEN NoFees
  ELSE Selected(TierFees(config.tiers, market_cap(pump)))

\* The pool of parse_market(): nobody is paid the fee of a creator there is not.
Pool(pump, fees) ==
  [base_reserve |-> pump.base_reserve, quote_reserve |-> pump.quote_reserve,
   virtual |-> pump.virtual, lp |-> fees.lp, protocol |-> fees.protocol,
   creator |-> IF pump.has_creator THEN fees.creator ELSE 0]

ReserveOverflows(pump) == pump.quote_reserve + pump.virtual > U64Max
=============================================================================
