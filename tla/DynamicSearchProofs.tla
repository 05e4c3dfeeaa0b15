------------------------- MODULE DynamicSearchProofs -------------------------
(***************************************************************************)
(* Proofs about the walks of DlmmCurve, DynamicSearch and QuoteProbe, for  *)
(* all markets, amounts and units: by induction over the rounds of a loop. *)
(* The induction theorems of the library take the induction hypothesis as  *)
(* an operator, which the provers cannot instantiate; here it is a set of  *)
(* numbers, the rounds after which it holds.                               *)
(***************************************************************************)
EXTENDS QuoteProbe, QuoteMathProofs, WellFoundedInduction, SequenceTheorems

-----------------------------------------------------------------------------
(* Induction over numbers, and the least and the greatest of a set.        *)

LEMMA LeastNumber ==
  ASSUME NEW S, S \subseteq Nat, S # {}
  PROVE  \E x \in S : \A y \in S : x <= y
  <1> DEFINE below == OpToRel(<, Nat)
  <1>1. IsWellFoundedOn(below, Nat)
    BY NatLessThanWellFounded
  <1>2. \A y \in Nat, x \in Nat : y < x => <<y, x>> \in below
    BY DEF OpToRel
  <1> HIDE DEF below
  <1>3. PICK x \in S : \A y \in S : ~(<<y, x>> \in below)
    BY <1>1, WFMin
  <1>4. ASSUME NEW y \in S
        PROVE  x <= y
    <2>1. x \in Nat /\ y \in Nat /\ ~(y < x)
      BY <1>2, <1>3
    <2>2. QED
      BY <2>1
  <1>5. QED
    BY <1>4

LEMMA GreatestNumber ==
  ASSUME NEW S, S \subseteq Int, S # {}, NEW top \in Int, \A x \in S : x <= top
  PROVE  \E x \in S : \A y \in S : y <= x
  <1> DEFINE gaps == {top - x : x \in S}
  <1>1. gaps \subseteq Nat /\ gaps # {}
    <2>1. \A x \in S : x \in Int /\ x <= top
      OBVIOUS
    <2>2. \A x \in S : top - x \in Nat
      BY <2>1
    <2>3. QED
      BY <2>2
  <1>2. PICK g \in gaps : \A h \in gaps : g <= h
    BY <1>1, LeastNumber
  <1>3. PICK x \in S : g = top - x
    BY <1>2
  <1>4. ASSUME NEW y \in S
        PROVE  y <= x
    <2>1. top - y \in gaps
      OBVIOUS
    <2>2. top - x <= top - y
      BY <1>2, <1>3, <2>1
    <2>3. QED
      BY <2>2
  <1>5. QED
    BY <1>4

\* What holds of 0, and of a number whenever of the one before, holds up to m.
LEMMA InductionUpTo ==
  ASSUME NEW m \in Nat, NEW S, 0 \in S,
         \A n \in 0..(m - 1) : n \in S => n + 1 \in S
  PROVE  \A n \in 0..m : n \in S
  <1> DEFINE rest == {n \in 0..m : n \notin S}
  <1>1. SUFFICES ASSUME rest # {} PROVE FALSE
    OBVIOUS
  <1>2. PICK x \in rest : \A y \in rest : x <= y
    <2>1. rest \subseteq Nat
      OBVIOUS
    <2> HIDE DEF rest
    <2>2. QED
      BY <1>1, <2>1, LeastNumber
  <1>3. x \in 0..m /\ x \notin S /\ x # 0
    BY <1>2
  <1>4. x - 1 \in 0..(m - 1) /\ x - 1 \notin rest
    BY <1>2, <1>3
  <1>5. x - 1 \in S
    BY <1>3, <1>4
  <1>6. (x - 1) + 1 \in S /\ (x - 1) + 1 = x
    BY <1>3, <1>4, <1>5
  <1>7. QED
    BY <1>3, <1>6

-----------------------------------------------------------------------------
(* A recursive function is a CHOOSE of a function that solves its equation. *)
(* For the walks there is one, because a round needs only the state before. *)

\* One round of any of the loops, with what the loop is given.
Round(loop, x, w, n) ==
  IF loop = "production" THEN TakeFromBin(w, x[1], x[2])
  ELSE IF loop = "snapshot" THEN TakeFromSnapshotBin(w, x[1], x[2])
  ELSE IF loop = "curve" THEN AddSegment(w, x[1], x[2], x[3])
  ELSE IF loop = "halving" THEN Halved(w, x)
  ELSE IF loop = "trials" THEN BothOffered(w, x[n])
  ELSE IF loop = "powers" THEN 2 * w
  ELSE IF loop = "newton" THEN Improved(x, w)
  ELSE IF loop = "product" THEN multiply(w, from_u128(x[n]))
  ELSE IF loop = "ratio" THEN divide(w, from_u128(x[n]))
  ELSE AddCandidates(w, x[1][n], x[2], x[3])

\* g is the loop from the first state on, for m rounds.
Follows(g, loop, x, first, m) ==
  g = [n \in 0..m |-> IF n = 0 THEN first ELSE Round(loop, x, g[n - 1], n)]

LEMMA WalkExists ==
  ASSUME NEW loop, NEW x, NEW first, NEW m \in Nat
  PROVE  \E g : Follows(g, loop, x, first, m)
  <1> DEFINE R(w, n) == Round(loop, x, w, n)
             Solves(g, k) == g = [n \in 0..k |-> IF n = 0 THEN first ELSE R(g[n - 1], n)]
             solved == {k \in Nat : \E g : Solves(g, k)}
  <1> HIDE DEF R
  <1>1. 0 \in solved
    <2> DEFINE g == [n \in 0..0 |-> first]
    <2>1. g = [n \in 0..0 |-> IF n = 0 THEN first ELSE R(g[n - 1], n)]
      OBVIOUS
    <2> HIDE DEF g
    <2>2. QED
      BY <2>1
  <1>2. ASSUME NEW k \in 0..(m - 1), k \in solved
        PROVE  k + 1 \in solved
    <2>1. PICK g : g = [n \in 0..k |-> IF n = 0 THEN first ELSE R(g[n - 1], n)]
      BY <1>2
    <2> DEFINE h == [n \in 0..(k + 1) |-> IF n = k + 1 THEN R(g[k], n) ELSE g[n]]
    <2>2. ASSUME NEW n \in 0..(k + 1)
          PROVE  h[n] = IF n = 0 THEN first ELSE R(h[n - 1], n)
      <3>1. CASE n = k + 1
        <4>1. n # 0 /\ n - 1 = k /\ k \in 0..(k + 1) /\ k # k + 1
          BY <3>1
        <4>2. h[k] = g[k] /\ h[n] = R(g[k], n)
          BY <3>1, <4>1
        <4> HIDE DEF h
        <4>3. QED
          BY <4>1, <4>2
      <3>2. CASE n # k + 1
        <4>1. n \in 0..k /\ h[n] = g[n]
          BY <3>2
        <4>2. g[n] = IF n = 0 THEN first ELSE R(g[n - 1], n)
          BY <2>1, <4>1
        <4>3. n # 0 => n - 1 \in 0..(k + 1) /\ n - 1 # k + 1
          BY <3>2
        <4>4. n # 0 => h[n - 1] = g[n - 1]
          BY <4>3
        <4> HIDE DEF h
        <4>5. QED
          BY <4>1, <4>2, <4>4
      <3>3. QED
        BY <3>1, <3>2
    <2>3. h = [n \in 0..(k + 1) |-> h[n]]
      OBVIOUS
    <2> HIDE DEF h
    <2>4. h = [n \in 0..(k + 1) |-> IF n = 0 THEN first ELSE R(h[n - 1], n)]
      BY <2>2, <2>3
    <2>5. QED
      BY <2>4
  <1> HIDE DEF solved
  <1>3. m \in solved
    BY <1>1, <1>2, InductionUpTo
  <1>4. QED
    BY <1>3 DEF solved, R, Follows

LEMMA ProductionRounds ==
  ASSUME NEW amount_in, NEW pair, NEW swap_for_y, NEW timestamp
  PROVE  LET walk == ProductionWalk(amount_in, pair, swap_for_y, timestamp)
         IN  /\ walk[0] = QuoteStart(amount_in, pair, timestamp)
             /\ \A n \in 0..(MaxBins - 1) :
                  walk[n + 1] = TakeFromBin(walk[n], pair, swap_for_y)
  <1> DEFINE x     == <<pair, swap_for_y>>
             first == QuoteStart(amount_in, pair, timestamp)
             walk  == ProductionWalk(amount_in, pair, swap_for_y, timestamp)
             S(w)  == TakeFromBin(w, pair, swap_for_y)
  <1>1. \A w, n : Round("production", x, w, n) = S(w)
    BY DEF Round
  <1> HIDE DEF S, x, first
  <1>2. \E g : g = [n \in 0..MaxBins |-> IF n = 0 THEN first ELSE S(g[n - 1])]
    <2>1. PICK g : Follows(g, "production", x, first, MaxBins)
      BY WalkExists, WalkAssumption
    <2>2. g = [n \in 0..MaxBins |-> IF n = 0 THEN first ELSE S(g[n - 1])]
      BY <1>1, <2>1 DEF Follows
    <2>3. QED
      BY <2>2
  <1>3. walk = [n \in 0..MaxBins |-> IF n = 0 THEN first ELSE S(walk[n - 1])]
    BY <1>2 DEF ProductionWalk, S, first
  <1> HIDE DEF walk
  <1>4. walk[0] = first
    BY <1>3, WalkAssumption
  <1>5. ASSUME NEW n \in 0..(MaxBins - 1)
        PROVE  walk[n + 1] = S(walk[n])
    <2>1. n + 1 \in 0..MaxBins /\ n + 1 # 0 /\ (n + 1) - 1 = n
      BY WalkAssumption
    <2>2. QED
      BY <1>3, <2>1
  <1>6. QED
    BY <1>4, <1>5 DEF walk, first, S

LEMMA SnapshotRounds ==
  ASSUME NEW amount_in, NEW pair, NEW swap_for_y, NEW timestamp
  PROVE  LET walk == SnapshotWalk(amount_in, pair, swap_for_y, timestamp)
         IN  /\ walk[0] = QuoteStart(amount_in, pair, timestamp)
             /\ \A n \in 0..(MaxBins - 1) :
                  walk[n + 1] = TakeFromSnapshotBin(walk[n], pair, swap_for_y)
  <1> DEFINE x     == <<pair, swap_for_y>>
             first == QuoteStart(amount_in, pair, timestamp)
             walk  == SnapshotWalk(amount_in, pair, swap_for_y, timestamp)
             S(w)  == TakeFromSnapshotBin(w, pair, swap_for_y)
  <1>1. \A w, n : Round("snapshot", x, w, n) = S(w)
    BY DEF Round
  <1> HIDE DEF S, x, first
  <1>2. \E g : g = [n \in 0..MaxBins |-> IF n = 0 THEN first ELSE S(g[n - 1])]
    <2>1. PICK g : Follows(g, "snapshot", x, first, MaxBins)
      BY WalkExists, WalkAssumption
    <2>2. g = [n \in 0..MaxBins |-> IF n = 0 THEN first ELSE S(g[n - 1])]
      BY <1>1, <2>1 DEF Follows
    <2>3. QED
      BY <2>2
  <1>3. walk = [n \in 0..MaxBins |-> IF n = 0 THEN first ELSE S(walk[n - 1])]
    BY <1>2 DEF SnapshotWalk, S, first
  <1> HIDE DEF walk
  <1>4. walk[0] = first
    BY <1>3, WalkAssumption
  <1>5. ASSUME NEW n \in 0..(MaxBins - 1)
        PROVE  walk[n + 1] = S(walk[n])
    <2>1. n + 1 \in 0..MaxBins /\ n + 1 # 0 /\ (n + 1) - 1 = n
      BY WalkAssumption
    <2>2. QED
      BY <1>3, <2>1
  <1>6. QED
    BY <1>4, <1>5 DEF walk, first, S

LEMMA CurveRounds ==
  ASSUME NEW pair, NEW swap_for_y, NEW timestamp, NEW input_limit
  PROVE  LET walk == CurveWalk(pair, swap_for_y, timestamp, input_limit)
         IN  /\ walk[0] = CurveStart(pair, timestamp)
             /\ \A n \in 0..(MaxBins - 1) :
                  walk[n + 1] = AddSegment(walk[n], pair, swap_for_y, input_limit)
  <1> DEFINE x     == <<pair, swap_for_y, input_limit>>
             first == CurveStart(pair, timestamp)
             walk  == CurveWalk(pair, swap_for_y, timestamp, input_limit)
             S(w)  == AddSegment(w, pair, swap_for_y, input_limit)
  <1>1. \A w, n : Round("curve", x, w, n) = S(w)
    BY DEF Round
  <1> HIDE DEF S, x, first
  <1>2. \E g : g = [n \in 0..MaxBins |-> IF n = 0 THEN first ELSE S(g[n - 1])]
    <2>1. PICK g : Follows(g, "curve", x, first, MaxBins)
      BY WalkExists, WalkAssumption
    <2>2. g = [n \in 0..MaxBins |-> IF n = 0 THEN first ELSE S(g[n - 1])]
      BY <1>1, <2>1 DEF Follows
    <2>3. QED
      BY <2>2
  <1>3. walk = [n \in 0..MaxBins |-> IF n = 0 THEN first ELSE S(walk[n - 1])]
    BY <1>2 DEF CurveWalk, S, first
  <1> HIDE DEF walk
  <1>4. walk[0] = first
    BY <1>3, WalkAssumption
  <1>5. ASSUME NEW n \in 0..(MaxBins - 1)
        PROVE  walk[n + 1] = S(walk[n])
    <2>1. n + 1 \in 0..MaxBins /\ n + 1 # 0 /\ (n + 1) - 1 = n
      BY WalkAssumption
    <2>2. QED
      BY <1>3, <2>1
  <1>6. QED
    BY <1>4, <1>5 DEF walk, first, S

-----------------------------------------------------------------------------
(* Sequences of array indices.                                             *)

LEMMA PrefixForm ==
  ASSUME NEW S, NEW s \in Seq(S), NEW t \in Seq(S)
  PROVE  IsPrefix(s, t) <=> /\ Len(s) <= Len(t)
                            /\ \A i \in 1..Len(s) : s[i] = t[i]
  <1>1. Len(s) \in Nat /\ Len(t) \in Nat
    OBVIOUS
  <1>2. SubSeq(s, 1, Len(s)) = [i \in 1..Len(s) |-> s[i]]
    OBVIOUS
  <1>3. Len(s) <= Len(t) => SubSeq(t, 1, Len(s)) = [i \in 1..Len(s) |-> t[i]]
    OBVIOUS
  <1>4. QED
    BY <1>1, <1>2, <1>3 DEF IsPrefix

\* A walk keeps the arrays it has used, and adds one at the end.
LEMMA UsedFacts ==
  ASSUME NEW S, NEW used \in Seq(S), NEW index \in S
  PROVE  /\ Used(used, index) \in Seq(S)
         /\ IsPrefix(used, used)
         /\ \A s \in Seq(S) : IsPrefix(s, used) => IsPrefix(s, Used(used, index))
  <1> DEFINE longer == Append(used, index)
  <1>1. /\ longer \in Seq(S) /\ Len(longer) = Len(used) + 1 /\ Len(used) \in Nat
        /\ \A i \in 1..Len(used) : longer[i] = used[i]
    BY AppendProperties
  <1>2. Used(used, index) = used \/ Used(used, index) = longer
    BY DEF Used
  <1> HIDE DEF longer
  <1>3. ASSUME NEW s \in Seq(S), IsPrefix(s, used)
        PROVE  IsPrefix(s, longer)
    <2>1. Len(s) <= Len(used) /\ Len(s) \in Nat /\ \A i \in 1..Len(s) : s[i] = used[i]
      BY <1>3, PrefixForm
    <2>2. Len(s) <= Len(longer) /\ \A i \in 1..Len(s) : s[i] = longer[i]
      BY <1>1, <2>1
    <2>3. QED
      BY <1>1, <2>2, PrefixForm
  <1>4. IsPrefix(used, used)
    BY PrefixForm
  <1>5. QED
    BY <1>1, <1>2, <1>3, <1>4

-----------------------------------------------------------------------------
(* The fees of Pump.                                                       *)

\* The tier that is charged is one of them.
LEMMA TierFacts ==
  ASSUME NEW tiers \in Seq([threshold : Nat, fees : FeeRates]), tiers # <<>>, NEW cap
  PROVE  TierFees(tiers, cap) \in FeeRates
  <1> DEFINE reached == {i \in DOMAIN tiers : cap >= tiers[i].threshold}
             tier    == IF reached = {} THEN 1 ELSE Max(reached)
  <1>1. Len(tiers) \in Nat \ {0} /\ DOMAIN tiers = 1..Len(tiers)
    BY EmptySeq, LenProperties
  <1>2. reached \subseteq 1..Len(tiers)
    BY <1>1
  <1> HIDE DEF reached
  <1>3. reached # {} => Max(reached) \in reached
    <2>1. SUFFICES ASSUME reached # {}
                   PROVE  Max(reached) \in reached
      OBVIOUS
    <2>2. \E i \in reached : \A j \in reached : j <= i
      <3>1. reached \subseteq Int /\ Len(tiers) \in Int /\ \A i \in reached : i <= Len(tiers)
        BY <1>1, <1>2
      <3>2. QED
        BY <2>1, <3>1, GreatestNumber
    <2>3. \E i \in reached : \A j \in reached : i >= j
      BY <1>2, <2>2
    <2>4. QED
      BY <2>3 DEF Max
  <1>4. tier \in 1..Len(tiers)
    <2>1. 1 \in 1..Len(tiers)
      BY <1>1
    <2>2. reached # {} => Max(reached) \in 1..Len(tiers)
      BY <1>2, <1>3
    <2>3. QED
      BY <2>1, <2>2
  <1> HIDE DEF tier
  <1>5. tiers[tier] \in [threshold : Nat, fees : FeeRates]
    BY <1>4, ElementOfSeq
  <1>6. TierFees(tiers, cap) = tiers[tier].fees
    BY DEF TierFees, tier, reached
  <1>7. QED
    BY <1>5, <1>6

LEMMA ReadTiers ==
  ASSUME NEW pump \in PumpData, TierCountFits(pump.fee_config)
  PROVE  LET tiers == SubSeq(pump.fee_config.tiers, 1, pump.fee_config.tier_count)
         IN  tiers \in Seq([threshold : Nat, fees : FeeRates]) /\ tiers # <<>>
  <1> DEFINE Tiers == [threshold : Nat, fees : FeeRates]
             all   == pump.fee_config.tiers
             count == pump.fee_config.tier_count
  <1>1. all \in Seq(Tiers) /\ count \in Nat /\ count \in 1..MaxTiers /\ count <= Len(all)
    BY DEF PumpData, TierCountFits
  <1> HIDE DEF Tiers, all, count
  <1>2. count >= 1 /\ Len(all) \in Nat
    BY <1>1
  <1>3. \A i \in 1..count : all[i] \in Tiers
    BY <1>1, <1>2, ElementOfSeq
  <1>4. SubSeq(all, 1, count) \in Seq(Tiers) /\ Len(SubSeq(all, 1, count)) = count
    BY <1>1, <1>2, <1>3, SubSeqProperties
  <1>5. SubSeq(all, 1, count) # <<>>
    <2>1. Len(<<>>) = 0 /\ count # 0
      BY <1>2
    <2>2. QED
      BY <1>4, <2>1
  <1>6. QED
    BY <1>4, <1>5 DEF Tiers, all, count

LEMMA FeesAreTyped ==
  ASSUME NEW pump \in PumpData, select_pump_fees_from_data(pump).ok
  PROVE  select_pump_fees_from_data(pump).fees \in FeeRates
  <1>1. pump.fee_config.flat \in FeeRates /\ pump.global \in FeeRates
    BY DEF PumpData
  <1>2. TierCountFits(pump.fee_config) =>
          TierFees(SubSeq(pump.fee_config.tiers, 1, pump.fee_config.tier_count), market_cap(pump))
            \in FeeRates
    BY ReadTiers, TierFacts
  <1>3. QED
    BY <1>1, <1>2 DEF select_pump_fees_from_data, Selected, NoFees

\* The fees that the program charges, read tier by tier from the bytes of the
\* config, are those that quote_probe measures with the config it has parsed.
LEMMA FeesAgree ==
  ASSUME NEW pump \in PumpData, parse_pump_fee_config(pump.fee_config).ok
  PROVE  select_pump_fees_from_data(pump)
           = select_pump_fees(parse_pump_fee_config(pump.fee_config), pump)
  <1> DEFINE config == parse_pump_fee_config(pump.fee_config)
             tiers  == SubSeq(pump.fee_config.tiers, 1, pump.fee_config.tier_count)
  <1>1. TierCountFits(pump.fee_config)
    BY DEF parse_pump_fee_config
  <1>2. config.tiers = tiers /\ config.flat = pump.fee_config.flat
    BY <1>1 DEF parse_pump_fee_config
  <1>3. tiers # <<>>
    BY <1>1, ReadTiers
  <1> HIDE DEF config, tiers
  <1>4. QED
    BY <1>1, <1>2, <1>3 DEF select_pump_fees, select_pump_fees_from_data, config, tiers

-----------------------------------------------------------------------------
(* The market that is parsed.                                              *)

ChargedFees == select_pump_fees_from_data(accounts.pump)

ParsedMarket ==
  [parsed |-> TRUE, pool |-> Pool(accounts.pump, ChargedFees.fees), pair |-> accounts.pair,
   target_is_x |-> accounts.target_is_x, cashback_ready |-> accounts.cashback_ready,
   timestamp |-> accounts.timestamp]

Phases == {"parse_market", "probe_forward", "probe_reverse", "search_forward", "search_reverse",
           "decide", "done"}

\* The accounts and the bounds are those of the instruction, and the market is
\* theirs from its parsing on.
MarketInv ==
  /\ accounts \in Accounts /\ bounds \in Bounds
  /\ phase \in Phases
  /\ \/ market = NoMarket /\ phase \in {"parse_market", "done"}
     \/ /\ market = ParsedMarket /\ phase # "parse_market"
        /\ ~ReserveOverflows(accounts.pump) /\ ChargedFees.ok

LEMMA MarketInvInit ==
  ASSUME SearchInit PROVE MarketInv
  BY DEF SearchInit, MarketInv, Phases

\* Only the first step reads the accounts, and no step changes them.
LEMMA MarketInvNext ==
  ASSUME MarketInv, [SearchNext]_search_vars PROVE MarketInv'
  <1>1. CASE UNCHANGED search_vars
    BY <1>1 DEF MarketInv, search_vars, ParsedMarket, ChargedFees
  <1>2. CASE ParseMarket
    <2>1. UNCHANGED <<accounts, bounds>> /\ market = NoMarket
      BY <1>2 DEF ParseMarket, MarketInv, Phases
    <2>2. \/ phase' = "done" /\ UNCHANGED market
          \/ /\ phase' = "probe_forward" /\ market' = ParsedMarket
             /\ ~ReserveOverflows(accounts.pump) /\ ChargedFees.ok
      BY <1>2 DEF ParseMarket, Parsed, Refused, ParsedMarket, ChargedFees
    <2>3. (ParsedMarket = ParsedMarket') /\ (ChargedFees = ChargedFees')
      BY <2>1 DEF ParsedMarket, ChargedFees
    <2>4. QED
      BY <2>1, <2>2, <2>3 DEF MarketInv, Phases
  <1>3. CASE \/ ProbeForward \/ ProbeReverse \/ SkipReverse
             \/ SearchForward \/ SearchReverse \/ KeepProbe \/ Decide
    <2>1. /\ UNCHANGED <<accounts, bounds, market>>
          /\ phase # "parse_market" /\ phase # "done"
          /\ phase' \in Phases \ {"parse_market"}
      BY <1>3 DEF ProbeForward, ProbeReverse, SkipReverse, SearchForward, SearchReverse, KeepProbe,
                  Decide, Failed, ProbedForward, ProbedReverse, SearchedForward, SearchedReverse,
                  Phases
    <2>2. (ParsedMarket = ParsedMarket') /\ (ChargedFees = ChargedFees')
      BY <2>1 DEF ParsedMarket, ChargedFees
    <2>3. QED
      BY <2>1, <2>2 DEF MarketInv, Phases
  <1>4. QED
    BY <1>1, <1>2, <1>3 DEF SearchNext

LEMMA MarketInvariant == SearchSpec => []MarketInv
  BY MarketInvInit, MarketInvNext, PTL DEF SearchSpec

\* For all configs of a Pump pool, of any number of tiers in any order: what
\* quote_probe measures with is what the program charges.
THEOREM SelectionsAgreeAlways == SearchSpec => []SelectionsAgree
  <1>1. MarketInv => SelectionsAgree
    <2>1. SUFFICES ASSUME MarketInv, parse_pump_fee_config(accounts.pump.fee_config).ok
                   PROVE  select_pump_fees_from_data(accounts.pump)
                            = select_pump_fees(parse_pump_fee_config(accounts.pump.fee_config),
                                               accounts.pump)
      BY DEF SelectionsAgree
    <2>2. accounts.pump \in PumpData
      BY <2>1, AccountsAssumption DEF MarketInv
    <2>3. QED
      BY <2>1, <2>2, FeesAgree
  <1>2. QED
    BY <1>1, MarketInvariant, PTL

-----------------------------------------------------------------------------
(* What a walk meets: bins, fees, and the parts that bins take.            *)

Variables == [accumulator : Nat, reference : Nat, index_reference : Int, updated : Int]

LEMMA IndexFacts ==
  ASSUME NEW id \in Int
  PROVE  /\ bin_array_index(id) \in Int
         /\ id \in BinsOf(bin_array_index(id))
  <1> DEFINE b == BinsPerArray
             q == id \div b
  <1>1. b \in Nat \ {0}
    BY WalkAssumption
  <1>2. q \in Int /\ q * b <= id /\ id < q * b + b
    BY <1>1
  <1>3. id \in (q * b)..(q * b + b - 1)
    <2>1. q * b \in Int
      BY <1>1, <1>2
    <2> DEFINE p == q * b
    <2>2. p \in Int /\ p <= id /\ id < p + b /\ b \in Int
      BY <1>1, <1>2, <2>1
    <2> HIDE DEF p
    <2>3. id \in p..(p + b - 1)
      BY <2>2
    <2>4. QED
      BY <2>3 DEF p
  <1>4. QED
    BY <1>2, <1>3 DEF bin_array_index, BinsOf

LEMMA BinFacts ==
  ASSUME NEW pair, IsPair(pair), NEW id \in Int, bin_array_index(id) \in pair.arrays
  PROVE  Bin(pair, id) \in BinData
  <1>1. pair.bins[id] \in BinData
    BY IndexFacts DEF IsPair
  <1>2. QED
    BY <1>1 DEF Bin, BinData

LEMMA StartFacts ==
  ASSUME NEW pair, IsPair(pair), NEW timestamp \in Int
  PROVE  Start(pair, timestamp) \in Variables
  <1> DEFINE kept == (pair.variable.accumulator * pair.fees.reduction_factor) \div Bps
  <1>1. pair.variable \in Variables /\ pair.active_id \in Int /\ pair.fees.reduction_factor \in Nat
    BY DEF IsPair, Variables
  <1>2. pair.variable.accumulator * pair.fees.reduction_factor \in Nat
    BY <1>1 DEF Variables
  <1>3. kept \in Nat
    BY <1>2, UnitsAssumption, DivFacts
  <1> HIDE DEF kept
  <1>4. update_reference(pair.active_id, pair.variable, pair.fees, timestamp) \in Variables
    BY <1>1, <1>3 DEF update_reference, kept, Variables
  <1>5. QED
    BY <1>4 DEF Start

LEMMA MovedFacts ==
  ASSUME NEW pair, IsPair(pair), NEW w, w.id \in Int, w.variable \in Variables
  PROVE  Moved(w, pair) \in Variables
  <1> DEFINE distance == IF w.id < w.variable.index_reference THEN w.variable.index_reference - w.id
                         ELSE w.id - w.variable.index_reference
             moved    == w.variable.reference + distance * Bps
  <1>1. distance \in Nat /\ Bps \in Nat
    BY UnitsAssumption DEF Variables
  <1> HIDE DEF distance
  <1>2. distance * Bps \in Nat /\ w.variable.reference \in Nat
    BY <1>1 DEF Variables
  <1>3. moved \in Nat
    BY <1>2
  <1> HIDE DEF moved
  <1>4. Least(moved, pair.fees.max_volatility) \in Nat
    BY <1>3 DEF Least, IsPair
  <1>5. Moved(w, pair) = [w.variable EXCEPT !.accumulator = Least(moved, pair.fees.max_volatility)]
    BY DEF Moved, update_volatility_accumulator, moved, distance
  <1>6. QED
    BY <1>4, <1>5 DEF Variables

\* The fee is a rate, and one is charged where there is a base fee.
LEMMA FeeRateFacts ==
  ASSUME NEW pair, IsPair(pair), NEW accumulator \in Nat
  PROVE  /\ dlmm_total_fee_rate(pair.fees, accumulator) \in Rates
         /\ base_fee(pair.fees) # 0 => dlmm_total_fee_rate(pair.fees, accumulator) >= 1
  <1> DEFINE f        == pair.fees
             base     == base_fee(f)
             variable == variable_fee(f, accumulator)
             part     == CeilDiv(variable, VariableFeeUnit)
  <1>1. /\ f.base_factor \in Nat /\ f.bin_step \in Nat /\ f.power \in Nat
        /\ f.variable_fee_control \in Nat /\ BaseFeeUnit \in Nat
    BY UnitsAssumption DEF IsPair
  <1>2. base \in Nat
    <2>1. f.base_factor * f.bin_step \in Nat
      BY <1>1
    <2>2. f.base_factor * f.bin_step * BaseFeeUnit \in Nat
      BY <1>1, <2>1
    <2>3. QED
      BY <1>1, <2>2 DEF base_fee
  <1>3. variable \in Nat
    <2> DEFINE v == accumulator * f.bin_step
    <2>1. v \in Nat
      BY <1>1
    <2> HIDE DEF v
    <2>2. f.variable_fee_control * v \in Nat
      BY <1>1, <2>1
    <2>3. f.variable_fee_control * v * v \in Nat
      BY <2>1, <2>2
    <2>4. QED
      BY <2>3 DEF variable_fee, v
  <1> HIDE DEF base, variable
  <1>4. part \in Nat
    BY <1>3, UnitsAssumption, CeilDivFacts
  <1>5. dlmm_total_fee_rate(f, accumulator) = Least(base + part, MaxFeeRate)
    BY DEF dlmm_total_fee_rate, base, variable
  <1> HIDE DEF part
  <1>6. MaxFeeRate \in Nat /\ MaxFeeRate > 0
    BY UnitsAssumption, FeeCapAssumption
  <1>7. Least(base + part, MaxFeeRate) \in Rates /\ (base # 0 => Least(base + part, MaxFeeRate) >= 1)
    BY <1>2, <1>4, <1>6 DEF Least, Rates
  <1>8. QED
    BY <1>5, <1>7 DEF base

LEMMA WithinRange ==
  ASSUME NEW m \in Nat, NEW k \in 0..m
  PROVE  k \in Nat /\ k <= m
  OBVIOUS

\* Where the arithmetic fits, the price is not zero.
LEMMA SwapOfBin ==
  ASSUME NEW bin \in BinData, NEW swap_for_y \in BOOLEAN,
         max_out(bin, swap_for_y) # 0, ~BinOverflows(bin, swap_for_y)
  PROVE  Swap(bin, swap_for_y)
  BY DEF Swap, Bins, BinData, BinOverflows

LEMMA EmptyBin ==
  ASSUME NEW bin, NEW swap_for_y, NEW foi, NEW rate, NEW amount_in \in Nat \ {0},
         max_out(bin, swap_for_y) = 0
  PROVE  dlmm_quote_exact_in_partial(amount_in, bin, swap_for_y, foi, rate) = Quote(0, 0, 0)
  BY DEF dlmm_quote_exact_in_partial

LEMMA OverflowingBin ==
  ASSUME NEW bin, NEW swap_for_y, NEW foi, NEW rate, NEW amount_in \in Nat \ {0},
         max_out(bin, swap_for_y) # 0, BinOverflows(bin, swap_for_y)
  PROVE  dlmm_quote_exact_in_partial(amount_in, bin, swap_for_y, foi, rate) = NoQuote
  BY DEF dlmm_quote_exact_in_partial

LEMMA QuotedBin ==
  ASSUME NEW bin, NEW swap_for_y, Swap(bin, swap_for_y),
         NEW foi \in BOOLEAN, NEW rate \in Rates, NEW amount_in \in Nat \ {0}
  PROVE  dlmm_quote_exact_in_partial(amount_in, bin, swap_for_y, foi, rate).ok = TRUE
  BY PartialForm DEF Quote

LEMMA PartialFacts ==
  ASSUME NEW bin \in BinData, NEW swap_for_y \in BOOLEAN, NEW foi \in BOOLEAN, NEW rate \in Rates,
         NEW amount_in \in Nat
  PROVE  LET quote == dlmm_quote_exact_in_partial(amount_in, bin, swap_for_y, foi, rate)
         IN  /\ quote.ok \in BOOLEAN /\ quote.amount_in \in 0..amount_in /\ quote.amount_out \in Nat
  <1> DEFINE quote == dlmm_quote_exact_in_partial(amount_in, bin, swap_for_y, foi, rate)
             given == IF foi THEN quote.amount_out ELSE quote.amount_out + quote.fee
  <1>1. CASE amount_in = 0
    BY <1>1 DEF dlmm_quote_exact_in_partial, NoQuote
  <1>2. CASE amount_in # 0 /\ max_out(bin, swap_for_y) = 0
    BY <1>2 DEF dlmm_quote_exact_in_partial, Quote
  <1>3. CASE amount_in # 0 /\ max_out(bin, swap_for_y) # 0 /\ BinOverflows(bin, swap_for_y)
    <2>1. quote = NoQuote
      BY <1>3 DEF dlmm_quote_exact_in_partial
    <2> HIDE DEF quote
    <2>2. QED
      BY <1>3, <2>1 DEF NoQuote, quote
  <1>4. CASE amount_in # 0 /\ max_out(bin, swap_for_y) # 0 /\ ~BinOverflows(bin, swap_for_y)
    <2>1. Swap(bin, swap_for_y)
      BY <1>4, SwapOfBin
    <2>2. quote.ok = TRUE /\ quote.amount_in \in 0..amount_in
      BY <1>4, <2>1, BinIsQuoted, QuotedBin
    <2>3. CASE foi
      <3>1. quote.amount_out = RawOut(amount_in, bin, swap_for_y, TRUE, rate)
        BY <1>4, <2>1, <2>3, InputFeeForm
      <3>2. RawOut(amount_in, bin, swap_for_y, TRUE, rate) \in 0..max_out(bin, swap_for_y)
        BY <2>1, PartFacts
      <3>3. max_out(bin, swap_for_y) \in Nat
        BY <2>1, OutputNat
      <3> HIDE DEF quote
      <3>4. quote.amount_out \in Nat
        BY <3>1, <3>2, <3>3, WithinRange
      <3>5. QED
        BY <1>4, <2>2, <3>4 DEF quote
    <2>4. CASE ~foi
      <3>1. quote.amount_out = excluded_fee_amount(RawOut(amount_in, bin, swap_for_y, FALSE, rate), rate)
        BY <1>4, <2>1, <2>4, OutputFeeForm
      <3>2. RawOut(amount_in, bin, swap_for_y, FALSE, rate) \in 0..max_out(bin, swap_for_y)
        BY <2>1, PartFacts
      <3>3. max_out(bin, swap_for_y) \in Nat
        BY <2>1, OutputNat
      <3> DEFINE raw == RawOut(amount_in, bin, swap_for_y, FALSE, rate)
      <3>6. raw \in Nat
        BY <3>2, <3>3, WithinRange
      <3> HIDE DEF raw, quote
      <3>7. excluded_fee_amount(raw, rate) \in Nat
        BY <3>6, FeeGalois
      <3>4. quote.amount_out \in Nat
        BY <3>1, <3>7 DEF raw
      <3>5. QED
        BY <1>4, <2>2, <3>4 DEF quote
    <2>5. QED
      BY <2>3, <2>4
  <1>5. QED
    BY <1>1, <1>2, <1>3, <1>4

-----------------------------------------------------------------------------
(* The production walk, and that of the snapshot.                          *)

QuoteStates(pair) ==
  [id : Int, remaining : Nat, amount_out : 0..U64Max, used : Seq(pair.arrays),
   variable : Variables, ok : BOOLEAN]

\* What the bin of a round takes of what remains.
RateOf(w, pair) == dlmm_total_fee_rate(pair.fees, Moved(w, pair).accumulator)

PartOf(w, pair, swap_for_y, amount) ==
  dlmm_quote_exact_in_partial(amount, Bin(pair, w.id), swap_for_y,
    fee_on_input(pair, swap_for_y), RateOf(w, pair))

\* The round reaches the arithmetic of a bin.
Visits(w, pair) ==
  /\ Initialized(pair, bin_array_index(w.id))
  /\ ArrayFits(pair, w.used, bin_array_index(w.id))
  /\ ~FeeOverflows(pair.fees, Moved(w, pair).accumulator)

LEMMA VisitFacts ==
  ASSUME NEW pair, IsPair(pair), NEW w, w.id \in Int, w.variable \in Variables,
         NEW swap_for_y \in BOOLEAN
  PROVE  /\ Moved(w, pair) \in Variables
         /\ RateOf(w, pair) \in Rates
         /\ base_fee(pair.fees) # 0 => RateOf(w, pair) >= 1
         /\ fee_on_input(pair, swap_for_y) \in BOOLEAN
         /\ next_bin(w.id, swap_for_y) \in (w.id - 1)..(w.id + 1)
         /\ Visits(w, pair) => /\ bin_array_index(w.id) \in pair.arrays
                               /\ Bin(pair, w.id) \in BinData
  <1>1. Moved(w, pair) \in Variables
    BY MovedFacts
  <1>2. Moved(w, pair).accumulator \in Nat
    BY <1>1 DEF Variables
  <1>3. RateOf(w, pair) \in Rates /\ (base_fee(pair.fees) # 0 => RateOf(w, pair) >= 1)
    BY <1>2, FeeRateFacts DEF RateOf
  <1>4. Visits(w, pair) => bin_array_index(w.id) \in pair.arrays /\ Bin(pair, w.id) \in BinData
    BY BinFacts DEF Visits, ArrayFits
  <1>5. QED
    BY <1>1, <1>3, <1>4 DEF fee_on_input, next_bin

LEMMA TakeForm ==
  ASSUME NEW pair, NEW w, NEW swap_for_y
  PROVE  TakeFromBin(w, pair, swap_for_y) =
           IF w.remaining = 0 \/ ~w.ok THEN w
           ELSE IF ~Initialized(pair, bin_array_index(w.id))
             THEN [w EXCEPT !.id = next_bin(w.id, swap_for_y)]
           ELSE IF ~Visits(w, pair) THEN [w EXCEPT !.ok = FALSE]
           ELSE Taken(w, swap_for_y, bin_array_index(w.id), Moved(w, pair),
                      PartOf(w, pair, swap_for_y, w.remaining))
  BY DEF TakeFromBin, VisitBin, Visits, PartOf, RateOf

LEMMA TakeKeeps ==
  ASSUME NEW pair, IsPair(pair), NEW w \in QuoteStates(pair), NEW swap_for_y \in BOOLEAN
  PROVE  /\ TakeFromBin(w, pair, swap_for_y) \in QuoteStates(pair)
         /\ TakeFromBin(w, pair, swap_for_y).id \in (w.id - 1)..(w.id + 1)
  <1> DEFINE index == bin_array_index(w.id)
             next  == next_bin(w.id, swap_for_y)
             part  == PartOf(w, pair, swap_for_y, w.remaining)
             v     == TakeFromBin(w, pair, swap_for_y)
             moved == Moved(w, pair)
             taken == Taken(w, swap_for_y, index, moved, part)
  <1>1. /\ w.id \in Int /\ w.remaining \in Nat /\ w.amount_out \in 0..U64Max
        /\ w.used \in Seq(pair.arrays) /\ w.variable \in Variables /\ w.ok \in BOOLEAN
    BY DEF QuoteStates
  <1>2. /\ moved \in Variables /\ next \in Int /\ next \in (w.id - 1)..(w.id + 1)
    <2>1. moved \in Variables
      BY <1>1, VisitFacts
    <2>2. next \in Int /\ next \in (w.id - 1)..(w.id + 1)
      BY <1>1 DEF next_bin
    <2>3. QED
      BY <2>1, <2>2
  <1>3. ASSUME Visits(w, pair), w.remaining # 0
        PROVE  taken \in QuoteStates(pair) /\ taken.id \in (w.id - 1)..(w.id + 1)
    <2>1. Used(w.used, index) \in Seq(pair.arrays)
      BY <1>1, <1>3, VisitFacts, UsedFacts
    <2>2. part.amount_in \in 0..w.remaining /\ part.amount_out \in Nat
      BY <1>1, <1>3, VisitFacts, PartialFacts DEF PartOf
    <2> HIDE DEF part, moved, index, next
    <2>3. w.remaining - part.amount_in \in Nat
      BY <1>1, <2>2
    <2>4. ~(w.amount_out + part.amount_out > U64Max) => w.amount_out + part.amount_out \in 0..U64Max
      BY <1>1, <2>2, WidthAssumption
    <2>5. taken.id \in {w.id, next}
      BY <1>1 DEF Taken, next, QuoteStates
    <2>6. taken \in QuoteStates(pair)
      BY <1>1, <1>2, <2>1, <2>3, <2>4 DEF Taken, next, QuoteStates
    <2>7. QED
      BY <1>1, <1>2, <2>5, <2>6
  <1> HIDE DEF taken, next
  <1>4. \/ v = w \/ v = [w EXCEPT !.id = next] \/ v = [w EXCEPT !.ok = FALSE]
        \/ v = taken /\ Visits(w, pair) /\ w.remaining # 0
    BY TakeForm DEF taken, next
  <1>5. /\ w \in QuoteStates(pair) /\ w.id \in (w.id - 1)..(w.id + 1)
        /\ [w EXCEPT !.id = next] \in QuoteStates(pair)
        /\ [w EXCEPT !.id = next].id \in (w.id - 1)..(w.id + 1)
        /\ [w EXCEPT !.ok = FALSE] \in QuoteStates(pair)
        /\ [w EXCEPT !.ok = FALSE].id \in (w.id - 1)..(w.id + 1)
    <2>1. w.id \in (w.id - 1)..(w.id + 1)
      BY <1>1
    <2>2. [w EXCEPT !.id = next].id = next /\ [w EXCEPT !.ok = FALSE].id = w.id
      BY DEF QuoteStates
    <2>3. [w EXCEPT !.id = next] \in QuoteStates(pair) /\ [w EXCEPT !.ok = FALSE] \in QuoteStates(pair)
      BY <1>2 DEF QuoteStates
    <2>4. QED
      BY <1>2, <2>1, <2>2, <2>3
  <1>6. QED
    BY <1>3, <1>4, <1>5

LEMMA QuoteStartFacts ==
  ASSUME NEW pair, IsPair(pair), NEW amount_in \in Nat, NEW timestamp \in Int
  PROVE  QuoteStart(amount_in, pair, timestamp) \in QuoteStates(pair)
  <1>1. Start(pair, timestamp) \in Variables /\ pair.active_id \in Int
    BY StartFacts DEF IsPair
  <1>2. <<>> \in Seq(pair.arrays) /\ 0 \in 0..U64Max
    BY WidthAssumption
  <1>3. QED
    BY <1>1, <1>2 DEF QuoteStart, QuoteStates

\* Within the window a round takes from the snapshot what it takes from the account.
LEMMA SameBin ==
  ASSUME NEW pair, NEW w, NEW swap_for_y, w.id \in parse_bin_array_window(pair)
  PROVE  TakeFromSnapshotBin(w, pair, swap_for_y) = TakeFromBin(w, pair, swap_for_y)
  BY DEF TakeFromSnapshotBin, TakeFromBin, VisitSnapshotBin, VisitBin

\* A walk moves at most one bin in a round, so none of its bins is outside.
LEMMA SnapshotAgrees ==
  ASSUME NEW pair, IsPair(pair), NEW amount_in \in Nat, NEW swap_for_y \in BOOLEAN,
         NEW timestamp \in Int
  PROVE  quote_dlmm_snapshot_with_bitmap(amount_in, pair, swap_for_y, timestamp)
           = quote_dlmm_from_accounts(amount_in, pair, swap_for_y, timestamp)
  <1> DEFINE p == ProductionWalk(amount_in, pair, swap_for_y, timestamp)
             s == SnapshotWalk(amount_in, pair, swap_for_y, timestamp)
             a == pair.active_id
             alike == {n \in Nat : /\ s[n] = p[n] /\ p[n] \in QuoteStates(pair)
                                   /\ p[n].id \in (a - n)..(a + n)}
  <1>1. a \in Int /\ MaxBins \in Nat \ {0}
    BY WalkAssumption DEF IsPair
  <1>2. /\ p[0] = QuoteStart(amount_in, pair, timestamp)
        /\ \A n \in 0..(MaxBins - 1) : p[n + 1] = TakeFromBin(p[n], pair, swap_for_y)
    BY ProductionRounds
  <1>3. /\ s[0] = QuoteStart(amount_in, pair, timestamp)
        /\ \A n \in 0..(MaxBins - 1) : s[n + 1] = TakeFromSnapshotBin(s[n], pair, swap_for_y)
    BY SnapshotRounds
  <1> HIDE DEF p, s
  <1>4. 0 \in alike
    <2>1. p[0] \in QuoteStates(pair) /\ p[0].id = a
      BY <1>2, QuoteStartFacts DEF QuoteStart
    <2>2. QED
      BY <1>1, <1>2, <1>3, <2>1
  <1>5. ASSUME NEW n \in 0..(MaxBins - 1), n \in alike
        PROVE  n + 1 \in alike
    <2>1. s[n] = p[n] /\ p[n] \in QuoteStates(pair) /\ p[n].id \in (a - n)..(a + n) /\ n \in Nat
      BY <1>5
    <2>2. p[n].id \in parse_bin_array_window(pair)
      BY <1>1, <2>1 DEF parse_bin_array_window
    <2>3. s[n + 1] = p[n + 1]
      BY <1>2, <1>3, <2>1, <2>2, SameBin
    <2>4. p[n + 1] \in QuoteStates(pair) /\ p[n + 1].id \in (p[n].id - 1)..(p[n].id + 1)
      BY <1>2, <2>1, TakeKeeps
    <2>5. p[n].id \in Int
      BY <2>1 DEF QuoteStates
    <2>6. p[n + 1].id \in (a - (n + 1))..(a + (n + 1)) /\ n + 1 \in Nat
      BY <1>1, <2>1, <2>4, <2>5
    <2>7. QED
      BY <2>3, <2>4, <2>6
  <1> HIDE DEF alike
  <1>6. MaxBins \in alike
    BY <1>1, <1>4, <1>5, InductionUpTo
  <1>7. s[MaxBins] = p[MaxBins]
    BY <1>6 DEF alike
  <1>8. QED
    BY <1>7 DEF quote_dlmm_snapshot_with_bitmap, quote_dlmm_from_accounts, p, s

\* The accounts are those of the instruction, and the market is theirs.
LEMMA MarketFacts ==
  ASSUME MarketInv, market # NoMarket
  PROVE  /\ IsPair(market.pair) /\ market.pair = accounts.pair /\ market.timestamp \in Int
         /\ market.target_is_x \in BOOLEAN /\ market.cashback_ready \in BOOLEAN
         /\ market.pool = Pool(accounts.pump, ChargedFees.fees)
         /\ accounts.pump \in PumpData /\ ChargedFees.ok /\ ~ReserveOverflows(accounts.pump)
  BY AccountsAssumption DEF MarketInv, ParsedMarket

LEMMA ProbedMarket ==
  ASSUME MarketInv, phase = "probe_forward" PROVE market # NoMarket
  BY DEF MarketInv, ParsedMarket, NoMarket

\* For every market, however many bins and arrays it has and however far a walk
\* may go: the window is as wide as the longest walk on either side.
THEOREM SnapshotIsProductionAlways == SearchSpec => []SnapshotIsProduction
  <1>1. MarketInv => SnapshotIsProduction
    <2>1. SUFFICES ASSUME MarketInv, phase = "probe_forward",
                          NEW swap_for_y \in BOOLEAN, NEW amount \in 1..bounds.max_amount
                   PROVE  quote_dlmm_snapshot_with_bitmap(amount, market.pair, swap_for_y,
                                                          market.timestamp)
                            = ProductionLeg(amount, swap_for_y)
      BY DEF SnapshotIsProduction
    <2>2. amount \in Nat
      BY <2>1, BoundsAssumption DEF MarketInv
    <2>3. IsPair(market.pair) /\ market.timestamp \in Int
      BY <2>1, MarketFacts, ProbedMarket
    <2>4. QED
      BY <2>1, <2>2, <2>3, SnapshotAgrees DEF ProductionLeg
  <1>2. QED
    BY <1>1, MarketInvariant, PTL

-----------------------------------------------------------------------------
(* The walk of the curve.                                                  *)

SegmentsOf(pair) ==
  [input_start : Nat, input_end : Nat, output_start : Nat, output_end : Nat, price : Nat,
   fee_rate : Rates, swap_for_y : BOOLEAN, fee_on_input : BOOLEAN, used : Seq(pair.arrays)]

CurveStates(pair) ==
  [id : Int, total_in : 0..U64Max, total_out : 0..U64Max, used : Seq(pair.arrays),
   variable : Variables, segments : Seq(SegmentsOf(pair)),
   stop : {"visited_bin_limit", "missing_bin_array", "bin_array_limit", "input_limit"}
            \cup CurveErrors]

\* The segments lie one after the other, the last one ends at the total.
Aligned(c) ==
  /\ \A i \in 1..Len(c.segments) :
       /\ c.segments[i].input_start < c.segments[i].input_end
       /\ c.segments[i].input_end <= c.total_in
       /\ \A j \in 1..(i - 1) : c.segments[j].input_end <= c.segments[i].input_start
  /\ c.total_in > 0 => /\ Len(c.segments) > 0
                       /\ c.segments[Len(c.segments)].input_end = c.total_in

CapacityOf(c, pair, swap_for_y) == PartOf(c, pair, swap_for_y, U64Max)

CapacityFits(c, capacity) ==
  /\ capacity.ok
  /\ ~(c.total_in + capacity.amount_in > U64Max)
  /\ ~(c.total_out + capacity.amount_out > U64Max)

Passed(c, pair, swap_for_y) ==
  [[c EXCEPT !.id = next_bin(c.id, swap_for_y)]
     EXCEPT !.used = Used(c.used, bin_array_index(c.id)), !.variable = Moved(c, pair)]

SegmentOf(c, pair, swap_for_y) ==
  [input_start |-> c.total_in,
   input_end |-> c.total_in + CapacityOf(c, pair, swap_for_y).amount_in,
   output_start |-> c.total_out,
   output_end |-> c.total_out + CapacityOf(c, pair, swap_for_y).amount_out,
   price |-> Bin(pair, c.id).price, fee_rate |-> RateOf(c, pair), swap_for_y |-> swap_for_y,
   fee_on_input |-> fee_on_input(pair, swap_for_y), used |-> Used(c.used, bin_array_index(c.id))]

Extended(c, pair, swap_for_y, input_limit) ==
  LET capacity == CapacityOf(c, pair, swap_for_y)
  IN  [Passed(c, pair, swap_for_y) EXCEPT
         !.total_in  = @ + capacity.amount_in,
         !.total_out = @ + capacity.amount_out,
         !.segments  = Append(@, SegmentOf(c, pair, swap_for_y)),
         !.stop = IF c.total_in + capacity.amount_in >= input_limit THEN "input_limit" ELSE @]

Breaks(c, v) == \E error \in CurveErrors : v = [c EXCEPT !.stop = error]

Halts(c, v) ==
  \/ \E reason \in {"missing_bin_array", "bin_array_limit"} : v = [c EXCEPT !.stop = reason]
  \/ Breaks(c, v)

CapacityError(capacity) ==
  IF ~capacity.ok THEN "BestDirectionQuoteIncomplete" ELSE "ArithmeticOverflow"

\* What a round does, by what it meets.
AddCases(c, v, pair, swap_for_y, input_limit) ==
  \/ c.stop # "visited_bin_limit" /\ v = c
  \/ /\ c.stop = "visited_bin_limit"
     /\ \/ /\ ~Initialized(pair, bin_array_index(c.id))
           /\ v = [c EXCEPT !.id = next_bin(c.id, swap_for_y)]
        \/ Initialized(pair, bin_array_index(c.id)) /\ ~Visits(c, pair) /\ Halts(c, v)
        \/ /\ Visits(c, pair)
           /\ ~CapacityFits(c, CapacityOf(c, pair, swap_for_y))
           /\ Breaks(c, v)
        \/ /\ Visits(c, pair)
           /\ CapacityFits(c, CapacityOf(c, pair, swap_for_y))
           /\ \/ CapacityOf(c, pair, swap_for_y).amount_in = 0
              \/ CapacityOf(c, pair, swap_for_y).amount_out = 0
           /\ v = Passed(c, pair, swap_for_y)
        \/ /\ Visits(c, pair)
           /\ CapacityFits(c, CapacityOf(c, pair, swap_for_y))
           /\ CapacityOf(c, pair, swap_for_y).amount_in # 0
           /\ CapacityOf(c, pair, swap_for_y).amount_out # 0
           /\ v = Extended(c, pair, swap_for_y, input_limit)

LEMMA AddIsCase ==
  ASSUME NEW pair, NEW c \in CurveStates(pair), NEW swap_for_y, NEW input_limit
  PROVE  AddCases(c, AddSegment(c, pair, swap_for_y, input_limit), pair, swap_for_y, input_limit)
  <1> DEFINE v        == AddSegment(c, pair, swap_for_y, input_limit)
             index    == bin_array_index(c.id)
             moved    == Moved(c, pair)
             next     == [c EXCEPT !.id = next_bin(c.id, swap_for_y)]
             passed   == [next EXCEPT !.used = Used(c.used, index), !.variable = moved]
             capacity == CapacityOf(c, pair, swap_for_y)
             measured == Measured(c, passed, Bin(pair, c.id), capacity, swap_for_y,
                                  fee_on_input(pair, swap_for_y), RateOf(c, pair), input_limit)
  <1>1. v = IF c.stop # "visited_bin_limit" THEN c
            ELSE IF ~Initialized(pair, index) THEN next
            ELSE IF index \notin pair.arrays THEN [c EXCEPT !.stop = "missing_bin_array"]
            ELSE IF ~ArrayFits(pair, c.used, index) THEN [c EXCEPT !.stop = "bin_array_limit"]
            ELSE IF FeeOverflows(pair.fees, moved.accumulator)
              THEN [c EXCEPT !.stop = "BestDirectionQuoteIncomplete"]
            ELSE measured
    BY DEF AddSegment, MeasureBin, CapacityOf, PartOf, RateOf, dlmm_bin_quote_capacity
  <1>2. passed = Passed(c, pair, swap_for_y)
    BY DEF Passed, CurveStates
  <1>3. measured = IF ~CapacityFits(c, capacity)
                     THEN [c EXCEPT !.stop = CapacityError(capacity)]
                   ELSE IF capacity.amount_in = 0 \/ capacity.amount_out = 0 THEN passed
                   ELSE Extended(c, pair, swap_for_y, input_limit)
    <2> DEFINE added ==
          [passed EXCEPT
             !.total_in  = @ + capacity.amount_in,
             !.total_out = @ + capacity.amount_out,
             !.segments  = Append(@,
                [input_start |-> c.total_in, input_end |-> c.total_in + capacity.amount_in,
                 output_start |-> c.total_out, output_end |-> c.total_out + capacity.amount_out,
                 price |-> Bin(pair, c.id).price, fee_rate |-> RateOf(c, pair),
                 swap_for_y |-> swap_for_y, fee_on_input |-> fee_on_input(pair, swap_for_y),
                 used |-> passed.used]),
             !.stop = IF c.total_in + capacity.amount_in >= input_limit THEN "input_limit" ELSE @]
    <2>1. added = Extended(c, pair, swap_for_y, input_limit)
      <3>1. passed.used = Used(c.used, index)
        BY DEF CurveStates
      <3>2. SegmentOf(c, pair, swap_for_y)
              = [input_start |-> c.total_in, input_end |-> c.total_in + capacity.amount_in,
                 output_start |-> c.total_out, output_end |-> c.total_out + capacity.amount_out,
                 price |-> Bin(pair, c.id).price, fee_rate |-> RateOf(c, pair),
                 swap_for_y |-> swap_for_y, fee_on_input |-> fee_on_input(pair, swap_for_y),
                 used |-> passed.used]
        <4> HIDE DEF passed
        <4>1. QED
          BY <3>1 DEF SegmentOf
      <3> HIDE DEF passed, capacity
      <3>3. QED
        BY <1>2, <3>2 DEF Extended, capacity
    <2>2. measured = IF ~CapacityFits(c, capacity)
                       THEN [c EXCEPT !.stop = CapacityError(capacity)]
                     ELSE IF capacity.amount_in = 0 \/ capacity.amount_out = 0 THEN passed
                     ELSE added
      <3> HIDE DEF passed, capacity, added
      <3>1. QED
        BY DEF Measured, CapacityFits, CapacityError, added
    <2>3. QED
      BY <2>1, <2>2
  <1>4. Visits(c, pair) <=> /\ Initialized(pair, index) /\ index \in pair.arrays
                            /\ ArrayFits(pair, c.used, index)
                            /\ ~FeeOverflows(pair.fees, moved.accumulator)
    BY DEF Visits, ArrayFits
  <1>5. /\ CapacityError(capacity) \in CurveErrors
        /\ "BestDirectionQuoteIncomplete" \in CurveErrors
    BY DEF CapacityError, CurveErrors
  <1> HIDE DEF v, moved, measured, passed
  <1>6. QED
    BY <1>1, <1>2, <1>3, <1>4, <1>5 DEF AddCases, Halts, Breaks, v

LEMMA CapacityFacts ==
  ASSUME NEW pair, IsPair(pair), NEW c \in CurveStates(pair), NEW swap_for_y \in BOOLEAN,
         Visits(c, pair), CapacityFits(c, CapacityOf(c, pair, swap_for_y))
  PROVE  LET capacity == CapacityOf(c, pair, swap_for_y)
         IN  /\ capacity.amount_in \in Nat /\ capacity.amount_out \in Nat
             /\ c.total_in + capacity.amount_in \in 0..U64Max
             /\ c.total_out + capacity.amount_out \in 0..U64Max
             /\ SegmentOf(c, pair, swap_for_y) \in SegmentsOf(pair)
  <1> DEFINE capacity == CapacityOf(c, pair, swap_for_y)
             index    == bin_array_index(c.id)
  <1>1. /\ c.id \in Int /\ c.variable \in Variables /\ c.used \in Seq(pair.arrays)
        /\ c.total_in \in 0..U64Max /\ c.total_out \in 0..U64Max
    BY DEF CurveStates
  <1>2. /\ index \in pair.arrays /\ Bin(pair, c.id) \in BinData /\ RateOf(c, pair) \in Rates
        /\ fee_on_input(pair, swap_for_y) \in BOOLEAN
    BY <1>1, VisitFacts
  <1>3. capacity.amount_in \in 0..U64Max /\ capacity.amount_out \in Nat
    BY <1>2, WidthAssumption, PartialFacts DEF CapacityOf, PartOf
  <1>4. capacity.amount_in \in Nat
    BY <1>3, WidthAssumption
  <1>5. /\ c.total_in + capacity.amount_in \in 0..U64Max
        /\ c.total_out + capacity.amount_out \in 0..U64Max
    <2> HIDE DEF capacity
    <2>1. QED
      BY <1>1, <1>3, <1>4, WidthAssumption DEF CapacityFits, capacity
  <1>6. Used(c.used, index) \in Seq(pair.arrays)
    BY <1>1, <1>2, UsedFacts
  <1>7. Bin(pair, c.id).price \in Nat
    BY <1>2 DEF BinData
  <1>8. SegmentOf(c, pair, swap_for_y) \in SegmentsOf(pair)
    <2>1. c.total_in \in Nat /\ c.total_out \in Nat
      BY <1>1, WidthAssumption
    <2>2. c.total_in + capacity.amount_in \in Nat /\ c.total_out + capacity.amount_out \in Nat
      BY <1>5, WidthAssumption
    <2> HIDE DEF capacity, index
    <2>3. QED
      BY <1>2, <1>6, <1>7, <2>1, <2>2 DEF SegmentOf, SegmentsOf, capacity, index
  <1>9. QED
    BY <1>3, <1>4, <1>5, <1>8

LEMMA PassedFields ==
  ASSUME NEW pair, NEW c \in CurveStates(pair), NEW swap_for_y
  PROVE  LET v == Passed(c, pair, swap_for_y)
         IN  /\ v.id = next_bin(c.id, swap_for_y) /\ v.variable = Moved(c, pair)
             /\ v.used = Used(c.used, bin_array_index(c.id))
             /\ v.total_in = c.total_in /\ v.total_out = c.total_out
             /\ v.segments = c.segments /\ v.stop = c.stop
  BY DEF Passed, CurveStates

LEMMA ExtendedFields ==
  ASSUME NEW pair, NEW c \in CurveStates(pair), NEW swap_for_y, NEW input_limit
  PROVE  LET v        == Extended(c, pair, swap_for_y, input_limit)
             capacity == CapacityOf(c, pair, swap_for_y)
         IN  /\ v.id = next_bin(c.id, swap_for_y) /\ v.variable = Moved(c, pair)
             /\ v.used = Used(c.used, bin_array_index(c.id))
             /\ v.total_in = c.total_in + capacity.amount_in
             /\ v.total_out = c.total_out + capacity.amount_out
             /\ v.segments = Append(c.segments, SegmentOf(c, pair, swap_for_y))
             /\ v.stop = IF c.total_in + capacity.amount_in >= input_limit THEN "input_limit"
                         ELSE c.stop
  BY DEF Extended, Passed, CurveStates

\* A bin that has something to give fits in behind the last segment.
LEMMA ExtendedAligned ==
  ASSUME NEW pair, IsPair(pair), NEW c \in CurveStates(pair), Aligned(c),
         NEW swap_for_y \in BOOLEAN, NEW input_limit,
         Visits(c, pair), CapacityFits(c, CapacityOf(c, pair, swap_for_y)),
         CapacityOf(c, pair, swap_for_y).amount_in # 0
  PROVE  Aligned(Extended(c, pair, swap_for_y, input_limit))
  <1> DEFINE v       == Extended(c, pair, swap_for_y, input_limit)
             segment == SegmentOf(c, pair, swap_for_y)
             part    == CapacityOf(c, pair, swap_for_y).amount_in
             old     == c.segments
             new     == v.segments
  <1>1. part \in Nat \ {0} /\ segment \in SegmentsOf(pair)
    BY CapacityFacts
  <1>2. c.total_in \in Nat /\ old \in Seq(SegmentsOf(pair))
    BY WidthAssumption DEF CurveStates
  <1>3. v.total_in = c.total_in + part /\ new = Append(old, segment)
    BY ExtendedFields
  <1>4. segment.input_start = c.total_in /\ segment.input_end = c.total_in + part
    BY DEF SegmentOf
  <1> HIDE DEF v, segment, part
  <1>5. /\ Len(old) \in Nat /\ Len(new) = Len(old) + 1 /\ new[Len(old) + 1] = segment
        /\ \A i \in 1..Len(old) : new[i] = old[i]
    BY <1>1, <1>2, <1>3, AppendProperties
  <1>6. \A i \in 1..Len(old) : old[i].input_start \in Nat /\ old[i].input_end \in Nat
    <2>1. \A i \in 1..Len(old) : old[i] \in SegmentsOf(pair)
      BY <1>2, ElementOfSeq
    <2> HIDE DEF old
    <2>2. QED
      BY <2>1 DEF SegmentsOf
  <1>7. /\ \A i \in 1..Len(old) :
             /\ old[i].input_start < old[i].input_end
             /\ old[i].input_end <= c.total_in
             /\ \A j \in 1..(i - 1) : old[j].input_end <= old[i].input_start
    BY DEF Aligned
  <1> HIDE DEF old, new
  <1>8. ASSUME NEW i \in 1..Len(new)
        PROVE  /\ new[i].input_start < new[i].input_end
               /\ new[i].input_end <= v.total_in
               /\ \A j \in 1..(i - 1) : new[j].input_end <= new[i].input_start
    <2>1. CASE i \in 1..Len(old)
      <3>1. /\ new[i] = old[i] /\ old[i].input_start \in Nat /\ old[i].input_end \in Nat
            /\ old[i].input_start < old[i].input_end /\ old[i].input_end <= c.total_in
        BY <1>5, <1>6, <1>7, <2>1
      <3>2. old[i].input_end <= v.total_in
        BY <1>1, <1>2, <1>3, <3>1
      <3>3. ASSUME NEW j \in 1..(i - 1)
            PROVE  new[j].input_end <= new[i].input_start
        <4>1. j \in 1..Len(old)
          BY <1>5, <2>1
        <4>2. QED
          BY <1>5, <1>7, <2>1, <3>1, <4>1
      <3>4. QED
        BY <3>1, <3>2, <3>3
    <2>2. CASE i = Len(old) + 1
      <3>1. /\ new[i] = segment /\ new[i].input_start = c.total_in
            /\ new[i].input_end = c.total_in + part
        BY <1>4, <1>5, <2>2
      <3>2. ASSUME NEW j \in 1..(i - 1)
            PROVE  new[j].input_end <= new[i].input_start
        <4>1. j \in 1..Len(old)
          BY <1>5, <2>2
        <4>2. QED
          BY <1>5, <1>7, <3>1, <4>1
      <3>3. QED
        BY <1>1, <1>2, <1>3, <3>1, <3>2
    <2>3. QED
      BY <1>5, <2>1, <2>2
  <1>9. v.total_in > 0 => Len(new) > 0 /\ new[Len(new)].input_end = v.total_in
    BY <1>3, <1>4, <1>5
  <1>10. QED
    BY <1>8, <1>9 DEF Aligned, new, v

LEMMA AddKeeps ==
  ASSUME NEW pair, IsPair(pair), NEW c \in CurveStates(pair), Aligned(c),
         NEW swap_for_y \in BOOLEAN, NEW input_limit
  PROVE  LET v == AddSegment(c, pair, swap_for_y, input_limit)
         IN  v \in CurveStates(pair) /\ Aligned(v)
  <1> DEFINE v     == AddSegment(c, pair, swap_for_y, input_limit)
             index == bin_array_index(c.id)
             next  == next_bin(c.id, swap_for_y)
  <1>1. AddCases(c, v, pair, swap_for_y, input_limit)
    BY AddIsCase
  <1>2. /\ c.id \in Int /\ c.variable \in Variables /\ c.used \in Seq(pair.arrays)
        /\ c.segments \in Seq(SegmentsOf(pair))
    BY DEF CurveStates
  <1>3. next \in Int /\ Moved(c, pair) \in Variables
    <2>1. next \in Int
      BY <1>2 DEF next_bin
    <2>2. QED
      BY <1>2, <2>1, VisitFacts
  <1>4. Visits(c, pair) => Used(c.used, index) \in Seq(pair.arrays)
    BY <1>2, VisitFacts, UsedFacts
  <1> SUFFICES v \in CurveStates(pair) /\ Aligned(v)
    OBVIOUS
  <1> HIDE DEF v
  <1>5. CASE v = c
    BY <1>5
  <1>6. CASE v = [c EXCEPT !.id = next]
    BY <1>3, <1>6 DEF CurveStates, Aligned
  <1>7. CASE Halts(c, v)
    BY <1>7 DEF Halts, Breaks, CurveStates, Aligned
  <1>8. CASE v = Passed(c, pair, swap_for_y) /\ Visits(c, pair)
    <2>1. v \in CurveStates(pair)
      BY <1>3, <1>4, <1>8 DEF Passed, CurveStates
    <2>2. v.total_in = c.total_in /\ v.segments = c.segments
      BY <1>8, PassedFields
    <2>3. QED
      BY <2>1, <2>2 DEF Aligned
  <1>9. CASE /\ v = Extended(c, pair, swap_for_y, input_limit) /\ Visits(c, pair)
             /\ CapacityFits(c, CapacityOf(c, pair, swap_for_y))
             /\ CapacityOf(c, pair, swap_for_y).amount_in # 0
    <2>1. Aligned(v)
      BY <1>9, ExtendedAligned
    <2> DEFINE capacity == CapacityOf(c, pair, swap_for_y)
               segments == Append(c.segments, SegmentOf(c, pair, swap_for_y))
               i2       == c.total_in + capacity.amount_in
               o2       == c.total_out + capacity.amount_out
    <2>2. i2 \in 0..U64Max /\ o2 \in 0..U64Max
      BY <1>9, CapacityFacts
    <2>3. segments \in Seq(SegmentsOf(pair))
      BY <1>2, <1>9, CapacityFacts, AppendProperties
    <2>4. Passed(c, pair, swap_for_y) \in CurveStates(pair)
      BY <1>3, <1>4, <1>9 DEF Passed, CurveStates
    <2> DEFINE passed == Passed(c, pair, swap_for_y)
               stop   == IF c.total_in + capacity.amount_in >= input_limit THEN "input_limit"
                         ELSE passed.stop
    <2>5. v = [passed EXCEPT !.total_in = i2, !.total_out = o2, !.segments = segments, !.stop = stop]
      <3>1. /\ passed.total_in = c.total_in /\ passed.total_out = c.total_out
            /\ passed.segments = c.segments
        BY PassedFields
      <3> HIDE DEF passed, capacity
      <3>2. QED
        BY <1>9, <3>1 DEF Extended, passed, capacity
    <2> HIDE DEF i2, o2, segments, passed, capacity
    <2>6. v \in CurveStates(pair)
      BY <2>2, <2>3, <2>4, <2>5 DEF CurveStates, passed
    <2>7. QED
      BY <2>1, <2>6
  <1>10. QED
    BY <1>1, <1>5, <1>6, <1>7, <1>8, <1>9 DEF AddCases, Halts

-----------------------------------------------------------------------------
(* A bin beyond its capacity.                                              *)

\* At fees of at most a half, two units more leave at least one more.
LEMMA ExcludedAdvances ==
  ASSUME NEW rate \in Rates, NEW a \in Nat
  PROVE  excluded_fee_amount(a, rate) + 1 <= excluded_fee_amount(a + 2, rate)
  <1> DEFINE k == CeilDiv(a * rate, FeePrecision)
             l == CeilDiv((a + 2) * rate, FeePrecision)
  <1>1. rate \in Nat /\ FeePrecision \in Nat \ {0} /\ 2 * rate <= FeePrecision
    BY UnitsAssumption, FeeCapAssumption DEF Rates
  <1>2. a * rate \in Nat /\ (a + 2) * rate \in Nat /\ (a + 2) * rate = a * rate + 2 * rate
    BY <1>1
  <1>3. k \in Nat /\ a * rate <= k * FeePrecision
    BY <1>1, <1>2, CeilDivFacts
  <1>4. l \in Nat /\ \A j \in Nat : (a + 2) * rate <= j * FeePrecision => l <= j
    BY <1>1, <1>2, CeilDivFacts
  <1> HIDE DEF k, l
  <1>5. (k + 1) * FeePrecision = k * FeePrecision + FeePrecision /\ k * FeePrecision \in Nat
    BY <1>1, <1>3
  <1> DEFINE y == a * rate
             z == (a + 2) * rate
             f == k * FeePrecision
             g == (k + 1) * FeePrecision
  <1>6. z <= g
    <2>1. y \in Nat /\ f \in Nat /\ z = y + 2 * rate /\ g = f + FeePrecision /\ y <= f
      BY <1>2, <1>3, <1>5
    <2> HIDE DEF y, z, f, g
    <2>2. QED
      BY <1>1, <2>1
  <1>7. l <= k + 1
    BY <1>3, <1>4, <1>6
  <1>8. excluded_fee_amount(a, rate) = a - k /\ excluded_fee_amount(a + 2, rate) = (a + 2) - l
    BY DEF excluded_fee_amount, k, l
  <1>9. QED
    BY <1>3, <1>4, <1>7, <1>8

LEMMA MostIsPositive ==
  ASSUME NEW bin, NEW swap_for_y, Swap(bin, swap_for_y)
  PROVE  Most(bin, swap_for_y) \in Nat \ {0}
  <1> DEFINE out == max_out(bin, swap_for_y)
  <1>1. out \in Nat \ {0} /\ bin.price \in Nat \ {0} /\ PriceUnit \in Nat \ {0}
    BY OutputNat
  <1> HIDE DEF out
  <1>2. ASSUME NEW x \in Nat \ {0}, NEW n \in Nat \ {0}
        PROVE  CeilDiv(x, n) \in Nat \ {0}
    <2>1. CeilDiv(x, n) \in Nat /\ x <= CeilDiv(x, n) * n
      BY CeilDivFacts
    <2>2. QED
      BY <2>1
  <1>3. out * PriceUnit \in Nat \ {0} /\ out * bin.price \in Nat \ {0}
    BY <1>1
  <1>4. Most(bin, swap_for_y) = IF swap_for_y THEN CeilDiv(out * PriceUnit, bin.price)
                                ELSE CeilDiv(out * bin.price, PriceUnit)
    BY DEF Most, amount_in_for_out, out
  <1>5. QED
    BY <1>1, <1>2, <1>3, <1>4

\* For a single unit of which a fee is taken nothing is given.
LEMMA UnitBuysNothing ==
  ASSUME NEW bin, NEW swap_for_y, Swap(bin, swap_for_y), NEW rate \in Rates, rate >= 1
  PROVE  dlmm_quote_exact_in_partial(1, bin, swap_for_y, TRUE, rate).amount_out = 0
  <1>1. rate \in Nat \ {0} /\ rate <= FeePrecision /\ FeePrecision \in Nat \ {0}
    BY RateFacts
  <1>2. excluded_fee_amount(1, rate) = 0
    <2> DEFINE k == CeilDiv(rate, FeePrecision)
    <2>1. k \in Nat /\ rate <= k * FeePrecision /\ \A j \in Nat : rate <= j * FeePrecision => k <= j
      BY <1>1, CeilDivFacts
    <2>2. 1 * rate = rate /\ rate <= 1 * FeePrecision
      BY <1>1
    <2>3. excluded_fee_amount(1, rate) = 1 - k
      BY <2>2 DEF excluded_fee_amount
    <2> HIDE DEF k
    <2>4. k <= 1 /\ k # 0
      BY <1>1, <2>1, <2>2
    <2>5. QED
      BY <2>1, <2>3, <2>4
  <1>3. Most(bin, swap_for_y) \in Nat \ {0}
    BY MostIsPositive
  <1>4. Consumed(1, bin, swap_for_y, TRUE, rate) = 0
    BY <1>2, <1>3 DEF Consumed, Available, Least
  <1>5. RawOut(1, bin, swap_for_y, TRUE, rate) = amount_out_for_in(0, bin.price, swap_for_y)
    BY <1>3, <1>4 DEF RawOut
  <1>6. amount_out_for_in(0, bin.price, swap_for_y) = 0
    BY OutputNat DEF amount_out_for_in
  <1>7. 1 \in Nat \ {0}
    OBVIOUS
  <1>8. QED
    BY <1>5, <1>6, <1>7, InputFeeForm

LEMMA CapacityTakes ==
  ASSUME NEW bin, NEW swap_for_y, Swap(bin, swap_for_y),
         NEW foi \in BOOLEAN, NEW rate \in Rates
  PROVE  dlmm_bin_quote_capacity(bin, swap_for_y, foi, rate).amount_in # 0
  <1> DEFINE most == Most(bin, swap_for_y)
             used == Consumed(U64Max, bin, swap_for_y, foi, rate)
  <1>1. most \in Nat \ {0} /\ U64Max \in Nat \ {0}
    BY MostIsPositive, WidthAssumption
  <1>2. CASE foi
    <2> DEFINE available == excluded_fee_amount(U64Max, rate)
    <2>1. dlmm_bin_quote_capacity(bin, swap_for_y, foi, rate).amount_in
            = IF used = available THEN U64Max ELSE included_fee_amount(used, rate)
      BY <1>1, <1>2, InputFeeForm DEF dlmm_bin_quote_capacity, Gross, Available
    <2>2. used = Least(available, most)
      BY <1>2 DEF Consumed, Available
    <2>3. available \in 0..U64Max /\ excluded_fee_amount(0, rate) \in 0..0
      BY <1>1, FeeGalois
    <2>4. included_fee_amount(most, rate) \in Nat
          /\ (included_fee_amount(most, rate) <= 0 <=> most <= excluded_fee_amount(0, rate))
      BY <1>1, FeeGalois
    <2>5. included_fee_amount(most, rate) # 0
      BY <1>1, <2>3, <2>4
    <2>6. used # available => used = most
      BY <2>2 DEF Least
    <2> HIDE DEF used, available, most
    <2>7. QED
      BY <1>1, <2>1, <2>5, <2>6
  <1>3. CASE ~foi
    <2>1. dlmm_bin_quote_capacity(bin, swap_for_y, foi, rate).amount_in = Least(U64Max, most)
      <3>1. dlmm_bin_quote_capacity(bin, swap_for_y, foi, rate).amount_in
              = Consumed(U64Max, bin, swap_for_y, FALSE, rate)
        <4>1. foi = FALSE
          BY <1>3
        <4>2. QED
          BY <1>1, <4>1, OutputFeeForm DEF dlmm_bin_quote_capacity
      <3>2. QED
        BY <3>1 DEF Consumed, Available
    <2> HIDE DEF most
    <2>2. QED
      BY <1>1, <2>1 DEF Least
  <1>4. QED
    BY <1>2, <1>3

\* For more than its capacity a bin gives no more than for that, and takes no more
\* either, but for a unit that the rounding of the fee leaves over.
LEMMA BeyondCapacity ==
  ASSUME NEW bin, NEW swap_for_y, Swap(bin, swap_for_y),
         NEW foi \in BOOLEAN, NEW rate \in Rates,
         foi => excluded_fee_amount(U64Max, rate) # Most(bin, swap_for_y),
         NEW amount_in \in 1..U64Max,
         amount_in > dlmm_bin_quote_capacity(bin, swap_for_y, foi, rate).amount_in
  PROVE  LET quote    == dlmm_quote_exact_in_partial(amount_in, bin, swap_for_y, foi, rate)
             capacity == dlmm_bin_quote_capacity(bin, swap_for_y, foi, rate)
         IN  /\ quote.amount_out = capacity.amount_out
             /\ \/ quote.amount_in = capacity.amount_in
                \/ foi /\ amount_in = capacity.amount_in + 1 /\ quote.amount_in = amount_in
  <1> DEFINE most     == Most(bin, swap_for_y)
             quote    == dlmm_quote_exact_in_partial(amount_in, bin, swap_for_y, foi, rate)
             capacity == dlmm_bin_quote_capacity(bin, swap_for_y, foi, rate)
  <1>1. most \in Nat \ {0} /\ U64Max \in Nat \ {0} /\ amount_in \in Nat \ {0} /\ amount_in <= U64Max
    BY MostIsPositive, WidthAssumption
  <1>2. CASE foi
    <2> DEFINE whole == excluded_fee_amount(U64Max, rate)
               left  == excluded_fee_amount(amount_in, rate)
               all   == Consumed(U64Max, bin, swap_for_y, TRUE, rate)
               used  == Consumed(amount_in, bin, swap_for_y, TRUE, rate)
               full  == included_fee_amount(most, rate)
    <2>1. whole \in 0..U64Max /\ left \in 0..amount_in /\ full \in Nat
      BY <1>1, FeeGalois
    <2>2. all = Least(whole, most) /\ used = Least(left, most)
      BY DEF Consumed, Available
    <2>3. capacity.amount_in = IF all = whole THEN U64Max ELSE included_fee_amount(all, rate)
      BY <1>1, <1>2, InputFeeForm DEF dlmm_bin_quote_capacity, Gross, Available
    <2>4. capacity.amount_out = RawOut(U64Max, bin, swap_for_y, TRUE, rate)
      BY <1>1, <1>2, InputFeeForm DEF dlmm_bin_quote_capacity
    <2>5. quote.amount_in = IF used = left THEN amount_in ELSE included_fee_amount(used, rate)
      BY <1>1, <1>2, InputFeeForm DEF Gross, Available
    <2>6. quote.amount_out = RawOut(amount_in, bin, swap_for_y, TRUE, rate)
      BY <1>1, <1>2, InputFeeForm
    <2>7. amount_in > capacity.amount_in
      OBVIOUS
    <2> HIDE DEF quote, capacity
    <2>8. all = most /\ all # whole
      <3> HIDE DEF all, whole, most
      <3>1. all # whole
        BY <1>1, <2>3, <2>7
      <3>2. QED
        BY <2>2, <3>1 DEF Least
    <2>9. capacity.amount_in = full /\ amount_in > full
      BY <2>3, <2>7, <2>8
    <2>10. most <= left
      BY <1>1, <2>1, <2>9, FeeGalois
    <2>11. used = most
      <3> HIDE DEF used, most, left
      <3>1. QED
        BY <1>1, <2>1, <2>2, <2>10 DEF Least
    <2>12. quote.amount_out = capacity.amount_out
      BY <2>4, <2>6, <2>8, <2>11 DEF RawOut
    <2>13. CASE left # most
      BY <2>5, <2>9, <2>11, <2>12, <2>13 DEF quote, capacity
    <2>14. CASE left = most
      <3>1. quote.amount_in = amount_in
        BY <2>5, <2>11, <2>14
      <3>2. amount_in = full + 1
        <4>1. SUFFICES ASSUME full + 2 <= amount_in PROVE FALSE
          BY <1>1, <2>1, <2>9
        <4>2. most <= excluded_fee_amount(full, rate) /\ excluded_fee_amount(full, rate) \in 0..full
          BY <1>1, <2>1, FeeGalois
        <4>3. excluded_fee_amount(full, rate) + 1 <= excluded_fee_amount(full + 2, rate)
          BY <2>1, ExcludedAdvances
        <4>4. excluded_fee_amount(full + 2, rate) <= left /\ excluded_fee_amount(full + 2, rate) \in 0..(full + 2)
          BY <1>1, <2>1, <4>1, ExcludedGrows, FeeGalois
        <4> HIDE DEF full, left, most
        <4>5. QED
          BY <1>1, <2>1, <2>14, <4>2, <4>3, <4>4
      <3>3. QED
        BY <1>2, <2>9, <2>12, <3>1, <3>2 DEF quote, capacity
    <2>15. QED
      BY <2>13, <2>14
  <1>3. CASE ~foi
    <2>1. capacity.amount_in = Least(U64Max, most) /\ quote.amount_in = Least(amount_in, most)
      <3>1. /\ capacity.amount_in = Consumed(U64Max, bin, swap_for_y, FALSE, rate)
            /\ quote.amount_in = Consumed(amount_in, bin, swap_for_y, FALSE, rate)
        <4>1. foi = FALSE
          BY <1>3
        <4>2. QED
          BY <1>1, <4>1, OutputFeeForm DEF dlmm_bin_quote_capacity
      <3> HIDE DEF capacity, quote
      <3>2. QED
        BY <3>1 DEF Consumed, Available
    <2>2. amount_in > capacity.amount_in
      OBVIOUS
    <2>3. capacity.amount_in = most /\ quote.amount_in = most
      <3> HIDE DEF capacity, quote, most
      <3>1. QED
        BY <1>1, <2>1, <2>2 DEF Least
    <2>4. /\ Consumed(U64Max, bin, swap_for_y, FALSE, rate) = most
          /\ Consumed(amount_in, bin, swap_for_y, FALSE, rate) = most
      BY <2>1, <2>3 DEF Consumed, Available
    <2>5. RawOut(U64Max, bin, swap_for_y, FALSE, rate) = RawOut(amount_in, bin, swap_for_y, FALSE, rate)
      BY <2>4 DEF RawOut
    <2>6. /\ capacity.amount_out = excluded_fee_amount(RawOut(U64Max, bin, swap_for_y, FALSE, rate), rate)
          /\ quote.amount_out = excluded_fee_amount(RawOut(amount_in, bin, swap_for_y, FALSE, rate), rate)
      BY <1>1, <1>3, OutputFeeForm DEF dlmm_bin_quote_capacity
    <2>7. QED
      BY <2>3, <2>5, <2>6
  <1>4. QED
    BY <1>2, <1>3

-----------------------------------------------------------------------------
(* Both walks, round by round.  p is the state of the production walk for  *)
(* an amount, c that of the curve.                                         *)

\* Both are at the same bin, and the amount reaches beyond the curve.
Together(p, c, amount) ==
  /\ c.stop = "visited_bin_limit" /\ p.ok
  /\ p.remaining = amount - c.total_in /\ p.remaining > 0
  /\ p.id = c.id /\ p.variable = c.variable /\ p.used = c.used /\ p.amount_out = c.total_out

\* All is sold, and a segment answers for it.
Answered(p, c, amount) ==
  /\ p.ok /\ p.remaining = 0
  /\ \E i \in 1..Len(c.segments) :
       LET segment == c.segments[i]
       IN  /\ segment.input_start < amount /\ amount <= segment.input_end
           /\ p.amount_out = SegmentQuote(segment, amount - segment.input_start).amount_out
           /\ IsPrefix(p.used, segment.used)

\* All is sold, a unit more than what the curve covers so far.
UnitMore(p, c, amount, is_fee_on_input) ==
  /\ p.ok /\ p.remaining = 0 /\ is_fee_on_input
  /\ amount = c.total_in + 1 /\ c.total_in > 0
  /\ p.amount_out = c.total_out /\ IsPrefix(p.used, c.used)

\* The curve ends before the amount.
Beyond(p, c, amount, input_limit) ==
  /\ c.stop # "visited_bin_limit" /\ amount > c.total_in
  /\ c.stop \in CurveErrors \/ c.total_in >= input_limit \/ ~p.ok

Related(p, c, amount, input_limit, is_fee_on_input) ==
  \/ Together(p, c, amount) \/ Answered(p, c, amount)
  \/ UnitMore(p, c, amount, is_fee_on_input) \/ Beyond(p, c, amount, input_limit)

\* A bin that is visited is empty, or cannot be quoted, or gives as a segment says.
LEMMA VisitedBin ==
  ASSUME NEW pair, IsPair(pair), Smooth(pair), NEW c \in CurveStates(pair),
         NEW swap_for_y \in BOOLEAN, Visits(c, pair)
  PROVE  LET bin      == Bin(pair, c.id)
             foi      == fee_on_input(pair, swap_for_y)
             capacity == CapacityOf(c, pair, swap_for_y)
         IN  /\ foi \in BOOLEAN /\ bin \in BinData /\ RateOf(c, pair) \in Rates
             /\ RateOf(c, pair) >= 1
             /\ \/ /\ capacity.amount_in = 0 /\ capacity.amount_out = 0 /\ capacity.ok
                   /\ \A r \in Nat \ {0} : PartOf(c, pair, swap_for_y, r) = Quote(0, 0, 0)
                \/ /\ ~capacity.ok
                   /\ \A r \in Nat \ {0} : ~PartOf(c, pair, swap_for_y, r).ok
                \/ /\ Swap(bin, swap_for_y) /\ capacity.ok
                   /\ capacity.amount_in # 0 /\ capacity.amount_out # 0
                   /\ foi => excluded_fee_amount(U64Max, RateOf(c, pair)) # Most(bin, swap_for_y)
  <1> DEFINE bin      == Bin(pair, c.id)
             foi      == fee_on_input(pair, swap_for_y)
             rate     == RateOf(c, pair)
             index    == bin_array_index(c.id)
             capacity == CapacityOf(c, pair, swap_for_y)
  <1>1. c.id \in Int /\ c.variable \in Variables
    BY DEF CurveStates
  <1>2. base_fee(pair.fees) # 0
    BY DEF Smooth
  <1>3. /\ foi \in BOOLEAN /\ bin \in BinData /\ index \in pair.arrays
        /\ rate \in Rates /\ rate >= 1
    BY <1>1, <1>2, VisitFacts
  <1>4. NoDust(bin, swap_for_y, foi)
    <2>1. c.id \in BinsOf(index)
      BY <1>1, IndexFacts
    <2>2. QED
      BY <1>3, <2>1 DEF Smooth
  <1>5. rate \in 1..MaxFeeRate
    BY <1>3, UnitsAssumption DEF Rates
  <1>6. /\ capacity = dlmm_bin_quote_capacity(bin, swap_for_y, foi, rate)
        /\ capacity = dlmm_quote_exact_in_partial(U64Max, bin, swap_for_y, foi, rate)
        /\ \A r : PartOf(c, pair, swap_for_y, r)
                    = dlmm_quote_exact_in_partial(r, bin, swap_for_y, foi, rate)
    BY DEF CapacityOf, PartOf, dlmm_bin_quote_capacity
  <1>7. U64Max \in Nat \ {0}
    BY WidthAssumption
  <1> HIDE DEF bin, foi, rate, capacity
  <1>8. CASE max_out(bin, swap_for_y) = 0
    <2>1. \A r \in Nat \ {0} : PartOf(c, pair, swap_for_y, r) = Quote(0, 0, 0)
      BY <1>6, <1>8, EmptyBin
    <2>2. capacity = Quote(0, 0, 0)
      BY <1>6, <1>7, <1>8, EmptyBin
    <2>3. capacity.amount_in = 0 /\ capacity.amount_out = 0 /\ capacity.ok
      BY <2>2 DEF Quote
    <2>4. QED
      BY <1>3, <2>1, <2>3 DEF bin, foi, rate, capacity
  <1>9. CASE max_out(bin, swap_for_y) # 0 /\ BinOverflows(bin, swap_for_y)
    <2>1. ASSUME NEW r \in Nat \ {0}
          PROVE  ~PartOf(c, pair, swap_for_y, r).ok
      <3>1. PartOf(c, pair, swap_for_y, r) = NoQuote
        BY <1>6, <1>9, OverflowingBin
      <3>2. QED
        BY <3>1 DEF NoQuote
    <2>2. ~capacity.ok
      <3>1. capacity = NoQuote
        BY <1>6, <1>7, <1>9, OverflowingBin
      <3>2. QED
        BY <3>1 DEF NoQuote
    <2>3. QED
      BY <1>3, <2>1, <2>2 DEF bin, foi, rate, capacity
  <1>10. CASE max_out(bin, swap_for_y) # 0 /\ ~BinOverflows(bin, swap_for_y)
    <2>1. Swap(bin, swap_for_y)
      BY <1>3, <1>10, SwapOfBin
    <2>2. capacity.ok
      <3>1. dlmm_quote_exact_in_partial(U64Max, bin, swap_for_y, foi, rate).ok = TRUE
        BY <1>3, <1>7, <2>1, QuotedBin
      <3>2. QED
        BY <1>6, <3>1
    <2>3. capacity.amount_in # 0
      BY <1>3, <1>6, <2>1, CapacityTakes
    <2>4. /\ capacity.amount_out # 0
          /\ foi => excluded_fee_amount(U64Max, rate) # Most(bin, swap_for_y)
      BY <1>4, <1>5, <1>6, <1>10 DEF NoDust, Most
    <2>5. QED
      BY <1>3, <2>1, <2>2, <2>3, <2>4 DEF bin, foi, rate, capacity
  <1>11. QED
    BY <1>8, <1>9, <1>10

\* The new segment answers as its bin does.
LEMMA SegmentStands ==
  ASSUME NEW pair, IsPair(pair), Smooth(pair), NEW c \in CurveStates(pair),
         NEW swap_for_y \in BOOLEAN, Visits(c, pair),
         CapacityFits(c, CapacityOf(c, pair, swap_for_y)),
         CapacityOf(c, pair, swap_for_y).amount_in # 0,
         NEW r \in Nat \ {0}, r <= CapacityOf(c, pair, swap_for_y).amount_in
  PROVE  LET part    == PartOf(c, pair, swap_for_y, r)
             segment == SegmentOf(c, pair, swap_for_y)
         IN  /\ part.ok /\ part.amount_in = r
             /\ part.amount_out <= CapacityOf(c, pair, swap_for_y).amount_out
             /\ SegmentQuote(segment, r).amount_out = c.total_out + part.amount_out
  <1> DEFINE bin      == Bin(pair, c.id)
             foi      == fee_on_input(pair, swap_for_y)
             rate     == RateOf(c, pair)
             capacity == CapacityOf(c, pair, swap_for_y)
             part     == PartOf(c, pair, swap_for_y, r)
             segment  == SegmentOf(c, pair, swap_for_y)
  <1>1. /\ foi \in BOOLEAN /\ rate \in Rates /\ Swap(bin, swap_for_y)
        /\ foi => excluded_fee_amount(U64Max, rate) # Most(bin, swap_for_y)
    BY VisitedBin DEF CapacityFits
  <1>2. /\ capacity = dlmm_bin_quote_capacity(bin, swap_for_y, foi, rate)
        /\ capacity = dlmm_quote_exact_in_partial(U64Max, bin, swap_for_y, foi, rate)
        /\ part = dlmm_quote_exact_in_partial(r, bin, swap_for_y, foi, rate)
    BY DEF CapacityOf, PartOf, dlmm_bin_quote_capacity
  <1>3. /\ capacity.amount_in \in 0..U64Max /\ capacity.amount_in \in Nat
        /\ capacity.amount_out \in Nat /\ c.total_in \in Nat /\ c.total_out \in Nat
    <2>1. capacity.amount_in \in Nat /\ capacity.amount_out \in Nat
          /\ c.total_in + capacity.amount_in \in 0..U64Max
      BY CapacityFacts
    <2>2. c.total_in \in Nat /\ c.total_out \in Nat
      BY WidthAssumption DEF CurveStates
    <2> HIDE DEF capacity
    <2>3. capacity.amount_in \in 0..U64Max
      BY <2>1, <2>2, WidthAssumption
    <2>4. QED
      BY <2>1, <2>2, <2>3
  <1>4. /\ segment.price = bin.price /\ segment.swap_for_y = swap_for_y
        /\ segment.fee_on_input = foi /\ segment.fee_rate = rate
        /\ segment.input_start = c.total_in /\ segment.output_start = c.total_out
        /\ segment.input_end = c.total_in + capacity.amount_in
        /\ segment.output_end = c.total_out + capacity.amount_out
    BY DEF SegmentOf
  <1> HIDE DEF bin, foi, rate, capacity, part, segment
  <1>5. /\ segment.input_end - segment.input_start = capacity.amount_in
        /\ segment.output_end - segment.output_start = capacity.amount_out
    BY <1>3, <1>4
  <1>6. U64Max # 0 /\ U64Max \in Nat \ {0} /\ r <= capacity.amount_in /\ r <= U64Max
    BY <1>3, WidthAssumption DEF capacity
  <1>7. part.amount_in = r /\ part.amount_out = dlmm_bin_output_within_capacity(r, segment)
    <2>1. /\ segment.input_end - segment.input_start
               = dlmm_bin_quote_capacity(bin, swap_for_y, foi, rate).amount_in
          /\ segment.output_end - segment.output_start
               = dlmm_bin_quote_capacity(bin, swap_for_y, foi, rate).amount_out
          /\ r <= dlmm_bin_quote_capacity(bin, swap_for_y, foi, rate).amount_in
      BY <1>2, <1>5, <1>6
    <2> DEFINE quote == dlmm_quote_exact_in_partial(r, bin, swap_for_y, foi, rate)
    <2>2. quote.amount_in = r /\ quote.amount_out = dlmm_bin_output_within_capacity(r, segment)
      BY <1>1, <1>4, <1>6, <2>1, SegmentIsBin
    <2>3. QED
      BY <1>2, <2>2
  <1>8. part.ok
    BY <1>1, <1>2, BinIsQuoted
  <1>9. part.amount_out <= capacity.amount_out
    BY <1>1, <1>2, <1>6, MoreInputGivesNoLess
  <1>10. SegmentQuote(segment, r).amount_out = c.total_out + part.amount_out
    BY <1>4, <1>7 DEF SegmentQuote
  <1>11. QED
    BY <1>7, <1>8, <1>9, <1>10 DEF part, segment, capacity

LEMMA SegmentsStay ==
  ASSUME NEW pair, IsPair(pair), NEW c \in CurveStates(pair), NEW swap_for_y \in BOOLEAN,
         NEW input_limit
  PROVE  LET v == AddSegment(c, pair, swap_for_y, input_limit)
         IN  \A i \in 1..Len(c.segments) :
               i \in 1..Len(v.segments) /\ v.segments[i] = c.segments[i]
  <1> DEFINE v   == AddSegment(c, pair, swap_for_y, input_limit)
             new == SegmentOf(c, pair, swap_for_y)
  <1>1. AddCases(c, v, pair, swap_for_y, input_limit)
    BY AddIsCase
  <1>2. c.segments \in Seq(SegmentsOf(pair)) /\ Len(c.segments) \in Nat
    BY DEF CurveStates
  <1> SUFFICES \A i \in 1..Len(c.segments) :
                 i \in 1..Len(v.segments) /\ v.segments[i] = c.segments[i]
    OBVIOUS
  <1> HIDE DEF v, new
  <1>3. \/ v.segments = c.segments
        \/ v.segments = Append(c.segments, new) /\ new \in SegmentsOf(pair)
    <2>1. CASE v = Extended(c, pair, swap_for_y, input_limit) /\ Visits(c, pair)
               /\ CapacityFits(c, CapacityOf(c, pair, swap_for_y))
      BY <2>1, ExtendedFields, CapacityFacts DEF new
    <2>2. CASE v = Passed(c, pair, swap_for_y)
      BY <2>2, PassedFields
    <2>3. CASE v = c \/ v = [c EXCEPT !.id = next_bin(c.id, swap_for_y)] \/ Halts(c, v)
               \/ Breaks(c, v)
      BY <2>3 DEF CurveStates, Halts, Breaks
    <2>4. QED
      BY <1>1, <2>1, <2>2, <2>3 DEF AddCases
  <1>4. CASE v.segments = c.segments
    BY <1>4
  <1>5. CASE v.segments = Append(c.segments, new) /\ new \in SegmentsOf(pair)
    <2>1. /\ Len(v.segments) = Len(c.segments) + 1
          /\ \A i \in 1..Len(c.segments) : v.segments[i] = c.segments[i]
      BY <1>2, <1>5, AppendProperties
    <2>2. QED
      BY <1>2, <2>1
  <1>6. QED
    BY <1>3, <1>4, <1>5

LEMMA BeyondStays ==
  ASSUME NEW pair, NEW p, NEW c, NEW amount, NEW swap_for_y, NEW input_limit,
         Beyond(p, c, amount, input_limit)
  PROVE  Beyond(TakeFromBin(p, pair, swap_for_y), AddSegment(c, pair, swap_for_y, input_limit),
                amount, input_limit)
  <1>1. AddSegment(c, pair, swap_for_y, input_limit) = c
    BY DEF AddSegment, Beyond
  <1>2. ~p.ok => TakeFromBin(p, pair, swap_for_y) = p
    BY TakeForm
  <1>3. QED
    BY <1>1, <1>2 DEF Beyond

LEMMA AnsweredStays ==
  ASSUME NEW pair, IsPair(pair), NEW p, NEW c \in CurveStates(pair), NEW amount,
         NEW swap_for_y \in BOOLEAN, NEW input_limit, Answered(p, c, amount)
  PROVE  Answered(TakeFromBin(p, pair, swap_for_y), AddSegment(c, pair, swap_for_y, input_limit),
                  amount)
  <1> DEFINE v == AddSegment(c, pair, swap_for_y, input_limit)
  <1>1. TakeFromBin(p, pair, swap_for_y) = p
    BY TakeForm DEF Answered
  <1>2. \A i \in 1..Len(c.segments) : i \in 1..Len(v.segments) /\ v.segments[i] = c.segments[i]
    BY SegmentsStay
  <1> HIDE DEF v
  <1>3. Answered(p, v, amount)
    BY <1>2 DEF Answered
  <1>4. QED
    BY <1>1, <1>3 DEF v

\* The segment that a round adds answers for an amount up to its capacity.
LEMMA NewAnswers ==
  ASSUME NEW pair, IsPair(pair), Smooth(pair), NEW c \in CurveStates(pair),
         NEW swap_for_y \in BOOLEAN, NEW input_limit, NEW p, NEW r \in Nat \ {0},
         Visits(c, pair), CapacityFits(c, CapacityOf(c, pair, swap_for_y)),
         CapacityOf(c, pair, swap_for_y).amount_in # 0,
         r <= CapacityOf(c, pair, swap_for_y).amount_in,
         p.ok, p.remaining = 0,
         p.amount_out = c.total_out + PartOf(c, pair, swap_for_y, r).amount_out,
         IsPrefix(p.used, Used(c.used, bin_array_index(c.id)))
  PROVE  Answered(p, Extended(c, pair, swap_for_y, input_limit), c.total_in + r)
  <1> DEFINE v       == Extended(c, pair, swap_for_y, input_limit)
             segment == SegmentOf(c, pair, swap_for_y)
             i       == Len(c.segments) + 1
             part    == CapacityOf(c, pair, swap_for_y).amount_in
  <1>1. c.segments \in Seq(SegmentsOf(pair)) /\ Len(c.segments) \in Nat /\ c.total_in \in Nat
    BY WidthAssumption DEF CurveStates
  <1>2. segment \in SegmentsOf(pair) /\ part \in Nat
    BY CapacityFacts
  <1>3. v.segments = Append(c.segments, segment)
    BY ExtendedFields
  <1>4. /\ segment.input_start = c.total_in /\ segment.input_end = c.total_in + part
        /\ segment.used = Used(c.used, bin_array_index(c.id))
    BY DEF SegmentOf
  <1>5. SegmentQuote(segment, r).amount_out = p.amount_out
    BY SegmentStands
  <1>6. r <= part
    OBVIOUS
  <1> HIDE DEF v, segment, part
  <1>7. i \in 1..Len(v.segments) /\ v.segments[i] = segment
    BY <1>1, <1>2, <1>3, AppendProperties
  <1>8. /\ segment.input_start < c.total_in + r /\ c.total_in + r <= segment.input_end
        /\ (c.total_in + r) - segment.input_start = r
    BY <1>1, <1>2, <1>4, <1>6
  <1>9. IsPrefix(p.used, segment.used)
    BY <1>4
  <1> HIDE DEF i
  <1>10. Answered(p, v, c.total_in + r)
    BY <1>5, <1>7, <1>8, <1>9 DEF Answered
  <1>11. QED
    BY <1>10 DEF v

\* A unit more than the curve covers: if a bin follows, its segment gives nothing
\* for the unit.
LEMMA UnitMoves ==
  ASSUME NEW pair, IsPair(pair), Smooth(pair), NEW p \in QuoteStates(pair),
         NEW c \in CurveStates(pair), NEW amount \in 1..U64Max, NEW swap_for_y \in BOOLEAN,
         NEW input_limit, UnitMore(p, c, amount, fee_on_input(pair, swap_for_y))
  PROVE  LET q == TakeFromBin(p, pair, swap_for_y)
             v == AddSegment(c, pair, swap_for_y, input_limit)
         IN  UnitMore(q, v, amount, fee_on_input(pair, swap_for_y)) \/ Answered(q, v, amount)
  <1> DEFINE v     == AddSegment(c, pair, swap_for_y, input_limit)
             foi   == fee_on_input(pair, swap_for_y)
             index == bin_array_index(c.id)
  <1>1. TakeFromBin(p, pair, swap_for_y) = p
    BY TakeForm DEF UnitMore
  <1>2. AddCases(c, v, pair, swap_for_y, input_limit)
    BY AddIsCase
  <1> SUFFICES UnitMore(p, v, amount, foi) \/ Answered(p, v, amount)
    BY <1>1
  <1>3. /\ p.used \in Seq(pair.arrays) /\ c.used \in Seq(pair.arrays)
        /\ c.id \in Int /\ c.variable \in Variables
    BY DEF QuoteStates, CurveStates
  <1>4. Visits(c, pair) => index \in pair.arrays
    BY <1>3, VisitFacts
  <1>5. Visits(c, pair) => IsPrefix(p.used, Used(c.used, index))
    BY <1>3, <1>4, UsedFacts DEF UnitMore
  <1> HIDE DEF v
  <1>6. CASE v = c \/ v = [c EXCEPT !.id = next_bin(c.id, swap_for_y)] \/ Halts(c, v)
             \/ Breaks(c, v)
    <2>1. v.total_in = c.total_in /\ v.total_out = c.total_out /\ v.used = c.used
      BY <1>6 DEF CurveStates, Halts, Breaks
    <2>2. QED
      BY <2>1 DEF UnitMore
  <1>7. CASE v = Passed(c, pair, swap_for_y) /\ Visits(c, pair)
    <2>1. v.total_in = c.total_in /\ v.total_out = c.total_out /\ v.used = Used(c.used, index)
      BY <1>7, PassedFields
    <2>2. QED
      BY <1>5, <1>7, <2>1 DEF UnitMore
  <1>8. CASE /\ v = Extended(c, pair, swap_for_y, input_limit) /\ Visits(c, pair)
             /\ CapacityFits(c, CapacityOf(c, pair, swap_for_y))
             /\ CapacityOf(c, pair, swap_for_y).amount_in # 0
    <2> DEFINE bin  == Bin(pair, c.id)
               rate == RateOf(c, pair)
    <2>1. Swap(bin, swap_for_y) /\ rate \in Rates /\ rate >= 1
      BY <1>8, VisitedBin DEF CapacityFits
    <2>2. foi = TRUE
      BY DEF UnitMore, fee_on_input
    <2>3. PartOf(c, pair, swap_for_y, 1).amount_out = 0
      BY <2>1, <2>2, UnitBuysNothing DEF PartOf
    <2>4. CapacityOf(c, pair, swap_for_y).amount_in \in Nat /\ 1 \in Nat \ {0}
          /\ c.total_out \in Nat
      BY <1>8, CapacityFacts, WidthAssumption DEF CurveStates
    <2>5. 1 <= CapacityOf(c, pair, swap_for_y).amount_in
      BY <1>8, <2>4
    <2>6. /\ p.ok /\ p.remaining = 0 /\ amount = c.total_in + 1
          /\ p.amount_out = c.total_out + PartOf(c, pair, swap_for_y, 1).amount_out
      BY <2>3, <2>4 DEF UnitMore
    <2>7. Answered(p, Extended(c, pair, swap_for_y, input_limit), c.total_in + 1)
      BY <1>5, <1>8, <2>4, <2>5, <2>6, NewAnswers
    <2>8. QED
      BY <1>8, <2>6, <2>7
  <1>9. QED
    BY <1>2, <1>6, <1>7, <1>8 DEF AddCases

\* What the production walk takes at a bin both walks visit.
LEMMA TakenFields ==
  ASSUME NEW pair, NEW p \in QuoteStates(pair), NEW swap_for_y, Visits(p, pair),
         p.ok, p.remaining > 0
  PROVE  LET part == PartOf(p, pair, swap_for_y, p.remaining)
             q    == TakeFromBin(p, pair, swap_for_y)
         IN  /\ ~part.ok \/ p.amount_out + part.amount_out > U64Max => ~q.ok
             /\ part.ok /\ ~(p.amount_out + part.amount_out > U64Max) =>
                  /\ q.ok
                  /\ q.id = IF part.amount_in = p.remaining THEN p.id
                            ELSE next_bin(p.id, swap_for_y)
                  /\ q.remaining = p.remaining - part.amount_in
                  /\ q.amount_out = p.amount_out + part.amount_out
                  /\ q.used = Used(p.used, bin_array_index(p.id))
                  /\ q.variable = Moved(p, pair)
  <1> DEFINE part == PartOf(p, pair, swap_for_y, p.remaining)
             q    == TakeFromBin(p, pair, swap_for_y)
  <1>1. Initialized(pair, bin_array_index(p.id)) /\ p.remaining \in Nat /\ p.remaining # 0
    BY DEF Visits, QuoteStates
  <1>2. q = Taken(p, swap_for_y, bin_array_index(p.id), Moved(p, pair), part)
    BY <1>1, TakeForm
  <1>3. [p EXCEPT !.ok = FALSE].ok = FALSE
    BY DEF QuoteStates
  <1> HIDE DEF part, q
  <1>4. QED
    BY <1>2, <1>3 DEF Taken, part, q

LEMMA SameSpot ==
  ASSUME NEW pair, NEW p, NEW c, NEW swap_for_y,
         p.id = c.id, p.variable = c.variable, p.used = c.used
  PROVE  /\ Moved(p, pair) = Moved(c, pair)
         /\ Visits(p, pair) <=> Visits(c, pair)
         /\ \A r : PartOf(p, pair, swap_for_y, r) = PartOf(c, pair, swap_for_y, r)
  BY DEF Moved, Visits, PartOf, RateOf

\* Together before a bin: both pass it, or stop at it, or the amount ends in it, or
\* both take all it has to give.
LEMMA TogetherMoves ==
  ASSUME NEW pair, IsPair(pair), Smooth(pair), NEW p \in QuoteStates(pair),
         NEW c \in CurveStates(pair), NEW amount \in 1..U64Max, NEW swap_for_y \in BOOLEAN,
         NEW input_limit \in Int, Together(p, c, amount)
  PROVE  Related(TakeFromBin(p, pair, swap_for_y), AddSegment(c, pair, swap_for_y, input_limit),
                 amount, input_limit, fee_on_input(pair, swap_for_y))
  <1> DEFINE q        == TakeFromBin(p, pair, swap_for_y)
             v        == AddSegment(c, pair, swap_for_y, input_limit)
             foi      == fee_on_input(pair, swap_for_y)
             index    == bin_array_index(c.id)
             next     == next_bin(c.id, swap_for_y)
             r        == p.remaining
             part     == PartOf(c, pair, swap_for_y, r)
             capacity == CapacityOf(c, pair, swap_for_y)
  <1>1. AddCases(c, v, pair, swap_for_y, input_limit)
    BY AddIsCase
  <1>2. /\ r \in Nat \ {0} /\ r = amount - c.total_in /\ r <= U64Max
        /\ c.total_in \in Nat /\ c.total_out \in Nat /\ amount \in Nat
        /\ amount > c.total_in
    <2>1. c.total_in \in Nat /\ c.total_out \in Nat /\ amount \in Nat /\ amount <= U64Max
      BY WidthAssumption DEF CurveStates
    <2>2. r = amount - c.total_in /\ r > 0
      BY DEF Together
    <2>3. QED
      BY <2>1, <2>2, WidthAssumption
  <1>3. /\ p.ok /\ p.id = c.id /\ p.variable = c.variable /\ p.used = c.used
        /\ p.amount_out = c.total_out /\ c.stop = "visited_bin_limit"
    BY DEF Together
  <1>4. /\ Moved(p, pair) = Moved(c, pair) /\ (Visits(p, pair) <=> Visits(c, pair))
        /\ PartOf(p, pair, swap_for_y, r) = part
    BY <1>3, SameSpot
  <1>5. c.used \in Seq(pair.arrays) /\ c.id \in Int /\ c.variable \in Variables
    BY DEF CurveStates
  <1> SUFFICES Related(q, v, amount, input_limit, foi)
    OBVIOUS
  <1>6. CASE ~Initialized(pair, index) /\ v = [c EXCEPT !.id = next]
    <2>1. q = [p EXCEPT !.id = next]
      BY <1>2, <1>3, <1>6, TakeForm
    <2>2. /\ q.id = next /\ q.remaining = p.remaining /\ q.ok = p.ok /\ q.variable = p.variable
          /\ q.used = p.used /\ q.amount_out = p.amount_out
      BY <2>1 DEF QuoteStates
    <2>3. /\ v.id = next /\ v.total_in = c.total_in /\ v.total_out = c.total_out
          /\ v.variable = c.variable /\ v.used = c.used /\ v.stop = c.stop
      BY <1>6 DEF CurveStates
    <2> HIDE DEF q, v
    <2>4. QED
      BY <2>2, <2>3 DEF Together, Related
  <1>7. CASE Initialized(pair, index) /\ ~Visits(c, pair) /\ Halts(c, v)
    <2>1. q = [p EXCEPT !.ok = FALSE]
      BY <1>2, <1>3, <1>4, <1>7, TakeForm
    <2>2. q.ok = FALSE
      BY <2>1 DEF QuoteStates
    <2>3. v.total_in = c.total_in /\ v.stop # "visited_bin_limit"
      BY <1>7 DEF CurveStates, Halts, Breaks, CurveErrors
    <2> HIDE DEF q, v
    <2>4. QED
      BY <1>2, <2>2, <2>3 DEF Beyond, Related
  <1>8. CASE Visits(c, pair) /\ ~CapacityFits(c, capacity) /\ Breaks(c, v)
    <2>1. /\ v.total_in = c.total_in /\ v.stop \in CurveErrors
          /\ v.stop # "visited_bin_limit"
      BY <1>8 DEF CurveStates, Breaks, CurveErrors
    <2> HIDE DEF q, v
    <2>2. QED
      BY <1>2, <2>1 DEF Beyond, Related
  <1>9. CASE /\ Visits(c, pair) /\ CapacityFits(c, capacity) /\ v = Passed(c, pair, swap_for_y)
             /\ capacity.amount_in = 0 \/ capacity.amount_out = 0
    <2>1. part = Quote(0, 0, 0)
      <3>1. capacity.ok
        BY <1>9 DEF CapacityFits
      <3> HIDE DEF r, part
      <3>2. QED
        BY <1>2, <1>9, <3>1, VisitedBin DEF part
    <2>2. part.ok /\ part.amount_in = 0 /\ part.amount_out = 0
      BY <2>1 DEF Quote
    <2>3. ~(p.amount_out + part.amount_out > U64Max) /\ p.amount_out + part.amount_out = p.amount_out
      BY <2>2, WidthAssumption DEF QuoteStates
    <2>4. /\ q.ok /\ q.id = next /\ q.remaining = r /\ q.amount_out = p.amount_out
          /\ q.used = Used(c.used, index) /\ q.variable = Moved(c, pair)
      <3>1. q.id = IF part.amount_in = r THEN p.id ELSE next_bin(p.id, swap_for_y)
        BY <1>2, <1>3, <1>4, <1>9, <2>2, <2>3, TakenFields
      <3>2. /\ q.ok /\ q.remaining = r - part.amount_in /\ q.amount_out = p.amount_out + part.amount_out
            /\ q.used = Used(c.used, index) /\ q.variable = Moved(c, pair)
        BY <1>2, <1>3, <1>4, <1>9, <2>2, <2>3, TakenFields
      <3> HIDE DEF q, part, r
      <3>3. QED
        BY <1>2, <1>3, <2>2, <2>3, <3>1, <3>2
    <2>5. /\ v.id = next /\ v.total_in = c.total_in /\ v.total_out = c.total_out
          /\ v.variable = Moved(c, pair) /\ v.used = Used(c.used, index) /\ v.stop = c.stop
      BY <1>9, PassedFields
    <2> HIDE DEF q, v
    <2>6. Together(q, v, amount)
      BY <1>2, <1>3, <2>4, <2>5 DEF Together
    <2>7. QED
      BY <2>6 DEF Related
  <1>10. CASE /\ Visits(c, pair) /\ CapacityFits(c, capacity)
              /\ capacity.amount_in # 0 /\ capacity.amount_out # 0
              /\ v = Extended(c, pair, swap_for_y, input_limit)
    <2>1. /\ capacity.amount_in \in Nat /\ capacity.amount_out \in Nat
          /\ c.total_in + capacity.amount_in \in 0..U64Max
          /\ c.total_out + capacity.amount_out \in 0..U64Max
      BY <1>10, CapacityFacts
    <2>2. /\ v.id = next /\ v.variable = Moved(c, pair) /\ v.used = Used(c.used, index)
          /\ v.total_in = c.total_in + capacity.amount_in
          /\ v.total_out = c.total_out + capacity.amount_out
          /\ v.stop = IF c.total_in + capacity.amount_in >= input_limit THEN "input_limit"
                      ELSE "visited_bin_limit"
      BY <1>3, <1>10, ExtendedFields
    <2>3. Used(c.used, index) \in Seq(pair.arrays) /\ IsPrefix(Used(c.used, index), Used(c.used, index))
      <3>1. Used(c.used, index) \in Seq(pair.arrays)
        BY <1>5, <1>10, VisitFacts, UsedFacts
      <3>2. QED
        BY <3>1, PrefixForm
    <2>4. CASE r <= capacity.amount_in
      <3>1. part.ok /\ part.amount_in = r /\ part.amount_out <= capacity.amount_out
        BY <1>2, <1>10, <2>4, SegmentStands
      <3>2. part.amount_out \in Nat
        <4>1. /\ Bin(pair, c.id) \in BinData /\ RateOf(c, pair) \in Rates /\ foi \in BOOLEAN
          BY <1>5, <1>10, VisitFacts
        <4>2. QED
          BY <1>2, <4>1, PartialFacts DEF PartOf
      <3>3. ~(p.amount_out + part.amount_out > U64Max)
        <4> HIDE DEF part, capacity
        <4>1. QED
          BY <1>2, <1>3, <2>1, <3>1, <3>2, WidthAssumption
      <3>4. /\ q.ok /\ q.remaining = r - r /\ q.amount_out = c.total_out + part.amount_out
            /\ q.used = Used(c.used, index)
        BY <1>2, <1>3, <1>4, <1>10, <3>1, <3>3, TakenFields
      <3>5. q.remaining = 0 /\ c.total_in + r = amount
        BY <1>2, <3>4
      <3> HIDE DEF q, v, r
      <3>6. Answered(q, Extended(c, pair, swap_for_y, input_limit), c.total_in + r)
        BY <1>2, <1>10, <2>3, <2>4, <3>4, <3>5, NewAnswers
      <3>7. QED
        BY <1>10, <3>5, <3>6 DEF Related
    <2>5. CASE r > capacity.amount_in
      <3> DEFINE bin  == Bin(pair, c.id)
                 rate == RateOf(c, pair)
      <3>1. /\ Swap(bin, swap_for_y) /\ foi \in BOOLEAN /\ rate \in Rates
            /\ foi => excluded_fee_amount(U64Max, rate) # Most(bin, swap_for_y)
        BY <1>10, VisitedBin DEF CapacityFits
      <3>2. /\ part = dlmm_quote_exact_in_partial(r, bin, swap_for_y, foi, rate)
            /\ capacity = dlmm_bin_quote_capacity(bin, swap_for_y, foi, rate)
        BY DEF PartOf, CapacityOf, dlmm_bin_quote_capacity
      <3>3. r \in 1..U64Max
        BY <1>2, WidthAssumption
      <3>4. /\ part.amount_out = capacity.amount_out
            /\ \/ part.amount_in = capacity.amount_in
               \/ foi /\ r = capacity.amount_in + 1 /\ part.amount_in = r
        <4> HIDE DEF bin, rate, foi, part, capacity, r
        <4>1. QED
          BY <2>5, <3>1, <3>2, <3>3, BeyondCapacity
      <3>5. part.ok
        BY <1>2, <3>1, <3>2, BinIsQuoted
      <3>6. ~(p.amount_out + part.amount_out > U64Max)
        <4> HIDE DEF part, capacity
        <4>1. QED
          BY <1>3, <2>1, <3>4, WidthAssumption
      <3>7. /\ q.ok /\ q.remaining = r - part.amount_in
            /\ q.amount_out = c.total_out + capacity.amount_out
            /\ q.used = Used(c.used, index) /\ q.variable = Moved(c, pair)
            /\ q.id = IF part.amount_in = r THEN p.id ELSE next
        BY <1>2, <1>3, <1>4, <1>10, <3>4, <3>5, <3>6, TakenFields
      <3> HIDE DEF q, v, part, capacity, r, foi
      <3>8. CASE part.amount_in = capacity.amount_in
        <4>1. /\ q.remaining = amount - v.total_in /\ q.remaining > 0 /\ amount > v.total_in
              /\ v.total_in \in Nat /\ q.id = next
          BY <1>2, <2>1, <2>2, <2>5, <3>7, <3>8
        <4>2. CASE v.stop = "visited_bin_limit"
          <5>1. Together(q, v, amount)
            BY <2>2, <3>7, <4>1, <4>2 DEF Together
          <5>2. QED
            BY <5>1 DEF Related
        <4>3. CASE v.stop # "visited_bin_limit"
          <5>1. v.total_in >= input_limit
            BY <2>2, <4>3
          <5>2. QED
            BY <4>1, <4>3, <5>1 DEF Beyond, Related
        <4>4. QED
          BY <4>2, <4>3
      <3>9. CASE foi /\ r = capacity.amount_in + 1 /\ part.amount_in = r
        <4>1. /\ q.remaining = 0 /\ amount = v.total_in + 1 /\ v.total_in > 0
          BY <1>2, <1>10, <2>1, <2>2, <3>7, <3>9
        <4>2. UnitMore(q, v, amount, foi)
          BY <2>2, <2>3, <3>7, <3>9, <4>1 DEF UnitMore
        <4>3. QED
          BY <4>2 DEF Related
      <3>10. QED
        BY <3>4, <3>8, <3>9
    <2>6. QED
      BY <1>2, <2>1, <2>4, <2>5
  <1>11. QED
    BY <1>1, <1>3, <1>6, <1>7, <1>8, <1>9, <1>10 DEF AddCases

LEMMA RoundRelates ==
  ASSUME NEW pair, IsPair(pair), Smooth(pair), NEW p \in QuoteStates(pair),
         NEW c \in CurveStates(pair), NEW amount \in 1..U64Max, NEW swap_for_y \in BOOLEAN,
         NEW input_limit \in Int,
         Related(p, c, amount, input_limit, fee_on_input(pair, swap_for_y))
  PROVE  Related(TakeFromBin(p, pair, swap_for_y), AddSegment(c, pair, swap_for_y, input_limit),
                 amount, input_limit, fee_on_input(pair, swap_for_y))
  BY TogetherMoves, AnsweredStays, UnitMoves, BeyondStays DEF Related

-----------------------------------------------------------------------------
(* The curve answers as the production quote.                              *)

LEMMA SegmentFields ==
  ASSUME NEW pair, NEW c \in CurveStates(pair)
  PROVE  /\ DOMAIN c.segments = 1..Len(c.segments) /\ Len(c.segments) \in Nat
         /\ \A i \in 1..Len(c.segments) :
              /\ c.segments[i].input_start \in Nat /\ c.segments[i].input_end \in Nat
              /\ c.segments[i].used \in Seq(pair.arrays)
  <1>1. c.segments \in Seq(SegmentsOf(pair))
    BY DEF CurveStates
  <1> DEFINE s == c.segments
  <1> HIDE DEF s
  <1>2. \A i \in 1..Len(s) : s[i] \in SegmentsOf(pair)
    BY <1>1, ElementOfSeq DEF s
  <1>3. DOMAIN s = 1..Len(s) /\ Len(s) \in Nat
    BY <1>1 DEF s
  <1>4. \A i \in 1..Len(s) : /\ s[i].input_start \in Nat /\ s[i].input_end \in Nat
                             /\ s[i].used \in Seq(pair.arrays)
    BY <1>2 DEF SegmentsOf
  <1>5. QED
    BY <1>3, <1>4 DEF s

\* The binary search finds the one segment that the amount lies in.
LEMMA Lookup ==
  ASSUME NEW pair, NEW c \in CurveStates(pair), Aligned(c), NEW i \in 1..Len(c.segments),
         NEW amount \in Nat,
         c.segments[i].input_start < amount, amount <= c.segments[i].input_end
  PROVE  curve_quote(Curve(c), amount)
           = SegmentQuote(c.segments[i], amount - c.segments[i].input_start)
  <1> DEFINE curve    == Curve(c)
             reaching == Reaching(curve, amount)
             s        == c.segments
  <1>1. curve.segments = s
    BY DEF Curve
  <1>2. DOMAIN s = 1..Len(s) /\ Len(s) \in Nat
        /\ \A j \in 1..Len(s) : s[j].input_start \in Nat /\ s[j].input_end \in Nat
    BY SegmentFields
  <1>3. \A j \in 1..(i - 1) : s[j].input_end <= s[i].input_start
    BY DEF Aligned
  <1>4. s[i].input_start < amount /\ amount <= s[i].input_end
    OBVIOUS
  <1> HIDE DEF s, curve
  <1>5. reaching = {j \in 1..Len(s) : amount <= s[j].input_end}
    BY <1>1, <1>2 DEF Reaching
  <1>6. i \in 1..Len(s)
    BY DEF s
  <1>7. i \in reaching
    BY <1>4, <1>5, <1>6
  <1>8. ASSUME NEW j \in reaching
        PROVE  j \in Int /\ i <= j
    <2>1. j \in 1..Len(s) /\ amount <= s[j].input_end
      BY <1>5
    <2>2. j \notin 1..(i - 1)
      BY <1>2, <1>3, <1>4, <1>6, <2>1
    <2>3. QED
      BY <1>2, <1>6, <2>1, <2>2
  <1> HIDE DEF reaching
  <1>9. (CHOOSE k \in reaching : \A j \in reaching : k <= j) = i
    <2>1. \A k \in reaching : (\A j \in reaching : k <= j) => k = i
      BY <1>6, <1>7, <1>8
    <2>2. i \in reaching /\ \A j \in reaching : i <= j
      BY <1>7, <1>8
    <2>3. QED
      BY <2>1, <2>2
  <1>10. FirstSegment(curve, reaching) = s[i]
    BY <1>1, <1>9 DEF FirstSegment
  <1>11. amount # 0 /\ reaching # {}
    BY <1>2, <1>4, <1>6, <1>7
  <1>12. curve_quote(curve, amount) = SegmentQuote(s[i], amount - s[i].input_start)
    BY <1>10, <1>11 DEF curve_quote, reaching
  <1>13. QED
    BY <1>12 DEF curve, s

LEMMA BeyondIsNotAnswered ==
  ASSUME NEW pair, NEW c \in CurveStates(pair), Aligned(c), NEW amount \in Nat,
         amount > c.total_in
  PROVE  curve_quote(Curve(c), amount) = NoCurveQuote
  <1>1. DOMAIN c.segments = 1..Len(c.segments)
        /\ \A j \in 1..Len(c.segments) : c.segments[j].input_end \in Nat
    BY SegmentFields
  <1>2. \A j \in 1..Len(c.segments) : c.segments[j].input_end <= c.total_in
    BY DEF Aligned
  <1>3. c.total_in \in Nat
    BY WidthAssumption DEF CurveStates
  <1>4. \A j \in 1..Len(c.segments) : ~(amount <= c.segments[j].input_end)
    BY <1>1, <1>2, <1>3
  <1>5. Reaching(Curve(c), amount) = {}
    BY <1>1, <1>4 DEF Reaching, Curve
  <1>6. QED
    BY <1>5 DEF curve_quote

LEMMA WithinIsAnswered ==
  ASSUME NEW pair, NEW c \in CurveStates(pair), Aligned(c), NEW amount \in Nat \ {0},
         amount <= c.total_in
  PROVE  curve_quote(Curve(c), amount).ok = TRUE
  <1>1. DOMAIN c.segments = 1..Len(c.segments) /\ Len(c.segments) \in Nat
    BY SegmentFields
  <1>2. c.total_in \in Nat
    BY WidthAssumption DEF CurveStates
  <1>3. Len(c.segments) > 0 /\ c.segments[Len(c.segments)].input_end = c.total_in
    BY <1>2 DEF Aligned
  <1>4. Len(c.segments) \in Reaching(Curve(c), amount)
    BY <1>1, <1>3 DEF Reaching, Curve
  <1> DEFINE segment == FirstSegment(Curve(c), Reaching(Curve(c), amount))
  <1>5. curve_quote(Curve(c), amount) = SegmentQuote(segment, amount - segment.input_start)
    BY <1>4 DEF curve_quote
  <1> HIDE DEF segment
  <1>6. QED
    BY <1>5 DEF SegmentQuote

LEMMA CurveStartFacts ==
  ASSUME NEW pair, IsPair(pair), NEW timestamp \in Int
  PROVE  LET c == CurveStart(pair, timestamp)
         IN  c \in CurveStates(pair) /\ Aligned(c)
  <1>1. Start(pair, timestamp) \in Variables /\ pair.active_id \in Int
    BY StartFacts DEF IsPair
  <1>2. <<>> \in Seq(pair.arrays) /\ <<>> \in Seq(SegmentsOf(pair)) /\ 0 \in 0..U64Max
    BY WidthAssumption
  <1>3. CurveStart(pair, timestamp) \in CurveStates(pair)
    BY <1>1, <1>2 DEF CurveStart, CurveStates
  <1>4. Aligned(CurveStart(pair, timestamp))
    BY DEF CurveStart, Aligned
  <1>5. QED
    BY <1>3, <1>4

\* The state of a curve that is complete, and of the production walk that belongs
\* to it.
LastCurve(pair, swap_for_y, timestamp, input_limit) ==
  CurveWalk(pair, swap_for_y, timestamp, input_limit)[MaxBins]

LastQuote(amount, pair, swap_for_y, timestamp) ==
  ProductionWalk(amount, pair, swap_for_y, timestamp)[MaxBins]

LEMMA CurveIsTyped ==
  ASSUME NEW pair, IsPair(pair), NEW swap_for_y \in BOOLEAN, NEW timestamp \in Int,
         NEW input_limit
  PROVE  LET c == LastCurve(pair, swap_for_y, timestamp, input_limit)
         IN  c \in CurveStates(pair) /\ Aligned(c)
  <1> DEFINE walk  == CurveWalk(pair, swap_for_y, timestamp, input_limit)
             typed == {n \in Nat : walk[n] \in CurveStates(pair) /\ Aligned(walk[n])}
  <1>1. /\ walk[0] = CurveStart(pair, timestamp)
        /\ \A n \in 0..(MaxBins - 1) :
             walk[n + 1] = AddSegment(walk[n], pair, swap_for_y, input_limit)
    BY CurveRounds
  <1>2. MaxBins \in Nat
    BY WalkAssumption
  <1> HIDE DEF walk
  <1>3. 0 \in typed
    BY <1>1, CurveStartFacts
  <1>4. ASSUME NEW n \in 0..(MaxBins - 1), n \in typed
        PROVE  n + 1 \in typed
    <2>1. n + 1 \in Nat /\ walk[n] \in CurveStates(pair) /\ Aligned(walk[n])
      BY <1>4
    <2>2. walk[n + 1] \in CurveStates(pair) /\ Aligned(walk[n + 1])
      BY <1>1, <2>1, AddKeeps
    <2>3. QED
      BY <2>1, <2>2
  <1> HIDE DEF typed
  <1>5. MaxBins \in typed
    BY <1>2, <1>3, <1>4, InductionUpTo
  <1>6. QED
    BY <1>5 DEF typed, walk, LastCurve

LEMMA QuoteIsTyped ==
  ASSUME NEW pair, IsPair(pair), NEW swap_for_y \in BOOLEAN, NEW timestamp \in Int,
         NEW amount \in Nat
  PROVE  LastQuote(amount, pair, swap_for_y, timestamp) \in QuoteStates(pair)
  <1> DEFINE walk  == ProductionWalk(amount, pair, swap_for_y, timestamp)
             typed == {n \in Nat : walk[n] \in QuoteStates(pair)}
  <1>1. /\ walk[0] = QuoteStart(amount, pair, timestamp)
        /\ \A n \in 0..(MaxBins - 1) : walk[n + 1] = TakeFromBin(walk[n], pair, swap_for_y)
    BY ProductionRounds
  <1>2. MaxBins \in Nat
    BY WalkAssumption
  <1> HIDE DEF walk
  <1>3. 0 \in typed
    BY <1>1, QuoteStartFacts
  <1>4. ASSUME NEW n \in 0..(MaxBins - 1), n \in typed
        PROVE  n + 1 \in typed
    <2>1. n + 1 \in Nat /\ walk[n] \in QuoteStates(pair)
      BY <1>4
    <2>2. walk[n + 1] \in QuoteStates(pair)
      BY <1>1, <2>1, TakeKeeps
    <2>3. QED
      BY <2>1, <2>2
  <1> HIDE DEF typed
  <1>5. MaxBins \in typed
    BY <1>2, <1>3, <1>4, InductionUpTo
  <1>6. QED
    BY <1>5 DEF typed, walk, LastQuote

LEMMA WalksAreRelated ==
  ASSUME NEW pair, IsPair(pair), Smooth(pair), NEW swap_for_y \in BOOLEAN,
         NEW timestamp \in Int, NEW input_limit \in Int, NEW amount \in 1..U64Max
  PROVE  Related(LastQuote(amount, pair, swap_for_y, timestamp),
                 LastCurve(pair, swap_for_y, timestamp, input_limit),
                 amount, input_limit, fee_on_input(pair, swap_for_y))
  <1> DEFINE p   == ProductionWalk(amount, pair, swap_for_y, timestamp)
             c   == CurveWalk(pair, swap_for_y, timestamp, input_limit)
             foi == fee_on_input(pair, swap_for_y)
             related == {n \in Nat : /\ p[n] \in QuoteStates(pair)
                                     /\ c[n] \in CurveStates(pair) /\ Aligned(c[n])
                                     /\ Related(p[n], c[n], amount, input_limit, foi)}
  <1>1. /\ p[0] = QuoteStart(amount, pair, timestamp)
        /\ \A n \in 0..(MaxBins - 1) : p[n + 1] = TakeFromBin(p[n], pair, swap_for_y)
    BY ProductionRounds
  <1>2. /\ c[0] = CurveStart(pair, timestamp)
        /\ \A n \in 0..(MaxBins - 1) : c[n + 1] = AddSegment(c[n], pair, swap_for_y, input_limit)
    BY CurveRounds
  <1>3. MaxBins \in Nat /\ amount \in Nat /\ amount > 0
    BY WalkAssumption
  <1> HIDE DEF p, c
  <1>4. 0 \in related
    <2>1. p[0] \in QuoteStates(pair)
      BY <1>1, <1>3, QuoteStartFacts
    <2>2. c[0] \in CurveStates(pair) /\ Aligned(c[0])
      BY <1>2, CurveStartFacts
    <2>3. Together(p[0], c[0], amount)
      BY <1>1, <1>2, <1>3 DEF Together, QuoteStart, CurveStart
    <2>4. QED
      BY <2>1, <2>2, <2>3 DEF Related
  <1>5. ASSUME NEW n \in 0..(MaxBins - 1), n \in related
        PROVE  n + 1 \in related
    <2>1. /\ n + 1 \in Nat /\ p[n] \in QuoteStates(pair)
          /\ c[n] \in CurveStates(pair) /\ Aligned(c[n])
          /\ Related(p[n], c[n], amount, input_limit, foi)
      BY <1>5
    <2>2. p[n + 1] \in QuoteStates(pair)
      BY <1>1, <2>1, TakeKeeps
    <2>3. c[n + 1] \in CurveStates(pair) /\ Aligned(c[n + 1])
      BY <1>2, <2>1, AddKeeps
    <2>4. Related(p[n + 1], c[n + 1], amount, input_limit, foi)
      BY <1>1, <1>2, <2>1, RoundRelates
    <2>5. QED
      BY <2>1, <2>2, <2>3, <2>4
  <1> HIDE DEF related
  <1>6. MaxBins \in related
    BY <1>3, <1>4, <1>5, InductionUpTo
  <1>7. QED
    BY <1>6 DEF related, p, c, LastQuote, LastCurve

\* An amount that the curve answers is answered alike by the production quote; one
\* that only the latter answers is a unit more than one that the curve answers.
LEMMA CurveAnswers ==
  ASSUME NEW pair, IsPair(pair), Smooth(pair), NEW swap_for_y \in BOOLEAN,
         NEW timestamp \in Int, NEW input_limit \in Int, NEW amount \in 1..U64Max
  PROVE  LET curve == build_curve(pair, swap_for_y, timestamp, input_limit)
             short == curve_quote(curve, amount)
             full  == quote_dlmm_from_accounts(amount, pair, swap_for_y, timestamp)
         IN  /\ short.ok \in BOOLEAN
             /\ short.ok => /\ AnswersLike(short, full)
                            /\ short.amount_out \in 0..U64Max
                            /\ short.used \in Seq(pair.arrays)
             /\ /\ full.ok /\ amount > 1
                /\ curve.stop_reason \notin CurveErrors /\ amount <= input_limit
                => curve_quote(curve, amount - 1).ok
  <1> DEFINE p     == LastQuote(amount, pair, swap_for_y, timestamp)
             c     == LastCurve(pair, swap_for_y, timestamp, input_limit)
             foi   == fee_on_input(pair, swap_for_y)
             curve == build_curve(pair, swap_for_y, timestamp, input_limit)
             short == curve_quote(curve, amount)
             full  == quote_dlmm_from_accounts(amount, pair, swap_for_y, timestamp)
  <1>1. c \in CurveStates(pair) /\ Aligned(c)
    BY CurveIsTyped
  <1>2. amount \in Nat \ {0} /\ c.total_in \in Nat
    <2>1. amount \in Nat \ {0}
      OBVIOUS
    <2>2. c.total_in \in Nat
      BY <1>1, WidthAssumption DEF CurveStates
    <2>3. QED
      BY <2>1, <2>2
  <1>3. p \in QuoteStates(pair)
    BY <1>2, QuoteIsTyped
  <1>4. Related(p, c, amount, input_limit, foi)
    BY WalksAreRelated
  <1>5. curve = Curve(c) /\ full = AccountDataQuote(p)
    BY DEF build_curve, quote_dlmm_from_accounts, LastCurve, LastQuote
  <1>6. /\ full.ok = (p.ok /\ p.remaining = 0) /\ full.amount_out = p.amount_out
        /\ full.used = p.used
    BY <1>5 DEF AccountDataQuote
  <1>7. curve.stop_reason \notin CurveErrors => c.stop \notin CurveErrors
    BY <1>5 DEF Curve, CurveErrors
  <1> HIDE DEF p, c, curve, full
  <1> SUFFICES /\ short.ok \in BOOLEAN
               /\ short.ok => /\ AnswersLike(short, full)
                              /\ short.amount_out \in 0..U64Max
                              /\ short.used \in Seq(pair.arrays)
               /\ /\ full.ok /\ amount > 1
                  /\ curve.stop_reason \notin CurveErrors /\ amount <= input_limit
                  => curve_quote(curve, amount - 1).ok
    BY DEF curve, full
  <1>8. CASE Answered(p, c, amount)
    <2>1. PICK i \in 1..Len(c.segments) :
            LET segment == c.segments[i]
            IN  /\ segment.input_start < amount /\ amount <= segment.input_end
                /\ p.amount_out = SegmentQuote(segment, amount - segment.input_start).amount_out
                /\ IsPrefix(p.used, segment.used)
      BY <1>8 DEF Answered
    <2>2. short = SegmentQuote(c.segments[i], amount - c.segments[i].input_start)
      BY <1>1, <1>2, <1>5, <2>1, Lookup
    <2>3. short.ok = TRUE /\ short.used = c.segments[i].used
      BY <2>2 DEF SegmentQuote
    <2>4. short.amount_out = p.amount_out
      BY <2>1, <2>2
    <2>5. /\ c.segments[i].used \in Seq(pair.arrays) /\ c.segments[i].input_end \in Nat
      BY <1>1, SegmentFields
    <2>6. p.amount_out \in 0..U64Max
      BY <1>3 DEF QuoteStates
    <2>7. p.ok /\ p.remaining = 0
      BY <1>8 DEF Answered
    <2>8. AnswersLike(short, full)
      BY <1>6, <2>1, <2>3, <2>4, <2>7 DEF AnswersLike
    <2>9. amount > 1 => curve_quote(curve, amount - 1).ok
      <3>1. amount <= c.total_in
        <4>1. c.segments[i].input_end <= c.total_in
          BY <1>1 DEF Aligned
        <4>2. QED
          BY <1>2, <2>1, <2>5, <4>1
      <3>2. amount > 1 => amount - 1 \in Nat \ {0} /\ amount - 1 <= c.total_in
        BY <1>2, <3>1
      <3>3. amount > 1 => curve_quote(Curve(c), amount - 1).ok = TRUE
        BY <1>1, <3>2, WithinIsAnswered
      <3>4. QED
        BY <1>5, <3>3
    <2> HIDE DEF short
    <2>10. QED
      BY <2>3, <2>4, <2>5, <2>6, <2>8, <2>9
  <1>9. CASE UnitMore(p, c, amount, foi)
    <2>1. amount = c.total_in + 1 /\ c.total_in > 0
      BY <1>9 DEF UnitMore
    <2>2. short = NoCurveQuote
      BY <1>1, <1>2, <1>5, <2>1, BeyondIsNotAnswered
    <2>3. amount - 1 \in Nat \ {0} /\ amount - 1 <= c.total_in
      BY <1>2, <2>1
    <2>4. curve_quote(Curve(c), amount - 1).ok = TRUE
      BY <1>1, <2>3, WithinIsAnswered
    <2>5. short.ok = FALSE
      BY <2>2 DEF NoCurveQuote
    <2> HIDE DEF short
    <2>6. QED
      BY <1>5, <2>4, <2>5
  <1>10. CASE Together(p, c, amount) \/ Beyond(p, c, amount, input_limit)
    <2>1. amount > c.total_in
      <3>1. p.remaining \in Int
        BY <1>3 DEF QuoteStates
      <3>2. QED
        BY <1>2, <1>10, <3>1 DEF Together, Beyond
    <2>2. short = NoCurveQuote
      BY <1>1, <1>2, <1>5, <2>1, BeyondIsNotAnswered
    <2>3. short.ok = FALSE
      BY <2>2 DEF NoCurveQuote
    <2>4. full.ok => c.stop \in CurveErrors \/ c.total_in >= input_limit
      <3>1. p.remaining > 0 => p.remaining # 0
        OBVIOUS
      <3>2. QED
        BY <1>6, <1>10, <3>1 DEF Together, Beyond
    <2>5. ~(full.ok /\ curve.stop_reason \notin CurveErrors /\ amount <= input_limit)
      BY <1>2, <1>7, <2>1, <2>4
    <2> HIDE DEF short
    <2>6. QED
      BY <2>3, <2>5
  <1>11. QED
    BY <1>4, <1>8, <1>9, <1>10 DEF Related

\* No bin of the pairs that are traded is dust.
SmoothMarkets == \A a \in Accounts : Smooth(a.pair)

\* For every pair without dust and every amount, limit and number of bins: the
\* curve from which select_dynamic() quotes answers as the production walk does,
\* to the last unit, and stops at most a unit before it.
THEOREM CurveIsProductionAlways == SmoothMarkets => (SearchSpec => []CurveIsProduction)
  <1> SUFFICES ASSUME SmoothMarkets PROVE SearchSpec => []CurveIsProduction
    OBVIOUS
  <1>1. MarketInv => CurveIsProduction
    <2> DEFINE Of(swap_for_y) ==
                 build_curve(market.pair, swap_for_y, market.timestamp, bounds.max_amount)
    <2>1. SUFFICES ASSUME MarketInv, phase = "probe_forward", NEW swap_for_y \in BOOLEAN,
                          Of(swap_for_y).stop_reason \notin CurveErrors,
                          NEW amount \in 1..bounds.max_amount
                   PROVE  /\ curve_quote(Of(swap_for_y), amount).ok =>
                               AnswersLike(curve_quote(Of(swap_for_y), amount),
                                           ProductionLeg(amount, swap_for_y))
                          /\ ProductionLeg(amount, swap_for_y).ok /\ amount > 1 =>
                               curve_quote(Of(swap_for_y), amount - 1).ok
      BY DEF CurveIsProduction
    <2>2. /\ IsPair(market.pair) /\ market.timestamp \in Int /\ market.pair = accounts.pair
      BY <2>1, MarketFacts, ProbedMarket
    <2>3. Smooth(market.pair)
      BY <2>1, <2>2 DEF SmoothMarkets, MarketInv
    <2>4. /\ amount \in 1..U64Max /\ bounds.max_amount \in Int /\ amount <= bounds.max_amount
      BY <2>1, BoundsAssumption, WidthAssumption DEF MarketInv
    <2>5. QED
      BY <2>1, <2>2, <2>3, <2>4, CurveAnswers DEF ProductionLeg
  <1>2. QED
    BY <1>1, MarketInvariant, PTL

-----------------------------------------------------------------------------
(* What select_dynamic() evaluates.                                        *)

LEMMA PoolIsTyped ==
  ASSUME MarketInv, market # NoMarket
  PROVE  market.pool \in Pools /\ market.pool.base_reserve \in 0..U64Max
  <1>1. /\ accounts.pump \in PumpData /\ market.pool = Pool(accounts.pump, ChargedFees.fees)
        /\ ChargedFees.ok
    BY MarketFacts
  <1>2. ChargedFees.fees \in FeeRates
    BY <1>1, FeesAreTyped DEF ChargedFees
  <1>3. \A n \in 0..U64Max : n \in Nat
    BY WidthAssumption
  <1>4. QED
    BY <1>1, <1>2, <1>3 DEF Pool, Pools, PumpData, FeeRates

LEMMA CurveQuoteForm ==
  ASSUME NEW curve, NEW amount
  PROVE  curve_quote(curve, amount) = NoCurveQuote \/ curve_quote(curve, amount).ok = TRUE
  <1> DEFINE segment == FirstSegment(curve, Reaching(curve, amount))
  <1>1. SegmentQuote(segment, amount - segment.input_start).ok = TRUE
    BY DEF SegmentQuote
  <1> HIDE DEF segment
  <1>2. \/ curve_quote(curve, amount) = NoCurveQuote
        \/ curve_quote(curve, amount) = SegmentQuote(segment, amount - segment.input_start)
    BY DEF curve_quote, segment
  <1>3. QED
    BY <1>1, <1>2

\* The side of the DLMM leg of a direction, and a curve for it.
SideOf(direction) == IF direction = "PumpToMeteora" THEN ForwardSide ELSE ReverseSide

CurveOf(direction, input_limit) ==
  build_curve(market.pair, SideOf(direction), market.timestamp, input_limit)

\* Quotes of an amount: complete ones are those of the production, others are empty.
Faithful(quote, direction, amount) ==
  \/ quote = NoCurveQuote
  \/ /\ quote.ok = TRUE /\ AnswersLike(quote, Production(direction, amount))
     /\ quote.amount_out \in 0..U64Max /\ quote.used \in Seq(market.pair.arrays)

LEMMA ForwardIsFaithful ==
  ASSUME MarketInv, market # NoMarket, Smooth(market.pair), NEW input_limit \in Int,
         NEW amount \in 1..U64Max
  PROVE  Faithful(evaluate_forward(CurveOf("PumpToMeteora", input_limit), amount),
                  "PumpToMeteora", amount)
  <1> DEFINE curve == CurveOf("PumpToMeteora", input_limit)
             out   == Buy(amount).amount_out
             short == curve_quote(curve, out)
             full  == ProductionLeg(out, ForwardSide)
  <1>1. /\ IsPair(market.pair) /\ market.timestamp \in Int /\ ForwardSide \in BOOLEAN
    BY MarketFacts DEF ForwardSide
  <1>2. CASE ~Buy(amount).ok
    BY <1>2 DEF Faithful, evaluate_forward
  <1>3. CASE Buy(amount).ok
    <2>1. evaluate_forward(curve, amount) = short
      BY <1>3 DEF evaluate_forward
    <2>2. out \in Nat /\ out <= U64Max
      <3>1. amount \in Nat /\ market.pool \in Pools /\ market.pool.base_reserve \in 0..U64Max
        BY WidthAssumption, PoolIsTyped
      <3>2. out \in Nat /\ out < market.pool.base_reserve
        BY <1>3, <3>1, BuyIsPaidFor DEF Buy
      <3> HIDE DEF out
      <3>3. QED
        BY <3>1, <3>2, WidthAssumption
    <2>3. CASE short = NoCurveQuote
      BY <2>1, <2>3 DEF Faithful
    <2>4. CASE short.ok = TRUE
      <3>1. out # 0
        <4>1. curve_quote(curve, 0) = NoCurveQuote
          BY DEF curve_quote
        <4>2. QED
          BY <2>4, <4>1 DEF NoCurveQuote
      <3>2. out \in 1..U64Max
        BY <2>2, <3>1, WidthAssumption
      <3>3. curve = build_curve(market.pair, ForwardSide, market.timestamp, input_limit)
        BY DEF CurveOf, SideOf
      <3>4. full = quote_dlmm_from_accounts(out, market.pair, ForwardSide, market.timestamp)
        BY DEF ProductionLeg
      <3> HIDE DEF out, curve, full
      <3>5. /\ AnswersLike(short, full) /\ short.amount_out \in 0..U64Max
            /\ short.used \in Seq(market.pair.arrays)
        BY <1>1, <2>4, <3>2, <3>3, <3>4, CurveAnswers
      <3>6. Production("PumpToMeteora", amount) = full
        BY <1>3 DEF Production, full, out, ForwardSide
      <3>7. QED
        BY <2>1, <2>4, <3>5, <3>6 DEF Faithful, curve
    <2>5. QED
      BY <2>3, <2>4, CurveQuoteForm
  <1>4. QED
    BY <1>2, <1>3

LEMMA ReverseIsFaithful ==
  ASSUME MarketInv, market # NoMarket, Smooth(market.pair), market.cashback_ready,
         NEW input_limit \in Int, NEW amount \in 1..U64Max
  PROVE  Faithful(evaluate_reverse(CurveOf("MeteoraToPump", input_limit), amount),
                  "MeteoraToPump", amount)
  <1> DEFINE curve == CurveOf("MeteoraToPump", input_limit)
             short == curve_quote(curve, amount)
             full  == ProductionLeg(amount, ReverseSide)
             sell  == pump_sell_base_in(short.amount_out, market.pool)
  <1>1. /\ IsPair(market.pair) /\ market.timestamp \in Int /\ ReverseSide \in BOOLEAN
    BY MarketFacts DEF ReverseSide
  <1>2. evaluate_reverse(curve, amount) = Sale(short, sell)
    BY DEF evaluate_reverse, Sold
  <1>3. CASE ~(short.ok /\ sell.ok)
    BY <1>2, <1>3 DEF Faithful, Sale
  <1>4. CASE short.ok /\ sell.ok
    <2>1. /\ curve = build_curve(market.pair, ReverseSide, market.timestamp, input_limit)
          /\ full = quote_dlmm_from_accounts(amount, market.pair, ReverseSide, market.timestamp)
      BY DEF CurveOf, SideOf, ProductionLeg
    <2>2. /\ AnswersLike(short, full) /\ short.amount_out \in 0..U64Max
          /\ short.used \in Seq(market.pair.arrays)
      <3> HIDE DEF curve, full
      <3>1. QED
        BY <1>1, <1>4, <2>1, CurveAnswers
    <2>3. short.ok = TRUE /\ short # NoCurveQuote
      BY <1>4, CurveQuoteForm DEF NoCurveQuote
    <2>4. sell.amount_out \in 0..U64Max
      <3>1. short.amount_out \in Nat /\ market.pool \in Pools
        BY <2>2, WidthAssumption, PoolIsTyped
      <3>2. QED
        BY <1>4, <3>1, SaleIsCovered
    <2>5. /\ full.ok /\ full.amount_out = short.amount_out /\ IsPrefix(full.used, short.used)
      BY <2>2 DEF AnswersLike
    <2> DEFINE result  == Sale(short, sell)
               promise == Sale(full, sell)
    <2>6. Production("MeteoraToPump", amount) = promise
      BY <2>5 DEF Production, Sold, ReverseSide
    <2>7. /\ result = [short EXCEPT !.amount_out = sell.amount_out]
          /\ promise = [full EXCEPT !.amount_out = sell.amount_out]
      BY <1>4, <2>5 DEF Sale
    <2>8. /\ DOMAIN short = {"amount_out", "used", "ok"} /\ DOMAIN full = {"amount_out", "used", "ok"}
      <3>1. DOMAIN full = {"amount_out", "used", "ok"}
        BY DEF ProductionLeg, quote_dlmm_from_accounts, AccountDataQuote
      <3>2. DOMAIN short = {"amount_out", "used", "ok"}
        <4> DEFINE segment == FirstSegment(curve, Reaching(curve, amount))
        <4>1. short = SegmentQuote(segment, amount - segment.input_start)
          BY <2>3 DEF curve_quote
        <4> HIDE DEF short, segment
        <4>2. QED
          BY <4>1 DEF SegmentQuote
      <3>3. QED
        BY <3>1, <3>2
    <2> HIDE DEF short, full, sell, result, promise
    <2>9. /\ result.ok = TRUE /\ result.used = short.used /\ result.amount_out = sell.amount_out
          /\ promise.ok = full.ok /\ promise.used = full.used /\ promise.amount_out = sell.amount_out
      BY <2>3, <2>7, <2>8
    <2>10. AnswersLike(result, promise)
      BY <2>5, <2>9 DEF AnswersLike
    <2>11. QED
      BY <1>2, <2>2, <2>4, <2>6, <2>9, <2>10 DEF Faithful, result
  <1>5. QED
    BY <1>3, <1>4

LEMMA EvaluationIsFaithful ==
  ASSUME MarketInv, market # NoMarket, Smooth(market.pair), NEW direction \in Directions,
         direction = "MeteoraToPump" => market.cashback_ready,
         NEW input_limit \in Int, NEW amount \in 1..U64Max
  PROVE  Faithful(Evaluate(direction, CurveOf(direction, input_limit), amount), direction, amount)
  BY ForwardIsFaithful, ReverseIsFaithful DEF Evaluate, Directions

-----------------------------------------------------------------------------
(* What evaluate_candidates() keeps.                                       *)

\* One choice is better than all others: of those that pay most, the smallest.
LEMMA BestExists ==
  ASSUME NEW enough, enough # {}, NEW top \in Int,
         \A c \in enough : c.amount_in \in Nat /\ c.profit \in Int /\ c.profit <= top,
         \A c, d \in enough : c.amount_in = d.amount_in => c = d
  PROVE  \E c \in enough : \A d \in enough \ {c} : better_choice(c, d)
  <1> DEFINE profits == {c.profit : c \in enough}
  <1>1. PICK most \in profits : \A x \in profits : x <= most
    <2>1. profits \subseteq Int /\ profits # {} /\ \A x \in profits : x <= top
      OBVIOUS
    <2> HIDE DEF profits
    <2>2. QED
      BY <2>1, GreatestNumber
  <1> DEFINE amounts == {c.amount_in : c \in {c \in enough : c.profit = most}}
  <1>2. PICK least \in amounts : \A x \in amounts : least <= x
    <2>1. amounts \subseteq Nat /\ amounts # {}
      BY <1>1
    <2> HIDE DEF amounts
    <2>2. QED
      BY <2>1, LeastNumber
  <1>3. PICK c \in enough : c.profit = most /\ c.amount_in = least
    BY <1>2
  <1>4. ASSUME NEW d \in enough \ {c}
        PROVE  better_choice(c, d)
    <2>1. /\ d.profit \in Int /\ c.profit \in Int /\ d.amount_in \in Nat /\ c.amount_in \in Nat
          /\ d.profit <= c.profit /\ d.amount_in # c.amount_in
      BY <1>1, <1>3
    <2>2. d.profit = c.profit => c.amount_in <= d.amount_in
      BY <1>2, <1>3
    <2>3. QED
      BY <2>1, <2>2 DEF better_choice
  <1>5. QED
    BY <1>3, <1>4

\* What is known of a direction after its probe or its search: it is true of
\* production, its profit is what its amounts say, and there is none behind a
\* closed cashback gate.
SearchedAs(direction, d) ==
  /\ d \in DirectionSearch
  /\ direction = "MeteoraToPump" /\ d # Incomplete => market.cashback_ready
  /\ d.best.some => d.best.profit = d.best.amount_out - d.best.amount_in
  /\ d.minimum_complete =>
       /\ Production(direction, bounds.min_amount).ok
       /\ Production(direction, bounds.min_amount).amount_out = d.minimum_out
       /\ ~d.best.some => d.minimum_out - bounds.min_amount < bounds.min_profit
  /\ d.best.some => AnswersLike(d.best, Production(direction, d.best.amount_in))

LEMMA BoundsFacts ==
  ASSUME MarketInv
  PROVE  /\ bounds.min_amount \in Nat \ {0} /\ bounds.min_amount <= bounds.max_amount
         /\ bounds.max_amount \in Nat /\ bounds.max_amount <= U64Max
         /\ bounds.min_profit \in Nat \ {0} /\ U64Max \in Nat
         /\ \A n \in bounds.min_amount..bounds.max_amount : n \in 1..U64Max
  <1>1. /\ bounds.min_amount \in 1..U64Max
        /\ bounds.max_amount \in bounds.min_amount..U64Max /\ bounds.min_profit \in 1..U64Max
    BY BoundsAssumption DEF MarketInv
  <1>2. QED
    BY <1>1, WidthAssumption

LEMMA NothingSearched ==
  ASSUME MarketInv, NEW direction PROVE SearchedAs(direction, Incomplete)
  BY WidthAssumption
     DEF SearchedAs, Incomplete, DirectionSearch, ChoiceSet, NoChoice

\* The candidates include the minimum and stay within the bounds: then what is kept
\* is one that production pays for and no other pays more, and if none is kept the minimum
\* does not pay.
LEMMA EvaluatedOutcome ==
  ASSUME MarketInv, market # NoMarket, Smooth(market.pair), NEW direction \in Directions,
         direction = "MeteoraToPump" => market.cashback_ready,
         NEW input_limit \in Int,
         NEW candidates \in SUBSET (bounds.min_amount..bounds.max_amount),
         bounds.min_amount \in candidates
  PROVE  LET E(a) == Evaluate(direction, CurveOf(direction, input_limit), a)
             d    == Evaluated(candidates, direction, CurveOf(direction, input_limit))
         IN  /\ SearchedAs(direction, d)
             /\ d.best.some => \E a \in candidates : E(a).ok /\ d.best = Choice(a, E(a))
             /\ \A a \in candidates :
                  E(a).ok /\ Acceptable(Choice(a, E(a))) =>
                    d.best.some /\ d.best.profit >= E(a).amount_out - a
             /\ \A a \in candidates : E(a).amount_out - a \in Int
  <1> DEFINE E(a)    == Evaluate(direction, CurveOf(direction, input_limit), a)
             quotes  == {<<a, E(a)>> : a \in candidates}
             choices == {Choice(q[1], q[2]) : q \in {q \in quotes : q[2].ok}}
             enough  == {c \in choices : Acceptable(c)}
             min     == bounds.min_amount
             best    == IF enough = {} THEN NoChoice
                        ELSE CHOOSE c \in enough : \A d \in enough \ {c} : better_choice(c, d)
             d       == Evaluated(candidates, direction, CurveOf(direction, input_limit))
  <1>1. /\ min \in Nat \ {0} /\ bounds.max_amount \in Nat /\ bounds.min_profit \in Nat
        /\ U64Max \in Nat /\ \A a \in candidates : a \in 1..U64Max
    BY BoundsFacts
  <1>2. \A a \in candidates : Faithful(E(a), direction, a)
    BY <1>1, EvaluationIsFaithful
  <1>3. d = [minimum_complete |-> E(min).ok, minimum_out |-> E(min).amount_out, best |-> best]
    BY DEF Evaluated
  <1> HIDE DEF E
  <1>4. \A a \in candidates :
          /\ E(a).ok \in BOOLEAN /\ E(a).amount_out \in 0..U64Max
          /\ E(a).ok => /\ AnswersLike(E(a), Production(direction, a))
                        /\ E(a).used \in Seq(market.pair.arrays)
    <2>1. NoCurveQuote.ok = FALSE /\ NoCurveQuote.amount_out = 0 /\ 0 \in 0..U64Max
      BY <1>1 DEF NoCurveQuote
    <2>2. QED
      BY <1>2, <2>1 DEF Faithful
  <1>5. \A c : c \in choices <=> \E a \in candidates : E(a).ok /\ c = Choice(a, E(a))
    <2>1. ASSUME NEW c \in choices
          PROVE  \E a \in candidates : E(a).ok /\ c = Choice(a, E(a))
      <3>1. PICK q \in quotes : q[2].ok /\ c = Choice(q[1], q[2])
        OBVIOUS
      <3>2. PICK a \in candidates : q = <<a, E(a)>>
        BY <3>1
      <3>3. q[1] = a /\ q[2] = E(a)
        BY <3>2
      <3>4. QED
        BY <3>1, <3>3
    <2>2. ASSUME NEW a \in candidates, E(a).ok
          PROVE  Choice(a, E(a)) \in choices
      <3> DEFINE q == <<a, E(a)>>
      <3>1. q \in quotes /\ q[1] = a /\ q[2] = E(a)
        OBVIOUS
      <3> HIDE DEF q, quotes
      <3>2. q \in {x \in quotes : x[2].ok}
        BY <2>2, <3>1
      <3>3. Choice(q[1], q[2]) \in choices
        BY <3>2
      <3>4. QED
        BY <3>1, <3>3
    <2> HIDE DEF choices
    <2>3. QED
      BY <2>1, <2>2
  <1>6. market.pair = accounts.pair
    BY MarketFacts
  <1>7. ASSUME NEW c \in enough
        PROVE  /\ c \in ChoiceSet \ {NoChoice} /\ c.some = TRUE
               /\ AnswersLike(c, Production(direction, c.amount_in))
               /\ c.amount_in \in Nat /\ c.profit \in Int /\ c.profit <= U64Max
               /\ c.profit = c.amount_out - c.amount_in
               /\ \E a \in candidates : c = Choice(a, E(a))
    <2>1. PICK a \in candidates : E(a).ok /\ c = Choice(a, E(a))
      BY <1>5
    <2>2. /\ c.amount_in = a /\ c.amount_out = E(a).amount_out /\ c.used = E(a).used
          /\ c.profit = E(a).amount_out - a /\ c.some = TRUE
      BY <2>1 DEF Choice
    <2>3. a \in Nat /\ a > 0 /\ E(a).amount_out \in Nat /\ E(a).amount_out <= U64Max
          /\ a \in bounds.min_amount..bounds.max_amount
      <3>1. a \in 1..U64Max /\ E(a).amount_out \in 0..U64Max
        BY <1>1, <1>4
      <3>2. QED
        BY <1>1, <3>1
    <2>4. c.profit >= bounds.min_profit
      BY DEF Acceptable
    <2>5. c.profit \in Int /\ c.profit <= U64Max /\ c.profit \in bounds.min_profit..U64Max
      BY <1>1, <2>2, <2>3, <2>4
    <2>6. AnswersLike(c, Production(direction, c.amount_in)) /\ c.used \in Seq(accounts.pair.arrays)
      BY <1>4, <1>6, <2>1, <2>2 DEF AnswersLike
    <2>7. c = [amount_in |-> a, amount_out |-> E(a).amount_out, profit |-> c.profit,
               used |-> E(a).used, some |-> TRUE]
      BY <2>1, <2>2 DEF Choice
    <2>8. c \in ChoiceSet
      <3>1. E(a).amount_out \in 0..U64Max /\ E(a).used \in Seq(accounts.pair.arrays)
        BY <1>4, <2>2, <2>6
      <3> DEFINE out  == E(a).amount_out
                 used == E(a).used
                 gain == c.profit
      <3>2. c = [amount_in |-> a, amount_out |-> out, profit |-> gain, used |-> used, some |-> TRUE]
        BY <2>7
      <3>3. /\ a \in bounds.min_amount..bounds.max_amount /\ out \in 0..U64Max
            /\ gain \in bounds.min_profit..U64Max /\ used \in Seq(accounts.pair.arrays)
        BY <2>3, <2>5, <3>1
      <3> HIDE DEF out, used, gain
      <3>4. [amount_in |-> a, amount_out |-> out, profit |-> gain, used |-> used, some |-> TRUE]
              \in [amount_in : bounds.min_amount..bounds.max_amount, amount_out : 0..U64Max,
                  profit : bounds.min_profit..U64Max, used : Seq(accounts.pair.arrays),
                  some : {TRUE}]
        BY <3>3
      <3>5. QED
        BY <3>2, <3>4 DEF ChoiceSet
    <2>9. c # NoChoice
      BY <2>2 DEF NoChoice
    <2>10. QED
      BY <2>1, <2>2, <2>3, <2>5, <2>6, <2>8, <2>9
  <1>8. \A x, y \in enough : x.amount_in = y.amount_in => x = y
    <2>1. \A x \in enough : x = Choice(x.amount_in, E(x.amount_in))
      BY <1>7 DEF Choice
    <2>2. QED
      BY <2>1, Zenon
  <1> HIDE DEF enough, choices, quotes
  <1>9. enough # {} => best \in enough /\ \A x \in enough \ {best} : better_choice(best, x)
    <2>1. enough # {} => \E c \in enough : \A x \in enough \ {c} : better_choice(c, x)
      <3>1. \A c \in enough : c.amount_in \in Nat /\ c.profit \in Int /\ c.profit <= U64Max
        BY <1>7
      <3>2. U64Max \in Int
        BY <1>1
      <3>3. QED
        BY <1>8, <3>1, <3>2, BestExists
    <2>2. QED
      BY <2>1
  <1>10. enough = {} => best = NoChoice
    OBVIOUS
  <1> HIDE DEF best, d
  <1>11. NoChoice.some = FALSE /\ NoChoice \in ChoiceSet
    BY DEF NoChoice, ChoiceSet
  <1>12. /\ best \in ChoiceSet
         /\ best.some => /\ AnswersLike(best, Production(direction, best.amount_in))
                         /\ best.profit = best.amount_out - best.amount_in
         /\ ~best.some => enough = {}
    BY <1>7, <1>9, <1>10, <1>11
  <1>13. E(min).ok /\ enough = {} => E(min).amount_out - min < bounds.min_profit
    <2>1. SUFFICES ASSUME E(min).ok, enough = {}
                   PROVE  E(min).amount_out - min < bounds.min_profit
      OBVIOUS
    <2>2. Choice(min, E(min)) \in choices
      BY <1>5, <2>1
    <2>3. ~Acceptable(Choice(min, E(min)))
      BY <2>1, <2>2 DEF enough
    <2>4. Choice(min, E(min)).profit = E(min).amount_out - min
      BY DEF Choice
    <2>5. E(min).amount_out \in Int
      BY <1>1, <1>4
    <2>6. ~(E(min).amount_out - min >= bounds.min_profit)
      BY <2>3, <2>4 DEF Acceptable
    <2>7. QED
      BY <1>1, <2>5, <2>6
  <1>14. /\ E(min).ok \in BOOLEAN /\ E(min).amount_out \in 0..U64Max
         /\ E(min).ok => AnswersLike(E(min), Production(direction, min))
    BY <1>4
  <1>15. d \in DirectionSearch
    BY <1>3, <1>12, <1>14 DEF DirectionSearch
  <1>16. d.minimum_complete = E(min).ok /\ d.minimum_out = E(min).amount_out /\ d.best = best
    BY <1>3
  <1>17. SearchedAs(direction, d)
    BY <1>12, <1>13, <1>14, <1>15, <1>16 DEF SearchedAs, AnswersLike
  <1>18. best.some => \E a \in candidates : E(a).ok /\ best = Choice(a, E(a))
    <2>1. SUFFICES ASSUME best.some
                   PROVE  \E a \in candidates : E(a).ok /\ best = Choice(a, E(a))
      OBVIOUS
    <2>2. best \in enough
      BY <1>9, <1>10, <1>11, <2>1
    <2>3. best \in choices
      BY <2>2 DEF enough
    <2>4. QED
      BY <1>5, <2>3
  <1>19. ASSUME NEW a \in candidates, E(a).ok, Acceptable(Choice(a, E(a)))
         PROVE  best.some /\ best.profit >= E(a).amount_out - a
    <2> DEFINE c == Choice(a, E(a))
    <2>1. c \in enough
      <3>1. c \in choices
        BY <1>5, <1>19
      <3>2. QED
        BY <1>19, <3>1 DEF enough
    <2>2. c.profit = E(a).amount_out - a
      BY DEF Choice
    <2>3. best \in enough /\ (c # best => better_choice(best, c))
      BY <1>9, <2>1
    <2>4. best.some /\ best.profit \in Int /\ c.profit \in Int
      BY <1>7, <2>1, <2>3
    <2> HIDE DEF c
    <2>5. best.profit >= c.profit
      BY <2>3, <2>4 DEF better_choice
    <2>6. QED
      BY <2>2, <2>4, <2>5
  <1>20. \A a \in candidates : E(a).amount_out - a \in Int
    BY <1>1, <1>4
  <1>21. QED
    BY <1>16, <1>17, <1>18, <1>19, <1>20 DEF d, E

LEMMA EvaluatedFacts ==
  ASSUME MarketInv, market # NoMarket, Smooth(market.pair), NEW direction \in Directions,
         direction = "MeteoraToPump" => market.cashback_ready,
         NEW input_limit \in Int,
         NEW candidates \in SUBSET (bounds.min_amount..bounds.max_amount),
         bounds.min_amount \in candidates
  PROVE  SearchedAs(direction,
                    Evaluated(candidates, direction, CurveOf(direction, input_limit)))
  BY EvaluatedOutcome

-----------------------------------------------------------------------------
(* The candidates lie within the bounds, and the minimum is one of them.   *)

LEMMA CandidateRounds ==
  ASSUME NEW segments, Len(segments) \in Nat, NEW min_amount, NEW largest
  PROVE  LET walk == CandidateWalk(segments, min_amount, largest)
         IN  /\ walk[0] = [previous |-> 0, candidates |-> {min_amount, largest}]
             /\ \A n \in 0..(Len(segments) - 1) :
                  walk[n + 1] = AddCandidates(walk[n], segments[n + 1], min_amount, largest)
  <1> DEFINE x     == <<segments, min_amount, largest>>
             first == [previous |-> 0, candidates |-> {min_amount, largest}]
             walk  == CandidateWalk(segments, min_amount, largest)
             S(w, n) == AddCandidates(w, segments[n], min_amount, largest)
             length  == Len(segments)
  <1>1. \A w, n : Round("candidates", x, w, n) = S(w, n)
    BY DEF Round
  <1> HIDE DEF S, x, first
  <1>2. \E g : g = [n \in 0..length |-> IF n = 0 THEN first ELSE S(g[n - 1], n)]
    <2>1. PICK g : Follows(g, "candidates", x, first, length)
      BY WalkExists
    <2>2. g = [n \in 0..length |-> IF n = 0 THEN first ELSE S(g[n - 1], n)]
      BY <1>1, <2>1 DEF Follows
    <2>3. QED
      BY <2>2
  <1>3. walk = [n \in 0..length |-> IF n = 0 THEN first ELSE S(walk[n - 1], n)]
    BY <1>2 DEF CandidateWalk, S, first
  <1> HIDE DEF walk
  <1>4. walk[0] = first
    BY <1>3
  <1>5. ASSUME NEW n \in 0..(length - 1)
        PROVE  walk[n + 1] = S(walk[n], n + 1)
    <2>1. n + 1 \in 0..length /\ n + 1 # 0 /\ (n + 1) - 1 = n
      OBVIOUS
    <2>2. QED
      BY <1>3, <2>1
  <1>6. QED
    BY <1>4, <1>5 DEF walk, first, S

LEMMA MinimumIsCandidate ==
  ASSUME NEW curve, Len(curve.segments) \in Nat, NEW min_amount \in Int, NEW largest \in Int,
         min_amount <= largest
  PROVE  /\ min_amount \in ForwardCandidates(curve, min_amount, largest)
         /\ min_amount \in ReverseCandidates(curve, min_amount, largest)
         /\ ForwardCandidates(curve, min_amount, largest) \subseteq min_amount..largest
         /\ ReverseCandidates(curve, min_amount, largest) \subseteq min_amount..largest
  <1> DEFINE segments == curve.segments
             walk     == CandidateWalk(segments, min_amount, largest)
             kept     == {n \in Nat : min_amount \in walk[n].candidates}
  <1>1. /\ walk[0] = [previous |-> 0, candidates |-> {min_amount, largest}]
        /\ \A n \in 0..(Len(segments) - 1) :
             walk[n + 1] = AddCandidates(walk[n], segments[n + 1], min_amount, largest)
    BY CandidateRounds
  <1> HIDE DEF walk
  <1>2. 0 \in kept
    BY <1>1
  <1>3. ASSUME NEW n \in 0..(Len(segments) - 1), n \in kept
        PROVE  n + 1 \in kept
    <2>1. min_amount \in walk[n].candidates /\ n + 1 \in Nat
      BY <1>3
    <2>2. walk[n + 1] = AddCandidates(walk[n], segments[n + 1], min_amount, largest)
      BY <1>1
    <2> DEFINE v == AddCandidates(walk[n], segments[n + 1], min_amount, largest)
    <2>3. v = walk[n] \/ (\E end : v = [walk[n] EXCEPT !.previous = end])
          \/ (\E end, more : v = [previous |-> end, candidates |-> walk[n].candidates \cup {end} \cup more])
      BY DEF AddCandidates
    <2>4. min_amount \in v.candidates
      <3> HIDE DEF v
      <3>1. CASE \E end : v = [walk[n] EXCEPT !.previous = end]
        BY <2>1, <3>1
      <3>2. QED
        BY <2>1, <2>3, <3>1
    <2>5. QED
      BY <2>1, <2>2, <2>4
  <1> HIDE DEF kept
  <1>4. Len(segments) \in kept
    <2> DEFINE length == Len(segments)
    <2>1. length \in Nat
      OBVIOUS
    <2>2. \A n \in 0..(length - 1) : n \in kept => n + 1 \in kept
      BY <1>3
    <2> HIDE DEF length
    <2>3. \A n \in 0..length : n \in kept
      BY <1>2, <2>1, <2>2, InductionUpTo
    <2>4. length \in kept
      BY <2>1, <2>3
    <2>5. QED
      BY <2>4 DEF length
  <1>5. min_amount \in walk[Len(segments)].candidates
    BY <1>4 DEF kept
  <1>6. min_amount \in min_amount..largest
    OBVIOUS
  <1>7. QED
    BY <1>5, <1>6 DEF ForwardCandidates, ReverseCandidates, walk

LEMMA HalvingRounds ==
  ASSUME NEW capacity, NEW max_amount \in Nat
  PROVE  LET walk == Halvings(capacity, max_amount)
         IN  /\ walk[0] = [lower |-> 0, upper |-> max_amount]
             /\ \A n \in 0..(max_amount - 1) : walk[n + 1] = Halved(walk[n], capacity)
  <1> DEFINE first == [lower |-> 0, upper |-> max_amount]
             walk  == Halvings(capacity, max_amount)
             S(w)  == Halved(w, capacity)
  <1>1. \A w, n : Round("halving", capacity, w, n) = S(w)
    BY DEF Round
  <1> HIDE DEF S, first
  <1>2. \E g : g = [n \in 0..max_amount |-> IF n = 0 THEN first ELSE S(g[n - 1])]
    <2>1. PICK g : Follows(g, "halving", capacity, first, max_amount)
      BY WalkExists
    <2>2. g = [n \in 0..max_amount |-> IF n = 0 THEN first ELSE S(g[n - 1])]
      BY <1>1, <2>1 DEF Follows
    <2>3. QED
      BY <2>2
  <1>3. walk = [n \in 0..max_amount |-> IF n = 0 THEN first ELSE S(walk[n - 1])]
    BY <1>2 DEF Halvings, S, first
  <1> HIDE DEF walk
  <1>4. walk[0] = first
    BY <1>3
  <1>5. ASSUME NEW n \in 0..(max_amount - 1)
        PROVE  walk[n + 1] = S(walk[n])
    <2>1. n + 1 \in 0..max_amount /\ n + 1 # 0 /\ (n + 1) - 1 = n
      OBVIOUS
    <2>2. QED
      BY <1>3, <2>1
  <1>6. QED
    BY <1>4, <1>5 DEF walk, first, S

\* The interval that is halved stays within the first one.
Intervals(max_amount) ==
  {left \in [lower : 0..max_amount, upper : 0..max_amount] : left.lower <= left.upper}

LEMMA HalvedStays ==
  ASSUME NEW max_amount \in Nat, NEW left \in Intervals(max_amount), NEW capacity
  PROVE  Halved(left, capacity) \in Intervals(max_amount)
  <1> DEFINE half     == CeilDiv(left.upper - left.lower, 2)
             midpoint == left.lower + half
  <1>1. /\ left \in [lower : 0..max_amount, upper : 0..max_amount]
        /\ left.lower \in Nat /\ left.upper \in Nat /\ left.lower <= left.upper
        /\ left.upper <= max_amount
    BY DEF Intervals
  <1>2. CASE left.lower = left.upper
    BY <1>2 DEF Halved
  <1>3. CASE left.lower # left.upper
    <2>1. half \in Nat /\ half >= 1 /\ half <= left.upper - left.lower
      <3> DEFINE gap == left.upper - left.lower
      <3>1. gap \in Nat \ {0}
        BY <1>1, <1>3
      <3> HIDE DEF gap
      <3>2. (gap + 2 - 1) \div 2 \in Nat /\ (gap + 2 - 1) \div 2 >= 1 /\ (gap + 2 - 1) \div 2 <= gap
        BY <3>1
      <3>3. QED
        BY <3>2 DEF CeilDiv, gap
    <2> HIDE DEF half
    <2>2. /\ midpoint \in 0..max_amount /\ midpoint <= left.upper
          /\ midpoint - 1 \in 0..max_amount /\ left.lower <= midpoint - 1
      BY <1>1, <2>1
    <2>3. \/ Halved(left, capacity) = [left EXCEPT !.lower = midpoint]
          \/ Halved(left, capacity) = [left EXCEPT !.upper = midpoint - 1]
      BY <1>3 DEF Halved, half
    <2> HIDE DEF midpoint
    <2>4. [left EXCEPT !.lower = midpoint] \in Intervals(max_amount)
      BY <1>1, <2>2 DEF Intervals
    <2>5. [left EXCEPT !.upper = midpoint - 1] \in Intervals(max_amount)
      BY <1>1, <2>2 DEF Intervals
    <2>6. QED
      BY <2>3, <2>4, <2>5
  <1>4. QED
    BY <1>2, <1>3

LEMMA LargestFacts ==
  ASSUME NEW curve, largest_complete_input(curve) \in Nat, NEW max_amount \in Nat
  PROVE  /\ largest_forward_complete_amount(curve, max_amount) \in 0..max_amount
         /\ largest_reverse_complete_amount(curve, max_amount) \in 0..max_amount
  <1> DEFINE capacity == largest_complete_input(curve)
             walk     == Halvings(capacity, max_amount)
             within   == {n \in Nat : walk[n] \in Intervals(max_amount)}
  <1>1. /\ walk[0] = [lower |-> 0, upper |-> max_amount]
        /\ \A n \in 0..(max_amount - 1) : walk[n + 1] = Halved(walk[n], capacity)
    BY HalvingRounds
  <1> HIDE DEF walk, capacity
  <1>2. 0 \in within
    BY <1>1 DEF Intervals
  <1>3. ASSUME NEW n \in 0..(max_amount - 1), n \in within
        PROVE  n + 1 \in within
    <2>1. n + 1 \in Nat /\ walk[n] \in Intervals(max_amount)
      BY <1>3
    <2>2. walk[n + 1] \in Intervals(max_amount)
      BY <1>1, <2>1, HalvedStays
    <2>3. QED
      BY <2>1, <2>2
  <1> HIDE DEF within
  <1>4. max_amount \in within
    BY <1>2, <1>3, InductionUpTo
  <1>5. walk[max_amount].lower \in 0..max_amount
    BY <1>4 DEF within, Intervals
  <1>6. largest_forward_complete_amount(curve, max_amount) \in 0..max_amount
    BY <1>5 DEF largest_forward_complete_amount, walk, capacity
  <1>7. largest_reverse_complete_amount(curve, max_amount) \in 0..max_amount
    BY DEF largest_reverse_complete_amount, Least
  <1>8. QED
    BY <1>6, <1>7

\* The curves that are built have an end.
LEMMA CurveEnds ==
  ASSUME NEW pair, IsPair(pair), NEW swap_for_y \in BOOLEAN, NEW timestamp \in Int,
         NEW input_limit
  PROVE  LET curve == build_curve(pair, swap_for_y, timestamp, input_limit)
         IN  Len(curve.segments) \in Nat /\ largest_complete_input(curve) \in Nat
  <1> DEFINE c     == LastCurve(pair, swap_for_y, timestamp, input_limit)
             curve == build_curve(pair, swap_for_y, timestamp, input_limit)
  <1>1. c \in CurveStates(pair)
    BY CurveIsTyped
  <1>2. curve.segments = c.segments
    BY DEF build_curve, LastCurve, Curve
  <1> HIDE DEF c, curve
  <1>3. /\ Len(c.segments) \in Nat
        /\ \A i \in 1..Len(c.segments) : c.segments[i].input_end \in Nat
    BY <1>1, SegmentFields
  <1>4. c.segments # <<>> => Len(c.segments) \in 1..Len(c.segments)
    <2>1. c.segments \in Seq(SegmentsOf(pair))
      BY <1>1 DEF CurveStates
    <2>2. c.segments # <<>> => Len(c.segments) # 0
      BY <2>1, EmptySeq
    <2>3. QED
      BY <1>3, <2>2
  <1>5. largest_complete_input(curve) \in Nat
    BY <1>2, <1>3, <1>4 DEF largest_complete_input
  <1>6. QED
    BY <1>2, <1>3, <1>5 DEF curve

-----------------------------------------------------------------------------
(* The steps of select_dynamic().                                          *)

SelectionInv ==
  \/ selection = Selection("none", NoChoice) /\ phase # "done"
  \/ /\ phase = "done"
     /\ \/ /\ selection.result \in {"BestDirectionQuoteIncomplete", "ArithmeticOverflow"}
           /\ selection.choice = NoChoice
        \/ /\ selection = Selection("NoProfitableDirection", NoChoice)
           /\ BothComplete /\ ~forward.best.some /\ ~reverse.best.some
        \/ selection = Selection("PumpToMeteora", forward.best) /\ forward.best.some
        \/ selection = Selection("MeteoraToPump", reverse.best) /\ reverse.best.some

\* What a direction holds is true of production, through all probes and searches.
SearchInv ==
  /\ MarketInv
  /\ phase = "parse_market" => forward = Incomplete /\ reverse = Incomplete
  /\ SearchedAs("PumpToMeteora", forward)
  /\ SearchedAs("MeteoraToPump", reverse)
  /\ SelectionInv

LEMMA SearchInvInit ==
  ASSUME SearchInit PROVE SearchInv
  <1>1. MarketInv
    BY MarketInvInit
  <1>2. forward = Incomplete /\ reverse = Incomplete
    BY DEF SearchInit
  <1>3. SearchedAs("PumpToMeteora", forward) /\ SearchedAs("MeteoraToPump", reverse)
    BY <1>1, <1>2, NothingSearched
  <1>4. SelectionInv
    BY DEF SearchInit, SelectionInv
  <1>5. QED
    BY <1>1, <1>2, <1>3, <1>4 DEF SearchInv

LEMMA ProductionStays ==
  ASSUME UNCHANGED market
  PROVE  \A direction, amount : Production(direction, amount)' = Production(direction, amount)
  BY DEF Production, Buy, ProductionLeg, Sold

\* What is known of a direction stays known while it is left alone.
LEMMA ForwardStays ==
  ASSUME UNCHANGED <<accounts, bounds, market>>, SearchedAs("PumpToMeteora", forward')
  PROVE  SearchedAs("PumpToMeteora", forward)'
  BY ProductionStays
     DEF SearchedAs, DirectionSearch, ChoiceSet, AnswersLike, Incomplete, NoChoice

LEMMA ReverseStays ==
  ASSUME UNCHANGED <<accounts, bounds, market>>, SearchedAs("MeteoraToPump", reverse')
  PROVE  SearchedAs("MeteoraToPump", reverse)'
  BY ProductionStays
     DEF SearchedAs, DirectionSearch, ChoiceSet, AnswersLike, Incomplete, NoChoice

LEMMA NothingStays ==
  ASSUME MarketInv', forward' = Incomplete, reverse' = Incomplete
  PROVE  SearchedAs("PumpToMeteora", forward)' /\ SearchedAs("MeteoraToPump", reverse)'
  BY WidthAssumption
     DEF SearchedAs, Incomplete, DirectionSearch, ChoiceSet, NoChoice

\* A probe, of the minimum alone.
LEMMA ProbeFacts ==
  ASSUME MarketInv, market # NoMarket, Smooth(market.pair), NEW direction \in Directions,
         direction = "MeteoraToPump" => market.cashback_ready,
         NEW input_limit \in Int, NEW largest
  PROVE  SearchedAs(direction, Probe(largest, direction, CurveOf(direction, input_limit)))
  <1>1. bounds.min_amount \in bounds.min_amount..bounds.max_amount
    BY BoundsFacts
  <1>2. SearchedAs(direction, Evaluated({bounds.min_amount}, direction,
                                        CurveOf(direction, input_limit)))
    BY <1>1, EvaluatedFacts
  <1>3. QED
    BY <1>2, NothingSearched DEF Probe

\* A search over the candidates of a curve.
LEMMA SearchFacts ==
  ASSUME MarketInv, market # NoMarket, Smooth(market.pair), NEW direction \in Directions,
         direction = "MeteoraToPump" => market.cashback_ready,
         NEW input_limit \in Int, NEW largest \in 0..bounds.max_amount,
         ~(largest < bounds.min_amount)
  PROVE  LET curve    == CurveOf(direction, input_limit)
             forwards == ForwardCandidates(curve, bounds.min_amount, largest)
             reverses == ReverseCandidates(curve, bounds.min_amount, largest)
         IN  /\ SearchedAs(direction, Evaluated(forwards, direction, curve))
             /\ SearchedAs(direction, Evaluated(reverses, direction, curve))
  <1> DEFINE curve    == CurveOf(direction, input_limit)
             forwards == ForwardCandidates(curve, bounds.min_amount, largest)
             reverses == ReverseCandidates(curve, bounds.min_amount, largest)
  <1>1. /\ bounds.min_amount \in Nat /\ bounds.max_amount \in Nat /\ largest \in Nat
        /\ largest <= bounds.max_amount /\ bounds.min_amount <= largest
    BY BoundsFacts
  <1>2. /\ IsPair(market.pair) /\ market.timestamp \in Int /\ SideOf(direction) \in BOOLEAN
    BY MarketFacts DEF SideOf, ForwardSide, ReverseSide
  <1>3. Len(curve.segments) \in Nat
    BY <1>2, CurveEnds DEF CurveOf
  <1>4. /\ bounds.min_amount \in forwards /\ bounds.min_amount \in reverses
        /\ forwards \subseteq bounds.min_amount..largest
        /\ reverses \subseteq bounds.min_amount..largest
    <2> HIDE DEF curve
    <2>1. QED
      BY <1>1, <1>3, MinimumIsCandidate
  <1>5. bounds.min_amount..largest \subseteq bounds.min_amount..bounds.max_amount
    BY <1>1
  <1> HIDE DEF forwards, reverses
  <1>6. /\ forwards \in SUBSET (bounds.min_amount..bounds.max_amount)
        /\ reverses \in SUBSET (bounds.min_amount..bounds.max_amount)
    BY <1>4, <1>5
  <1>7. /\ SearchedAs(direction, Evaluated(forwards, direction, curve))
        /\ SearchedAs(direction, Evaluated(reverses, direction, curve))
    BY <1>4, <1>6, EvaluatedFacts
  <1>8. QED
    BY <1>7 DEF forwards, reverses

\* The limits of the curves are numbers.
LEMMA LimitFacts ==
  ASSUME MarketInv, market # NoMarket, NEW amount \in 1..U64Max
  PROVE  /\ forward_input_limit(amount) \in Int
         /\ ForwardCurve(amount) = CurveOf("PumpToMeteora", forward_input_limit(amount))
         /\ ReverseCurve(amount) = CurveOf("MeteoraToPump", amount)
         /\ largest_complete_input(ForwardCurve(amount)) \in Nat
         /\ largest_complete_input(ReverseCurve(amount)) \in Nat
  <1>1. Buy(amount).ok => Buy(amount).amount_out \in Int
    <2>1. amount \in Nat /\ market.pool \in Pools
      BY WidthAssumption, PoolIsTyped
    <2>2. QED
      BY <2>1, BuyIsPaidFor DEF Buy
  <1>2. forward_input_limit(amount) \in Int
    BY <1>1, WidthAssumption DEF forward_input_limit
  <1>3. /\ ForwardCurve(amount) = CurveOf("PumpToMeteora", forward_input_limit(amount))
        /\ ReverseCurve(amount) = CurveOf("MeteoraToPump", amount)
    BY DEF ForwardCurve, ReverseCurve, CurveOf, SideOf
  <1>4. /\ IsPair(market.pair) /\ market.timestamp \in Int
        /\ ForwardSide \in BOOLEAN /\ ReverseSide \in BOOLEAN
    BY MarketFacts DEF ForwardSide, ReverseSide
  <1>5. /\ largest_complete_input(ForwardCurve(amount)) \in Nat
        /\ largest_complete_input(ReverseCurve(amount)) \in Nat
    BY <1>4, CurveEnds DEF ForwardCurve, ReverseCurve
  <1>6. QED
    BY <1>2, <1>3, <1>5

\* A direction is searched only after its minimum was quoted, which the reverse
\* direction's is only behind the cashback gate.
LEMMA PromisingIsReady ==
  ASSUME SearchedAs("MeteoraToPump", reverse), Promising(reverse)
  PROVE  market.cashback_ready
  BY DEF SearchedAs, Promising, Incomplete

\* A step that leaves the market alone keeps the invariant if what it writes is true.
LEMMA StepKeeps ==
  ASSUME MarketInv', UNCHANGED <<accounts, bounds, market>>, phase' # "parse_market",
         SearchedAs("PumpToMeteora", forward'), SearchedAs("MeteoraToPump", reverse'),
         SelectionInv'
  PROVE  SearchInv'
  BY ForwardStays, ReverseStays DEF SearchInv

\* A step that goes on to another phase has selected nothing.
LEMMA NotYetSelected ==
  ASSUME SelectionInv, phase # "done", phase' # "done", UNCHANGED selection
  PROVE  SelectionInv'
  <1>1. selection = Selection("none", NoChoice)
    BY DEF SelectionInv
  <1>2. QED
    BY <1>1 DEF SelectionInv, Selection, NoChoice

LEMMA ErrorIsSelected ==
  ASSUME phase' = "done", NEW error \in {"BestDirectionQuoteIncomplete", "ArithmeticOverflow"},
         selection' = Selection(error, NoChoice)
  PROVE  SelectionInv'
  BY DEF SelectionInv, Selection, NoChoice

\* One step for each action.
LEMMA SearchInvNext ==
  ASSUME SmoothMarkets, SearchInv, [SearchNext]_search_vars PROVE SearchInv'
  <1>1. MarketInv /\ MarketInv'
    BY MarketInvNext DEF SearchInv
  <1>2. /\ SearchedAs("PumpToMeteora", forward) /\ SearchedAs("MeteoraToPump", reverse)
        /\ SelectionInv
    BY DEF SearchInv
  <1>3. CASE UNCHANGED search_vars
    <2>1. /\ UNCHANGED <<accounts, bounds, market, forward, reverse, phase, selection>>
      BY <1>3 DEF search_vars
    <2>2. SearchedAs("PumpToMeteora", forward)' /\ SearchedAs("MeteoraToPump", reverse)'
      BY <2>1, <1>2, ForwardStays, ReverseStays
    <2>3. SelectionInv'
      BY <2>1, <1>2 DEF SelectionInv, BothComplete, Selection, NoChoice
    <2>4. phase' = "parse_market" => (forward = Incomplete)' /\ (reverse = Incomplete)'
      BY <2>1 DEF SearchInv, Incomplete, NoChoice
    <2>5. QED
      BY <1>1, <2>2, <2>3, <2>4 DEF SearchInv
  <1>4. CASE ParseMarket
    <2>1. /\ forward' = Incomplete /\ reverse' = Incomplete
          /\ phase = "parse_market" /\ phase' # "parse_market"
      BY <1>4 DEF ParseMarket, Parsed, Refused, SearchInv
    <2>2. SearchedAs("PumpToMeteora", forward)' /\ SearchedAs("MeteoraToPump", reverse)'
      BY <1>1, <2>1, NothingStays
    <2>3. SelectionInv'
      <3>1. \/ /\ phase' = "done"
               /\ \/ selection' = Selection("ArithmeticOverflow", NoChoice)
                  \/ selection' = Selection("BestDirectionQuoteIncomplete", NoChoice)
            \/ phase' # "done" /\ UNCHANGED selection
        BY <1>4 DEF ParseMarket, Parsed, Refused
      <3>2. CASE phase' # "done" /\ UNCHANGED selection
        BY <1>2, <2>1, <3>2, NotYetSelected
      <3>3. CASE phase' = "done"
        <4>1. PICK error \in {"BestDirectionQuoteIncomplete", "ArithmeticOverflow"} :
                selection' = Selection(error, NoChoice)
          BY <3>1, <3>3
        <4>2. QED
          BY <3>3, <4>1, ErrorIsSelected
      <3>4. QED
        BY <3>1, <3>2, <3>3
    <2>4. QED
      BY <1>1, <2>1, <2>2, <2>3 DEF SearchInv
  <1>5. CASE SkipReverse
    <2>1. /\ UNCHANGED <<accounts, bounds, market, forward, reverse, selection>>
          /\ phase = "probe_reverse" /\ phase' = "search_forward"
      BY <1>5 DEF SkipReverse
    <2>2. QED
      BY <1>1, <1>2, <2>1, StepKeeps, NotYetSelected
  <1>6. CASE KeepProbe
    <2>1. /\ UNCHANGED <<accounts, bounds, market, forward, reverse, selection>>
          /\ phase # "done" /\ phase' # "done" /\ phase' # "parse_market"
      BY <1>6 DEF KeepProbe
    <2>2. QED
      BY <1>1, <1>2, <2>1, StepKeeps, NotYetSelected
  <1>7. CASE Decide
    <2>1. /\ UNCHANGED <<accounts, bounds, market, forward, reverse>>
          /\ phase' = "done"
      BY <1>7 DEF Decide
    <2>2. \/ selection' = Selection("MeteoraToPump", reverse.best) /\ reverse.best.some
          \/ selection' = Selection("PumpToMeteora", forward.best) /\ forward.best.some
          \/ /\ selection' = Selection("NoProfitableDirection", NoChoice)
             /\ BothComplete /\ ~forward.best.some /\ ~reverse.best.some
          \/ selection' = Selection("BestDirectionQuoteIncomplete", NoChoice)
      BY <1>7 DEF Decide
    <2>3. SelectionInv'
      <3>1. /\ forward'.best = forward.best /\ reverse'.best = reverse.best
            /\ BothComplete' <=> BothComplete
        BY <2>1 DEF BothComplete
      <3>2. CASE selection' = Selection("BestDirectionQuoteIncomplete", NoChoice)
        BY <2>1, <3>2, ErrorIsSelected
      <3>3. CASE selection' # Selection("BestDirectionQuoteIncomplete", NoChoice)
        <4> NoChoice' = NoChoice
          BY DEF NoChoice
        <4> HIDE DEF NoChoice
        <4>1. QED
          BY <2>1, <2>2, <3>1, <3>3 DEF SelectionInv, Selection
      <3>4. QED
        BY <3>2, <3>3
    <2>4. QED
      BY <1>1, <1>2, <2>1, <2>3, StepKeeps
  <1>8. ASSUME NEW curve, Failed(curve)
        PROVE  SearchInv'
    <2>1. /\ UNCHANGED <<accounts, bounds, market, forward, reverse>>
          /\ phase' = "done"
          /\ curve.stop_reason \in {"BestDirectionQuoteIncomplete", "ArithmeticOverflow"}
          /\ selection' = Selection(curve.stop_reason, NoChoice)
      BY <1>8 DEF Failed, CurveErrors
    <2>2. QED
      BY <1>1, <1>2, <2>1, StepKeeps, ErrorIsSelected
  <1>9. CASE phase \in Phases \ {"parse_market", "done"}
    <2>1. market # NoMarket /\ Smooth(market.pair)
      BY <1>1, <1>9, MarketFacts DEF MarketInv, SmoothMarkets, ParsedMarket, NoMarket
    <2>2. bounds.min_amount \in 1..U64Max /\ bounds.max_amount \in 1..U64Max
      BY <1>1, BoundsFacts
    <2>3. bounds.min_amount \in Nat /\ bounds.max_amount \in Nat
      BY <1>1, BoundsFacts
    <2>4. ASSUME NEW amount \in 1..U64Max
          PROVE  /\ forward_input_limit(amount) \in Int /\ amount \in Int
                 /\ ForwardCurve(amount) = CurveOf("PumpToMeteora", forward_input_limit(amount))
                 /\ ReverseCurve(amount) = CurveOf("MeteoraToPump", amount)
                 /\ largest_complete_input(ForwardCurve(amount)) \in Nat
                 /\ largest_complete_input(ReverseCurve(amount)) \in Nat
      BY <1>1, <2>1, <2>4, LimitFacts, WidthAssumption
    <2>5. CASE ProbeForward
      <3> DEFINE curve == ForwardCurve(bounds.min_amount)
      <3>1. CASE ProbedForward(curve)
        <4>1. /\ UNCHANGED <<accounts, bounds, market, reverse, selection>>
              /\ phase' = "probe_reverse"
              /\ forward' = Probe(largest_forward_complete_amount(curve, bounds.min_amount),
                                  "PumpToMeteora", curve)
          BY <3>1 DEF ProbedForward
        <4>2. SearchedAs("PumpToMeteora", forward')
          BY <1>1, <2>1, <2>2, <2>4, <4>1, ProbeFacts DEF Directions
        <4>3. QED
          BY <1>1, <1>2, <1>9, <4>1, <4>2, StepKeeps, NotYetSelected
      <3>2. QED
        BY <1>8, <2>5, <3>1 DEF ProbeForward
    <2>6. CASE ProbeReverse
      <3> DEFINE curve == ReverseCurve(bounds.min_amount)
      <3>1. CASE ProbedReverse(curve)
        <4>1. /\ UNCHANGED <<accounts, bounds, market, forward, selection>>
              /\ phase' = "search_forward"
              /\ reverse' = Probe(largest_reverse_complete_amount(curve, bounds.min_amount),
                                  "MeteoraToPump", curve)
          BY <3>1 DEF ProbedReverse
        <4>2. SearchedAs("MeteoraToPump", reverse')
          BY <1>1, <2>1, <2>2, <2>4, <2>6, <4>1, ProbeFacts DEF Directions, ProbeReverse
        <4>3. QED
          BY <1>1, <1>2, <1>9, <4>1, <4>2, StepKeeps, NotYetSelected
      <3>2. QED
        BY <1>8, <2>6, <3>1 DEF ProbeReverse
    <2>7. CASE SearchForward
      <3> DEFINE curve   == ForwardCurve(bounds.max_amount)
                 largest == largest_forward_complete_amount(curve, bounds.max_amount)
      <3>1. CASE SearchedForward(curve, largest)
        <4>1. /\ UNCHANGED <<accounts, bounds, market, reverse, selection>>
              /\ phase' = "search_reverse"
              /\ forward' = IF largest < bounds.min_amount THEN Incomplete
                            ELSE Evaluated(ForwardCandidates(curve, bounds.min_amount, largest),
                                           "PumpToMeteora", curve)
          BY <3>1 DEF SearchedForward
        <4>2. largest \in 0..bounds.max_amount
          BY <2>2, <2>3, <2>4, LargestFacts
        <4>3. ASSUME ~(largest < bounds.min_amount)
              PROVE  SearchedAs("PumpToMeteora",
                                Evaluated(ForwardCandidates(curve, bounds.min_amount, largest),
                                          "PumpToMeteora", curve))
          <5> HIDE DEF largest
          <5>1. QED
            BY <1>1, <2>1, <2>2, <2>4, <4>2, <4>3, SearchFacts DEF Directions
        <4>4. SearchedAs("PumpToMeteora", forward')
          BY <1>1, <4>1, <4>3, NothingSearched
        <4>5. QED
          BY <1>1, <1>2, <1>9, <4>1, <4>4, StepKeeps, NotYetSelected
      <3>2. QED
        BY <1>8, <2>7, <3>1 DEF SearchForward
    <2>8. CASE SearchReverse
      <3> DEFINE curve   == ReverseCurve(bounds.max_amount)
                 largest == largest_reverse_complete_amount(curve, bounds.max_amount)
      <3>1. CASE SearchedReverse(curve, largest)
        <4>1. /\ UNCHANGED <<accounts, bounds, market, forward, selection>>
              /\ phase' = "decide"
              /\ reverse' = IF largest < bounds.min_amount THEN Incomplete
                            ELSE Evaluated(ReverseCandidates(curve, bounds.min_amount, largest),
                                           "MeteoraToPump", curve)
          BY <3>1 DEF SearchedReverse
        <4>2. largest \in 0..bounds.max_amount
          BY <2>2, <2>3, <2>4, LargestFacts
        <4>3. market.cashback_ready
          BY <1>2, <2>8, PromisingIsReady DEF SearchReverse
        <4>4. ASSUME ~(largest < bounds.min_amount)
              PROVE  SearchedAs("MeteoraToPump",
                                Evaluated(ReverseCandidates(curve, bounds.min_amount, largest),
                                          "MeteoraToPump", curve))
          <5> HIDE DEF largest
          <5>1. QED
            BY <1>1, <2>1, <2>2, <2>4, <4>2, <4>3, <4>4, SearchFacts DEF Directions
        <4>5. SearchedAs("MeteoraToPump", reverse')
          BY <1>1, <4>1, <4>4, NothingSearched
        <4>6. QED
          BY <1>1, <1>2, <1>9, <4>1, <4>5, StepKeeps, NotYetSelected
      <3>2. QED
        BY <1>8, <2>8, <3>1 DEF SearchReverse
    <2>9. QED
      BY <1>3, <1>4, <1>5, <1>6, <1>7, <2>5, <2>6, <2>7, <2>8 DEF SearchNext
  <1>10. QED
    BY <1>1, <1>3, <1>4, <1>9
       DEF MarketInv, SearchNext, ProbeForward, ProbeReverse, SkipReverse, SearchForward,
           SearchReverse, KeepProbe, Decide

LEMMA SearchInvariant == SmoothMarkets => (SearchSpec => []SearchInv)
  <1> SUFFICES ASSUME SmoothMarkets PROVE SearchSpec => []SearchInv
    OBVIOUS
  <1>1. SearchInv /\ [SearchNext]_search_vars => SearchInv'
    BY SearchInvNext
  <1>2. QED
    BY <1>1, SearchInvInit, PTL DEF SearchSpec

\* For all markets without dust: what is kept lies within the bounds and pays
\* min_profit, so that evaluate_candidates() never subtracts below zero.
THEOREM SearchTypeOKAlways == SmoothMarkets => (SearchSpec => []SearchTypeOK)
  <1> SUFFICES ASSUME SmoothMarkets PROVE SearchSpec => []SearchTypeOK
    OBVIOUS
  <1>1. SearchInv => SearchTypeOK
    <2>1. SUFFICES ASSUME SearchInv PROVE SearchTypeOK
      OBVIOUS
    <2>2. forward \in DirectionSearch /\ reverse \in DirectionSearch
      BY <2>1 DEF SearchInv, SearchedAs
    <2>3. forward.best \in ChoiceSet /\ reverse.best \in ChoiceSet
      BY <2>2 DEF DirectionSearch
    <2>4. NoChoice \in ChoiceSet /\ NoChoice.some = FALSE
      BY DEF ChoiceSet, NoChoice
    <2>5. /\ selection.choice \in ChoiceSet
          /\ selection.result \in Directions \cup
               {"none", "NoProfitableDirection", "BestDirectionQuoteIncomplete",
                "ArithmeticOverflow"}
          /\ selection.choice.some <=> selection.result \in Directions
      BY <2>1, <2>3, <2>4 DEF SearchInv, SelectionInv, Selection, Directions
    <2>6. market.parsed \/ phase \in {"parse_market", "done"}
      BY <2>1 DEF SearchInv, MarketInv, ParsedMarket
    <2>7. phase \in Phases
      BY <2>1 DEF SearchInv, MarketInv
    <2>8. QED
      BY <2>2, <2>5, <2>6, <2>7 DEF SearchTypeOK, Phases
  <1>2. QED
    BY <1>1, SearchInvariant, PTL

\* For all markets without dust: the route executes a choice for which the
\* production quotes of both legs pay what the selection promises.
THEOREM SelectedIsProductionAlways == SmoothMarkets => (SearchSpec => []SelectedIsProduction)
  <1> SUFFICES ASSUME SmoothMarkets PROVE SearchSpec => []SelectedIsProduction
    OBVIOUS
  <1>1. SearchInv => SelectedIsProduction
    <2>1. SUFFICES ASSUME SearchInv, selection.result \in Directions
                   PROVE  AnswersLike(selection.choice,
                                      Production(selection.result, selection.choice.amount_in))
      BY DEF SelectedIsProduction
    <2>2. \/ selection = Selection("PumpToMeteora", forward.best) /\ forward.best.some
          \/ selection = Selection("MeteoraToPump", reverse.best) /\ reverse.best.some
      BY <2>1 DEF SearchInv, SelectionInv, Selection, Directions
    <2>3. /\ forward.best.some =>
               AnswersLike(forward.best, Production("PumpToMeteora", forward.best.amount_in))
          /\ reverse.best.some =>
               AnswersLike(reverse.best, Production("MeteoraToPump", reverse.best.amount_in))
      BY <2>1 DEF SearchInv, SearchedAs
    <2>4. QED
      BY <2>2, <2>3 DEF Selection
  <1>2. QED
    BY <1>1, SearchInvariant, PTL

\* For all markets without dust: NoProfitableDirection is never answered for a
\* direction that was skipped, was not quoted to the end or pays enough.
THEOREM NoProfitIsCompleteAlways == SmoothMarkets => (SearchSpec => []NoProfitIsComplete)
  <1> SUFFICES ASSUME SmoothMarkets PROVE SearchSpec => []NoProfitIsComplete
    OBVIOUS
  <1>1. SearchInv => NoProfitIsComplete
    <2>1. SUFFICES ASSUME SearchInv, selection.result = "NoProfitableDirection"
                   PROVE  /\ \A direction \in Directions :
                               Production(direction, bounds.min_amount).ok
                          /\ \A paid \in Paid(bounds.min_amount) : paid < bounds.min_profit
      BY DEF NoProfitIsComplete
    <2>2. BothComplete /\ ~forward.best.some /\ ~reverse.best.some
      BY <2>1 DEF SearchInv, SelectionInv, Selection
    <2>3. \A direction \in Directions :
            /\ Production(direction, bounds.min_amount).ok
            /\ Production(direction, bounds.min_amount).amount_out - bounds.min_amount
                 < bounds.min_profit
      BY <2>1, <2>2 DEF SearchInv, SearchedAs, BothComplete, Directions
    <2>4. QED
      BY <2>3 DEF Paid
  <1>2. QED
    BY <1>1, SearchInvariant, PTL

-----------------------------------------------------------------------------
(* A curve for more input covers no less.                                  *)

LEMMA AddGrows ==
  ASSUME NEW pair, IsPair(pair), NEW c \in CurveStates(pair), NEW swap_for_y \in BOOLEAN,
         NEW input_limit
  PROVE  AddSegment(c, pair, swap_for_y, input_limit).total_in >= c.total_in
  <1> DEFINE v == AddSegment(c, pair, swap_for_y, input_limit)
  <1>1. AddCases(c, v, pair, swap_for_y, input_limit)
    BY AddIsCase
  <1>2. c.total_in \in Nat
    BY WidthAssumption DEF CurveStates
  <1> HIDE DEF v
  <1>3. CASE v = c \/ v = [c EXCEPT !.id = next_bin(c.id, swap_for_y)] \/ Halts(c, v)
             \/ Breaks(c, v) \/ v = Passed(c, pair, swap_for_y)
    <2>1. v.total_in = c.total_in
      BY <1>3, PassedFields DEF Halts, Breaks, CurveStates
    <2>2. QED
      BY <1>2, <2>1 DEF v
  <1>4. CASE /\ Visits(c, pair) /\ CapacityFits(c, CapacityOf(c, pair, swap_for_y))
             /\ v = Extended(c, pair, swap_for_y, input_limit)
    <2>1. v.total_in = c.total_in + CapacityOf(c, pair, swap_for_y).amount_in
      BY <1>4, ExtendedFields
    <2>2. CapacityOf(c, pair, swap_for_y).amount_in \in Nat
      BY <1>4, CapacityFacts
    <2>3. QED
      BY <1>2, <2>1, <2>2 DEF v
  <1>5. QED
    BY <1>1, <1>3, <1>4 DEF AddCases

\* The limit matters to a round only when it adds a segment.
Extends(c, pair, swap_for_y) ==
  /\ c.stop = "visited_bin_limit"
  /\ Visits(c, pair)
  /\ CapacityFits(c, CapacityOf(c, pair, swap_for_y))
  /\ CapacityOf(c, pair, swap_for_y).amount_in # 0
  /\ CapacityOf(c, pair, swap_for_y).amount_out # 0

LEMMA AddExtends ==
  ASSUME NEW pair, NEW c \in CurveStates(pair), NEW swap_for_y, NEW input_limit,
         Extends(c, pair, swap_for_y)
  PROVE  AddSegment(c, pair, swap_for_y, input_limit) = Extended(c, pair, swap_for_y, input_limit)
  <1> DEFINE v == AddSegment(c, pair, swap_for_y, input_limit)
  <1>1. AddCases(c, v, pair, swap_for_y, input_limit)
    BY AddIsCase
  <1> HIDE DEF v
  <1>2. Initialized(pair, bin_array_index(c.id))
    BY DEF Extends, Visits
  <1>3. v = Extended(c, pair, swap_for_y, input_limit)
    BY <1>1, <1>2 DEF AddCases, Extends
  <1>4. QED
    BY <1>3 DEF v

LEMMA AddIgnoresLimit ==
  ASSUME NEW pair, NEW c \in CurveStates(pair), NEW swap_for_y, NEW low, NEW high,
         ~Extends(c, pair, swap_for_y)
  PROVE  AddSegment(c, pair, swap_for_y, low) = AddSegment(c, pair, swap_for_y, high)
  <1> DEFINE index    == bin_array_index(c.id)
             moved    == Moved(c, pair)
             next     == [c EXCEPT !.id = next_bin(c.id, swap_for_y)]
             passed   == [next EXCEPT !.used = Used(c.used, index), !.variable = moved]
             capacity == CapacityOf(c, pair, swap_for_y)
             measured(limit) == Measured(c, passed, Bin(pair, c.id), capacity, swap_for_y,
                                  fee_on_input(pair, swap_for_y), RateOf(c, pair), limit)
             added(limit) ==
               IF c.stop # "visited_bin_limit" THEN c
               ELSE IF ~Initialized(pair, index) THEN next
               ELSE IF index \notin pair.arrays THEN [c EXCEPT !.stop = "missing_bin_array"]
               ELSE IF ~ArrayFits(pair, c.used, index) THEN [c EXCEPT !.stop = "bin_array_limit"]
               ELSE IF FeeOverflows(pair.fees, moved.accumulator)
                 THEN [c EXCEPT !.stop = "BestDirectionQuoteIncomplete"]
               ELSE measured(limit)
  <1>1. /\ AddSegment(c, pair, swap_for_y, low) = added(low)
        /\ AddSegment(c, pair, swap_for_y, high) = added(high)
    BY DEF AddSegment, MeasureBin, CapacityOf, PartOf, RateOf, dlmm_bin_quote_capacity
  <1>2. Visits(c, pair) <=> /\ Initialized(pair, index) /\ index \in pair.arrays
                            /\ ArrayFits(pair, c.used, index)
                            /\ ~FeeOverflows(pair.fees, moved.accumulator)
    BY DEF Visits, ArrayFits
  <1> HIDE DEF moved, passed, next, index
  <1>3. ~(CapacityFits(c, capacity) /\ capacity.amount_in # 0 /\ capacity.amount_out # 0)
        => measured(low) = measured(high)
    <2> HIDE DEF capacity
    <2>1. QED
      BY DEF Measured, CapacityFits
  <1> HIDE DEF measured
  <1>4. Visits(c, pair) /\ c.stop = "visited_bin_limit" => measured(low) = measured(high)
    BY <1>3 DEF Extends
  <1>5. added(low) = added(high)
    BY <1>2, <1>4
  <1>6. QED
    BY <1>1, <1>5

\* The curve with the lower limit is the other one, or has stopped before it.
Ahead(c, e) ==
  c = e \/ (c.stop # "visited_bin_limit" /\ c.total_in <= e.total_in)

LEMMA AheadIfSame ==
  ASSUME NEW v, NEW u, v = u PROVE Ahead(v, u)
  BY DEF Ahead

LEMMA AheadMoves ==
  ASSUME NEW pair, IsPair(pair), NEW c \in CurveStates(pair), NEW e \in CurveStates(pair),
         Aligned(c), Aligned(e),
         NEW swap_for_y \in BOOLEAN, NEW low \in Int, NEW high \in Int, low <= high, Ahead(c, e)
  PROVE  Ahead(AddSegment(c, pair, swap_for_y, low), AddSegment(e, pair, swap_for_y, high))
  <1>1. CASE c.stop # "visited_bin_limit" /\ c.total_in <= e.total_in
    <2> DEFINE u == AddSegment(e, pair, swap_for_y, high)
    <2>1. AddSegment(c, pair, swap_for_y, low) = c
      BY <1>1 DEF AddSegment
    <2>2. u.total_in >= e.total_in
      BY AddGrows
    <2>3. u \in CurveStates(pair)
      BY AddKeeps
    <2> HIDE DEF u
    <2>4. u.total_in \in Nat /\ c.total_in \in Nat /\ e.total_in \in Nat
      BY <2>3, WidthAssumption DEF CurveStates
    <2>5. c.total_in <= u.total_in
      BY <1>1, <2>2, <2>4
    <2>6. QED
      BY <1>1, <2>1, <2>5 DEF Ahead, u
  <1>2. CASE c = e
    <2>1. CASE ~Extends(c, pair, swap_for_y)
      <3>1. AddSegment(c, pair, swap_for_y, low) = AddSegment(c, pair, swap_for_y, high)
        BY <2>1, AddIgnoresLimit
      <3>2. AddSegment(c, pair, swap_for_y, high) = AddSegment(e, pair, swap_for_y, high)
        BY <1>2
      <3>3. QED
        BY <3>1, <3>2, AheadIfSame
    <2>2. CASE Extends(c, pair, swap_for_y)
      <3> DEFINE v == Extended(c, pair, swap_for_y, low)
                 u == Extended(c, pair, swap_for_y, high)
                 total == c.total_in + CapacityOf(c, pair, swap_for_y).amount_in
      <3>1. /\ AddSegment(c, pair, swap_for_y, low) = v
            /\ AddSegment(e, pair, swap_for_y, high) = u
        BY <1>2, <2>2, AddExtends
      <3>2. total \in Int
        BY <2>2, CapacityFacts DEF Extends
      <3>3. /\ v.total_in = total /\ u.total_in = total
            /\ v.stop = IF total >= low THEN "input_limit" ELSE c.stop
        BY ExtendedFields
      <3>4. CASE total >= low
        <4> HIDE DEF v, u, total
        <4>1. QED
          BY <3>1, <3>2, <3>3, <3>4 DEF Ahead
      <3>5. CASE ~(total >= low)
        <4>1. ~(total >= high)
          BY <3>2, <3>5
        <4>2. v = u
          BY <3>5, <4>1 DEF Extended
        <4> HIDE DEF v, u
        <4>3. QED
          BY <3>1, <4>2, AheadIfSame
      <3>6. QED
        BY <3>4, <3>5
    <2>3. QED
      BY <2>1, <2>2
  <1>3. QED
    BY <1>1, <1>2 DEF Ahead

\* A curve with a greater limit covers no less.
LEMMA CurvesGrow ==
  ASSUME NEW pair, IsPair(pair), NEW swap_for_y \in BOOLEAN, NEW timestamp \in Int,
         NEW low \in Int, NEW high \in Int, low <= high
  PROVE  LastCurve(pair, swap_for_y, timestamp, low).total_in
           <= LastCurve(pair, swap_for_y, timestamp, high).total_in
  <1> DEFINE short  == CurveWalk(pair, swap_for_y, timestamp, low)
             long   == CurveWalk(pair, swap_for_y, timestamp, high)
             ahead  == {n \in Nat : /\ short[n] \in CurveStates(pair) /\ Aligned(short[n])
                                    /\ long[n] \in CurveStates(pair) /\ Aligned(long[n])
                                    /\ Ahead(short[n], long[n])}
  <1>1. /\ short[0] = CurveStart(pair, timestamp) /\ long[0] = CurveStart(pair, timestamp)
        /\ \A n \in 0..(MaxBins - 1) :
             /\ short[n + 1] = AddSegment(short[n], pair, swap_for_y, low)
             /\ long[n + 1] = AddSegment(long[n], pair, swap_for_y, high)
    BY CurveRounds
  <1> HIDE DEF short, long
  <1>2. 0 \in ahead
    <2>1. Ahead(short[0], long[0])
      BY <1>1, AheadIfSame
    <2>2. QED
      BY <1>1, <2>1, CurveStartFacts
  <1>3. ASSUME NEW n \in 0..(MaxBins - 1), n \in ahead
        PROVE  n + 1 \in ahead
    <2>1. /\ short[n] \in CurveStates(pair) /\ Aligned(short[n])
          /\ long[n] \in CurveStates(pair) /\ Aligned(long[n])
          /\ Ahead(short[n], long[n]) /\ n + 1 \in Nat
      BY <1>3
    <2>2. /\ short[n + 1] \in CurveStates(pair) /\ Aligned(short[n + 1])
          /\ long[n + 1] \in CurveStates(pair) /\ Aligned(long[n + 1])
      BY <1>1, <2>1, AddKeeps
    <2>3. Ahead(short[n + 1], long[n + 1])
      BY <1>1, <2>1, AheadMoves
    <2>4. QED
      BY <2>1, <2>2, <2>3
  <1>4. MaxBins \in Nat
    BY WalkAssumption
  <1> HIDE DEF ahead
  <1>5. MaxBins \in 0..MaxBins /\ \A n \in 0..MaxBins : n \in ahead
    BY <1>2, <1>3, <1>4, InductionUpTo
  <1>6. Ahead(short[MaxBins], long[MaxBins]) /\ short[MaxBins].total_in \in Int
    BY <1>5, WidthAssumption DEF ahead, CurveStates
  <1>7. short[MaxBins].total_in <= long[MaxBins].total_in
    BY <1>6 DEF Ahead
  <1>8. QED
    BY <1>7 DEF short, long, LastCurve

\* A curve answers the amounts up to its end.
LEMMA CurveCovers ==
  ASSUME NEW pair, IsPair(pair), NEW swap_for_y \in BOOLEAN, NEW timestamp \in Int,
         NEW input_limit
  PROVE  LET total == LastCurve(pair, swap_for_y, timestamp, input_limit).total_in
             curve == build_curve(pair, swap_for_y, timestamp, input_limit)
         IN  /\ total \in Nat
             /\ largest_complete_input(curve) = total
             /\ \A amount \in Nat :
                  curve_quote(curve, amount).ok <=> amount # 0 /\ amount <= total
  <1> DEFINE c     == LastCurve(pair, swap_for_y, timestamp, input_limit)
             curve == build_curve(pair, swap_for_y, timestamp, input_limit)
  <1>1. c \in CurveStates(pair) /\ Aligned(c)
    BY CurveIsTyped
  <1>2. curve = Curve(c) /\ curve.segments = c.segments
    BY DEF build_curve, LastCurve, Curve
  <1> HIDE DEF c, curve
  <1>3. c.total_in \in Nat
    BY <1>1, WidthAssumption DEF CurveStates
  <1>4. largest_complete_input(curve) = c.total_in
    <2>1. /\ c.segments \in Seq(SegmentsOf(pair)) /\ Len(c.segments) \in Nat
          /\ \A i \in 1..Len(c.segments) : c.segments[i].input_start \in Nat
                                            /\ c.segments[i].input_end \in Nat
      BY <1>1, SegmentFields DEF CurveStates
    <2>2. CASE c.segments = <<>>
      <3>1. Len(c.segments) = 0
        BY <2>2
      <3>2. c.total_in = 0
        BY <1>1, <1>3, <3>1 DEF Aligned
      <3>3. QED
        BY <1>2, <2>2, <3>2 DEF largest_complete_input
    <2>3. CASE c.segments # <<>>
      <3>1. Len(c.segments) \in 1..Len(c.segments)
        BY <2>1, <2>3, EmptySeq
      <3>2. c.total_in > 0
        BY <1>1, <1>3, <2>1, <3>1 DEF Aligned
      <3>3. c.segments[Len(c.segments)].input_end = c.total_in
        BY <1>1, <3>2 DEF Aligned
      <3>4. QED
        BY <1>2, <2>3, <3>3 DEF largest_complete_input
    <2>4. QED
      BY <2>2, <2>3
  <1>5. ASSUME NEW amount \in Nat
        PROVE  curve_quote(curve, amount).ok <=> amount # 0 /\ amount <= c.total_in
    <2>1. CASE amount = 0
      BY <2>1 DEF curve_quote, NoCurveQuote
    <2>2. CASE amount > c.total_in
      <3>1. curve_quote(curve, amount) = NoCurveQuote
        BY <1>1, <1>2, <2>2, BeyondIsNotAnswered
      <3>2. QED
        BY <1>3, <2>2, <3>1 DEF NoCurveQuote
    <2>3. CASE amount # 0 /\ amount <= c.total_in
      BY <1>1, <1>2, <2>3, WithinIsAnswered
    <2>4. QED
      BY <1>3, <2>1, <2>2, <2>3
  <1>6. QED
    BY <1>3, <1>4, <1>5 DEF c, curve

-----------------------------------------------------------------------------
(* The search for the largest amount that a curve covers.                  *)

\* While amounts of at least half the minimum are below the capacity, the interval
\* reaches to the minimum, and it becomes shorter until one amount is left.
LEMMA HalvedKeeps ==
  ASSUME NEW max_amount \in Nat, NEW left \in Intervals(max_amount), NEW capacity,
         NEW min_amount \in Nat, min_amount <= left.upper,
         \A m \in 1..min_amount : min_amount <= 2 * m => Below(m, capacity),
         NEW rest \in Nat, left.upper - left.lower <= rest + 1
  PROVE  /\ min_amount <= Halved(left, capacity).upper
         /\ Halved(left, capacity).upper - Halved(left, capacity).lower <= rest
  <1> DEFINE half     == CeilDiv(left.upper - left.lower, 2)
             midpoint == left.lower + half
  <1>1. /\ left \in [lower : 0..max_amount, upper : 0..max_amount]
        /\ left.lower \in Nat /\ left.upper \in Nat /\ left.lower <= left.upper
    BY DEF Intervals
  <1>2. CASE left.lower = left.upper
    BY <1>1, <1>2 DEF Halved
  <1>3. CASE left.lower # left.upper
    <2>1. /\ half \in Nat /\ half >= 1 /\ half <= left.upper - left.lower
          /\ 2 * half >= left.upper - left.lower
      <3> DEFINE gap == left.upper - left.lower
      <3>1. gap \in Nat \ {0}
        BY <1>1, <1>3
      <3> HIDE DEF gap
      <3>2. /\ (gap + 2 - 1) \div 2 \in Nat /\ (gap + 2 - 1) \div 2 >= 1
            /\ (gap + 2 - 1) \div 2 <= gap /\ 2 * ((gap + 2 - 1) \div 2) >= gap
        BY <3>1
      <3>3. QED
        BY <3>2 DEF CeilDiv, gap
    <2> HIDE DEF half
    <2>2. midpoint \in Nat /\ 1 <= midpoint /\ left.lower + left.upper <= 2 * midpoint
      BY <1>1, <2>1
    <2>3. CASE Below(midpoint, capacity)
      <3>1. Halved(left, capacity) = [left EXCEPT !.lower = midpoint]
        BY <1>3, <2>3 DEF Halved, half
      <3>2. /\ Halved(left, capacity).lower = midpoint
            /\ Halved(left, capacity).upper = left.upper
        BY <1>1, <3>1
      <3>3. QED
        BY <1>1, <2>1, <3>2
    <2>4. CASE ~Below(midpoint, capacity)
      <3>1. Halved(left, capacity) = [left EXCEPT !.upper = midpoint - 1]
        BY <1>3, <2>4 DEF Halved, half
      <3>2. /\ Halved(left, capacity).upper = midpoint - 1
            /\ Halved(left, capacity).lower = left.lower
        BY <1>1, <3>1
      <3>3. ~(midpoint <= min_amount)
        <4>1. min_amount <= 2 * midpoint
          BY <1>1, <2>2
        <4>2. midpoint <= min_amount => midpoint \in 1..min_amount
          BY <2>2
        <4>3. QED
          BY <2>4, <4>1, <4>2
      <3>4. min_amount <= midpoint - 1
        BY <2>2, <3>3
      <3>5. (midpoint - 1) - left.lower <= rest
        BY <1>1, <2>1
      <3>6. QED
        BY <3>2, <3>4, <3>5
    <2>5. QED
      BY <2>3, <2>4
  <1>4. QED
    BY <1>2, <1>3

LEMMA LargestKeeps ==
  ASSUME NEW curve, NEW max_amount \in Nat, NEW min_amount \in Nat, min_amount <= max_amount,
         largest_complete_input(curve) # 0,
         \A m \in 1..min_amount :
           min_amount <= 2 * m => Below(m, largest_complete_input(curve))
  PROVE  min_amount <= largest_forward_complete_amount(curve, max_amount)
  <1> DEFINE capacity == largest_complete_input(curve)
             walk     == Halvings(capacity, max_amount)
             good     == {n \in 0..max_amount :
                            /\ walk[n] \in Intervals(max_amount)
                            /\ min_amount <= walk[n].upper
                            /\ walk[n].upper - walk[n].lower <= max_amount - n}
  <1>1. /\ walk[0] = [lower |-> 0, upper |-> max_amount]
        /\ \A n \in 0..(max_amount - 1) : walk[n + 1] = Halved(walk[n], capacity)
    BY HalvingRounds
  <1>2. \A m \in 1..min_amount : min_amount <= 2 * m => Below(m, capacity)
    OBVIOUS
  <1> HIDE DEF walk, capacity
  <1>3. 0 \in good
    BY <1>1 DEF Intervals
  <1>4. ASSUME NEW n \in 0..(max_amount - 1), n \in good
        PROVE  n + 1 \in good
    <2> DEFINE left == walk[n]
               rest == max_amount - (n + 1)
    <2>1. /\ n + 1 \in 0..max_amount /\ left \in Intervals(max_amount)
          /\ min_amount <= left.upper /\ left.upper - left.lower <= max_amount - n
          /\ rest \in Nat /\ max_amount - n = rest + 1
      BY <1>4
    <2>2. walk[n + 1] = Halved(left, capacity)
      BY <1>1
    <2> HIDE DEF left, rest
    <2>3. Halved(left, capacity) \in Intervals(max_amount)
      BY <2>1, HalvedStays
    <2>4. left.upper - left.lower <= rest + 1
      BY <2>1
    <2>5. /\ min_amount <= Halved(left, capacity).upper
          /\ Halved(left, capacity).upper - Halved(left, capacity).lower <= rest
      BY <1>2, <2>1, <2>4, HalvedKeeps
    <2>6. QED
      BY <2>1, <2>2, <2>3, <2>5 DEF rest
  <1> HIDE DEF good
  <1>5. max_amount \in good
    BY <1>3, <1>4, InductionUpTo
  <1>6. min_amount <= walk[max_amount].lower
    BY <1>5 DEF good, Intervals
  <1>7. QED
    BY <1>6 DEF largest_forward_complete_amount, walk, capacity

-----------------------------------------------------------------------------
(* What the probe paid, the search pays.                                   *)

\* The ranges of which the last theorem speaks: the minimum is not at a dip.
SteadyMarkets ==
  \A a \in Accounts, b \in Bounds :
    LET fees == select_pump_fees_from_data(a.pump)
    IN  fees.ok => Steady(Pool(a.pump, fees.fees), b.min_amount)

\* A minimum that is not at a dip: no more of the range buys less.
LEMMA SteadyBuys ==
  ASSUME MarketInv, market # NoMarket, Steady(market.pool, bounds.min_amount),
         Buy(bounds.min_amount).ok
  PROVE  /\ Buy(bounds.min_amount).amount_out \in Nat
         /\ \A amount \in bounds.min_amount..bounds.max_amount :
              /\ Buy(amount).ok
              /\ Buy(amount).amount_out \in Nat
              /\ Buy(bounds.min_amount).amount_out <= Buy(amount).amount_out
         /\ \A m \in 1..bounds.min_amount :
              bounds.min_amount <= 2 * m =>
                Below(m, Buy(bounds.min_amount).amount_out)
  <1> DEFINE pool       == market.pool
             min_amount == bounds.min_amount
             Out(a)     == Buy(a).amount_out
  <1>1. /\ pool \in Pools /\ min_amount \in Nat /\ bounds.max_amount \in Nat
        /\ min_amount >= 8
    BY PoolIsTyped, BoundsFacts DEF Steady
  <1>2. \A a \in Nat : Buy(a) = pump_buy_exact_quote_in(a, pool)
    BY DEF Buy
  <1>3. /\ pool.lp \in Nat /\ pool.protocol \in Nat /\ pool.creator \in Nat
        /\ TotalRate(pool) \in Nat /\ 3 * TotalRate(pool) <= Bps /\ 2 * TotalRate(pool) <= Bps
    BY <1>1, UnitsAssumption DEF Pools, Steady, TotalRate
  <1>4. pool.base_reserve # 0 /\ pool.quote_reserve # 0
    BY <1>1, BuyForm DEF Buy
  <1>5. \A d \in 1..2 : /\ pump_buy_exact_quote_in(min_amount - d, pool).amount_out
                             <= pump_buy_exact_quote_in(min_amount, pool).amount_out
                        /\ pump_buy_exact_quote_in(min_amount, pool).amount_out
                             <= pump_buy_exact_quote_in(min_amount + d, pool).amount_out
    BY DEF Steady
  <1>6. ASSUME NEW a \in Nat, a >= 4
        PROVE  Buy(a).ok /\ Out(a) \in Nat
    <2>1. Buy(a).ok
      BY <1>1, <1>2, <1>3, <1>4, <1>6, BuyIsAnswered
    <2>2. QED
      BY <1>1, <1>2, <2>1, BuyIsPaidFor
  <1>7. ASSUME NEW d \in 1..2
        PROVE  Out(min_amount - d) <= Out(min_amount) /\ Out(min_amount) <= Out(min_amount + d)
    <2>1. min_amount - d \in Nat /\ min_amount + d \in Nat
      BY <1>1
    <2>2. QED
      BY <1>1, <1>2, <1>5, <2>1
  <1>8. ASSUME NEW a \in Nat, NEW b \in Nat, a + 3 <= b, a >= 4
        PROVE  Out(a) <= Out(b)
    BY <1>1, <1>2, <1>3, <1>6, <1>8, BuyNearlyRises
  <1> HIDE DEF Out, pool, min_amount
  <1>9. ASSUME NEW amount \in min_amount..bounds.max_amount
        PROVE  Buy(amount).ok /\ Out(amount) \in Nat /\ Out(min_amount) <= Out(amount)
    <2>1. amount \in Nat /\ amount >= 4 /\ min_amount <= amount
      BY <1>1
    <2>2. Buy(amount).ok /\ Out(amount) \in Nat /\ Out(min_amount) \in Nat
      BY <1>1, <1>6, <2>1
    <2>3. \/ amount = min_amount \/ amount = min_amount + 1 \/ amount = min_amount + 2
          \/ min_amount + 3 <= amount
      BY <1>1, <2>1
    <2>4. Out(min_amount) <= Out(min_amount + 1) /\ Out(min_amount) <= Out(min_amount + 2)
      BY <1>7
    <2>5. min_amount + 3 <= amount => Out(min_amount) <= Out(amount)
      BY <1>1, <1>8, <2>1
    <2>6. QED
      BY <2>2, <2>3, <2>4, <2>5
  <1>10. ASSUME NEW m \in 1..min_amount, min_amount <= 2 * m
         PROVE  Buy(m).ok /\ Out(m) <= Out(min_amount)
    <2>1. m \in Nat /\ m >= 4 /\ m <= min_amount
      BY <1>1, <1>10
    <2>2. Buy(m).ok /\ Out(m) \in Nat /\ Out(min_amount) \in Nat
      BY <1>1, <1>6, <2>1
    <2>3. \/ m = min_amount \/ m = min_amount - 1 \/ m = min_amount - 2
          \/ m + 3 <= min_amount
      BY <1>1, <2>1
    <2>4. Out(min_amount - 1) <= Out(min_amount) /\ Out(min_amount - 2) <= Out(min_amount)
      BY <1>7
    <2>5. m + 3 <= min_amount => Out(m) <= Out(min_amount)
      BY <1>1, <1>8, <2>1
    <2>6. QED
      BY <2>2, <2>3, <2>4, <2>5
  <1>11. min_amount >= 4 /\ Out(min_amount) \in Nat
    BY <1>1, <1>6
  <1>12. QED
    BY <1>9, <1>10, <1>11 DEF Below, Out, min_amount

\* The largest limit a curve is built for covers what the smallest did.
LimitOf(direction, amount) ==
  IF direction = "PumpToMeteora" THEN forward_input_limit(amount) ELSE amount

TotalOf(direction, input_limit) ==
  LastCurve(market.pair, SideOf(direction), market.timestamp, input_limit).total_in

\* What is asked of the DLMM leg for the minimum is answered by a longer curve too.
LEMMA MinimumStaysAnswered ==
  ASSUME MarketInv, market # NoMarket, Smooth(market.pair), NEW direction \in Directions,
         direction = "MeteoraToPump" => market.cashback_ready,
         NEW low \in Int, NEW high \in Int, low <= high,
         Evaluate(direction, CurveOf(direction, low), bounds.min_amount).ok
  PROVE  /\ Evaluate(direction, CurveOf(direction, high), bounds.min_amount).ok
         /\ Evaluate(direction, CurveOf(direction, high), bounds.min_amount).amount_out
              = Evaluate(direction, CurveOf(direction, low), bounds.min_amount).amount_out
         /\ direction = "PumpToMeteora" =>
              /\ Buy(bounds.min_amount).ok /\ Buy(bounds.min_amount).amount_out # 0
              /\ Buy(bounds.min_amount).amount_out <= TotalOf(direction, high)
         /\ direction = "MeteoraToPump" => bounds.min_amount <= TotalOf(direction, high)
  <1> DEFINE min_amount == bounds.min_amount
             short      == CurveOf(direction, low)
             long       == CurveOf(direction, high)
             asked      == IF direction = "PumpToMeteora" THEN Buy(min_amount).amount_out
                           ELSE min_amount
  <1>1. /\ IsPair(market.pair) /\ market.timestamp \in Int /\ SideOf(direction) \in BOOLEAN
    BY MarketFacts DEF SideOf, ForwardSide, ReverseSide
  <1>2. /\ TotalOf(direction, low) \in Nat /\ TotalOf(direction, high) \in Nat
        /\ \A a \in Nat : curve_quote(short, a).ok <=> a # 0 /\ a <= TotalOf(direction, low)
        /\ \A a \in Nat : curve_quote(long, a).ok <=> a # 0 /\ a <= TotalOf(direction, high)
    BY <1>1, CurveCovers DEF CurveOf, TotalOf
  <1>3. TotalOf(direction, low) <= TotalOf(direction, high)
    BY <1>1, CurvesGrow DEF TotalOf
  <1>4. min_amount \in 1..U64Max /\ min_amount \in Nat
    BY BoundsFacts
  <1>5. /\ direction = "PumpToMeteora" \/ direction = "MeteoraToPump"
        /\ direction = "MeteoraToPump" => direction # "PumpToMeteora"
    BY DEF Directions
  <1>6. /\ curve_quote(short, asked).ok
        /\ direction = "PumpToMeteora" => Buy(min_amount).ok
    <2> HIDE DEF short, min_amount
    <2>1. CASE direction = "PumpToMeteora"
      BY <2>1 DEF Evaluate, evaluate_forward, NoCurveQuote, min_amount, short
    <2>2. CASE direction = "MeteoraToPump"
      BY <1>5, <2>2 DEF Evaluate, evaluate_reverse, Sold, Sale, NoCurveQuote, min_amount, short
    <2>3. QED
      BY <1>5, <2>1, <2>2
  <1>7. asked \in Nat
    <2>1. market.pool \in Pools
      BY PoolIsTyped
    <2>2. direction = "PumpToMeteora" => Buy(min_amount).amount_out \in Nat
      BY <1>4, <1>6, <2>1, BuyIsPaidFor DEF Buy
    <2>3. QED
      BY <1>4, <2>2
  <1> HIDE DEF short, long, asked, min_amount
  <1>8. asked # 0 /\ asked <= TotalOf(direction, high) /\ curve_quote(long, asked).ok
    BY <1>2, <1>3, <1>6, <1>7
  <1>9. Evaluate(direction, long, min_amount).ok
    <2>1. CASE direction = "PumpToMeteora"
      BY <1>6, <1>8, <2>1 DEF Evaluate, evaluate_forward, asked
    <2>2. CASE direction = "MeteoraToPump"
      <3>1. asked = min_amount
        BY <1>5, <2>2 DEF asked
      <3>2. curve_quote(long, min_amount).amount_out = curve_quote(short, min_amount).amount_out
        BY <1>1, <1>4, <1>6, <1>8, <3>1, CurveAnswers DEF short, long, CurveOf, AnswersLike
      <3>3. Evaluate(direction, short, min_amount) = Sold(curve_quote(short, min_amount))
        BY <1>5, <2>2 DEF Evaluate, evaluate_reverse
      <3>4. pump_sell_base_in(curve_quote(short, min_amount).amount_out, market.pool).ok
        BY <3>3 DEF Sold, Sale, NoCurveQuote, short, min_amount
      <3>5. Evaluate(direction, long, min_amount) = Sold(curve_quote(long, min_amount))
        BY <1>5, <2>2 DEF Evaluate, evaluate_reverse
      <3> DEFINE dlmm == curve_quote(long, min_amount)
                 sell == pump_sell_base_in(dlmm.amount_out, market.pool)
      <3>6. dlmm.ok /\ sell.ok
        BY <1>8, <3>1, <3>2, <3>4
      <3>7. dlmm = SegmentQuote(FirstSegment(long, Reaching(long, min_amount)),
                     min_amount - FirstSegment(long, Reaching(long, min_amount)).input_start)
        BY <3>6 DEF curve_quote, NoCurveQuote
      <3>8. [dlmm EXCEPT !.amount_out = sell.amount_out].ok
        BY <3>6, <3>7 DEF SegmentQuote
      <3> HIDE DEF dlmm
      <3>9. QED
        BY <3>5, <3>6, <3>8 DEF Sold, Sale, dlmm
    <2>3. QED
      BY <1>5, <2>1, <2>2
  <1>10. Evaluate(direction, long, min_amount).amount_out
           = Evaluate(direction, short, min_amount).amount_out
    <2>1. /\ Faithful(Evaluate(direction, long, min_amount), direction, min_amount)
          /\ Faithful(Evaluate(direction, short, min_amount), direction, min_amount)
      BY <1>4, EvaluationIsFaithful DEF short, long
    <2>2. Evaluate(direction, short, min_amount).ok
      BY DEF short, min_amount
    <2>3. QED
      BY <1>9, <2>1, <2>2 DEF Faithful, AnswersLike, NoCurveQuote
  <1>11. QED
    BY <1>6, <1>8, <1>9, <1>10, <1>5 DEF short, long, asked, min_amount

\* What is known of a direction that was probed and not yet searched: what it is paid is
\* what the curve for the minimum says.
ProbedAs(direction, d) ==
  LET quote == Evaluate(direction, CurveOf(direction, LimitOf(direction, bounds.min_amount)),
                        bounds.min_amount)
  IN  d.best.some => /\ quote.ok /\ d.best.profit = quote.amount_out - bounds.min_amount
                     /\ d.best.profit >= bounds.min_profit

LEMMA LimitsAreNumbers ==
  ASSUME MarketInv, market # NoMarket, NEW direction \in Directions, NEW amount \in 1..U64Max
  PROVE  LimitOf(direction, amount) \in Int
  BY LimitFacts, WidthAssumption DEF LimitOf

LEMMA ProbeIsProbed ==
  ASSUME MarketInv, market # NoMarket, Smooth(market.pair), NEW direction \in Directions,
         direction = "MeteoraToPump" => market.cashback_ready,
         NEW largest
  PROVE  ProbedAs(direction,
                  Probe(largest, direction,
                        CurveOf(direction, LimitOf(direction, bounds.min_amount))))
  <1> DEFINE limit == LimitOf(direction, bounds.min_amount)
             curve == CurveOf(direction, limit)
             d     == Evaluated({bounds.min_amount}, direction, curve)
             quote == Evaluate(direction, curve, bounds.min_amount)
  <1>1. bounds.min_amount \in bounds.min_amount..bounds.max_amount
        /\ bounds.min_amount \in 1..U64Max
    BY BoundsFacts
  <1>2. limit \in Int
    BY <1>1, LimitsAreNumbers
  <1> HIDE DEF limit
  <1>3. {bounds.min_amount} \in SUBSET (bounds.min_amount..bounds.max_amount)
        /\ bounds.min_amount \in {bounds.min_amount}
    BY <1>1
  <1>4. /\ SearchedAs(direction, d)
        /\ d.best.some => \E a \in {bounds.min_amount} :
                            /\ Evaluate(direction, curve, a).ok
                            /\ d.best = Choice(a, Evaluate(direction, curve, a))
    BY <1>2, <1>3, EvaluatedOutcome
  <1> HIDE DEF curve, d
  <1>5. d.best.some => quote.ok /\ d.best = Choice(bounds.min_amount, quote)
    BY <1>4
  <1> HIDE DEF quote
  <1>6. d.best.some => d.best.profit = quote.amount_out - bounds.min_amount
    BY <1>5 DEF Choice
  <1>7. d.best.some => d.best.profit >= bounds.min_profit
    <2>1. d.best \in ChoiceSet
      BY <1>4 DEF SearchedAs, DirectionSearch
    <2>2. bounds.min_profit \in Nat /\ U64Max \in Nat
      BY BoundsFacts
    <2>3. d.best = NoChoice \/ d.best.profit \in bounds.min_profit..U64Max
      BY <2>1 DEF ChoiceSet
    <2>4. QED
      BY <2>2, <2>3 DEF NoChoice
  <1>8. ProbedAs(direction, d) /\ ProbedAs(direction, Incomplete)
    BY <1>5, <1>6, <1>7 DEF ProbedAs, Incomplete, NoChoice, quote, curve, limit
  <1>9. Probe(largest, direction, curve) = d \/ Probe(largest, direction, curve) = Incomplete
    BY DEF Probe, d
  <1>10. QED
    BY <1>8, <1>9 DEF curve, limit

\* The candidates of a search, of either direction.
CandidatesOf(direction, curve, largest) ==
  IF direction = "PumpToMeteora"
    THEN ForwardCandidates(curve, bounds.min_amount, largest)
    ELSE ReverseCandidates(curve, bounds.min_amount, largest)

LEMMA SearchKeeps ==
  ASSUME MarketInv, market # NoMarket, Smooth(market.pair), NEW direction \in Directions,
         direction = "MeteoraToPump" => market.cashback_ready,
         LimitOf(direction, bounds.min_amount) <= LimitOf(direction, bounds.max_amount),
         NEW d, ProbedAs(direction, d), d.best.some,
         NEW largest \in bounds.min_amount..bounds.max_amount
  PROVE  LET curve == CurveOf(direction, LimitOf(direction, bounds.max_amount))
         IN  Kept(d, Evaluated(CandidatesOf(direction, curve, largest), direction, curve))
  <1> DEFINE low   == LimitOf(direction, bounds.min_amount)
             high  == LimitOf(direction, bounds.max_amount)
             curve == CurveOf(direction, high)
             found == CandidatesOf(direction, curve, largest)
             quote == Evaluate(direction, CurveOf(direction, low), bounds.min_amount)
             again == Evaluate(direction, curve, bounds.min_amount)
  <1>1. /\ bounds.min_amount \in Nat /\ bounds.max_amount \in Nat
        /\ bounds.min_amount <= bounds.max_amount
        /\ bounds.min_amount \in 1..U64Max /\ bounds.max_amount \in 1..U64Max
        /\ largest \in Nat /\ bounds.min_amount <= largest /\ largest <= bounds.max_amount
    BY BoundsFacts
  <1>2. low \in Int /\ high \in Int /\ low <= high
    BY <1>1, LimitsAreNumbers
  <1>3. /\ quote.ok /\ d.best.profit = quote.amount_out - bounds.min_amount
        /\ d.best.profit >= bounds.min_profit
    BY DEF ProbedAs
  <1> HIDE DEF low, high
  <1>4. again.ok /\ again.amount_out = quote.amount_out
    BY <1>2, <1>3, MinimumStaysAnswered
  <1>5. bounds.min_amount \in found /\ found \in SUBSET (bounds.min_amount..bounds.max_amount)
    <2>1. /\ IsPair(market.pair) /\ market.timestamp \in Int /\ SideOf(direction) \in BOOLEAN
      BY MarketFacts DEF SideOf, ForwardSide, ReverseSide
    <2>2. Len(curve.segments) \in Nat
      BY <2>1, CurveEnds DEF CurveOf
    <2> HIDE DEF curve
    <2>3. bounds.min_amount \in found /\ found \subseteq bounds.min_amount..largest
      BY <1>1, <2>2, MinimumIsCandidate DEF CandidatesOf
    <2>4. bounds.min_amount..largest \subseteq bounds.min_amount..bounds.max_amount
      BY <1>1
    <2>5. QED
      BY <2>3, <2>4
  <1> HIDE DEF found, quote
  <1>6. again.ok /\ Acceptable(Choice(bounds.min_amount, again)) =>
          /\ Evaluated(found, direction, curve).best.some
          /\ Evaluated(found, direction, curve).best.profit
               >= again.amount_out - bounds.min_amount
    BY <1>2, <1>5, EvaluatedOutcome
  <1> HIDE DEF again, curve
  <1>7. Acceptable(Choice(bounds.min_amount, again))
    BY <1>3, <1>4 DEF Acceptable, Choice
  <1>8. Kept(d, Evaluated(found, direction, curve))
    BY <1>3, <1>4, <1>6, <1>7 DEF Kept
  <1>9. QED
    BY <1>8 DEF found, curve, high

\* A longer search reaches the minimum where the probe did.
LEMMA ReverseReaches ==
  ASSUME MarketInv, market # NoMarket, Smooth(market.pair), market.cashback_ready,
         NEW d, ProbedAs("MeteoraToPump", d), d.best.some
  PROVE  largest_reverse_complete_amount(ReverseCurve(bounds.max_amount), bounds.max_amount)
           \in bounds.min_amount..bounds.max_amount
  <1> DEFINE direction == "MeteoraToPump"
             curve     == CurveOf(direction, bounds.max_amount)
  <1>1. /\ bounds.min_amount \in Nat /\ bounds.max_amount \in Nat
        /\ bounds.min_amount <= bounds.max_amount /\ bounds.max_amount \in 1..U64Max
    BY BoundsFacts
  <1>2. /\ IsPair(market.pair) /\ market.timestamp \in Int /\ SideOf(direction) \in BOOLEAN
    BY MarketFacts DEF SideOf, ForwardSide, ReverseSide
  <1>3. Evaluate(direction, CurveOf(direction, bounds.min_amount), bounds.min_amount).ok
    BY DEF ProbedAs, LimitOf
  <1>4. bounds.min_amount <= TotalOf(direction, bounds.max_amount)
    BY <1>1, <1>3, MinimumStaysAnswered DEF Directions
  <1>5. /\ largest_complete_input(curve) = TotalOf(direction, bounds.max_amount)
        /\ largest_complete_input(curve) \in Nat
    BY <1>2, CurveCovers DEF CurveOf, TotalOf
  <1>6. curve = ReverseCurve(bounds.max_amount)
    BY <1>1, LimitFacts
  <1> HIDE DEF curve
  <1>7. QED
    BY <1>1, <1>4, <1>5, <1>6 DEF largest_reverse_complete_amount, Least

LEMMA ForwardLimitsRise ==
  ASSUME MarketInv, market # NoMarket, Steady(market.pool, bounds.min_amount),
         Buy(bounds.min_amount).ok
  PROVE  LimitOf("PumpToMeteora", bounds.min_amount) <= LimitOf("PumpToMeteora", bounds.max_amount)
  <1>1. bounds.max_amount \in bounds.min_amount..bounds.max_amount
    BY BoundsFacts
  <1>2. Buy(bounds.max_amount).ok
        /\ Buy(bounds.min_amount).amount_out <= Buy(bounds.max_amount).amount_out
    BY <1>1, SteadyBuys
  <1>3. QED
    BY <1>2 DEF LimitOf, forward_input_limit

LEMMA ForwardReaches ==
  ASSUME MarketInv, market # NoMarket, Smooth(market.pair),
         Steady(market.pool, bounds.min_amount),
         NEW d, ProbedAs("PumpToMeteora", d), d.best.some
  PROVE  /\ LimitOf("PumpToMeteora", bounds.min_amount)
              <= LimitOf("PumpToMeteora", bounds.max_amount)
         /\ largest_forward_complete_amount(ForwardCurve(bounds.max_amount), bounds.max_amount)
              \in bounds.min_amount..bounds.max_amount
  <1> DEFINE direction  == "PumpToMeteora"
             low        == LimitOf(direction, bounds.min_amount)
             high       == LimitOf(direction, bounds.max_amount)
             curve      == CurveOf(direction, high)
             min_amount == bounds.min_amount
             max_amount == bounds.max_amount
  <1>1. /\ min_amount \in Nat /\ max_amount \in Nat /\ min_amount <= max_amount
        /\ min_amount \in 1..U64Max /\ max_amount \in 1..U64Max
    BY BoundsFacts
  <1>2. /\ IsPair(market.pair) /\ market.timestamp \in Int /\ SideOf(direction) \in BOOLEAN
    BY MarketFacts DEF SideOf, ForwardSide, ReverseSide
  <1>3. Evaluate(direction, CurveOf(direction, low), min_amount).ok
    BY DEF ProbedAs
  <1>4. Buy(min_amount).ok
    BY <1>3 DEF Evaluate, evaluate_forward, NoCurveQuote
  <1>5. low <= high /\ low \in Int /\ high \in Int
    BY <1>1, <1>4, ForwardLimitsRise, LimitsAreNumbers DEF Directions
  <1>6. curve = ForwardCurve(max_amount)
    BY <1>1, LimitFacts DEF LimitOf
  <1> HIDE DEF low, high
  <1>7. /\ Buy(min_amount).amount_out # 0
        /\ Buy(min_amount).amount_out <= TotalOf(direction, high)
    BY <1>3, <1>5, MinimumStaysAnswered DEF Directions
  <1>8. /\ largest_complete_input(curve) = TotalOf(direction, high)
        /\ largest_complete_input(curve) \in Nat
    BY <1>2, CurveCovers DEF CurveOf, TotalOf
  <1>9. /\ Buy(min_amount).amount_out \in Nat
        /\ \A m \in 1..min_amount :
             min_amount <= 2 * m => Below(m, Buy(min_amount).amount_out)
    BY <1>4, SteadyBuys
  <1>10. \A amount \in min_amount..max_amount : Buy(amount).amount_out \in Nat
    BY <1>4, SteadyBuys
  <1> HIDE DEF curve, min_amount, max_amount
  <1>11. largest_complete_input(curve) # 0
    BY <1>7, <1>8, <1>9
  <1>12. ASSUME NEW m \in 1..min_amount, min_amount <= 2 * m
         PROVE  Below(m, largest_complete_input(curve))
    <2>1. Buy(m).ok /\ Buy(m).amount_out <= Buy(min_amount).amount_out
      BY <1>9, <1>12 DEF Below
    <2>2. Buy(m).amount_out \in Int
      <3>1. m \in Nat /\ market.pool \in Pools
        BY <1>1, PoolIsTyped
      <3>2. QED
        BY <2>1, <3>1, BuyIsPaidFor DEF Buy
    <2>3. QED
      BY <1>7, <1>8, <1>9, <2>1, <2>2 DEF Below
  <1>13. min_amount <= largest_forward_complete_amount(curve, max_amount)
    BY <1>1, <1>11, <1>12, LargestKeeps
  <1>14. largest_forward_complete_amount(curve, max_amount) \in 0..max_amount
    BY <1>1, <1>8, LargestFacts
  <1>15. largest_forward_complete_amount(curve, max_amount) \in min_amount..max_amount
    BY <1>1, <1>13, <1>14
  <1>16. QED
    BY <1>5, <1>6, <1>15 DEF low, high, min_amount, max_amount

\* A direction is paid nothing before its probe, and until its search what the probe found.
KeptInv ==
  /\ phase \in {"parse_market", "probe_forward"} => ~forward.best.some
  /\ phase \in {"parse_market", "probe_forward", "probe_reverse"} => ~reverse.best.some
  /\ phase \in {"probe_reverse", "search_forward"} => ProbedAs("PumpToMeteora", forward)
  /\ phase \in {"search_forward", "search_reverse"} => ProbedAs("MeteoraToPump", reverse)

LEMMA ProbedForwardStays ==
  ASSUME UNCHANGED <<bounds, market>>, ProbedAs("PumpToMeteora", forward')
  PROVE  ProbedAs("PumpToMeteora", forward)'
  BY DEF ProbedAs, Evaluate, evaluate_forward, Buy, CurveOf, SideOf, ForwardSide, LimitOf,
         forward_input_limit

LEMMA ProbedReverseStays ==
  ASSUME UNCHANGED <<bounds, market>>, ProbedAs("MeteoraToPump", reverse')
  PROVE  ProbedAs("MeteoraToPump", reverse)'
  BY DEF ProbedAs, Evaluate, evaluate_reverse, Sold, CurveOf, SideOf, ReverseSide, LimitOf

LEMMA UnpaidIsProbed ==
  ASSUME NEW direction, NEW d, ~d.best.some PROVE ProbedAs(direction, d)
  BY DEF ProbedAs

LEMMA KeptInvInit ==
  ASSUME SearchInit PROVE KeptInv
  BY DEF SearchInit, KeptInv, Incomplete, NoChoice

LEMMA ReadyMarket ==
  ASSUME SmoothMarkets, MarketInv, phase \in Phases \ {"parse_market", "done"}
  PROVE  market # NoMarket /\ Smooth(market.pair)
  BY MarketFacts DEF MarketInv, SmoothMarkets, ParsedMarket, NoMarket

LEMMA KeptInvNext ==
  ASSUME SmoothMarkets, SearchInv, KeptInv, [SearchNext]_search_vars PROVE KeptInv'
  <1>1. MarketInv
    BY DEF SearchInv
  <1>2. /\ bounds.min_amount \in 1..U64Max /\ bounds.max_amount \in 1..U64Max
    BY <1>1, BoundsFacts
  <1>3. CASE UNCHANGED search_vars
    <2>1. UNCHANGED <<bounds, market, forward, reverse, phase>>
      BY <1>3 DEF search_vars
    <2>2. QED
      BY <2>1, ProbedForwardStays, ProbedReverseStays DEF KeptInv
  <1>4. CASE phase' \in {"decide", "done"}
    BY <1>4 DEF KeptInv
  <1>5. CASE ParseMarket /\ phase' # "done"
    <2>1. UNCHANGED <<forward, reverse>> /\ phase = "parse_market" /\ phase' = "probe_forward"
      BY <1>5 DEF ParseMarket, Parsed, Refused
    <2>2. QED
      BY <2>1 DEF KeptInv
  <1>6. CASE ProbeForward /\ phase' # "done"
    <2> DEFINE curve   == ForwardCurve(bounds.min_amount)
               largest == largest_forward_complete_amount(curve, bounds.min_amount)
    <2>1. /\ UNCHANGED <<bounds, market, reverse>> /\ phase = "probe_forward"
          /\ phase' = "probe_reverse"
          /\ forward' = Probe(largest, "PumpToMeteora", curve)
      BY <1>6 DEF ProbeForward, Failed, ProbedForward
    <2>2. market # NoMarket /\ Smooth(market.pair)
      BY <1>1, <2>1, ReadyMarket DEF Phases
    <2>3. curve = CurveOf("PumpToMeteora", LimitOf("PumpToMeteora", bounds.min_amount))
      BY <1>1, <1>2, <2>2, LimitFacts DEF LimitOf
    <2>4. ProbedAs("PumpToMeteora", forward')
      <3> HIDE DEF largest, curve
      <3>1. QED
        BY <1>1, <2>1, <2>2, <2>3, ProbeIsProbed DEF Directions
    <2>5. QED
      BY <2>1, <2>4, ProbedForwardStays DEF KeptInv
  <1>7. CASE ProbeReverse /\ phase' # "done"
    <2> DEFINE curve   == ReverseCurve(bounds.min_amount)
               largest == largest_reverse_complete_amount(curve, bounds.min_amount)
    <2>1. /\ UNCHANGED <<bounds, market, forward>> /\ phase = "probe_reverse"
          /\ phase' = "search_forward" /\ market.cashback_ready
          /\ reverse' = Probe(largest, "MeteoraToPump", curve)
      BY <1>7 DEF ProbeReverse, Failed, ProbedReverse
    <2>2. market # NoMarket /\ Smooth(market.pair)
      BY <1>1, <2>1, ReadyMarket DEF Phases
    <2>3. curve = CurveOf("MeteoraToPump", LimitOf("MeteoraToPump", bounds.min_amount))
      BY <1>1, <1>2, <2>2, LimitFacts DEF LimitOf
    <2>4. ProbedAs("MeteoraToPump", reverse')
      <3> HIDE DEF largest, curve
      <3>1. QED
        BY <1>1, <2>1, <2>2, <2>3, ProbeIsProbed DEF Directions
    <2>5. QED
      BY <2>1, <2>4, ProbedForwardStays, ProbedReverseStays DEF KeptInv
  <1>8. CASE SkipReverse
    <2>1. /\ UNCHANGED <<bounds, market, forward, reverse>>
          /\ phase = "probe_reverse" /\ phase' = "search_forward"
      BY <1>8 DEF SkipReverse
    <2>2. ProbedAs("MeteoraToPump", reverse')
      BY <2>1, UnpaidIsProbed DEF KeptInv
    <2>3. QED
      BY <2>1, <2>2, ProbedForwardStays, ProbedReverseStays DEF KeptInv
  <1>9. CASE (SearchForward \/ KeepProbe) /\ phase' \notin {"decide", "done"}
    <2>1. /\ UNCHANGED <<bounds, market, reverse>>
          /\ phase = "search_forward" /\ phase' = "search_reverse"
      BY <1>9 DEF SearchForward, KeepProbe, Failed, SearchedForward
    <2>2. QED
      BY <2>1, ProbedReverseStays DEF KeptInv
  <1>10. CASE SearchReverse \/ Decide
    <2>1. phase' \in {"decide", "done"}
      BY <1>10 DEF SearchReverse, Decide, Failed, SearchedReverse
    <2>2. QED
      BY <1>4, <2>1
  <1>11. QED
    BY <1>3, <1>4, <1>5, <1>6, <1>7, <1>8, <1>9, <1>10 DEF SearchNext

LEMMA KeptInvariant == SmoothMarkets => (SearchSpec => [](SearchInv /\ KeptInv))
  <1> SUFFICES ASSUME SmoothMarkets PROVE SearchSpec => [](SearchInv /\ KeptInv)
    OBVIOUS
  <1>1. SearchInv /\ [SearchNext]_search_vars => SearchInv'
    BY SearchInvNext
  <1>2. SearchInv /\ KeptInv /\ [SearchNext]_search_vars => KeptInv'
    BY KeptInvNext
  <1>3. SearchInit => SearchInv /\ KeptInv
    BY SearchInvInit, KeptInvInit
  <1>4. QED
    BY <1>1, <1>2, <1>3, PTL DEF SearchSpec

LEMMA UnchangedIsKept ==
  ASSUME MarketInv, NEW direction, NEW d, SearchedAs(direction, d) PROVE Kept(d, d)
  <1>1. /\ d.best = NoChoice \/ d.best.profit \in bounds.min_profit..U64Max
        /\ bounds.min_profit \in Nat /\ U64Max \in Nat
    BY BoundsFacts DEF SearchedAs, DirectionSearch, ChoiceSet
  <1>2. d.best.profit \in Int
    BY <1>1 DEF NoChoice
  <1>3. QED
    BY <1>2 DEF Kept

\* Only a probe and a search write to a direction.
LEMMA ReverseStep ==
  ASSUME SmoothMarkets, SearchInv, KeptInv, SearchNext PROVE Kept(reverse, reverse')
  <1>1. MarketInv /\ SearchedAs("MeteoraToPump", reverse)
    BY DEF SearchInv
  <1>2. CASE UNCHANGED reverse
    BY <1>1, <1>2, UnchangedIsKept
  <1>3. CASE ~reverse.best.some
    BY <1>3 DEF Kept
  <1>4. CASE SearchReverse /\ reverse.best.some /\ ~(UNCHANGED reverse)
    <2> DEFINE curve   == ReverseCurve(bounds.max_amount)
               largest == largest_reverse_complete_amount(curve, bounds.max_amount)
    <2>1. /\ phase = "search_reverse" /\ Promising(reverse)
          /\ reverse' = IF largest < bounds.min_amount THEN Incomplete
                        ELSE Evaluated(ReverseCandidates(curve, bounds.min_amount, largest),
                                       "MeteoraToPump", curve)
      BY <1>4 DEF SearchReverse, Failed, SearchedReverse
    <2>2. market # NoMarket /\ Smooth(market.pair) /\ market.cashback_ready
      BY <1>1, <2>1, ReadyMarket, PromisingIsReady DEF Phases
    <2>3. ProbedAs("MeteoraToPump", reverse)
      BY <2>1 DEF KeptInv
    <2>4. largest \in bounds.min_amount..bounds.max_amount
      BY <1>1, <1>4, <2>2, <2>3, ReverseReaches
    <2>5. /\ bounds.min_amount \in Nat /\ bounds.max_amount \in Nat
          /\ bounds.min_amount <= bounds.max_amount /\ bounds.max_amount \in 1..U64Max
      BY <1>1, BoundsFacts
    <2>6. curve = CurveOf("MeteoraToPump", LimitOf("MeteoraToPump", bounds.max_amount))
      BY <1>1, <2>2, <2>5, LimitFacts DEF LimitOf
    <2>7. LimitOf("MeteoraToPump", bounds.min_amount)
            <= LimitOf("MeteoraToPump", bounds.max_amount)
      BY <2>5 DEF LimitOf
    <2> HIDE DEF largest, curve
    <2>8. Kept(reverse, Evaluated(CandidatesOf("MeteoraToPump", curve, largest),
                                  "MeteoraToPump", curve))
      BY <1>1, <1>4, <2>2, <2>3, <2>4, <2>6, <2>7, SearchKeeps DEF Directions
    <2>9. ~(largest < bounds.min_amount)
      BY <2>4, <2>5
    <2>10. QED
      BY <2>1, <2>8, <2>9 DEF CandidatesOf
  <1>5. CASE ProbeReverse
    <2>1. phase = "probe_reverse"
      BY <1>5 DEF ProbeReverse
    <2>2. QED
      BY <1>3, <2>1 DEF KeptInv
  <1>6. CASE \/ ParseMarket \/ ProbeForward \/ SkipReverse \/ SearchForward \/ KeepProbe
             \/ Decide
    <2>1. UNCHANGED reverse
      BY <1>6 DEF ParseMarket, ProbeForward, SkipReverse, SearchForward, KeepProbe, Decide,
                  Failed, ProbedForward, SearchedForward
    <2>2. QED
      BY <1>2, <2>1
  <1>7. QED
    BY <1>2, <1>3, <1>4, <1>5, <1>6 DEF SearchNext

LEMMA ForwardStep ==
  ASSUME SmoothMarkets, SteadyMarkets, SearchInv, KeptInv, SearchNext
  PROVE  Kept(forward, forward')
  <1>1. MarketInv /\ SearchedAs("PumpToMeteora", forward)
    BY DEF SearchInv
  <1>2. CASE UNCHANGED forward
    BY <1>1, <1>2, UnchangedIsKept
  <1>3. CASE ~forward.best.some
    BY <1>3 DEF Kept
  <1>4. CASE SearchForward /\ forward.best.some /\ ~(UNCHANGED forward)
    <2> DEFINE curve   == ForwardCurve(bounds.max_amount)
               largest == largest_forward_complete_amount(curve, bounds.max_amount)
    <2>1. /\ phase = "search_forward"
          /\ forward' = IF largest < bounds.min_amount THEN Incomplete
                        ELSE Evaluated(ForwardCandidates(curve, bounds.min_amount, largest),
                                       "PumpToMeteora", curve)
      BY <1>4 DEF SearchForward, Failed, SearchedForward
    <2>2. market # NoMarket /\ Smooth(market.pair)
      BY <1>1, <2>1, ReadyMarket DEF Phases
    <2>3. ProbedAs("PumpToMeteora", forward)
      BY <2>1 DEF KeptInv
    <2>4. Steady(market.pool, bounds.min_amount)
      <3>1. /\ market.pool = Pool(accounts.pump, ChargedFees.fees) /\ ChargedFees.ok
            /\ accounts \in Accounts /\ bounds \in Bounds
        BY <1>1, <2>2, MarketFacts DEF MarketInv
      <3>2. QED
        BY <3>1 DEF SteadyMarkets, ChargedFees
    <2>5. /\ LimitOf("PumpToMeteora", bounds.min_amount)
               <= LimitOf("PumpToMeteora", bounds.max_amount)
          /\ largest \in bounds.min_amount..bounds.max_amount
      BY <1>1, <1>4, <2>2, <2>3, <2>4, ForwardReaches
    <2>6. /\ bounds.min_amount \in Nat /\ bounds.max_amount \in Nat
          /\ bounds.min_amount <= bounds.max_amount /\ bounds.max_amount \in 1..U64Max
      BY <1>1, BoundsFacts
    <2>7. curve = CurveOf("PumpToMeteora", LimitOf("PumpToMeteora", bounds.max_amount))
      BY <1>1, <2>2, <2>6, LimitFacts DEF LimitOf
    <2> HIDE DEF largest, curve
    <2>8. Kept(forward, Evaluated(CandidatesOf("PumpToMeteora", curve, largest),
                                  "PumpToMeteora", curve))
      BY <1>1, <1>4, <2>2, <2>3, <2>5, <2>7, SearchKeeps DEF Directions
    <2>9. ~(largest < bounds.min_amount)
      BY <2>5, <2>6
    <2>10. QED
      BY <2>1, <2>8, <2>9 DEF CandidatesOf
  <1>5. CASE ProbeForward
    <2>1. phase = "probe_forward"
      BY <1>5 DEF ProbeForward
    <2>2. QED
      BY <1>3, <2>1 DEF KeptInv
  <1>6. CASE \/ ParseMarket \/ ProbeReverse \/ SkipReverse \/ SearchReverse \/ KeepProbe
             \/ Decide
    <2>1. UNCHANGED forward
      BY <1>6 DEF ParseMarket, ProbeReverse, SkipReverse, SearchReverse, KeepProbe, Decide,
                  Failed, ProbedReverse, SearchedReverse
    <2>2. QED
      BY <1>2, <2>1
  <1>7. QED
    BY <1>2, <1>3, <1>4, <1>5, <1>6 DEF SearchNext

\* For all markets without dust and all ranges: the search of the reverse direction never ends
\* with less than its probe of the minimum found.
THEOREM ReverseIsKeptAlways ==
  SmoothMarkets => (SearchSpec => [][Kept(reverse, reverse')]_search_vars)
  <1> SUFFICES ASSUME SmoothMarkets
               PROVE  SearchSpec => [][Kept(reverse, reverse')]_search_vars
    OBVIOUS
  <1>1. SearchInv /\ KeptInv /\ [SearchNext]_search_vars => [Kept(reverse, reverse')]_search_vars
    BY ReverseStep
  <1>2. QED
    BY <1>1, KeptInvariant, PTL DEF SearchSpec

\* For all markets without dust and all ranges whose minimum is not at a dip of what Pump sells:
\* nor does the search of the forward direction, whose curve is built for what the
\* greatest amount buys, and whose binary search asks Pump for amounts between.
THEOREM ProbeIsKeptAlways == SmoothMarkets /\ SteadyMarkets => (SearchSpec => ProbeIsKept)
  <1> SUFFICES ASSUME SmoothMarkets, SteadyMarkets PROVE SearchSpec => ProbeIsKept
    OBVIOUS
  <1>1. SearchInv /\ KeptInv /\ [SearchNext]_search_vars
          => [Kept(forward, forward') /\ Kept(reverse, reverse')]_search_vars
    BY ForwardStep, ReverseStep
  <1>2. QED
    BY <1>1, KeptInvariant, PTL DEF SearchSpec, ProbeIsKept

-----------------------------------------------------------------------------
(* The quote probe.                                                        *)

LEMMA TrialRounds ==
  ASSUME NEW rows, Len(rows) \in Nat
  PROVE  LET walk == TrialWalk(rows)
         IN  /\ walk[0] = NoTrial
             /\ \A n \in 0..(Len(rows) - 1) : walk[n + 1] = BothOffered(walk[n], rows[n + 1])
  <1> DEFINE first   == NoTrial
             walk    == TrialWalk(rows)
             S(w, n) == BothOffered(w, rows[n])
             length  == Len(rows)
  <1>1. \A w, n : Round("trials", rows, w, n) = S(w, n)
    BY DEF Round
  <1> HIDE DEF S, first
  <1>2. \E g : g = [n \in 0..length |-> IF n = 0 THEN first ELSE S(g[n - 1], n)]
    <2>1. PICK g : Follows(g, "trials", rows, first, length)
      BY WalkExists
    <2>2. g = [n \in 0..length |-> IF n = 0 THEN first ELSE S(g[n - 1], n)]
      BY <1>1, <2>1 DEF Follows
    <2>3. QED
      BY <2>2
  <1>3. walk = [n \in 0..length |-> IF n = 0 THEN first ELSE S(walk[n - 1], n)]
    BY <1>2 DEF TrialWalk, S, first
  <1> HIDE DEF walk
  <1>4. walk[0] = first
    BY <1>3
  <1>5. ASSUME NEW n \in 0..(length - 1)
        PROVE  walk[n + 1] = S(walk[n], n + 1)
    <2>1. n + 1 \in 0..length /\ n + 1 # 0 /\ (n + 1) - 1 = n
      OBVIOUS
    <2>2. QED
      BY <1>3, <2>1
  <1>6. QED
    BY <1>4, <1>5 DEF walk, first, S

\* What a row pays in one of the two directions, and what it gains.
QuoteOf(r, backwards) == IF backwards THEN r.reverse ELSE r.forward
GainOf(r, backwards)  == QuoteOf(r, backwards).amount_out - r.input
Offers(r, backwards)  == QuoteOf(r, backwards).ok /\ GainOf(r, backwards) >= bounds.min_profit

IsRow(r) ==
  /\ r.input \in Nat
  /\ \A backwards \in BOOLEAN :
       QuoteOf(r, backwards).ok => QuoteOf(r, backwards).amount_out \in Int

TrialOf(r, backwards) ==
  [input |-> r.input, profit |-> GainOf(r, backwards), reverse |-> backwards, some |-> TRUE]

\* The choice is at least as good as what the row pays; on a draw it came before.
Outdoes(best, r, backwards) ==
  \/ GainOf(r, backwards) < best.profit
  \/ /\ GainOf(r, backwards) = best.profit
     /\ \/ best.input < r.input
        \/ best.input = r.input /\ (best.reverse => backwards)

\* The choice after some of the offers, given as pairs of a row and a direction.
Leads(best, offers) ==
  \/ best = NoTrial /\ offers = {}
  \/ \E o \in offers : /\ best = TrialOf(o[1], o[2])
                       /\ \A p \in offers : Outdoes(best, p[1], p[2])

\* The offers that come before, of smaller amounts or of the same one forwards.
Earlier(offers, r, backwards) ==
  \A o \in offers :
    /\ IsRow(o[1]) /\ o[2] \in BOOLEAN /\ Offers(o[1], o[2])
    /\ \/ o[1].input < r.input
       \/ o[1].input = r.input /\ ~o[2] /\ backwards

LEMMA OneOffer ==
  ASSUME bounds.min_profit \in Int, NEW r, IsRow(r), NEW backwards \in BOOLEAN, NEW offers,
         Earlier(offers, r, backwards), NEW best, Leads(best, offers)
  PROVE  Leads(Offered(best, r.input, backwards, QuoteOf(r, backwards)),
               offers \cup (IF Offers(r, backwards) THEN {<<r, backwards>>} ELSE {}))
  <1> DEFINE q      == QuoteOf(r, backwards)
             choice == TrialOf(r, backwards)
             next   == Offered(best, r.input, backwards, q)
             gain   == GainOf(r, backwards)
  <1>1. next = IF Offers(r, backwards) /\ Replaces(choice, best) THEN choice ELSE best
    BY DEF Offered, Offers, TrialOf, GainOf
  <1>2. Replaces(choice, best) <=> ~best.some \/ gain > best.profit
    BY DEF Replaces, TrialOf
  <1>3. r.input \in Nat /\ (Offers(r, backwards) => gain \in Int)
    BY DEF IsRow, Offers, GainOf
  <1>4. /\ choice.input = r.input /\ choice.profit = gain /\ choice.reverse = backwards
        /\ choice.some = TRUE
    BY DEF TrialOf
  <1>5. \A o \in offers : /\ o[1].input \in Nat /\ o[2] \in BOOLEAN /\ GainOf(o[1], o[2]) \in Int
                          /\ \/ o[1].input < r.input
                             \/ o[1].input = r.input /\ ~o[2] /\ backwards
    BY DEF Earlier, IsRow, Offers, GainOf
  <1> SUFFICES Leads(next, offers \cup (IF Offers(r, backwards) THEN {<<r, backwards>>} ELSE {}))
    OBVIOUS
  <1> HIDE DEF next, choice, gain
  <1>6. CASE ~Offers(r, backwards)
    BY <1>1, <1>6
  <1> DEFINE this == <<r, backwards>>
             all  == offers \cup {this}
  <1>7. this[1] = r /\ this[2] = backwards /\ this \in all
    OBVIOUS
  <1> HIDE DEF this
  <1>8. CASE Offers(r, backwards) /\ best = NoTrial /\ offers = {}
    <2>1. next = choice
      BY <1>1, <1>2, <1>8 DEF NoTrial
    <2>2. Outdoes(choice, r, backwards)
      BY <1>3, <1>4, <1>8 DEF Outdoes, gain
    <2>3. all = {this}
      BY <1>8
    <2>4. Leads(next, all)
      BY <1>7, <2>1, <2>2, <2>3 DEF Leads, choice
    <2>5. QED
      BY <1>8, <2>4 DEF this
  <1>9. ASSUME Offers(r, backwards),
               NEW o \in offers, best = TrialOf(o[1], o[2]),
               \A p \in offers : Outdoes(best, p[1], p[2])
        PROVE  Leads(next, all)
    <2>1. /\ best.some = TRUE /\ best.input = o[1].input /\ best.profit = GainOf(o[1], o[2])
          /\ best.reverse = o[2]
      BY <1>9 DEF TrialOf
    <2>2. best.profit \in Int /\ best.input \in Nat /\ gain \in Int /\ best.reverse \in BOOLEAN
      BY <1>3, <1>5, <1>9, <2>1
    <2>3. CASE gain > best.profit
      <3>1. next = choice
        BY <1>1, <1>2, <1>9, <2>3
      <3>2. ASSUME NEW p \in all
            PROVE  Outdoes(choice, p[1], p[2])
        <4>1. CASE p \in offers
          <5>1. GainOf(p[1], p[2]) \in Int /\ GainOf(p[1], p[2]) <= best.profit
            BY <1>5, <1>9, <2>2, <4>1 DEF Outdoes
          <5>2. GainOf(p[1], p[2]) < choice.profit
            BY <1>4, <2>2, <2>3, <5>1
          <5>3. QED
            BY <5>2 DEF Outdoes
        <4>2. CASE p = this
          BY <1>3, <1>4, <1>7, <4>2 DEF Outdoes, gain
        <4>3. QED
          BY <4>1, <4>2
      <3>3. QED
        BY <1>7, <3>1, <3>2 DEF Leads, choice
    <2>4. CASE ~(gain > best.profit)
      <3>1. next = best
        BY <1>1, <1>2, <2>1, <2>4
      <3>2. Outdoes(best, r, backwards)
        BY <1>3, <1>5, <1>9, <2>1, <2>2, <2>4 DEF Outdoes, gain
      <3>3. \A p \in all : Outdoes(best, p[1], p[2])
        BY <1>7, <1>9, <3>2
      <3>4. QED
        BY <1>9, <3>1, <3>3 DEF Leads
    <2>5. QED
      BY <2>3, <2>4
  <1>10. QED
    <2>1. Offers(r, backwards) => Leads(next, all)
      BY <1>8, <1>9 DEF Leads, this
    <2>2. QED
      BY <1>6, <2>1 DEF this

\* What the first n rows offer.
OffersOf(rows, n) ==
  {o \in {rows[i] : i \in 1..n} \X BOOLEAN : Offers(o[1], o[2])}

LEMMA MoreOffers ==
  ASSUME NEW rows, NEW n \in Nat
  PROVE  OffersOf(rows, n + 1) =
           (OffersOf(rows, n)
              \cup (IF Offers(rows[n + 1], FALSE) THEN {<<rows[n + 1], FALSE>>} ELSE {}))
              \cup (IF Offers(rows[n + 1], TRUE) THEN {<<rows[n + 1], TRUE>>} ELSE {})
  <1> DEFINE r == rows[n + 1]
             Of(backwards) == IF Offers(r, backwards) THEN {<<r, backwards>>} ELSE {}
             old == {rows[i] : i \in 1..n}
             new == {rows[i] : i \in 1..(n + 1)}
  <1>1. new = old \cup {r}
    <2>1. 1..(n + 1) = 1..n \cup {n + 1}
      OBVIOUS
    <2>2. QED
      BY <2>1
  <1> HIDE DEF r, old, new
  <1>2. \A o \in new \X BOOLEAN : o \in old \X BOOLEAN \/ o = <<r, FALSE>> \/ o = <<r, TRUE>>
    <2>1. ASSUME NEW o \in new \X BOOLEAN
          PROVE  o \in old \X BOOLEAN \/ o = <<r, FALSE>> \/ o = <<r, TRUE>>
      <3>1. PICK x \in new, b \in BOOLEAN : o = <<x, b>>
        OBVIOUS
      <3>2. QED
        BY <1>1, <3>1
    <2>2. QED
      BY <2>1
  <1>3. old \X BOOLEAN \subseteq new \X BOOLEAN /\ <<r, FALSE>> \in new \X BOOLEAN
        /\ <<r, TRUE>> \in new \X BOOLEAN
    BY <1>1
  <1>4. \A b : <<r, b>>[1] = r /\ <<r, b>>[2] = b
    OBVIOUS
  <1>5. {o \in new \X BOOLEAN : Offers(o[1], o[2])}
          = ({o \in old \X BOOLEAN : Offers(o[1], o[2])} \cup Of(FALSE)) \cup Of(TRUE)
    <2> DEFINE whole == {o \in new \X BOOLEAN : Offers(o[1], o[2])}
               part  == {o \in old \X BOOLEAN : Offers(o[1], o[2])}
    <2>1. ASSUME NEW o \in whole PROVE o \in (part \cup Of(FALSE)) \cup Of(TRUE)
      <3>1. o \in new \X BOOLEAN /\ Offers(o[1], o[2])
        OBVIOUS
      <3>2. CASE o \in old \X BOOLEAN
        BY <3>1, <3>2
      <3>3. CASE o = <<r, FALSE>>
        <4>1. Offers(r, FALSE)
          BY <1>4, <3>1, <3>3
        <4>2. QED
          BY <3>3, <4>1
      <3>4. CASE o = <<r, TRUE>>
        <4>1. Offers(r, TRUE)
          BY <1>4, <3>1, <3>4
        <4>2. QED
          BY <3>4, <4>1
      <3>5. QED
        BY <1>2, <3>1, <3>2, <3>3, <3>4
    <2>2. ASSUME NEW o \in (part \cup Of(FALSE)) \cup Of(TRUE) PROVE o \in whole
      <3>1. CASE o \in part
        BY <1>3, <3>1
      <3>2. ASSUME NEW b \in BOOLEAN, o \in Of(b) PROVE o \in whole
        <4>1. o = <<r, b>> /\ Offers(r, b)
          BY <3>2
        <4>2. o[1] = r /\ o[2] = b
          BY <1>4, <4>1
        <4>3. o \in new \X BOOLEAN
          BY <1>3, <4>1
        <4>4. QED
          BY <4>1, <4>2, <4>3
      <3>3. QED
        BY <3>1, <3>2
    <2> HIDE DEF whole, part, Of
    <2>3. QED
      BY <2>1, <2>2 DEF whole, part
  <1>6. QED
    BY <1>5 DEF OffersOf, r, old, new

\* After all rows the probe holds the best of what they offer.
LEMMA TrialsLead ==
  ASSUME bounds.min_profit \in Int, NEW rows, Len(rows) \in Nat,
         \A i \in 1..Len(rows) : IsRow(rows[i]),
         \A i, j \in 1..Len(rows) : i < j => rows[i].input < rows[j].input
  PROVE  Leads(choose(rows), OffersOf(rows, Len(rows)))
  <1> DEFINE walk  == TrialWalk(rows)
             leads == {n \in Nat : Leads(walk[n], OffersOf(rows, n))}
  <1>1. /\ walk[0] = NoTrial
        /\ \A n \in 0..(Len(rows) - 1) : walk[n + 1] = BothOffered(walk[n], rows[n + 1])
    BY TrialRounds
  <1> HIDE DEF walk
  <1>2. 0 \in leads
    <2>1. OffersOf(rows, 0) = {}
      BY DEF OffersOf
    <2>2. QED
      BY <1>1, <2>1 DEF Leads
  <1>3. ASSUME NEW n \in 0..(Len(rows) - 1), n \in leads
        PROVE  n + 1 \in leads
    <2> DEFINE r      == rows[n + 1]
               before == OffersOf(rows, n)
               half   == before \cup (IF Offers(r, FALSE) THEN {<<r, FALSE>>} ELSE {})
               first  == Offered(walk[n], r.input, FALSE, QuoteOf(r, FALSE))
    <2>1. n + 1 \in 1..Len(rows) /\ n \in Nat /\ n + 1 \in Nat
      OBVIOUS
    <2>2. IsRow(r)
      BY <2>1
    <2>3. ASSUME NEW o \in before
          PROVE  /\ IsRow(o[1]) /\ o[2] \in BOOLEAN /\ Offers(o[1], o[2])
                 /\ o[1].input < r.input
      <3>1. PICK i \in 1..n, b \in BOOLEAN : o = <<rows[i], b>> /\ Offers(o[1], o[2])
        BY DEF OffersOf
      <3>2. o[1] = rows[i] /\ o[2] = b
        BY <3>1
      <3>3. i \in 1..Len(rows) /\ i < n + 1
        BY <2>1
      <3>4. QED
        BY <2>1, <3>1, <3>2, <3>3
    <2>4. Earlier(before, r, FALSE)
      BY <2>3 DEF Earlier
    <2>5. Leads(walk[n], before)
      BY <1>3
    <2> HIDE DEF before, r
    <2>6. Leads(first, half)
      BY <2>2, <2>4, <2>5, OneOffer
    <2>7. Earlier(half, r, TRUE)
      <3>1. ASSUME NEW o \in half
            PROVE  /\ IsRow(o[1]) /\ o[2] \in BOOLEAN /\ Offers(o[1], o[2])
                   /\ \/ o[1].input < r.input
                      \/ o[1].input = r.input /\ ~o[2] /\ TRUE
        <4>1. CASE o \in before
          BY <2>3, <4>1
        <4>2. CASE o \notin before
          <5>1. o = <<r, FALSE>> /\ Offers(r, FALSE)
            BY <4>2
          <5>2. o[1] = r /\ o[2] = FALSE
            BY <5>1
          <5>3. QED
            BY <2>2, <5>1, <5>2
        <4>3. QED
          BY <4>1, <4>2
      <3>2. QED
        BY <3>1 DEF Earlier
    <2> HIDE DEF half, first
    <2>8. Leads(Offered(first, r.input, TRUE, QuoteOf(r, TRUE)),
                half \cup (IF Offers(r, TRUE) THEN {<<r, TRUE>>} ELSE {}))
      BY <2>2, <2>6, <2>7, OneOffer
    <2>9. walk[n + 1] = Offered(first, r.input, TRUE, QuoteOf(r, TRUE))
      BY <1>1 DEF BothOffered, QuoteOf, first, r
    <2>10. OffersOf(rows, n + 1) = half \cup (IF Offers(r, TRUE) THEN {<<r, TRUE>>} ELSE {})
      BY <2>1, MoreOffers DEF half, before, r
    <2>11. QED
      BY <2>1, <2>8, <2>9, <2>10
  <1> HIDE DEF leads
  <1>4. Len(rows) \in leads
    <2> DEFINE length == Len(rows)
    <2>1. length \in Nat
      OBVIOUS
    <2>2. \A n \in 0..(length - 1) : n \in leads => n + 1 \in leads
      BY <1>3
    <2> HIDE DEF length
    <2>3. \A n \in 0..length : n \in leads
      BY <1>2, <2>1, <2>2, InductionUpTo
    <2>4. length \in leads
      BY <2>1, <2>3
    <2>5. QED
      BY <2>4 DEF length
  <1>5. QED
    BY <1>4 DEF leads, choose, walk

LEMMA PayingForm ==
  ASSUME NEW rows, NEW backwards \in BOOLEAN, NEW c
  PROVE  c \in Paying({<<r.input, QuoteOf(r, backwards)>> : r \in rows})
           <=> \E r \in rows : Offers(r, backwards) /\ c = Choice(r.input, QuoteOf(r, backwards))
  <1> DEFINE quotes  == {<<r.input, QuoteOf(r, backwards)>> : r \in rows}
             choices == {Choice(q[1], q[2]) : q \in {q \in quotes : q[2].ok}}
             Q(r)    == QuoteOf(r, backwards)
  <1> HIDE DEF Q
  <1>1. ASSUME NEW r \in rows
        PROVE  Acceptable(Choice(r.input, Q(r))) <=> GainOf(r, backwards) >= bounds.min_profit
    BY DEF Acceptable, Choice, GainOf, Q
  <1>2. ASSUME NEW r \in rows, Q(r).ok
        PROVE  Choice(r.input, Q(r)) \in choices
    <2> DEFINE q == <<r.input, Q(r)>>
    <2>1. q \in quotes /\ q[1] = r.input /\ q[2] = Q(r)
      BY DEF Q
    <2> HIDE DEF q, quotes
    <2>2. q \in {x \in quotes : x[2].ok}
      BY <1>2, <2>1
    <2>3. Choice(q[1], q[2]) \in choices
      BY <2>2
    <2>4. QED
      BY <2>1, <2>3
  <1>3. ASSUME NEW d \in choices
        PROVE  \E r \in rows : Q(r).ok /\ d = Choice(r.input, Q(r))
    <2>1. PICK q \in quotes : q[2].ok /\ d = Choice(q[1], q[2])
      OBVIOUS
    <2>2. PICK r \in rows : q = <<r.input, Q(r)>>
      BY <2>1 DEF Q
    <2>3. q[1] = r.input /\ q[2] = Q(r)
      BY <2>2
    <2>4. QED
      BY <2>1, <2>3
  <1>4. Paying(quotes) = {d \in choices : Acceptable(d)}
    BY DEF Paying
  <1> HIDE DEF quotes, choices
  <1>5. c \in Paying(quotes) <=>
          \E r \in rows : Q(r).ok /\ c = Choice(r.input, Q(r)) /\ Acceptable(Choice(r.input, Q(r)))
    BY <1>2, <1>3, <1>4
  <1>6. QED
    BY <1>1, <1>5 DEF quotes, Q, Offers

LEMMA LeaderIsSelected ==
  ASSUME bounds.min_profit \in Int, NEW rows, NEW n \in Nat, NEW best,
         \A i \in 1..n : IsRow(rows[i]),
         Leads(best, OffersOf(rows, n))
  PROVE  LET all == {rows[i] : i \in 1..n}
         IN  SelectedOf(best, Paying({<<r.input, r.forward>> : r \in all}),
                              Paying({<<r.input, r.reverse>> : r \in all}))
  <1> DEFINE all      == {rows[i] : i \in 1..n}
             of(b)    == Paying({<<r.input, QuoteOf(r, b)>> : r \in all})
             offers   == OffersOf(rows, n)
             C(o)     == Choice(o[1].input, QuoteOf(o[1], o[2]))
  <1>1. \A r \in all : IsRow(r)
    OBVIOUS
  <1>2. \A b \in BOOLEAN : \A c :
          c \in of(b) <=> \E r \in all : Offers(r, b) /\ c = Choice(r.input, QuoteOf(r, b))
    BY PayingForm
  <1>3. /\ of(FALSE) = Paying({<<r.input, r.forward>> : r \in all})
        /\ of(TRUE) = Paying({<<r.input, r.reverse>> : r \in all})
    <2>1. \A r : QuoteOf(r, FALSE) = r.forward /\ QuoteOf(r, TRUE) = r.reverse
      BY DEF QuoteOf
    <2>2. QED
      BY <2>1
  <1>4. \A o : o \in offers <=> \E r \in all, b \in BOOLEAN : o = <<r, b>> /\ Offers(r, b)
    <2>1. offers = {o \in all \X BOOLEAN : Offers(o[1], o[2])}
      BY DEF OffersOf
    <2>2. \A r, b : <<r, b>>[1] = r /\ <<r, b>>[2] = b
      OBVIOUS
    <2> HIDE DEF offers, all
    <2>3. \A o : o \in all \X BOOLEAN <=> \E r \in all, b \in BOOLEAN : o = <<r, b>>
      OBVIOUS
    <2>4. QED
      BY <2>1, <2>2, <2>3
  <1> HIDE DEF all, of, offers
  <1>5. \A o \in offers : /\ o[1] \in all /\ o[2] \in BOOLEAN /\ Offers(o[1], o[2])
                          /\ C(o) \in of(o[2])
    <2>1. ASSUME NEW o \in offers
          PROVE  /\ o[1] \in all /\ o[2] \in BOOLEAN /\ Offers(o[1], o[2])
                 /\ C(o) \in of(o[2])
      <3>1. PICK r \in all, b \in BOOLEAN : o = <<r, b>> /\ Offers(r, b)
        BY <1>4
      <3>2. o[1] = r /\ o[2] = b
        BY <3>1
      <3>3. QED
        BY <1>2, <3>1, <3>2
    <2>2. QED
      BY <2>1
  <1>6. \A b \in BOOLEAN : \A c \in of(b) : \E r \in all : <<r, b>> \in offers /\ c = C(<<r, b>>)
    <2>1. ASSUME NEW b \in BOOLEAN, NEW c \in of(b)
          PROVE  \E r \in all : <<r, b>> \in offers /\ c = C(<<r, b>>)
      <3>1. PICK r \in all : Offers(r, b) /\ c = Choice(r.input, QuoteOf(r, b))
        BY <1>2
      <3>2. <<r, b>> \in offers
        BY <1>4, <3>1
      <3>3. <<r, b>>[1] = r /\ <<r, b>>[2] = b
        OBVIOUS
      <3>4. QED
        BY <3>1, <3>2, <3>3
    <2>2. QED
      BY <2>1
  <1>7. \A o : /\ C(o).amount_in = o[1].input /\ C(o).profit = GainOf(o[1], o[2])
    BY DEF Choice, GainOf
  <1> HIDE DEF C
  <1>8. CASE best = NoTrial /\ offers = {}
    <2>1. of(FALSE) = {} /\ of(TRUE) = {}
      BY <1>6, <1>8
    <2>2. best.some = FALSE
      BY <1>8 DEF NoTrial
    <2>3. SelectedOf(best, of(FALSE), of(TRUE))
      BY <2>1, <2>2 DEF SelectedOf
    <2>4. QED
      BY <1>3, <2>3 DEF all
  <1>9. ASSUME NEW o \in offers, best = TrialOf(o[1], o[2]),
               \A p \in offers : Outdoes(best, p[1], p[2])
        PROVE  SelectedOf(best, of(FALSE), of(TRUE))
    <2> DEFINE c == C(o)
    <2>1. /\ best.some = TRUE /\ best.reverse = o[2] /\ o[2] \in BOOLEAN
          /\ c.amount_in = best.input /\ c.profit = best.profit /\ c \in of(o[2])
      BY <1>5, <1>7, <1>9 DEF TrialOf
    <2>2. /\ best.input \in Nat /\ best.profit \in Int
      <3>1. IsRow(o[1]) /\ Offers(o[1], o[2]) /\ o[2] \in BOOLEAN
        BY <1>1, <1>5
      <3>2. best.input = o[1].input /\ best.profit = GainOf(o[1], o[2])
        BY <1>9 DEF TrialOf
      <3>3. QED
        BY <3>1, <3>2 DEF IsRow, Offers, GainOf
    <2>3. ASSUME NEW b \in BOOLEAN, NEW d \in of(b)
          PROVE  ~better_choice(d, c) /\ (best.reverse /\ ~b => better_choice(c, d))
      <3>1. PICK r \in all : <<r, b>> \in offers /\ d = C(<<r, b>>)
        BY <1>6
      <3>2. Outdoes(best, r, b) /\ d.amount_in = r.input /\ d.profit = GainOf(r, b)
        <4>1. <<r, b>>[1] = r /\ <<r, b>>[2] = b
          OBVIOUS
        <4>2. QED
          BY <1>7, <1>9, <3>1, <4>1
      <3>3. r.input \in Nat /\ GainOf(r, b) \in Int
        <4>1. Offers(r, b)
          <5>1. <<r, b>>[1] = r /\ <<r, b>>[2] = b
            OBVIOUS
          <5>2. QED
            BY <1>5, <3>1, <5>1
        <4>2. QED
          BY <1>1, <4>1 DEF IsRow, Offers, GainOf
      <3> HIDE DEF c
      <3>4. QED
        BY <2>1, <2>2, <3>2, <3>3 DEF Outdoes, better_choice
    <2>4. \A d \in of(FALSE) \cup of(TRUE) : ~better_choice(d, c)
      BY <2>3
    <2>5. best.reverse => \A d \in of(FALSE) : better_choice(c, d)
      BY <2>3
    <2>6. c \in (IF best.reverse THEN of(TRUE) ELSE of(FALSE))
      BY <2>1
    <2> HIDE DEF c
    <2>7. QED
      BY <2>1, <2>4, <2>5, <2>6 DEF SelectedOf
  <1>10. SelectedOf(best, of(FALSE), of(TRUE))
    <2>1. CASE best = NoTrial /\ offers = {}
      BY <1>3, <1>8, <2>1 DEF all
    <2>2. QED
      BY <1>9, <2>1 DEF Leads, offers
  <1>11. QED
    BY <1>3, <1>10 DEF all

\* Without the extension a pair is still a pair.
LEMMA PairWithoutExtension ==
  ASSUME NEW pair, IsPair(pair)
  PROVE  IsPair([pair EXCEPT !.extension = {}])
  <1> DEFINE other == [pair EXCEPT !.extension = {}]
  <1>1. DOMAIN pair = {"active_id", "bins", "bitmap", "extension", "arrays", "fees", "variable",
                       "collect_fee_mode", "limit_orders"}
    BY DEF IsPair
  <1>2. /\ DOMAIN other = DOMAIN pair
        /\ other.active_id = pair.active_id /\ other.limit_orders = pair.limit_orders
        /\ other.arrays = pair.arrays /\ other.bins = pair.bins
        /\ other.fees = pair.fees /\ other.variable = pair.variable
    BY <1>1
  <1> HIDE DEF other
  <1>3. IsPair(other)
    BY <1>2 DEF IsPair
  <1>4. QED
    BY <1>3 DEF other

LEMMA SnapshotIsTyped ==
  ASSUME MarketInv, market # NoMarket, NEW amount \in Nat, NEW swap_for_y \in BOOLEAN
  PROVE  LET quote == Snapshot(amount, swap_for_y)
         IN  /\ DOMAIN quote = {"amount_out", "used", "ok"}
             /\ quote.amount_out \in 0..U64Max /\ quote.ok \in BOOLEAN
  <1> DEFINE pair == [market.pair EXCEPT !.extension = {}]
             w    == LastQuote(amount, pair, swap_for_y, market.timestamp)
  <1>1. IsPair(pair) /\ market.timestamp \in Int
    BY MarketFacts, PairWithoutExtension
  <1>2. Snapshot(amount, swap_for_y)
          = quote_dlmm_snapshot_with_bitmap(amount, pair, swap_for_y, market.timestamp)
    BY DEF Snapshot
  <1> HIDE DEF pair
  <1>3. Snapshot(amount, swap_for_y) = AccountDataQuote(w)
    BY <1>1, <1>2, SnapshotAgrees DEF quote_dlmm_from_accounts, LastQuote
  <1>4. w \in QuoteStates(pair)
    BY <1>1, QuoteIsTyped
  <1> HIDE DEF w
  <1>5. QED
    BY <1>3, <1>4 DEF AccountDataQuote, QuoteStates

LEMMA RowFacts ==
  ASSUME MarketInv, market # NoMarket, NEW amount \in Nat
  PROVE  IsRow(row(amount)) /\ row(amount).input = amount
  <1> DEFINE r    == row(amount)
             out  == Buy(amount).amount_out
             dlmm == Snapshot(amount, ~market.target_is_x)
             sell == pump_sell_base_in(dlmm.amount_out, market.pool)
  <1>1. /\ r.input = amount
        /\ r.forward = (IF Buy(amount).ok THEN Snapshot(out, market.target_is_x) ELSE NoCurveQuote)
        /\ r.reverse = Sale(dlmm, sell)
    BY DEF row, Sold
  <1>2. /\ market.pool \in Pools /\ market.target_is_x \in BOOLEAN
        /\ \A n \in 0..U64Max : n \in Nat
    BY PoolIsTyped, MarketFacts, WidthAssumption
  <1> HIDE DEF r
  <1>3. r.forward.amount_out \in Int
    <2>1. CASE Buy(amount).ok
      <3>1. out \in Nat
        BY <1>2, <2>1, BuyIsPaidFor DEF Buy
      <3> HIDE DEF out
      <3>2. Snapshot(out, market.target_is_x).amount_out \in Nat
        BY <1>2, <3>1, SnapshotIsTyped
      <3>3. QED
        BY <1>1, <2>1, <3>2
    <2>2. CASE ~Buy(amount).ok
      BY <1>1, <2>2 DEF NoCurveQuote
    <2>3. QED
      BY <2>1, <2>2
  <1>4. r.reverse.ok => r.reverse.amount_out \in Int
    <2>1. /\ DOMAIN dlmm = {"amount_out", "used", "ok"} /\ dlmm.amount_out \in Nat
      BY <1>2, SnapshotIsTyped
    <2>2. sell.ok => sell.amount_out \in Nat
      BY <1>2, <2>1, SaleIsCovered
    <2> HIDE DEF dlmm, sell
    <2>3. QED
      BY <1>1, <2>1, <2>2 DEF Sale, NoCurveQuote
  <1>5. IsRow(r)
    BY <1>1, <1>3, <1>4 DEF IsRow, QuoteOf
  <1>6. QED
    BY <1>1, <1>5 DEF r

\* The quote probe keeps, for every market and every ascending list of amounts, the
\* choice the program makes of the same quotes, draws included.
THEOREM ProbeChoosesAlikeAlways == SearchSpec => []ProbeChoosesAlike
  <1>1. MarketInv => ProbeChoosesAlike
    <2> DEFINE rows   == [i \in DOMAIN Trials |-> row(Trials[i])]
               length == Len(Trials)
    <2>1. SUFFICES ASSUME MarketInv, phase = "probe_forward"
                   PROVE  SelectedOf(choose(rows),
                                     Paying({<<r.input, r.forward>> : r \in ToSet(rows)}),
                                     Paying({<<r.input, r.reverse>> : r \in ToSet(rows)}))
      BY DEF ProbeChoosesAlike
    <2>2. length \in Nat /\ DOMAIN Trials = 1..length
          /\ \A i \in 1..length : Trials[i] \in Nat
      BY TrialsAssumption
    <2> HIDE DEF length
    <2>3. rows \in Seq({row(Trials[i]) : i \in 1..length}) /\ Len(rows) = length
          /\ \A i \in 1..length : rows[i] = row(Trials[i])
      BY <2>2
    <2>4. ToSet(rows) = {rows[i] : i \in 1..length}
      BY <2>2 DEF ToSet
    <2> HIDE DEF rows
    <2>5. \A i \in 1..length : IsRow(rows[i]) /\ rows[i].input = Trials[i]
      BY <2>1, <2>2, <2>3, RowFacts, ProbedMarket
    <2>6. \A i, j \in 1..length : i < j => rows[i].input < rows[j].input
      BY <2>2, <2>5, TrialsAssumption
    <2>7. bounds.min_profit \in Int
      BY <2>1, BoundsAssumption DEF MarketInv
    <2>8. Leads(choose(rows), OffersOf(rows, length))
      BY <2>2, <2>3, <2>5, <2>6, <2>7, TrialsLead
    <2>9. QED
      BY <2>2, <2>4, <2>5, <2>7, <2>8, LeaderIsSelected
  <1>2. QED
    BY <1>1, MarketInvariant, PTL

-----------------------------------------------------------------------------
(* The interval test that saves computing a root.  The number of mantissa   *)
(* and exponent is mantissa * 2^exponent / One; weighed with powers of two  *)
(* from 2^-base on, so that all weights are integers.                       *)

\* p has the powers of two up to the top-th.
IsPowers(p, top) == p = [n \in 0..top |-> IF n = 0 THEN 1 ELSE 2 * p[n - 1]]

LEMMA PowersExist ==
  ASSUME NEW top \in Nat
  PROVE  \E p : IsPowers(p, top)
  <1>1. PICK p : Follows(p, "powers", <<>>, 1, top)
    BY WalkExists
  <1>2. \A w, n : Round("powers", <<>>, w, n) = 2 * w
    BY DEF Round
  <1>3. p = [n \in 0..top |-> IF n = 0 THEN 1 ELSE 2 * p[n - 1]]
    BY <1>1, <1>2 DEF Follows
  <1>4. QED
    BY <1>3 DEF IsPowers

LEMMA PowersStep ==
  ASSUME NEW top \in Nat, NEW p, IsPowers(p, top)
  PROVE  /\ p[0] = 1
         /\ \A n \in 0..top : p[n] \in Nat \ {0}
         /\ \A n \in 0..(top - 1) : p[n + 1] = 2 * p[n]
  <1>1. p[0] = 1
    BY DEF IsPowers
  <1>2. ASSUME NEW n \in 0..(top - 1)
        PROVE  p[n + 1] = 2 * p[n]
    <2>1. n + 1 \in 0..top /\ n + 1 # 0 /\ (n + 1) - 1 = n
      OBVIOUS
    <2>2. QED
      BY <2>1 DEF IsPowers
  <1> DEFINE positive == {n \in 0..top : p[n] \in Nat \ {0}}
  <1>3. 0 \in positive
    BY <1>1
  <1>4. \A n \in 0..(top - 1) : n \in positive => n + 1 \in positive
    <2>1. ASSUME NEW n \in 0..(top - 1), n \in positive
          PROVE  n + 1 \in positive
      <3>1. p[n + 1] = 2 * p[n] /\ p[n] \in Nat \ {0} /\ n + 1 \in 0..top
        BY <1>2, <2>1
      <3>2. QED
        BY <3>1
    <2>2. QED
      BY <2>1
  <1> HIDE DEF positive
  <1>5. \A n \in 0..top : n \in positive
    BY <1>3, <1>4, InductionUpTo
  <1>6. QED
    BY <1>1, <1>2, <1>5 DEF positive

LEMMA PowersMultiply ==
  ASSUME NEW top \in Nat, NEW p, IsPowers(p, top),
         NEW i \in 0..top, NEW j \in 0..top, i + j <= top
  PROVE  p[i + j] = p[i] * p[j]
  <1>1. /\ p[0] = 1
        /\ \A n \in 0..top : p[n] \in Nat \ {0}
        /\ \A n \in 0..(top - 1) : p[n + 1] = 2 * p[n]
    BY PowersStep
  <1> DEFINE split == {n \in 0..j : p[i + n] = p[i] * p[n]}
  <1>2. 0 \in split
    <2>1. p[i] \in Nat /\ i + 0 = i
      BY <1>1
    <2>2. p[i] * 1 = p[i]
      BY <2>1
    <2>3. QED
      BY <1>1, <2>1, <2>2
  <1>3. ASSUME NEW n \in 0..(j - 1), n \in split
        PROVE  n + 1 \in split
    <2>1. /\ i + n \in 0..(top - 1) /\ n \in 0..(top - 1) /\ n \in 0..top
          /\ i + (n + 1) = (i + n) + 1 /\ n + 1 \in 0..j
      OBVIOUS
    <2>2. p[i + (n + 1)] = 2 * p[i + n] /\ p[n + 1] = 2 * p[n] /\ p[i + n] = p[i] * p[n]
      BY <1>1, <1>3, <2>1
    <2>3. p[i] \in Nat /\ p[n] \in Nat
      BY <1>1, <2>1
    <2>4. 2 * (p[i] * p[n]) = p[i] * (2 * p[n])
      BY <2>3
    <2>5. QED
      BY <2>1, <2>2, <2>4
  <1> HIDE DEF split
  <1>4. j \in split
    <2>1. \A n \in 0..(j - 1) : n \in split => n + 1 \in split
      BY <1>3
    <2>2. QED
      BY <1>2, <2>1, InductionUpTo
  <1>5. QED
    BY <1>4 DEF split

LEMMA PowersRise ==
  ASSUME NEW top \in Nat, NEW p, IsPowers(p, top),
         NEW i \in 0..top, NEW j \in 0..top
  PROVE  /\ i <= j => p[i] <= p[j]
         /\ i < j => 2 * p[i] <= p[j]
  <1>1. \A n \in 0..top : p[n] \in Nat \ {0}
    BY PowersStep
  <1>2. ASSUME NEW a \in 0..top, a <= j
        PROVE  p[a] <= p[j]
    <2>1. j - a \in 0..top /\ a + (j - a) = j
      BY <1>2
    <2>2. p[a + (j - a)] = p[a] * p[j - a]
      BY <2>1, PowersMultiply
    <2>3. p[a] \in Nat \ {0} /\ p[j - a] \in Nat \ {0}
      BY <1>1, <2>1
    <2>4. p[a] <= p[a] * p[j - a]
      BY <2>3
    <2>5. QED
      BY <2>1, <2>2, <2>4
  <1>3. ASSUME i < j
        PROVE  2 * p[i] <= p[j]
    <2>1. i \in 0..(top - 1) /\ i + 1 \in 0..top /\ i + 1 <= j
      BY <1>3
    <2>2. p[i + 1] = 2 * p[i]
      BY <2>1, PowersStep
    <2>3. QED
      BY <1>2, <2>1, <2>2
  <1>4. QED
    BY <1>2, <1>3

\* The powers of the model are those.
LEMMA PowersAgree ==
  ASSUME NEW top \in Nat, NEW p, IsPowers(p, top), WidestBits <= top
  PROVE  \A n \in 0..WidestBits : PowerOf2[n] = p[n]
  <1>1. IsPowers(PowerOf2, WidestBits)
    <2>1. \E q : q = [n \in 0..WidestBits |-> IF n = 0 THEN 1 ELSE 2 * q[n - 1]]
      BY PowersExist, MantissaAssumption DEF IsPowers
    <2>2. PowerOf2 = [n \in 0..WidestBits |-> IF n = 0 THEN 1 ELSE 2 * PowerOf2[n - 1]]
      BY <2>1 DEF PowerOf2
    <2>3. QED
      BY <2>2 DEF IsPowers
  <1>2. /\ PowerOf2[0] = 1 /\ p[0] = 1
        /\ \A n \in 0..(WidestBits - 1) : PowerOf2[n + 1] = 2 * PowerOf2[n]
        /\ \A n \in 0..(top - 1) : p[n + 1] = 2 * p[n]
    BY <1>1, PowersStep, MantissaAssumption
  <1> DEFINE same == {n \in 0..WidestBits : PowerOf2[n] = p[n]}
  <1>3. 0 \in same
    BY <1>2, MantissaAssumption
  <1>4. \A n \in 0..(WidestBits - 1) : n \in same => n + 1 \in same
    <2>1. \A n \in 0..(WidestBits - 1) : n \in 0..(top - 1) /\ n + 1 \in 0..WidestBits
      BY MantissaAssumption
    <2>2. QED
      BY <1>2, <2>1
  <1> HIDE DEF same
  <1>5. \A n \in 0..WidestBits : n \in same
    BY <1>3, <1>4, InductionUpTo, MantissaAssumption
  <1>6. QED
    BY <1>5 DEF same

-----------------------------------------------------------------------------
\* The facts about units that the lemmas need.
LEMMA OneIsPower ==
  ASSUME NEW top \in Nat, NEW p, IsPowers(p, top), WidestBits <= top
  PROVE  /\ One = p[MantissaBits - 1] /\ One \in Nat \ {0}
         /\ MantissaBits - 1 \in 0..top /\ MantissaBits \in 0..top /\ 2 * One = p[MantissaBits]
         /\ PowerOf2[WidestBits] = p[WidestBits]
  <1>1. MantissaBits - 1 \in 0..(WidestBits - 1) /\ WidestBits \in Nat /\ MantissaBits \in Nat
    BY MantissaAssumption
  <1>2. /\ One = p[MantissaBits - 1] /\ PowerOf2[WidestBits] = p[WidestBits]
        /\ MantissaBits - 1 \in 0..top /\ MantissaBits \in 0..top
        /\ MantissaBits - 1 \in 0..(top - 1) /\ (MantissaBits - 1) + 1 = MantissaBits
    BY <1>1, PowersAgree DEF One
  <1>3. p[MantissaBits - 1] \in Nat \ {0} /\ p[MantissaBits] = 2 * p[MantissaBits - 1]
    BY <1>2, PowersStep
  <1>4. QED
    BY <1>2, <1>3

\* A positive number has its bits.
LEMMA BitsAreThose ==
  ASSUME NEW top \in Nat, NEW p, IsPowers(p, top), WidestBits <= top,
         NEW value \in Nat \ {0}, value < PowerOf2[WidestBits]
  PROVE  /\ Bits(value) \in 1..WidestBits
         /\ p[Bits(value) - 1] <= value /\ value < p[Bits(value)]
  <1>1. /\ WidestBits \in Nat /\ p[0] = 1
        /\ \A n \in 0..WidestBits : PowerOf2[n] = p[n] /\ p[n] \in Nat \ {0}
    BY MantissaAssumption, PowersAgree, PowersStep
  <1> DEFINE above == {n \in 0..WidestBits : value < p[n]}
  <1>2. above \subseteq Nat /\ WidestBits \in above
    BY <1>1
  <1>3. PICK n \in above : \A k \in above : n <= k
    BY <1>2, LeastNumber
  <1>4. n \in 0..WidestBits /\ value < p[n] /\ n # 0
    BY <1>1, <1>3
  <1>5. n - 1 \in 0..WidestBits /\ ~(n - 1 \in above)
    <2>1. n - 1 \in 0..WidestBits /\ ~(n <= n - 1)
      BY <1>1, <1>4
    <2> HIDE DEF above
    <2>2. QED
      BY <1>3, <2>1
  <1>6. n \in 1..WidestBits /\ p[n - 1] <= value
    BY <1>1, <1>4, <1>5
  <1>7. \E k \in 1..WidestBits : PowerOf2[k - 1] <= value /\ value < PowerOf2[k]
    <2>1. PowerOf2[n - 1] = p[n - 1] /\ PowerOf2[n] = p[n]
      BY <1>1, <1>4, <1>5
    <2>2. QED
      BY <1>4, <1>6, <2>1
  <1>8. /\ Bits(value) \in 1..WidestBits
        /\ PowerOf2[Bits(value) - 1] <= value /\ value < PowerOf2[Bits(value)]
    BY <1>7 DEF Bits
  <1>9. Bits(value) - 1 \in 0..WidestBits /\ Bits(value) \in 0..WidestBits
    BY <1>1, <1>8
  <1>10. QED
    BY <1>1, <1>8, <1>9

\* A number with a mantissa of its length, and an exponent from low to high.
IsNumber(a, low, high) ==
  /\ a.mantissa \in One..(2 * One - 1)
  /\ a.exponent \in low..high

\* The number of a value is it, but for the bits behind the mantissa.
LEMMA FromIsClose ==
  ASSUME NEW top \in Nat, NEW p, IsPowers(p, top), WidestBits <= top,
         NEW value \in Nat \ {0}, value < PowerOf2[WidestBits]
  PROVE  LET b      == from_u128(value)
             weight == b.mantissa * p[b.exponent]
         IN  /\ IsNumber(b, 0, WidestBits - 1)
             /\ weight <= value * One /\ value * (One - 1) <= weight
             /\ value < 2 * One => weight = value * One
  <1> DEFINE bits == Bits(value)
             rest == MantissaBits - bits
             b    == from_u128(value)
  <1>1. /\ bits \in 1..WidestBits /\ p[bits - 1] <= value /\ value < p[bits]
    BY BitsAreThose
  <1>2. /\ One = p[MantissaBits - 1] /\ One \in Nat \ {0} /\ 2 * One = p[MantissaBits]
        /\ MantissaBits - 1 \in 0..WidestBits /\ MantissaBits \in 1..WidestBits
        /\ MantissaBits - 1 \in 0..top /\ WidestBits \in Nat
    BY OneIsPower, MantissaAssumption
  <1>3. b.mantissa = Shifted(value, rest) /\ b.exponent = bits - 1
    BY DEF from_u128, Number
  <1> HIDE DEF bits, b
  <1>4. /\ bits - 1 \in 0..top /\ bits \in 0..top /\ p[bits] = 2 * p[bits - 1]
        /\ p[bits - 1] \in Nat \ {0}
    <2>1. bits - 1 \in 0..top /\ bits \in 0..top /\ bits - 1 \in 0..(top - 1) /\ (bits - 1) + 1 = bits
      BY <1>1, <1>2
    <2>2. p[(bits - 1) + 1] = 2 * p[bits - 1] /\ p[bits - 1] \in Nat \ {0}
      BY <2>1, PowersStep
    <2>3. QED
      BY <2>1, <2>2
  <1> DEFINE low == p[bits - 1]
  <1>5. CASE bits <= MantissaBits
    <2>1. /\ rest \in 0..WidestBits /\ rest \in 0..top /\ rest >= 0
          /\ (bits - 1) + rest = MantissaBits - 1
      BY <1>1, <1>2, <1>5
    <2>2. PowerOf2[rest] = p[rest] /\ p[rest] \in Nat \ {0}
      BY <2>1, PowersAgree, PowersStep
    <2>3. p[(bits - 1) + rest] = low * p[rest]
      BY <1>2, <1>4, <2>1, PowersMultiply
    <2>4. b.mantissa = value * p[rest] /\ One = low * p[rest]
      BY <1>2, <1>3, <2>1, <2>2, <2>3 DEF Shifted
    <2> DEFINE scale == p[rest]
    <2>5. /\ scale \in Nat \ {0} /\ low \in Nat \ {0} /\ low <= value /\ value < 2 * low
          /\ One = low * scale /\ b.mantissa = value * scale
      BY <1>1, <1>4, <2>2, <2>4
    <2> HIDE DEF scale, low, b
    <2>6. b.mantissa >= One /\ b.mantissa < 2 * One /\ b.mantissa \in Nat
      <3>1. low * scale <= value * scale
        BY <2>5
      <3>2. value * scale < (2 * low) * scale
        BY <2>5
      <3>3. (2 * low) * scale = 2 * (low * scale) /\ value * scale \in Nat
        BY <2>5
      <3>4. QED
        BY <2>5, <3>1, <3>2, <3>3
    <2>7. b.mantissa * low = value * One
      <3>1. (value * scale) * low = value * (low * scale)
        BY <2>5
      <3>2. QED
        BY <2>5, <3>1
    <2>8. value * (One - 1) <= value * One
      BY <1>2
    <2>9. IsNumber(b, 0, WidestBits - 1) /\ p[b.exponent] = low
      <3>1. b.exponent \in 0..(WidestBits - 1) /\ b.mantissa \in One..(2 * One - 1)
        BY <1>1, <1>2, <1>3, <2>6
      <3>2. QED
        BY <1>3, <3>1 DEF IsNumber, low
    <2>10. QED
      BY <2>7, <2>8, <2>9, <1>2 DEF b
  <1>6. CASE bits > MantissaBits
    <2> DEFINE places == bits - MantissaBits
    <2>1. /\ places \in 0..WidestBits /\ places \in 0..top /\ ~(rest >= 0) /\ -rest = places
          /\ (MantissaBits - 1) + places = bits - 1
      BY <1>1, <1>2, <1>6
    <2>2. PowerOf2[places] = p[places] /\ p[places] \in Nat \ {0}
      BY <2>1, PowersAgree, PowersStep
    <2>3. p[(MantissaBits - 1) + places] = One * p[places]
      BY <1>2, <1>4, <2>1, PowersMultiply
    <2> DEFINE scale == p[places]
    <2>4. b.mantissa = value \div scale /\ low = One * scale
      BY <1>2, <1>3, <2>1, <2>2, <2>3 DEF Shifted
    <2>5. /\ scale \in Nat \ {0} /\ low \in Nat \ {0} /\ low <= value /\ value < 2 * low
      BY <1>1, <1>4, <2>2
    <2>6. p[MantissaBits] <= low /\ p[b.exponent] = low
      <3>1. MantissaBits <= bits - 1 /\ MantissaBits \in 0..top
        BY <1>1, <1>2, <1>6
      <3>2. QED
        BY <1>3, <1>4, <3>1, PowersRise
    <2> HIDE DEF scale, low
    <2> DEFINE m == b.mantissa
    <2>7. m \in Nat /\ m * scale <= value /\ value < m * scale + scale
      BY <2>4, <2>5, DivFacts
    <2> HIDE DEF m, b
    <2>8. m * scale + scale = (m + 1) * scale /\ m * scale \in Nat
      BY <2>5, <2>7
    <2>9. m >= One
      <3>1. One * scale < (m + 1) * scale
        BY <1>2, <2>4, <2>5, <2>7, <2>8
      <3>2. One < m + 1
        BY <1>2, <2>5, <2>7, <3>1, ProductCancel
      <3>3. QED
        BY <1>2, <2>7, <2>8, <3>2
    <2>10. m < 2 * One
      <3>1. m * scale < (2 * One) * scale
        BY <1>2, <2>4, <2>5, <2>7, <2>8
      <3>2. QED
        BY <1>2, <2>5, <2>7, <3>1, ProductCancel
    <2>11. m * low <= value * One
      <3>1. (m * scale) * One <= value * One
        BY <1>2, <2>5, <2>7, <2>8
      <3>2. (m * scale) * One = m * (One * scale)
        BY <1>2, <2>5, <2>7, <2>8
      <3>3. QED
        BY <2>4, <3>1, <3>2
    <2>12. value * (One - 1) <= m * low
      <3>1. (value - scale) * One <= (m * scale) * One
        <4>1. value - scale <= m * scale
          BY <2>5, <2>7, <2>8
        <4>2. QED
          BY <1>2, <2>5, <2>7, <2>8, <4>1
      <3>2. (value - scale) * One = value * One - One * scale
        BY <1>2, <2>5
      <3>3. value * (One - 1) = value * One - value
        BY <1>2
      <3>4. (m * scale) * One = m * (One * scale)
        BY <1>2, <2>5, <2>7, <2>8
      <3>5. value * One \in Int /\ m * (One * scale) \in Int /\ One * scale \in Int
        BY <1>2, <2>5, <2>7, <2>8
      <3>6. QED
        BY <2>4, <2>5, <3>1, <3>2, <3>3, <3>4, <3>5
    <2>13. ~(value < 2 * One)
      BY <1>2, <2>5, <2>6
    <2>14. IsNumber(b, 0, WidestBits - 1)
      <3>1. b.exponent \in 0..(WidestBits - 1) /\ m \in One..(2 * One - 1)
        BY <1>1, <1>2, <1>3, <2>7, <2>9, <2>10
      <3>2. QED
        BY <3>1 DEF IsNumber, m
    <2>15. QED
      BY <2>6, <2>11, <2>12, <2>13, <2>14 DEF m, b
  <1>7. QED
    BY <1>1, <1>2, <1>5, <1>6

\* Twice a product of mantissas, or the product, and what is cut off of it.
LEMMA MantissasMultiply ==
  ASSUME NEW o \in Nat \ {0}, NEW x \in o..(2 * o - 1), NEW y \in o..(2 * o - 1)
  PROVE  LET product == (x * y) \div o
             half    == product \div 2
             exact   == IF product >= 2 * o THEN 2 * half ELSE product
         IN  /\ product \in Nat /\ half \in Nat
             /\ product >= 2 * o => half \in o..(2 * o - 1)
             /\ ~(product >= 2 * o) => product \in o..(2 * o - 1)
             /\ exact * o <= x * y
             /\ (x * y) * (o - 1) <= (exact * o) * o
  <1> DEFINE all     == x * y
             product == all \div o
             half    == product \div 2
  <1>1. all \in Nat /\ o * o <= all /\ all < 4 * (o * o)
    <2>1. o * o <= x * o /\ x * o <= x * y
      BY ProductOrder
    <2>2. x * y <= (2 * o - 1) * y /\ (2 * o - 1) * y <= (2 * o - 1) * (2 * o - 1)
      BY ProductOrder
    <2>3. (2 * o - 1) * (2 * o - 1) < 4 * (o * o)
      OBVIOUS
    <2>4. x * y \in Nat /\ x * o \in Nat /\ o * o \in Nat
      OBVIOUS
    <2>5. QED
      BY <2>1, <2>2, <2>3, <2>4
  <1> HIDE DEF all
  <1>2. product \in Nat /\ product * o <= all /\ all < product * o + o
    BY <1>1, DivFacts
  <1>3. product >= o /\ product < 4 * o
    <2>1. o * o < (product + 1) * o
      BY <1>1, <1>2
    <2>2. o < product + 1
      BY <1>2, <2>1, ProductCancel
    <2>3. product * o < (4 * o) * o
      BY <1>1, <1>2
    <2>4. product < 4 * o
      BY <1>2, <2>3, ProductCancel
    <2>5. QED
      BY <1>2, <2>2, <2>4
  <1> HIDE DEF product
  <1>4. half \in Nat /\ 2 * half <= product /\ product <= 2 * half + 1
    BY <1>2
  <1> HIDE DEF half
  <1>5. CASE product >= 2 * o
    <2>1. half \in o..(2 * o - 1)
      BY <1>2, <1>3, <1>4, <1>5
    <2>2. (2 * half) * o <= all
      <3>1. (2 * half) * o <= product * o
        BY <1>2, <1>4, ProductOrder
      <3>2. QED
        BY <1>1, <1>2, <1>4, <3>1
    <2>3. all * (o - 1) <= ((2 * half) * o) * o
      <3>1. product * o + o <= (2 * half) * o + 2 * o
        <4>1. product * o <= (2 * half + 1) * o
          BY <1>2, <1>4, ProductOrder
        <4>2. (2 * half + 1) * o = (2 * half) * o + o
          BY <1>4
        <4>3. product * o \in Nat /\ (2 * half) * o \in Nat
          BY <1>2, <1>4
        <4>4. QED
          BY <4>1, <4>2, <4>3
      <3> DEFINE kept == (2 * half) * o
      <3>2. kept \in Nat /\ all < kept + 2 * o
        BY <1>1, <1>2, <1>4, <3>1
      <3>3. 2 * (o * o) <= all
        <4>1. (2 * o) * o <= product * o
          BY <1>2, <1>5, ProductOrder
        <4>2. QED
          BY <1>1, <1>2, <4>1
      <3> HIDE DEF kept
      <3>4. all * o <= (kept + 2 * o) * o
        BY <1>1, <3>2, ProductOrder
      <3>5. (kept + 2 * o) * o = kept * o + 2 * (o * o) /\ all * (o - 1) = all * o - all
        BY <1>1, <3>2
      <3>6. kept * o \in Nat /\ o * o \in Nat /\ all * o \in Nat
        BY <1>1, <3>2
      <3>7. all * (o - 1) <= kept * o
        BY <1>1, <3>3, <3>4, <3>5, <3>6
      <3>8. QED
        BY <3>7 DEF kept
    <2>4. QED
      BY <1>2, <1>4, <1>5, <2>1, <2>2, <2>3 DEF all, product, half
  <1>6. CASE ~(product >= 2 * o)
    <2>1. product \in o..(2 * o - 1)
      BY <1>2, <1>3, <1>6
    <2>2. all * (o - 1) <= (product * o) * o
      <3> DEFINE kept == product * o
      <3>1. kept \in Nat /\ all < kept + o
        BY <1>2
      <3> HIDE DEF kept
      <3>2. all * o <= (kept + o) * o
        BY <1>1, <3>1, ProductOrder
      <3>3. (kept + o) * o = kept * o + o * o /\ all * (o - 1) = all * o - all
        BY <1>1, <3>1
      <3>4. kept * o \in Nat /\ o * o \in Nat /\ all * o \in Nat
        BY <1>1, <3>1
      <3>5. all * (o - 1) <= kept * o
        BY <1>1, <3>2, <3>3, <3>4
      <3>6. QED
        BY <3>5 DEF kept
    <2>3. QED
      BY <1>2, <1>4, <1>6, <2>1, <2>2 DEF all, product, half
  <1>7. QED
    BY <1>5, <1>6

\* What a number stands for, in units of 2^-base / One.
Weight(a, p, base) == a.mantissa * p[a.exponent + base]

\* A product of numbers is that of what they stand for, but for what is cut off.
LEMMA MultiplyIsClose ==
  ASSUME NEW top \in Nat, NEW p, IsPowers(p, top), WidestBits <= top, NEW base \in Nat,
         NEW low \in Int, NEW high \in Int, NEW reach \in Nat,
         0 <= low + base, high + reach + 1 + base <= top,
         NEW a, IsNumber(a, low, high), NEW b, IsNumber(b, 0, reach)
  PROVE  LET c  == multiply(a, b)
             wb == b.mantissa * p[b.exponent]
         IN  /\ IsNumber(c, low, high + reach + 1)
             /\ Weight(c, p, base) \in Nat /\ Weight(a, p, base) \in Nat /\ wb \in Nat
             /\ Weight(c, p, base) * One <= Weight(a, p, base) * wb
             /\ (Weight(a, p, base) * wb) * (One - 1) <= (Weight(c, p, base) * One) * One
  <1> DEFINE x       == a.mantissa
             y       == b.mantissa
             product == (x * y) \div One
             half    == product \div 2
             exact   == IF product >= 2 * One THEN 2 * half ELSE product
             c       == multiply(a, b)
             A       == p[a.exponent + base]
             Q       == p[b.exponent]
             e       == a.exponent + b.exponent
  <1>1. One \in Nat \ {0} /\ x \in One..(2 * One - 1) /\ y \in One..(2 * One - 1)
    BY OneIsPower DEF IsNumber
  <1>2. /\ product \in Nat /\ half \in Nat
        /\ product >= 2 * One => half \in One..(2 * One - 1)
        /\ ~(product >= 2 * One) => product \in One..(2 * One - 1)
        /\ exact * One <= x * y
        /\ (x * y) * (One - 1) <= (exact * One) * One
    BY <1>1, MantissasMultiply
  <1>3. c = IF product >= 2 * One THEN Number(half, e + 1) ELSE Number(product, e)
    BY DEF multiply
  <1>4. a.exponent \in low..high /\ b.exponent \in 0..reach
    BY DEF IsNumber
  <1> DEFINE i == a.exponent + base
  <1>5. /\ i \in 0..top /\ b.exponent \in 0..top /\ i + b.exponent \in 0..top
        /\ i + b.exponent \in 0..(top - 1)
        /\ e + base = i + b.exponent /\ (e + 1) + base = (i + b.exponent) + 1
        /\ e \in low..(high + reach + 1) /\ e + 1 \in low..(high + reach + 1)
    BY <1>4
  <1>6. /\ p[e + base] = A * Q /\ p[(e + 1) + base] = 2 * (A * Q)
        /\ A \in Nat \ {0} /\ Q \in Nat \ {0}
    <2>1. p[i + b.exponent] = p[i] * p[b.exponent]
      BY <1>5, PowersMultiply
    <2>2. p[(i + b.exponent) + 1] = 2 * p[i + b.exponent]
      BY <1>5, PowersStep
    <2>3. QED
      BY <1>5, <2>1, <2>2, PowersStep
  <1> HIDE DEF product, half, x, y, A, Q, e
  <1>7. c.mantissa * p[c.exponent + base] = exact * (A * Q)
    <2>1. CASE product >= 2 * One
      <3>1. c.mantissa = half /\ c.exponent = e + 1
        BY <1>3, <2>1 DEF Number
      <3>2. half * (2 * (A * Q)) = (2 * half) * (A * Q)
        BY <1>2, <1>6
      <3>3. QED
        BY <1>6, <2>1, <3>1, <3>2
    <2>2. CASE ~(product >= 2 * One)
      <3>1. c.mantissa = product /\ c.exponent = e
        BY <1>3, <2>2 DEF Number
      <3>2. QED
        BY <1>6, <2>2, <3>1
    <2>3. QED
      BY <2>1, <2>2
  <1>8. IsNumber(c, low, high + reach + 1)
    BY <1>2, <1>3, <1>5 DEF IsNumber, Number
  <1>9. exact \in Nat
    BY <1>2
  <1> HIDE DEF exact, c
  <1> DEFINE wc == exact * (A * Q)
             wa == x * A
             wb == y * Q
             scale == A * Q
  <1>10. x \in Nat /\ y \in Nat /\ scale \in Nat
    BY <1>1, <1>6
  <1>11. wa * wb = (x * y) * scale
    <2>1. (x * A) * (y * Q) = (x * y) * (A * Q)
      BY <1>6, <1>10
    <2>2. QED
      BY <2>1
  <1>12. wc * One <= wa * wb
    <2>1. (exact * One) * scale <= (x * y) * scale
      BY <1>1, <1>2, <1>9, <1>10, ProductOrder
    <2>2. (exact * One) * scale = (exact * scale) * One
      BY <1>1, <1>9, <1>10
    <2>3. QED
      BY <1>11, <2>1, <2>2
  <1>13. (wa * wb) * (One - 1) <= (wc * One) * One
    <2> DEFINE all == x * y
    <2>1. all \in Nat /\ One - 1 \in Nat
      BY <1>1, <1>10
    <2>2. all * (One - 1) <= (exact * One) * One
      BY <1>2
    <2> HIDE DEF scale, all
    <2>3. (all * (One - 1)) * scale <= ((exact * One) * One) * scale
      BY <1>1, <1>9, <1>10, <2>1, <2>2, ProductOrder
    <2>4. (all * (One - 1)) * scale = (all * scale) * (One - 1)
      BY <1>10, <2>1
    <2>5. ((exact * One) * One) * scale = ((exact * scale) * One) * One
      BY <1>1, <1>9, <1>10
    <2>6. QED
      BY <1>11, <2>3, <2>4, <2>5 DEF scale, all
  <1>14. wa \in Nat /\ wb \in Nat /\ wc \in Nat
    BY <1>6, <1>9, <1>10
  <1>15. Weight(c, p, base) = wc /\ Weight(a, p, base) = wa
    BY <1>7 DEF Weight, A, x
  <1>16. QED
    BY <1>8, <1>12, <1>13, <1>14, <1>15 DEF c, y, Q

\* A quotient of mantissas, or twice the quotient, and what is cut off of it.
LEMMA MantissasDivide ==
  ASSUME NEW o \in Nat, o > 1, NEW u \in Nat, o = 2 * u,
         NEW x \in o..(2 * o - 1), NEW y \in o..(2 * o - 1)
  PROVE  LET quotient == (x * o) \div y
         IN  /\ quotient \in Nat
             /\ quotient < o => quotient * 2 \in o..(2 * o - 1)
             /\ ~(quotient < o) => quotient \in o..(2 * o - 1)
             /\ quotient * y <= x * o
             /\ (x * o) * (o - 2) <= (quotient * y) * o
  <1> DEFINE all      == x * o
             quotient == all \div y
  <1>1. x \in Nat /\ y \in Nat \ {0} /\ all \in Nat /\ o * o <= all
    <2>1. o * o <= x * o
      BY ProductOrder
    <2>2. QED
      BY <2>1
  <1>2. all < (2 * o) * y /\ u * y <= all
    <2>1. x * o < (2 * o) * o
      BY <1>1
    <2>2. o * (2 * o) <= y * (2 * o)
      BY ProductOrder
    <2>3. (2 * o) * o = o * (2 * o) /\ y * (2 * o) = (2 * o) * y
      BY <1>1
    <2>4. all < (2 * o) * y
      <3>1. (2 * o) * o \in Nat /\ (2 * o) * y \in Nat
        BY <1>1
      <3>2. QED
        BY <1>1, <2>1, <2>2, <2>3, <3>1
    <2>5. u * y <= u * (2 * o)
      <3>1. y * u <= (2 * o) * u
        BY <1>1, ProductOrder
      <3>2. QED
        BY <1>1, <3>1
    <2>6. u * (2 * o) = o * o
      OBVIOUS
    <2>7. QED
      BY <1>1, <2>4, <2>5, <2>6
  <1> HIDE DEF all
  <1>3. quotient \in Nat /\ quotient * y <= all /\ all < quotient * y + y
    BY <1>1, DivFacts
  <1> HIDE DEF quotient
  <1>4. quotient < 2 * o
    <2>1. quotient * y < (2 * o) * y
      BY <1>1, <1>2, <1>3
    <2>2. QED
      BY <1>1, <1>3, <2>1, ProductCancel
  <1>5. u <= quotient
    <2>1. quotient * y + y = (quotient + 1) * y
      BY <1>1, <1>3
    <2>2. u * y < (quotient + 1) * y
      BY <1>1, <1>2, <1>3, <2>1
    <2>3. u < quotient + 1
      BY <1>1, <1>3, <2>2, ProductCancel
    <2>4. QED
      BY <1>3, <2>3
  <1>6. all * (o - 2) <= (quotient * y) * o
    <2> DEFINE kept == quotient * y
    <2>1. kept \in Nat /\ all < kept + 2 * o
      BY <1>1, <1>3
    <2> HIDE DEF kept
    <2>2. all * o <= (kept + 2 * o) * o
      BY <1>1, <2>1, ProductOrder
    <2>3. (kept + 2 * o) * o = kept * o + 2 * (o * o) /\ all * (o - 2) = all * o - 2 * all
      BY <1>1, <2>1
    <2>4. kept * o \in Nat /\ o * o \in Nat /\ all * o \in Nat
      BY <1>1, <2>1
    <2>5. all * (o - 2) <= kept * o
      BY <1>1, <2>2, <2>3, <2>4
    <2>6. QED
      BY <2>5 DEF kept
  <1>7. /\ quotient < o => quotient * 2 \in o..(2 * o - 1)
        /\ ~(quotient < o) => quotient \in o..(2 * o - 1)
    BY <1>3, <1>4, <1>5
  <1>8. QED
    BY <1>3, <1>6, <1>7 DEF all, quotient

\* A quotient by a number is that of what they stand for, but for what is cut off.
LEMMA DivideIsClose ==
  ASSUME NEW top \in Nat, NEW p, IsPowers(p, top), WidestBits <= top, NEW base \in Nat,
         MantissaBits > 1,
         NEW low \in Int, NEW high \in Int, NEW reach \in Nat,
         reach + 1 <= low + base, high + base <= top,
         NEW a, IsNumber(a, low, high), NEW b, IsNumber(b, 0, reach)
  PROVE  LET c  == divide(a, b)
             wb == b.mantissa * p[b.exponent]
         IN  /\ IsNumber(c, low - reach - 1, high)
             /\ Weight(c, p, base) \in Nat /\ Weight(a, p, base) \in Nat /\ wb \in Nat
             /\ Weight(c, p, base) * wb <= Weight(a, p, base) * One
             /\ (Weight(a, p, base) * One) * (One - 2) <= (Weight(c, p, base) * wb) * One
  <1> DEFINE x        == a.mantissa
             y        == b.mantissa
             quotient == (x * One) \div y
             c        == divide(a, b)
             Q        == p[b.exponent]
             e        == a.exponent - b.exponent
             j        == e + base
  <1>1. One \in Nat \ {0} /\ x \in One..(2 * One - 1) /\ y \in One..(2 * One - 1)
    BY OneIsPower DEF IsNumber
  <1>2. PICK u \in Nat : One = 2 * u
    <2>1. /\ MantissaBits - 1 \in 0..top /\ MantissaBits \in Nat
          /\ One = p[MantissaBits - 1]
      BY OneIsPower, MantissaAssumption
    <2>2. MantissaBits - 2 \in 0..(top - 1) /\ (MantissaBits - 2) + 1 = MantissaBits - 1
      BY <2>1
    <2>3. p[(MantissaBits - 2) + 1] = 2 * p[MantissaBits - 2] /\ p[MantissaBits - 2] \in Nat
      BY <2>2, PowersStep
    <2>4. QED
      BY <2>1, <2>2, <2>3
  <1>3. /\ quotient \in Nat
        /\ quotient < One => quotient * 2 \in One..(2 * One - 1)
        /\ ~(quotient < One) => quotient \in One..(2 * One - 1)
        /\ quotient * y <= x * One
        /\ (x * One) * (One - 2) <= (quotient * y) * One
    <2>1. One \in Nat /\ One > 1
      BY <1>1, <1>2
    <2>2. QED
      BY <1>1, <1>2, <2>1, MantissasDivide
  <1>4. c = IF quotient < One THEN Number(quotient * 2, e - 1) ELSE Number(quotient, e)
    BY DEF divide
  <1>5. a.exponent \in low..high /\ b.exponent \in 0..reach
    BY DEF IsNumber
  <1>6. /\ j \in 0..top /\ j - 1 \in 0..(top - 1) /\ b.exponent \in 0..top
        /\ j + b.exponent = a.exponent + base /\ j + b.exponent <= top
        /\ (e - 1) + base = j - 1 /\ (j - 1) + 1 = j
        /\ e \in (low - reach - 1)..high /\ e - 1 \in (low - reach - 1)..high
    BY <1>5
  <1> DEFINE C == p[j]
  <1>7. /\ p[a.exponent + base] = C * Q /\ C = 2 * p[j - 1]
        /\ C \in Nat \ {0} /\ Q \in Nat \ {0} /\ p[j - 1] \in Nat
    <2>1. p[j + b.exponent] = p[j] * p[b.exponent]
      BY <1>6, PowersMultiply
    <2>2. p[(j - 1) + 1] = 2 * p[j - 1]
      BY <1>6, PowersStep
    <2>3. p[j - 1] \in Nat /\ p[j] \in Nat \ {0} /\ p[b.exponent] \in Nat \ {0}
      <3>1. j - 1 \in 0..top
        BY <1>6
      <3>2. QED
        BY <1>6, <3>1, PowersStep
    <2>4. QED
      BY <1>6, <2>1, <2>2, <2>3
  <1> HIDE DEF quotient, x, y, C, Q, e, j
  <1>8. c.mantissa * p[c.exponent + base] = quotient * C
    <2>1. CASE quotient < One
      <3>1. c.mantissa = quotient * 2 /\ c.exponent = e - 1
        BY <1>4, <2>1 DEF Number
      <3>2. (quotient * 2) * p[j - 1] = quotient * (2 * p[j - 1])
        BY <1>3, <1>7
      <3>3. QED
        BY <1>6, <1>7, <3>1, <3>2
    <2>2. CASE ~(quotient < One)
      <3>1. c.mantissa = quotient /\ c.exponent = e
        BY <1>4, <2>2 DEF Number
      <3>2. QED
        BY <3>1 DEF C, j
    <2>3. QED
      BY <2>1, <2>2
  <1>9. IsNumber(c, low - reach - 1, high)
    BY <1>3, <1>4, <1>6 DEF IsNumber, Number
  <1> HIDE DEF c
  <1> DEFINE wc    == quotient * C
             wa    == x * (C * Q)
             wb    == y * Q
             scale == C * Q
  <1>10. x \in Nat /\ y \in Nat /\ scale \in Nat
    BY <1>1, <1>7
  <1>11. wc * wb = (quotient * y) * scale
    BY <1>3, <1>7, <1>10
  <1>12. wa * One = (x * One) * scale
    BY <1>1, <1>7, <1>10
  <1>13. wc * wb <= wa * One
    <2>1. quotient * y \in Nat /\ x * One \in Nat
      BY <1>1, <1>3, <1>10
    <2>2. (quotient * y) * scale <= (x * One) * scale
      BY <1>3, <1>10, <2>1, ProductOrder
    <2>3. QED
      BY <1>11, <1>12, <2>2
  <1>14. (wa * One) * (One - 2) <= (wc * wb) * One
    <2> DEFINE all  == x * One
               kept == quotient * y
    <2>1. all \in Nat /\ kept \in Nat /\ One - 2 \in Nat
      BY <1>1, <1>2, <1>3, <1>10
    <2>2. all * (One - 2) <= kept * One
      BY <1>3
    <2> HIDE DEF scale, all, kept
    <2>3. (all * (One - 2)) * scale <= (kept * One) * scale
      BY <1>1, <1>10, <2>1, <2>2, ProductOrder
    <2>4. (all * (One - 2)) * scale = (all * scale) * (One - 2)
      BY <1>10, <2>1
    <2>5. (kept * One) * scale = (kept * scale) * One
      BY <1>1, <1>10, <2>1
    <2>6. QED
      BY <1>11, <1>12, <2>3, <2>4, <2>5 DEF scale, all, kept
  <1>15. wa \in Nat /\ wb \in Nat /\ wc \in Nat
    BY <1>3, <1>7, <1>10
  <1>16. Weight(c, p, base) = wc /\ Weight(a, p, base) = wa
    BY <1>7, <1>8 DEF Weight, x
  <1>17. QED
    BY <1>9, <1>13, <1>14, <1>15, <1>16 DEF c, y, Q

\* What compares as not less does not stand for less.
LEMMA LessIsLess ==
  ASSUME NEW top \in Nat, NEW p, IsPowers(p, top), WidestBits <= top, NEW base \in Nat,
         NEW low \in Int, NEW high \in Int, 0 <= low + base, high + base <= top,
         NEW a, IsNumber(a, low, high), NEW b, IsNumber(b, low, high), ~less(a, b)
  PROVE  Weight(b, p, base) <= Weight(a, p, base)
  <1> DEFINE i == a.exponent + base
             j == b.exponent + base
  <1>1. /\ One \in Nat \ {0}
        /\ a.mantissa \in One..(2 * One - 1) /\ b.mantissa \in One..(2 * One - 1)
        /\ a.exponent \in low..high /\ b.exponent \in low..high
    BY OneIsPower DEF IsNumber
  <1>2. /\ i \in 0..top /\ j \in 0..top
        /\ i = j <=> a.exponent = b.exponent
        /\ j < i <=> b.exponent < a.exponent
    BY <1>1
  <1>3. j < i \/ (i = j /\ b.mantissa <= a.mantissa)
    BY <1>1, <1>2 DEF less
  <1>4. p[i] \in Nat \ {0} /\ p[j] \in Nat \ {0}
    BY <1>2, PowersStep
  <1>5. CASE j < i
    <2>1. 2 * p[j] <= p[i]
      BY <1>2, <1>5, PowersRise
    <2> HIDE DEF i, j
    <2> DEFINE pi == p[i]
               pj == p[j]
    <2>2. pi \in Nat /\ pj \in Nat /\ 2 * pj <= pi
      BY <1>4, <2>1
    <2> HIDE DEF pi, pj
    <2>3. b.mantissa * pj <= (2 * One) * pj
      BY <1>1, <2>2, ProductOrder
    <2>4. (2 * pj) * One <= pi * One /\ (2 * One) * pj = (2 * pj) * One
      BY <1>1, <2>2, ProductOrder
    <2>5. One * pi <= a.mantissa * pi
      BY <1>1, <2>2, ProductOrder
    <2>6. b.mantissa * pj <= a.mantissa * pi
      <3>1. /\ b.mantissa * pj \in Nat /\ (2 * pj) * One \in Nat
            /\ pi * One \in Nat /\ a.mantissa * pi \in Nat /\ pi * One = One * pi
        BY <1>1, <2>2
      <3>2. QED
        BY <2>3, <2>4, <2>5, <3>1
    <2>7. QED
      BY <2>6 DEF Weight, pi, pj, i, j
  <1>6. CASE i = j /\ b.mantissa <= a.mantissa
    <2>1. b.mantissa * p[j] <= a.mantissa * p[j]
      BY <1>1, <1>4, <1>6, ProductOrder
    <2>2. QED
      BY <1>6, <2>1 DEF Weight
  <1>7. QED
    BY <1>3, <1>5, <1>6

-----------------------------------------------------------------------------
\* What is lost in several steps adds up, in units of 1 / One.

LEMMA CancelFactor ==
  ASSUME NEW a \in Int, NEW b \in Int, NEW n \in Nat \ {0}, a * n <= b * n
  PROVE  a <= b
  <1>1. SUFFICES ASSUME b < a
                 PROVE  FALSE
    OBVIOUS
  <1> DEFINE gap == a - b
  <1>2. gap \in Nat \ {0} /\ gap * n = a * n - b * n /\ a * n \in Int /\ b * n \in Int
    BY <1>1
  <1> HIDE DEF gap
  <1>3. n <= gap * n
    BY <1>2
  <1>4. QED
    BY <1>2, <1>3

LEMMA LossesAdd ==
  ASSUME NEW o \in Nat \ {0}, NEW k \in Nat, NEW j \in Nat, k <= o, j <= o,
         NEW a \in Nat, NEW b \in Nat, NEW c \in Nat,
         a * (o - k) <= b * o, b * (o - j) <= c * o
  PROVE  a * (o - (k + j)) <= c * o
  <1> DEFINE kept == (o - k) * (o - j)
  <1>1. o - k \in Nat /\ o - j \in Nat /\ kept \in Nat
    OBVIOUS
  <1>2. (a * (o - k)) * (o - j) <= (b * o) * (o - j)
    <2>1. a * (o - k) \in Nat /\ b * o \in Nat
      BY <1>1
    <2>2. QED
      BY <1>1, <2>1, ProductOrder
  <1>3. (b * (o - j)) * o <= (c * o) * o
    <2>1. b * (o - j) \in Nat /\ c * o \in Nat
      BY <1>1
    <2>2. QED
      BY <2>1, ProductOrder
  <1>4. (a * (o - k)) * (o - j) = a * kept /\ (b * o) * (o - j) = (b * (o - j)) * o
    BY <1>1
  <1>5. a * kept <= (c * o) * o
    <2>1. a * kept \in Nat /\ (b * (o - j)) * o \in Nat /\ (c * o) * o \in Nat
      BY <1>1
    <2>2. QED
      BY <1>2, <1>3, <1>4, <2>1
  <1>6. kept = o * (o - (k + j)) + k * j
    OBVIOUS
  <1> HIDE DEF kept
  <1> DEFINE rest == o - (k + j)
  <1>7. (a * rest) * o <= a * kept
    <2>1. a * kept = a * (o * rest) + a * (k * j)
      BY <1>6
    <2>2. a * (o * rest) = (a * rest) * o /\ a * (k * j) \in Nat /\ (a * rest) * o \in Int
      OBVIOUS
    <2>3. QED
      BY <2>1, <2>2
  <1>8. (a * rest) * o <= (c * o) * o
    <2>1. a * kept \in Int /\ (a * rest) * o \in Int /\ (c * o) * o \in Int
      BY <1>1
    <2>2. QED
      BY <1>5, <1>7, <2>1
  <1>9. a * rest \in Int /\ c * o \in Int
    OBVIOUS
  <1> HIDE DEF rest
  <1>10. a * rest <= c * o
    BY <1>8, <1>9, CancelFactor
  <1>11. QED
    BY <1>10 DEF rest

\* The weight w is that of n / d, in the unit, but for a loss.
Near(w, n, d, unit, lost) ==
  /\ w * d <= n * unit
  /\ (n * unit) * (One - lost) <= (w * d) * One

LEMMA NearTimes ==
  ASSUME One \in Nat \ {0}, NEW k \in Nat, k <= One,
         NEW w \in Nat, NEW c \in Nat, NEW n \in Nat, NEW d \in Nat, NEW unit \in Nat, NEW v \in Nat,
         Near(w, n, d, unit, k),
         c * One <= w * (v * One), (w * (v * One)) * (One - 1) <= (c * One) * One
  PROVE  Near(c, n * v, d, unit, k + 1)
  <1> DEFINE o == One
  <1>1. o \in Nat \ {0} /\ k <= o
    OBVIOUS
  <1>2. /\ w * d <= n * unit /\ (n * unit) * (o - k) <= (w * d) * o
        /\ c * o <= w * (v * o) /\ (w * (v * o)) * (o - 1) <= (c * o) * o
    BY DEF Near
  <1> HIDE DEF o
  <1>3. c <= w * v
    <2>1. w * (v * o) = (w * v) * o /\ w * v \in Int
      BY <1>1
    <2>2. QED
      BY <1>1, <1>2, <2>1, CancelFactor
  <1>4. (w * v) * (o - 1) <= c * o
    <2>1. (w * (v * o)) * (o - 1) = ((w * v) * (o - 1)) * o
      BY <1>1
    <2>2. (w * v) * (o - 1) \in Int /\ c * o \in Int
      BY <1>1
    <2>3. QED
      BY <1>1, <1>2, <2>1, <2>2, CancelFactor
  <1> DEFINE all == (n * unit) * v
             was == (w * d) * v
             now == c * d
  <1>5. /\ all = (n * v) * unit /\ was = (w * v) * d
        /\ all \in Nat /\ was \in Nat /\ now \in Nat /\ w * v \in Nat
        /\ w * d \in Nat /\ n * unit \in Nat /\ o - k \in Nat /\ o - 1 \in Nat
    BY <1>1
  <1>6. was <= all /\ now <= was
    BY <1>2, <1>3, <1>5, ProductOrder
  <1>7. all * (o - k) <= was * o
    <2>1. ((n * unit) * (o - k)) * v <= ((w * d) * o) * v
      <3>1. (n * unit) * (o - k) \in Nat /\ (w * d) * o \in Nat
        BY <1>1, <1>5
      <3>2. QED
        BY <1>2, <3>1, ProductOrder
    <2>2. ((n * unit) * (o - k)) * v = ((n * unit) * v) * (o - k)
      BY <1>1, <1>5
    <2>3. ((w * d) * o) * v = ((w * d) * v) * o
      BY <1>1, <1>5
    <2>4. QED
      BY <2>1, <2>2, <2>3
  <1>8. was * (o - 1) <= now * o
    <2>1. ((w * v) * (o - 1)) * d <= (c * o) * d
      <3>1. (w * v) * (o - 1) \in Nat /\ c * o \in Nat
        BY <1>1, <1>5
      <3>2. QED
        BY <1>4, <3>1, ProductOrder
    <2>2. ((w * v) * (o - 1)) * d = ((w * v) * d) * (o - 1) /\ (c * o) * d = (c * d) * o
      BY <1>1, <1>5
    <2>3. QED
      BY <1>5, <2>1, <2>2
  <1> HIDE DEF all, was, now
  <1>9. all * (o - (k + 1)) <= now * o
    <2>1. 1 <= o
      BY <1>1
    <2>2. QED
      BY <1>1, <1>5, <1>7, <1>8, <2>1, LossesAdd
  <1>10. now <= all
    BY <1>5, <1>6
  <1>11. QED
    BY <1>5, <1>9, <1>10 DEF Near, all, now, o

LEMMA NearOver ==
  ASSUME One \in Nat, One > 1, NEW k \in Nat, k <= One,
         NEW w \in Nat, NEW c \in Nat, NEW n \in Nat, NEW d \in Nat, NEW unit \in Nat, NEW v \in Nat,
         Near(w, n, d, unit, k),
         c * (v * One) <= w * One, (w * One) * (One - 2) <= (c * (v * One)) * One
  PROVE  Near(c, n, d * v, unit, k + 2)
  <1> DEFINE o == One
  <1>1. o \in Nat \ {0} /\ k <= o /\ 2 <= o
    OBVIOUS
  <1>2. /\ w * d <= n * unit /\ (n * unit) * (o - k) <= (w * d) * o
        /\ c * (v * o) <= w * o /\ (w * o) * (o - 2) <= (c * (v * o)) * o
    BY DEF Near
  <1> HIDE DEF o
  <1>3. c * v <= w
    <2>1. c * (v * o) = (c * v) * o /\ c * v \in Int
      BY <1>1
    <2>2. QED
      BY <1>1, <1>2, <2>1, CancelFactor
  <1>4. w * (o - 2) <= (c * v) * o
    <2>1. (w * o) * (o - 2) = (w * (o - 2)) * o /\ c * (v * o) = (c * v) * o
      BY <1>1
    <2>2. w * (o - 2) \in Int /\ (c * v) * o \in Int
      BY <1>1
    <2>3. QED
      BY <1>1, <1>2, <2>1, <2>2, CancelFactor
  <1> DEFINE all == n * unit
             was == w * d
             now == c * (d * v)
  <1>5. /\ now = (c * v) * d
        /\ all \in Nat /\ was \in Nat /\ now \in Nat /\ c * v \in Nat
        /\ o - 2 \in Nat
    BY <1>1
  <1>6. was <= all /\ now <= was
    BY <1>2, <1>3, <1>5, ProductOrder
  <1>7. was * (o - 2) <= now * o
    <2>1. (w * (o - 2)) * d <= ((c * v) * o) * d
      <3>1. w * (o - 2) \in Nat /\ (c * v) * o \in Nat
        BY <1>1, <1>5
      <3>2. QED
        BY <1>4, <3>1, ProductOrder
    <2>2. (w * (o - 2)) * d = (w * d) * (o - 2) /\ ((c * v) * o) * d = ((c * v) * d) * o
      BY <1>1, <1>5
    <2>3. QED
      BY <1>5, <2>1, <2>2
  <1>8. all * (o - k) <= was * o
    BY <1>2
  <1> HIDE DEF all, was, now
  <1>9. all * (o - (k + 2)) <= now * o
    BY <1>1, <1>5, <1>7, <1>8, LossesAdd
  <1>10. now <= all
    BY <1>5, <1>6
  <1>11. QED
    BY <1>9, <1>10 DEF Near, all, now, o

-----------------------------------------------------------------------------
(* The numbers that the test compares.                                      *)

LEMMA ProductRounds ==
  ASSUME NEW numerators, Len(numerators) \in Nat
  PROVE  /\ Product(numerators)[0] = from_u128(1)
         /\ \A n \in 0..(Len(numerators) - 1) :
              Product(numerators)[n + 1]
                = multiply(Product(numerators)[n], from_u128(numerators[n + 1]))
  <1> DEFINE m     == Len(numerators)
             first == from_u128(1)
             loop  == Product(numerators)
             S(w, n) == multiply(w, from_u128(numerators[n]))
  <1>1. \A w, n : Round("product", numerators, w, n) = S(w, n)
    BY DEF Round
  <1> HIDE DEF S, first
  <1>2. \E g : g = [n \in 0..m |-> IF n = 0 THEN first ELSE S(g[n - 1], n)]
    <2>1. PICK g : Follows(g, "product", numerators, first, m)
      BY WalkExists
    <2>2. g = [n \in 0..m |-> IF n = 0 THEN first ELSE S(g[n - 1], n)]
      BY <1>1, <2>1 DEF Follows
    <2>3. QED
      BY <2>2
  <1>3. loop = [n \in 0..m |-> IF n = 0 THEN first ELSE S(loop[n - 1], n)]
    BY <1>2 DEF Product, S, first
  <1> HIDE DEF loop
  <1>4. loop[0] = first
    BY <1>3
  <1>5. ASSUME NEW n \in 0..(m - 1)
        PROVE  loop[n + 1] = S(loop[n], n + 1)
    <2>1. n + 1 \in 0..m /\ n + 1 # 0 /\ (n + 1) - 1 = n
      OBVIOUS
    <2>2. QED
      BY <1>3, <2>1
  <1>6. QED
    BY <1>4, <1>5 DEF loop, first, S

LEMMA RatioRounds ==
  ASSUME NEW value, NEW denominators, Len(denominators) \in Nat
  PROVE  /\ Ratio(value, denominators)[0] = value
         /\ \A n \in 0..(Len(denominators) - 1) :
              Ratio(value, denominators)[n + 1]
                = divide(Ratio(value, denominators)[n], from_u128(denominators[n + 1]))
  <1> DEFINE m     == Len(denominators)
             loop  == Ratio(value, denominators)
             S(w, n) == divide(w, from_u128(denominators[n]))
  <1>1. \A w, n : Round("ratio", denominators, w, n) = S(w, n)
    BY DEF Round
  <1> HIDE DEF S
  <1>2. \E g : g = [n \in 0..m |-> IF n = 0 THEN value ELSE S(g[n - 1], n)]
    <2>1. PICK g : Follows(g, "ratio", denominators, value, m)
      BY WalkExists
    <2>2. g = [n \in 0..m |-> IF n = 0 THEN value ELSE S(g[n - 1], n)]
      BY <1>1, <2>1 DEF Follows
    <2>3. QED
      BY <2>2
  <1>3. loop = [n \in 0..m |-> IF n = 0 THEN value ELSE S(loop[n - 1], n)]
    BY <1>2 DEF Ratio, S
  <1> HIDE DEF loop
  <1>4. loop[0] = value
    BY <1>3
  <1>5. ASSUME NEW n \in 0..(m - 1)
        PROVE  loop[n + 1] = S(loop[n], n + 1)
    <2>1. n + 1 \in 0..m /\ n + 1 # 0 /\ (n + 1) - 1 = n
      OBVIOUS
    <2>2. QED
      BY <1>3, <2>1
  <1>6. QED
    BY <1>4, <1>5 DEF loop, S

\* The loops over four numerators and two denominators.
LEMMA RatioOfSix ==
  ASSUME NEW f1, NEW f2, NEW f3, NEW f4, NEW d1, NEW d2
  PROVE  normalized_product_ratio(<<f1, f2, f3, f4>>, <<d1, d2>>) =
           divide(divide(
             multiply(multiply(multiply(multiply(from_u128(1), from_u128(f1)), from_u128(f2)),
                               from_u128(f3)), from_u128(f4)),
             from_u128(d1)), from_u128(d2))
  <1> DEFINE numerators   == <<f1, f2, f3, f4>>
             denominators == <<d1, d2>>
             value        == Product(numerators)[4]
  <1>1. /\ Len(numerators) = 4 /\ numerators[1] = f1 /\ numerators[2] = f2
        /\ numerators[3] = f3 /\ numerators[4] = f4
        /\ Len(denominators) = 2 /\ denominators[1] = d1 /\ denominators[2] = d2
    OBVIOUS
  <1>2. normalized_product_ratio(numerators, denominators) = Ratio(value, denominators)[2]
    BY <1>1 DEF normalized_product_ratio
  <1> HIDE DEF numerators, denominators
  <1> DEFINE g == Product(numerators)
             h == Ratio(value, denominators)
  <1>3. /\ g[0] = from_u128(1)
        /\ g[1] = multiply(g[0], from_u128(f1)) /\ g[2] = multiply(g[1], from_u128(f2))
        /\ g[3] = multiply(g[2], from_u128(f3)) /\ g[4] = multiply(g[3], from_u128(f4))
    <2>1. /\ g[0] = from_u128(1)
          /\ \A n \in 0..3 : g[n + 1] = multiply(g[n], from_u128(numerators[n + 1]))
      BY <1>1, ProductRounds
    <2> HIDE DEF g
    <2>2. QED
      BY <1>1, <2>1
  <1>4. /\ h[0] = g[4]
        /\ h[1] = divide(h[0], from_u128(d1)) /\ h[2] = divide(h[1], from_u128(d2))
    <2>1. value = g[4]
      OBVIOUS
    <2> HIDE DEF value, g
    <2>2. /\ h[0] = value
          /\ \A n \in 0..(Len(denominators) - 1) :
               h[n + 1] = divide(h[n], from_u128(denominators[n + 1]))
      BY <1>1, RatioRounds
    <2> HIDE DEF h
    <2>3. QED
      BY <1>1, <2>1, <2>2
  <1>5. normalized_product_ratio(numerators, denominators) = h[2]
    BY <1>2
  <1> HIDE DEF g, h
  <1>6. QED
    BY <1>3, <1>4, <1>5 DEF numerators, denominators

\* A factor that fits a mantissa costs one unit, a divisor two.
LEMMA TimesFactor ==
  ASSUME NEW top \in Nat, NEW p, IsPowers(p, top), WidestBits <= top, NEW base \in Nat,
         NEW low \in Int, NEW high \in Int, 0 <= low + base, high + WidestBits + base <= top,
         NEW a, IsNumber(a, low, high), Weight(a, p, base) \in Nat,
         NEW k \in Nat, k <= One, NEW n \in Nat, NEW d \in Nat, NEW unit \in Nat,
         Near(Weight(a, p, base), n, d, unit, k),
         NEW v \in 1..(2 * One - 1)
  PROVE  LET c == multiply(a, from_u128(v))
         IN  /\ IsNumber(c, low, high + WidestBits) /\ Weight(c, p, base) \in Nat
             /\ Near(Weight(c, p, base), n * v, d, unit, k + 1)
  <1> DEFINE b == from_u128(v)
             c == multiply(a, b)
             reach == WidestBits - 1
  <1>1. /\ One \in Nat \ {0} /\ v \in Nat \ {0} /\ v < 2 * One /\ v < PowerOf2[WidestBits]
        /\ reach \in Nat /\ WidestBits \in Nat
    <2>1. /\ One \in Nat \ {0} /\ 2 * One = p[MantissaBits] /\ MantissaBits \in 0..top
          /\ PowerOf2[WidestBits] = p[WidestBits] /\ p[WidestBits] \in Nat /\ p[MantissaBits] \in Nat
          /\ WidestBits \in Nat \ {0}
      BY OneIsPower, PowersStep, MantissaAssumption
    <2>2. p[MantissaBits] <= p[WidestBits]
      BY <2>1, PowersRise, MantissaAssumption
    <2>3. QED
      BY <2>1, <2>2
  <1>2. IsNumber(b, 0, reach) /\ b.mantissa * p[b.exponent] = v * One
    BY <1>1, FromIsClose
  <1>3. high + reach + 1 = high + WidestBits
    BY <1>1
  <1> HIDE DEF b
  <1> DEFINE wc == Weight(c, p, base)
             wa == Weight(a, p, base)
             wb == b.mantissa * p[b.exponent]
  <1>4. /\ IsNumber(c, low, high + reach + 1)
        /\ wc \in Nat /\ wa \in Nat /\ wb \in Nat
        /\ wc * One <= wa * wb
        /\ (wa * wb) * (One - 1) <= (wc * One) * One
    <2>1. high + reach + 1 + base <= top
      BY <1>1
    <2> HIDE DEF reach
    <2>2. QED
      BY <1>1, <1>2, <2>1, MultiplyIsClose
  <1> HIDE DEF wc, wa, c, reach
  <1>5. Near(wc, n * v, d, unit, k + 1)
    <2>1. wc * One <= wa * (v * One) /\ (wa * (v * One)) * (One - 1) <= (wc * One) * One
      BY <1>2, <1>4
    <2>2. Near(wa, n, d, unit, k)
      BY DEF wa
    <2>3. v \in Nat
      BY <1>1
    <2>4. QED
      BY <1>1, <1>4, <2>1, <2>2, <2>3, NearTimes
  <1>6. QED
    BY <1>3, <1>4, <1>5 DEF wc, c, b

LEMMA OverDivisor ==
  ASSUME NEW top \in Nat, NEW p, IsPowers(p, top), WidestBits <= top, NEW base \in Nat,
         MantissaBits > 1,
         NEW low \in Int, NEW high \in Int, WidestBits <= low + base, high + base <= top,
         NEW a, IsNumber(a, low, high), Weight(a, p, base) \in Nat,
         NEW k \in Nat, k <= One, NEW n \in Nat, NEW d \in Nat, NEW unit \in Nat,
         Near(Weight(a, p, base), n, d, unit, k),
         NEW v \in 1..(2 * One - 1)
  PROVE  LET c == divide(a, from_u128(v))
         IN  /\ IsNumber(c, low - WidestBits, high) /\ Weight(c, p, base) \in Nat
             /\ Near(Weight(c, p, base), n, d * v, unit, k + 2)
  <1> DEFINE b == from_u128(v)
             c == divide(a, b)
             reach == WidestBits - 1
  <1>1. /\ One \in Nat \ {0} /\ v \in Nat \ {0} /\ v < 2 * One /\ v < PowerOf2[WidestBits]
        /\ reach \in Nat /\ WidestBits \in Nat /\ One > 1
    <2>1. /\ One \in Nat \ {0} /\ 2 * One = p[MantissaBits] /\ MantissaBits \in 0..top
          /\ MantissaBits - 1 \in 0..top /\ One = p[MantissaBits - 1] /\ p[0] = 1
          /\ PowerOf2[WidestBits] = p[WidestBits] /\ p[WidestBits] \in Nat /\ p[MantissaBits] \in Nat
          /\ WidestBits \in Nat \ {0}
      BY OneIsPower, PowersStep, MantissaAssumption
    <2>2. p[MantissaBits] <= p[WidestBits]
      BY <2>1, PowersRise, MantissaAssumption
    <2>3. 2 * p[0] <= p[MantissaBits - 1]
      <3>1. 0 < MantissaBits - 1 /\ 0 \in 0..top
        BY MantissaAssumption
      <3>2. QED
        BY <2>1, <3>1, PowersRise
    <2>4. QED
      BY <2>1, <2>2, <2>3
  <1>2. IsNumber(b, 0, reach) /\ b.mantissa * p[b.exponent] = v * One
    BY <1>1, FromIsClose
  <1>3. low - reach - 1 = low - WidestBits /\ reach + 1 <= low + base
    BY <1>1
  <1> HIDE DEF b, reach
  <1> DEFINE wc == Weight(c, p, base)
             wa == Weight(a, p, base)
             wb == b.mantissa * p[b.exponent]
  <1>4. /\ IsNumber(c, low - reach - 1, high)
        /\ wc \in Nat /\ wa \in Nat /\ wb \in Nat
        /\ wc * wb <= wa * One
        /\ (wa * One) * (One - 2) <= (wc * wb) * One
    BY <1>1, <1>2, <1>3, DivideIsClose
  <1> HIDE DEF wc, wa, c
  <1>5. Near(wc, n, d * v, unit, k + 2)
    <2>1. wc * (v * One) <= wa * One /\ (wa * One) * (One - 2) <= (wc * (v * One)) * One
      BY <1>2, <1>4
    <2>2. Near(wa, n, d, unit, k)
      BY DEF wa
    <2>3. v \in Nat /\ One \in Nat
      BY <1>1
    <2>4. QED
      BY <1>1, <1>4, <2>1, <2>2, <2>3, NearOver
  <1>6. QED
    BY <1>3, <1>4, <1>5 DEF wc, c, b

LEMMA WeightOfFactor ==
  ASSUME NEW top \in Nat, NEW p, IsPowers(p, top), WidestBits <= top, NEW base \in Nat,
         WidestBits + base <= top,
         NEW a, IsNumber(a, 0, WidestBits - 1)
  PROVE  /\ Weight(a, p, base) = (a.mantissa * p[a.exponent]) * p[base]
         /\ a.mantissa * p[a.exponent] \in Nat /\ p[base] \in Nat
  <1>1. /\ a.exponent \in 0..top /\ base \in 0..top /\ a.exponent + base <= top
        /\ a.mantissa \in Nat
    BY OneIsPower, MantissaAssumption DEF IsNumber
  <1>2. p[a.exponent + base] = p[a.exponent] * p[base]
    BY <1>1, PowersMultiply
  <1>3. p[a.exponent] \in Nat /\ p[base] \in Nat
    BY <1>1, PowersStep
  <1>4. a.mantissa * (p[a.exponent] * p[base]) = (a.mantissa * p[a.exponent]) * p[base]
    BY <1>1, <1>3
  <1>5. QED
    BY <1>1, <1>2, <1>3, <1>4 DEF Weight

\* The ratio loses at most four units by its products and four by its quotients.
LEMMA RatioIsClose ==
  ASSUME NEW p, IsPowers(p, 8 * WidestBits), One >= 8, MantissaBits > 1,
         NEW f1 \in 1..(2 * One - 1), NEW f2 \in 1..(2 * One - 1),
         NEW f3 \in 1..(2 * One - 1), NEW f4 \in 1..(2 * One - 1),
         NEW d1 \in 1..(2 * One - 1), NEW d2 \in 1..(2 * One - 1)
  PROVE  LET c    == normalized_product_ratio(<<f1, f2, f3, f4>>, <<d1, d2>>)
             base == 2 * WidestBits
         IN  /\ IsNumber(c, -base, 5 * WidestBits) /\ Weight(c, p, base) \in Nat
             /\ Near(Weight(c, p, base), f1 * f2 * f3 * f4, d1 * d2, One * p[base], 8)
  <1> DEFINE E    == WidestBits
             top  == 8 * E
             base == 2 * E
             unit == One * p[base]
             c0   == from_u128(1)
             c1   == multiply(c0, from_u128(f1))
             c2   == multiply(c1, from_u128(f2))
             c3   == multiply(c2, from_u128(f3))
             c4   == multiply(c3, from_u128(f4))
             c5   == divide(c4, from_u128(d1))
             c6   == divide(c5, from_u128(d2))
             W(c) == Weight(c, p, base)
  <1>1. /\ E \in Nat \ {0} /\ top \in Nat /\ E <= top /\ base \in Nat /\ base \in 0..top
        /\ E + base <= top
    BY MantissaAssumption
  <1>2. One \in Nat \ {0} /\ p[base] \in Nat \ {0} /\ unit \in Nat /\ p[0] = 1
    <2>1. One \in Nat \ {0}
      BY <1>1, OneIsPower
    <2>2. p[base] \in Nat \ {0} /\ p[0] = 1
      BY <1>1, PowersStep
    <2>3. QED
      BY <2>1, <2>2
  <1>3. normalized_product_ratio(<<f1, f2, f3, f4>>, <<d1, d2>>) = c6
    BY RatioOfSix
  <1>4. /\ IsNumber(c0, 0, E) /\ W(c0) \in Nat
        /\ Near(W(c0), 1, 1, unit, 0)
    <2>1. 1 < PowerOf2[E] /\ 1 < 2 * One
      <3>1. E \in 0..top /\ 0 \in 0..top /\ 0 < E
        BY <1>1
      <3>2. 2 * p[0] <= p[E] /\ PowerOf2[E] = p[E] /\ p[E] \in Nat
        BY <1>1, <3>1, PowersRise, OneIsPower, PowersStep
      <3>3. QED
        BY <1>2, <3>2
    <2>2. /\ IsNumber(c0, 0, E - 1)
          /\ c0.mantissa * p[c0.exponent] = 1 * One
      BY <1>1, <2>1, FromIsClose
    <2>3. W(c0) = (c0.mantissa * p[c0.exponent]) * p[base]
      BY <1>1, <2>2, WeightOfFactor
    <2>4. W(c0) = unit
      BY <1>2, <2>2, <2>3
    <2>5. IsNumber(c0, 0, E)
      BY <1>1, <2>2 DEF IsNumber
    <2> HIDE DEF c0, unit
    <2>6. unit * 1 = unit /\ 1 * unit = unit /\ One - 0 = One
      BY <1>2
    <2>7. Near(unit, 1, 1, unit, 0)
      BY <1>2, <2>6 DEF Near
    <2>8. QED
      BY <1>2, <2>4, <2>5, <2>7
  <1> DEFINE g1 == 1 * f1
             g2 == g1 * f2
             g3 == g2 * f3
             g4 == g3 * f4
             h1 == 1 * d1
             h2 == h1 * d2
  <1>5. /\ g1 \in Nat /\ g2 \in Nat /\ g3 \in Nat /\ g4 \in Nat /\ h1 \in Nat /\ h2 \in Nat
        /\ g4 = f1 * f2 * f3 * f4 /\ h2 = d1 * d2
    <2>1. f1 \in Nat /\ f2 \in Nat /\ f3 \in Nat /\ f4 \in Nat /\ d1 \in Nat /\ d2 \in Nat
      BY <1>2
    <2>2. g1 = f1 /\ g1 \in Nat /\ h1 = d1 /\ h1 \in Nat /\ h2 \in Nat
      BY <2>1
    <2>3. g2 \in Nat
      BY <2>1, <2>2
    <2>4. g3 \in Nat
      BY <2>1, <2>3
    <2>5. g4 \in Nat
      BY <2>1, <2>4
    <2>6. QED
      BY <2>2, <2>3, <2>4, <2>5
  <1> HIDE DEF unit, g1, g2, g3, g4, h1, h2, top, base, W, c0, c1, c2, c3, c4, c5, c6, E
  <1>6. /\ IsNumber(c1, 0, 2 * E) /\ W(c1) \in Nat /\ Near(W(c1), g1, 1, unit, 1)
    <2>1. IsNumber(c1, 0, E + E) /\ W(c1) \in Nat /\ Near(W(c1), 1 * f1, 1, unit, 0 + 1)
      <3>1. /\ 0 \in Int /\ E \in Int /\ 0 <= 0 + base /\ E + E + base <= top
            /\ 0 <= One /\ 1 \in Nat /\ 0 \in Nat
        BY <1>1, <1>2 DEF top, base
      <3>2. IsNumber(multiply(c0, from_u128(f1)), 0, E + E)
            /\ Weight(multiply(c0, from_u128(f1)), p, base) \in Nat
            /\ Near(Weight(multiply(c0, from_u128(f1)), p, base), 1 * f1, 1, unit, 0 + 1)
        BY <1>1, <1>2, <1>4, <3>1, TimesFactor DEF W, top, E
      <3>3. QED
        BY <3>2 DEF W, c1
    <2>2. E + E = 2 * E /\ 0 + 1 = 1
      BY <1>1
    <2>3. QED
      BY <2>1, <2>2 DEF g1
  <1>7. /\ IsNumber(c2, 0, 3 * E) /\ W(c2) \in Nat /\ Near(W(c2), g2, 1, unit, 2)
    <2>1. IsNumber(c2, 0, 2 * E + E) /\ W(c2) \in Nat /\ Near(W(c2), g1 * f2, 1, unit, 1 + 1)
      <3>1. /\ 0 \in Int /\ 2 * E \in Int /\ 0 <= 0 + base /\ 2 * E + E + base <= top
            /\ 1 <= One /\ 1 \in Nat
        BY <1>1, <1>2 DEF top, base
      <3>2. IsNumber(multiply(c1, from_u128(f2)), 0, 2 * E + E)
            /\ Weight(multiply(c1, from_u128(f2)), p, base) \in Nat
            /\ Near(Weight(multiply(c1, from_u128(f2)), p, base), g1 * f2, 1, unit, 1 + 1)
        BY <1>1, <1>2, <1>5, <1>6, <3>1, TimesFactor DEF W, top, E
      <3>3. QED
        BY <3>2 DEF W, c2
    <2>2. 2 * E + E = 3 * E /\ 1 + 1 = 2
      BY <1>1
    <2>3. QED
      BY <2>1, <2>2 DEF g2
  <1>8. /\ IsNumber(c3, 0, 4 * E) /\ W(c3) \in Nat /\ Near(W(c3), g3, 1, unit, 3)
    <2>1. IsNumber(c3, 0, 3 * E + E) /\ W(c3) \in Nat /\ Near(W(c3), g2 * f3, 1, unit, 2 + 1)
      <3>1. /\ 0 \in Int /\ 3 * E \in Int /\ 0 <= 0 + base /\ 3 * E + E + base <= top
            /\ 2 <= One /\ 1 \in Nat /\ 2 \in Nat
        BY <1>1, <1>2 DEF top, base
      <3>2. IsNumber(multiply(c2, from_u128(f3)), 0, 3 * E + E)
            /\ Weight(multiply(c2, from_u128(f3)), p, base) \in Nat
            /\ Near(Weight(multiply(c2, from_u128(f3)), p, base), g2 * f3, 1, unit, 2 + 1)
        BY <1>1, <1>2, <1>5, <1>7, <3>1, TimesFactor DEF W, top, E
      <3>3. QED
        BY <3>2 DEF W, c3
    <2>2. 3 * E + E = 4 * E /\ 2 + 1 = 3
      BY <1>1
    <2>3. QED
      BY <2>1, <2>2 DEF g3
  <1>9. /\ IsNumber(c4, 0, 5 * E) /\ W(c4) \in Nat /\ Near(W(c4), g4, 1, unit, 4)
    <2>1. IsNumber(c4, 0, 4 * E + E) /\ W(c4) \in Nat /\ Near(W(c4), g3 * f4, 1, unit, 3 + 1)
      <3>1. /\ 0 \in Int /\ 4 * E \in Int /\ 0 <= 0 + base /\ 4 * E + E + base <= top
            /\ 3 <= One /\ 1 \in Nat /\ 3 \in Nat
        BY <1>1, <1>2 DEF top, base
      <3>2. IsNumber(multiply(c3, from_u128(f4)), 0, 4 * E + E)
            /\ Weight(multiply(c3, from_u128(f4)), p, base) \in Nat
            /\ Near(Weight(multiply(c3, from_u128(f4)), p, base), g3 * f4, 1, unit, 3 + 1)
        BY <1>1, <1>2, <1>5, <1>8, <3>1, TimesFactor DEF W, top, E
      <3>3. QED
        BY <3>2 DEF W, c4
    <2>2. 4 * E + E = 5 * E /\ 3 + 1 = 4
      BY <1>1
    <2>3. QED
      BY <2>1, <2>2 DEF g4
  <1>10. /\ IsNumber(c5, -E, 5 * E) /\ W(c5) \in Nat /\ Near(W(c5), g4, h1, unit, 6)
    <2>1. IsNumber(c5, 0 - E, 5 * E) /\ W(c5) \in Nat /\ Near(W(c5), g4, 1 * d1, unit, 4 + 2)
      <3>1. /\ 0 \in Int /\ 5 * E \in Int /\ E <= 0 + base /\ 5 * E + base <= top
            /\ 4 <= One /\ 1 \in Nat /\ 4 \in Nat
        BY <1>1, <1>2 DEF top, base
      <3>2. IsNumber(divide(c4, from_u128(d1)), 0 - E, 5 * E)
            /\ Weight(divide(c4, from_u128(d1)), p, base) \in Nat
            /\ Near(Weight(divide(c4, from_u128(d1)), p, base), g4, 1 * d1, unit, 4 + 2)
        BY <1>1, <1>2, <1>5, <1>9, <3>1, OverDivisor DEF W, top, E
      <3>3. QED
        BY <3>2 DEF W, c5
    <2>2. 0 - E = -E /\ 4 + 2 = 6
      BY <1>1
    <2>3. QED
      BY <2>1, <2>2 DEF h1
  <1>11. /\ IsNumber(c6, -base, 5 * E) /\ W(c6) \in Nat /\ Near(W(c6), g4, h2, unit, 8)
    <2> DEFINE low == -E
    <2>1. /\ low \in Int /\ 5 * E \in Int /\ E <= low + base /\ 5 * E + base <= top
          /\ 6 <= One /\ 6 \in Nat /\ low - E = -base
      BY <1>1, <1>2 DEF top, base
    <2>2. IsNumber(c5, low, 5 * E)
      BY <1>10
    <2> HIDE DEF low
    <2>3. /\ IsNumber(divide(c5, from_u128(d2)), low - E, 5 * E)
          /\ Weight(divide(c5, from_u128(d2)), p, base) \in Nat
          /\ Near(Weight(divide(c5, from_u128(d2)), p, base), g4, h1 * d2, unit, 6 + 2)
      BY <1>1, <1>2, <1>5, <1>10, <2>1, <2>2, OverDivisor DEF W, top, E
    <2>4. 6 + 2 = 8
      OBVIOUS
    <2>5. QED
      BY <2>1, <2>3, <2>4 DEF W, c6, h2
  <1>12. Near(W(c6), f1 * f2 * f3 * f4, d1 * d2, unit, 8)
    BY <1>5, <1>11
  <1>13. QED
    BY <1>3, <1>11, <1>12 DEF W, E, base, unit

LEMMA SquareLosses ==
  ASSUME NEW o \in Nat \ {0}, 3 <= o,
         NEW v \in Nat, NEW m \in Nat, NEW s \in Nat, NEW w \in Nat,
         m <= v * o, v * (o - 1) <= m,
         w * o <= (m * s) * m, ((m * s) * m) * (o - 1) <= (w * o) * o
  PROVE  w <= (v * v) * (o * s) /\ ((v * v) * (o * s)) * (o - 3) <= w * o
  <1> DEFINE vo  == v * o
             all == (vo * s) * vo
             one == (vo * s) * m
             two == (m * s) * m
             x   == (v * v) * (o * s)
  <1>1. /\ vo \in Nat /\ o - 1 \in Nat /\ vo * s \in Nat /\ m * s \in Nat /\ w * o \in Nat
        /\ all \in Nat /\ one \in Nat /\ two \in Nat /\ x \in Nat
    OBVIOUS
  <1>2. two <= one /\ one <= all
    <2>1. m * (m * s) <= vo * (m * s)
      BY <1>1, ProductOrder
    <2>2. m * (vo * s) <= vo * (vo * s)
      BY <1>1, ProductOrder
    <2>3. /\ m * (m * s) = two /\ vo * (m * s) = one
          /\ m * (vo * s) = one /\ vo * (vo * s) = all
      <3> HIDE DEF vo
      <3>1. QED
        BY <1>1
    <2>4. QED
      BY <2>1, <2>2, <2>3
  <1>3. all = x * o
    OBVIOUS
  <1>4. vo * (o - 1) <= m * o
    <2>1. (v * (o - 1)) * o <= m * o
      <3>1. v * (o - 1) \in Nat
        BY <1>1
      <3>2. QED
        BY <3>1, ProductOrder
    <2>2. (v * (o - 1)) * o = (v * o) * (o - 1)
      BY <1>1
    <2>3. QED
      BY <2>1, <2>2
  <1> HIDE DEF vo
  <1>5. all * (o - 1) <= one * o
    <2>1. (vo * (o - 1)) * (vo * s) <= (m * o) * (vo * s)
      <3>1. vo * (o - 1) \in Nat /\ m * o \in Nat
        BY <1>1
      <3>2. QED
        BY <1>1, <1>4, <3>1, ProductOrder
    <2>2. (vo * (o - 1)) * (vo * s) = all * (o - 1) /\ (m * o) * (vo * s) = one * o
      BY <1>1
    <2>3. QED
      BY <2>1, <2>2
  <1>6. one * (o - 1) <= two * o
    <2>1. (vo * (o - 1)) * (m * s) <= (m * o) * (m * s)
      <3>1. vo * (o - 1) \in Nat /\ m * o \in Nat
        BY <1>1
      <3>2. QED
        BY <1>1, <1>4, <3>1, ProductOrder
    <2>2. (vo * (o - 1)) * (m * s) = one * (o - 1) /\ (m * o) * (m * s) = two * o
      BY <1>1
    <2>3. QED
      BY <2>1, <2>2
  <1>7. two * (o - 1) <= (w * o) * o
    OBVIOUS
  <1>8. w <= x
    <2>1. w * o <= x * o
      BY <1>1, <1>2, <1>3
    <2> HIDE DEF x
    <2>2. QED
      BY <1>1, <2>1, CancelFactor
  <1> HIDE DEF all, one, two, x
  <1>9. all * (o - (1 + 1)) <= two * o
    BY <1>1, <1>5, <1>6, LossesAdd
  <1>10. all * (o - ((1 + 1) + 1)) <= (w * o) * o
    <2> DEFINE wo == w * o
    <2>1. wo \in Nat /\ two * (o - 1) <= wo * o /\ 1 + 1 \in Nat /\ 1 + 1 <= o
      BY <1>1, <1>7
    <2> HIDE DEF wo
    <2>2. all * (o - ((1 + 1) + 1)) <= wo * o
      BY <1>1, <1>9, <2>1, LossesAdd
    <2>3. QED
      BY <2>2 DEF wo
  <1>11. x * (o - 3) <= w * o
    <2>1. all * (o - 3) = (x * (o - 3)) * o /\ x * (o - 3) \in Int
      BY <1>1, <1>3
    <2>2. (x * (o - 3)) * o <= (w * o) * o
      BY <1>10, <2>1
    <2>3. QED
      BY <1>1, <2>1, <2>2, CancelFactor
  <1>12. QED
    BY <1>8, <1>11 DEF x

\* The square of a root that is longer than a mantissa loses three units.
LEMMA SquareIsClose ==
  ASSUME NEW p, IsPowers(p, 8 * WidestBits), One >= 8,
         NEW value \in Nat \ {0}, value < PowerOf2[WidestBits]
  PROVE  LET s    == normalized_square(value)
             base == 2 * WidestBits
             unit == One * p[base]
         IN  /\ IsNumber(s, -base, 5 * WidestBits) /\ Weight(s, p, base) \in Nat
             /\ Weight(s, p, base) <= (value * value) * unit
             /\ ((value * value) * unit) * (One - 3) <= Weight(s, p, base) * One
  <1> DEFINE E    == WidestBits
             top  == 8 * E
             base == 2 * E
             a    == from_u128(value)
             s    == multiply(a, a)
             m    == a.mantissa * p[a.exponent]
             w    == Weight(s, p, base)
  <1>1. /\ E \in Nat \ {0} /\ top \in Nat /\ E <= top /\ base \in Nat /\ base \in 0..top
        /\ E + base <= top /\ E - 1 \in Nat
    BY MantissaAssumption
  <1>2. One \in Nat \ {0} /\ p[base] \in Nat
    BY <1>1, OneIsPower, PowersStep
  <1>3. /\ IsNumber(a, 0, E - 1)
        /\ m <= value * One /\ value * (One - 1) <= m
    BY <1>1, FromIsClose
  <1>4. Weight(a, p, base) = m * p[base] /\ m \in Nat
    <2> HIDE DEF a, E, top, base
    <2>1. Weight(a, p, base) = (a.mantissa * p[a.exponent]) * p[base]
          /\ a.mantissa * p[a.exponent] \in Nat
      BY <1>1, <1>3, WeightOfFactor DEF E, top
    <2>2. QED
      BY <2>1
  <1>5. /\ IsNumber(s, 0, (E - 1) + (E - 1) + 1)
        /\ w \in Nat
        /\ w * One <= (m * p[base]) * m
        /\ ((m * p[base]) * m) * (One - 1) <= (w * One) * One
    <2> DEFINE high == E - 1
    <2>1. 0 \in Int /\ high \in Int /\ high \in Nat /\ 0 <= 0 + base /\ high + high + 1 + base <= top
      BY <1>1
    <2>2. IsNumber(a, 0, high)
      BY <1>3
    <2> HIDE DEF a, high
    <2>3. /\ IsNumber(s, 0, high + high + 1)
          /\ Weight(s, p, base) \in Nat
          /\ Weight(s, p, base) * One <= Weight(a, p, base) * m
          /\ (Weight(a, p, base) * m) * (One - 1) <= (Weight(s, p, base) * One) * One
      BY <1>1, <2>1, <2>2, MultiplyIsClose
    <2>4. QED
      BY <1>4, <2>3 DEF high
  <1>6. IsNumber(s, -base, 5 * E)
    BY <1>1, <1>5 DEF IsNumber
  <1> HIDE DEF m, w, s, base
  <1>7. w <= (value * value) * (One * p[base])
        /\ ((value * value) * (One * p[base])) * (One - 3) <= w * One
    <2>1. 3 <= One /\ value \in Nat
      BY <1>2
    <2>2. QED
      BY <1>2, <1>3, <1>4, <1>5, <2>1, SquareLosses
  <1>8. normalized_square(value) = s
    BY DEF normalized_square, s
  <1>9. QED
    BY <1>5, <1>6, <1>7, <1>8 DEF w, base

-----------------------------------------------------------------------------
(* The margin is enough.                                                    *)

\* A ratio that has lost eight units is still above a root less the margin, if the
\* root is at most an eighth of the units that the margin has.
LEMMA AboveTheLowerRoot ==
  ASSUME NEW o \in Nat \ {0}, 8 <= o, NEW margin \in Nat \ {0},
         NEW n \in Nat, NEW d \in Nat \ {0}, NEW unit \in Nat \ {0}, NEW w \in Nat,
         NEW lower \in Nat, lower > margin, 8 * lower <= margin * o,
         lower * lower * d <= n, (n * unit) * (o - 8) <= (w * d) * o,
         w <= ((lower - margin) * (lower - margin)) * unit
  PROVE  FALSE
  <1> DEFINE l     == lower - margin
             scale == d * unit
  <1>1. l \in Nat /\ scale \in Nat \ {0} /\ o - 8 \in Nat /\ lower * lower \in Nat /\ l * l \in Nat
    OBVIOUS
  <1>2. ((lower * lower) * (o - 8)) * scale <= (n * unit) * (o - 8)
    <2> DEFINE square == lower * lower
    <2>1. square \in Nat /\ square * d <= n /\ square * d \in Nat
      OBVIOUS
    <2> HIDE DEF square
    <2>2. (square * d) * unit <= n * unit
      BY <2>1, ProductOrder
    <2>3. ((square * d) * unit) * (o - 8) <= (n * unit) * (o - 8)
      <3>1. (square * d) * unit \in Nat /\ n * unit \in Nat
        BY <2>1
      <3>2. QED
        BY <1>1, <2>2, <3>1, ProductOrder
    <2>4. ((square * d) * unit) * (o - 8) = (square * (o - 8)) * (d * unit)
      BY <1>1, <2>1
    <2>5. QED
      BY <2>3, <2>4 DEF square
  <1>3. (w * d) * o <= ((l * l) * o) * scale
    <2> DEFINE square == l * l
    <2>1. square \in Nat /\ w <= square * unit /\ square * unit \in Nat
      BY <1>1
    <2> HIDE DEF square
    <2>2. w * (d * o) <= (square * unit) * (d * o)
      BY <2>1, ProductOrder
    <2>3. w * (d * o) = (w * d) * o /\ (square * unit) * (d * o) = (square * o) * (d * unit)
      BY <2>1
    <2>4. QED
      BY <2>2, <2>3 DEF square
  <1>4. (lower * lower) * (o - 8) <= (l * l) * o
    <2> DEFINE left  == (lower * lower) * (o - 8)
               right == (l * l) * o
    <2>1. left \in Nat /\ right \in Nat
      BY <1>1
    <2>2. left * scale <= right * scale
      <3>1. left * scale \in Nat /\ right * scale \in Nat /\ (w * d) * o \in Nat
            /\ (n * unit) * (o - 8) \in Nat
        BY <1>1, <2>1
      <3>2. QED
        BY <1>2, <1>3, <3>1
    <2> HIDE DEF left, right, scale
    <2>3. left <= right
      BY <1>1, <2>1, <2>2, CancelFactor
    <2>4. QED
      BY <2>3 DEF left, right
  <1> HIDE DEF scale
  <1>5. l * l = lower * lower - 2 * (lower * margin) + margin * margin
    OBVIOUS
  <1> HIDE DEF l
  <1> DEFINE lm == lower * margin
             mm == margin * margin
             ll == lower * lower
  <1>6. lm \in Nat /\ mm \in Nat /\ ll \in Nat
    OBVIOUS
  <1>7. ll * (o - 8) = ll * o - 8 * ll
    BY <1>6
  <1>8. (l * l) * o = ll * o - 2 * (lm * o) + mm * o
    <2>1. l * l = ll - 2 * lm + mm
      BY <1>5
    <2> HIDE DEF ll, lm, mm
    <2>2. (ll - 2 * lm + mm) * o = ll * o - 2 * (lm * o) + mm * o
      BY <1>6
    <2>3. QED
      BY <2>1, <2>2
  <1>9. 8 * ll <= lm * o
    <2>1. (8 * lower) * lower <= (margin * o) * lower
      BY ProductOrder
    <2>2. (8 * lower) * lower = 8 * ll /\ (margin * o) * lower = lm * o
      OBVIOUS
    <2>3. QED
      BY <2>1, <2>2
  <1>10. mm * o < lm * o
    <2>1. margin * margin < lower * margin
      OBVIOUS
    <2> HIDE DEF mm, lm
    <2>2. mm < lm
      BY <2>1 DEF mm, lm
    <2>3. QED
      BY <1>6, <2>2
  <1> HIDE DEF ll, lm, mm
  <1>11. ll * o \in Nat /\ lm * o \in Nat /\ mm * o \in Nat
    BY <1>6
  <1>12. ll * (o - 8) <= (l * l) * o
    BY <1>4 DEF ll
  <1>13. QED
    BY <1>6, <1>7, <1>8, <1>9, <1>10, <1>11, <1>12

\* And a ratio is below the square of a root and the margin that has lost three.
LEMMA BelowTheUpperRoot ==
  ASSUME NEW o \in Nat \ {0}, 8 <= o, NEW margin \in Nat \ {0},
         NEW n \in Nat, NEW d \in Nat \ {0}, NEW unit \in Nat \ {0}, NEW w \in Nat, NEW s \in Nat,
         NEW upper \in Nat, 3 * (upper + margin) <= margin * o,
         n <= upper * upper * d, w * d <= n * unit,
         (((upper + margin) * (upper + margin)) * unit) * (o - 3) <= s * o, s <= w
  PROVE  FALSE
  <1> DEFINE u     == upper + margin
             scale == d * unit
  <1>1. u \in Nat \ {0} /\ scale \in Nat \ {0} /\ o - 3 \in Nat
        /\ upper * upper \in Nat /\ u * u \in Nat
    OBVIOUS
  <1>2. ((u * u) * (o - 3)) * scale <= (w * d) * o
    <2> DEFINE square == u * u
    <2>1. square \in Nat /\ (square * unit) * (o - 3) <= s * o /\ s * o <= w * o
      <3>1. s * o <= w * o
        BY ProductOrder
      <3>2. QED
        BY <1>1, <3>1
    <2> HIDE DEF square, u, scale
    <2>2. (square * unit) * (o - 3) \in Nat /\ s * o \in Nat /\ w * o \in Nat
      BY <1>1, <2>1
    <2>3. ((square * unit) * (o - 3)) * d <= (w * o) * d
      <3>1. (square * unit) * (o - 3) <= w * o
        BY <2>1, <2>2
      <3>2. QED
        BY <2>2, <3>1, ProductOrder
    <2>4. ((square * unit) * (o - 3)) * d = (square * (o - 3)) * (d * unit) /\ (w * o) * d = (w * d) * o
      BY <1>1, <2>1
    <2>5. QED
      BY <2>3, <2>4 DEF square, scale
  <1>3. (w * d) * o <= ((upper * upper) * o) * scale
    <2> DEFINE square == upper * upper
    <2>1. square \in Nat /\ n <= square * d /\ square * d \in Nat
      OBVIOUS
    <2> HIDE DEF square
    <2>2. n * unit <= (square * d) * unit
      BY <2>1, ProductOrder
    <2>3. w * d <= (square * d) * unit
      <3>1. w * d \in Nat /\ n * unit \in Nat /\ (square * d) * unit \in Nat
        BY <2>1
      <3>2. QED
        BY <2>2, <3>1
    <2>4. (w * d) * o <= ((square * d) * unit) * o
      <3>1. w * d \in Nat /\ (square * d) * unit \in Nat
        BY <2>1
      <3>2. QED
        BY <2>3, <3>1, ProductOrder
    <2>5. ((square * d) * unit) * o = (square * o) * (d * unit)
      BY <2>1
    <2>6. QED
      BY <2>4, <2>5 DEF square
  <1>4. (u * u) * (o - 3) <= (upper * upper) * o
    <2> DEFINE left  == (u * u) * (o - 3)
               right == (upper * upper) * o
    <2>1. left \in Nat /\ right \in Nat
      BY <1>1
    <2>2. left * scale <= right * scale
      <3>1. left * scale \in Nat /\ right * scale \in Nat /\ (w * d) * o \in Nat
        BY <1>1, <2>1
      <3>2. QED
        BY <1>2, <1>3, <3>1
    <2> HIDE DEF left, right, scale
    <2>3. left <= right
      BY <1>1, <2>1, <2>2, CancelFactor
    <2>4. QED
      BY <2>3 DEF left, right
  <1> HIDE DEF scale
  <1> DEFINE um == upper * margin
             mm == margin * margin
             uu == upper * upper
             big == u * u
  <1>5. big = uu + 2 * um + mm /\ um \in Nat /\ mm \in Nat \ {0} /\ uu \in Nat /\ big \in Nat
    OBVIOUS
  <1>6. 3 * big <= (um + mm) * o
    <2>1. (3 * u) * u <= (margin * o) * u
      BY <1>1, ProductOrder
    <2>2. (3 * u) * u = 3 * big /\ (margin * o) * u = (um + mm) * o
      OBVIOUS
    <2>3. QED
      BY <2>1, <2>2
  <1>7. big * (o - 3) <= uu * o
    BY <1>4
  <1>8. um = 0 => uu = 0 /\ upper = 0
    OBVIOUS
  <1> HIDE DEF um, mm, uu, big, u
  <1>9. big * (o - 3) = big * o - 3 * big
    BY <1>5
  <1>10. big * o = uu * o + 2 * (um * o) + mm * o /\ (um + mm) * o = um * o + mm * o
    BY <1>5
  <1>11. uu * o \in Nat /\ um * o \in Nat /\ mm * o \in Nat
    BY <1>5
  <1>12. um * o <= 0
    BY <1>5, <1>6, <1>7, <1>9, <1>10, <1>11
  <1>13. um = 0
    BY <1>5, <1>12
  <1>14. uu = 0 /\ big = mm
    BY <1>5, <1>8, <1>13
  <1>15. big * (o - 3) > 0
    <2>1. big \in Nat \ {0} /\ o - 3 \in Nat \ {0}
      BY <1>5, <1>14
    <2>2. QED
      BY <2>1
  <1>16. QED
    BY <1>7, <1>14, <1>15

\* For all ratios of four factors and two divisors that fit a mantissa: the interval
\* test keeps the root, if the ends of the interval are not too large for the margin.
THEOREM PrefilterIsSound ==
  ASSUME One >= 8, RootMargin > 0,
         NEW f1 \in 1..(2 * One - 1), NEW f2 \in 1..(2 * One - 1),
         NEW f3 \in 1..(2 * One - 1), NEW f4 \in 1..(2 * One - 1),
         NEW d1 \in 1..(2 * One - 1), NEW d2 \in 1..(2 * One - 1),
         NEW lower \in Nat, NEW upper \in Nat,
         lower < PowerOf2[WidestBits], upper + RootMargin < PowerOf2[WidestBits],
         8 * lower <= RootMargin * One, 3 * (upper + RootMargin) <= RootMargin * One
  PROVE  RootKept(normalized_product_ratio(<<f1, f2, f3, f4>>, <<d1, d2>>),
                  f1 * f2 * f3 * f4, d1 * d2, lower, upper)
  <1> DEFINE E     == WidestBits
             top   == 8 * E
             base  == 2 * E
             ratio == normalized_product_ratio(<<f1, f2, f3, f4>>, <<d1, d2>>)
             n     == f1 * f2 * f3 * f4
             d     == d1 * d2
  <1>1. E \in Nat /\ top \in Nat /\ E <= top /\ base \in Nat /\ base \in 0..top /\ RootMargin \in Nat
    BY MantissaAssumption
  <1>2. PICK p : IsPowers(p, top)
    BY <1>1, PowersExist
  <1>3. /\ One \in Nat \ {0} /\ p[base] \in Nat \ {0} /\ p[0] = 1
        /\ One = p[MantissaBits - 1]
    BY <1>1, <1>2, OneIsPower, PowersStep
  <1>4. MantissaBits > 1
    <2>1. MantissaBits = 1 => One = p[0]
      BY <1>3
    <2>2. QED
      BY <1>3, <2>1, MantissaAssumption
  <1> DEFINE unit == One * p[base]
             w    == Weight(ratio, p, base)
  <1>5. unit \in Nat \ {0}
    BY <1>3
  <1>6. /\ IsNumber(ratio, -base, 5 * E) /\ w \in Nat
        /\ Near(w, n, d, unit, 8)
    BY <1>2, <1>4, RatioIsClose
  <1>7. n \in Nat /\ d \in Nat \ {0}
    <2>1. f1 \in Nat /\ f2 \in Nat /\ f3 \in Nat /\ f4 \in Nat /\ d1 \in Nat \ {0} /\ d2 \in Nat \ {0}
      BY <1>3
    <2>2. f1 * f2 \in Nat
      BY <2>1
    <2>3. f1 * f2 * f3 \in Nat
      BY <2>1, <2>2
    <2>4. f1 * f2 * f3 * f4 \in Nat
      BY <2>1, <2>3
    <2>5. d1 * d2 \in Nat \ {0}
      BY <2>1
    <2>6. QED
      BY <2>4, <2>5
  <1> HIDE DEF ratio, n, d
  <1>8. w * d <= n * unit /\ (n * unit) * (One - 8) <= (w * d) * One
    BY <1>6 DEF Near
  <1>9. /\ -base \in Int /\ 5 * E \in Int /\ 0 <= (-base) + base /\ 5 * E + base <= top
    BY <1>1
  <1> HIDE DEF unit, w
  <1> SUFFICES ASSUME lower * lower * d <= n, n <= upper * upper * d,
                      sqrt_interval_definitely_excludes(ratio, lower, upper)
               PROVE  FALSE
    BY DEF RootKept, ratio, n, d
  <1>10. CASE /\ lower > RootMargin
              /\ ~less(normalized_square(lower - RootMargin), ratio)
    <2> DEFINE root == lower - RootMargin
               s    == normalized_square(root)
               ws   == Weight(s, p, base)
    <2>1. root \in Nat \ {0} /\ root < PowerOf2[WidestBits]
      <3>1. root \in Nat \ {0} /\ root <= lower
        BY <1>1, <1>10
      <3>2. PowerOf2[WidestBits] \in Nat
        BY <1>1, <1>2, OneIsPower, PowersStep
      <3>3. QED
        BY <3>1, <3>2
    <2>2. ~less(s, ratio)
      BY <1>10
    <2> HIDE DEF root
    <2>3. /\ IsNumber(s, -base, 5 * E) /\ ws \in Nat
          /\ ws <= (root * root) * unit
      BY <1>2, <2>1, SquareIsClose DEF unit
    <2> HIDE DEF s
    <2>4. w <= ws
      <3> DEFINE low  == -base
                 high == 5 * E
      <3>1. low \in Int /\ high \in Int /\ 0 <= low + base /\ high + base <= top
        BY <1>9
      <3>2. IsNumber(s, low, high) /\ IsNumber(ratio, low, high)
        BY <1>6, <2>3
      <3> HIDE DEF low, high, top, base
      <3>3. Weight(ratio, p, base) <= Weight(s, p, base)
        BY <1>1, <1>2, <2>2, <3>1, <3>2, LessIsLess
      <3>4. QED
        BY <3>3 DEF w
    <2>5. w <= (root * root) * unit
      <3>1. (root * root) * unit \in Nat /\ w \in Nat
        BY <1>5, <1>6, <2>1
      <3> HIDE DEF ws
      <3>2. QED
        BY <2>3, <2>4, <3>1
    <2>6. w <= ((lower - RootMargin) * (lower - RootMargin)) * unit
      BY <2>5 DEF root
    <2>7. RootMargin \in Nat \ {0} /\ lower > RootMargin
      BY <1>1, <1>10
    <2>8. QED
      BY <1>3, <1>5, <1>6, <1>7, <1>8, <2>6, <2>7, AboveTheLowerRoot
  <1>11. CASE ~less(ratio, normalized_square(upper + RootMargin))
    <2> DEFINE root == upper + RootMargin
               s    == normalized_square(root)
               ws   == Weight(s, p, base)
    <2>1. root \in Nat \ {0} /\ root < PowerOf2[WidestBits]
      BY <1>1
    <2>2. ~less(ratio, s)
      BY <1>11
    <2> HIDE DEF root
    <2>3. /\ IsNumber(s, -base, 5 * E) /\ ws \in Nat
          /\ ((root * root) * unit) * (One - 3) <= ws * One
      BY <1>2, <2>1, SquareIsClose DEF unit
    <2> HIDE DEF s
    <2>4. ws <= w
      <3> DEFINE low  == -base
                 high == 5 * E
      <3>1. low \in Int /\ high \in Int /\ 0 <= low + base /\ high + base <= top
        BY <1>9
      <3>2. IsNumber(s, low, high) /\ IsNumber(ratio, low, high)
        BY <1>6, <2>3
      <3> HIDE DEF low, high, top, base
      <3>3. Weight(s, p, base) <= Weight(ratio, p, base)
        BY <1>1, <1>2, <2>2, <3>1, <3>2, LessIsLess
      <3>4. QED
        BY <3>3 DEF w
    <2> HIDE DEF ws
    <2>5. (((upper + RootMargin) * (upper + RootMargin)) * unit) * (One - 3) <= ws * One
      BY <2>3 DEF root
    <2>6. RootMargin \in Nat \ {0}
      BY <1>1
    <2>7. QED
      BY <1>3, <1>5, <1>6, <1>7, <1>8, <2>3, <2>4, <2>5, <2>6, BelowTheUpperRoot
  <1>12. QED
    BY <1>10, <1>11 DEF sqrt_interval_definitely_excludes

-----------------------------------------------------------------------------
(* The segments and the market that the interval test is given.            *)

LEMMA PositiveFactors ==
  ASSUME NEW a \in Nat, NEW b \in Int, a * b > 0
  PROVE  a \in Nat \ {0} /\ b \in Nat \ {0}
  <1>1. a = 0 => a * b = 0
    OBVIOUS
  <1>2. a # 0 /\ b <= 0 => a * b <= 0
    OBVIOUS
  <1>3. QED
    BY <1>1, <1>2

\* A quotient by what is larger is no more.
LEMMA PartsAreLess ==
  ASSUME NEW amount \in Nat, NEW part \in Nat \ {0}, NEW whole \in Nat, part <= whole
  PROVE  /\ (amount * part) \div whole \in 0..amount
         /\ CeilDiv(amount * part, whole) \in 0..amount
  <1>1. whole \in Nat \ {0} /\ amount * part \in Nat
    OBVIOUS
  <1>2. amount * part <= amount * whole /\ amount * whole \in Nat
    <2>1. part * amount <= whole * amount /\ part * amount \in Nat /\ whole * amount \in Nat
      BY ProductOrder
    <2>2. QED
      BY <2>1
  <1>3. (amount + 1) * whole = amount * whole + whole
    OBVIOUS
  <1>4. CeilDiv(amount * part, whole) \in 0..amount
    BY <1>1, <1>2, CeilDivFacts
  <1>5. (amount * part) \div whole \in Nat /\ (amount * part) \div whole < amount + 1
    <2> DEFINE a == amount * part
               k == amount + 1
    <2>1. a \in Nat /\ k \in Nat /\ k * whole = amount * whole + whole
      BY <1>1, <1>3
    <2>2. a < k * whole
      BY <1>1, <1>2, <2>1
    <2> HIDE DEF a, k
    <2>3. a \div whole \in Nat /\ a \div whole < k
      BY <1>1, <2>1, <2>2, DivFacts, DivIsGreatest
    <2>4. QED
      BY <2>3 DEF a, k
  <1>6. QED
    BY <1>4, <1>5

\* What the segments give ends at the total.
OutputsFit(c) ==
  \A i \in 1..Len(c.segments) :
    /\ c.segments[i].output_start <= c.segments[i].output_end
    /\ c.segments[i].output_end <= c.total_out

LEMMA OutputsKeep ==
  ASSUME NEW pair, IsPair(pair), NEW c \in CurveStates(pair), OutputsFit(c),
         NEW swap_for_y \in BOOLEAN, NEW input_limit
  PROVE  OutputsFit(AddSegment(c, pair, swap_for_y, input_limit))
  <1> DEFINE v == AddSegment(c, pair, swap_for_y, input_limit)
  <1>1. AddCases(c, v, pair, swap_for_y, input_limit)
    BY AddIsCase
  <1> SUFFICES OutputsFit(v)
    OBVIOUS
  <1> HIDE DEF v
  <1>2. CASE v = c \/ v = [c EXCEPT !.id = next_bin(c.id, swap_for_y)] \/ Halts(c, v)
    <2>1. v.segments = c.segments /\ v.total_out = c.total_out
      BY <1>2 DEF Halts, Breaks, CurveStates
    <2>2. QED
      BY <2>1 DEF OutputsFit
  <1>3. CASE v = Passed(c, pair, swap_for_y)
    <2>1. v.segments = c.segments /\ v.total_out = c.total_out
      BY <1>3, PassedFields
    <2>2. QED
      BY <2>1 DEF OutputsFit
  <1>4. CASE /\ v = Extended(c, pair, swap_for_y, input_limit) /\ Visits(c, pair)
             /\ CapacityFits(c, CapacityOf(c, pair, swap_for_y))
    <2> DEFINE segment == SegmentOf(c, pair, swap_for_y)
               out     == CapacityOf(c, pair, swap_for_y).amount_out
               old     == c.segments
               new     == v.segments
    <2>1. out \in Nat /\ segment \in SegmentsOf(pair)
      BY <1>4, CapacityFacts
    <2>2. c.total_out \in Nat /\ old \in Seq(SegmentsOf(pair))
      BY WidthAssumption DEF CurveStates
    <2>3. v.total_out = c.total_out + out /\ new = Append(old, segment)
      BY <1>4, ExtendedFields
    <2>4. segment.output_start = c.total_out /\ segment.output_end = c.total_out + out
      BY DEF SegmentOf
    <2> HIDE DEF segment, out
    <2>5. /\ Len(old) \in Nat /\ Len(new) = Len(old) + 1 /\ new[Len(old) + 1] = segment
          /\ \A i \in 1..Len(old) : new[i] = old[i]
      BY <2>1, <2>2, <2>3, AppendProperties
    <2>6. \A i \in 1..Len(old) : old[i].output_start \in Nat /\ old[i].output_end \in Nat
      <3>1. \A i \in 1..Len(old) : old[i] \in SegmentsOf(pair)
        BY <2>2, ElementOfSeq
      <3> HIDE DEF old
      <3>2. QED
        BY <3>1 DEF SegmentsOf
    <2>7. \A i \in 1..Len(old) : /\ old[i].output_start <= old[i].output_end
                                 /\ old[i].output_end <= c.total_out
      BY DEF OutputsFit
    <2> HIDE DEF old, new
    <2>8. ASSUME NEW i \in 1..Len(new)
          PROVE  new[i].output_start <= new[i].output_end /\ new[i].output_end <= v.total_out
      <3>1. CASE i \in 1..Len(old)
        <4>1. /\ new[i] = old[i] /\ old[i].output_end \in Nat
              /\ old[i].output_start <= old[i].output_end /\ old[i].output_end <= c.total_out
          BY <2>5, <2>6, <2>7, <3>1
        <4>2. old[i].output_end <= v.total_out
          BY <2>1, <2>2, <2>3, <4>1
        <4>3. QED
          BY <4>1, <4>2
      <3>2. CASE i = Len(old) + 1
        BY <2>1, <2>2, <2>3, <2>4, <2>5, <3>2
      <3>3. QED
        BY <2>5, <3>1, <3>2
    <2>9. QED
      BY <2>8 DEF OutputsFit, new
  <1>5. QED
    BY <1>1, <1>2, <1>3, <1>4 DEF AddCases, Halts

\* A segment as the interval test is given it.
Measurable(segment) ==
  /\ segment.output_start \in 0..U64Max /\ segment.output_end \in 0..U64Max
  /\ Gain(segment) \in 0..U64Max /\ Price(segment) \in 1..U64Max

LEMMA CurveIsMeasurable ==
  ASSUME NEW pair, IsPair(pair), NEW swap_for_y \in BOOLEAN, NEW timestamp \in Int,
         NEW input_limit
  PROVE  LET segments == build_curve(pair, swap_for_y, timestamp, input_limit).segments
         IN  \A i \in DOMAIN segments : Measurable(segments[i])
  <1> DEFINE walk  == CurveWalk(pair, swap_for_y, timestamp, input_limit)
             last  == LastCurve(pair, swap_for_y, timestamp, input_limit)
             typed == {n \in Nat : /\ walk[n] \in CurveStates(pair) /\ Aligned(walk[n])
                                   /\ OutputsFit(walk[n])}
  <1>1. /\ walk[0] = CurveStart(pair, timestamp)
        /\ \A n \in 0..(MaxBins - 1) :
             walk[n + 1] = AddSegment(walk[n], pair, swap_for_y, input_limit)
    BY CurveRounds
  <1>2. MaxBins \in Nat
    BY WalkAssumption
  <1> HIDE DEF walk
  <1>3. 0 \in typed
    <2>1. OutputsFit(CurveStart(pair, timestamp))
      BY DEF OutputsFit, CurveStart
    <2>2. QED
      BY <1>1, <2>1, CurveStartFacts
  <1>4. ASSUME NEW n \in 0..(MaxBins - 1), n \in typed
        PROVE  n + 1 \in typed
    <2>1. n + 1 \in Nat /\ walk[n] \in CurveStates(pair) /\ Aligned(walk[n]) /\ OutputsFit(walk[n])
      BY <1>4
    <2>2. /\ walk[n + 1] \in CurveStates(pair) /\ Aligned(walk[n + 1]) /\ OutputsFit(walk[n + 1])
      BY <1>1, <2>1, AddKeeps, OutputsKeep
    <2>3. QED
      BY <2>1, <2>2
  <1> HIDE DEF typed
  <1>5. MaxBins \in typed
    BY <1>2, <1>3, <1>4, InductionUpTo
  <1>6. last \in CurveStates(pair) /\ Aligned(last) /\ OutputsFit(last)
    BY <1>5 DEF typed, walk, LastCurve
  <1>7. build_curve(pair, swap_for_y, timestamp, input_limit).segments = last.segments
    BY DEF build_curve, Curve, LastCurve
  <1> HIDE DEF last
  <1> DEFINE segments == last.segments
  <1>8. /\ segments \in Seq(SegmentsOf(pair))
        /\ last.total_in \in 0..U64Max /\ last.total_out \in 0..U64Max
    BY <1>6 DEF CurveStates
  <1>9. ASSUME NEW i \in 1..Len(segments)
        PROVE  Measurable(segments[i])
    <2>1. segments[i] \in SegmentsOf(pair)
      BY <1>8, ElementOfSeq
    <2>2. /\ segments[i].input_start < segments[i].input_end
          /\ segments[i].input_end <= last.total_in
      BY <1>6 DEF Aligned
    <2>3. /\ segments[i].output_start <= segments[i].output_end
          /\ segments[i].output_end <= last.total_out
      BY <1>6 DEF OutputsFit
    <2> DEFINE segment == segments[i]
    <2> HIDE DEF segments
    <2>4. /\ segment.input_start \in Nat /\ segment.input_end \in Nat
          /\ segment.output_start \in Nat /\ segment.output_end \in Nat
      BY <2>1 DEF SegmentsOf
    <2>5. /\ segment.input_start < segment.input_end /\ segment.input_end <= last.total_in
          /\ segment.output_start <= segment.output_end /\ segment.output_end <= last.total_out
      BY <2>2, <2>3
    <2> HIDE DEF segment
    <2>6. Measurable(segment)
      BY <1>8, <2>4, <2>5, WidthAssumption DEF Measurable, Gain, Price
    <2>7. QED
      BY <2>6 DEF segment
  <1>10. DOMAIN segments = 1..Len(segments)
    BY <1>8
  <1>11. QED
    BY <1>7, <1>9, <1>10

\* What the margin covers is enough for the roots of two u64 and their sum.
LEMMA RootsFit ==
  ASSUME MarginCovers, NEW lower \in 0..(2 * U64Max), NEW upper \in 0..(2 * U64Max + 1)
  PROVE  /\ One \in Nat /\ One >= 8 /\ RootMargin > 0 /\ U64Max <= 2 * One - 1
         /\ lower < PowerOf2[WidestBits] /\ upper + RootMargin < PowerOf2[WidestBits]
         /\ 8 * lower <= RootMargin * One /\ 3 * (upper + RootMargin) <= RootMargin * One
  <1>1. U64Max \in Nat /\ U64Max > 1 /\ RootMargin \in Nat /\ WidestBits \in Nat
    BY WidthAssumption, MantissaAssumption
  <1>2. PICK p : IsPowers(p, WidestBits)
    BY <1>1, PowersExist
  <1>3. One \in Nat /\ PowerOf2[WidestBits] \in Nat
    BY <1>1, <1>2, OneIsPower, PowersStep
  <1> DEFINE all == PowerOf2[WidestBits]
             mo  == RootMargin * One
  <1>4. /\ U64Max < 2 * One /\ 16 <= One /\ 16 * U64Max <= mo
        /\ 2 * (U64Max + 1) + RootMargin <= all
    BY DEF MarginCovers
  <1>5. mo \in Nat /\ 16 * RootMargin <= mo
    <2>1. 16 * RootMargin <= One * RootMargin
      BY <1>1, <1>3, <1>4
    <2>2. QED
      BY <1>1, <1>3, <2>1
  <1>6. RootMargin > 0
    <2>1. RootMargin = 0 => mo = 0
      BY <1>3
    <2>2. QED
      BY <1>1, <1>4, <2>1
  <1>7. all \in Nat
    BY <1>3
  <1> HIDE DEF mo, all
  <1>8. /\ lower < all /\ upper + RootMargin < all
        /\ 8 * lower <= mo /\ 3 * (upper + RootMargin) <= mo
    BY <1>1, <1>4, <1>5, <1>7
  <1>9. QED
    BY <1>1, <1>3, <1>4, <1>6, <1>8 DEF mo, all

\* The test keeps the roots of all ratios of numbers of 64 bits.
LEMMA RatioIsKept ==
  ASSUME MarginCovers,
         NEW f1 \in 0..U64Max, NEW f2 \in 0..U64Max, NEW f3 \in 0..U64Max,
         NEW f4 \in Int, f4 <= U64Max, NEW d1 \in 1..U64Max, NEW d2 \in 1..U64Max,
         NEW lower \in 0..(2 * U64Max), NEW upper \in 0..(2 * U64Max + 1)
  PROVE  RootKept(normalized_product_ratio(<<f1, f2, f3, f4>>, <<d1, d2>>),
                  f1 * f2 * f3 * f4, d1 * d2, lower, upper)
  <1>1. CASE f1 * f2 * f3 * f4 > 0
    <2> DEFINE a == f1 * f2
               b == f1 * f2 * f3
    <2>1. f1 \in Nat /\ f2 \in Nat /\ f3 \in Nat /\ U64Max \in Nat
      BY WidthAssumption
    <2>2. a \in Nat
      BY <2>1
    <2>3. b \in Nat
      BY <2>1, <2>2
    <2>4. b * f4 > 0
      BY <1>1
    <2> HIDE DEF b
    <2>5. b \in Nat \ {0} /\ f4 \in Nat \ {0}
      BY <2>3, <2>4, PositiveFactors
    <2>6. a * f3 > 0
      BY <2>5 DEF b
    <2> HIDE DEF a
    <2>7. a \in Nat \ {0} /\ f3 \in Nat \ {0}
      BY <2>1, <2>2, <2>6, PositiveFactors
    <2>8. f1 * f2 > 0
      BY <2>7 DEF a
    <2>9. f1 \in Nat \ {0} /\ f2 \in Nat \ {0}
      BY <2>1, <2>8, PositiveFactors
    <2>10. One \in Nat /\ U64Max <= 2 * One - 1
      BY RootsFit
    <2>11. /\ f1 \in 1..(2 * One - 1) /\ f2 \in 1..(2 * One - 1) /\ f3 \in 1..(2 * One - 1)
           /\ f4 \in 1..(2 * One - 1) /\ d1 \in 1..(2 * One - 1) /\ d2 \in 1..(2 * One - 1)
      BY <2>1, <2>5, <2>7, <2>9, <2>10
    <2>12. lower \in Nat /\ upper \in Nat
      BY <2>1
    <2>13. /\ One >= 8 /\ RootMargin > 0
           /\ lower < PowerOf2[WidestBits] /\ upper + RootMargin < PowerOf2[WidestBits]
           /\ 8 * lower <= RootMargin * One /\ 3 * (upper + RootMargin) <= RootMargin * One
      BY RootsFit
    <2>14. QED
      BY <2>11, <2>12, <2>13, PrefilterIsSound
  <1>2. QED
    BY <1>1 DEF RootKept

\* The market has numbers of 64 bits, and so have the segments.
LEMMA MarketIsMeasurable ==
  ASSUME MarketInv, market # NoMarket, FeesFit
  PROVE  /\ market.pool.base_reserve \in 0..U64Max /\ EffectiveReserve \in 0..U64Max
         /\ Bps \in 1..U64Max /\ TotalFee \in Nat /\ Bps + TotalFee \in 1..U64Max
  <1>1. /\ market.pool \in Pools /\ market.pool.base_reserve \in 0..U64Max
    BY PoolIsTyped
  <1>2. /\ accounts.pump \in PumpData /\ market.pool = Pool(accounts.pump, ChargedFees.fees)
        /\ ChargedFees.ok /\ ~ReserveOverflows(accounts.pump) /\ accounts \in Accounts
    BY MarketFacts DEF MarketInv
  <1>3. ChargedFees.fees \in FeeRates
    BY <1>2, FeesAreTyped DEF ChargedFees
  <1> DEFINE fees == ChargedFees.fees
  <1>4. fees.lp \in Nat /\ fees.protocol \in Nat /\ fees.creator \in Nat
    BY <1>3 DEF FeeRates
  <1>5. Bps + fees.lp + fees.protocol + fees.creator <= U64Max
    BY <1>2 DEF FeesFit, ChargedFees
  <1>6. /\ market.pool.lp = fees.lp /\ market.pool.protocol = fees.protocol
        /\ market.pool.creator = IF accounts.pump.has_creator THEN fees.creator ELSE 0
        /\ market.pool.quote_reserve = accounts.pump.quote_reserve
        /\ market.pool.virtual = accounts.pump.virtual
    BY <1>2 DEF Pool
  <1> HIDE DEF fees
  <1>7. EffectiveReserve \in 0..U64Max
    <2>1. accounts.pump.quote_reserve \in Nat /\ accounts.pump.virtual \in Nat
      BY <1>2 DEF PumpData
    <2>2. ~(accounts.pump.quote_reserve + accounts.pump.virtual > U64Max)
      BY <1>2 DEF ReserveOverflows
    <2>3. QED
      BY <1>6, <2>1, <2>2, WidthAssumption DEF EffectiveReserve
  <1>8. \/ market.pool.creator = fees.creator
        \/ market.pool.creator = 0
    BY <1>6
  <1>9. /\ TotalFee \in Nat /\ Bps + TotalFee \in 1..U64Max /\ Bps \in 1..U64Max
    BY <1>4, <1>5, <1>6, <1>8, WidthAssumption, UnitsAssumption DEF TotalFee
  <1>10. QED
    BY <1>1, <1>7, <1>9

LEMMA ForwardRootIsKept ==
  ASSUME MarginCovers, FeesFit, MarketInv, market # NoMarket, NEW segment, Measurable(segment),
         NEW begin \in 0..U64Max, NEW end \in 0..(U64Max + 1)
  PROVE  ForwardKept(segment, begin, end)
  <1> DEFINE base  == market.pool.base_reserve
             whole == Bps + TotalFee
             lower == forward_lower_root(begin)
             upper == forward_upper_root(end)
  <1>1. /\ base \in 0..U64Max /\ EffectiveReserve \in 0..U64Max
        /\ Bps \in 1..U64Max /\ TotalFee \in Nat /\ whole \in 1..U64Max
    BY MarketIsMeasurable
  <1>2. U64Max \in Nat
    BY WidthAssumption
  <1>3. Gain(segment) \in 0..U64Max /\ Price(segment) \in 1..U64Max
    BY DEF Measurable
  <1>4. /\ (begin * Bps) \div whole \in 0..begin /\ CeilDiv(end * Bps, whole) \in 0..end
    <2>1. /\ begin \in Nat /\ end \in Nat /\ Bps \in Nat \ {0} /\ whole \in Nat /\ Bps <= whole
      BY <1>1, <1>2
    <2> HIDE DEF whole
    <2>2. QED
      BY <2>1, PartsAreLess
  <1>5. lower \in 0..(2 * U64Max)
    BY <1>1, <1>2, <1>4 DEF forward_lower_root
  <1>6. upper \in 0..(2 * U64Max + 1)
    BY <1>1, <1>2, <1>4 DEF forward_upper_root
  <1>7. EffectiveReserve \in Int /\ EffectiveReserve <= U64Max
    BY <1>1, <1>2
  <1>8. Bps \in 0..U64Max
    BY <1>1
  <1> HIDE DEF base, lower, upper, whole
  <1>9. RootKept(normalized_product_ratio(<<Gain(segment), base, Bps, EffectiveReserve>>,
                                          <<Price(segment), whole>>),
                 Gain(segment) * base * Bps * EffectiveReserve, Price(segment) * whole,
                 lower, upper)
    BY <1>1, <1>3, <1>5, <1>6, <1>7, <1>8, RatioIsKept
  <1>10. QED
    BY <1>9 DEF ForwardKept, forward_ratio, base, lower, upper, whole

LEMMA ReverseRootIsKept ==
  ASSUME MarginCovers, FeesFit, MarketInv, market # NoMarket, NEW segment, Measurable(segment)
  PROVE  ReverseKept(segment)
  <1> DEFINE base  == market.pool.base_reserve
             left  == Bps - TotalFee
             lower == base + segment.output_start
             upper == base + segment.output_end
  <1>1. /\ base \in 0..U64Max /\ EffectiveReserve \in 0..U64Max
        /\ Bps \in 1..U64Max /\ TotalFee \in Nat
    BY MarketIsMeasurable
  <1>2. U64Max \in Nat
    BY WidthAssumption
  <1>3. /\ Gain(segment) \in 0..U64Max /\ Price(segment) \in 1..U64Max
        /\ segment.output_start \in 0..U64Max /\ segment.output_end \in 0..U64Max
    BY DEF Measurable
  <1>4. lower \in 0..(2 * U64Max) /\ upper \in 0..(2 * U64Max + 1)
    BY <1>1, <1>2, <1>3
  <1>5. left \in Int /\ left <= U64Max
    BY <1>1, <1>2
  <1> HIDE DEF base, lower, upper, left
  <1>6. RootKept(normalized_product_ratio(<<Gain(segment), EffectiveReserve, base, left>>,
                                          <<Price(segment), Bps>>),
                 Gain(segment) * EffectiveReserve * base * left, Price(segment) * Bps,
                 lower, upper)
    BY <1>1, <1>3, <1>4, <1>5, RatioIsKept
  <1>7. QED
    BY <1>6 DEF ReverseKept, reverse_ratio, base, lower, upper, left

\* For all markets, amounts and margins that cover the loss (32 for numbers of 64
\* bits): the test never saves the root of a segment that has the point inside.
THEOREM PrefilterKeepsRootsAlways ==
  MarginCovers /\ FeesFit => (SearchSpec => []PrefilterKeepsRoots)
  <1> SUFFICES ASSUME MarginCovers, FeesFit PROVE SearchSpec => []PrefilterKeepsRoots
    OBVIOUS
  <1>1. MarketInv => PrefilterKeepsRoots
    <2> SUFFICES ASSUME MarketInv, phase = "probe_forward"
                 PROVE  PrefilterKeepsRoots
      BY DEF PrefilterKeepsRoots
    <2>1. market # NoMarket
      BY ProbedMarket
    <2>2. /\ IsPair(market.pair) /\ market.timestamp \in Int /\ market.target_is_x \in BOOLEAN
      BY <2>1, MarketFacts
    <2>3. bounds.min_amount \in 1..U64Max /\ bounds.max_amount \in 1..U64Max
      BY BoundsAssumption, WidthAssumption DEF MarketInv
    <2>4. /\ {1, bounds.min_amount} \subseteq 0..U64Max
          /\ {bounds.min_amount + 1, bounds.max_amount} \subseteq 0..(U64Max + 1)
      BY <2>3, WidthAssumption
    <2>5. ASSUME NEW side \in BOOLEAN, NEW limit,
                 NEW i \in DOMAIN build_curve(market.pair, side, market.timestamp, limit).segments
          PROVE  LET segment == build_curve(market.pair, side, market.timestamp, limit).segments[i]
                 IN  /\ ReverseKept(segment)
                     /\ \A begin \in {1, bounds.min_amount},
                           end \in {bounds.min_amount + 1, bounds.max_amount} :
                          ForwardKept(segment, begin, end)
      <3> DEFINE segment == build_curve(market.pair, side, market.timestamp, limit).segments[i]
      <3>1. Measurable(segment)
        BY <2>2, <2>5, CurveIsMeasurable
      <3> HIDE DEF segment
      <3>2. ReverseKept(segment)
        BY <2>1, <3>1, ReverseRootIsKept
      <3>3. \A begin \in 0..U64Max, end \in 0..(U64Max + 1) : ForwardKept(segment, begin, end)
        BY <2>1, <3>1, ForwardRootIsKept
      <3>4. QED
        BY <2>4, <3>2, <3>3 DEF segment
    <2>6. ForwardSide \in BOOLEAN /\ ReverseSide \in BOOLEAN
      BY <2>2 DEF ForwardSide, ReverseSide
    <2>7. QED
      BY <2>5, <2>6 DEF PrefilterKeepsRoots, ForwardCurve, ReverseCurve
  <1>2. QED
    BY <1>1, MarketInvariant, PTL

-----------------------------------------------------------------------------
(* select_dynamic() is what RouteExecution takes it to be: the action      *)
(* HandleDynamic lets the two searches return any choices within the       *)
(* bounds that add up; here they are those that are found.                 *)

\* The instruction, after the checks of its arguments and accounts: of its
\* faults those are left that the search itself comes upon.
RequestOf(a, b) ==
  [entry |-> "execute_best_direction_dynamic", min_amount |-> b.min_amount,
   max_amount |-> b.max_amount, min_profit |-> b.min_profit, arrays |-> 1,
   faults |-> (IF a.cashback_ready THEN {} ELSE {"cashback"})
                \cup (IF ReserveOverflows(a.pump) THEN {"reserves"} ELSE {})
                \cup (IF select_pump_fees_from_data(a.pump).ok THEN {} ELSE {"fees"})]

\* The error with which a market is refused before it is quoted, "" for none.
MarketRefusal ==
  IF ReserveOverflows(accounts.pump) THEN "ArithmeticOverflow"
  ELSE IF ~ChargedFees.ok THEN "BestDirectionQuoteIncomplete" ELSE ""

\* The trader has the amount that max_amount was capped to.
Funds == [wsol |-> bounds.max_amount, target |-> 0]

IsSelected == phase = "done" /\ selection.result \in Directions
IsRefused  == phase = "done" /\ selection.result \notin Directions

\* The runtime drops the request when the instruction fails.
Asked ==
  IF IsRefused
    THEN [entry |-> "execute_pump_to_meteora", min_amount |-> 0, max_amount |-> 0,
          min_profit |-> 0, faults |-> {}, arrays |-> 0]
    ELSE RequestOf(accounts, bounds)

NothingStarted ==
  [direction |-> "PumpToMeteora", amount_in |-> 0, expected_out |-> -1,
   initial |-> [wsol |-> 0, target |-> 0], actual_target_delta |-> 0,
   wsol_before_second_leg |-> 0, required_second_leg_out |-> 0]

\* What the execution of the selected route starts with.
Started ==
  [NothingStarted EXCEPT !.direction = selection.result,
                         !.amount_in = selection.choice.amount_in,
                         !.expected_out = selection.choice.amount_out, !.initial = Funds]

Route == INSTANCE RouteExecution WITH
  Requests  <- {RequestOf(a, b) : a \in Accounts, b \in Bounds},
  Quotes    <- {},
  DexModel  <- "quoted",
  ledger    <- Funds,
  committed <- Funds,
  cached    <- Funds,
  request   <- Asked,
  frame     <- IF IsSelected THEN Started ELSE NothingStarted,
  pc        <- IF IsSelected THEN "first_leg" ELSE IF IsRefused THEN "idle" ELSE "handler",
  receipt   <- [min_profit |-> 0, initial_wsol_balance |-> 0, final_wsol_balance |-> 0],
  outcome   <- IF IsRefused THEN selection.result ELSE ""

\* What the decision reads of a direction.
Reduced(d) ==
  [best |-> [amount_in |-> d.best.amount_in, amount_out |-> d.best.amount_out,
             profit |-> d.best.profit],
   minimum_quote_complete |-> d.minimum_complete]

\* Before the search ends, the handler has refused nothing but what the search refuses.
LEMMA HandlerAccepts ==
  ASSUME SearchInv, phase # "done"
  PROVE  /\ Route!DynamicArgsError = "" /\ Route!RouteMintsError = ""
         /\ Route!QuoteAccountsError = "" /\ Route!balance_limited_max = bounds.max_amount
         /\ Route!MarketError = MarketRefusal
         /\ Route!ReverseIsQuoted <=> accounts.cashback_ready
         /\ ~(bounds.max_amount < bounds.min_amount)
  <1>1. /\ bounds.min_amount \in Nat \ {0} /\ bounds.min_amount <= bounds.max_amount
        /\ bounds.max_amount \in Nat /\ bounds.min_profit \in Nat \ {0}
    BY BoundsFacts DEF SearchInv
  <1>2. ~IsRefused
    BY DEF IsRefused
  <1>3. Route!DynamicArgsError = ""
    BY <1>1, <1>2 DEF Route!DynamicArgsError, Route!Fails, RequestOf, Asked
  <1>4. Route!RouteMintsError = "" /\ Route!QuoteAccountsError = ""
    BY <1>2
       DEF Route!RouteMintsError, Route!QuoteAccountsError, Route!PumpAccountsError,
           Route!BinArraysError, Route!Fails, Route!FirstError, Route!Has, RequestOf, Asked,
           Route!MAX_METEORA_BIN_ARRAYS, Route!MAX_BEST_DIRECTION_BIN_ARRAYS
  <1>5. Route!balance_limited_max = bounds.max_amount
    BY <1>2 DEF Asked, Route!balance_limited_max, RequestOf, Funds
  <1>6. Route!MarketError = MarketRefusal
    BY <1>2 DEF Route!MarketError, Route!Fails, Route!FirstError, Route!Has, RequestOf, Asked,
                Route!BestDirectionQuoteIncomplete, MarketRefusal, ChargedFees
  <1>7. Route!ReverseIsQuoted <=> accounts.cashback_ready
    BY <1>2 DEF Route!ReverseIsQuoted, Route!cashback_sell_is_ready, Route!Has, RequestOf, Asked
  <1>8. ~(bounds.max_amount < bounds.min_amount)
    BY <1>1
  <1>9. QED
    BY <1>3, <1>4, <1>5, <1>6, <1>7, <1>8

\* What a direction holds is a result that the handler allows.
LEMMA ReducedIsResult ==
  ASSUME SearchInv, phase # "done", NEW direction, NEW d, SearchedAs(direction, d)
  PROVE  /\ Reduced(d) \in Route!SearchResult
         /\ Reduced(d).best.amount_out <= U64Max
         /\ Route!IsSome(Reduced(d).best) <=> d.best.some
  <1>1. /\ bounds.min_amount \in Nat \ {0} /\ bounds.min_amount <= bounds.max_amount
        /\ bounds.max_amount \in Nat /\ bounds.min_profit \in Nat \ {0} /\ U64Max \in Nat
    BY BoundsFacts DEF SearchInv
  <1>2. ~IsRefused
    BY DEF IsRefused
  <1>3. Route!balance_limited_max = bounds.max_amount
    BY HandlerAccepts
  <1>4. d.minimum_complete \in BOOLEAN /\ d.best \in ChoiceSet
    BY DEF SearchedAs, DirectionSearch
  <1> DEFINE r   == Reduced(d)
             all == {[amount_in |-> a, amount_out |-> a + p, profit |-> p] :
                       a \in bounds.min_amount..bounds.max_amount,
                       p \in bounds.min_profit..U64Max}
  <1>5. Route!SearchResult = [best : {Route!NoChoice} \cup all, minimum_quote_complete : BOOLEAN]
    <2>1. Asked.min_amount = bounds.min_amount /\ Asked.min_profit = bounds.min_profit
      BY <1>2 DEF Asked, RequestOf
    <2> DEFINE Of(least, most, gain) ==
                 {[amount_in |-> a, amount_out |-> a + p, profit |-> p] :
                    a \in least..most, p \in gain..U64Max}
    <2>2. Route!SearchResult =
            [best : {Route!NoChoice} \cup
                      Of(Asked.min_amount, Route!balance_limited_max, Asked.min_profit),
             minimum_quote_complete : BOOLEAN]
      BY DEF Route!SearchResult
    <2>3. all = Of(bounds.min_amount, bounds.max_amount, bounds.min_profit)
      OBVIOUS
    <2> HIDE DEF Of, all
    <2>4. QED
      BY <1>3, <2>1, <2>2, <2>3
  <1>6. CASE d.best = NoChoice
    <2>1. r.best = Route!NoChoice /\ d.best.some = FALSE
      BY <1>6 DEF Reduced, NoChoice, Route!NoChoice
    <2>2. r \in [best : {Route!NoChoice} \cup all, minimum_quote_complete : BOOLEAN]
      BY <1>4, <2>1 DEF Reduced
    <2>3. QED
      BY <1>1, <1>5, <2>1, <2>2 DEF Route!NoChoice, Route!IsSome
  <1>7. CASE d.best # NoChoice
    <2>1. /\ d.best.amount_in \in bounds.min_amount..bounds.max_amount
          /\ d.best.amount_out \in 0..U64Max /\ d.best.profit \in bounds.min_profit..U64Max
          /\ d.best.some = TRUE
      BY <1>4, <1>7 DEF ChoiceSet
    <2>2. d.best.profit = d.best.amount_out - d.best.amount_in
      BY <2>1 DEF SearchedAs
    <2> DEFINE a == d.best.amount_in
               p == d.best.profit
    <2>3. d.best.amount_out = a + p
      BY <1>1, <2>1, <2>2
    <2>4. r.best = [amount_in |-> a, amount_out |-> a + p, profit |-> p]
      BY <2>3 DEF Reduced
    <2>5. r.best \in all
      BY <2>1, <2>4
    <2>6. r \in [best : {Route!NoChoice} \cup all, minimum_quote_complete : BOOLEAN]
      BY <1>4, <2>5 DEF Reduced
    <2>7. r.best.amount_out <= U64Max /\ Route!IsSome(r.best)
      BY <1>1, <2>1 DEF Reduced, Route!IsSome
    <2>8. QED
      BY <1>5, <2>1, <2>6, <2>7
  <1>8. QED
    BY <1>6, <1>7

\* A refusal of the search is a failure of the handler.
LEMMA RefusalFails ==
  ASSUME phase # "done", phase' = "done", UNCHANGED <<accounts, bounds>>,
         NEW error, error \notin Directions, selection' = Selection(error, NoChoice)
  PROVE  Route!Fail(error)
  <1>1. IsRefused' /\ ~IsSelected' /\ selection'.result = error
    BY DEF IsRefused, IsSelected, Selection
  <1>2. Funds' = Funds
    BY DEF Funds
  <1>3. QED
    BY <1>1, <1>2 DEF Route!Fail, Route!NoRequest, Route!NoFrame, Route!PumpToMeteora,
                      Route!None, Route!NoBalances, NothingStarted, Asked

\* A selection of the search starts the route.
LEMMA SelectionStarts ==
  ASSUME phase # "done", phase' = "done", UNCHANGED <<accounts, bounds>>,
         NEW direction \in Directions, NEW choice, selection' = Selection(direction, choice)
  PROVE  Route!StartRoute(direction, choice.amount_in, choice.amount_out)
  <1>1. /\ IsSelected' /\ ~IsRefused' /\ ~IsRefused
        /\ selection'.result = direction /\ selection'.choice = choice
    BY DEF IsRefused, IsSelected, Selection
  <1>2. Funds' = Funds
    BY DEF Funds
  <1>3. Asked' = Asked
    BY <1>1 DEF Asked, RequestOf
  <1>4. Route!NoFrame = NothingStarted
    BY DEF Route!NoFrame, Route!PumpToMeteora, Route!None, Route!NoBalances, NothingStarted
  <1>5. QED
    BY <1>1, <1>2, <1>3, <1>4 DEF Route!StartRoute, Started

\* Where the handler stands while the search goes on.
LEMMA HandlerWaits ==
  ASSUME phase # "done", phase' # "done", UNCHANGED <<accounts, bounds>>
  PROVE  UNCHANGED Route!vars
  <1>1. ~IsSelected /\ ~IsRefused /\ ~IsSelected' /\ ~IsRefused'
    BY DEF IsRefused, IsSelected
  <1>2. Funds' = Funds /\ Asked' = Asked
    BY <1>1 DEF Funds, Asked, RequestOf
  <1>3. QED
    BY <1>1, <1>2 DEF Route!vars

\* The search ends with a choice from two results that the handler allows.
LEMMA HandlerDecides ==
  ASSUME SearchInv, phase # "done", MarketRefusal = "",
         NEW f \in Route!SearchResult, NEW r \in Route!SearchResult,
         f.best.amount_out <= U64Max, r.best.amount_out <= U64Max,
         ~accounts.cashback_ready => r = Route!NoSearch,
         IF Route!DecideError(f, r) # "" THEN Route!Fail(Route!DecideError(f, r))
         ELSE Route!StartRoute(Route!DecidedDirection(f, r), Route!DecidedChoice(f, r).amount_in,
                               Route!DecidedChoice(f, r).amount_out)
  PROVE  Route!HandleDynamic
  <1>1. ~IsRefused /\ ~IsSelected
    BY DEF IsRefused, IsSelected
  <1>2. Asked.entry = "execute_best_direction_dynamic" /\ Asked.min_amount = bounds.min_amount
    BY <1>1 DEF Asked, RequestOf
  <1>3. /\ Route!DynamicArgsError = "" /\ Route!RouteMintsError = ""
        /\ Route!QuoteAccountsError = "" /\ Route!balance_limited_max = bounds.max_amount
        /\ Route!MarketError = "" /\ (Route!ReverseIsQuoted <=> accounts.cashback_ready)
    BY HandlerAccepts
  <1>4. ~(bounds.max_amount < bounds.min_amount)
    BY HandlerAccepts
  <1> DEFINE error == Route!FirstError(Route!DynamicArgsError, Route!FirstError(Route!RouteMintsError,
                        Route!FirstError(Route!QuoteAccountsError,
                        Route!FirstError(Route!Fails(Route!balance_limited_max < Asked.min_amount,
                                                     "InvalidDynamicAmountRange"),
                                         Route!MarketError))))
  <1>5. error = ""
    BY <1>2, <1>3, <1>4 DEF Route!FirstError, Route!Fails
  <1>6. QED
    BY <1>1, <1>2, <1>3, <1>5 DEF Route!HandleDynamic

LEMMA HandlerDoesNothing ==
  ASSUME UNCHANGED search_vars PROVE UNCHANGED Route!vars
  <1>1. UNCHANGED <<accounts, bounds, phase, selection>>
    BY DEF search_vars
  <1>2. (IsSelected' <=> IsSelected) /\ (IsRefused' <=> IsRefused) /\ Funds' = Funds
        /\ Started' = Started
    BY <1>1 DEF IsSelected, IsRefused, Funds, Started
  <1>3. Asked' = Asked
    BY <1>1, <1>2 DEF Asked, RequestOf
  <1>4. QED
    BY <1>1, <1>2, <1>3 DEF Route!vars

\* The search that ends without a quote of the minimum in each direction.
LEMMA HandlerQuotesNothing ==
  ASSUME SearchInv, phase # "done", MarketRefusal = "", phase' = "done",
         UNCHANGED <<accounts, bounds>>,
         selection' = Selection("BestDirectionQuoteIncomplete", NoChoice)
  PROVE  Route!HandleDynamic
  <1> DEFINE none == Route!NoSearch
  <1>1. none = Reduced(Incomplete)
    BY DEF Reduced, Incomplete, NoChoice, Route!NoSearch, Route!NoChoice
  <1>2. SearchedAs("PumpToMeteora", Incomplete)
    BY NothingSearched DEF SearchInv
  <1>3. none \in Route!SearchResult /\ none.best.amount_out <= U64Max
    BY <1>1, <1>2, ReducedIsResult
  <1>4. Route!DecideError(none, none) = "BestDirectionQuoteIncomplete"
    BY DEF Route!DecideError, Route!NoSearch, Route!NoChoice, Route!IsSome,
           Route!BestDirectionQuoteIncomplete
  <1>5. Route!Fail("BestDirectionQuoteIncomplete")
    BY RefusalFails DEF Directions
  <1> HIDE DEF none
  <1>6. QED
    BY <1>3, <1>4, <1>5, HandlerDecides DEF none

\* The decision is the one over what the directions hold.
LEMMA HandlerDecidesAlike ==
  ASSUME SearchInv, Decide
  PROVE  Route!HandleDynamic
  <1> DEFINE f == Reduced(forward)
             r == Reduced(reverse)
  <1>1. /\ phase # "done" /\ phase' = "done" /\ UNCHANGED <<accounts, bounds>>
        /\ SearchedAs("PumpToMeteora", forward) /\ SearchedAs("MeteoraToPump", reverse)
    BY DEF Decide, SearchInv
  <1>2. /\ f \in Route!SearchResult /\ r \in Route!SearchResult
        /\ f.best.amount_out <= U64Max /\ r.best.amount_out <= U64Max
        /\ (Route!IsSome(f.best) <=> forward.best.some)
        /\ (Route!IsSome(r.best) <=> reverse.best.some)
    BY <1>1, ReducedIsResult
  <1>3. market = ParsedMarket /\ MarketRefusal = ""
    BY DEF Decide, SearchInv, MarketInv, MarketRefusal
  <1>4. ~accounts.cashback_ready => r = Route!NoSearch
    <2>1. ~accounts.cashback_ready => reverse = Incomplete
      BY <1>1, <1>3 DEF SearchedAs, ParsedMarket
    <2>2. Reduced(Incomplete) = Route!NoSearch
      BY DEF Reduced, Incomplete, NoChoice, Route!NoSearch, Route!NoChoice
    <2>3. QED
      BY <2>1, <2>2
  <1>5. /\ f.minimum_quote_complete = forward.minimum_complete
        /\ r.minimum_quote_complete = reverse.minimum_complete
        /\ f.best.amount_in = forward.best.amount_in /\ f.best.amount_out = forward.best.amount_out
        /\ r.best.amount_in = reverse.best.amount_in /\ r.best.amount_out = reverse.best.amount_out
        /\ Route!better_choice(r.best, f.best) <=> better_choice(reverse.best, forward.best)
    BY DEF Reduced, Route!better_choice, better_choice
  <1> HIDE DEF f, r
  <1> DEFINE reversed == reverse.best.some
                           /\ (forward.best.some => better_choice(reverse.best, forward.best))
  <1>6. CASE reversed
    <2>1. selection' = Selection("MeteoraToPump", reverse.best)
      BY <1>6 DEF Decide
    <2>2. Route!StartRoute("MeteoraToPump", reverse.best.amount_in, reverse.best.amount_out)
      BY <1>1, <2>1, SelectionStarts DEF Directions
    <2>3. /\ Route!DecideError(f, r) = "" /\ Route!DecidedDirection(f, r) = "MeteoraToPump"
          /\ Route!DecidedChoice(f, r) = r.best
      BY <1>2, <1>5, <1>6
         DEF Route!DecideError, Route!DecidedDirection, Route!DecidedChoice, Route!MeteoraToPump
    <2>4. QED
      BY <1>1, <1>2, <1>3, <1>4, <1>5, <2>2, <2>3, HandlerDecides
  <1>7. CASE ~reversed /\ forward.best.some
    <2>1. selection' = Selection("PumpToMeteora", forward.best)
      BY <1>7 DEF Decide
    <2>2. Route!StartRoute("PumpToMeteora", forward.best.amount_in, forward.best.amount_out)
      BY <1>1, <2>1, SelectionStarts DEF Directions
    <2>3. /\ Route!DecideError(f, r) = "" /\ Route!DecidedDirection(f, r) = "PumpToMeteora"
          /\ Route!DecidedChoice(f, r) = f.best
      BY <1>2, <1>5, <1>7
         DEF Route!DecideError, Route!DecidedDirection, Route!DecidedChoice, Route!MeteoraToPump,
             Route!PumpToMeteora
    <2>4. QED
      BY <1>1, <1>2, <1>3, <1>4, <1>5, <2>2, <2>3, HandlerDecides
  <1>8. CASE ~reversed /\ ~forward.best.some
    <2>1. ~reverse.best.some
      BY <1>8
    <2> DEFINE error == IF BothComplete THEN "NoProfitableDirection"
                        ELSE "BestDirectionQuoteIncomplete"
    <2>2. selection' = Selection(error, NoChoice)
      BY <1>8, <2>1 DEF Decide
    <2>3. Route!Fail(error)
      BY <1>1, <2>2, RefusalFails DEF Directions
    <2>4. Route!DecideError(f, r) = error /\ error # ""
      BY <1>2, <1>5, <1>8, <2>1
         DEF Route!DecideError, BothComplete, Route!NoProfitableDirection,
             Route!BestDirectionQuoteIncomplete
    <2> HIDE DEF error
    <2>5. QED
      BY <1>1, <1>2, <1>3, <1>4, <2>3, <2>4, HandlerDecides
  <1>9. QED
    BY <1>6, <1>7, <1>8

\* The reserves and the fees are read before anything is quoted.
LEMMA HandlerRefuses ==
  ASSUME SearchInv, phase # "done", MarketRefusal # "", Route!Fail(MarketRefusal)
  PROVE  Route!HandleDynamic
  <1>1. ~IsRefused /\ ~IsSelected
    BY DEF IsRefused, IsSelected
  <1>2. Asked.entry = "execute_best_direction_dynamic" /\ Asked.min_amount = bounds.min_amount
    BY <1>1 DEF Asked, RequestOf
  <1>3. /\ Route!DynamicArgsError = "" /\ Route!RouteMintsError = ""
        /\ Route!QuoteAccountsError = "" /\ Route!balance_limited_max = bounds.max_amount
        /\ Route!MarketError = MarketRefusal
    BY HandlerAccepts
  <1>4. ~(bounds.max_amount < bounds.min_amount)
    BY HandlerAccepts
  <1> DEFINE error == Route!FirstError(Route!DynamicArgsError, Route!FirstError(Route!RouteMintsError,
                        Route!FirstError(Route!QuoteAccountsError,
                        Route!FirstError(Route!Fails(Route!balance_limited_max < Asked.min_amount,
                                                     "InvalidDynamicAmountRange"),
                                         Route!MarketError))))
  <1>5. error = MarketRefusal
    BY <1>2, <1>3, <1>4 DEF Route!FirstError, Route!Fails
  <1>6. QED
    BY <1>1, <1>2, <1>5 DEF Route!HandleDynamic

\* The totals of a curve overflow after all of this was accepted.
LEMMA HandlerOverflows ==
  ASSUME SearchInv, phase # "done", MarketRefusal = "", Route!Fail("ArithmeticOverflow")
  PROVE  Route!HandleDynamic
  <1>1. ~IsRefused /\ ~IsSelected
    BY DEF IsRefused, IsSelected
  <1>2. Asked.entry = "execute_best_direction_dynamic" /\ Asked.min_amount = bounds.min_amount
    BY <1>1 DEF Asked, RequestOf
  <1>3. /\ Route!DynamicArgsError = "" /\ Route!RouteMintsError = ""
        /\ Route!QuoteAccountsError = "" /\ Route!balance_limited_max = bounds.max_amount
        /\ Route!MarketError = ""
    BY HandlerAccepts
  <1>4. ~(bounds.max_amount < bounds.min_amount)
    BY HandlerAccepts
  <1> DEFINE error == Route!FirstError(Route!DynamicArgsError, Route!FirstError(Route!RouteMintsError,
                        Route!FirstError(Route!QuoteAccountsError,
                        Route!FirstError(Route!Fails(Route!balance_limited_max < Asked.min_amount,
                                                     "InvalidDynamicAmountRange"),
                                         Route!MarketError))))
  <1>5. error = ""
    BY <1>2, <1>3, <1>4 DEF Route!FirstError, Route!Fails
  <1>6. QED
    BY <1>1, <1>2, <1>5 DEF Route!HandleDynamic

\* Every step of the search is the handler's, or one that it does not show.
LEMMA SearchStepIsHandled ==
  ASSUME SearchInv, [SearchNext]_search_vars
  PROVE  [Route!HandleDynamic]_(Route!vars)
  <1>1. CASE UNCHANGED search_vars
    BY <1>1, HandlerDoesNothing
  <1>2. CASE ParseMarket
    <2>1. phase = "parse_market" /\ UNCHANGED <<accounts, bounds>>
      BY <1>2 DEF ParseMarket
    <2>2. CASE MarketRefusal # ""
      <3>1. phase' = "done" /\ selection' = Selection(MarketRefusal, NoChoice)
        BY <1>2, <2>2 DEF ParseMarket, Parsed, Refused, MarketRefusal, ChargedFees
      <3>2. MarketRefusal \notin Directions
        BY DEF MarketRefusal, Directions
      <3>3. Route!Fail(MarketRefusal)
        BY <2>1, <3>1, <3>2, RefusalFails
      <3>4. QED
        BY <2>1, <2>2, <3>3, HandlerRefuses
    <2>3. CASE MarketRefusal = ""
      <3>1. phase' # "done"
        BY <1>2, <2>3 DEF ParseMarket, Parsed, Refused, MarketRefusal, ChargedFees
      <3>2. QED
        BY <2>1, <3>1, HandlerWaits
    <2>4. QED
      BY <2>2, <2>3
  <1>3. CASE Decide
    BY <1>3, HandlerDecidesAlike
  <1>4. CASE \/ ProbeForward \/ ProbeReverse \/ SkipReverse
             \/ SearchForward \/ SearchReverse \/ KeepProbe
    <2>1. /\ phase \notin {"parse_market", "done"} /\ UNCHANGED <<accounts, bounds>>
          /\ \/ phase' # "done"
             \/ /\ phase' = "done"
                /\ \E error \in CurveErrors : selection' = Selection(error, NoChoice)
      BY <1>4 DEF ProbeForward, ProbeReverse, SkipReverse, SearchForward, SearchReverse, KeepProbe,
                  Failed, ProbedForward, ProbedReverse, SearchedForward, SearchedReverse
    <2>2. MarketRefusal = ""
      BY <2>1 DEF SearchInv, MarketInv, MarketRefusal
    <2>3. CASE phase' # "done"
      BY <2>1, <2>3, HandlerWaits
    <2>4. CASE phase' = "done" /\ selection' = Selection("BestDirectionQuoteIncomplete", NoChoice)
      BY <2>1, <2>2, <2>4, HandlerQuotesNothing
    <2>5. CASE phase' = "done" /\ selection' = Selection("ArithmeticOverflow", NoChoice)
      <3>1. Route!Fail("ArithmeticOverflow")
        BY <2>1, <2>5, RefusalFails DEF Directions
      <3>2. QED
        BY <2>1, <2>2, <3>1, HandlerOverflows
    <2>6. QED
      BY <2>1, <2>3, <2>4, <2>5 DEF CurveErrors
  <1>5. QED
    BY <1>1, <1>2, <1>3, <1>4 DEF SearchNext

\* For all markets without dust, amounts and funds: the detailed search of
\* dynamic_amount.rs implements the handler of the route, whose promises to the
\* trader are proved of any choices within the bounds that add up.  What it selects
\* is such a choice, and what it refuses the handler refuses with the same error.
THEOREM SearchImplementsHandler ==
  SmoothMarkets => (SearchSpec => [][Route!HandleDynamic]_(Route!vars))
  <1> SUFFICES ASSUME SmoothMarkets PROVE SearchSpec => [][Route!HandleDynamic]_(Route!vars)
    OBVIOUS
  <1>1. SearchInv /\ [SearchNext]_search_vars => [Route!HandleDynamic]_(Route!vars)
    BY SearchStepIsHandled
  <1>2. QED
    BY <1>1, SearchInvariant, PTL DEF SearchSpec

-----------------------------------------------------------------------------
(* The selection is the best of all amounts that the searches try.         *)

SearchCurve(direction) ==
  IF direction = "PumpToMeteora" THEN ForwardCurve(bounds.max_amount)
                                 ELSE ReverseCurve(bounds.max_amount)

Reach(direction) ==
  IF direction = "PumpToMeteora"
    THEN largest_forward_complete_amount(SearchCurve(direction), bounds.max_amount)
    ELSE largest_reverse_complete_amount(SearchCurve(direction), bounds.max_amount)

Tried(direction) ==
  IF direction = "PumpToMeteora"
    THEN ForwardCandidates(SearchCurve(direction), bounds.min_amount, Reach(direction))
    ELSE ReverseCandidates(SearchCurve(direction), bounds.min_amount, Reach(direction))

\* The choice pays at least as much as any amount that was tried in the direction.
Beats(choice, direction) ==
  \A a \in Tried(direction) :
    LET quote == Evaluate(direction, SearchCurve(direction), a)
        gain  == quote.amount_out - a
    IN  quote.ok /\ gain >= bounds.min_profit =>
          choice.some /\ gain \in bounds.min_profit..choice.profit

\* select_dynamic() has answered, with a direction or with none.
Resolved == selection.result \in Directions \cup {"NoProfitableDirection"}

\* A direction whose minimum has a gain is searched, and the answer is the better one.
BestInv ==
  /\ Promising(forward) /\ (phase \in {"search_reverse", "decide"} \/ Resolved) =>
       Beats(forward.best, "PumpToMeteora")
  /\ Promising(reverse) /\ (phase = "decide" \/ Resolved) => Beats(reverse.best, "MeteoraToPump")
  /\ Resolved => \A d \in {forward, reverse} :
       d.best.some => selection.choice.some /\ selection.choice.profit >= d.best.profit

\* What is tried, and what it is paid, depend on the bounds and the market alone.
LEMMA TrialsStay ==
  ASSUME UNCHANGED <<bounds, market>>
  PROVE  /\ \A direction : Tried(direction)' = Tried(direction)
         /\ \A direction, amount :
              Evaluate(direction, SearchCurve(direction), amount)'
                = Evaluate(direction, SearchCurve(direction), amount)
  <1>1. \A direction : SearchCurve(direction)' = SearchCurve(direction)
    BY DEF SearchCurve, ForwardCurve, ReverseCurve, ForwardSide, ReverseSide,
           forward_input_limit, Buy
  <1>2. \A direction : Reach(direction)' = Reach(direction)
    BY DEF Reach, SearchCurve, ForwardCurve, ReverseCurve, ForwardSide, ReverseSide,
           forward_input_limit, Buy, largest_forward_complete_amount, evaluate_forward,
           Halvings, Halved, Below, largest_reverse_complete_amount
  <1>3. \A curve, least, most :
          ForwardCandidates(curve, least, most)' = ForwardCandidates(curve, least, most)
    BY DEF ForwardCandidates, CandidateWalk, AddCandidates, forward_interior, forward_ratio,
           forward_lower_root, forward_upper_root, EffectiveReserve, TotalFee,
           pump_input_at_or_below_target_out, Buy
  <1>4. \A curve, least, most :
          ReverseCandidates(curve, least, most)' = ReverseCandidates(curve, least, most)
    BY DEF ReverseCandidates, reverse_interior, reverse_ratio, EffectiveReserve, TotalFee
  <1>5. \A direction, curve, amount :
          Evaluate(direction, curve, amount)' = Evaluate(direction, curve, amount)
    BY DEF Evaluate, evaluate_forward, evaluate_reverse, Sold, Buy
  <1>6. \A direction : Tried(direction)' = Tried(direction)
    BY <1>1, <1>2, <1>3, <1>4 DEF Tried
  <1>7. QED
    BY <1>1, <1>5, <1>6

LEMMA BeatsStays ==
  ASSUME UNCHANGED <<bounds, market>>
  PROVE  \A choice, direction : Beats(choice, direction) =>
           \A a \in Tried(direction)' :
             LET quote == Evaluate(direction, SearchCurve(direction), a)'
                 gain  == quote.amount_out - a
             IN  quote.ok /\ gain >= bounds'.min_profit =>
                   choice.some /\ gain \in bounds'.min_profit..choice.profit
  BY TrialsStay DEF Beats

LEMMA BestOfBothStays ==
  ASSUME UNCHANGED <<bounds, market>>
  PROVE  /\ Beats(forward'.best, "PumpToMeteora") => Beats(forward.best, "PumpToMeteora")'
         /\ Beats(reverse'.best, "MeteoraToPump") => Beats(reverse.best, "MeteoraToPump")'
  BY BeatsStays DEF Beats

LEMMA ChoicesAreNumbers ==
  ASSUME MarketInv, NEW c \in ChoiceSet PROVE c.profit \in Int
  <1>1. bounds.min_profit \in Int /\ U64Max \in Int
    BY BoundsFacts
  <1>2. c = NoChoice \/ c.profit \in bounds.min_profit..U64Max
    BY DEF ChoiceSet
  <1>3. QED
    BY <1>1, <1>2 DEF NoChoice

\* A search keeps the best of what it tries.
LEMMA SearchBeats ==
  ASSUME MarketInv, market # NoMarket, Smooth(market.pair), NEW direction \in Directions,
         direction = "MeteoraToPump" => market.cashback_ready,
         ~(Reach(direction) < bounds.min_amount)
  PROVE  Beats(Evaluated(Tried(direction), direction, SearchCurve(direction)).best, direction)
  <1> DEFINE curve == SearchCurve(direction)
             limit == IF direction = "PumpToMeteora" THEN forward_input_limit(bounds.max_amount)
                      ELSE bounds.max_amount
             tried == Tried(direction)
             most  == Reach(direction)
             d     == Evaluated(tried, direction, curve)
  <1>1. /\ bounds.min_amount \in Nat /\ bounds.max_amount \in Nat
        /\ bounds.max_amount \in 1..U64Max /\ bounds.min_amount \in 1..U64Max
    BY BoundsFacts
  <1>2. /\ limit \in Int /\ curve = CurveOf(direction, limit)
        /\ largest_complete_input(curve) \in Nat
    BY <1>1, LimitFacts DEF SearchCurve, Directions
  <1>3. Len(curve.segments) \in Nat
    <2>1. /\ IsPair(market.pair) /\ market.timestamp \in Int /\ SideOf(direction) \in BOOLEAN
      BY MarketFacts DEF SideOf, ForwardSide, ReverseSide
    <2>2. QED
      BY <1>2, <2>1, CurveEnds DEF CurveOf
  <1>4. most \in 0..bounds.max_amount
    BY <1>1, <1>2, LargestFacts DEF Reach
  <1>5. most \in Nat /\ most <= bounds.max_amount /\ bounds.min_amount <= most
    BY <1>1, <1>4
  <1> HIDE DEF curve, most
  <1>6. tried = ForwardCandidates(curve, bounds.min_amount, most)
          \/ tried = ReverseCandidates(curve, bounds.min_amount, most)
    BY DEF Tried, curve, most
  <1>7. bounds.min_amount \in tried /\ tried \subseteq bounds.min_amount..most
    <2> HIDE DEF tried
    <2>1. QED
      BY <1>1, <1>3, <1>5, <1>6, MinimumIsCandidate
  <1> HIDE DEF tried
  <1>8. tried \in SUBSET (bounds.min_amount..bounds.max_amount)
    BY <1>1, <1>5, <1>7
  <1> HIDE DEF limit
  <1>9. \A a \in tried :
          LET quote == Evaluate(direction, curve, a)
          IN  /\ quote.ok /\ Acceptable(Choice(a, quote)) =>
                   d.best.some /\ d.best.profit >= quote.amount_out - a
              /\ quote.amount_out - a \in Int
    BY <1>2, <1>7, <1>8, EvaluatedOutcome
  <1>10. SearchedAs(direction, d)
    BY <1>2, <1>7, <1>8, EvaluatedOutcome
  <1>11. /\ bounds.min_profit \in Int /\ U64Max \in Int
         /\ d.best.some => d.best.profit \in Int
    <2>1. bounds.min_profit \in Int /\ U64Max \in Int
      BY BoundsFacts
    <2>2. d.best \in ChoiceSet
      BY <1>10 DEF SearchedAs, DirectionSearch
    <2>3. QED
      BY <2>1, <2>2, ChoicesAreNumbers
  <1>12. ASSUME NEW a \in tried, Evaluate(direction, curve, a).ok,
                Evaluate(direction, curve, a).amount_out - a >= bounds.min_profit
         PROVE  d.best.some /\ Evaluate(direction, curve, a).amount_out - a
                                  \in bounds.min_profit..d.best.profit
    <2> DEFINE gain == Evaluate(direction, curve, a).amount_out - a
    <2>1. gain \in Int /\ d.best.some /\ d.best.profit >= gain /\ gain >= bounds.min_profit
      BY <1>9, <1>12 DEF Acceptable, Choice
    <2> HIDE DEF gain, d
    <2>2. gain \in bounds.min_profit..d.best.profit
      BY <1>11, <2>1
    <2>3. QED
      BY <2>1, <2>2 DEF gain
  <1>13. QED
    BY <1>12 DEF Beats, curve, tried

LEMMA PromisingStays ==
  ASSUME UNCHANGED bounds
  PROVE  /\ Promising(forward)' <=> Promising(forward')
         /\ Promising(reverse)' <=> Promising(reverse')
  BY DEF Promising

\* Nothing that ends without an answer, or goes on before a search, is asked more.
LEMMA NothingToBeat ==
  ASSUME phase' \notin {"search_reverse", "decide"}, ~Resolved' PROVE BestInv'
  BY DEF BestInv

LEMMA NotAnswered ==
  ASSUME SelectionInv, phase # "done" PROVE ~Resolved
  BY DEF SelectionInv, Selection, Resolved, Directions

\* One step for each action that can disturb what is known of the best.
LEMMA BestInvNext ==
  ASSUME SmoothMarkets, SearchInv, SearchInv', BestInv, [SearchNext]_search_vars
  PROVE  BestInv'
  <1>1. /\ MarketInv /\ SelectionInv /\ (phase' # "done" => ~Resolved')
        /\ SearchedAs("PumpToMeteora", forward) /\ SearchedAs("MeteoraToPump", reverse)
    <2>1. (SelectionInv /\ phase # "done" => ~Resolved)'
      BY NotAnswered, PTL
    <2>2. QED
      BY <2>1 DEF SearchInv
  <1>2. phase # "done" => ~Resolved
    BY <1>1, NotAnswered
  <1>3. CASE UNCHANGED search_vars
    <2>1. UNCHANGED <<accounts, bounds, market, forward, reverse, phase, selection>>
      BY <1>3 DEF search_vars
    <2>2. (Resolved' <=> Resolved) /\ (Promising(forward)' <=> Promising(forward))
          /\ (Promising(reverse)' <=> Promising(reverse))
      BY <2>1 DEF Resolved, Promising
    <2>3. /\ Beats(forward.best, "PumpToMeteora") => Beats(forward.best, "PumpToMeteora")'
          /\ Beats(reverse.best, "MeteoraToPump") => Beats(reverse.best, "MeteoraToPump")'
      BY <2>1, BestOfBothStays
    <2>4. QED
      BY <2>1, <2>2, <2>3 DEF BestInv
  <1>4. ASSUME UNCHANGED <<bounds, market, forward>>, Promising(forward)',
               Promising(forward) => Beats(forward.best, "PumpToMeteora")
        PROVE  Beats(forward.best, "PumpToMeteora")'
    BY <1>4, PromisingStays, BestOfBothStays
  <1>5. ASSUME UNCHANGED <<bounds, market, reverse>>, Promising(reverse)',
               Promising(reverse) => Beats(reverse.best, "MeteoraToPump")
        PROVE  Beats(reverse.best, "MeteoraToPump")'
    BY <1>5, PromisingStays, BestOfBothStays
  <1>6. phase \in {"search_forward", "search_reverse"} => market # NoMarket /\ Smooth(market.pair)
    BY <1>1, MarketFacts DEF MarketInv, SmoothMarkets, ParsedMarket, NoMarket
  <1>7. ASSUME NEW curve, Failed(curve) PROVE BestInv'
    <2>1. phase' = "done" /\ ~Resolved'
      BY <1>7 DEF Failed, CurveErrors, Resolved, Selection, Directions
    <2>2. QED
      BY <2>1, NothingToBeat
  <1>8. CASE ParseMarket \/ ProbeForward \/ ProbeReverse \/ SkipReverse
    <2>1. CASE \E curve : Failed(curve)
      BY <1>7, <2>1
    <2>2. CASE ~(\E curve : Failed(curve))
      <3>1. phase' \notin {"search_reverse", "decide"}
            /\ (phase' = "done" => ~Resolved')
        BY <1>8, <2>2
           DEF ParseMarket, Parsed, Refused, ProbeForward, ProbeReverse, SkipReverse,
               ProbedForward, ProbedReverse, Resolved, Selection, Directions
      <3>2. QED
        BY <1>1, <3>1, NothingToBeat
    <2>3. QED
      BY <2>1, <2>2
  <1>9. CASE SearchForward
    <2> DEFINE curve == ForwardCurve(bounds.max_amount)
               most  == largest_forward_complete_amount(curve, bounds.max_amount)
    <2>1. CASE SearchedForward(curve, most)
      <3>1. /\ UNCHANGED <<bounds, market>> /\ phase' = "search_reverse"
            /\ forward' = IF most < bounds.min_amount THEN Incomplete
                          ELSE Evaluated(ForwardCandidates(curve, bounds.min_amount, most),
                                         "PumpToMeteora", curve)
        BY <2>1 DEF SearchedForward
      <3>2. most = Reach("PumpToMeteora")
        BY DEF Reach, SearchCurve
      <3>3. ForwardCandidates(curve, bounds.min_amount, most) = Tried("PumpToMeteora")
            /\ curve = SearchCurve("PumpToMeteora")
        BY <3>2 DEF Tried, SearchCurve
      <3> HIDE DEF curve, most
      <3>4. ~(Reach("PumpToMeteora") < bounds.min_amount) =>
              Beats(forward'.best, "PumpToMeteora")
        BY <1>1, <1>6, <1>9, <3>1, <3>2, <3>3, SearchBeats DEF SearchForward, Directions
      <3>5. Reach("PumpToMeteora") < bounds.min_amount => ~Promising(forward)'
        BY <3>1, <3>2, PromisingStays DEF Promising, Incomplete
      <3>6. Promising(forward)' => Beats(forward.best, "PumpToMeteora")'
        BY <3>1, <3>4, <3>5, BestOfBothStays
      <3>7. QED
        BY <1>1, <3>1, <3>6 DEF BestInv
    <2>2. QED
      BY <1>7, <1>9, <2>1 DEF SearchForward
  <1>10. CASE SearchReverse
    <2> DEFINE curve == ReverseCurve(bounds.max_amount)
               most  == largest_reverse_complete_amount(curve, bounds.max_amount)
    <2>1. CASE SearchedReverse(curve, most)
      <3>1. /\ UNCHANGED <<bounds, market, forward>> /\ phase' = "decide"
            /\ reverse' = IF most < bounds.min_amount THEN Incomplete
                          ELSE Evaluated(ReverseCandidates(curve, bounds.min_amount, most),
                                         "MeteoraToPump", curve)
        BY <2>1 DEF SearchedReverse
      <3>2. most = Reach("MeteoraToPump")
        BY DEF Reach, SearchCurve
      <3>3. ReverseCandidates(curve, bounds.min_amount, most) = Tried("MeteoraToPump")
            /\ curve = SearchCurve("MeteoraToPump")
        BY <3>2 DEF Tried, SearchCurve
      <3> HIDE DEF curve, most
      <3>4. phase = "search_reverse" /\ market.cashback_ready
        BY <1>1, <1>10, PromisingIsReady DEF SearchReverse
      <3>5. ~(Reach("MeteoraToPump") < bounds.min_amount) =>
              Beats(reverse'.best, "MeteoraToPump")
        BY <1>1, <1>6, <3>1, <3>2, <3>3, <3>4, SearchBeats DEF Directions
      <3>6. Reach("MeteoraToPump") < bounds.min_amount => ~Promising(reverse)'
        BY <3>1, <3>2, PromisingStays DEF Promising, Incomplete
      <3>7. Promising(reverse)' => Beats(reverse.best, "MeteoraToPump")'
        BY <3>1, <3>5, <3>6, BestOfBothStays
      <3>8. Promising(forward)' => Beats(forward.best, "PumpToMeteora")'
        BY <1>4, <3>1, <3>4 DEF BestInv
      <3>9. QED
        BY <1>1, <3>1, <3>7, <3>8 DEF BestInv
    <2>2. QED
      BY <1>7, <1>10, <2>1 DEF SearchReverse
  <1>11. CASE KeepProbe
    <2>1. UNCHANGED <<bounds, market, forward, reverse>>
      BY <1>11 DEF KeepProbe
    <2>2. CASE phase = "search_forward"
      <3>1. phase' = "search_reverse" /\ ~Promising(forward)'
        BY <1>11, <2>1, <2>2, PromisingStays DEF KeepProbe
      <3>2. QED
        BY <1>1, <3>1 DEF BestInv
    <2>3. CASE phase = "search_reverse"
      <3>1. phase' = "decide" /\ ~Promising(reverse)'
        BY <1>11, <2>1, <2>3, PromisingStays DEF KeepProbe
      <3>2. Promising(forward)' => Beats(forward.best, "PumpToMeteora")'
        BY <1>4, <2>1, <2>3 DEF BestInv
      <3>3. QED
        BY <1>1, <3>1, <3>2 DEF BestInv
    <2>4. QED
      BY <1>11, <2>2, <2>3 DEF KeepProbe
  <1>12. CASE Decide
    <2>1. UNCHANGED <<bounds, market, forward, reverse>> /\ phase = "decide" /\ phase' = "done"
      BY <1>12 DEF Decide
    <2>2. /\ Promising(forward)' => Beats(forward.best, "PumpToMeteora")'
          /\ Promising(reverse)' => Beats(reverse.best, "MeteoraToPump")'
      BY <1>4, <1>5, <2>1 DEF BestInv
    <2>3. ASSUME Resolved'
          PROVE  \A d \in {forward, reverse} :
                   d.best.some => selection'.choice.some /\ selection'.choice.profit >= d.best.profit
      <3> DEFINE f == forward.best
                 r == reverse.best
      <3>1. (f.some => f.profit \in Int) /\ (r.some => r.profit \in Int)
        <4>1. f \in ChoiceSet /\ r \in ChoiceSet
          BY <1>1 DEF SearchedAs, DirectionSearch
        <4>2. QED
          BY <1>1, <4>1, ChoicesAreNumbers
      <3>2. \/ /\ selection' = Selection("MeteoraToPump", r) /\ r.some
               /\ f.some => better_choice(r, f)
            \/ /\ selection' = Selection("PumpToMeteora", f) /\ f.some
               /\ r.some => ~better_choice(r, f)
            \/ ~f.some /\ ~r.some
        BY <1>12 DEF Decide
      <3> HIDE DEF f, r
      <3>3. CASE selection' = Selection("MeteoraToPump", r) /\ r.some
                   /\ (f.some => better_choice(r, f))
        <4>1. selection'.choice = r
          BY <3>3 DEF Selection
        <4>2. f.some => r.profit >= f.profit
          BY <3>1, <3>3 DEF better_choice
        <4>3. QED
          BY <3>1, <3>3, <4>1, <4>2 DEF f, r
      <3>4. CASE selection' = Selection("PumpToMeteora", f) /\ f.some
                   /\ (r.some => ~better_choice(r, f))
        <4>1. selection'.choice = f
          BY <3>4 DEF Selection
        <4>2. r.some => f.profit >= r.profit
          BY <3>1, <3>4 DEF better_choice
        <4>3. QED
          BY <3>1, <3>4, <4>1, <4>2 DEF f, r
      <3>5. QED
        BY <3>2, <3>3, <3>4 DEF f, r
    <2>4. QED
      BY <2>1, <2>2, <2>3 DEF BestInv
  <1>13. QED
    BY <1>3, <1>8, <1>9, <1>10, <1>11, <1>12 DEF SearchNext

\* The answer pays at least as much as any amount that was tried in a direction
\* whose minimum has a gain, and there is one only if none of them pays min_profit.
SelectionIsBest ==
  Resolved => /\ Promising(forward) => Beats(selection.choice, "PumpToMeteora")
              /\ Promising(reverse) => Beats(selection.choice, "MeteoraToPump")

\* For all markets without dust: neither the loop that replaces the best choice nor
\* the comparison of the directions loses a candidate that pays more, and the error
\* NoProfitableDirection is never answered while one pays enough.
THEOREM SelectionIsBestAlways == SmoothMarkets => (SearchSpec => []SelectionIsBest)
  <1> SUFFICES ASSUME SmoothMarkets PROVE SearchSpec => []SelectionIsBest
    OBVIOUS
  <1>1. SearchInit => BestInv
    BY DEF SearchInit, BestInv, Resolved, Selection, Directions
  <1>2. SearchInv /\ SearchInv' /\ BestInv /\ [SearchNext]_search_vars => BestInv'
    BY BestInvNext
  <1>3. SearchInv /\ BestInv => SelectionIsBest
    <2> SUFFICES ASSUME SearchInv, BestInv, Resolved,
                        NEW direction \in Directions, NEW d \in {forward, reverse},
                        SearchedAs(direction, d), Beats(d.best, direction)
                 PROVE  Beats(selection.choice, direction)
      BY DEF SelectionIsBest, BestInv, SearchInv, Directions
    <2>1. d.best.some => selection.choice.some /\ selection.choice.profit >= d.best.profit
      BY DEF BestInv
    <2>2. /\ d.best.some => d.best.profit \in Int /\ selection.choice.profit \in Int
          /\ bounds.min_profit \in Int
      <3>1. d.best \in ChoiceSet /\ forward.best \in ChoiceSet /\ reverse.best \in ChoiceSet
            /\ NoChoice \in ChoiceSet
        BY DEF SearchInv, SearchedAs, DirectionSearch, ChoiceSet
      <3>2. selection.choice \in {NoChoice, forward.best, reverse.best}
        BY DEF SearchInv, SelectionInv, Selection, Resolved, Directions
      <3>3. QED
        BY <3>1, <3>2, ChoicesAreNumbers, BoundsFacts DEF SearchInv
    <2>3. ASSUME NEW gain, d.best.some, gain \in bounds.min_profit..d.best.profit
          PROVE  selection.choice.some /\ gain \in bounds.min_profit..selection.choice.profit
      BY <2>1, <2>2, <2>3
    <2>4. QED
      BY <2>3, Zenon DEF Beats
  <1>4. QED
    BY <1>1, <1>2, <1>3, SearchInvariant, PTL DEF SearchSpec

\* The amounts of WSOL at which the curve of the reverse direction goes on to
\* another segment, as far as the search may go.
ReverseEnds ==
  LET curve == SearchCurve("MeteoraToPump")
  IN  {curve.segments[i].input_end : i \in DOMAIN curve.segments}
        \cap bounds.min_amount..Reach("MeteoraToPump")

\* The loop of search_reverse() that passes over the segments outside the range
\* passes over none that ends in it.
THEOREM ReverseEndsAreTried ==
  SearchSpec => [](market # NoMarket => ReverseEnds \subseteq Tried("MeteoraToPump"))
  <1>1. MarketInv => (market # NoMarket => ReverseEnds \subseteq Tried("MeteoraToPump"))
    <2> SUFFICES ASSUME MarketInv, market # NoMarket
                 PROVE  ReverseEnds \subseteq Tried("MeteoraToPump")
      OBVIOUS
    <2> DEFINE curve == SearchCurve("MeteoraToPump")
               s     == curve.segments
               most  == Reach("MeteoraToPump")
    <2>1. /\ IsPair(market.pair) /\ market.timestamp \in Int /\ ReverseSide \in BOOLEAN
          /\ bounds.max_amount \in Int /\ bounds.max_amount \in Nat
          /\ bounds.max_amount \in 1..U64Max /\ bounds.min_amount \in Nat
      BY MarketFacts, BoundsFacts DEF ReverseSide
    <2>2. PICK c \in CurveStates(market.pair) : s = c.segments /\ Aligned(c)
      BY <2>1, CurveIsTyped DEF SearchCurve, ReverseCurve, build_curve, LastCurve, Curve
    <2>3. /\ DOMAIN s = 1..Len(s) /\ Len(s) \in Nat
          /\ \A i \in 1..Len(s) : /\ s[i].input_start \in Nat /\ s[i].input_end \in Nat
                                  /\ s[i].input_start < s[i].input_end
      BY <2>2, SegmentFields DEF Aligned
    <2>4. most \in Nat
      BY <2>1, LimitFacts, LargestFacts DEF Reach, SearchCurve
    <2>5. Tried("MeteoraToPump") = ReverseCandidates(curve, bounds.min_amount, most)
      BY DEF Tried
    <2>6. \A i \in DOMAIN s :
            s[i].input_end \in bounds.min_amount..most =>
              s[i].input_end \in ReverseCandidates(curve, bounds.min_amount, most)
      <3> HIDE DEF curve, most
      <3>1. ASSUME NEW i \in DOMAIN s, s[i].input_end \in bounds.min_amount..most
            PROVE  s[i].input_end \in ReverseCandidates(curve, bounds.min_amount, most)
        <4>1. ~(s[i].input_end < bounds.min_amount \/ s[i].input_start > most)
          BY <2>1, <2>3, <2>4, <3>1
        <4>2. QED
          BY <3>1, <4>1 DEF ReverseCandidates
      <3>2. QED
        BY <3>1
    <2>7. \A a \in ReverseEnds : \E i \in DOMAIN s : a = s[i].input_end /\ a \in bounds.min_amount..most
      BY DEF ReverseEnds
    <2> HIDE DEF curve, s, most
    <2>8. QED
      BY <2>5, <2>6, <2>7
  <1>2. QED
    BY <1>1, MarketInvariant, PTL

-----------------------------------------------------------------------------
(* The square root behind the point inside a segment: Newton's method,      *)
(* which loses at least half of its distance to the root in every round.    *)

\* A round of Newton's method never goes below the root: half the sum of two
\* numbers is no less than the root of their product.
LEMMA NewtonStaysAbove ==
  ASSUME NEW v \in Nat, NEW e \in Nat \ {0}
  PROVE  LET next == (e + v \div e) \div 2
         IN  next \in Nat /\ v < (next + 1) * (next + 1)
  <1> DEFINE q    == v \div e
             next == (e + q) \div 2
  <1>1. q \in Nat /\ v < (q + 1) * e
    BY DivFacts
  <1> HIDE DEF q
  <1>2. next \in Nat /\ e + q + 1 <= 2 * (next + 1)
    BY <1>1
  <1> HIDE DEF next
  <1> DEFINE t == e + q + 1
             d == e - q - 1
  <1>3. t * t = 4 * ((q + 1) * e) + d * d
    BY <1>1
  <1>4. d * d >= 0
    <2>1. d \in Int
      BY <1>1
    <2> HIDE DEF d
    <2>2. QED
      BY <2>1
  <1>5. (q + 1) * e \in Nat /\ t \in Nat /\ d * d \in Int /\ t * t \in Nat
    BY <1>1
  <1> DEFINE n == 2 * (next + 1)
  <1>6. n \in Nat /\ t <= n
    BY <1>2
  <1>7. n * n = 4 * ((next + 1) * (next + 1))
    BY <1>2
  <1>8. t * t <= n * n
    <2> HIDE DEF n, t
    <2>1. t * t <= t * n /\ t * n <= n * n
      BY <1>5, <1>6
    <2>2. QED
      BY <1>5, <1>6, <2>1
  <1>9. v < (next + 1) * (next + 1)
    <2> DEFINE x == (q + 1) * e
               y == (next + 1) * (next + 1)
               tt == t * t
               dd == d * d
    <2>1. x \in Nat /\ y \in Nat /\ tt \in Nat /\ dd \in Int /\ dd >= 0 /\ v < x
          /\ tt = 4 * x + dd /\ tt <= 4 * y
      BY <1>1, <1>2, <1>3, <1>4, <1>5, <1>7, <1>8
    <2> HIDE DEF x, y, tt, dd
    <2>2. v < y
      BY <2>1
    <2>3. QED
      BY <2>2 DEF y
  <1>10. QED
    BY <1>2, <1>9 DEF next, q

\* From above the root, a round halves the distance to it.
LEMMA NewtonFalls ==
  ASSUME NEW v \in Nat, NEW s \in Nat, s * s <= v, v < (s + 1) * (s + 1),
         NEW e \in Nat \ {0}, s <= e
  PROVE  LET next == (e + v \div e) \div 2
         IN  /\ next \in Nat /\ s <= next
             /\ s < e => next < e /\ 2 * (next - s) <= e - s
  <1> DEFINE q    == v \div e
             next == (e + q) \div 2
  <1>1. q \in Nat /\ q * e <= v
    BY DivFacts
  <1>2. next \in Nat /\ v < (next + 1) * (next + 1)
    BY NewtonStaysAbove
  <1>3. s <= next
    <2>1. SUFFICES ASSUME next + 1 <= s PROVE FALSE
      BY <1>2
    <2> HIDE DEF next
    <2>2. (next + 1) * (next + 1) <= (next + 1) * s /\ (next + 1) * s <= s * s
      BY <1>2, <2>1
    <2>3. (next + 1) * (next + 1) \in Nat /\ (next + 1) * s \in Nat /\ s * s \in Nat
      BY <1>2
    <2>4. QED
      BY <1>2, <2>2, <2>3
  <1>4. ASSUME s < e
        PROVE  next < e /\ 2 * (next - s) <= e - s
    <2>1. q <= s
      <3>1. SUFFICES ASSUME s + 1 <= q PROVE FALSE
        BY <1>1
      <3> HIDE DEF q
      <3>2. (s + 1) * (s + 1) <= (s + 1) * e /\ (s + 1) * e <= q * e
        BY <1>1, <1>4, <3>1
      <3>3. (s + 1) * (s + 1) \in Nat /\ (s + 1) * e \in Nat /\ q * e \in Nat
        BY <1>1
      <3>4. QED
        BY <1>1, <3>2, <3>3
    <2> HIDE DEF q
    <2>2. 2 * next <= e + q
      BY <1>1
    <2> HIDE DEF next
    <2>3. QED
      BY <1>1, <1>2, <1>4, <2>1, <2>2
  <1>5. QED
    BY <1>2, <1>3, <1>4 DEF next, q

LEMMA NewtonRoundsAre ==
  ASSUME NEW value
  PROVE  LET e == Estimates(value)
         IN  /\ e[0] = PowerOf2[(Bits(value) + 1) \div 2]
             /\ \A n \in 0..(NewtonRounds - 1) : e[n + 1] = Improved(value, e[n])
  <1> DEFINE first == PowerOf2[(Bits(value) + 1) \div 2]
             e     == Estimates(value)
             S(w)  == Improved(value, w)
  <1>0. NewtonRounds \in Nat
    BY MantissaAssumption
  <1>1. \A w, n : Round("newton", value, w, n) = S(w)
    BY DEF Round
  <1> HIDE DEF S, first
  <1>2. \E g : g = [n \in 0..NewtonRounds |-> IF n = 0 THEN first ELSE S(g[n - 1])]
    <2>1. PICK g : Follows(g, "newton", value, first, NewtonRounds)
      BY <1>0, WalkExists
    <2>2. g = [n \in 0..NewtonRounds |-> IF n = 0 THEN first ELSE S(g[n - 1])]
      BY <1>1, <2>1 DEF Follows
    <2>3. QED
      BY <2>2
  <1>3. e = [n \in 0..NewtonRounds |-> IF n = 0 THEN first ELSE S(e[n - 1])]
    BY <1>2 DEF Estimates, S, first
  <1> HIDE DEF e
  <1>4. e[0] = first
    BY <1>0, <1>3
  <1>5. ASSUME NEW n \in 0..(NewtonRounds - 1)
        PROVE  e[n + 1] = S(e[n])
    <2>1. n + 1 \in 0..NewtonRounds /\ n + 1 # 0 /\ (n + 1) - 1 = n
      BY <1>0
    <2>2. QED
      BY <1>3, <2>1
  <1>6. QED
    BY <1>4, <1>5 DEF e, first, S

\* Every natural number has a root, rounded down.
LEMMA RootExists ==
  ASSUME NEW v \in Nat
  PROVE  \E s \in Nat : s * s <= v /\ v < (s + 1) * (s + 1)
  <1> DEFINE above == {n \in Nat : v < (n + 1) * (n + 1)}
  <1>1. v \in above
    <2>1. (v + 1) * (v + 1) = v * v + v + v + 1 /\ v * v \in Nat
      OBVIOUS
    <2>2. QED
      BY <2>1
  <1>2. PICK s \in above : \A n \in above : s <= n
    <2>1. above \subseteq Nat /\ above # {}
      BY <1>1
    <2> HIDE DEF above
    <2>2. QED
      BY <2>1, LeastNumber
  <1>3. s \in Nat /\ v < (s + 1) * (s + 1)
    BY <1>2
  <1>4. s * s <= v
    <2>1. CASE s = 0
      BY <2>1
    <2>2. CASE s # 0
      <3>1. s - 1 \in Nat /\ ~(s <= s - 1) /\ (s - 1) + 1 = s
        BY <1>3, <2>2
      <3>2. s - 1 \notin above
        BY <1>2, <3>1
      <3>3. ~(v < s * s)
        BY <3>1, <3>2
      <3>4. s * s \in Nat
        BY <1>3
      <3>5. QED
        BY <3>3, <3>4
    <2>3. QED
      BY <2>1, <2>2
  <1>5. QED
    BY <1>3, <1>4

\* A greater number has a greater square.
LEMMA SquaresRise ==
  ASSUME NEW a \in Nat, NEW b \in Nat, a * a < b * b
  PROVE  a < b
  <1>1. SUFFICES ASSUME b <= a PROVE FALSE
    OBVIOUS
  <1>2. b * b <= b * a /\ b * a <= a * a /\ b * b \in Nat /\ b * a \in Nat /\ a * a \in Nat
    BY <1>1
  <1>3. QED
    BY <1>2

\* After each round the distance to the root is at most half of what it was.
LEMMA NewtonHalves ==
  ASSUME NEW value \in Nat \ {0}, NEW s \in Nat, s * s <= value, value < (s + 1) * (s + 1), s # 0,
         NEW top \in Nat, NEW p, IsPowers(p, top), NewtonRounds <= top,
         Estimates(value)[0] \in Nat, s <= Estimates(value)[0]
  PROVE  LET e == Estimates(value)
         IN  \A n \in 0..NewtonRounds :
               e[n] \in Nat /\ s <= e[n] /\ (e[n] - s) * p[n] <= e[0] - s
  <1> DEFINE e    == Estimates(value)
             near == {n \in 0..NewtonRounds :
                        e[n] \in Nat /\ s <= e[n] /\ (e[n] - s) * p[n] <= e[0] - s}
  <1>0. NewtonRounds \in Nat
    BY MantissaAssumption
  <1>1. /\ p[0] = 1 /\ \A n \in 0..top : p[n] \in Nat \ {0}
        /\ \A n \in 0..(top - 1) : p[n + 1] = 2 * p[n]
    BY PowersStep
  <1>2. e[0] \in Nat /\ s <= e[0]
    OBVIOUS
  <1>3. \A n \in 0..(NewtonRounds - 1) : e[n + 1] = Improved(value, e[n])
    BY NewtonRoundsAre
  <1> HIDE DEF e
  <1>4. 0 \in near
    <2>1. (e[0] - s) * 1 = e[0] - s
      BY <1>2
    <2>2. QED
      BY <1>0, <1>1, <1>2, <2>1
  <1>5. ASSUME NEW n \in 0..(NewtonRounds - 1), n \in near
        PROVE  n + 1 \in near
    <2> DEFINE w    == e[n]
               next == (w + value \div w) \div 2
               x    == e[n + 1]
    <2>1. /\ w \in Nat \ {0} /\ s <= w /\ (w - s) * p[n] <= e[0] - s
          /\ n \in 0..top /\ n \in 0..(top - 1) /\ n + 1 \in 0..NewtonRounds
      BY <1>0, <1>5
    <2>2. p[n] \in Nat \ {0} /\ p[n + 1] = 2 * p[n]
      BY <1>1, <2>1
    <2>3. next \in Nat /\ s <= next /\ (s < w => next < w /\ 2 * (next - s) <= w - s)
      BY <2>1, NewtonFalls
    <2>4. x = IF next < w THEN next ELSE w
      BY <1>3 DEF Improved
    <2> HIDE DEF next, w, x
    <2>5. x \in Nat /\ s <= x /\ 2 * (x - s) <= w - s
      BY <2>1, <2>3, <2>4
    <2>6. (x - s) * p[n + 1] <= (w - s) * p[n]
      <3> DEFINE d == x - s
                 c == w - s
      <3>1. d \in Nat /\ c \in Nat /\ 2 * d <= c
        BY <2>1, <2>5
      <3> HIDE DEF d, c
      <3>2. d * (2 * p[n]) = (2 * d) * p[n] /\ (2 * d) * p[n] <= c * p[n]
        BY <2>2, <3>1
      <3>3. QED
        BY <2>2, <3>2 DEF d, c
    <2>7. (x - s) * p[n + 1] <= e[0] - s
      <3> DEFINE a == (x - s) * p[n + 1]
                 b == (w - s) * p[n]
      <3>1. a \in Int /\ b \in Int
        BY <2>1, <2>2, <2>5
      <3>2. a <= b /\ b <= e[0] - s /\ e[0] - s \in Int
        BY <1>2, <2>1, <2>6
      <3> HIDE DEF a, b
      <3>3. a <= e[0] - s
        BY <3>1, <3>2
      <3>4. QED
        BY <3>3 DEF a
    <2>8. QED
      BY <2>1, <2>5, <2>7 DEF x
  <1> HIDE DEF near
  <1>6. \A n \in 0..NewtonRounds : n \in near
    BY <1>0, <1>4, <1>5, InductionUpTo
  <1>7. QED
    BY <1>6 DEF near, e

\* For every value of two mantissas' width: the loop of integer_sqrt() stops within
\* as many rounds as a mantissa has bits, 64 in the code, and what it returns is the
\* square root rounded down, never one more or less.
THEOREM IntegerSqrtIsFloor ==
  ASSUME NEW value \in Nat, value < PowerOf2[2 * MantissaBits]
  PROVE  LET s == integer_sqrt(value)
         IN  s \in Nat /\ s * s <= value /\ value < (s + 1) * (s + 1)
  <1>1. CASE value < 2
    <2>1. integer_sqrt(value) = value /\ (value = 0 \/ value = 1)
      BY <1>1 DEF integer_sqrt
    <2>2. QED
      BY <2>1
  <1>2. CASE ~(value < 2)
    <2> DEFINE top  == WidestBits + NewtonRounds
               half == (Bits(value) + 1) \div 2
               e    == Estimates(value)
    <2>1. /\ MantissaBits \in Nat \ {0} /\ NewtonRounds \in Nat /\ WidestBits \in Nat
          /\ 2 * MantissaBits <= WidestBits /\ MantissaBits <= NewtonRounds
          /\ top \in Nat /\ WidestBits <= top /\ NewtonRounds <= top
      BY MantissaAssumption
    <2> HIDE DEF top
    <2>2. PICK p : IsPowers(p, top)
      BY <2>1, PowersExist
    <2>3. /\ \A n \in 0..WidestBits : PowerOf2[n] = p[n]
          /\ \A n \in 0..top : p[n] \in Nat \ {0}
      BY <2>1, <2>2, PowersAgree, PowersStep
    <2>4. value \in Nat \ {0} /\ value < PowerOf2[WidestBits]
      <3>1. /\ 2 * MantissaBits \in 0..top /\ WidestBits \in 0..top
            /\ 2 * MantissaBits \in 0..WidestBits /\ WidestBits \in 0..WidestBits
        BY <2>1
      <3>2. p[2 * MantissaBits] <= p[WidestBits] /\ p[2 * MantissaBits] \in Nat /\ p[WidestBits] \in Nat
        BY <2>1, <2>2, <2>3, <3>1, PowersRise
      <3>3. value < p[2 * MantissaBits] /\ PowerOf2[WidestBits] = p[WidestBits]
        BY <2>3, <3>1
      <3>4. QED
        BY <1>2, <3>2, <3>3
    <2>5. Bits(value) \in 1..WidestBits /\ p[Bits(value) - 1] <= value /\ value < p[Bits(value)]
      BY <2>1, <2>2, <2>4, BitsAreThose
    <2>6. Bits(value) <= 2 * MantissaBits
      <3>1. SUFFICES ASSUME 2 * MantissaBits <= Bits(value) - 1 PROVE FALSE
        BY <2>1, <2>5
      <3>2. /\ 2 * MantissaBits \in 0..top /\ Bits(value) - 1 \in 0..top
            /\ 2 * MantissaBits \in 0..WidestBits
        BY <2>1, <2>5
      <3>3. p[2 * MantissaBits] <= p[Bits(value) - 1]
        BY <2>1, <2>2, <3>1, <3>2, PowersRise
      <3>4. /\ p[2 * MantissaBits] \in Nat /\ p[Bits(value) - 1] \in Nat
            /\ value < p[2 * MantissaBits]
        BY <2>3, <3>2
      <3>5. QED
        BY <2>5, <3>3, <3>4
    <2>7. /\ half \in 0..MantissaBits /\ half \in 0..WidestBits /\ half \in 0..top
          /\ half + half \in 0..top /\ Bits(value) <= half + half /\ Bits(value) \in 0..top
      BY <2>1, <2>5, <2>6
    <2> HIDE DEF half
    <2>8. value < p[half] * p[half]
      <3>1. p[half + half] = p[half] * p[half]
        BY <2>1, <2>2, <2>7, PowersMultiply
      <3>2. p[Bits(value)] <= p[half + half]
        BY <2>1, <2>2, <2>7, PowersRise
      <3>3. p[Bits(value)] \in Nat /\ p[half + half] \in Nat
        BY <2>3, <2>7
      <3>4. QED
        BY <2>5, <3>1, <3>2, <3>3
    <2>9. e[0] = p[half] /\ e[0] \in Nat
      BY <2>3, <2>7, NewtonRoundsAre DEF half
    <2>10. PICK s \in Nat : s * s <= value /\ value < (s + 1) * (s + 1)
      BY RootExists
    <2>11. s # 0 /\ s < p[half]
      <3>1. s # 0
        BY <1>2, <2>10
      <3>2. s * s < p[half] * p[half]
        <4>1. s * s \in Nat /\ p[half] * p[half] \in Nat
          BY <2>3, <2>7
        <4>2. QED
          BY <2>8, <2>10, <4>1
      <3>3. p[half] \in Nat
        BY <2>3, <2>7
      <3>4. QED
        BY <3>1, <3>2, <3>3, SquaresRise
    <2> HIDE DEF e
    <2> DEFINE last == e[NewtonRounds]
    <2>12. last \in Nat /\ s <= last /\ (last - s) * p[NewtonRounds] <= p[half] - s
      <3>1. e[0] \in Nat /\ s <= e[0]
        BY <2>3, <2>7, <2>9, <2>11
      <3>2. NewtonRounds \in 0..NewtonRounds
        BY <2>1
      <3>3. QED
        BY <2>1, <2>2, <2>4, <2>9, <2>10, <2>11, <3>1, <3>2, NewtonHalves DEF e
    <2>13. p[half] <= p[NewtonRounds] /\ p[half] \in Nat /\ p[NewtonRounds] \in Nat \ {0}
      <3>1. half <= NewtonRounds /\ NewtonRounds \in 0..top
        BY <2>1, <2>7
      <3>2. QED
        BY <2>1, <2>2, <2>3, <2>7, <3>1, PowersRise
    <2> HIDE DEF last
    <2>14. last = s
      <3>1. SUFFICES ASSUME last - s >= 1 PROVE FALSE
        BY <2>12
      <3> DEFINE d == last - s
                 q == p[NewtonRounds]
      <3>2. d \in Nat \ {0} /\ q \in Nat \ {0} /\ d * q <= p[half] - s /\ p[half] <= q
        BY <2>12, <2>13, <3>1
      <3> HIDE DEF d, q
      <3>3. q <= d * q /\ d * q \in Nat
        BY <3>2
      <3>4. QED
        BY <2>11, <2>13, <3>2, <3>3
    <2>15. integer_sqrt(value) = s
      BY <1>2, <2>14 DEF integer_sqrt, last, e
    <2>16. QED
      BY <2>10, <2>15
  <1>3. QED
    BY <1>1, <1>2

\* The root of a number whose root is rounded down after it was taken of more places.
LEMMA RootOfPlaces ==
  ASSUME NEW m \in Nat \ {0}, NEW d \in Nat \ {0}, NEW o \in Nat \ {0},
         NEW h \in Nat \ {0}, NEW k \in Nat \ {0}, k * h = o,
         NEW s \in Nat, s * s <= m * d * o, m * d * o < (s + 1) * (s + 1)
  PROVE  LET r == s \div k
         IN  /\ r \in Nat
             /\ r * r * o <= m * (h * h * d)
             /\ m * (h * h * d) < (r + 1) * (r + 1) * o
  <1> DEFINE r == s \div k
  <1>1. r \in Nat /\ r * k <= s /\ s < r * k + k
    BY DivFacts
  <1> HIDE DEF r
  <1> DEFINE low  == r * k
             high == (r + 1) * k
             v    == m * d * o
             hh   == h * h
             e    == m * (h * h * d)
  <1>2. /\ low \in Nat /\ high \in Nat /\ low <= s /\ s + 1 <= high
        /\ v \in Nat /\ hh \in Nat \ {0} /\ e \in Nat
    BY <1>1
  <1>3. v * hh = e * o
    OBVIOUS
  <1>4. /\ (low * low) * hh = (r * r * o) * o
        /\ (high * high) * hh = ((r + 1) * (r + 1) * o) * o
    <2>1. /\ (low * low) * hh = (r * r) * ((k * h) * (k * h))
          /\ (high * high) * hh = ((r + 1) * (r + 1)) * ((k * h) * (k * h))
      BY <1>1
    <2> HIDE DEF low, high, hh
    <2>2. /\ (r * r) * (o * o) = (r * r * o) * o
          /\ ((r + 1) * (r + 1)) * (o * o) = ((r + 1) * (r + 1) * o) * o
      BY <1>1
    <2>3. QED
      BY <2>1, <2>2
  <1>5. low * low <= v /\ v < high * high
    <2> HIDE DEF low, high
    <2>1. low * low <= low * s /\ low * s <= s * s
      BY <1>2
    <2>2. (s + 1) * (s + 1) <= (s + 1) * high /\ (s + 1) * high <= high * high
      BY <1>2
    <2> HIDE DEF v
    <2>3. s * s <= v /\ v < (s + 1) * (s + 1)
      BY DEF v
    <2>4. /\ low * low \in Nat /\ low * s \in Nat /\ s * s \in Nat /\ (s + 1) * (s + 1) \in Nat
          /\ (s + 1) * high \in Nat /\ high * high \in Nat
      BY <1>2
    <2>5. QED
      BY <1>2, <2>1, <2>2, <2>3, <2>4
  <1> DEFINE ll == low * low
             gg == high * high
             lo == r * r * o
             hi == (r + 1) * (r + 1) * o
  <1>6. ll \in Nat /\ gg \in Nat /\ lo \in Nat /\ hi \in Nat
    BY <1>1, <1>2
  <1>7. /\ ll <= v /\ v + 1 <= gg /\ ll * hh = lo * o /\ gg * hh = hi * o
    BY <1>2, <1>4, <1>5, <1>6
  <1> HIDE DEF ll, gg, lo, hi, v, hh, e
  <1>8. ll * hh <= v * hh /\ v * hh + hh <= gg * hh
    <2>1. ll * hh <= v * hh /\ (v + 1) * hh <= gg * hh
      BY <1>2, <1>6, <1>7
    <2>2. (v + 1) * hh = v * hh + hh
      BY <1>2
    <2>3. QED
      BY <2>1, <2>2
  <1>9. lo * o <= e * o /\ ~(hi * o <= e * o)
    <2>1. /\ ll * hh \in Nat /\ gg * hh \in Nat /\ v * hh \in Nat /\ e * o \in Nat
          /\ lo * o \in Nat /\ hi * o \in Nat
      BY <1>2, <1>6
    <2>2. QED
      BY <1>2, <1>3, <1>7, <1>8, <2>1
  <1>10. lo <= e
    BY <1>2, <1>6, <1>9, CancelFactor
  <1>11. e < hi
    <2>1. SUFFICES ASSUME hi <= e PROVE FALSE
      BY <1>2, <1>6
    <2>2. hi * o <= e * o
      BY <1>2, <1>6, <2>1
    <2>3. QED
      BY <1>9, <2>2
  <1>12. QED
    BY <1>1, <1>10, <1>11 DEF r, lo, hi, e

\* For every mantissa and exponent of a number whose root has the width of a mantissa:
\* Normalized::sqrt_floor() returns the root of that number, rounded down.  Halving the
\* exponent, taking the root of twice as many places and cutting them off afterwards
\* lose nothing.
THEOREM SqrtFloorIsFloor ==
  ASSUME NEW mantissa \in Nat, One <= mantissa, mantissa < 2 * One,
         NEW exponent \in 0..(2 * MantissaBits - 1)
  PROVE  LET r     == sqrt_floor(Number(mantissa, exponent))
             value == mantissa * PowerOf2[exponent]  \* in units of 1 / One
         IN  r \in Nat /\ r * r * One <= value /\ value < (r + 1) * (r + 1) * One
  <1> DEFINE top  == WidestBits
             odd  == exponent % 2
             half == (exponent - odd) \div 2
             left == MantissaBits - 1 - half
  <1>1. /\ MantissaBits \in Nat \ {0} /\ top \in Nat /\ 2 * MantissaBits <= top
        /\ WidestBits <= top
    BY MantissaAssumption
  <1>2. PICK p : IsPowers(p, top)
    BY <1>1, PowersExist
  <1>3. /\ \A n \in 0..top : PowerOf2[n] = p[n] /\ p[n] \in Nat \ {0}
        /\ p[0] = 1 /\ \A n \in 0..(top - 1) : p[n + 1] = 2 * p[n]
    BY <1>1, <1>2, PowersAgree, PowersStep
  <1>4. /\ One = p[MantissaBits - 1] /\ One \in Nat \ {0} /\ 2 * One = p[MantissaBits]
        /\ MantissaBits - 1 \in 0..top /\ MantissaBits \in 0..top
    BY <1>1, <1>2, OneIsPower
  <1>5. /\ odd \in {0, 1} /\ half \in 0..(MantissaBits - 1) /\ half + half + odd = exponent
        /\ left \in 0..(MantissaBits - 1) /\ left + half = MantissaBits - 1
    <2>1. odd \in {0, 1}
      OBVIOUS
    <2>2. half \in Int /\ 2 * half = exponent - odd
      OBVIOUS
    <2> HIDE DEF half, odd
    <2>3. half \in 0..(MantissaBits - 1) /\ half + half + odd = exponent
      BY <1>1, <2>1, <2>2
    <2>4. QED
      BY <1>1, <2>1, <2>3
  <1>6. /\ odd \in 0..top /\ half \in 0..top /\ left \in 0..top /\ exponent \in 0..top
        /\ half + half \in 0..top /\ MantissaBits + 1 \in 0..top
        /\ (half - (MantissaBits - 1)) = -left
    BY <1>1, <1>5
  <1> HIDE DEF half, odd, left, top
  <1> DEFINE s == integer_sqrt(mantissa * PowerOf2[odd] * One)
             h == p[half]
             k == p[left]
             d == p[odd]
  <1>7. h \in Nat \ {0} /\ k \in Nat \ {0} /\ d \in Nat \ {0} /\ PowerOf2[odd] = d
    BY <1>3, <1>6
  <1>8. k * h = One
    BY <1>1, <1>2, <1>4, <1>5, <1>6, PowersMultiply
  <1>9. PowerOf2[exponent] = h * h * d
    <2>1. p[half + half] = h * h
      BY <1>1, <1>2, <1>6, PowersMultiply
    <2>2. p[half + half + odd] = p[half + half] * d
      BY <1>1, <1>2, <1>5, <1>6, PowersMultiply
    <2>3. QED
      BY <1>3, <1>5, <1>6, <2>1, <2>2
  <1>10. mantissa * d * One \in Nat /\ mantissa * d * One < PowerOf2[2 * MantissaBits]
    <2>1. PowerOf2[2 * MantissaBits] = (2 * One) * (2 * One)
      <3>1. MantissaBits + MantissaBits = 2 * MantissaBits /\ 2 * MantissaBits \in 0..top
        BY <1>1
      <3>2. p[MantissaBits + MantissaBits] = (2 * One) * (2 * One)
        BY <1>1, <1>2, <1>4, <3>1, PowersMultiply
      <3>3. QED
        BY <1>3, <3>1, <3>2
    <2>2. d <= 2
      <3>1. d = 1 \/ d = 2
        <4>1. 0 \in 0..(top - 1) /\ 0 + 1 = 1
          BY <1>1
        <4>2. p[1] = 2
          BY <1>3, <4>1
        <4>3. QED
          BY <1>3, <1>5, <4>2
      <3>2. QED
        BY <3>1
    <2>3. mantissa * d <= mantissa * 2 /\ mantissa * d \in Nat
      BY <1>7, <2>2
    <2>4. (mantissa * d) * One <= (mantissa * 2) * One
      BY <1>4, <2>3
    <2>5. (mantissa * 2) * One = mantissa * (2 * One) /\ mantissa * (2 * One) < (2 * One) * (2 * One)
      BY <1>4
    <2>6. (mantissa * d) * One \in Nat /\ (2 * One) * (2 * One) \in Nat /\ mantissa * (2 * One) \in Nat
      BY <1>4, <2>3
    <2>7. QED
      BY <2>1, <2>4, <2>5, <2>6
  <1>11. s \in Nat /\ s * s <= mantissa * d * One /\ mantissa * d * One < (s + 1) * (s + 1)
    BY <1>7, <1>10, IntegerSqrtIsFloor
  <1>12. mantissa \in Nat \ {0}
    BY <1>4
  <1>13. sqrt_floor(Number(mantissa, exponent)) = s \div k
    <2>1. sqrt_floor(Number(mantissa, exponent)) = Shifted(s, -left)
      BY <1>6 DEF sqrt_floor, Number, odd, half
    <2>2. CASE left = 0
      <3>1. Shifted(s, -left) = s * PowerOf2[0] /\ PowerOf2[0] = 1 /\ k = 1
        BY <1>1, <1>3, <2>2 DEF Shifted
      <3> HIDE DEF s, k
      <3>2. QED
        BY <1>11, <2>1, <3>1
    <2>3. CASE left # 0
      <3>1. ~(-left >= 0) /\ -(-left) = left
        BY <1>6, <2>3
      <3>2. Shifted(s, -left) = s \div PowerOf2[left]
        BY <3>1 DEF Shifted
      <3>3. PowerOf2[left] = k
        BY <1>3, <1>6
      <3>4. QED
        BY <2>1, <3>2, <3>3
    <2>4. QED
      BY <2>2, <2>3
  <1> HIDE DEF s, h, k, d
  <1>14. LET r == s \div k
         IN  /\ r \in Nat
             /\ r * r * One <= mantissa * (h * h * d)
             /\ mantissa * (h * h * d) < (r + 1) * (r + 1) * One
    BY <1>4, <1>7, <1>8, <1>11, <1>12, RootOfPlaces
  <1>15. QED
    BY <1>9, <1>13, <1>14
=============================================================================
