------------------------------ MODULE QuoteProbe ------------------------------
(***************************************************************************)
(* The off-chain side of the quotes: quote_dlmm_snapshot_with_bitmap() of  *)
(* quote/accounts.rs, which quotes from bins that were parsed around the   *)
(* active one, and amount_search.rs of the quote probe, which tries a few  *)
(* amounts in both directions and keeps the best.                          *)
(***************************************************************************)
EXTENDS DynamicSearch

CONSTANT Trials  \* the amounts of one call of the probe, a sequence

\* They ascend (measure-amount-search.ts:18-29).
ASSUME TrialsAssumption ==
  /\ Trials \in Seq(Nat)
  /\ \A i, j \in DOMAIN Trials : i < j => Trials[i] < Trials[j]

-----------------------------------------------------------------------------
(* Plausible mistakes, for the properties below.                           *)

\* The window is one bin too narrow on both sides.
NarrowWindow(pair) == (pair.active_id - (MaxBins - 2))..(pair.active_id + (MaxBins - 2))

\* A later trial that pays as much replaces an earlier one.
LastOfEquals(choice, best) == ~best.some \/ choice.profit >= best.profit

-----------------------------------------------------------------------------
(* The quote from a snapshot.                                              *)

\* The bins that parse_bin_array_window() keeps.
parse_bin_array_window(pair) == (pair.active_id - (MaxBins - 1))..(pair.active_id + (MaxBins - 1))

\* One round of the loop.  Without the account of the bitmap extension what it
\* marks counts as not initialized.
VisitSnapshotBin(w, pair, window, swap_for_y, index, variable) ==
  IF w.remaining = 0 \/ ~w.ok THEN w
  ELSE IF ~Initialized(pair, index) THEN [w EXCEPT !.id = next_bin(w.id, swap_for_y)]
  ELSE IF ~ArrayFits(pair, w.used, index) \/ w.id \notin window
          \/ FeeOverflows(pair.fees, variable.accumulator)
    THEN [w EXCEPT !.ok = FALSE]
  ELSE Taken(w, swap_for_y, index, variable,
             dlmm_quote_exact_in_partial(w.remaining, Bin(pair, w.id), swap_for_y,
               fee_on_input(pair, swap_for_y),
               dlmm_total_fee_rate(pair.fees, variable.accumulator)))

TakeFromSnapshotBin(w, pair, swap_for_y) ==
  VisitSnapshotBin(w, pair, parse_bin_array_window(pair), swap_for_y,
                   bin_array_index(w.id), Moved(w, pair))

SnapshotWalk(amount_in, pair, swap_for_y, timestamp) ==
  LET walk[n \in 0..MaxBins] ==
        IF n = 0 THEN QuoteStart(amount_in, pair, timestamp)
                 ELSE TakeFromSnapshotBin(walk[n - 1], pair, swap_for_y)
  IN  walk

quote_dlmm_snapshot_with_bitmap(amount_in, pair, swap_for_y, timestamp) ==
  AccountDataQuote(SnapshotWalk(amount_in, pair, swap_for_y, timestamp)[MaxBins])

-----------------------------------------------------------------------------
(* The probe.                                                              *)

\* quote_dlmm_snapshot(), without the extension.
Snapshot(amount, swap_for_y) ==
  quote_dlmm_snapshot_with_bitmap(amount, [market.pair EXCEPT !.extension = {}], swap_for_y,
                                  market.timestamp)

\* row(): what both directions pay for an amount.
row(amount) ==
  [input |-> amount,
   forward |-> IF Buy(amount).ok THEN Snapshot(Buy(amount).amount_out, market.target_is_x)
               ELSE NoCurveQuote,
   reverse |-> Sold(Snapshot(amount, ~market.target_is_x))]

Replaces(choice, best) == ~best.some \/ choice.profit > best.profit

Offered(best, amount, backwards, quote) ==
  LET choice == [input |-> amount, profit |-> quote.amount_out - amount, reverse |-> backwards,
                 some |-> TRUE]
  IN  IF quote.ok /\ choice.profit >= bounds.min_profit /\ Replaces(choice, best)
        THEN choice ELSE best

NoTrial == [input |-> 0, profit |-> 0, reverse |-> FALSE, some |-> FALSE]

BothOffered(best, r) ==
  Offered(Offered(best, r.input, FALSE, r.forward), r.input, TRUE, r.reverse)

\* The best so far, row by row, forward before reverse.
TrialWalk(rows) ==
  LET walk[n \in 0..Len(rows)] ==
        IF n = 0 THEN NoTrial ELSE BothOffered(walk[n - 1], rows[n])
  IN  walk

choose(rows) == TrialWalk(rows)[Len(rows)]

-----------------------------------------------------------------------------
(* Properties.                                                             *)

\* A snapshot of the bins around the active one quotes as the program does from
\* its accounts: no bin the walk can reach lies outside of the window, in either
\* direction.  So what is measured off-chain is what the program would pay.
SnapshotIsProduction ==
  phase = "probe_forward" =>
    \A swap_for_y \in BOOLEAN, amount \in 1..bounds.max_amount :
      quote_dlmm_snapshot_with_bitmap(amount, market.pair, swap_for_y, market.timestamp)
        = ProductionLeg(amount, swap_for_y)

\* Of quotes with their amounts, those that evaluate_candidates() could keep.
Paying(quotes) ==
  {c \in {Choice(q[1], q[2]) : q \in {q \in quotes : q[2].ok}} : Acceptable(c)}

\* What the program selects when these are the choices of the two directions.
SelectedOf(choice, forwards, reverses) ==
  /\ choice.some <=> forwards \cup reverses # {}
  /\ choice.some =>
       \E c \in IF choice.reverse THEN reverses ELSE forwards :
         /\ c.amount_in = choice.input /\ c.profit = choice.profit
         /\ \A d \in forwards \cup reverses : ~better_choice(d, c)
         /\ choice.reverse => \A d \in forwards : better_choice(c, d)

\* Of the same amounts, in order, with the same quotes, the probe chooses as the
\* program does when it compares the best of one direction with the best of the
\* other: also when two amounts, or both directions, pay the same.
ProbeChoosesAlike ==
  LET Alike(rows) ==
        SelectedOf(choose(rows), Paying({<<r.input, r.forward>> : r \in ToSet(rows)}),
                                 Paying({<<r.input, r.reverse>> : r \in ToSet(rows)}))
  IN  phase = "probe_forward" => Alike([i \in DOMAIN Trials |-> row(Trials[i])])
=============================================================================
