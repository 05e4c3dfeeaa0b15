--------------------------- MODULE DirectionChoice ---------------------------
(***************************************************************************)
(* How the program picks one of the two arbitrage directions from the      *)
(* quotes of both.  The fixed-amount entry point compares two quoted       *)
(* outputs (best_direction.rs); the dynamic-amount entry point compares    *)
(* the best (amount, output) pair each direction's search returned         *)
(* (dynamic_amount.rs).  Everything here is a pure function.               *)
(*                                                                         *)
(* Option<u64> is an integer with None = -1.  Option<DirectionChoice> is a *)
(* record whose amount_in is 0 when there is no choice: every real choice  *)
(* has amount_in >= min_wsol_amount_in > 0.                                *)
(***************************************************************************)
EXTENDS Integers

PumpToMeteora == "PumpToMeteora"
MeteoraToPump == "MeteoraToPump"
Direction     == {PumpToMeteora, MeteoraToPump}

None == -1

\* Errors of errors.rs that the choice of a direction can return.
BestDirectionQuoteIncomplete == "BestDirectionQuoteIncomplete"
NoProfitableDirection        == "NoProfitableDirection"

-----------------------------------------------------------------------------
(* The fixed-amount choice.                                                *)

\* .filter(|amount_out| amount_out >= required_out)
Profitable(out, required_out) == out # None /\ out >= required_out

\* The error choose_direction returns, or "" when it picks a direction.
ChooseError(forward_out, reverse_out, required_out) ==
  IF forward_out = None /\ reverse_out = None
    THEN BestDirectionQuoteIncomplete
  ELSE IF ~Profitable(forward_out, required_out) /\ ~Profitable(reverse_out, required_out)
    THEN NoProfitableDirection
  ELSE ""

\* The direction choose_direction picks when it returns no error: the larger
\* output, PumpToMeteora on a tie.
ChosenDirection(forward_out, reverse_out, required_out) ==
  IF Profitable(reverse_out, required_out)
     /\ (Profitable(forward_out, required_out) => reverse_out > forward_out)
  THEN MeteoraToPump
  ELSE PumpToMeteora

-----------------------------------------------------------------------------
(* The dynamic-amount choice.                                              *)

NoChoice == [amount_in |-> 0, amount_out |-> 0, profit |-> 0]

IsSome(choice) == choice.amount_in # 0

\* More profit wins; for the same profit, the smaller input.
better_choice(candidate, current) ==
  \/ candidate.profit > current.profit
  \/ /\ candidate.profit = current.profit
     /\ candidate.amount_in < current.amount_in

\* The error select_dynamic returns, or "".  forward and reverse are the two
\* DirectionSearch results, reduced to the fields the decision reads.
DecideError(forward, reverse) ==
  IF IsSome(forward.best) \/ IsSome(reverse.best)
    THEN ""
  ELSE IF forward.minimum_quote_complete /\ reverse.minimum_quote_complete
    THEN NoProfitableDirection
  ELSE BestDirectionQuoteIncomplete

DecidedDirection(forward, reverse) ==
  IF /\ IsSome(reverse.best)
     /\ IsSome(forward.best) => better_choice(reverse.best, forward.best)
  THEN MeteoraToPump
  ELSE PumpToMeteora

DecidedChoice(forward, reverse) ==
  IF DecidedDirection(forward, reverse) = MeteoraToPump THEN reverse.best ELSE forward.best
=============================================================================
