------------------------ MODULE RouteExecutionProofs ------------------------
(***************************************************************************)
(* Proofs about RouteExecution, for every U64Max, every set of requests    *)
(* and quotes and, where a theorem says nothing else, every DexModel.      *)
(***************************************************************************)
EXTENDS RouteExecution, TLAPS

USE U64MaxAssumption, RequestsAssumption, QuotesAssumption, DexModelAssumption

-----------------------------------------------------------------------------
(* Facts about the operators the actions are built from.                   *)

\* A check reports an element of Outcome: Fails and FirstError build nothing else.
LEMMA FailsTyped ==
  ASSUME NEW condition, NEW code \in Outcome
  PROVE  Fails(condition, code) \in Outcome
  <1>1. "" \in Outcome
    BY DEF Outcome
  <1>2. QED
    BY <1>1, Zenon DEF Fails

LEMMA FirstErrorTyped ==
  ASSUME NEW e1 \in Outcome, NEW e2 \in Outcome
  PROVE  FirstError(e1, e2) \in Outcome
  BY Zenon DEF FirstError

LEMMA ErrorsTyped ==
  /\ FixedArgsError \in Outcome
  /\ DynamicArgsError \in Outcome
  /\ RouteMintsError \in Outcome
  /\ QuoteAccountsError \in Outcome
  /\ MarketError \in Outcome
  /\ MeteoraError \in Outcome
  /\ \A b : PumpError(b) \in Outcome
  /\ OverflowError \in Outcome
  /\ \A before, after : IncreaseError(before, after) \in Outcome
  /\ \A final : EnforceError(final) \in Outcome
  <1>1. /\ "InvalidAmount" \in Outcome
        /\ "InvalidDynamicAmountRange" \in Outcome
        /\ "InvalidRouteAccounts" \in Outcome
        /\ "InvalidRemainingAccounts" \in Outcome
        /\ "InvalidBinArray" \in Outcome
        /\ "InvalidPool" \in Outcome
        /\ "InvalidCashbackAccount" \in Outcome
        /\ "InvalidAccountData" \in Outcome
        /\ "ArithmeticOverflow" \in Outcome
        /\ BestDirectionQuoteIncomplete \in Outcome
        /\ "BalanceDidNotIncreaseAsExpected" \in Outcome
        /\ "ProfitTooLow" \in Outcome
        /\ "TargetBalanceNotRestored" \in Outcome
    BY DEF Outcome
  <1>2. /\ FixedArgsError \in Outcome
        /\ DynamicArgsError \in Outcome
        /\ RouteMintsError \in Outcome
        /\ PumpAccountsError \in Outcome
        /\ OverflowError \in Outcome
        /\ \A before, after : IncreaseError(before, after) \in Outcome
    BY <1>1, FailsTyped, Zenon
       DEF FixedArgsError, DynamicArgsError, RouteMintsError, PumpAccountsError,
           OverflowError, IncreaseError
  <1>3. BinArraysError \in Outcome /\ MarketError \in Outcome
    BY <1>1, FailsTyped, FirstErrorTyped, Zenon DEF BinArraysError, MarketError
  <1>4. QuoteAccountsError \in Outcome
    BY <1>1, <1>2, <1>3, FailsTyped, FirstErrorTyped, Zenon DEF QuoteAccountsError
  <1>5. MeteoraError \in Outcome
    BY <1>1, <1>3, FailsTyped, FirstErrorTyped, Zenon DEF MeteoraError
  <1>6. \A b : PumpError(b) \in Outcome
    BY <1>1, <1>2, FailsTyped, FirstErrorTyped, Zenon DEF PumpError
  <1>7. \A final : EnforceError(final) \in Outcome
    BY <1>1, <1>2, FailsTyped, FirstErrorTyped, Zenon DEF EnforceError
  <1>8. QED
    BY <1>2, <1>3, <1>4, <1>5, <1>6, <1>7, Zenon

\* The directions and errors a choice returns have their types.
LEMMA ChoicesTyped ==
  /\ \A f, r, q : ChosenDirection(f, r, q) \in Direction
  /\ \A f, r, q : ChooseError(f, r, q) \in Outcome
  /\ \A f, r : DecidedDirection(f, r) \in Direction
  /\ \A f, r : DecideError(f, r) \in Outcome
  <1>1. /\ PumpToMeteora \in Direction
        /\ MeteoraToPump \in Direction
    BY DEF Direction
  <1>2. /\ "" \in Outcome
        /\ BestDirectionQuoteIncomplete \in Outcome
        /\ NoProfitableDirection \in Outcome
    BY DEF Outcome
  <1>3. QED
    BY <1>1, <1>2, Zenon DEF ChosenDirection, ChooseError, DecidedDirection, DecideError

\* An exchange leaves amounts that fit in the token accounts.
LEMMA DexOutcomesAreU64 ==
  ASSUME NEW in \in U64, NEW out \in U64, NEW amount \in U64, NEW min_out \in U64,
         NEW expected_out,
         NEW balances \in DexOutcomes(in, out, amount, min_out, expected_out)
  PROVE  balances[1] \in U64 /\ balances[2] \in U64
  BY DEF DexOutcomes, U64

\* Zero and the empty records have their types.
LEMMA EmptyTyped ==
  /\ 0 \in U64
  /\ NoBalances \in Balances
  /\ NoFrame \in Frame
  /\ NoReceipt \in Receipt
  <1>1. 0 \in U64
    BY DEF U64
  <1>2. NoBalances \in Balances
    BY <1>1 DEF NoBalances, Balances
  <1>3. NoFrame \in Frame
    BY <1>1, <1>2 DEF NoFrame, Frame, Direction
  <1>4. NoReceipt \in Receipt
    BY <1>1 DEF NoReceipt, Receipt
  <1>5. QED
    BY <1>1, <1>2, <1>3, <1>4

\* The components of the state that the arithmetic reads.
LEMMA ComponentsTyped ==
  ASSUME TypeOK
  PROVE  /\ ledger.wsol \in U64 /\ ledger.target \in U64
         /\ committed.wsol \in U64 /\ committed.target \in U64
         /\ cached.wsol \in U64 /\ cached.target \in U64
         /\ frame.initial \in Balances
         /\ frame.initial.wsol \in U64 /\ frame.initial.target \in U64
         /\ frame.amount_in \in U64
         /\ frame.actual_target_delta \in U64
         /\ frame.wsol_before_second_leg \in U64
         /\ frame.required_second_leg_out \in U64
         /\ request.min_profit \in U64
         /\ request.min_amount \in U64
         /\ request.max_amount \in U64
  <1>1. /\ ledger \in Balances /\ committed \in Balances /\ cached \in Balances
        /\ frame \in Frame
    BY DEF TypeOK
  <1>2. frame.initial \in Balances
    BY <1>1 DEF Frame
  <1>3. request \in Request \/ request = NoRequest
    BY DEF TypeOK
  <1>4. /\ request.min_profit \in U64
        /\ request.min_amount \in U64
        /\ request.max_amount \in U64
    BY <1>3, EmptyTyped DEF Request, NoRequest
  <1>5. QED
    BY <1>1, <1>2, <1>4 DEF Balances, Frame

\* The sum initial + min_profit, when it did not overflow.
LEMMA RequiredIsU64 ==
  ASSUME TypeOK
  PROVE  /\ required_final_wsol \in Nat
         /\ required_final_wsol = frame.initial.wsol + request.min_profit
         /\ OverflowError = "" => required_final_wsol \in U64
         /\ OverflowError = "" =>
              \A before \in U64 : /\ RequiredSecondLegOut(before) \in U64
                                 /\ RequiredSecondLegOut(before) >= 1
                                 /\ before + RequiredSecondLegOut(before) >= required_final_wsol
  <1>1. required_final_wsol = frame.initial.wsol + request.min_profit
    BY DEF required_final_wsol
  <1>2. required_final_wsol \in Nat
    BY <1>1, ComponentsTyped DEF U64
  <1>3. ASSUME OverflowError = "" PROVE required_final_wsol \in U64
    <2>1. ~(required_final_wsol > U64Max)
      BY <1>3 DEF OverflowError, Fails
    <2>2. QED
      BY <2>1, <1>2 DEF U64
  <1>4. ASSUME OverflowError = "", NEW before \in U64
        PROVE  /\ RequiredSecondLegOut(before) \in U64
               /\ RequiredSecondLegOut(before) >= 1
               /\ before + RequiredSecondLegOut(before) >= required_final_wsol
    <2>1. /\ required_final_wsol \in Nat /\ required_final_wsol <= U64Max
          /\ before \in Nat /\ before <= U64Max
      <3>1. required_final_wsol \in U64
        BY <1>3, <1>4, Zenon
      <3>2. QED
        BY <3>1 DEF U64
    <2>2. CASE required_final_wsol > before
      <3>1. RequiredSecondLegOut(before) = required_final_wsol - before
        BY <2>2 DEF RequiredSecondLegOut
      <3>2. QED
        BY <2>1, <2>2, <3>1 DEF U64
    <2>3. CASE ~(required_final_wsol > before)
      <3>1. RequiredSecondLegOut(before) = 1
        BY <2>3 DEF RequiredSecondLegOut
      <3>2. QED
        BY <2>1, <2>3, <3>1 DEF U64
    <2>4. QED
      BY <2>2, <2>3
  <1>5. QED
    BY <1>1, <1>2, <1>3, <1>4, Zenon

-----------------------------------------------------------------------------
(* Type correctness.                                                       *)

LEMMA FailPreservesType ==
  ASSUME TypeOK, NEW code \in Outcome, Fail(code)
  PROVE  TypeOK'
  BY EmptyTyped DEF TypeOK, Fail

LEMMA StartRoutePreservesType ==
  ASSUME TypeOK, NEW d \in Direction, NEW a \in U64, NEW q \in U64 \cup {None},
         StartRoute(d, a, q)
  PROVE  TypeOK'
  <1>1. frame' \in Frame
    BY EmptyTyped DEF TypeOK, StartRoute, NoFrame, Frame
  <1>2. QED
    BY <1>1 DEF TypeOK, StartRoute

\* A quoted entry point hands execute() a quote or a choice of its own types.
LEMMA HandlersPreserveType ==
  ASSUME TypeOK, HandleFixed \/ HandleBestDirection \/ HandleDynamic
  PROVE  TypeOK'
  <1>1. CASE HandleFixed
    <2> DEFINE error == FirstError(FixedArgsError, RouteMintsError)
               direction == IF request.entry = "execute_pump_to_meteora"
                              THEN PumpToMeteora ELSE MeteoraToPump
    <2>1. error \in Outcome
      BY ErrorsTyped, FirstErrorTyped
    <2>2. direction \in Direction /\ None \in U64 \cup {None}
      BY DEF Direction
    <2>3. CASE Fail(error)
      BY <2>1, <2>3, FailPreservesType
    <2>4. CASE StartRoute(direction, request.min_amount, None)
      BY <2>2, <2>4, StartRoutePreservesType, ComponentsTyped
    <2>5. QED
      BY <1>1, <2>3, <2>4 DEF HandleFixed
  <1>2. CASE HandleBestDirection
    <2> DEFINE error == FirstError(FixedArgsError, FirstError(RouteMintsError,
                 FirstError(QuoteAccountsError, MarketError)))
               required_out == request.min_amount + request.min_profit
    <2>1. error \in Outcome
      BY ErrorsTyped, FirstErrorTyped
    <2>2. CASE Fail(error)
      BY <2>1, <2>2, FailPreservesType
    <2>3. ASSUME NEW forward_out \in Quotes, NEW reverse_out \in Quotes,
                 LET choose_error == ChooseError(forward_out, reverse_out, required_out)
                     direction == ChosenDirection(forward_out, reverse_out, required_out)
                 IN IF required_out > U64Max THEN Fail("ArithmeticOverflow")
                    ELSE IF choose_error # "" THEN Fail(choose_error)
                    ELSE StartRoute(direction, request.min_amount,
                           IF direction = MeteoraToPump THEN reverse_out ELSE forward_out)
          PROVE  TypeOK'
      <3> DEFINE choose_error == ChooseError(forward_out, reverse_out, required_out)
                 direction == ChosenDirection(forward_out, reverse_out, required_out)
                 chosen_out == IF direction = MeteoraToPump THEN reverse_out ELSE forward_out
      <3>1. /\ choose_error \in Outcome /\ direction \in Direction
            /\ "ArithmeticOverflow" \in Outcome
        BY ChoicesTyped DEF Outcome
      <3>2. chosen_out \in U64 \cup {None}
        BY <2>3
      <3>3. \/ Fail("ArithmeticOverflow") \/ Fail(choose_error)
            \/ StartRoute(direction, request.min_amount, chosen_out)
        BY <2>3
      <3> HIDE DEF choose_error, direction, chosen_out
      <3>4. QED
        BY <3>1, <3>2, <3>3, FailPreservesType, StartRoutePreservesType, ComponentsTyped
    <2>4. QED
      BY <1>2, <2>2, <2>3 DEF HandleBestDirection
  <1>3. CASE HandleDynamic
    <2> DEFINE error == FirstError(DynamicArgsError, FirstError(RouteMintsError,
                 FirstError(QuoteAccountsError,
                 FirstError(Fails(balance_limited_max < request.min_amount,
                                  "InvalidDynamicAmountRange"),
                            MarketError))))
    <2>1. error \in Outcome
      <3>1. "InvalidDynamicAmountRange" \in Outcome
        BY DEF Outcome
      <3>2. QED
        BY <3>1, ErrorsTyped, FirstErrorTyped, FailsTyped
    <2>2. CASE Fail(error)
      BY <2>1, <2>2, FailPreservesType
    <2>3. ASSUME NEW forward \in SearchResult, NEW reverse \in SearchResult,
                 forward.best.amount_out <= U64Max, reverse.best.amount_out <= U64Max,
                 LET decide_error == DecideError(forward, reverse)
                     choice == DecidedChoice(forward, reverse)
                 IN IF decide_error # "" THEN Fail(decide_error)
                    ELSE StartRoute(DecidedDirection(forward, reverse),
                                    choice.amount_in, choice.amount_out)
          PROVE  TypeOK'
      <3> DEFINE choice == DecidedChoice(forward, reverse)
      <3>1. /\ DecideError(forward, reverse) \in Outcome
            /\ DecidedDirection(forward, reverse) \in Direction
        BY ChoicesTyped
      <3>2. choice = forward.best \/ choice = reverse.best
        BY DEF DecidedChoice
      <3>3. /\ balance_limited_max \in U64
            /\ request.min_amount \in U64
            /\ request.min_profit \in U64
        BY ComponentsTyped DEF balance_limited_max
      <3>4. ASSUME NEW search \in SearchResult, search.best.amount_out <= U64Max
            PROVE  search.best.amount_in \in U64 /\ search.best.amount_out \in U64
        <4>1. CASE search.best = NoChoice
          BY <4>1, EmptyTyped DEF NoChoice
        <4>2. ASSUME NEW a \in request.min_amount..balance_limited_max,
                     NEW p \in request.min_profit..U64Max,
                     search.best = [amount_in |-> a, amount_out |-> a + p, profit |-> p]
              PROVE  search.best.amount_in \in U64 /\ search.best.amount_out \in U64
          BY <3>3, <3>4, <4>2 DEF U64
        <4>3. QED
          BY <3>4, <4>1, <4>2 DEF SearchResult
      <3>5. choice.amount_in \in U64 /\ choice.amount_out \in U64
        BY <2>3, <3>2, <3>4
      <3>6. \/ Fail(DecideError(forward, reverse))
            \/ StartRoute(DecidedDirection(forward, reverse),
                          choice.amount_in, choice.amount_out)
        BY <2>3
      <3> HIDE DEF choice
      <3>7. QED
        BY <3>1, <3>5, <3>6, FailPreservesType, StartRoutePreservesType
    <2>4. CASE Fail("ArithmeticOverflow")
      <3>1. "ArithmeticOverflow" \in Outcome
        BY DEF Outcome
      <3>2. QED
        BY <2>4, <3>1, FailPreservesType
    <2>5. QED
      BY <1>3, <2>2, <2>3, <2>4 DEF HandleDynamic
  <1>4. QED
    BY <1>1, <1>2, <1>3

\* A leg either fails or leaves u64 amounts in the two accounts.
LEMMA LegsPreserveType ==
  ASSUME TypeOK, FirstLeg \/ SecondLeg
  PROVE  TypeOK'
  <1> DEFINE first_error == IF frame.direction = PumpToMeteora
                              THEN PumpError(TRUE) ELSE MeteoraError
             second_error == IF frame.direction = PumpToMeteora
                               THEN MeteoraError ELSE PumpError(FALSE)
  <1>1. first_error \in Outcome /\ second_error \in Outcome /\ "CpiError" \in Outcome
    <2>1. "CpiError" \in Outcome
      BY DEF Outcome
    <2>2. QED
      BY <2>1, ErrorsTyped, Zenon
  <1>2. CASE Fail(first_error) \/ Fail(second_error) \/ Fail("CpiError")
    <2> HIDE DEF first_error, second_error
    <2>1. QED
      BY <1>1, <1>2, FailPreservesType
  <1>3. ASSUME NEW balances \in
                 DexOutcomes(ledger.wsol, ledger.target, frame.amount_in, 1, None),
               ledger' = [wsol |-> balances[1], target |-> balances[2]],
               pc' = "between_legs",
               UNCHANGED <<committed, cached, request, frame, receipt, outcome>>
        PROVE  TypeOK'
    <2>1. 1 \in U64
      BY DEF U64
    <2>2. balances[1] \in U64 /\ balances[2] \in U64
      BY <2>1, ComponentsTyped, DexOutcomesAreU64
    <2>3. ledger' \in Balances
      BY <1>3, <2>2 DEF Balances
    <2>4. QED
      BY <1>3, <2>3 DEF TypeOK
  <1>4. ASSUME NEW balances \in
                 DexOutcomes(ledger.target, ledger.wsol, frame.actual_target_delta,
                             frame.required_second_leg_out, frame.expected_out),
               ledger' = [wsol |-> balances[2], target |-> balances[1]],
               pc' = "finish",
               UNCHANGED <<committed, cached, request, frame, receipt, outcome>>
        PROVE  TypeOK'
    <2>1. balances[1] \in U64 /\ balances[2] \in U64
      BY ComponentsTyped, DexOutcomesAreU64
    <2>2. ledger' \in Balances
      BY <1>4, <2>1 DEF Balances
    <2>3. QED
      BY <1>4, <2>2 DEF TypeOK
  <1>5. QED
    BY <1>2, <1>3, <1>4 DEF FirstLeg, SecondLeg

\* Between the legs the frame receives differences and minima that fit.
LEMMA BetweenLegsPreservesType ==
  ASSUME TypeOK, BetweenLegs
  PROVE  TypeOK'
  <1> DEFINE error == FirstError(IncreaseError(frame.initial.target, Reloaded.target),
                                 OverflowError)
  <1>1. error \in Outcome
    BY ErrorsTyped, FirstErrorTyped
  <1>2. CASE Fail(error)
    BY <1>1, <1>2, FailPreservesType
  <1>3. CASE /\ error = ""
             /\ pc' = "second_leg"
             /\ cached' = Reloaded
             /\ frame' = [frame EXCEPT
                  !.actual_target_delta     = cached'.target - frame.initial.target,
                  !.wsol_before_second_leg  = cached'.wsol,
                  !.required_second_leg_out = RequiredSecondLegOut(cached'.wsol)]
             /\ UNCHANGED <<ledger, committed, request, receipt, outcome>>
    <2>1. /\ IncreaseError(frame.initial.target, ledger.target) = ""
          /\ OverflowError = ""
      BY <1>3, Zenon DEF FirstError, Reloaded
    <2>2. ~(ledger.target <= frame.initial.target)
      BY <2>1 DEF IncreaseError, Fails
    <2>3. cached' = ledger
      BY <1>3 DEF Reloaded
    <2>4. cached'.target - frame.initial.target \in U64
      BY <2>2, <2>3, ComponentsTyped DEF U64
    <2>5. cached'.wsol \in U64 /\ RequiredSecondLegOut(cached'.wsol) \in U64
      BY <2>1, <2>3, ComponentsTyped, RequiredIsU64
    <2>6. frame' \in Frame
      BY <1>3, <2>4, <2>5 DEF TypeOK, Frame
    <2>7. QED
      BY <1>3, <2>3, <2>6 DEF TypeOK
  <1>4. QED
    BY <1>2, <1>3 DEF BetweenLegs

LEMMA FinishPreservesType ==
  ASSUME TypeOK, Finish
  PROVE  TypeOK'
  <1> DEFINE error == FirstError(IncreaseError(frame.wsol_before_second_leg, Reloaded.wsol),
                                 EnforceError(Reloaded))
  <1>1. error \in Outcome
    BY ErrorsTyped, FirstErrorTyped
  <1>2. CASE Fail(error)
    BY <1>1, <1>2, FailPreservesType
  <1>3. CASE /\ pc' = "idle"
             /\ outcome' = "RouteCompleted"
             /\ receipt' = [min_profit |-> request.min_profit,
                            initial_wsol_balance |-> frame.initial.wsol,
                            final_wsol_balance |-> Reloaded.wsol]
             /\ committed' = ledger
             /\ cached' = ledger
             /\ request' = NoRequest
             /\ frame' = NoFrame
             /\ UNCHANGED ledger
    <2>1. receipt' \in Receipt
      BY <1>3, ComponentsTyped DEF Receipt, Reloaded
    <2>2. outcome' \in Outcome
      BY <1>3 DEF Outcome
    <2>3. QED
      BY <1>3, <2>1, <2>2, EmptyTyped DEF TypeOK
  <1>4. QED
    BY <1>2, <1>3 DEF Finish

\* Every state of the program is well typed.
THEOREM TypeCorrect == Spec => []TypeOK
  <1>1. Init => TypeOK
    BY EmptyTyped DEF Init, TypeOK, Outcome
  <1>2. ASSUME TypeOK, [Next]_vars
        PROVE  TypeOK'
    <2>1. CASE Transfer
      BY <1>2, <2>1 DEF Transfer, TypeOK
    <2>2. ASSUME NEW r \in Requests, Submit(r)
          PROVE  TypeOK'
      BY <1>2, <2>2, EmptyTyped DEF Submit, TypeOK, Outcome
    <2>3. CASE Execute
      BY <1>2, <2>3, HandlersPreserveType, LegsPreserveType, BetweenLegsPreservesType,
         FinishPreservesType DEF Execute
    <2>4. CASE UNCHANGED vars
      BY <1>2, <2>4 DEF vars, TypeOK
    <2>5. QED
      BY <1>2, <2>1, <2>2, <2>3, <2>4 DEF Next
  <1>3. QED
    BY <1>1, <1>2, PTL DEF Spec

-----------------------------------------------------------------------------
(* The rollback invariant and the refinement of AtomicArbitrage.           *)

\* Only the checks that follow a leg report that a balance is not what it
\* should be.
LEMMA EarlyErrors ==
  /\ FixedArgsError \notin PostLegErrors
  /\ DynamicArgsError \notin PostLegErrors
  /\ RouteMintsError \notin PostLegErrors
  /\ QuoteAccountsError \notin PostLegErrors
  /\ OverflowError \notin PostLegErrors
  /\ MeteoraError \notin PostLegErrors
  /\ \A b : PumpError(b) \notin PostLegErrors
  /\ MarketError \notin PostLegErrors
  /\ \A c : Fails(c, "InvalidDynamicAmountRange") \notin PostLegErrors
  /\ \A f, r, q : ChooseError(f, r, q) \notin PostLegErrors
  /\ \A f, r : DecideError(f, r) \notin PostLegErrors
  /\ "ArithmeticOverflow" \notin PostLegErrors
  /\ "CpiError" \notin PostLegErrors
  /\ "" \notin PostLegErrors
  <1>1. /\ FixedArgsError \notin PostLegErrors
        /\ DynamicArgsError \notin PostLegErrors
        /\ RouteMintsError \notin PostLegErrors
        /\ OverflowError \notin PostLegErrors
        /\ PumpAccountsError \notin PostLegErrors
        /\ BinArraysError \notin PostLegErrors
        /\ MarketError \notin PostLegErrors
    BY DEF FixedArgsError, MarketError, DynamicArgsError, RouteMintsError, OverflowError,
           PumpAccountsError, BinArraysError, FirstError, Fails, PostLegErrors,
           BestDirectionQuoteIncomplete
  <1>2. QuoteAccountsError \notin PostLegErrors
    BY <1>1 DEF QuoteAccountsError, FirstError, Fails, PostLegErrors
  <1>3. MeteoraError \notin PostLegErrors /\ \A b : PumpError(b) \notin PostLegErrors
    BY <1>1 DEF MeteoraError, PumpError, FirstError, Fails, PostLegErrors
  <1>4. /\ \A f, r, q : ChooseError(f, r, q) \notin PostLegErrors
        /\ \A f, r : DecideError(f, r) \notin PostLegErrors
    BY DEF ChooseError, DecideError, PostLegErrors, BestDirectionQuoteIncomplete,
           NoProfitableDirection
  <1>5. QED
    BY <1>1, <1>2, <1>3, <1>4 DEF Fails, PostLegErrors

\* A handler that starts a route checked that the profit asked is positive.
LEMMA RoutesStartWithProfit ==
  ASSUME TypeOK, HandleFixed \/ HandleBestDirection \/ HandleDynamic
  PROVE  /\ pc = "handler"
         /\ \/ \E code : code \notin PostLegErrors /\ Fail(code)
            \/ /\ request.min_profit > 0
               /\ \E d, a, q : StartRoute(d, a, q)
  <1>1. request.min_profit \in Nat
    BY ComponentsTyped DEF U64
  <1>2. ASSUME NEW e1, NEW e2, FirstError(e1, e2) = ""
        PROVE  e1 = ""
    BY <1>2, Zenon DEF FirstError
  <1>3. ASSUME NEW e1, NEW e2, e1 \notin PostLegErrors, e2 \notin PostLegErrors
        PROVE  FirstError(e1, e2) \notin PostLegErrors
    BY <1>3, Zenon DEF FirstError
  <1>4. FixedArgsError = "" => request.min_profit > 0
    BY <1>1 DEF FixedArgsError, Fails
  <1>5. DynamicArgsError = "" => request.min_profit > 0
    BY <1>1 DEF DynamicArgsError, Fails
  <1>6. CASE HandleFixed
    <2> DEFINE error == FirstError(FixedArgsError, RouteMintsError)
               direction == IF request.entry = "execute_pump_to_meteora"
                              THEN PumpToMeteora ELSE MeteoraToPump
    <2>1. /\ error = "" => request.min_profit > 0
          /\ error \notin PostLegErrors
      BY <1>2, <1>3, <1>4, EarlyErrors
    <2>2. /\ pc = "handler"
          /\ IF error # "" THEN Fail(error)
                           ELSE StartRoute(direction, request.min_amount, None)
      BY <1>6 DEF HandleFixed
    <2> HIDE DEF error, direction
    <2>3. QED
      BY <2>1, <2>2, Zenon
  <1>7. CASE HandleBestDirection
    <2> DEFINE error == FirstError(FixedArgsError, FirstError(RouteMintsError,
                 FirstError(QuoteAccountsError, MarketError)))
               required_out == request.min_amount + request.min_profit
    <2>1. /\ error = "" => request.min_profit > 0
          /\ error \notin PostLegErrors
      BY <1>2, <1>3, <1>4, EarlyErrors
    <2>2. pc = "handler"
      BY <1>7 DEF HandleBestDirection
    <2>3. \/ error # "" /\ Fail(error)
          \/ error = "" /\ \/ \E code : code \notin PostLegErrors /\ Fail(code)
                           \/ \E d, a, q : StartRoute(d, a, q)
      BY <1>7, EarlyErrors, Zenon DEF HandleBestDirection
    <2> HIDE DEF error
    <2>4. QED
      BY <2>1, <2>2, <2>3, Zenon
  <1>8. CASE HandleDynamic
    <2> DEFINE error == FirstError(DynamicArgsError, FirstError(RouteMintsError,
                 FirstError(QuoteAccountsError,
                 FirstError(Fails(balance_limited_max < request.min_amount,
                                  "InvalidDynamicAmountRange"),
                            MarketError))))
    <2>1. /\ error = "" => request.min_profit > 0
          /\ error \notin PostLegErrors
      BY <1>2, <1>3, <1>5, EarlyErrors
    <2>2. pc = "handler"
      BY <1>8 DEF HandleDynamic
    <2>3. \/ error # "" /\ Fail(error)
          \/ error = "" /\ \/ \E code : code \notin PostLegErrors /\ Fail(code)
                           \/ \E d, a, q : StartRoute(d, a, q)
      BY <1>8, EarlyErrors, Zenon DEF HandleDynamic
    <2> HIDE DEF error
    <2>4. QED
      BY <2>1, <2>2, <2>3, Zenon
  <1>9. QED
    BY <1>6, <1>7, <1>8

\* The two legs either fail or change nothing but the ledger and pc.
LEMMA LegsKeepTheFrame ==
  ASSUME FirstLeg \/ SecondLeg
  PROVE  \/ \E code : Fail(code)
         \/ /\ \/ pc = "first_leg" /\ pc' = "between_legs"
               \/ pc = "second_leg" /\ pc' = "finish"
            /\ UNCHANGED <<committed, cached, request, frame, receipt, outcome>>
  <1>1. CASE FirstLeg
    BY <1>1, Zenon DEF FirstLeg
  <1>2. CASE SecondLeg
    BY <1>2, Zenon DEF SecondLeg
  <1>3. QED
    BY <1>1, <1>2

\* A failure restores the trader's accounts.
LEMMA FailRestores ==
  ASSUME NEW code, Fail(code)
  PROVE  RollbackInv'
  BY DEF Fail, RollbackInv

LEMMA RollbackStep ==
  ASSUME TypeOK, RollbackInv, [Next]_vars
  PROVE  RollbackInv'
  <1>1. CASE Transfer
    BY <1>1 DEF Transfer, RollbackInv
  <1>2. ASSUME NEW r \in Requests, Submit(r)
        PROVE  RollbackInv'
    BY <1>2 DEF Submit, RollbackInv
  <1>3. CASE HandleFixed \/ HandleBestDirection \/ HandleDynamic
    <2>1. ASSUME NEW d, NEW a, NEW q, StartRoute(d, a, q), pc = "handler",
                 request.min_profit > 0
          PROVE  RollbackInv'
      <3>1. frame'.initial = cached
        BY <2>1 DEF StartRoute, NoFrame
      <3>2. QED
        BY <2>1, <3>1 DEF StartRoute, RollbackInv
    <2>2. QED
      BY <1>3, <2>1, RoutesStartWithProfit, FailRestores
  <1>4. CASE FirstLeg \/ SecondLeg
    BY <1>4, LegsKeepTheFrame, FailRestores DEF RollbackInv
  <1>5. CASE BetweenLegs
    <2>1. \/ \E code : Fail(code)
          \/ /\ pc = "between_legs" /\ pc' = "second_leg"
             /\ frame' = [frame EXCEPT
                  !.actual_target_delta     = cached'.target - frame.initial.target,
                  !.wsol_before_second_leg  = cached'.wsol,
                  !.required_second_leg_out = RequiredSecondLegOut(cached'.wsol)]
             /\ UNCHANGED <<ledger, committed, request, receipt, outcome>>
      BY <1>5, Zenon DEF BetweenLegs
    <2>2. QED
      BY <2>1, FailRestores DEF RollbackInv, TypeOK, Frame
  <1>6. CASE Finish
    <2>1. \/ \E code : Fail(code)
          \/ /\ pc = "finish" /\ pc' = "idle"
             /\ committed' = ledger /\ cached' = ledger /\ ledger' = ledger
             /\ request' = NoRequest
      BY <1>6, Zenon DEF Finish
    <2>2. QED
      BY <2>1, FailRestores DEF RollbackInv
  <1>7. CASE UNCHANGED vars
    BY <1>7 DEF vars, RollbackInv
  <1>8. QED
    BY <1>1, <1>2, <1>3, <1>4, <1>5, <1>6, <1>7 DEF Next, Execute

\* The rollback copy is what the running instruction started from.
THEOREM RollbackHolds == Spec => []RollbackInv
  <1>1. Init => RollbackInv
    BY DEF Init, RollbackInv
  <1>2. QED
    BY <1>1, TypeCorrect, RollbackStep, PTL DEF Spec

\* In every reachable state the promise's balances are the committed ones.
LEMMA PromisedBalances ==
  ASSUME RollbackInv
  PROVE  /\ (IF pc = "idle" THEN ledger.wsol ELSE committed.wsol) = committed.wsol
         /\ (IF pc = "idle" THEN ledger.target ELSE committed.target) = committed.target
  BY DEF RollbackInv

\* What a failed instruction is to the promise.
LEMMA FailAborts ==
  ASSUME RollbackInv, pc # "idle", NEW code, Fail(code)
  PROVE  Promise!Abort
  BY DEF Fail, RollbackInv, Promise!Abort, NoRequest

\* A step inside a route is invisible to the promise.
LEMMA RouteStepStutters ==
  ASSUME pc # "idle", pc' # "idle", UNCHANGED <<committed, request, receipt>>
  PROVE  UNCHANGED Promise!vars
  BY DEF Promise!vars

\* A landed route lands in the promise: enforce() compared the reloaded
\* accounts with the balances loaded on entry, which are the committed ones.
LEMMA FinishLands ==
  ASSUME TypeOK, RollbackInv, Finish
  PROVE  Promise!Abort \/ Promise!Land
  <1> DEFINE error == FirstError(IncreaseError(frame.wsol_before_second_leg, Reloaded.wsol),
                                 EnforceError(Reloaded))
  <1>1. pc = "finish"
    BY DEF Finish
  <1>2. CASE Fail(error)
    BY <1>1, <1>2, FailAborts
  <1>3. CASE /\ error = ""
             /\ pc' = "idle"
             /\ receipt' = [min_profit |-> request.min_profit,
                            initial_wsol_balance |-> frame.initial.wsol,
                            final_wsol_balance |-> Reloaded.wsol]
             /\ request' = NoRequest
             /\ UNCHANGED ledger
    <2>1. EnforceError(Reloaded) = ""
      BY <1>3, Zenon DEF FirstError
    <2>2. /\ Fails(ledger.wsol < required_final_wsol, "ProfitTooLow") = ""
          /\ Fails(ledger.target # frame.initial.target, "TargetBalanceNotRestored") = ""
      BY <2>1, Zenon DEF EnforceError, FirstError, Reloaded
    <2>3. ~(ledger.wsol < required_final_wsol) /\ ledger.target = frame.initial.target
      BY <2>2 DEF Fails
    <2>4. frame.initial = committed /\ request.min_profit > 0
      BY <1>1 DEF RollbackInv
    <2>5. ledger.wsol >= committed.wsol + request.min_profit
      <3>1. required_final_wsol = committed.wsol + request.min_profit
        BY <2>4, RequiredIsU64, Zenon
      <3>2. required_final_wsol \in Nat
        BY RequiredIsU64, Zenon
      <3>3. ledger.wsol \in Nat
        BY ComponentsTyped DEF U64
      <3>4. QED
        BY <2>3, <3>1, <3>2, <3>3
    <2>6. ledger.wsol \in 0..U64Max
      BY ComponentsTyped DEF U64
    <2>7. Promise!Land
      BY <1>1, <1>3, <2>3, <2>4, <2>5, <2>6
         DEF Promise!Land, Promise!U64, Reloaded, NoRequest
    <2>8. QED
      BY <2>7
  <1>4. QED
    BY <1>2, <1>3 DEF Finish

LEMMA PromiseStep ==
  ASSUME TypeOK, TypeOK', RollbackInv, [Next]_vars
  PROVE  [Promise!Next]_(Promise!vars)
  <1>1. CASE Transfer
    <2>1. ledger'.wsol \in 0..U64Max /\ ledger'.target \in 0..U64Max
      BY DEF TypeOK, Balances, U64
    <2>2. Promise!Transfer
      BY <1>1, <2>1 DEF Transfer, Promise!Transfer, Promise!U64
    <2>3. QED
      BY <2>2 DEF Promise!Next
  <1>2. ASSUME NEW r \in Requests, Submit(r)
        PROVE  Promise!Begin
    <2>1. r.min_profit \in 0..U64Max
      BY DEF Request, U64
    <2>2. QED
      BY <1>2, <2>1 DEF Submit, Promise!Begin, Promise!U64, RollbackInv,
                         NoReceipt, Promise!NoReceipt
  <1>3. CASE HandleFixed \/ HandleBestDirection \/ HandleDynamic
    <2>1. ASSUME NEW d, NEW a, NEW q, StartRoute(d, a, q), pc = "handler"
          PROVE  UNCHANGED Promise!vars
      BY <2>1, RouteStepStutters DEF StartRoute
    <2>2. QED
      BY <1>3, <2>1, RoutesStartWithProfit, FailAborts DEF Promise!Next
  <1>4. CASE FirstLeg \/ SecondLeg
    <2>1. pc # "idle"
      BY <1>4 DEF FirstLeg, SecondLeg
    <2>2. QED
      BY <1>4, <2>1, LegsKeepTheFrame, FailAborts, RouteStepStutters DEF Promise!Next
  <1>5. CASE BetweenLegs
    <2>1. /\ pc = "between_legs"
          /\ \/ \E code : Fail(code)
             \/ pc' = "second_leg" /\ UNCHANGED <<ledger, committed, request, receipt, outcome>>
      BY <1>5, Zenon DEF BetweenLegs
    <2>2. QED
      BY <2>1, FailAborts, RouteStepStutters DEF Promise!Next
  <1>6. CASE Finish
    BY <1>6, FinishLands DEF Promise!Next
  <1>7. CASE UNCHANGED vars
    BY <1>7 DEF vars, Promise!vars
  <1>8. QED
    BY <1>1, <1>2, <1>3, <1>4, <1>5, <1>6, <1>7 DEF Next, Execute, Promise!Next

\* Whatever the exchanges do, an instruction lands with the profit it asked for
\* and the target balance it found, or changes nothing.
THEOREM RouteImplementsPromise == Spec => ImplementsPromise
  <1>1. Init => Promise!Init
    <2>1. ASSUME Init
          PROVE  /\ ledger.wsol \in 0..U64Max /\ ledger.target \in 0..U64Max
                 /\ pc = "idle" /\ (pc # "idle") = FALSE /\ request.min_profit = 0
                 /\ receipt = NoReceipt
      BY <2>1 DEF Init, Balances, U64, NoRequest
    <2>2. QED
      BY <2>1 DEF Promise!Init, Promise!U64, NoReceipt, Promise!NoReceipt
  <1>2. QED
    BY <1>1, TypeCorrect, RollbackHolds, PromiseStep, PTL
       DEF Spec, ImplementsPromise, Promise!Spec

-----------------------------------------------------------------------------
(* Exchanges that keep to amount_in and min_amount_out.                    *)

\* What such an exchange leaves: exactly amount less in one account, at least
\* min_out more in the other.
LEMMA HonestOutcomes ==
  ASSUME DexModel # "arbitrary",
         NEW in \in U64, NEW out \in U64, NEW amount \in U64, NEW min_out \in U64,
         NEW expected_out,
         NEW balances \in DexOutcomes(in, out, amount, min_out, expected_out)
  PROVE  /\ balances[1] = in - amount
         /\ balances[2] >= out + min_out
  BY DEF DexOutcomes, U64

\* A failure that is not a post-leg check keeps the invariant.
LEMMA EarlyFailKeepsHonest ==
  ASSUME NEW code, code \notin PostLegErrors, Fail(code)
  PROVE  HonestInv'
  BY DEF Fail, HonestInv, ChecksAfterHonestLegsPass

\* The first leg pays at least one target token.
LEMMA HonestFirstLeg ==
  ASSUME DexModel # "arbitrary", TypeOK, RollbackInv, HonestInv, FirstLeg
  PROVE  HonestInv'
  <1> DEFINE error == IF frame.direction = PumpToMeteora THEN PumpError(TRUE) ELSE MeteoraError
  <1>1. error \notin PostLegErrors /\ "CpiError" \notin PostLegErrors
    BY EarlyErrors, Zenon
  <1>2. CASE Fail(error) \/ Fail("CpiError")
    <2> HIDE DEF error
    <2>1. QED
      BY <1>1, <1>2, EarlyFailKeepsHonest
  <1>3. ASSUME NEW balances \in
                 DexOutcomes(ledger.wsol, ledger.target, frame.amount_in, 1, None),
               pc = "first_leg",
               ledger' = [wsol |-> balances[1], target |-> balances[2]],
               pc' = "between_legs",
               UNCHANGED <<committed, cached, request, frame, receipt, outcome>>
        PROVE  HonestInv'
    <2>1. 1 \in U64
      BY DEF U64
    <2>2. balances[2] >= ledger.target + 1
      BY <2>1, ComponentsTyped, HonestOutcomes
    <2>3. balances[2] \in U64
      BY <2>1, ComponentsTyped, DexOutcomesAreU64
    <2>4. ledger.target = committed.target
      BY <1>3 DEF RollbackInv
    <2>5. ledger'.target > committed'.target
      BY <1>3, <2>2, <2>3, <2>4, ComponentsTyped DEF U64
    <2>6. QED
      BY <1>3, <2>5 DEF HonestInv, ChecksAfterHonestLegsPass
  <1>4. QED
    BY <1>2, <1>3 DEF FirstLeg

\* The second leg takes exactly what the first bought and pays what is missing.
LEMMA HonestSecondLeg ==
  ASSUME DexModel # "arbitrary", TypeOK, RollbackInv, HonestInv, SecondLeg
  PROVE  HonestInv'
  <1> DEFINE error == IF frame.direction = PumpToMeteora THEN MeteoraError ELSE PumpError(FALSE)
  <1>1. error \notin PostLegErrors /\ "CpiError" \notin PostLegErrors
    BY EarlyErrors, Zenon
  <1>2. CASE Fail(error) \/ Fail("CpiError")
    <2> HIDE DEF error
    <2>1. QED
      BY <1>1, <1>2, EarlyFailKeepsHonest
  <1>3. ASSUME NEW balances \in
                 DexOutcomes(ledger.target, ledger.wsol, frame.actual_target_delta,
                             frame.required_second_leg_out, frame.expected_out),
               pc = "second_leg",
               ledger' = [wsol |-> balances[2], target |-> balances[1]],
               pc' = "finish",
               UNCHANGED <<committed, cached, request, frame, receipt, outcome>>
        PROVE  HonestInv'
    <2>1. /\ OverflowError = ""
          /\ frame.actual_target_delta = ledger.target - committed.target
          /\ frame.wsol_before_second_leg = ledger.wsol
          /\ frame.required_second_leg_out = RequiredSecondLegOut(ledger.wsol)
      BY <1>3 DEF HonestInv
    <2>2. /\ frame.required_second_leg_out >= 1
          /\ ledger.wsol + frame.required_second_leg_out >= required_final_wsol
          /\ required_final_wsol \in Nat
      BY <2>1, RequiredIsU64, ComponentsTyped, Zenon
    <2>3. /\ balances[1] = ledger.target - frame.actual_target_delta
          /\ balances[2] >= ledger.wsol + frame.required_second_leg_out
      BY ComponentsTyped, HonestOutcomes
    <2>4. balances[1] \in U64 /\ balances[2] \in U64
      BY ComponentsTyped, DexOutcomesAreU64
    <2>5. ledger'.target = committed'.target
      <3>1. ledger.target \in Nat /\ committed.target \in Nat
        BY ComponentsTyped DEF U64
      <3>2. ledger'.target = balances[1] /\ committed' = committed
        BY <1>3
      <3>3. balances[1] = ledger.target - (ledger.target - committed.target)
        BY <2>1, <2>3, Zenon
      <3>4. QED
        BY <3>1, <3>2, <3>3
    <2>6. /\ balances[2] > ledger.wsol
          /\ balances[2] >= required_final_wsol
      BY <2>2, <2>3, <2>4, ComponentsTyped DEF U64
    <2>7. OverflowError' = OverflowError /\ required_final_wsol' = required_final_wsol
      BY <1>3 DEF OverflowError, required_final_wsol
    <2>8. QED
      BY <1>3, <2>1, <2>5, <2>6, <2>7 DEF HonestInv, ChecksAfterHonestLegsPass
  <1>4. QED
    BY <1>2, <1>3 DEF SecondLeg

\* Between the legs the target balance has grown, so only an overflow can fail.
LEMMA HonestBetweenLegs ==
  ASSUME TypeOK, RollbackInv, HonestInv, BetweenLegs
  PROVE  HonestInv'
  <1> DEFINE error == FirstError(IncreaseError(frame.initial.target, Reloaded.target),
                                 OverflowError)
  <1>1. pc = "between_legs"
    BY DEF BetweenLegs
  <1>2. frame.initial = committed /\ ledger.target > committed.target
    BY <1>1 DEF RollbackInv, HonestInv
  <1>3. ~(Reloaded.target <= frame.initial.target)
    BY <1>2, ComponentsTyped DEF Reloaded, U64
  <1>4. IncreaseError(frame.initial.target, Reloaded.target) = ""
    BY <1>3 DEF IncreaseError, Fails
  <1>5. error = OverflowError
    BY <1>4, Zenon DEF FirstError
  <1>6. error \notin PostLegErrors
    BY <1>5, EarlyErrors
  <1>7. CASE Fail(error)
    BY <1>6, <1>7, EarlyFailKeepsHonest
  <1>8. CASE /\ error = ""
             /\ pc' = "second_leg"
             /\ cached' = Reloaded
             /\ frame' = [frame EXCEPT
                  !.actual_target_delta     = cached'.target - frame.initial.target,
                  !.wsol_before_second_leg  = cached'.wsol,
                  !.required_second_leg_out = RequiredSecondLegOut(cached'.wsol)]
             /\ UNCHANGED <<ledger, committed, request, receipt, outcome>>
    <2>1. OverflowError = ""
      BY <1>5, <1>8
    <2>2. /\ frame'.initial = frame.initial
          /\ frame'.actual_target_delta = ledger.target - frame.initial.target
          /\ frame'.wsol_before_second_leg = ledger.wsol
          /\ frame'.required_second_leg_out = RequiredSecondLegOut(ledger.wsol)
      BY <1>8 DEF TypeOK, Frame, Reloaded
    <2>3. required_final_wsol' = required_final_wsol
      BY <1>8, <2>2, Zenon DEF required_final_wsol
    <2>4. /\ OverflowError' = OverflowError
          /\ RequiredSecondLegOut(ledger.wsol)' = RequiredSecondLegOut(ledger.wsol)
      BY <1>8, <2>3, Zenon DEF OverflowError, RequiredSecondLegOut
    <2>5. QED
      BY <1>2, <1>8, <2>1, <2>2, <2>4 DEF HonestInv, ChecksAfterHonestLegsPass
  <1>9. QED
    BY <1>7, <1>8 DEF BetweenLegs

\* The three checks after the second leg are already true.
LEMMA HonestFinish ==
  ASSUME TypeOK, RollbackInv, HonestInv, Finish
  PROVE  HonestInv'
  <1> DEFINE error == FirstError(IncreaseError(frame.wsol_before_second_leg, Reloaded.wsol),
                                 EnforceError(Reloaded))
  <1>1. pc = "finish"
    BY DEF Finish
  <1>2. /\ OverflowError = ""
        /\ frame.initial = committed
        /\ ledger.target = committed.target
        /\ ledger.wsol > frame.wsol_before_second_leg
        /\ ledger.wsol >= required_final_wsol
    BY <1>1 DEF RollbackInv, HonestInv
  <1>3. required_final_wsol \in Nat
    BY RequiredIsU64, Zenon
  <1>4. /\ ~(ledger.wsol <= frame.wsol_before_second_leg)
        /\ ~(ledger.wsol < required_final_wsol)
    <2>1. ledger.wsol \in Nat /\ frame.wsol_before_second_leg \in Nat
      BY ComponentsTyped DEF U64
    <2>2. ledger.wsol > frame.wsol_before_second_leg /\ ledger.wsol >= required_final_wsol
      BY <1>2, Zenon
    <2>3. QED
      BY <1>3, <2>1, <2>2
  <1>5. /\ IncreaseError(frame.wsol_before_second_leg, Reloaded.wsol) = ""
        /\ Fails(ledger.wsol < required_final_wsol, "ProfitTooLow") = ""
        /\ Fails(ledger.target # frame.initial.target, "TargetBalanceNotRestored") = ""
    BY <1>2, <1>4 DEF IncreaseError, Fails, Reloaded
  <1>6. error = ""
    BY <1>2, <1>5, Zenon DEF EnforceError, FirstError, Reloaded
  <1>7. pc' = "idle" /\ outcome' = "RouteCompleted"
    BY <1>6 DEF Finish
  <1>8. QED
    BY <1>7 DEF HonestInv, ChecksAfterHonestLegsPass, PostLegErrors

LEMMA HonestStep ==
  ASSUME DexModel # "arbitrary", TypeOK, RollbackInv, HonestInv, [Next]_vars
  PROVE  HonestInv'
  <1>1. CASE Transfer
    BY <1>1 DEF Transfer, HonestInv, ChecksAfterHonestLegsPass
  <1>2. ASSUME NEW r \in Requests, Submit(r)
        PROVE  HonestInv'
    BY <1>2 DEF Submit, HonestInv, ChecksAfterHonestLegsPass, PostLegErrors
  <1>3. CASE HandleFixed \/ HandleBestDirection \/ HandleDynamic
    <2>1. ASSUME NEW d, NEW a, NEW q, StartRoute(d, a, q)
          PROVE  HonestInv'
      BY <2>1 DEF StartRoute, HonestInv, ChecksAfterHonestLegsPass
    <2>2. QED
      BY <1>3, <2>1, RoutesStartWithProfit, EarlyFailKeepsHonest
  <1>4. CASE UNCHANGED vars
    <2>1. OverflowError' = OverflowError /\ required_final_wsol' = required_final_wsol
      BY <1>4 DEF vars, OverflowError, required_final_wsol
    <2>2. RequiredSecondLegOut(ledger.wsol)' = RequiredSecondLegOut(ledger.wsol)
      BY <1>4, <2>1 DEF vars, RequiredSecondLegOut
    <2>3. QED
      BY <1>4, <2>1, <2>2 DEF vars, HonestInv, ChecksAfterHonestLegsPass
  <1>5. QED
    BY <1>1, <1>2, <1>3, <1>4, HonestFirstLeg, HonestSecondLeg, HonestBetweenLegs,
       HonestFinish DEF Next, Execute

\* Against exchanges that keep to amount_in and min_amount_out no instruction
\* fails a check that follows a leg: required_second_leg_out is enough.
THEOREM HonestLegsPassTheChecks ==
  ASSUME DexModel # "arbitrary"
  PROVE  Spec => []ChecksAfterHonestLegsPass
  <1>1. Init => HonestInv
    BY DEF Init, HonestInv, ChecksAfterHonestLegsPass, PostLegErrors
  <1>2. ASSUME TypeOK, RollbackInv, HonestInv, [Next]_vars
        PROVE  HonestInv'
    BY <1>2, HonestStep
  <1>3. HonestInv => ChecksAfterHonestLegsPass
    BY DEF HonestInv
  <1>4. QED
    BY <1>1, <1>2, <1>3, TypeCorrect, RollbackHolds, PTL DEF Spec

\* Against such exchanges the trader's own target tokens are never sold, not
\* even while a route is half done.
THEOREM HonestRoutesSellOnlyWhatTheyBought ==
  ASSUME DexModel # "arbitrary"
  PROVE  Spec => []HoldingsNeverSold
  <1>1. Init => HonestInv
    BY DEF Init, HonestInv, ChecksAfterHonestLegsPass, PostLegErrors
  <1>2. ASSUME TypeOK, RollbackInv, HonestInv, [Next]_vars
        PROVE  HonestInv'
    BY <1>2, HonestStep
  <1>3. ASSUME TypeOK, RollbackInv, HonestInv
        PROVE  HoldingsNeverSold
    <2>1. pc # "idle" => ledger.target > committed.target \/ ledger.target = committed.target
      BY <1>3 DEF TypeOK, RollbackInv, HonestInv
    <2>2. QED
      BY <1>3, <2>1, ComponentsTyped DEF HoldingsNeverSold, U64
  <1>4. QED
    BY <1>1, <1>2, <1>3, TypeCorrect, RollbackHolds, PTL DEF Spec
=============================================================================
