---------------------------- MODULE RouteExecution ----------------------------
(***************************************************************************)
(* The on-chain program: one instruction of sol_arb_executor from the      *)
(* moment the runtime dispatches it to the moment its transaction lands or *)
(* is rolled back.  All four entry points are modelled.                    *)
(*                                                                         *)
(* The program runs between two calls into foreign programs, so a step is  *)
(* either a stretch of the program's own code (Handle*, BetweenLegs,       *)
(* Finish) or one cross-program invocation (FirstLeg, SecondLeg), whose    *)
(* effect on the trader's two token accounts the program does not control. *)
(* Program state:                                                          *)
(*    ledger     the amounts stored in the two token accounts              *)
(*    cached     the copies Anchor deserialized; only reload() renews them *)
(*    request    the instruction's arguments and the condition of the      *)
(*               accounts it was given                                     *)
(*    frame      the local variables of pump_to_meteora::execute or        *)
(*               meteora_to_pump::execute                                  *)
(*    pc         where the instruction is                                  *)
(* History:                                                                *)
(*    committed  the ledger before the running instruction                 *)
(*    receipt    the RouteCompleted event of the last instruction, if any  *)
(*    outcome    how the last instruction ended                            *)
(***************************************************************************)
EXTENDS DirectionChoice

CONSTANTS
  U64Max,    \* u64::MAX
  Requests,  \* the instructions that may be submitted
  Quotes,    \* the values an on-chain quote may return, None among them
  DexModel   \* what the exchanges may do: "arbitrary", "honest" or "quoted"

U64 == 0..U64Max

FixedEntry  == {"execute_pump_to_meteora", "execute_meteora_to_pump"}
QuotedEntry == {"execute_best_direction", "execute_best_direction_dynamic"}
Entry       == FixedEntry \cup QuotedEntry

\* What can be wrong with the accounts of an instruction:
\*   route_mints     validate_route_mints rejects them
\*   pump            pump_swap::validate rejects them
\*   cashback        pump_swap::cashback_sell_is_ready is false
\*   meteora         meteora_dlmm::validate rejects the pair or its reserves
\*   bin_arrays      one bin array is foreign, read-only or a duplicate
\*   quote_accounts  validate_quote_accounts rejects a config or bitmap account
\*   pool            the data of the Pump pool or of one of its vaults do not parse
\*   reserves        they parse, but the reserve of WSOL and the virtual part of it
\*                   do not fit a u64 together
\*   global          the data of the global config do not parse
\*   fees            no fees can be selected from the data of the fee config
\*   pair            the data of the DLMM pair do not parse
Fault == {"route_mints", "pump", "cashback", "meteora", "bin_arrays",
          "quote_accounts", "pool", "reserves", "global", "fees", "pair"}

\* The errors of errors.rs that these steps return (one name per enum variant),
\* the failure of a call into an exchange, and a landed route.
Outcome == {"", "InvalidAmount", "InvalidDynamicAmountRange", "InvalidRouteAccounts",
            "InvalidRemainingAccounts", "InvalidBinArray", "InvalidPool",
            "InvalidCashbackAccount", "InvalidAccountData", "ArithmeticOverflow",
            BestDirectionQuoteIncomplete, NoProfitableDirection,
            "BalanceDidNotIncreaseAsExpected", "ProfitTooLow",
            "TargetBalanceNotRestored", "CpiError", "RouteCompleted"}

\* The errors of the checks that follow a leg.
PostLegErrors == {"BalanceDidNotIncreaseAsExpected", "ProfitTooLow",
                  "TargetBalanceNotRestored"}

\* min_amount is wsol_amount_in for the entry points with one amount;
\* arrays is the number of remaining accounts.
Request == [entry : Entry, min_amount : U64, max_amount : U64, min_profit : U64,
            faults : SUBSET Fault, arrays : Nat]

ASSUME U64MaxAssumption   == U64Max \in Nat \ {0}
ASSUME RequestsAssumption == Requests \subseteq Request
ASSUME QuotesAssumption   == Quotes \subseteq U64 \cup {None}
ASSUME DexModelAssumption == DexModel \in {"arbitrary", "honest", "quoted"}

VARIABLES ledger, committed, cached, request, frame, pc, receipt, outcome

vars == <<ledger, committed, cached, request, frame, pc, receipt, outcome>>

MAX_METEORA_BIN_ARRAYS        == 8
MAX_BEST_DIRECTION_BIN_ARRAYS == 4

Balances == [wsol : U64, target : U64]

Frame == [direction : Direction, amount_in : U64, expected_out : U64 \cup {None},
          initial : Balances, actual_target_delta : U64,
          wsol_before_second_leg : U64, required_second_leg_out : U64]

Receipt == [min_profit : U64, initial_wsol_balance : U64, final_wsol_balance : U64]

NoBalances == [wsol |-> 0, target |-> 0]

NoFrame == [direction |-> PumpToMeteora, amount_in |-> 0, expected_out |-> None,
            initial |-> NoBalances, actual_target_delta |-> 0,
            wsol_before_second_leg |-> 0, required_second_leg_out |-> 0]

NoRequest == [entry |-> "execute_pump_to_meteora", min_amount |-> 0, max_amount |-> 0,
              min_profit |-> 0, faults |-> {}, arrays |-> 0]

NoReceipt == [min_profit |-> 0, initial_wsol_balance |-> 0, final_wsol_balance |-> 0]

TypeOK ==
  /\ ledger \in Balances
  /\ committed \in Balances
  /\ cached \in Balances
  /\ request \in Requests \cup {NoRequest}
  /\ frame \in Frame
  /\ pc \in {"idle", "handler", "first_leg", "between_legs", "second_leg", "finish"}
  /\ receipt \in Receipt
  /\ outcome \in Outcome

Init ==
  /\ ledger \in Balances
  /\ committed = ledger
  /\ cached = ledger
  /\ request = NoRequest
  /\ frame = NoFrame
  /\ pc = "idle"
  /\ receipt = NoReceipt
  /\ outcome = ""

-----------------------------------------------------------------------------
(* Plausible mistakes in the definitions below: for each property of the   *)
(* runs, one that must make the run find the property violated.            *)

CashbackIgnored             == TRUE
OverflowUnchecked           == ""
BalanceIgnored              == request.max_amount
ProfitOnly(wsol_before_second_leg) == request.min_profit
InputNotDeducted(wsol_before_second_leg) == frame.initial.wsol + request.min_profit
ProfitCheckOnly(final) ==
  IF final.wsol < frame.initial.wsol + request.min_profit THEN "ProfitTooLow" ELSE ""
EntryBalancesForgotten(direction, amount_in, expected_out) ==
  /\ pc' = "first_leg"
  /\ frame' = [NoFrame EXCEPT !.direction = direction, !.amount_in = amount_in,
                              !.expected_out = expected_out]
  /\ UNCHANGED <<ledger, committed, cached, request, receipt, outcome>>

-----------------------------------------------------------------------------
(* The runtime: it serializes instructions on the same token accounts,     *)
(* deserializes the accounts on entry, and rolls a failed one back.        *)

\* Between two instructions anybody may move the trader's tokens.
Transfer ==
  /\ pc = "idle"
  /\ \E balances \in Balances :
       /\ ledger' = balances
       /\ committed' = balances
       /\ cached' = balances
  /\ UNCHANGED <<request, frame, pc, receipt, outcome>>

Submit(r) ==
  /\ pc = "idle"
  /\ pc' = "handler"
  /\ request' = r
  /\ cached' = ledger
  /\ receipt' = NoReceipt
  /\ outcome' = ""
  /\ UNCHANGED <<ledger, committed, frame>>

\* The instruction returns the error "code"; the runtime undoes its effects.
Fail(code) ==
  /\ pc' = "idle"
  /\ outcome' = code
  /\ ledger' = committed
  /\ cached' = committed
  /\ request' = NoRequest
  /\ frame' = NoFrame
  /\ UNCHANGED <<committed, receipt>>

-----------------------------------------------------------------------------
(* The handlers, up to the first cross-program invocation.  An operator    *)
(* named ...Error is the error a check returns, "" when it passes.         *)

FirstError(e1, e2) == IF e1 # "" THEN e1 ELSE e2

Fails(condition, code) == IF condition THEN code ELSE ""

Has(fault) == fault \in request.faults

cashback_sell_is_ready == ~Has("cashback")

\* The handlers that quote leave the reverse direction out when the Pump sale
\* could not be executed.
ReverseIsQuoted == cashback_sell_is_ready

\* post_trade_checks::validate_args
FixedArgsError == Fails(request.min_amount = 0 \/ request.min_profit = 0, "InvalidAmount")

\* dynamic_amount::validate_args
DynamicArgsError ==
  Fails(\/ request.min_amount = 0
        \/ request.max_amount < request.min_amount
        \/ request.min_profit = 0, "InvalidDynamicAmountRange")

RouteMintsError == Fails(Has("route_mints"), "InvalidRouteAccounts")

BinArraysError ==
  FirstError(Fails(request.arrays = 0 \/ request.arrays > MAX_METEORA_BIN_ARRAYS,
                   "InvalidRemainingAccounts"),
             Fails(Has("bin_arrays"), "InvalidBinArray"))

PumpAccountsError == Fails(Has("pump"), "InvalidPool")

QuoteAccountsError ==
  FirstError(PumpAccountsError,
  FirstError(Fails(request.arrays > MAX_BEST_DIRECTION_BIN_ARRAYS, "InvalidRemainingAccounts"),
  FirstError(Fails(Has("quote_accounts"), "InvalidPool"),
             BinArraysError)))

\* What is read of the market before a quote, in the order of the code.
MarketError ==
  FirstError(Fails(Has("pool"), "InvalidAccountData"),
  FirstError(Fails(Has("reserves"), "ArithmeticOverflow"),
  FirstError(Fails(Has("global"), "InvalidAccountData"),
  FirstError(Fails(Has("fees"), BestDirectionQuoteIncomplete),
             Fails(Has("pair"), "InvalidAccountData")))))

\* Enter execute() of a direction: it remembers the balances Anchor loaded on
\* entry.  expected_out is the quoted output, None if nothing was quoted.
StartRoute(direction, amount_in, expected_out) ==
  /\ pc' = "first_leg"
  /\ frame' = [NoFrame EXCEPT !.direction = direction, !.amount_in = amount_in,
                              !.expected_out = expected_out, !.initial = cached]
  /\ UNCHANGED <<ledger, committed, cached, request, receipt, outcome>>

HandleFixed ==
  LET error == FirstError(FixedArgsError, RouteMintsError)
      direction == IF request.entry = "execute_pump_to_meteora"
                     THEN PumpToMeteora ELSE MeteoraToPump
  IN /\ pc = "handler"
     /\ request.entry \in FixedEntry
     /\ IF error # "" THEN Fail(error)
                      ELSE StartRoute(direction, request.min_amount, None)

HandleBestDirection ==
  LET error == FirstError(FixedArgsError, FirstError(RouteMintsError,
               FirstError(QuoteAccountsError, MarketError)))
      required_out == request.min_amount + request.min_profit
  IN /\ pc = "handler"
     /\ request.entry = "execute_best_direction"
     /\ IF error # "" THEN Fail(error)
        ELSE \E forward_out \in Quotes, reverse_out \in Quotes :
             /\ ~ReverseIsQuoted => reverse_out = None
             /\ LET choose_error == ChooseError(forward_out, reverse_out, required_out)
                    direction == ChosenDirection(forward_out, reverse_out, required_out)
                IN IF required_out > U64Max THEN Fail("ArithmeticOverflow")
                   ELSE IF choose_error # "" THEN Fail(choose_error)
                   ELSE StartRoute(direction, request.min_amount,
                          IF direction = MeteoraToPump THEN reverse_out ELSE forward_out)

balance_limited_max ==
  IF request.max_amount <= cached.wsol THEN request.max_amount ELSE cached.wsol

\* What a direction's search may return: a choice in the legal range whose
\* quoted profit reaches the minimum, or none.
SearchResult ==
  [best : {NoChoice} \cup
          {[amount_in |-> a, amount_out |-> a + p, profit |-> p] :
             a \in request.min_amount..balance_limited_max,
             p \in request.min_profit..U64Max},
   minimum_quote_complete : BOOLEAN]

NoSearch == [best |-> NoChoice, minimum_quote_complete |-> FALSE]

\* The totals of a curve may overflow, which ends the handler before any search
\* of that curve; a curve that cannot be quoted ends it like two empty searches.
HandleDynamic ==
  LET error == FirstError(DynamicArgsError, FirstError(RouteMintsError,
               FirstError(QuoteAccountsError,
               FirstError(Fails(balance_limited_max < request.min_amount,
                                "InvalidDynamicAmountRange"),
                          MarketError))))
  IN /\ pc = "handler"
     /\ request.entry = "execute_best_direction_dynamic"
     /\ IF error # "" THEN Fail(error)
        ELSE \/ Fail("ArithmeticOverflow")
             \/ \E forward \in SearchResult, reverse \in SearchResult :
                /\ forward.best.amount_out <= U64Max /\ reverse.best.amount_out <= U64Max
                /\ ~ReverseIsQuoted => reverse = NoSearch
                /\ LET decide_error == DecideError(forward, reverse)
                       choice == DecidedChoice(forward, reverse)
                   IN IF decide_error # "" THEN Fail(decide_error)
                      ELSE StartRoute(DecidedDirection(forward, reverse),
                                      choice.amount_in, choice.amount_out)

-----------------------------------------------------------------------------
(* The two adapters and the exchanges behind them.                         *)

\* What pump_swap::buy_exact_quote_in or ::sell checks before invoking Pump.
PumpError(is_buy) ==
  FirstError(PumpAccountsError, Fails(~is_buy /\ ~cashback_sell_is_ready, "InvalidCashbackAccount"))

\* What meteora_dlmm::swap2 checks before invoking Meteora.
MeteoraError == FirstError(Fails(Has("meteora"), "InvalidPool"), BinArraysError)

\* The amounts <<in, out>> the exchange may leave in the account it takes
\* "amount" from and in the account it pays to; none if it must fail.
\*   arbitrary  nothing is assumed of the exchange
\*   honest     it takes exactly amount and pays at least min_out
\*   quoted     it also pays what the program quoted on chain
DexOutcomes(in, out, amount, min_out, expected_out) ==
  IF DexModel = "arbitrary" THEN U64 \X U64
  ELSE {<<in - amount, out + paid>> :
          paid \in {p \in min_out..U64Max :
                      /\ in >= amount
                      /\ out + p <= U64Max
                      /\ DexModel = "quoted" /\ expected_out # None => p = expected_out}}

\* An exchange may refuse for reasons of its own unless it follows the quote.
DexMayRefuse(expected_out) == DexModel # "quoted" \/ expected_out = None

FirstLeg ==
  LET error == IF frame.direction = PumpToMeteora THEN PumpError(TRUE) ELSE MeteoraError
      outcomes == DexOutcomes(ledger.wsol, ledger.target, frame.amount_in, 1, None)
  IN /\ pc = "first_leg"
     /\ \/ /\ error # ""
           /\ Fail(error)
        \/ /\ error = ""
           /\ outcomes = {} \/ DexMayRefuse(frame.expected_out)
           /\ Fail("CpiError")
        \/ /\ error = ""
           /\ \E balances \in outcomes :
                ledger' = [wsol |-> balances[1], target |-> balances[2]]
           /\ pc' = "between_legs"
           /\ UNCHANGED <<committed, cached, request, frame, receipt, outcome>>

SecondLeg ==
  LET error == IF frame.direction = PumpToMeteora THEN MeteoraError ELSE PumpError(FALSE)
      outcomes == DexOutcomes(ledger.target, ledger.wsol, frame.actual_target_delta,
                              frame.required_second_leg_out, frame.expected_out)
  IN /\ pc = "second_leg"
     /\ \/ /\ error # ""
           /\ Fail(error)
        \/ /\ error = ""
           /\ outcomes = {} \/ DexMayRefuse(frame.expected_out)
           /\ Fail("CpiError")
        \/ /\ error = ""
           /\ \E balances \in outcomes :
                ledger' = [wsol |-> balances[2], target |-> balances[1]]
           /\ pc' = "finish"
           /\ UNCHANGED <<committed, cached, request, frame, receipt, outcome>>

-----------------------------------------------------------------------------
(* execute() between and after its two legs.                               *)

\* reload(): deserialize the token accounts again.
Reloaded == ledger

IncreaseError(before, after) == Fails(after <= before, "BalanceDidNotIncreaseAsExpected")

\* initial_wsol.checked_add(min_profit)
required_final_wsol == frame.initial.wsol + request.min_profit

OverflowError == Fails(required_final_wsol > U64Max, "ArithmeticOverflow")

\* required_final_wsol.saturating_sub(wsol_before_second_leg).max(1)
RequiredSecondLegOut(wsol_before_second_leg) ==
  IF required_final_wsol > wsol_before_second_leg
    THEN required_final_wsol - wsol_before_second_leg ELSE 1

BetweenLegs ==
  LET error == FirstError(IncreaseError(frame.initial.target, Reloaded.target), OverflowError)
  IN /\ pc = "between_legs"
     /\ IF error # "" THEN Fail(error)
        ELSE /\ pc' = "second_leg"
             /\ cached' = Reloaded
             /\ frame' = [frame EXCEPT
                  !.actual_target_delta     = cached'.target - frame.initial.target,
                  !.wsol_before_second_leg  = cached'.wsol,
                  !.required_second_leg_out = RequiredSecondLegOut(cached'.wsol)]
             /\ UNCHANGED <<ledger, committed, request, receipt, outcome>>

\* post_trade_checks::enforce
EnforceError(final) ==
  FirstError(OverflowError,
  FirstError(Fails(final.wsol < required_final_wsol, "ProfitTooLow"),
             Fails(final.target # frame.initial.target, "TargetBalanceNotRestored")))

Finish ==
  LET final == Reloaded
      error == FirstError(IncreaseError(frame.wsol_before_second_leg, final.wsol),
                          EnforceError(final))
  IN /\ pc = "finish"
     /\ IF error # "" THEN Fail(error)
        ELSE /\ pc' = "idle"
             /\ outcome' = "RouteCompleted"
             /\ receipt' = [min_profit |-> request.min_profit,
                            initial_wsol_balance |-> frame.initial.wsol,
                            final_wsol_balance |-> final.wsol]
             /\ committed' = ledger
             /\ cached' = ledger
             /\ request' = NoRequest
             /\ frame' = NoFrame
             /\ UNCHANGED ledger

-----------------------------------------------------------------------------
Execute ==
  \/ HandleFixed \/ HandleBestDirection \/ HandleDynamic
  \/ FirstLeg \/ BetweenLegs \/ SecondLeg \/ Finish

Next == Transfer \/ (\E r \in Requests : Submit(r)) \/ Execute

Spec == Init /\ [][Next]_vars

\* The runtime runs a dispatched instruction to its end.
FairSpec == Spec /\ WF_vars(Execute)

-----------------------------------------------------------------------------
(* Safety.                                                                 *)

\* Whatever the exchanges do, every instruction lands with the profit it
\* asked for and the target balance it found, or changes nothing.
Promise == INSTANCE AtomicArbitrage WITH
  wsol    <- IF pc = "idle" THEN ledger.wsol ELSE committed.wsol,
  target  <- IF pc = "idle" THEN ledger.target ELSE committed.target,
  running <- pc # "idle",
  asked   <- request.min_profit,
  receipt <- [profit  |-> receipt.min_profit,
              initial |-> receipt.initial_wsol_balance,
              final   |-> receipt.final_wsol_balance]

ImplementsPromise == Promise!Spec

\* With exchanges that honour amount_in and min_amount_out, the checks after
\* each leg never fail: the second leg's minimum output is already enough.
ChecksAfterHonestLegsPass == outcome \notin PostLegErrors

\* With such exchanges the trader's own target tokens are never sold: only
\* what the first leg bought is, even while the route is half done.
HoldingsNeverSold ==
  pc # "idle" => ledger.target >= committed.target

(* Inductive strengthenings of the above, used by RouteExecutionProofs.    *)

\* The rollback copy is what the instruction started from, and execute()
\* remembers exactly it; nothing is traded before a positive profit is asked.
RollbackInv ==
  /\ pc \in {"idle", "handler", "first_leg"} => ledger = committed /\ cached = committed
  /\ pc = "idle" => request = NoRequest
  /\ pc # "idle" => receipt = NoReceipt /\ request \in Requests
  /\ pc \in {"first_leg", "between_legs", "second_leg", "finish"}
       => frame.initial = committed /\ request.min_profit > 0

\* With exchanges that keep to amount_in and min_amount_out, the first leg
\* adds target tokens, and the second takes exactly those and pays enough.
HonestInv ==
  /\ ChecksAfterHonestLegsPass
  /\ pc = "between_legs" => ledger.target > committed.target
  /\ pc = "second_leg" =>
       /\ OverflowError = ""
       /\ ledger.target > committed.target
       /\ frame.actual_target_delta = ledger.target - committed.target
       /\ frame.wsol_before_second_leg = ledger.wsol
       /\ frame.required_second_leg_out = RequiredSecondLegOut(ledger.wsol)
  /\ pc = "finish" =>
       /\ OverflowError = ""
       /\ ledger.target = committed.target
       /\ ledger.wsol > frame.wsol_before_second_leg
       /\ ledger.wsol >= required_final_wsol

(* Liveness.                                                               *)

\* A route chosen from a quote the exchanges then honour lands, if the
\* accounts pass the Meteora adapter and the amounts it is paid fit in the
\* accounts: no check that comes after the choice asks for more than the choice
\* did, the Pump sale of the second leg is not one the adapter refuses, and the
\* dynamic entry point chooses an amount the balance pays.
ChosenRoute ==
  /\ pc = "first_leg"
  /\ request.entry \in QuotedEntry
  /\ ~Has("meteora")
  /\ request.entry = "execute_best_direction" => frame.amount_in <= ledger.wsol
  /\ ledger.wsol - frame.amount_in + frame.expected_out <= U64Max
  /\ ledger.target < U64Max

QuotedRouteLands ==
  ChosenRoute ~> (pc = "idle" /\ outcome = "RouteCompleted")
=============================================================================
