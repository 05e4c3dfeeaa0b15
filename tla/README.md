# Specifications of sol-arb-executor

These TLA+ modules model the parts of this repository whose correctness depends
on order, failure or exact integer arithmetic. TLC checks them on small
instances, and TLAPS proves the main safety results for every value of the
constants. Paths such as `sender-pipeline.ts:82` are relative to `src/scripts`
(TypeScript) or `src/programs/sol-arb-executor/src` (Rust).

    tlc -workers 2 -config route_arbitrary.cfg MCRouteExecution
    tlapm RouteExecutionProofs.tla

## 1. The system

An Anchor program on Solana buys a target token with WSOL on one exchange and
sells it on another, Pump (a constant-product pool) and Meteora DLMM (bins of
constant price), and takes effect only if the trader ends with a profit. Off
chain, a sender broadcasts batches of such transactions and a monitor reports
what became of each.

| Component | State | Operations | Interacts with |
| --- | --- | --- | --- |
| Route execution: `lib.rs`, `instructions/pump_to_meteora.rs`, `meteora_to_pump.rs`, `post_trade_checks.rs`, `utils/balance.rs` | two token accounts; Anchor's copies of them; the locals of `execute()` | four entry points; two legs; checks between and after | calls both exchanges through the adapters |
| Direction choice: `best_direction.rs`, `dynamic_amount.rs` | none | `choose_direction`, `better_choice`, the decision | the two quoting entry points |
| Dynamic search: `dynamic_amount.rs` | result of each direction | probe the minimum, search the range, decide | curve and quote arithmetic |
| DLMM walk and curve: `best_direction.rs`, `dynamic_amount.rs` | position, remainder, volatility; segments | `quote_dlmm_from_accounts`, `build_curve`, `DlmmCurve::quote` | bin arrays supplied with the instruction |
| Quote arithmetic: `quote/math.rs`, `quote/accounts.rs` | none | Pump buy and sale, bin quotes, fees, volatility | everything that quotes |
| Account parsing and validation: `quote/accounts.rs`, `utils/`, `adapters/` | none | fee tiers; byte offsets, owners, keys, discriminators | before every quote and every leg |
| Off-chain quotes: `quote/accounts.rs` (snapshots), `quote-probe/src/amount_search.rs` | none | quote a window of bins; try amounts, choose one | the arithmetic of the program |
| Concurrency gate: `sender-pipeline.ts` | `active`, `waiters` | `run`, `acquire`, `release` | tasks of the batch sender |
| Manifest writer: `sender-pipeline.ts` | `dirty`, `writing`; two files | `request`, `flush`, `drain` | sender writes, monitor and next run read |
| Batch sender: `mainnet-smoke.ts` | tasks, blockhash cache, issued signatures, records | schedule, sign, broadcast, record, restart | gate, writer, RPC node |
| Non-batch sender: `mainnet-smoke.ts` 1102-1162 | direction, attempt, signature in hand | simulate, sign, send, confirm, ask for the status, try again | RPC node, chain |
| Monitor: `mainnet-smoke-monitor.ts` | records, manifest as read, cached blocks | poll, decide, end | manifest, RPC node |
| Other scripts, test programs | - | see section 7 | - |

Behaviours that are hard to test, and what must hold all the same:

* **Rollback between legs.** A check that fails after the first leg has paid.
  An instruction changes nothing or lands with the profit it was asked for.
* **Stale copies.** Anchor deserializes the token accounts once. What `execute()`
  measures must be what the exchanges did.
* **Two ways to quote.** The curve answers many amounts from one walk and must
  agree with the walk the fixed-amount entry point makes for each.
* **Rounding.** Fees, bins and the analytic optimum are rounded separately.
* **Interleaving of async functions.** Any await of the sender may be followed
  by any other task, the timer or a failure.
* **Kills.** A run continues from the manifest, whatever was on its way.
* **Unknown fates.** A transaction whose confirmation failed may still land while
  the next attempt is signed.
* **A chain that moves between two RPC answers**, and drops blocks.

`PROJECT.json` lists each hazard at its line with the properties that cover it.

## 2. Modules

Every module that models code declares its parameters as `CONSTANTS` with named
assumptions, states its properties at the end, and holds next to them small
operators called "plausible mistakes". A mistake replaces one definition of the
model to show that a property notices it.

### Route execution

`AtomicArbitrage` is the promise to the trader: an instruction either leaves
both accounts as they were, or raises the WSOL account by at least the profit
that was asked for, leaves the target-token account as it was, and reports the
true balances. `RouteExecution` is the program: its steps are the stretches of
code between two calls into foreign programs, and those calls.

| Code | Model |
| --- | --- |
| dispatch, Anchor's deserialization | `Submit` (sets `cached`) |
| `pump_to_meteora::handler`, `meteora_to_pump::handler` | `HandleFixed` |
| `best_direction::handler` | `HandleBestDirection` |
| `dynamic_amount::handler` | `HandleDynamic` |
| `execute()` of either direction | `StartRoute`, `FirstLeg`, `BetweenLegs`, `SecondLeg`, `Finish` |
| an error | `Fail`: the runtime undoes everything |
| other transactions of the trader | `Transfer` |

Both directions have the same `execute()` up to the order of the adapters, so
`frame.direction` selects what a leg checks. What is wrong with the accounts of
an instruction is a set of faults, one for each validation, because what matters
is when each is found: those of the data that are parsed for a quote ("pool",
"reserves", "global", "fees", "pair") in the order of the code. A search may also
end with an overflow of the totals of a curve. Quotes and search results are any
values the checks of the handlers let through: how they come about is the matter of `DynamicSearch`,
which is proved to implement the action `HandleDynamic` (section 5).

The exchanges are external. `DexModel` says what is assumed: "arbitrary" is
nothing (they may leave any balances in the two accounts), "honest" takes
exactly `amount_in` and pays at least `min_amount_out`, and "quoted" pays what
was quoted on chain when something was, and is honest otherwise.

`DirectionChoice` holds the two pure choices between directions.

### Quoting and searching

| Module | Code |
| --- | --- |
| `QuoteMath` | `quote/math.rs`: Pump buy and sale, quotes of a bin, fees, volatility |
| `PumpFees` | `quote/accounts.rs`: the fee config, its tiers, and the two ways to select the fees of a pool (from the raw account, and from the parsed config) |
| `DlmmCurve` | the production walk over bins, `build_curve()`, `DlmmCurve::quote()` |
| `Normalized` | the mantissa-and-exponent numbers of `dynamic_amount.rs`, the root, and the interval test that saves computing it |
| `DynamicSearch` | `select_dynamic()` |
| `QuoteProbe` | the quote from a snapshot of bins, and `choose()` of the quote probe |

Each extends the ones it uses. The constants of the code (basis points, the
fixed point of prices, the widths of integers, the bits of a mantissa) are
`CONSTANTS`. `DynamicSearch` has one action for each stage of `select_dynamic()`
(`ParseMarket`, `ProbeForward`, `ProbeReverse` or `SkipReverse`, `SearchForward`,
`SearchReverse`, `KeepProbe`, `Decide`). The stages are deterministic: what varies
is the accounts, chosen in `SearchInit`. The loops over bins, the binary searches
and Newton's iteration are recursive functions of the number of rounds.

Errors of the arithmetic of a quote are one value, `NoQuote`, since every caller
treats them alike. The walk that builds a curve stops with one of two
(`CurveErrors`), which the handler returns: that of a quote, or that of totals
which overflow. Overflow is kept: an amount above `U64Max`, or an intermediate value
above `U128Max`, is an error where the code uses checked arithmetic.

### Sender and monitor

`ConcurrencyGate` and `ManifestWriter` are the two classes of
`sender-pipeline.ts`, a step being the code between two awaits. In
`ManifestWriter` several calls of `drain()` could run, and the file operations
are steps of their own, so that one writer at a time is a consequence of the
code.

`BatchSender` extends `ConcurrencyGate` with the batch mode of
`mainnet-smoke.ts`: its tasks are the callers of the gate. Its writer has no file
operations: a rendering replaces the manifest in one step, and a change while it
is written is written next. `step[o]` is the await at which the task of ordinal
`o` is:

| `step` | Code |
| --- | --- |
| asleep, gate | the sleep before signing; `gate.run` |
| selecting, refreshing, signing | `freshBlockhash()`, `transactionFor()` |
| duplicate, refreshing_again | the signature was issued before: `sleep(50)`, `refreshBlockhash()` |
| timer, rpc, slot | the scheduled time; `sendRawTransaction`; the sampled slot |
| failed, backoff | the catch block and its `sleep(100)`, after the blockhash call or the signing (`SignFails`) has thrown |
| ended | recorded (or not scheduled) |

A signature is a direction and a blockhash. In the code the instruction also
depends on the route snapshot of the task, so two tasks with one blockhash
may still differ; the model meets every duplicate the code can, and more.

`ManifestStore` is what the manifest file promises its users, without saying how:
it loses nothing, holds only what was once in memory, and `flush()` returns when
it has what the memory had at the call. `ManifestWriter` implements it with file
operations, and `BatchSender`, whose writing is one step, stays within it: the
store is the interface at which the two were cut apart.

`SingleSender` is the mode without a batch: the simulations, then one direction
after the other in up to three attempts. Its chain lands, confirms, drops and
expires transactions; a call that fails may have done its work at the node.
`doubtful` is a history variable with the signatures about which a call failed.

`Monitor` composes the polling loop with a chain of blocks that are first
visible and then confirmed or replaced, and with a manifest that grows. A
record stands for its place in the monitor's `Map`, which is the order in which
the polls found the records, and within a poll that of the manifest; a group is
taken in this order. Asked for a block that was dropped, the node answers
without signatures (`ReadBlock`), or with an error that ends the poll
(`BlockRefused`). `Publish` is what `BatchSender` does to the manifest of a run that is not killed.

## 3. Runs

| Run | Instance | What it shows |
| --- | --- | --- |
| `route_arbitrary` | `U64Max = 3`, all four entry points, every fault alone and three pairs, 0 to 9 bin arrays | `ImplementsPromise` (refinement of `AtomicArbitrage`) against exchanges that do anything |
| `route_quoted` | `U64Max = 4`, exchanges that keep to the arguments and to the quote | the checks after the legs never fail, own tokens are never sold, a quoted route lands (liveness): the chosen amount can be paid, the sale is not one the adapter refuses, and the outputs asked for are those that were quoted |
| `search` | 5,424 searches: three pools and 103 pairs of ten bins in arrays of two, walks of at most four bins and two arrays; 240 odd fee configs; amounts 8..56 and 8..8 | the curve and the off-chain snapshot answer as the production walk; the selected amount is worth what it promises and no other is worth more but for rounding; no profit is only said when both minimums were quoted (of larger amounts, see `search_gate`); the search keeps what the probe found; the interval test never drops an interior optimum; both selections of fees agree; the quote probe chooses as the program does |
| `gate` | 5 callers, 2 permits | never more than two run, no permit idles, everyone gets a turn |
| `writer` | 2 drains, 2 flushers, 4 versions | the manifest is whole, has what `flush()` and `request()` promise, and `ImplementsStore` (refinement of `ManifestStore`) |
| `sender` | 3 ordinals of one direction, 2 slots, one kill, failing request or failing signing | what is in flight is bounded, no run broadcasts an ordinal twice, no signature is recorded twice, no ordinal has more records than broadcasts, a complete manifest is whole (without a kill: one record of each ordinal, sent once), `KeepsTheStore`, and the batch completes |
| `single` | 2 directions, 2 failing calls | while calls answer no attempt is made that could trade a second time, a lost answer costs at most one further trade, success is only reported of trades in every direction, and the program ends |
| `monitor` | 2 transactions, 3 heights, 1 signature to a call, 1 failing call, dropped blocks answered or refused | verdicts are not premature, are final, and monitoring ends |
| `sender_redo`, `monitor_fork`, `search_gate`, `search_dust` | see section 4 | what a document says and the code does not do |

**Why these bounds.** In `route_*` the program only adds, subtracts and compares
balances, so 0..3 has all the orders of a balance, an input, a profit and the
largest number; the proofs remove the bound. In `gate`, five callers leave three
waiting, so a newcomer meets a queue that is longer than one. In `writer`, four
versions are one in the manifest, one being written, one dirty and one more; the
proofs remove the bound there too. In `sender`, three ordinals are one more than
the slots, and their transactions are of one direction so that all can collide.
`MaxFaults` counts kills, failing requests and failing signings together; one is enough for what one
run leaves to the next, because the next run reads nothing but the manifest, and
the safety proofs are of any number. In `single`, two failures let two of the
three attempts have an unknown fate; the proofs remove this bound as well. In
`monitor`, heights 1 and 2 are the last valid ones of the two transactions, in
the order of the records (the proofs are of any), and height 3 is beyond both; one signature to a call makes two groups.

In `search` the units are small (40 basis points to the whole, prices in
twelfths), so that a fee of a few percent rounds on amounts of ten to fifty as
the real one does on lamports. The markets vary the position of the active bin
in its array, the price around that of the pool (gain in either direction or
none), the depth (four bins to a route, or a best amount inside one bin), a
missing array, an array outside the default bitmap, the fee
mode, the side of the target token, the age of the volatility (kept, decayed),
its reference bin, limit orders on either side, and bins too deep to be quoted
at all. The odd fee configs have thresholds out of order, state fewer tiers than
there are, or more, and meet empty and overflowing reserves. `MaxTiers = 3`
(64 in the code) leaves one count of tiers above it. `Trials` are amounts of
which several pay the same, so that ties are met. `RoundingLoss = 2` is what the
properties concede to rounding: the estimate of the interior point is an integer
near the real optimum, and the ends of a segment are not exactly the inputs that
reach them.

The numbers of `Normalized` have 64 bits in the code, which just hold a u64, and
its test a margin of 32. `MantissaBits = 11` just holds `U64Max = 2000`, and
`RootMargin` is that of the code, so products and quotients are cut off as often,
and against the same margin. `search_gate` has larger amounts and 15 bits.
`WidestBits = 30` stands for 128 and is what TLC's integers allow. `NewtonRounds`
bounds the loop of `integer_sqrt()`; it is at least `MantissaBits`, after which many
rounds the loop has always stopped (`IntegerSqrtIsFloor`), so it cuts nothing off.
`MaxExactOutput` is where the exact
products of `PrefilterKeepsRoots` no longer fit the integers of TLC.

TLC checks deadlock in `route_*`, `gate` and `writer`. The other runs may stop:
the search, the batch, the non-batch sender and the monitor end.

**Fairness.** `FairSpec` of `RouteExecution`: the runtime runs an instruction to
its end. `GateFairSpec`: a resolved promise resumes its code and a task ends;
nobody has to call again. `WriterFairSpec`: the file system answers.
`SenderFairSpec`: sleeps end and calls answer (weak fairness of each task, of
`main()`, the writer and the timer), and of the answers to blockhash requests
some carry a blockhash nobody was handed before (strong fairness of
`RefreshNew`): the chain makes one every 400 ms, while the node may answer with
an old one any number of times. `SingleFairSpec`: calls answer when there is
something to answer (weak fairness of `MainStep`), and the transaction in hand is
decided, since a block that is only processed does not stay so and a blockhash
gets too old (strong fairness of `Decide`, because a block may be dropped and
come back meanwhile). `MonitorFairSpec`: sleeps end, calls answer, the
chain grows, the sender finishes. No fairness is assumed of failures, kills,
restarts, or of transactions landing.

## 4. Where documents and code differ

* **`sender_redo`.** `README.md:255` says that only a failure before building or
  signing retries the same ordinal. `firstOrdinal` is `records.length + 1`
  (`mainnet-smoke.ts:871`), but records are made in the order of the answers.
  Killed when ordinal 2 is recorded and ordinal 1 is not, the next run starts at
  2: 2 is broadcast twice, 1 never recorded.
* **`monitor_fork`.** `README.md:247` says a record has the slot its transaction
  landed in. The slot is that of a status that may be of a block which is only
  processed (`mainnet-smoke-monitor.ts:286`); when the cluster confirms another
  block with the transaction before `getTransaction()` answers, the report names
  the dropped one, and the outcome it had there. This needs a node that answers
  `getBlock` of the dropped block without an error
  (`response.result?.signatures ?? []`, line 128); with an error the poll ends and
  a later one decides.
* **`search_gate`.** The comment at `dynamic_amount.rs:404` and ADR-009 say that a
  direction without a gain at the minimum has none in the range. The variable
  fee depends on the distance of a bin from the reference of the volatility. If
  the active bin moved away from it shortly before, a walk back towards it pays
  less with every bin: in the run, the minimum of 100 is paid 99 and a larger
  amount gains 5. The consequence is a gain missed, never a loss.
* **The dips of Pump** (proved: `QuoteMathProofs`, `BuyDips`). The comment at
  `dynamic_amount.rs:1111` calls the Pump output monotonic in the input, and the
  binary search below it relies on that; `docs/architecture.md:46-47` says that an
  incomplete large amount never invalidates a smaller complete one. Three fees
  are rounded up each on its own: with 20, 5 and 5 basis points, 2008 units leave
  less for the pool than 2006. Where the minimum lies at a dip and the curve ends
  there, the search may miss the minimum and what its probe found. By
  `BuyNearlyRises` three units more never buy less, so this concerns minimums within
  two units of a dip.
* **`search_dust`.** `docs/architecture.md:34-35` says that every candidate is
  re-quoted with the production arithmetic. It is quoted on the curve, and the
  curve passes a bin that yields nothing after the fee without taking input
  (`dynamic_amount.rs:859`), where the production walk spends an input on it. With
  one unit left in a bin the selection promises up to a unit too much; the
  minimum output of the second leg still protects the trader.

## 5. Proofs

All are safety results, for every value of the constants that the named
assumptions allow. Liveness stays with TLC: it needs `ENABLED`, which the prover
does not reason about.

**`RouteExecutionProofs`.** `TypeCorrect` proves `[]TypeOK` directly: all sums are
compared with `U64Max` before they are kept. `RouteImplementsPromise` needs more
than types: after the first leg the ledger may hold anything, so the invariant
`RollbackInv` says that `committed` is what the runtime restores, that `execute()`
remembers exactly this in `frame.initial`, and that nothing is traded unless a
positive profit is asked. Then each error maps to `Abort`, `Finish` maps to
`Land`, and all steps in between stutter. The theorem is of any `DexModel`.
`HonestLegsPassTheChecks` and `HonestRoutesSellOnlyWhatTheyBought` assume
exchanges that are not "arbitrary"; `HonestInv` carries what the first leg paid
and what the second must pay from leg to leg.

**`ConcurrencyGateProofs`.** `GateInv` says that `active` counts the holders, that
somebody waits only when it is at the limit, and that the queue has the waiting
callers, each once. The last is what keeps the hand-over of a permit to the head
of the queue from waking one caller twice. Assumed: a finite set of callers and a
positive limit.

**`ManifestWriterProofs`.** `WriterInv` says that only the call `this.writing`
stands for runs, that what it has rendered is not older than the manifest, and
that a caller of `flush()` whose records are not in the manifest is covered by a
rendering under way or by `dirty`. From this follow `ManifestIsWhole`,
`ManifestNeverGoesBack` and `FlushKeepsItsPromise`, and `WriterImplementsStore`: a
rename is a `Write` of the store, every other step of a drain changes nothing
there, and a torn file would hold an item that never was in memory.

**`BatchSenderProofs`** uses the lemmas about the gate, whose steps the tasks take.
Its invariant has a part for each reason the properties hold: who is between the
permit and the answer holds a permit (`InsideRuns`); a task that has not yet
broadcast was only broadcast by runs before (`NotYetSent`); signatures in hand
are issued, differ from each other and from those on record
(`SignaturesDiffer`); the records are those the run found and one for each task
that has ended (`RunCounted`), which is why a complete manifest has
`TransactionCount` of them; every record is of a broadcast of its own
(`EachBroadcast`), and as long as no run was killed the run has found none
(`Unbroken`), so that each ordinal has exactly one; manifest, rendering and memory are a chain of sets
(`RecordsGrow`), and what is on neither way to the file makes the writer dirty
(`Unwritten`). The theorems are of every number of ordinals, slots, kills and
failing calls: `SlotsBoundBroadcasts`, `OneBroadcast`, `SignaturesRecordedOnce`,
`CompleteHasAll`, `RecordsStay`, and `SenderKeepsTheStore`, where `main()` goes on
after a flush because nothing is being written, and by `Unwritten` nothing is
missing. `SenderTypeCorrect` is more than types: the model numbers blockhashes up to
`MaxHash`, and a step for which there was no number left would be missing. By
`HashesAreUsed` every blockhash of a run is with a task of its own, since the first
task to sign with it keeps it, or lost with a signing that failed; so a run uses
no more than it has ordinals, and one for each failure (`Spent`).

**`SingleSenderProofs`.** A signature that the program has turned its back on is
dead, was confirmed, or is doubtful, and the one in hand is so as soon as the
program may give it up (`InHandAccounted`, with a conjunct for the places of
`main()` at which the fate is known and one for those at which it is not yet
sent). A direction has a confirmed signature only once `main()` is done with it
(`NotDone`), so the next one to be sent meets doubtful ones of its direction and no
others (`TradesOnce`): a lost answer costs one further trade at most. Nothing in
the repository says that an answer that was lost costs none, and the code does
sign again. `GivenUpStaysDead` and `DoneTraded` follow for any directions and any
number of failing calls.

**`MonitorProofs`.** A block height that was read is past (`HeightIsPast`), and what
had no status at that height and cannot land any more is dead (`AbsentIsDead`,
`ExpiredIsDead`): this needs the order of the two calls, height first. A verdict
other than expiry waits for a transaction on the confirmed chain
(`NextIsConfirmed`). The lists of the poll hold only undecided records
(`PollIsPending`), so that no decision is overwritten. Proved are
`MonitorTypeCorrect`, `ExpiredStaysOut`, `OutcomesAreConfirmed`, `EndIsComplete` and
`DecisionsStay`, for every set of transactions, last heights, group size and
number of failing calls.

**`QuoteMathProofs`** is about the arithmetic for all reserves, prices, fees and
amounts. Division and rounding up are first given their two defining
inequalities; then adding a fee and taking it off again are shown to be a Galois
connection (`FeeGalois`), which is what all that follows turns on.
`BuyIsPaidFor`: the effective amount and its fees never cost more than the input,
although they are found from an estimate that may be too high, and the product
of the reserves does not fall. `SaleIsCovered`: a sale is paid from the real
reserve, never the virtual one. `BinIsQuoted`: a bin that has something to give is
always quoted, so the refusal of a gross amount above the input is dead code.
`MoreInputGivesNoLess`: the output of a bin is monotone. `SegmentIsBin`: up to its
capacity a segment of the curve answers, to the unit, as the bin it was built
from. The last has one exception, found by proving it: a bin that takes exactly
what the fee leaves of the largest u64. No pool holds that many tokens.
`BuyNearlyRises` and `BuyDips` are about section 4: a Pump buy may buy less for an
input of one or two units more, never for three. `SegmentIsBin` and what follows
assume `FeeCapAssumption` (the fee of a bin is capped at half the precision or
less; the code has a tenth) and `U64Max > 1`.

**`DynamicSearchProofs`** is about the walks and the search, for all markets,
amounts, numbers of bins and arrays, and units.

*Induction.* The library's induction theorems take the hypothesis as an operator,
which the provers cannot instantiate. `InductionUpTo` says the same of a set: the
rounds of a loop after which something holds. A recursive function of TLA+ is a
`CHOOSE`, so each walk is first shown to be a function that solves its equation
(`WalkExists`); for that all loops are instances of one `Round`.

*Markets.* The theorems about the curve are of `Smooth` pairs: a fee is charged,
and no bin holds so little that nothing is left of it after the fee. The run
`search_dust` shows what happens without. That the markets of the other two
searches are smooth is an `ASSUME` which TLC evaluates (`MarketsAssumption`).

*The curve.* `CurveIsProductionAlways`: curve walk and production walk are compared
round by round. For a given amount they are `Together` at the same bin; or the
production walk has sold all and a segment answers (`Answered`); or the amount is
a unit more than what the curve covers so far, left over by the rounding of a fee
(`UnitMore`); or the curve has ended before the amount (`Beyond`). The binary
search over segments then finds the one the amount lies in. The unit is the
exception that `CurveIsProduction` concedes, and the proof shows it is the only one.
`SnapshotIsProductionAlways` needs no hypothesis: a walk moves at most one bin in a
round, so the window has all it can reach.

*The search.* `SearchInv` says of each direction what its probe or search has
established: a choice lies in the range, production pays for it, no candidate
pays more, and if there is none the minimum does not pay. With the lemmas about
candidates (all lie in the range, the minimum is one) it gives
`SearchTypeOKAlways`, `SelectedIsProductionAlways` and `NoProfitIsCompleteAlways`.

*The best of what is tried.* `BestInv` says of each direction that its best choice
beats every amount the search tries, and of the decision that it is the better of
the two; so `SelectionIsBestAlways`: no amount that was tried pays more than the
selected one, and with none selected no such amount pays enough. A direction whose minimum has no
gain is not searched; that this may miss something is the matter of `search_gate`.
`ReverseEndsAreTried` says what is tried in the reverse direction: both ends of
the segments in the range. Together they are the half of `NearOptimal` that holds
exactly; the other half, what may be missed strictly inside a segment, is the
rounding that only TLC measures.

*The search is the handler.* `SearchImplementsHandler` joins the two largest models.
`RouteExecution` lets a search return any choices that lie in the range, promise
the profit and add up, and proves what the trader is promised from that alone. The
theorem reads `DynamicSearch` as an instruction that waits in the handler until the
search is done (`Route`, an `INSTANCE` whose `pc`, `frame` and `outcome` are given by
`phase` and `selection`) and shows that every step is `HandleDynamic` or changes
nothing: the route starts with the selected direction, amount and output, and a
refusal carries the same error. It needs `min_profit > 0`, which `validate_args()`
checks before the search (`BoundsAssumption`).

*The probe.* `ProbeIsKeptAlways`: a search never ends with less than its probe
found. A curve built for more input covers no less (`CurvesGrow`), the largest limit
is at least what the minimum buys (`ForwardLimitsRise`), and a binary search asks
for nothing below half the minimum (`LargestKeeps`), so it ends no lower than the
minimum. The reverse direction needs only smooth markets (`ReverseIsKeptAlways`). The
forward one asks Pump for amounts between, and is wrong at a dip: `Steady` says
that the minimum is not at one (`MinimumsAssumption`, again evaluated by TLC). The
hypothesis was found by a counterexample of TLC: with a pool of 600 to 300, three
fees of 1/40, a minimum of 43 and a maximum of 45, a probe that gains 5 is
followed by a search that gains 2.

*The interval test.* `PrefilterKeepsRootsAlways`: the test that saves computing a root
never drops a segment that has the point inside. A number is weighed with powers of
two from a base below all exponents that occur, so that weights are integers
(`Weight`), and comparing numbers is comparing weights (`LessIsLess`). A number taken
from an integer that fits a mantissa is exact; each product then loses at most
one unit in `One`, each quotient at most two (`MultiplyIsClose`, `DivideIsClose`), so a
ratio of four factors and two divisors loses eight and a square three
(`RatioIsClose`, `SquareIsClose`). `PrefilterIsSound` turns this into what the margin must
be: with roots `r` of at most twice a u64, `8 * r <= RootMargin * One`. `MarginCovers`
collects this, and for numbers of 64 bits 32 is the least margin that satisfies it:
the constant of the code has nothing to spare in this argument. `FeesFit` says that
the fees with the basis points fit a u64, as sums of u16 do. That both hold of the
instance is again an `ASSUME` (`MarginAssumption`).

*The root.* `IntegerSqrtIsFloor`: a round of Newton's method never goes below the root,
by the inequality of the two means, and halves the distance to it or better
(`NewtonFalls`, `NewtonHalves`). The first estimate is a power of two of at most the
width of a mantissa, so after as many rounds as a mantissa has bits the distance is
less than one: 64 rounds bound the loop of the code, which has no other bound.
`SqrtFloorIsFloor` follows for the number as a whole: halving the exponent and cutting
places off after the root, instead of before, gives the floor all the same.

*Others.* `SelectionsAgreeAlways`: the tiers read from raw bytes and those of the
parsed config select the same fees, in any order and number.
`ProbeChoosesAlikeAlways`: the quote probe keeps, while it walks the rows, the
choice that the program's order puts before all others; on a draw the earlier
row, which is why `TrialsAssumption` says that the amounts ascend.

## 6. Only model-checked

* Liveness: `QuotedRouteLands`, `EveryWaiterRuns`, `RequestsReachTheManifest`,
  `BatchCompletes`, `SingleEnds`, `MonitoringEnds`.
* `NearOptimal`, for what it says of amounts the search does not try. `RoundingLoss`
  is what was measured on the markets of the run; a bound for all markets would need
  the analysis of the real-valued optimum. That the selection beats every amount
  that is tried is proved (`SelectionIsBestAlways`), as are the exactness of the root
  behind the interior point and that the interval test drops none.

## 7. Not modelled

* **Single account comparisons** (keys, owners, discriminators, token extensions)
  and byte offsets: stateless, one condition to one account, pinned by unit tests
  and by parity tests against captured accounts. `RouteExecution` keeps their
  order and their errors.
* **The encoding of instruction data** in the adapters.
* **Fee modes and function types that do not exist.** The walks
  refuse a pair with a `collect_fee_mode` above 1 or a function type above 2
  (`quote/accounts.rs:454-469`) before any bin is quoted; the pairs of the model have
  values that the DLMM program defines.
* **Events, statistics, the failure log.**
* **Route construction** in `mainnet-smoke.ts` (457-681). The route snapshot is
  replaced in one assignment and its age bounds nothing; an instruction made from
  an old one can only fail on chain, as in `RouteExecution`.
* **Account and lookup-table preparation:** straight-line setup before anything is
  sent.
* **`wrap-sol.ts`, measuring, capturing and simulating scripts,** and the files of
  the quote probe that only measure compute units: sequential tools. The mock
  exchanges are a special case of what `RouteExecution` allows exchanges to do.
* **The time a task spends.** Ages and delays are reported by the code and bound
  nothing but the blockhash cache, of which `fresh` keeps what matters.
* **A file system that loses renamed files in a power failure:** the code does not
  call fsync, and nothing in the repository claims it would survive one.
* **A call that fails for ever.** The models bound failures. With a monitor whose
  call for one record always fails, the records behind it stay undecided.

## 8. Plan

Done, in this order: `DirectionChoice`, `AtomicArbitrage`, `RouteExecution` with
proofs; `ConcurrencyGate` and `ManifestWriter` with proofs; `BatchSender`;
`Monitor`; `QuoteMath`, `DlmmCurve`, `DynamicSearch`; `Normalized`, `PumpFees`,
`QuoteProbe`; `SingleSender` with proofs; proofs about `BatchSender`, `Monitor` and
`QuoteMath`; `ManifestStore`, with proofs that the writer implements it and that
the sender keeps it; proofs about the walks and the search, of `SenderTypeOK`, of
the dips of Pump, and of the margin of the interval test; that the search implements
the handler of the route, that its selection is the best of what it tries, that its
square root is exact, and that without a kill a batch records each ordinal once.

Left:

1. An abstract specification of the batch that `BatchSender` implements. What it
   would promise beyond the store, one broadcast to a run and one record to a
   broadcast, is proved as invariants.
2. How far the best amount inside a segment is from the estimated one, for all
   markets.
3. The validation of accounts by its single conditions, where two of them
   together exclude an account that neither does.
