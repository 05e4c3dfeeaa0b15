----------------------------- MODULE BatchSender -----------------------------
(***************************************************************************)
(* The batch mode of mainnet-smoke.ts: one task per ordinal signs a        *)
(* transaction, broadcasts it and records it in the manifest.  The tasks   *)
(* share the ConcurrencyGate, the cached blockhash with its single flight, *)
(* the set of issued signatures and the manifest writer.  The process may  *)
(* end at any moment, and the next run continues from the manifest.        *)
(*                                                                         *)
(* As in ConcurrencyGate a step is the code between two awaits.  Time is   *)
(* left out but for its order: sleeps end, and the first ones in the order *)
(* of the schedule.  A signature stands for the signed bytes: two          *)
(* transactions of one direction with one blockhash are the same bytes.    *)
(* (In the code the route snapshot goes into them too; a model without it  *)
(* meets every duplicate that the code can meet, and more.)                *)
(* The writer is ManifestWriter without its file operations: what it has   *)
(* rendered replaces the manifest in one step, some time later.            *)
(***************************************************************************)
EXTENDS ConcurrencyGate

CONSTANTS
  TransactionCount,  \* TRANSACTION_COUNT
  directionFor,      \* directionFor[ordinal]
  MaxFaults          \* bound: kills, failed blockhash requests and failed signings

Ordinal == 1..TransactionCount

ASSUME CountAssumption   == TransactionCount \in Nat \ {0} /\ Tasks = Ordinal
ASSUME BoundsAssumption  == MaxFaults \in Nat

VARIABLES
  main,         \* where main() is
  firstOrdinal,
  step,         \* where the task of each ordinal is
  signature,    \* the signature of its present attempt, NoSignature before
  issued,       \* issuedSignatures
  cache,        \* blockhashCache, 0 when null
  fresh,        \* blockhashCache is at most BLOCKHASH_MAX_AGE_MS old
  flight,       \* blockhashRefreshInFlight is not null
  hash,         \* the blockhash a task was handed and will sign with
  records,
  sendingComplete,
  dirty,        \* the writer was told of a change it has not rendered
  rendered,     \* what it has rendered and is writing, NoManifest when idle
  manifest,     \* the content of the manifest file
  crashes,
  failures,
  newest,       \* history: the newest blockhash a task was handed
  sends         \* history: how often each ordinal was broadcast

run_vars    == <<main, firstOrdinal, step, signature, issued, hash>>
hash_vars   == <<cache, fresh, flight, newest>>
record_vars == <<records, sendingComplete, dirty, rendered, manifest>>
past_vars   == <<crashes, failures, sends>>

vars == <<gate_vars, run_vars, hash_vars, record_vars, past_vars>>

NoSignature == [direction |-> "", hash |-> 0]
NoManifest  == [records |-> {}, complete |-> FALSE, written |-> FALSE]

Manifest(recs, complete) == [records |-> recs, complete |-> complete, written |-> TRUE]

\* A blockhash is told from the ones before it only once a task was handed it,
\* and of the tasks that were handed it one issues a signature or fails to sign.
MaxHash == TransactionCount * (MaxFaults + 1) + 1

Signature == [direction : {directionFor[o] : o \in Ordinal}, hash : 1..MaxHash]
Record    == [ordinal : Ordinal, signature : Signature]

\* Ended: no task, or the task's record is in records.
Step == {"ended", "asleep", "gate", "selecting", "refreshing", "signing",
         "duplicate", "refreshing_again", "failed", "timer", "rpc", "slot", "backoff"}

SenderTypeOK ==
  /\ GateTypeOK
  /\ main \in {"starting", "sending", "flushing", "finished", "dead"}
  /\ firstOrdinal \in 1..(TransactionCount + 1)
  /\ step \in [Ordinal -> Step]
  /\ \A o \in Ordinal : signature[o] \in Signature \cup {NoSignature}
  /\ issued \subseteq Signature
  /\ cache \in 0..MaxHash
  /\ fresh \in BOOLEAN
  /\ flight \in BOOLEAN
  /\ hash \in [Ordinal -> 0..MaxHash]
  /\ records \subseteq Record
  /\ sendingComplete \in BOOLEAN
  /\ dirty \in BOOLEAN
  /\ rendered.records \subseteq Record
  /\ manifest.records \subseteq Record
  /\ crashes \in Nat /\ failures \in Nat /\ crashes + failures <= MaxFaults
  /\ newest \in 0..MaxHash
  /\ sends \in [Ordinal -> Nat]

SenderInit ==
  /\ GateInit
  /\ main = "starting"
  /\ firstOrdinal = 1
  /\ step = [o \in Ordinal |-> "ended"]
  /\ signature = [o \in Ordinal |-> NoSignature]
  /\ issued = {}
  /\ cache = 0
  /\ fresh = FALSE
  /\ flight = FALSE
  /\ hash = [o \in Ordinal |-> 0]
  /\ records = {}
  /\ sendingComplete = FALSE
  /\ dirty = FALSE
  /\ rendered = Manifest({}, FALSE)
  /\ manifest = NoManifest
  /\ crashes = 0
  /\ failures = 0
  /\ newest = 0
  /\ sends = [o \in Ordinal |-> 0]

-----------------------------------------------------------------------------
(* The manifest writer, and a process that starts with a manifest.         *)

\* manifestWriter.request(), in a step that leaves records' and sendingComplete'.
request ==
  IF rendered = NoManifest
    THEN /\ rendered' = Manifest(records', sendingComplete')
         /\ UNCHANGED dirty
    ELSE /\ dirty' = TRUE
         /\ UNCHANGED rendered

\* The rename of a drain, and its next round.
Persist ==
  /\ rendered # NoManifest
  /\ manifest' = rendered
  /\ rendered' = IF dirty THEN Manifest(records, sendingComplete) ELSE NoManifest
  /\ dirty' = FALSE
  /\ UNCHANGED <<gate_vars, run_vars, hash_vars, records, sendingComplete, past_vars>>

\* A new process: existingManifest?.records ?? [], and the first flush().
RestartWith(recs, next, known) ==
  /\ main = "dead"
  /\ main' = "starting"
  /\ records' = recs
  /\ sendingComplete' = FALSE
  /\ rendered' = Manifest(recs, FALSE)
  /\ firstOrdinal' = next
  /\ issued' = known
  /\ UNCHANGED <<gate_vars, step, signature, hash, hash_vars, dirty, manifest, past_vars>>

-----------------------------------------------------------------------------
(* Plausible mistakes, for the properties below.                           *)

\* issuedSignatures starts empty
IssuedForgotten == RestartWith(manifest.records, Cardinality(manifest.records) + 1, {})

\* records.length + 2
OrdinalSkipped ==
  RestartWith(manifest.records, Cardinality(manifest.records) + 2,
              {r.signature : r \in manifest.records})

\* The existing manifest is overwritten.
ManifestIgnored == RestartWith({}, 1, {})

\* Promise.race for Promise.all
SomeSent == \E o \in Ordinal : o >= firstOrdinal /\ step[o] = "ended"

\* An error of sendRawTransaction is thrown to the retry loop.
ErrorRetried(o) ==
  /\ step[o] = "rpc"
  /\ Leave(o)
  /\ \E answer \in {"slot", "backoff"} : step' = [step EXCEPT ![o] = answer]
  /\ UNCHANGED <<main, firstOrdinal, signature, issued, hash, hash_vars, record_vars,
                 past_vars>>

\* gate.run() without its finally block
PermitKept(o) ==
  /\ step[o] = "failed"
  /\ at' = [at EXCEPT ![o] = "outside"]
  /\ step' = [step EXCEPT ![o] = "backoff"]
  /\ UNCHANGED <<records, sendingComplete>>
  /\ request
  /\ UNCHANGED <<active, waiters, main, firstOrdinal, signature, issued, hash, hash_vars,
                 manifest, past_vars>>

-----------------------------------------------------------------------------
(* main().                                                                 *)

\* After the first flush() the blockhash is fetched; then every ordinal that
\* is left gets its task.
Schedule ==
  /\ main = "starting"
  /\ rendered = NoManifest
  /\ cache # 0
  /\ main' = "sending"
  /\ step' = [o \in Ordinal |-> IF o >= firstOrdinal THEN "asleep" ELSE "ended"]
  /\ UNCHANGED <<gate_vars, firstOrdinal, signature, issued, hash, hash_vars,
                 record_vars, past_vars>>

\* Promise.all(scheduledTasks) resolves.
AllSent == \A o \in Ordinal : step[o] = "ended"

Complete ==
  /\ main = "sending"
  /\ AllSent
  /\ main' = "flushing"
  /\ sendingComplete' = TRUE
  /\ UNCHANGED records
  /\ request
  /\ UNCHANGED <<gate_vars, firstOrdinal, step, signature, issued, hash, hash_vars,
                 manifest, past_vars>>

Finish ==
  /\ main = "flushing"
  /\ rendered = NoManifest
  /\ main' = "finished"
  /\ UNCHANGED <<gate_vars, firstOrdinal, step, signature, issued, hash, hash_vars,
                 record_vars, past_vars>>

\* The process is killed: what it had in memory is gone.
Crash ==
  /\ main \notin {"finished", "dead"}
  /\ crashes + failures < MaxFaults
  /\ crashes' = crashes + 1
  /\ main' = "dead"
  /\ active' = 0 /\ waiters' = <<>> /\ at' = [o \in Ordinal |-> "outside"]
  /\ step' = [o \in Ordinal |-> "ended"]
  /\ signature' = [o \in Ordinal |-> NoSignature]
  /\ hash' = [o \in Ordinal |-> 0]
  /\ issued' = {}
  /\ cache' = 0 /\ fresh' = FALSE /\ flight' = FALSE
  /\ records' = {} /\ sendingComplete' = FALSE
  /\ dirty' = FALSE /\ rendered' = NoManifest
  /\ UNCHANGED <<firstOrdinal, manifest, failures, newest, sends>>

\* The next run continues after as many ordinals as there are records.
Restart ==
  RestartWith(manifest.records, Cardinality(manifest.records) + 1,
              {r.signature : r \in manifest.records})

-----------------------------------------------------------------------------
(* The blockhash cache: refreshBlockhash() and freshBlockhash().           *)

\* main() before it schedules, and then the interval timer.
StartRefresh ==
  /\ \/ main = "starting" /\ rendered = NoManifest /\ cache = 0
     \/ main = "sending"
  /\ ~flight
  /\ flight' = TRUE
  /\ UNCHANGED <<gate_vars, run_vars, cache, fresh, newest, record_vars, past_vars>>

\* The cached blockhash grows older than BLOCKHASH_MAX_AGE_MS.
Expire ==
  /\ fresh
  /\ fresh' = FALSE
  /\ UNCHANGED <<gate_vars, run_vars, cache, flight, newest, record_vars, past_vars>>

NewestOf(h) == IF h > newest THEN h ELSE newest

\* The RPC node answers with the blockhash h.  Those who await it are resumed:
\* freshBlockhash() returns h, a task with a duplicate asks freshBlockhash().
RefreshOk(h) ==
  /\ flight
  /\ flight' = FALSE
  /\ cache' = h
  /\ fresh' = TRUE
  /\ LET handed == {o \in Ordinal : step[o] = "refreshing"}
     IN  /\ step' = [o \in Ordinal |->
                       IF o \in handed THEN "signing"
                       ELSE IF step[o] = "refreshing_again" THEN "selecting" ELSE step[o]]
         /\ hash' = [o \in Ordinal |-> IF o \in handed THEN h ELSE hash[o]]
         /\ newest' = IF handed = {} THEN newest ELSE NewestOf(h)
  /\ UNCHANGED <<gate_vars, main, firstOrdinal, signature, issued, record_vars, past_vars>>

RefreshNew == RefreshOk(newest + 1)
RefreshOld == \E h \in 1..newest : h >= cache /\ RefreshOk(h)

\* The call fails, and a task that awaits it fails with it (Fail).  main() ends
\* when it is still starting, as in Crash; the interval timer only warns.
RefreshFails ==
  /\ flight
  /\ main = "sending"
  /\ crashes + failures < MaxFaults
  /\ failures' = failures + 1
  /\ flight' = FALSE
  /\ step' = [o \in Ordinal |->
       IF step[o] \in {"refreshing", "refreshing_again"} THEN "failed" ELSE step[o]]
  /\ UNCHANGED <<gate_vars, main, firstOrdinal, signature, issued, hash, cache, fresh,
                 newest, record_vars, crashes, sends>>

-----------------------------------------------------------------------------
(* The task of an ordinal.                                                 *)

\* The sleep until the signing time is over; earlier ordinals have earlier times.
Wake(o) ==
  /\ step[o] = "asleep"
  /\ \A p \in Ordinal : p < o => step[p] # "asleep"
  /\ Call(o)
  /\ step' = [step EXCEPT ![o] = "gate"]
  /\ UNCHANGED <<main, firstOrdinal, signature, issued, hash, hash_vars, record_vars,
                 past_vars>>

\* freshBlockhash(): the cached one, or the answer to the call in flight.
Select(o) ==
  /\ IF cache # 0 /\ fresh
       THEN /\ hash' = [hash EXCEPT ![o] = cache]
            /\ newest' = NewestOf(cache)
            /\ step' = [step EXCEPT ![o] = "signing"]
            /\ UNCHANGED flight
       ELSE /\ flight' = TRUE
            /\ step' = [step EXCEPT ![o] = "refreshing"]
            /\ UNCHANGED <<hash, newest>>
  /\ UNCHANGED <<main, firstOrdinal, signature, issued, cache, fresh, record_vars,
                 past_vars>>

\* The gate lets the task in.
Start(o) == step[o] = "gate" /\ Resume(o) /\ Select(o)

SelectAgain(o) == step[o] = "selecting" /\ Select(o) /\ UNCHANGED gate_vars

\* transactionFor() and reserveUniqueSignature().
Sign(o) ==
  /\ step[o] = "signing"
  /\ LET signed == [direction |-> directionFor[o], hash |-> hash[o]]
     IN  IF signed \in issued
           THEN /\ step' = [step EXCEPT ![o] = "duplicate"]
                /\ UNCHANGED <<signature, issued>>
           ELSE /\ step' = [step EXCEPT ![o] = "timer"]
                /\ signature' = [signature EXCEPT ![o] = signed]
                /\ issued' = issued \cup {signed}
  /\ hash' = [hash EXCEPT ![o] = 0]
  /\ UNCHANGED <<gate_vars, main, firstOrdinal, hash_vars, record_vars, past_vars>>

\* transactionFor() throws, or serialize() does once the signature is reserved.
SignFails(o) ==
  /\ step[o] = "signing"
  /\ crashes + failures < MaxFaults
  /\ failures' = failures + 1
  /\ step' = [step EXCEPT ![o] = "failed"]
  /\ hash' = [hash EXCEPT ![o] = 0]
  /\ issued' \in {issued, issued \cup {[direction |-> directionFor[o], hash |-> hash[o]]}}
  /\ UNCHANGED <<gate_vars, main, firstOrdinal, signature, hash_vars, record_vars, crashes,
                 sends>>

\* The sleep of 50 ms is over: refreshBlockhash().
RefreshAgain(o) ==
  /\ step[o] = "duplicate"
  /\ step' = [step EXCEPT ![o] = "refreshing_again"]
  /\ flight' = TRUE
  /\ UNCHANGED <<gate_vars, main, firstOrdinal, signature, issued, hash, cache, fresh,
                 newest, record_vars, past_vars>>

\* The scheduled time has come: sendRawTransaction().
Broadcast(o) ==
  /\ step[o] = "timer"
  /\ step' = [step EXCEPT ![o] = "rpc"]
  /\ sends' = [sends EXCEPT ![o] = @ + 1]
  /\ UNCHANGED <<gate_vars, main, firstOrdinal, signature, issued, hash, hash_vars,
                 record_vars, crashes, failures>>

\* The call answers or fails: both leave the gate with the transaction sent.
Answer(o) ==
  /\ step[o] = "rpc"
  /\ Leave(o)
  /\ step' = [step EXCEPT ![o] = "slot"]
  /\ UNCHANGED <<main, firstOrdinal, signature, issued, hash, hash_vars, record_vars,
                 past_vars>>

\* getSlot() has answered or failed: the broadcast is recorded.
RecordBroadcast(o) ==
  /\ step[o] = "slot"
  /\ step' = [step EXCEPT ![o] = "ended"]
  /\ records' = records \cup {[ordinal |-> o, signature |-> signature[o]]}
  /\ UNCHANGED sendingComplete
  /\ request
  /\ UNCHANGED <<gate_vars, main, firstOrdinal, signature, issued, hash, hash_vars,
                 manifest, past_vars>>

\* The blockhash call or the signing has thrown out of gate.run(): sendErrors is
\* written.
Fail(o) ==
  /\ step[o] = "failed"
  /\ Leave(o)
  /\ step' = [step EXCEPT ![o] = "backoff"]
  /\ UNCHANGED <<records, sendingComplete>>
  /\ request
  /\ UNCHANGED <<main, firstOrdinal, signature, issued, hash, hash_vars, manifest,
                 past_vars>>

\* The sleep of 100 ms is over.
Retry(o) ==
  /\ step[o] = "backoff"
  /\ Call(o)
  /\ step' = [step EXCEPT ![o] = "gate"]
  /\ UNCHANGED <<main, firstOrdinal, signature, issued, hash, hash_vars, record_vars,
                 past_vars>>

-----------------------------------------------------------------------------

TaskStep(o) ==
  \/ Wake(o) \/ Start(o) \/ SelectAgain(o) \/ Sign(o) \/ RefreshAgain(o)
  \/ Broadcast(o) \/ Answer(o) \/ RecordBroadcast(o) \/ Fail(o) \/ Retry(o)

MainStep == Schedule \/ Complete \/ Finish

SenderNext ==
  \/ \E o \in Ordinal : TaskStep(o) \/ SignFails(o)
  \/ MainStep \/ Persist
  \/ StartRefresh \/ Expire \/ RefreshNew \/ RefreshOld \/ RefreshFails
  \/ Crash \/ Restart

SenderSpec == SenderInit /\ [][SenderNext]_vars

\* Sleeps end, calls answer, awaited promises resume their code, the timer
\* fires, and of the answers some carry a blockhash nobody was handed before:
\* the chain makes one every 400 ms.  Nothing says that a killed process is
\* started again.
SenderFairSpec ==
  /\ SenderSpec
  /\ \A o \in Ordinal : WF_vars(TaskStep(o))
  /\ WF_vars(MainStep) /\ WF_vars(Persist) /\ WF_vars(StartRefresh)
  /\ SF_vars(RefreshNew)

-----------------------------------------------------------------------------
(* Properties.                                                             *)

\* SENDER_MAX_IN_FLIGHT bounds the transactions that are signed and not yet
\* answered for: a slot is kept from signing, over the wait for the schedule,
\* to the answer of the RPC node, and given back when signing fails.
BroadcastsBounded ==
  Cardinality({o \in Ordinal : step[o] \in {"signing", "timer", "rpc"}}) <= Limit

\* A run of the script broadcasts an ordinal at most once, whatever
\* sendRawTransaction answers: only what fails before the broadcast is retried.
OneBroadcastPerRun == \A o \in Ordinal : sends[o] <= crashes + 1

\* No signature is counted for two ordinals, nor twice for one: not by tasks
\* that sign with the same cached blockhash, nor by a run that continues the
\* manifest of another.  And each record stands for a broadcast of its own: an
\* ordinal that killed runs sent again has no more records than broadcasts.
RecordedOnce ==
  /\ \A r, s \in records : r.signature = s.signature => r = s
  /\ \A o \in Ordinal : Cardinality({r \in records : r.ordinal = o}) <= sends[o]

\* When the manifest says that sending is complete, it holds as many records
\* as were requested, killed runs included: the monitor waits for exactly those.
\* When no run was killed they are one of each ordinal, and each was broadcast
\* once.
CompleteManifestIsWhole ==
  manifest.complete =>
    /\ Cardinality(manifest.records) = TransactionCount
    /\ crashes = 0 =>
         \A o \in Ordinal : sends[o] = 1 /\ \E r \in manifest.records : r.ordinal = o

\* What the manifest file recorded stays recorded, over restarts too.
RecordedStaysRecorded == [][manifest.records \subseteq manifest'.records]_vars

\* The records are the items, and main() flushes before the first task and
\* after the last.
Store == INSTANCE ManifestStore WITH
  Callers <- {"main"},
  current <- records,
  file    <- manifest.records,
  alive   <- main # "dead",
  asked   <- [c \in {"main"} |-> IF main \in {"starting", "flushing"} THEN records ELSE {}]

\* The sender uses the manifest within what ManifestWriter promises, and keeps
\* that promise over restarts: the manifest loses no record and main() goes on
\* only when it has the records of that moment.
KeepsTheStore == Store!Spec

\* A run that is not killed sends every ordinal and ends with the manifest
\* written, although tasks hold their slots while they wait for a new blockhash.
BatchCompletes == <>(main \in {"finished", "dead"})

\* README.md, on the batch sender: only what fails before the broadcast is
\* retried with the same ordinal.  So an ordinal that the manifest records as
\* broadcast is not broadcast again.
RecordedOrdinalIsDone ==
  [][\A r \in manifest.records : sends'[r.ordinal] = sends[r.ordinal]]_vars
=============================================================================
