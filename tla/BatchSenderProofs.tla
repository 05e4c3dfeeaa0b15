-------------------------- MODULE BatchSenderProofs --------------------------
(***************************************************************************)
(* Proofs about BatchSender, for every number of ordinals, every choice of *)
(* directions, every limit and any number of kills and failures.           *)
(***************************************************************************)
EXTENDS BatchSender, ConcurrencyGateProofs

USE TasksAssumption, LimitAssumption, CountAssumption, BoundsAssumption

-----------------------------------------------------------------------------
(* The inductive invariant, in parts.                                      *)

Inside == {"selecting", "refreshing", "signing", "duplicate", "refreshing_again",
           "failed", "timer", "rpc"}
Signed == {"timer", "rpc", "slot"}
Sent   == {"rpc", "slot", "ended"}

Types ==
  /\ main \in {"starting", "sending", "flushing", "finished", "dead"}
  /\ step \in [Ordinal -> Step]
  /\ DOMAIN signature = Ordinal
  /\ sends \in [Ordinal -> Nat]
  /\ crashes \in Nat

\* There are tasks only while main() awaits them.
NoTasks == main # "sending" => \A o \in Ordinal : step[o] = "ended"

\* A task between its permit and the answer is inside of gate.run().
InsideRuns == \A o \in Ordinal : step[o] \in Inside => at[o] = "running"

\* What was not broadcast in this run was broadcast only in those before.
NotYetSent ==
  \A o \in Ordinal :
    /\ sends[o] <= crashes + 1
    /\ main \in {"starting", "dead"} \/ step[o] \notin Sent => sends[o] <= crashes

\* What a task signed is issued, nobody else has signed it, and it is recorded
\* when the task has ended and not before.
SignaturesDiffer ==
  /\ \A o \in Ordinal : step[o] \in Signed => signature[o] \in issued
  /\ \A o, p \in Ordinal :
       step[o] \in Signed /\ step[p] \in Signed /\ signature[o] = signature[p] => o = p
  /\ \A r \in records : r.signature \in issued
  /\ \A o \in Ordinal, r \in records : step[o] \in Signed => r.signature # signature[o]

Once(recs) == \A r, s \in recs : r.signature = s.signature => r = s

RecordsOnce == Once(records) /\ Once(rendered.records) /\ Once(manifest.records)

\* What is in the manifest is in what replaces it, and in memory.
RecordsGrow ==
  /\ rendered # NoManifest =>
       manifest.records \subseteq rendered.records /\ rendered.records \subseteq records
  /\ main # "dead" => manifest.records \subseteq records
  /\ main = "dead" => rendered = NoManifest

\* While a run goes on, the records are those it found and one for each task
\* that has ended.
Over == {o \in Ordinal : o >= firstOrdinal /\ step[o] = "ended"}

RunCounted ==
  /\ firstOrdinal \in 1..(TransactionCount + 1)
  /\ \A o \in Ordinal : step[o] # "ended" => o >= firstOrdinal
  /\ main = "starting" => Cardinality(records) = firstOrdinal - 1
  /\ main = "sending" => Cardinality(records) = firstOrdinal - 1 + Cardinality(Over)
  /\ main \in {"flushing", "finished"} => Cardinality(records) = TransactionCount

Few(recs) == IsFiniteSet(recs) /\ Cardinality(recs) <= TransactionCount

RecordsFew == Few(records) /\ Few(rendered.records) /\ Few(manifest.records)

\* What is neither in the manifest nor on its way there is known to be missing.
Unwritten ==
  main # "dead" =>
    /\ rendered = NoManifest => ~dirty /\ records \subseteq manifest.records
    /\ rendered # NoManifest /\ ~dirty => records \subseteq rendered.records

Whole(m) == m.complete => Cardinality(m.records) = TransactionCount

CompleteIsWhole ==
  /\ sendingComplete => main \in {"flushing", "finished"}
  /\ Whole(rendered) /\ Whole(manifest)

-----------------------------------------------------------------------------
(* Steps of the gate.                                                      *)

\* What a failed signing leaves alone.
LEMMA FailedSigning ==
  ASSUME NEW o \in Ordinal, SignFails(o)
  PROVE  /\ UNCHANGED <<gate_vars, main, firstOrdinal, signature, hash_vars, crashes, sends>>
         /\ UNCHANGED <<records, sendingComplete, dirty, rendered, manifest>>
         /\ step[o] = "signing" /\ step' = [step EXCEPT ![o] = "failed"]
         /\ issued \subseteq issued'
  BY DEF SignFails, record_vars

\* A step of the sender is one of the gate, leaves it alone, or resets it.
LEMMA GateSteps ==
  ASSUME SenderNext
  PROVE  [GateNext]_gate_vars \/ Crash
  <1>1. ASSUME NEW o \in Ordinal, TaskStep(o)
        PROVE  [GateNext]_gate_vars
    BY <1>1 DEF TaskStep, Wake, Start, SelectAgain, Sign, RefreshAgain, Broadcast, Answer,
                RecordBroadcast, Fail, Retry, GateNext
  <1>2. ASSUME MainStep \/ Persist \/ StartRefresh \/ Expire \/ RefreshNew \/ RefreshOld
                 \/ RefreshFails \/ Restart
        PROVE  UNCHANGED gate_vars
    BY <1>2 DEF MainStep, Schedule, Complete, Finish, Persist, StartRefresh, Expire, RefreshNew,
                RefreshOld, RefreshOk, RefreshFails, Restart, RestartWith
  <1>3. QED
    BY <1>1, <1>2, FailedSigning DEF SenderNext

LEMMA GateStays ==
  ASSUME GateTypeOK, GateInv, [SenderNext]_vars
  PROVE  GateTypeOK' /\ GateInv'
  <1>1. CASE [GateNext]_gate_vars
    BY <1>1, GateTypeStep, GateInvStep
  <1>2. CASE Crash
    <2>1. active' = 0 /\ waiters' = <<>> /\ at' = [o \in Ordinal |-> "outside"]
      BY <1>2 DEF Crash
    <2>2. GateTypeOK'
      BY <2>1, EmptySeq DEF GateTypeOK, Place
    <2>3. Holders' = {} /\ Len(waiters') = 0
      BY <2>1 DEF Holders
    <2>4. QED
      BY <2>1, <2>2, <2>3, FS_EmptySet DEF GateInv
  <1>3. CASE UNCHANGED vars
    <2>1. UNCHANGED gate_vars
      BY <1>3 DEF vars
    <2>2. QED
      BY <2>1, GateTypeStep, GateInvStep
  <1>4. QED
    BY <1>1, <1>2, <1>3, GateSteps

LEMMA TypesStay ==
  ASSUME Types, [SenderNext]_vars
  PROVE  Types'
  <1>1. ASSUME NEW o \in Ordinal, TaskStep(o)
        PROVE  Types'
    <2>1. ASSUME Wake(o) \/ RefreshAgain(o) \/ Answer(o) \/ RecordBroadcast(o) \/ Fail(o)
                   \/ Retry(o)
          PROVE  Types'
      BY <2>1 DEF Wake, RefreshAgain, Answer, RecordBroadcast, Fail, Retry, Types, Step,
             past_vars
    <2>2. ASSUME Start(o) \/ SelectAgain(o)
          PROVE  Types'
      BY <2>2 DEF Start, SelectAgain, Select, Types, Step, past_vars
    <2>3. CASE Sign(o)
      BY <2>3 DEF Sign, Types, Step, past_vars
    <2>4. CASE Broadcast(o)
      BY <2>4 DEF Broadcast, Types, Step
    <2>5. QED
      BY <1>1, <2>1, <2>2, <2>3, <2>4 DEF TaskStep
  <1>2. ASSUME MainStep \/ Restart \/ Crash
        PROVE  Types'
    <2>1. CASE MainStep
      BY <2>1 DEF MainStep, Schedule, Complete, Finish, Types, Step, past_vars
    <2>2. CASE Restart
      BY <2>2 DEF Restart, RestartWith, Types, Step, past_vars
    <2>3. CASE Crash
      <3>1. /\ main' = "dead" /\ step' = [o \in Ordinal |-> "ended"]
            /\ signature' = [o \in Ordinal |-> NoSignature]
            /\ sends' = sends /\ crashes' = crashes + 1
        BY <2>3 DEF Crash
      <3>2. QED
        BY <3>1 DEF Types, Step
    <2>4. QED
      BY <1>2, <2>1, <2>2, <2>3
  <1>3. ASSUME Persist \/ StartRefresh \/ Expire \/ RefreshNew \/ RefreshOld \/ RefreshFails
        PROVE  Types'
    BY <1>3 DEF Persist, StartRefresh, Expire, RefreshNew, RefreshOld, RefreshOk, RefreshFails,
                run_vars, past_vars, Types, Step
  <1>4. CASE UNCHANGED vars
    BY <1>4 DEF vars, run_vars, past_vars, Types
  <1>5. ASSUME NEW o \in Ordinal, SignFails(o)
        PROVE  Types'
    BY <1>5, FailedSigning DEF Types, Step
  <1>6. QED
    BY <1>1, <1>2, <1>3, <1>4, <1>5 DEF SenderNext

LEMMA NoTasksStays ==
  ASSUME Types, NoTasks, [SenderNext]_vars
  PROVE  NoTasks'
  <1>1. ASSUME NEW o \in Ordinal, TaskStep(o)
        PROVE  NoTasks'
    <2>1. main' = main /\ step[o] # "ended"
      BY <1>1 DEF TaskStep, Wake, Start, SelectAgain, Select, Sign, RefreshAgain, Broadcast, Answer,
                  RecordBroadcast, Fail, Retry
    <2>2. QED
      BY <2>1 DEF NoTasks
  <1>2. ASSUME MainStep \/ Restart \/ Crash
        PROVE  NoTasks'
    BY <1>2 DEF MainStep, Schedule, Complete, Finish, Restart, RestartWith, Crash, NoTasks, Types,
                AllSent
  <1>3. ASSUME Persist \/ StartRefresh \/ Expire \/ RefreshNew \/ RefreshOld \/ RefreshFails
        PROVE  NoTasks'
    BY <1>3 DEF Persist, StartRefresh, Expire, RefreshNew, RefreshOld, RefreshOk, RefreshFails,
                run_vars, NoTasks, Types
  <1>4. CASE UNCHANGED vars
    BY <1>4 DEF vars, run_vars, NoTasks
  <1>5. ASSUME NEW o \in Ordinal, SignFails(o)
        PROVE  NoTasks'
    BY <1>5, FailedSigning DEF NoTasks, Types
  <1>6. QED
    BY <1>1, <1>2, <1>3, <1>4, <1>5 DEF SenderNext

\* A task leaves the parts inside of gate.run() when it leaves the gate.
LEMMA InsideStays ==
  ASSUME Types, NoTasks, GateTypeOK, GateInv, InsideRuns, [SenderNext]_vars
  PROVE  InsideRuns'
  <1>1. ASSUME NEW o \in Ordinal, TaskStep(o)
        PROVE  InsideRuns'
    <2>1. ASSUME Wake(o) \/ Retry(o)
          PROVE  InsideRuns'
      BY <2>1 DEF Wake, Retry, Call, InsideRuns, Inside, Types, GateTypeOK
    <2>2. CASE Start(o)
      BY <2>2 DEF Start, Resume, Select, InsideRuns, Inside, Types, GateTypeOK
    <2>3. CASE SelectAgain(o)
      BY <2>3 DEF SelectAgain, Select, gate_vars, InsideRuns, Inside, Types
    <2>4. ASSUME Sign(o) \/ RefreshAgain(o) \/ Broadcast(o) \/ RecordBroadcast(o)
          PROVE  InsideRuns'
      BY <2>4 DEF Sign, RefreshAgain, Broadcast, RecordBroadcast, gate_vars, InsideRuns, Inside,
                  Types
    <2>5. ASSUME Answer(o) \/ Fail(o)
          PROVE  InsideRuns'
      <3>1. Leave(o) /\ \E s \in {"slot", "backoff"} : step' = [step EXCEPT ![o] = s]
        BY <2>5 DEF Answer, Fail
      <3>2. CASE waiters = <<>>
        BY <3>1, <3>2 DEF Leave, release, InsideRuns, Inside, Types, GateTypeOK
      <3>3. CASE waiters # <<>>
        <4>1. at' = [at EXCEPT ![o] = "outside", ![Head(waiters)] = "granted"]
          BY <3>1, <3>3 DEF Leave, release
        <4>2. /\ Len(waiters) \in Nat /\ Len(waiters) > 0
              /\ Head(waiters) = waiters[1]
          BY <3>3, LenProperties, HeadTailProperties, EmptySeq DEF GateTypeOK
        <4>3. at[Head(waiters)] = "waiting"
          BY <4>2 DEF GateInv
        <4>4. ASSUME NEW p \in Ordinal, step'[p] \in Inside
              PROVE  at'[p] = "running"
          <5>1. p # o /\ step[p] \in Inside
            BY <3>1, <4>4 DEF Types, Inside
          <5>2. at[p] = "running"
            BY <5>1 DEF InsideRuns
          <5>3. QED
            BY <4>1, <4>3, <5>1, <5>2 DEF GateTypeOK
        <4>5. QED
          BY <4>4 DEF InsideRuns
      <3>4. QED
        BY <3>2, <3>3
    <2>6. QED
      BY <1>1, <2>1, <2>2, <2>3, <2>4, <2>5 DEF TaskStep
  <1>2. ASSUME MainStep \/ Restart \/ Crash
        PROVE  InsideRuns'
    BY <1>2 DEF MainStep, Schedule, Complete, Finish, Restart, RestartWith, Crash, gate_vars,
                InsideRuns, Inside, Types
  <1>3. ASSUME Persist \/ StartRefresh \/ Expire \/ RefreshNew \/ RefreshOld \/ RefreshFails
        PROVE  InsideRuns'
    BY <1>3 DEF Persist, StartRefresh, Expire, RefreshNew, RefreshOld, RefreshOk, RefreshFails,
                run_vars, gate_vars, InsideRuns, Inside, Types
  <1>4. CASE UNCHANGED vars
    BY <1>4 DEF vars, run_vars, gate_vars, InsideRuns
  <1>5. ASSUME NEW o \in Ordinal, SignFails(o)
        PROVE  InsideRuns'
    BY <1>5, FailedSigning DEF InsideRuns, Inside, gate_vars, Types
  <1>6. QED
    BY <1>1, <1>2, <1>3, <1>4, <1>5 DEF SenderNext

-----------------------------------------------------------------------------
(* What is broadcast and recorded.                                         *)

\* Only Broadcast counts up, and from there a task only goes on to its record.
LEMMA NotYetSentStays ==
  ASSUME Types, NoTasks, NotYetSent, [SenderNext]_vars
  PROVE  NotYetSent'
  <1>1. ASSUME NEW o \in Ordinal, TaskStep(o)
        PROVE  NotYetSent'
    <2>1. CASE Broadcast(o)
      <3>1. main \notin {"starting", "dead"} /\ sends[o] <= crashes
        BY <2>1 DEF Broadcast, NoTasks, NotYetSent, Sent
      <3>2. /\ sends' = [sends EXCEPT ![o] = sends[o] + 1]
            /\ step' = [step EXCEPT ![o] = "rpc"]
            /\ main' = main /\ crashes' = crashes
        BY <2>1 DEF Broadcast
      <3>3. QED
        BY <3>1, <3>2 DEF Types, NotYetSent, Sent
    <2>2. ASSUME ~Broadcast(o)
          PROVE  NotYetSent'
      <3>1. /\ main' = main /\ crashes' = crashes /\ sends' = sends
            /\ step[o] # "ended"
        BY <1>1, <2>2 DEF TaskStep, Wake, Start, SelectAgain, Select, Sign, RefreshAgain, Answer,
                          RecordBroadcast, Fail, Retry, past_vars
      <3>2. /\ \E s \in Step : step' = [step EXCEPT ![o] = s]
            /\ step[o] \in Sent => step'[o] \in Sent
        BY <1>1, <2>2 DEF TaskStep, Wake, Start, SelectAgain, Select, Sign, RefreshAgain, Answer,
                          RecordBroadcast, Fail, Retry, Types, Step, Sent
      <3>3. QED
        BY <3>1, <3>2 DEF Types, NoTasks, NotYetSent, Sent
    <2>3. QED
      BY <2>1, <2>2
  <1>2. CASE MainStep
    BY <1>2 DEF MainStep, Schedule, Complete, Finish, past_vars, NotYetSent, Sent, Types
  <1>3. CASE Crash
    <2>1. crashes' = crashes + 1 /\ sends' = sends
      BY <1>3 DEF Crash
    <2>2. QED
      BY <2>1 DEF NotYetSent, Types
  <1>4. CASE Restart
    BY <1>4 DEF Restart, RestartWith, past_vars, NotYetSent
  <1>5. ASSUME Persist \/ StartRefresh \/ Expire \/ RefreshNew \/ RefreshOld \/ RefreshFails
        PROVE  NotYetSent'
    <2>1. main' = main /\ crashes' = crashes /\ sends' = sends
      BY <1>5 DEF Persist, StartRefresh, Expire, RefreshNew, RefreshOld, RefreshOk, RefreshFails,
                  run_vars, past_vars
    <2>2. \A o \in Ordinal : step[o] \in Sent => step'[o] = step[o]
      BY <1>5 DEF Persist, StartRefresh, Expire, RefreshNew, RefreshOld, RefreshOk, RefreshFails,
                  run_vars, Sent, Types
    <2>3. QED
      BY <2>1, <2>2 DEF NotYetSent
  <1>6. CASE UNCHANGED vars
    BY <1>6 DEF vars, run_vars, past_vars, NotYetSent
  <1>7. ASSUME NEW o \in Ordinal, SignFails(o)
        PROVE  NotYetSent'
    BY <1>7, FailedSigning DEF NotYetSent, Sent, Types
  <1>8. QED
    BY <1>1, <1>2, <1>3, <1>4, <1>5, <1>6, <1>7 DEF SenderNext

\* A signature is reserved when it is made, in the step that looks for it.
LEMMA SignaturesStay ==
  ASSUME Types, NoTasks, SignaturesDiffer, [SenderNext]_vars
  PROVE  SignaturesDiffer'
  <1>1. ASSUME NEW o \in Ordinal, TaskStep(o)
        PROVE  SignaturesDiffer'
    <2>1. CASE Sign(o)
      <3>1. records' = records
        BY <2>1 DEF Sign, record_vars
      <3>2. CASE UNCHANGED <<signature, issued>> /\ step' = [step EXCEPT ![o] = "duplicate"]
        BY <3>1, <3>2 DEF SignaturesDiffer, Signed, Types
      <3>3. ASSUME NEW s, s \notin issued, signature' = [signature EXCEPT ![o] = s],
                   issued' = issued \cup {s}, step' = [step EXCEPT ![o] = "timer"]
            PROVE  SignaturesDiffer'
        BY <3>1, <3>3 DEF SignaturesDiffer, Signed, Types
      <3>4. QED
        BY <2>1, <3>2, <3>3 DEF Sign
    <2>2. CASE RecordBroadcast(o)
      <3>1. /\ step' = [step EXCEPT ![o] = "ended"] /\ step[o] = "slot"
            /\ records' = records \cup {[ordinal |-> o, signature |-> signature[o]]}
            /\ UNCHANGED <<signature, issued>>
        BY <2>2 DEF RecordBroadcast
      <3>2. QED
        BY <3>1 DEF SignaturesDiffer, Signed, Types
    <2>3. ASSUME ~Sign(o), ~RecordBroadcast(o)
          PROVE  SignaturesDiffer'
      <3>1. UNCHANGED <<signature, issued, records>>
        BY <1>1, <2>3 DEF TaskStep, Wake, Start, SelectAgain, Select, RefreshAgain, Broadcast,
                          Answer, Fail, Retry, record_vars
      <3>2. \A p \in Ordinal : step'[p] \in Signed => step[p] \in Signed
        BY <1>1, <2>3 DEF TaskStep, Wake, Start, SelectAgain, Select, RefreshAgain, Broadcast,
                          Answer, Fail, Retry, Types, Signed
      <3>3. QED
        BY <3>1, <3>2 DEF SignaturesDiffer
    <2>4. QED
      BY <2>1, <2>2, <2>3
  <1>2. CASE MainStep
    BY <1>2 DEF MainStep, Schedule, Complete, Finish, record_vars, SignaturesDiffer, Signed, Types
  <1>3. CASE Crash
    <2>1. records' = {} /\ step' = [o \in Ordinal |-> "ended"]
      BY <1>3 DEF Crash
    <2>2. QED
      BY <2>1 DEF SignaturesDiffer, Signed
  <1>4. CASE Restart
    <2>1. /\ main = "dead" /\ step' = step
          /\ records' = manifest.records /\ issued' = {r.signature : r \in manifest.records}
      BY <1>4 DEF Restart, RestartWith
    <2>2. QED
      BY <2>1 DEF SignaturesDiffer, NoTasks, Signed
  <1>5. ASSUME Persist \/ StartRefresh \/ Expire \/ RefreshNew \/ RefreshOld \/ RefreshFails
        PROVE  SignaturesDiffer'
    <2>1. UNCHANGED <<signature, issued, records>>
      BY <1>5 DEF Persist, StartRefresh, Expire, RefreshNew, RefreshOld, RefreshOk, RefreshFails,
                  run_vars, record_vars
    <2>2. \A o \in Ordinal : step'[o] \in Signed => step[o] \in Signed
      BY <1>5 DEF Persist, StartRefresh, Expire, RefreshNew, RefreshOld, RefreshOk, RefreshFails,
                  run_vars, Signed, Types
    <2>3. QED
      BY <2>1, <2>2 DEF SignaturesDiffer
  <1>6. CASE UNCHANGED vars
    BY <1>6 DEF vars, run_vars, record_vars, SignaturesDiffer
  <1>7. ASSUME NEW o \in Ordinal, SignFails(o)
        PROVE  SignaturesDiffer'
    BY <1>7, FailedSigning DEF SignaturesDiffer, Signed, Types
  <1>8. QED
    BY <1>1, <1>2, <1>3, <1>4, <1>5, <1>6, <1>7 DEF SenderNext

\* What request() has the writer render is what is in memory after the step.
LEMMA Rendered ==
  ASSUME request
  PROVE  \/ rendered' = Manifest(records', sendingComplete')
         \/ rendered' = rendered /\ rendered # NoManifest
  BY DEF request

\* The steps that change what is recorded, rendered or written.
LEMMA RecordsSteps ==
  ASSUME Types, NoTasks, [SenderNext]_vars
  PROVE  \/ \E o \in Ordinal :
              /\ RecordBroadcast(o)
              /\ step[o] = "slot" /\ main' = main /\ main = "sending"
              /\ records' = records \cup {[ordinal |-> o, signature |-> signature[o]]}
              /\ request /\ manifest' = manifest
              /\ sendingComplete' = sendingComplete
         \/ /\ records' = records /\ manifest' = manifest /\ main # "dead" /\ main' # "dead"
            /\ request
            /\ UNCHANGED <<main, sendingComplete>> \/ Complete
         \/ Persist
         \/ Crash
         \/ Restart
         \/ /\ UNCHANGED <<records, rendered, manifest, sendingComplete, dirty>>
            /\ main' = main \/ Schedule \/ Finish
            /\ main' = "dead" <=> main = "dead"
            /\ main \in {"flushing", "finished"} => main' \in {"flushing", "finished"}
  <1>1. ASSUME NEW o \in Ordinal, TaskStep(o)
        PROVE  /\ main' = main /\ main = "sending"
               /\ \/ /\ RecordBroadcast(o)
                     /\ step[o] = "slot"
                     /\ records' = records \cup {[ordinal |-> o, signature |-> signature[o]]}
                     /\ request /\ manifest' = manifest
                     /\ sendingComplete' = sendingComplete
                  \/ /\ records' = records /\ manifest' = manifest /\ request
                     /\ sendingComplete' = sendingComplete
                  \/ UNCHANGED <<records, rendered, manifest, sendingComplete, dirty>>
    <2>1. main' = main /\ step[o] # "ended"
      BY <1>1 DEF TaskStep, Wake, Start, SelectAgain, Select, Sign, RefreshAgain, Broadcast, Answer,
                  RecordBroadcast, Fail, Retry
    <2>2. CASE RecordBroadcast(o)
      BY <2>1, <2>2 DEF RecordBroadcast, NoTasks
    <2>3. CASE Fail(o)
      BY <2>1, <2>3 DEF Fail, NoTasks
    <2>4. ASSUME ~RecordBroadcast(o), ~Fail(o)
          PROVE  UNCHANGED record_vars
      BY <1>1, <2>4 DEF TaskStep, Wake, Start, SelectAgain, Select, Sign, RefreshAgain, Broadcast,
                        Answer, Retry
    <2>5. QED
      BY <2>1, <2>2, <2>3, <2>4 DEF record_vars, NoTasks
  <1>2. CASE Schedule \/ Finish
    BY <1>2 DEF Schedule, Finish, record_vars
  <1>3. CASE Complete
    BY <1>3 DEF Complete
  <1>4. ASSUME StartRefresh \/ Expire \/ RefreshNew \/ RefreshOld \/ RefreshFails
        PROVE  UNCHANGED <<main, record_vars>>
    BY <1>4 DEF StartRefresh, Expire, RefreshNew, RefreshOld, RefreshOk, RefreshFails, run_vars
  <1>5. CASE UNCHANGED vars
    BY <1>5 DEF vars, run_vars, record_vars
  <1>6. QED
    BY <1>1, <1>2, <1>3, <1>4, <1>5, FailedSigning DEF SenderNext, MainStep, record_vars

\* No two records have one signature: a record is made with a signature that
\* no record has, and the rest is copied as a whole.
LEMMA OnceStays ==
  ASSUME Types, NoTasks, SignaturesDiffer, RecordsOnce, [SenderNext]_vars
  PROVE  RecordsOnce'
  <1> USE DEF RecordsOnce, Once
  <1>1. ASSUME NEW o \in Ordinal, step[o] = "slot", request, manifest' = manifest,
               records' = records \cup {[ordinal |-> o, signature |-> signature[o]]}
        PROVE  RecordsOnce'
    <2>1. Once(records')
      BY <1>1 DEF SignaturesDiffer, Signed
    <2>2. QED
      BY <1>1, <2>1, Rendered DEF Manifest
  <1>2. ASSUME records' = records, manifest' = manifest, request
        PROVE  RecordsOnce'
    BY <1>2, Rendered DEF Manifest
  <1>3. CASE Persist
    BY <1>3 DEF Persist, Manifest, NoManifest
  <1>4. CASE Crash
    BY <1>4 DEF Crash, NoManifest
  <1>5. CASE Restart
    BY <1>5 DEF Restart, RestartWith, Manifest
  <1>6. ASSUME UNCHANGED <<records, rendered, manifest>>
        PROVE  RecordsOnce'
    BY <1>6
  <1>7. QED
    BY <1>1, <1>2, <1>3, <1>4, <1>5, <1>6, RecordsSteps

LEMMA GrowStays ==
  ASSUME Types, NoTasks, RecordsGrow, [SenderNext]_vars
  PROVE  RecordsGrow'
  <1> USE DEF RecordsGrow
  <1>1. ASSUME NEW o \in Ordinal, request, manifest' = manifest, main # "dead", main' = main,
               records' = records \cup {[ordinal |-> o, signature |-> signature[o]]}
        PROVE  RecordsGrow'
    BY <1>1, Rendered DEF Manifest
  <1>2. ASSUME records' = records, manifest' = manifest, request, main # "dead", main' # "dead"
        PROVE  RecordsGrow'
    BY <1>2, Rendered DEF Manifest
  <1>3. CASE Persist
    BY <1>3 DEF Persist, Manifest, NoManifest, run_vars
  <1>4. CASE Crash
    BY <1>4 DEF Crash
  <1>5. CASE Restart
    BY <1>5 DEF Restart, RestartWith, Manifest
  <1>6. ASSUME UNCHANGED <<records, rendered, manifest>>, main' = "dead" <=> main = "dead"
        PROVE  RecordsGrow'
    BY <1>6
  <1>7. QED
    BY <1>1, <1>2, <1>3, <1>4, <1>5, <1>6, RecordsSteps

\* The writer has all records, or will render them once more.
LEMMA UnwrittenStays ==
  ASSUME Types, NoTasks, Unwritten, [SenderNext]_vars
  PROVE  Unwritten'
  <1> USE DEF Unwritten
  <1>1. ASSUME main # "dead", request, manifest' = manifest
        PROVE  Unwritten'
    <2>1. CASE rendered = NoManifest
      BY <1>1, <2>1 DEF request, Manifest, NoManifest
    <2>2. CASE rendered # NoManifest
      BY <1>1, <2>2 DEF request
    <2>3. QED
      BY <2>1, <2>2
  <1>2. CASE Persist
    <2>1. main' = main /\ records' = records /\ manifest' = rendered /\ dirty' = FALSE
      BY <1>2 DEF Persist, run_vars
    <2>2. CASE dirty
      BY <1>2, <2>1, <2>2 DEF Persist, Manifest, NoManifest
    <2>3. CASE ~dirty
      BY <1>2, <2>1, <2>3 DEF Persist
    <2>4. QED
      BY <2>2, <2>3
  <1>3. CASE Crash
    BY <1>3 DEF Crash
  <1>4. CASE Restart
    BY <1>4 DEF Restart, RestartWith, Manifest, NoManifest
  <1>5. ASSUME UNCHANGED <<records, rendered, manifest, dirty>>, main' = "dead" <=> main = "dead"
        PROVE  Unwritten'
    BY <1>5
  <1>6. QED
    BY <1>1, <1>2, <1>3, <1>4, <1>5, RecordsSteps

-----------------------------------------------------------------------------
(* How many records there are.                                             *)

LEMMA OverBound ==
  ASSUME firstOrdinal \in 1..(TransactionCount + 1)
  PROVE  /\ IsFiniteSet(Over)
         /\ Cardinality(Over) \in Nat
         /\ Cardinality(Over) <= TransactionCount - firstOrdinal + 1
         /\ AllSent => Cardinality(Over) = TransactionCount - firstOrdinal + 1
  <1> DEFINE Left == firstOrdinal..TransactionCount
  <1>1. /\ IsFiniteSet(Left)
        /\ Cardinality(Left) = TransactionCount - firstOrdinal + 1
    BY FS_Interval
  <1>2. Over \in SUBSET Left
    BY DEF Over, Ordinal
  <1>3. AllSent => Over = Left
    BY DEF Over, Ordinal, AllSent
  <1>4. IsFiniteSet(Over) /\ Cardinality(Over) <= Cardinality(Left) /\ Cardinality(Over) \in Nat
    BY <1>1, <1>2, FS_Subset, FS_CardinalityType
  <1>5. QED
    BY <1>1, <1>3, <1>4

\* A task that ends has made one record, a new one.
LEMMA RecordCounts ==
  ASSUME Types, NoTasks, SignaturesDiffer, RecordsFew, RunCounted,
         NEW o \in Ordinal, RecordBroadcast(o)
  PROVE  /\ RunCounted'
         /\ Few(records')
  <1> DEFINE r == [ordinal |-> o, signature |-> signature[o]]
  <1>1. /\ step[o] = "slot" /\ step' = [step EXCEPT ![o] = "ended"]
        /\ records' = records \cup {r}
        /\ main' = main /\ firstOrdinal' = firstOrdinal
    BY DEF RecordBroadcast
  <1>2. main = "sending" /\ o >= firstOrdinal
    BY <1>1 DEF NoTasks, RunCounted
  <1>3. r \notin records
    BY <1>1 DEF SignaturesDiffer, Signed
  <1>4. IsFiniteSet(records) /\ Cardinality(records) \in Nat
    BY FS_CardinalityType DEF RecordsFew, Few
  <1> HIDE DEF r
  <1>5. IsFiniteSet(records') /\ Cardinality(records') = Cardinality(records) + 1
    BY <1>1, <1>3, <1>4, FS_AddElement
  <1>6. Over' = Over \cup {o} /\ o \notin Over
    BY <1>1, <1>2 DEF Over, Types
  <1>7. IsFiniteSet(Over) /\ Cardinality(Over) \in Nat
    BY OverBound DEF RunCounted
  <1>8. Cardinality(Over') = Cardinality(Over) + 1
    BY <1>6, <1>7, FS_AddElement
  <1>9. Cardinality(Over') <= TransactionCount - firstOrdinal + 1
    <2>1. Over' \in SUBSET (firstOrdinal..TransactionCount)
      BY <1>1 DEF Over, Ordinal
    <2>2. /\ IsFiniteSet(firstOrdinal..TransactionCount)
          /\ Cardinality(firstOrdinal..TransactionCount) = TransactionCount - firstOrdinal + 1
      BY FS_Interval DEF RunCounted
    <2>3. QED
      BY <2>1, <2>2, FS_Subset
  <1>10. Cardinality(records') = firstOrdinal - 1 + Cardinality(Over')
    BY <1>2, <1>4, <1>5, <1>7, <1>8 DEF RunCounted
  <1>11. \A p \in Ordinal : step'[p] # "ended" => p >= firstOrdinal
    BY <1>1 DEF RunCounted, Types
  <1>12. firstOrdinal' \in 1..(TransactionCount + 1) /\ firstOrdinal' = firstOrdinal
    BY <1>1 DEF RunCounted
  <1>13. RunCounted'
    BY <1>1, <1>2, <1>10, <1>11, <1>12 DEF RunCounted
  <1>14. Cardinality(records') <= TransactionCount
    BY <1>7, <1>8, <1>9, <1>10, <1>12
  <1>15. QED
    BY <1>5, <1>13, <1>14 DEF Few

\* A step that leaves the records and main() alone and ends no task.
LEMMA StillCounted ==
  ASSUME RunCounted, UNCHANGED <<main, firstOrdinal, records>>,
         \A o \in Ordinal : step'[o] = "ended" <=> step[o] = "ended"
  PROVE  RunCounted'
  <1>1. Over' = Over
    BY DEF Over
  <1>2. QED
    BY <1>1 DEF RunCounted

LEMMA RunStays ==
  ASSUME Types, NoTasks, SignaturesDiffer, RecordsFew, RunCounted, [SenderNext]_vars
  PROVE  RunCounted'
  <1>1. ASSUME NEW o \in Ordinal, TaskStep(o)
        PROVE  RunCounted'
    <2>1. CASE RecordBroadcast(o)
      BY <2>1, RecordCounts
    <2>2. ASSUME ~RecordBroadcast(o)
          PROVE  /\ UNCHANGED <<main, firstOrdinal, records>>
                 /\ step[o] # "ended"
                 /\ \E s \in Step \ {"ended"} : step' = [step EXCEPT ![o] = s]
      BY <1>1, <2>2 DEF TaskStep, Wake, Start, SelectAgain, Select, Sign, RefreshAgain, Broadcast,
                        Answer, Fail, Retry, record_vars, Step
    <2>3. ASSUME ~RecordBroadcast(o)
          PROVE  \A p \in Ordinal : step'[p] = "ended" <=> step[p] = "ended"
      BY <2>2, <2>3 DEF Types
    <2>4. QED
      BY <2>1, <2>2, <2>3, StillCounted
  <1>2. CASE Schedule
    <2>1. /\ main = "starting" /\ main' = "sending"
          /\ step' = [o \in Ordinal |-> IF o >= firstOrdinal THEN "asleep" ELSE "ended"]
          /\ firstOrdinal' = firstOrdinal /\ records' = records
      BY <1>2 DEF Schedule, record_vars
    <2>2. Over' = {}
      BY <2>1 DEF Over
    <2>3. Cardinality(Over') = 0
      BY <2>2, FS_EmptySet
    <2>4. QED
      BY <2>1, <2>3 DEF RunCounted
  <1>3. CASE Complete
    <2>1. /\ main = "sending" /\ AllSent /\ main' = "flushing"
          /\ UNCHANGED <<records, firstOrdinal, step>>
      BY <1>3 DEF Complete
    <2>2. Cardinality(Over) = TransactionCount - firstOrdinal + 1
      BY <2>1, OverBound DEF RunCounted
    <2>3. firstOrdinal \in Int /\ Cardinality(records) = firstOrdinal - 1 + Cardinality(Over)
      BY <2>1 DEF RunCounted
    <2>4. Cardinality(records) = TransactionCount
      BY <2>2, <2>3
    <2>5. QED
      BY <2>1, <2>4 DEF RunCounted
  <1>4. CASE Finish
    BY <1>4 DEF Finish, record_vars, RunCounted
  <1>5. CASE Crash
    BY <1>5 DEF Crash, RunCounted
  <1>6. CASE Restart
    <2>1. /\ main = "dead" /\ main' = "starting" /\ step' = step
          /\ records' = manifest.records /\ firstOrdinal' = Cardinality(manifest.records) + 1
      BY <1>6 DEF Restart, RestartWith
    <2>2. /\ Cardinality(manifest.records) \in Nat
          /\ Cardinality(manifest.records) <= TransactionCount
      BY FS_CardinalityType DEF RecordsFew, Few
    <2>3. \A o \in Ordinal : step[o] = "ended"
      BY <2>1 DEF NoTasks
    <2>4. Cardinality(records') = firstOrdinal' - 1
      BY <2>1, <2>2
    <2>5. firstOrdinal' \in 1..(TransactionCount + 1)
      BY <2>1, <2>2
    <2>6. QED
      BY <2>1, <2>3, <2>4, <2>5 DEF RunCounted
  <1>7. ASSUME Persist \/ StartRefresh \/ Expire \/ RefreshNew \/ RefreshOld \/ RefreshFails
        PROVE  RunCounted'
    <2>1. UNCHANGED <<main, firstOrdinal, records>>
      BY <1>7 DEF Persist, StartRefresh, Expire, RefreshNew, RefreshOld, RefreshOk, RefreshFails,
                  run_vars, record_vars
    <2>2. \A o \in Ordinal : step'[o] = "ended" <=> step[o] = "ended"
      BY <1>7 DEF Persist, StartRefresh, Expire, RefreshNew, RefreshOld, RefreshOk, RefreshFails,
                  run_vars, Types
    <2>3. QED
      BY <2>1, <2>2, StillCounted
  <1>8. CASE UNCHANGED vars
    BY <1>8, StillCounted DEF vars, run_vars, record_vars
  <1>9. ASSUME NEW o \in Ordinal, SignFails(o)
        PROVE  RunCounted'
    <2>1. \A p \in Ordinal : step'[p] = "ended" <=> step[p] = "ended"
      BY <1>9, FailedSigning DEF Types
    <2>2. QED
      BY <1>9, <2>1, FailedSigning, StillCounted
  <1>10. QED
    BY <1>1, <1>2, <1>3, <1>4, <1>5, <1>6, <1>7, <1>8, <1>9 DEF SenderNext, MainStep

LEMMA FewStays ==
  ASSUME Types, NoTasks, SignaturesDiffer, RecordsFew, RunCounted, [SenderNext]_vars
  PROVE  RecordsFew'
  <1>1. Few({})
    BY FS_EmptySet DEF Few
  <1>2. ASSUME NEW o \in Ordinal, RecordBroadcast(o), request, manifest' = manifest
        PROVE  RecordsFew'
    <2>1. Few(records')
      BY <1>2, RecordCounts
    <2>2. rendered'.records = records' \/ rendered' = rendered
      BY <1>2, Rendered DEF Manifest
    <2>3. QED
      BY <1>2, <2>1, <2>2 DEF RecordsFew, Few
  <1>3. ASSUME records' = records, manifest' = manifest, request
        PROVE  RecordsFew'
    BY <1>3, Rendered DEF Manifest, RecordsFew, Few
  <1>4. CASE Persist
    BY <1>1, <1>4 DEF Persist, Manifest, NoManifest, RecordsFew, Few
  <1>5. CASE Crash
    BY <1>1, <1>5 DEF Crash, NoManifest, RecordsFew, Few
  <1>6. CASE Restart
    BY <1>6 DEF Restart, RestartWith, Manifest, RecordsFew, Few
  <1>7. ASSUME UNCHANGED <<records, rendered, manifest>>
        PROVE  RecordsFew'
    BY <1>7 DEF RecordsFew, Few
  <1>8. QED
    BY <1>2, <1>3, <1>4, <1>5, <1>6, <1>7, RecordsSteps

LEMMA WholeStays ==
  ASSUME Types, NoTasks, RunCounted, CompleteIsWhole, [SenderNext]_vars
  PROVE  CompleteIsWhole'
  <1> USE DEF CompleteIsWhole, Whole
  <1>1. ASSUME main = "sending", main' = main, sendingComplete' = sendingComplete, request,
               manifest' = manifest
        PROVE  CompleteIsWhole'
    BY <1>1, Rendered DEF Manifest
  <1>2. ASSUME records' = records, manifest' = manifest, request,
               UNCHANGED <<main, sendingComplete>>
        PROVE  CompleteIsWhole'
    BY <1>2, Rendered DEF Manifest, RunCounted
  <1>3. CASE Complete
    <2>1. RunCounted => Cardinality(Over) = TransactionCount - firstOrdinal + 1
      BY <1>3, OverBound DEF Complete, RunCounted
    <2>2. /\ main = "sending" /\ main' = "flushing" /\ records' = records
          /\ manifest' = manifest /\ request
      BY <1>3 DEF Complete
    <2>3. firstOrdinal \in Int /\ Cardinality(records) = firstOrdinal - 1 + Cardinality(Over)
      BY <2>2 DEF RunCounted
    <2>4. Cardinality(records') = TransactionCount
      BY <2>1, <2>2, <2>3
    <2>5. rendered' = rendered \/ rendered'.records = records'
      BY <2>2, Rendered DEF Manifest
    <2>6. Whole(rendered)'
      BY <2>4, <2>5
    <2>7. Whole(manifest)' /\ main' \in {"flushing", "finished"}
      BY <2>2
    <2>8. QED
      BY <2>6, <2>7
  <1>4. CASE Persist
    BY <1>4 DEF Persist, Manifest, NoManifest, run_vars, RunCounted
  <1>5. CASE Crash
    BY <1>5 DEF Crash, NoManifest
  <1>6. CASE Restart
    BY <1>6 DEF Restart, RestartWith, Manifest
  <1>7. ASSUME UNCHANGED <<records, rendered, manifest, sendingComplete>>,
               main \in {"flushing", "finished"} => main' \in {"flushing", "finished"}
        PROVE  CompleteIsWhole'
    BY <1>7
  <1>8. QED
    BY <1>1, <1>2, <1>3, <1>4, <1>5, <1>6, <1>7, RecordsSteps

-----------------------------------------------------------------------------
(* What the records say of the broadcasts.                                 *)

Of(recs, o) == {r \in recs : r.ordinal = o}

\* Each record of an ordinal stands for a broadcast of its own, and a broadcast
\* that is not recorded yet is one more.
EachBroadcast ==
  /\ \A o \in Ordinal :
       step[o] \in {"rpc", "slot"} => Cardinality(Of(records, o)) + 1 <= sends[o]
  /\ \A o \in Ordinal : Cardinality(Of(records, o)) <= sends[o]
  /\ \A o \in Ordinal : Cardinality(Of(manifest.records, o)) <= sends[o]

SentInThisRun(o) == step[o] \in {"rpc", "slot"} \/ (step[o] = "ended" /\ main # "starting")

Covers(recs) == \A o \in Ordinal : \E r \in recs : r.ordinal = o

\* While nothing was killed, a task that has ended has its record, and what is
\* rendered as complete was rendered when all tasks had ended.
Unbroken ==
  crashes = 0 =>
    /\ main # "dead" /\ firstOrdinal = 1
    /\ \A o \in Ordinal : sends[o] = IF SentInThisRun(o) THEN 1 ELSE 0
    /\ main # "starting" =>
         \A o \in Ordinal : step[o] = "ended" => \E r \in records : r.ordinal = o
    /\ \A m \in {rendered, manifest} :
         m.complete => main \in {"flushing", "finished"} /\ Covers(m.records)

LEMMA OfFew ==
  ASSUME NEW recs, Few(recs), NEW o
  PROVE  /\ IsFiniteSet(Of(recs, o)) /\ Cardinality(Of(recs, o)) \in Nat
         /\ \A less \in SUBSET recs : Cardinality(Of(less, o)) \in Nat
                                      /\ Cardinality(Of(less, o)) <= Cardinality(Of(recs, o))
  <1>1. Of(recs, o) \subseteq recs /\ IsFiniteSet(recs)
    BY DEF Few, Of
  <1>2. IsFiniteSet(Of(recs, o)) /\ Cardinality(Of(recs, o)) \in Nat
    BY <1>1, FS_Subset, FS_CardinalityType
  <1>3. ASSUME NEW less \in SUBSET recs
        PROVE  Cardinality(Of(less, o)) \in Nat /\ Cardinality(Of(less, o)) <= Cardinality(Of(recs, o))
    <2>1. Of(less, o) \subseteq Of(recs, o)
      BY DEF Of
    <2>2. QED
      BY <1>2, <2>1, FS_Subset, FS_CardinalityType
  <1>4. QED
    BY <1>2, <1>3

\* Steps that broadcast nothing and record nothing.
LEMMA StillEach ==
  ASSUME Types, EachBroadcast, UNCHANGED <<records, sends>>,
         manifest' = manifest \/ (RecordsFew /\ manifest'.records \subseteq records),
         \A o \in Ordinal : step'[o] \in {"rpc", "slot"} => step[o] \in {"rpc", "slot"}
  PROVE  EachBroadcast'
  <1>1. CASE manifest' = manifest
    BY <1>1 DEF EachBroadcast, Of
  <1>2. CASE RecordsFew /\ manifest'.records \subseteq records
    <2>1. ASSUME NEW o \in Ordinal
          PROVE  Cardinality(Of(manifest'.records, o)) <= Cardinality(Of(records, o))
      BY <1>2, OfFew DEF RecordsFew
    <2>2. \A o \in Ordinal : Cardinality(Of(records, o)) <= sends[o]
      BY DEF EachBroadcast
    <2>3. \A o \in Ordinal : /\ Cardinality(Of(records, o)) \in Nat
                             /\ Cardinality(Of(manifest'.records, o)) \in Nat
      BY <1>2, OfFew DEF RecordsFew
    <2>4. ASSUME NEW o \in Ordinal
          PROVE  Cardinality(Of(manifest'.records, o)) <= sends'[o]
      <3>1. sends'[o] = sends[o] /\ sends[o] \in Nat
        BY DEF Types
      <3>2. Cardinality(Of(records, o)) <= sends[o]
        BY <2>2
      <3>3. QED
        BY <2>1, <2>3, <3>1, <3>2
    <2>5. QED
      BY <2>4 DEF EachBroadcast, Of
  <1>3. QED
    BY <1>1, <1>2

LEMMA EachStays ==
  ASSUME Types, NoTasks, SignaturesDiffer, RecordsFew, RecordsGrow, EachBroadcast,
         [SenderNext]_vars
  PROVE  EachBroadcast'
  <1>1. \A o \in Ordinal : sends[o] \in Nat
    BY DEF Types
  <1>2. \A o \in Ordinal : /\ Cardinality(Of(records, o)) \in Nat
                           /\ Cardinality(Of(manifest.records, o)) \in Nat
    BY OfFew DEF RecordsFew
  <1>3. ASSUME NEW o \in Ordinal, TaskStep(o)
        PROVE  EachBroadcast'
    <2>1. CASE Broadcast(o)
      <3>1. /\ UNCHANGED <<records, manifest>> /\ step[o] = "timer"
            /\ step' = [step EXCEPT ![o] = "rpc"] /\ sends' = [sends EXCEPT ![o] = sends[o] + 1]
        BY <2>1 DEF Broadcast, record_vars
      <3>2. /\ \A p \in Ordinal \ {o} : step'[p] = step[p] /\ sends'[p] = sends[p]
            /\ sends'[o] = sends[o] + 1
        BY <3>1 DEF Types
      <3>3. QED
        BY <1>1, <1>2, <3>1, <3>2 DEF EachBroadcast
    <2>2. CASE RecordBroadcast(o)
      <3> DEFINE r == [ordinal |-> o, signature |-> signature[o]]
      <3>1. /\ step[o] = "slot" /\ step' = [step EXCEPT ![o] = "ended"]
            /\ records' = records \cup {r} /\ UNCHANGED <<manifest, sends>>
        BY <2>2 DEF RecordBroadcast, past_vars
      <3>2. r.ordinal = o /\ IsFiniteSet(Of(records, o))
        BY OfFew DEF RecordsFew
      <3> HIDE DEF r
      <3>3. /\ \A p \in Ordinal \ {o} : Of(records', p) = Of(records, p)
            /\ Of(records', o) = Of(records, o) \cup {r}
        BY <3>1, <3>2 DEF Of
      <3>4. Cardinality(Of(records', o)) <= Cardinality(Of(records, o)) + 1
        <4>1. \/ Cardinality(Of(records', o)) = Cardinality(Of(records, o))
              \/ Cardinality(Of(records', o)) = Cardinality(Of(records, o)) + 1
          <5>1. IsFiniteSet(Of(records, o))
            BY <3>2
          <5>2. Cardinality(Of(records, o) \cup {r})
                  = IF r \in Of(records, o) THEN Cardinality(Of(records, o))
                    ELSE Cardinality(Of(records, o)) + 1
            BY <5>1, FS_AddElement
          <5>3. QED
            BY <3>3, <5>2
        <4>2. Cardinality(Of(records, o)) \in Nat
          BY <1>2
        <4>3. QED
          BY <4>1, <4>2
      <3>5. Cardinality(Of(records', o)) \in Nat
        BY <3>2, <3>3, FS_AddElement, FS_CardinalityType
      <3>6. /\ Cardinality(Of(records, o)) + 1 <= sends[o]
            /\ \A p \in Ordinal : sends'[p] = sends[p]
        BY <3>1 DEF EachBroadcast
      <3>7. Cardinality(Of(records', o)) <= sends'[o]
        BY <1>1, <1>2, <3>4, <3>5, <3>6
      <3>8. \A p \in Ordinal : p # o => step'[p] = step[p]
        BY <3>1 DEF Types
      <3>9. step'[o] = "ended"
        BY <3>1 DEF Types
      <3>10. QED
        BY <3>1, <3>3, <3>6, <3>7, <3>8, <3>9 DEF EachBroadcast
    <2>3. ASSUME ~Broadcast(o), ~RecordBroadcast(o)
          PROVE  EachBroadcast'
      <3>1. UNCHANGED <<records, manifest, sends>>
        BY <1>3, <2>3 DEF TaskStep, Wake, Start, SelectAgain, Select, Sign, RefreshAgain, Answer,
                          Fail, Retry, record_vars, past_vars
      <3>2. \A p \in Ordinal : step'[p] \in {"rpc", "slot"} => step[p] \in {"rpc", "slot"}
        BY <1>3, <2>3 DEF TaskStep, Wake, Start, SelectAgain, Select, Sign, RefreshAgain, Answer,
                          Fail, Retry, Types
      <3>3. QED
        BY <3>1, <3>2, StillEach
    <2>4. QED
      BY <2>1, <2>2, <2>3
  <1>4. CASE MainStep
    <2>1. /\ UNCHANGED <<records, manifest, sends>>
          /\ \A o \in Ordinal : step'[o] = step[o] \/ step'[o] \in {"asleep", "ended"}
      BY <1>4 DEF MainStep, Schedule, Complete, Finish, record_vars, past_vars
    <2>2. QED
      BY <2>1, StillEach
  <1>5. CASE Persist
    <2>1. UNCHANGED <<records, sends, step>> /\ manifest' = rendered /\ rendered # NoManifest
      BY <1>5 DEF Persist, run_vars, past_vars
    <2>2. manifest'.records \subseteq records
      BY <2>1 DEF RecordsGrow
    <2>3. QED
      BY <2>1, <2>2, StillEach
  <1>6. CASE Crash
    <2>1. /\ records' = {} /\ step' = [o \in Ordinal |-> "ended"]
          /\ UNCHANGED <<manifest, sends>>
      BY <1>6 DEF Crash
    <2>2. \A o \in Ordinal : Of(records', o) = {}
      BY <2>1 DEF Of
    <2>3. \A o \in Ordinal : Cardinality(Of(records', o)) = 0
      BY <2>2, FS_EmptySet
    <2>4. \A o \in Ordinal : 0 <= sends'[o]
      BY <1>1, <2>1
    <2>5. \A o \in Ordinal : step'[o] = "ended"
      BY <2>1
    <2>6. QED
      BY <2>1, <2>3, <2>4, <2>5 DEF EachBroadcast
  <1>7. CASE Restart
    <2>1. /\ records' = manifest.records /\ main = "dead"
          /\ UNCHANGED <<step, manifest, sends>>
      BY <1>7 DEF Restart, RestartWith, past_vars
    <2>2. \A o \in Ordinal : step'[o] = "ended"
      BY <2>1 DEF NoTasks
    <2>3. QED
      BY <2>1, <2>2 DEF EachBroadcast
  <1>8. CASE StartRefresh \/ Expire \/ RefreshNew \/ RefreshOld \/ RefreshFails \/ UNCHANGED vars
    <2>1. UNCHANGED <<records, manifest, sends>>
      BY <1>8 DEF StartRefresh, Expire, RefreshNew, RefreshOld, RefreshOk, RefreshFails, vars,
                  record_vars, past_vars
    <2>2. \A o \in Ordinal : step'[o] \in {"rpc", "slot"} => step[o] \in {"rpc", "slot"}
      BY <1>8 DEF StartRefresh, Expire, RefreshNew, RefreshOld, RefreshOk, RefreshFails, vars,
                  run_vars, Types
    <2>3. QED
      BY <2>1, <2>2, StillEach
  <1>9. ASSUME NEW o \in Ordinal, SignFails(o)
        PROVE  EachBroadcast'
    <2>1. \A p \in Ordinal : step'[p] \in {"rpc", "slot"} => step[p] \in {"rpc", "slot"}
      BY <1>9, FailedSigning DEF Types
    <2>2. QED
      BY <1>9, <2>1, FailedSigning, StillEach
  <1>10. QED
    BY <1>3, <1>4, <1>5, <1>6, <1>7, <1>8, <1>9 DEF SenderNext

\* Steps that leave the tasks where they are counted, and what is rendered.
LEMMA StillUnbroken ==
  ASSUME Unbroken, UNCHANGED <<crashes, firstOrdinal, main, records, sends>>,
         manifest' = manifest,
         \/ rendered' = rendered
         \/ rendered' = Manifest(records, sendingComplete) /\ ~sendingComplete,
         \A o \in Ordinal : /\ SentInThisRun(o)' <=> SentInThisRun(o)
                            /\ step'[o] = "ended" => step[o] = "ended"
  PROVE  Unbroken'
  <1> SUFFICES ASSUME crashes = 0 PROVE Unbroken'
    BY DEF Unbroken
  <1>1. /\ main # "dead" /\ firstOrdinal = 1
        /\ \A o \in Ordinal : sends[o] = IF SentInThisRun(o) THEN 1 ELSE 0
        /\ main # "starting" =>
             \A o \in Ordinal : step[o] = "ended" => \E r \in records : r.ordinal = o
        /\ \A m \in {rendered, manifest} :
             m.complete => main \in {"flushing", "finished"} /\ Covers(m.records)
    BY DEF Unbroken
  <1>2. \A o \in Ordinal : sends'[o] = IF SentInThisRun(o)' THEN 1 ELSE 0
    BY <1>1
  <1>3. \A m \in {rendered', manifest'} :
          m.complete => main' \in {"flushing", "finished"} /\ Covers(m.records)
    BY <1>1 DEF Manifest
  <1>4. QED
    BY <1>1, <1>2, <1>3 DEF Unbroken, Covers

LEMMA UnbrokenStays ==
  ASSUME Types, NoTasks, RunCounted, RecordsGrow, CompleteIsWhole, Unbroken, [SenderNext]_vars
  PROVE  Unbroken'
  <1>1. ASSUME NEW o \in Ordinal, TaskStep(o)
        PROVE  Unbroken'
    <2>1. main = "sending" /\ main' = main /\ ~sendingComplete
      BY <1>1 DEF TaskStep, Wake, Start, SelectAgain, Select, Sign, RefreshAgain, Broadcast, Answer,
                  RecordBroadcast, Fail, Retry, NoTasks, CompleteIsWhole
    <2>2. CASE Broadcast(o)
      <3>1. /\ step[o] = "timer" /\ step' = [step EXCEPT ![o] = "rpc"]
            /\ sends' = [sends EXCEPT ![o] = sends[o] + 1]
            /\ UNCHANGED <<main, firstOrdinal, records, rendered, manifest, crashes>>
        BY <2>2 DEF Broadcast, record_vars
      <3>2. /\ \A p \in Ordinal \ {o} : step'[p] = step[p] /\ sends'[p] = sends[p]
            /\ step'[o] = "rpc" /\ sends'[o] = sends[o] + 1
        BY <3>1 DEF Types
      <3>3. ASSUME crashes = 0
            PROVE  \A p \in Ordinal : sends'[p] = IF SentInThisRun(p)' THEN 1 ELSE 0
        BY <3>1, <3>2, <3>3 DEF Unbroken, SentInThisRun
      <3>4. QED
        BY <3>1, <3>2, <3>3 DEF Unbroken, Covers
    <2>3. CASE RecordBroadcast(o)
      <3> DEFINE r == [ordinal |-> o, signature |-> signature[o]]
      <3>1. /\ step[o] = "slot" /\ step' = [step EXCEPT ![o] = "ended"]
            /\ records' = records \cup {r} /\ request
            /\ UNCHANGED <<main, firstOrdinal, sends, manifest, crashes, sendingComplete>>
        BY <2>3 DEF RecordBroadcast, past_vars
      <3>2. r.ordinal = o
        OBVIOUS
      <3> HIDE DEF r
      <3>3. \A p \in Ordinal \ {o} : step'[p] = step[p]
        BY <3>1 DEF Types
      <3>4. step'[o] = "ended"
        BY <3>1 DEF Types
      <3>5. ASSUME crashes = 0
            PROVE  /\ \A p \in Ordinal : sends'[p] = IF SentInThisRun(p)' THEN 1 ELSE 0
                   /\ \A p \in Ordinal : step'[p] = "ended" => \E s \in records' : s.ordinal = p
        BY <2>1, <3>1, <3>2, <3>3, <3>4, <3>5 DEF Unbroken, SentInThisRun
      <3>6. ~rendered'.complete \/ rendered' = rendered
        BY <2>1, <3>1, Rendered DEF Manifest
      <3>7. ASSUME crashes = 0
            PROVE  \A m \in {rendered', manifest'} :
                     m.complete => main' \in {"flushing", "finished"} /\ Covers(m.records)
        BY <3>1, <3>6, <3>7 DEF Unbroken
      <3>8. QED
        BY <3>1, <3>5, <3>7 DEF Unbroken, Covers
    <2>4. ASSUME ~Broadcast(o), ~RecordBroadcast(o)
          PROVE  Unbroken'
      <3>1. UNCHANGED <<crashes, firstOrdinal, main, records, sends, manifest>>
        BY <1>1, <2>4 DEF TaskStep, Wake, Start, SelectAgain, Select, Sign, RefreshAgain, Answer,
                          Fail, Retry, record_vars, past_vars
      <3>2. rendered' = rendered \/ (Fail(o) /\ request /\ sendingComplete' = sendingComplete)
        BY <1>1, <2>4 DEF TaskStep, Wake, Start, SelectAgain, Select, Sign, RefreshAgain, Answer,
                          Fail, Retry, record_vars
      <3>3. rendered' = rendered \/ rendered' = Manifest(records, sendingComplete)
        BY <3>1, <3>2, Rendered
      <3>4. \A p \in Ordinal \ {o} : step'[p] = step[p]
        BY <1>1, <2>4 DEF TaskStep, Wake, Start, SelectAgain, Select, Sign, RefreshAgain, Answer,
                          Fail, Retry, Types
      <3>5. /\ step'[o] # "ended" /\ step[o] # "ended"
            /\ step'[o] \in {"rpc", "slot"} <=> step[o] \in {"rpc", "slot"}
        BY <1>1, <2>4 DEF TaskStep, Wake, Start, SelectAgain, Select, Sign, RefreshAgain, Answer,
                          Fail, Retry, Types
      <3>6. \A p \in Ordinal : /\ SentInThisRun(p)' <=> SentInThisRun(p)
                               /\ step'[p] = "ended" => step[p] = "ended"
        BY <3>1, <3>4, <3>5 DEF SentInThisRun
      <3>7. QED
        BY <2>1, <3>1, <3>3, <3>6, StillUnbroken
    <2>5. QED
      BY <2>2, <2>3, <2>4
  <1>2. CASE Schedule
    <2>1. /\ main = "starting" /\ main' = "sending"
          /\ step' = [o \in Ordinal |-> IF o >= firstOrdinal THEN "asleep" ELSE "ended"]
          /\ UNCHANGED <<firstOrdinal, records, rendered, manifest, crashes, sends>>
      BY <1>2 DEF Schedule, record_vars, past_vars
    <2>2. \A o \in Ordinal : step[o] = "ended" /\ o >= 1
      BY <2>1 DEF NoTasks, Ordinal
    <2>3. ASSUME crashes = 0
          PROVE  \A o \in Ordinal : step'[o] = "asleep" /\ sends'[o] = 0
      BY <2>1, <2>2, <2>3 DEF Unbroken, SentInThisRun
    <2>4. ASSUME crashes = 0
          PROVE  \A o \in Ordinal : ~SentInThisRun(o)'
      BY <2>3, <2>4 DEF SentInThisRun
    <2>5. ASSUME crashes = 0
          PROVE  ~rendered.complete /\ ~manifest.complete
      BY <2>1, <2>5 DEF Unbroken
    <2>6. QED
      BY <2>1, <2>3, <2>4, <2>5 DEF Unbroken
  <1>3. CASE Complete
    <2>1. /\ main = "sending" /\ AllSent /\ main' = "flushing" /\ request
          /\ UNCHANGED <<firstOrdinal, step, records, manifest, crashes, sends>>
      BY <1>3 DEF Complete, past_vars
    <2>2. \A o \in Ordinal : SentInThisRun(o)' <=> SentInThisRun(o)
      BY <2>1 DEF SentInThisRun
    <2>3. crashes = 0 => Covers(records)
      BY <2>1 DEF Unbroken, AllSent, Covers
    <2>4. rendered' = rendered \/ rendered'.records = records
      BY <2>1, Rendered DEF Manifest
    <2>5. ASSUME crashes = 0
          PROVE  \A m \in {rendered', manifest'} : m.complete => Covers(m.records)
      BY <2>1, <2>3, <2>4, <2>5 DEF Unbroken
    <2>6. QED
      BY <2>1, <2>2, <2>5 DEF Unbroken, Covers
  <1>4. CASE Finish
    <2>1. /\ main = "flushing" /\ main' = "finished"
          /\ UNCHANGED <<firstOrdinal, step, records, rendered, manifest, crashes, sends>>
      BY <1>4 DEF Finish, record_vars, past_vars
    <2>2. \A o \in Ordinal : SentInThisRun(o)' <=> SentInThisRun(o)
      BY <2>1 DEF SentInThisRun
    <2>3. QED
      BY <2>1, <2>2 DEF Unbroken, Covers
  <1>5. CASE Persist
    <2>1. /\ UNCHANGED <<main, firstOrdinal, step, records, crashes, sends>>
          /\ manifest' = rendered
          /\ rendered' = Manifest(records, sendingComplete) \/ rendered' = NoManifest
      BY <1>5 DEF Persist, run_vars, past_vars
    <2>2. \A o \in Ordinal : SentInThisRun(o)' <=> SentInThisRun(o)
      BY <2>1 DEF SentInThisRun
    <2>3. ASSUME crashes = 0, sendingComplete
          PROVE  main \in {"flushing", "finished"} /\ Covers(records)
      <3>1. main \in {"flushing", "finished"}
        BY <2>3 DEF CompleteIsWhole
      <3>2. \A o \in Ordinal : step[o] = "ended"
        BY <3>1 DEF NoTasks
      <3>3. QED
        BY <2>3, <3>1, <3>2 DEF Unbroken, Covers
    <2>4. ASSUME crashes = 0
          PROVE  \A m \in {rendered', manifest'} :
                   m.complete => main' \in {"flushing", "finished"} /\ Covers(m.records)
      <3>1. rendered.complete => main \in {"flushing", "finished"} /\ Covers(rendered.records)
        BY <2>4 DEF Unbroken
      <3>2. rendered'.complete => main \in {"flushing", "finished"} /\ Covers(rendered'.records)
        BY <2>1, <2>3, <2>4 DEF Manifest, NoManifest
      <3>3. QED
        BY <2>1, <3>1, <3>2
    <2>5. QED
      BY <2>1, <2>2, <2>4 DEF Unbroken, Covers
  <1>6. CASE Crash
    BY <1>6 DEF Crash, Unbroken, Types
  <1>7. CASE Restart
    <2>1. main = "dead" /\ crashes' = crashes
      BY <1>7 DEF Restart, RestartWith, past_vars
    <2>2. QED
      BY <2>1 DEF Unbroken
  <1>8. CASE StartRefresh \/ Expire \/ RefreshNew \/ RefreshOld \/ RefreshFails \/ UNCHANGED vars
    <2>1. UNCHANGED <<crashes, firstOrdinal, main, records, sends, manifest, rendered>>
      BY <1>8 DEF StartRefresh, Expire, RefreshNew, RefreshOld, RefreshOk, RefreshFails, vars,
                  run_vars, record_vars, past_vars
    <2>2. \A o \in Ordinal : \/ step'[o] = step[o]
                             \/ /\ step[o] \in {"refreshing", "refreshing_again"}
                                /\ step'[o] \in {"signing", "selecting", "failed"}
      BY <1>8 DEF StartRefresh, Expire, RefreshNew, RefreshOld, RefreshOk, RefreshFails, vars,
                  run_vars, Types
    <2>3. \A o \in Ordinal : /\ SentInThisRun(o)' <=> SentInThisRun(o)
                             /\ step'[o] = "ended" => step[o] = "ended"
      BY <2>1, <2>2 DEF SentInThisRun
    <2>4. /\ UNCHANGED <<crashes, firstOrdinal, main, records, sends>>
          /\ manifest' = manifest /\ rendered' = rendered
      BY <2>1
    <2>5. QED
      BY <2>3, <2>4, StillUnbroken
  <1>9. ASSUME NEW o \in Ordinal, SignFails(o)
        PROVE  Unbroken'
    <2>1. /\ UNCHANGED <<crashes, firstOrdinal, main, records, sends>>
          /\ manifest' = manifest /\ rendered' = rendered
          /\ step[o] = "signing" /\ step' = [step EXCEPT ![o] = "failed"]
      BY <1>9, FailedSigning
    <2>2. \A p \in Ordinal : /\ SentInThisRun(p)' <=> SentInThisRun(p)
                             /\ step'[p] = "ended" => step[p] = "ended"
      BY <2>1 DEF SentInThisRun, Types
    <2>3. QED
      BY <2>1, <2>2, StillUnbroken
  <1>10. QED
    BY <1>1, <1>2, <1>3, <1>4, <1>5, <1>6, <1>7, <1>8, <1>9 DEF SenderNext, MainStep

-----------------------------------------------------------------------------
(* The invariant, and what it implies.                                     *)

IInv ==
  /\ GateTypeOK /\ GateInv
  /\ Types /\ NoTasks
  /\ InsideRuns
  /\ NotYetSent
  /\ SignaturesDiffer /\ RecordsOnce
  /\ RecordsGrow /\ Unwritten
  /\ RunCounted /\ RecordsFew /\ CompleteIsWhole
  /\ EachBroadcast /\ Unbroken

LEMMA SenderStart == SenderInit => IInv
  <1> SUFFICES ASSUME SenderInit PROVE IInv
    OBVIOUS
  <1>1. /\ active = 0 /\ waiters = <<>> /\ at = [t \in Tasks |-> "outside"]
    BY DEF SenderInit, GateInit
  <1>2. Holders = {} /\ Len(waiters) = 0
    BY <1>1 DEF Holders
  <1>3. GateTypeOK /\ GateInv
    BY <1>1, <1>2, EmptySeq, FS_EmptySet DEF GateTypeOK, Place, GateInv
  <1>4. Types /\ NoTasks /\ InsideRuns /\ NotYetSent
    BY DEF SenderInit, Types, Step, NoTasks, InsideRuns, Inside, NotYetSent
  <1>5. SignaturesDiffer /\ RecordsOnce /\ RecordsGrow /\ Unwritten
    BY DEF SenderInit, SignaturesDiffer, Signed, RecordsOnce, Once, RecordsGrow, Unwritten,
           Manifest, NoManifest
  <1>6. records = {} /\ rendered.records = {} /\ manifest.records = {}
    BY DEF SenderInit, Manifest, NoManifest
  <1>7. Few({}) /\ Cardinality({}) = 0
    BY FS_EmptySet DEF Few
  <1>8. RecordsFew
    BY <1>6, <1>7 DEF RecordsFew
  <1>9. main = "starting" /\ firstOrdinal = 1 /\ step = [o \in Ordinal |-> "ended"]
    BY DEF SenderInit
  <1>10. RunCounted
    BY <1>6, <1>7, <1>9 DEF RunCounted
  <1>11. CompleteIsWhole
    BY DEF SenderInit, CompleteIsWhole, Whole, Manifest, NoManifest
  <1>12. EachBroadcast
    <2>1. \A o \in Ordinal : Of(records, o) = {} /\ Of(manifest.records, o) = {}
      BY <1>6 DEF Of
    <2>2. \A o \in Ordinal :
            /\ Cardinality(Of(records, o)) = 0 /\ Cardinality(Of(manifest.records, o)) = 0
            /\ step[o] = "ended" /\ sends[o] = 0
      BY <1>7, <1>9, <2>1 DEF SenderInit
    <2>3. QED
      BY <2>2 DEF EachBroadcast
  <1>13. Unbroken
    BY DEF SenderInit, Unbroken, SentInThisRun, Manifest, NoManifest
  <1>14. QED
    BY <1>3, <1>4, <1>5, <1>8, <1>10, <1>11, <1>12, <1>13 DEF IInv

LEMMA SenderInvariant == SenderSpec => []IInv
  <1>1. IInv /\ [SenderNext]_vars => IInv'
    BY GateStays, TypesStay, NoTasksStays, InsideStays, NotYetSentStays, SignaturesStay, OnceStays,
       GrowStays, UnwrittenStays, RunStays, FewStays, WholeStays, EachStays, UnbrokenStays
       DEF IInv
  <1>2. QED
    BY <1>1, SenderStart, PTL DEF SenderSpec

\* The slots bound what is signed and not yet answered for: whoever signs or
\* broadcasts is running in the gate.
THEOREM SlotsBoundBroadcasts == SenderSpec => []BroadcastsBounded
  <1>1. ASSUME IInv
        PROVE  BroadcastsBounded
    <2> DEFINE signing == {o \in Ordinal : step[o] \in {"signing", "timer", "rpc"}}
    <2>1. signing \in SUBSET Holders
      BY <1>1 DEF IInv, InsideRuns, Inside, Holders
    <2>2. Cardinality(signing) <= Cardinality(Holders) /\ Cardinality(signing) \in Nat
      BY <2>1, HoldersFinite, FS_Subset, FS_CardinalityType
    <2>3. Cardinality(Holders) <= Limit /\ Cardinality(Holders) \in Nat
      BY <1>1, HoldersFinite DEF IInv, GateInv
    <2>4. QED
      BY <2>2, <2>3 DEF BroadcastsBounded
  <1>2. QED
    BY <1>1, SenderInvariant, PTL

\* A run broadcasts an ordinal at most once.
THEOREM OneBroadcast == SenderSpec => []OneBroadcastPerRun
  <1>1. IInv => OneBroadcastPerRun
    BY DEF IInv, NotYetSent, OneBroadcastPerRun
  <1>2. QED
    BY <1>1, SenderInvariant, PTL

\* No signature is recorded twice, over restarts too, and no ordinal more often
\* than it was broadcast.
THEOREM SignaturesRecordedOnce == SenderSpec => []RecordedOnce
  <1>1. IInv => RecordedOnce
    BY DEF IInv, RecordsOnce, Once, EachBroadcast, Of, RecordedOnce
  <1>2. QED
    BY <1>1, SenderInvariant, PTL

\* A manifest that says it is complete has as many records as transactions were
\* asked for; if nothing was killed, each ordinal was broadcast once and has its
\* record: what was complete when it was rendered was so when all tasks had ended.
THEOREM CompleteHasAll == SenderSpec => []CompleteManifestIsWhole
  <1>1. ASSUME IInv, manifest.complete, crashes = 0
        PROVE  \A o \in Ordinal : sends[o] = 1 /\ \E r \in manifest.records : r.ordinal = o
    <2>1. main \in {"flushing", "finished"} /\ Covers(manifest.records)
      BY <1>1 DEF IInv, Unbroken
    <2>2. \A o \in Ordinal : step[o] = "ended"
      BY <1>1, <2>1 DEF IInv, NoTasks
    <2>3. \A o \in Ordinal : SentInThisRun(o)
      BY <2>1, <2>2 DEF SentInThisRun
    <2>4. QED
      BY <1>1, <2>1, <2>3 DEF IInv, Unbroken, Covers
  <1>2. IInv => CompleteManifestIsWhole
    BY <1>1 DEF IInv, CompleteIsWhole, Whole, CompleteManifestIsWhole
  <1>3. QED
    BY <1>2, SenderInvariant, PTL

\* The manifest never loses a record.
THEOREM RecordsStay == SenderSpec => RecordedStaysRecorded
  <1>1. ASSUME IInv, [SenderNext]_vars
        PROVE  [manifest.records \subseteq manifest'.records]_vars
    <2>1. CASE Persist
      BY <1>1, <2>1 DEF Persist, IInv, RecordsGrow
    <2>2. ASSUME ~Persist
          PROVE  manifest' = manifest
      <3>1. Types /\ NoTasks
        BY <1>1 DEF IInv
      <3>2. Crash \/ Restart => manifest' = manifest
        BY DEF Crash, Restart, RestartWith
      <3>3. QED
        BY <1>1, <2>2, <3>1, <3>2, RecordsSteps
    <2>3. QED
      BY <2>1, <2>2
  <1>2. QED
    BY <1>1, SenderInvariant, PTL DEF SenderSpec, RecordedStaysRecorded

-----------------------------------------------------------------------------
(* The sender and the promise of the manifest.                             *)

Awaited == [c \in {"main"} |-> IF main \in {"starting", "flushing"} THEN records ELSE {}]

\* main() goes on after a flush when nothing is being written: then the manifest
\* has all records.
LEMMA MainFlushes ==
  ASSUME Types, Unwritten, Schedule \/ Complete \/ Finish
  PROVE  Store!Flush("main") \/ Store!FlushReturns("main")
  <1>1. CASE Complete
    <2>1. /\ main = "sending" /\ main' = "flushing"
          /\ records' = records /\ manifest' = manifest
      BY <1>1 DEF Complete
    <2>2. Awaited' = [Awaited EXCEPT !["main"] = records]
      BY <2>1 DEF Awaited
    <2>3. QED
      BY <2>1, <2>2 DEF Awaited, Store!Flush
  <1>2. CASE Schedule \/ Finish
    <2>1. /\ main \in {"starting", "flushing"} /\ main' \in {"sending", "finished"}
          /\ records' = records /\ manifest' = manifest /\ rendered = NoManifest
      BY <1>2 DEF Schedule, Finish, record_vars
    <2>2. Awaited' = [Awaited EXCEPT !["main"] = {}]
      BY <2>1 DEF Awaited
    <2>3. Awaited["main"] \subseteq manifest.records
      BY <2>1 DEF Awaited, Unwritten
    <2>4. QED
      BY <2>1, <2>2, <2>3 DEF Awaited, Store!FlushReturns
  <1>3. QED
    BY <1>1, <1>2

LEMMA SenderStepsAreTheStores ==
  ASSUME IInv, [SenderNext]_vars
  PROVE  [Store!Next]_(Store!vars)
  <1> USE DEF IInv
  <1>1. ASSUME main = "sending", main' = main, records \subseteq records', manifest' = manifest
        PROVE  Store!Record
    <2>1. Awaited' = Awaited
      BY <1>1 DEF Awaited
    <2>2. QED
      BY <1>1, <2>1 DEF Awaited, Store!Record
  <1>2. ASSUME UNCHANGED <<records, manifest, main>>
        PROVE  UNCHANGED Store!vars
    BY <1>2 DEF Store!vars
  <1>3. CASE Persist
    <2>1. /\ main' = main /\ main # "dead" /\ records' = records
          /\ manifest.records \subseteq manifest'.records /\ manifest'.records \subseteq records
      BY <1>3 DEF Persist, run_vars, RecordsGrow
    <2>2. QED
      BY <2>1 DEF Store!Write, Store!Next
  <1>4. CASE Crash
    <2>1. main # "dead" /\ main' = "dead" /\ records' = {} /\ manifest' = manifest
      BY <1>4 DEF Crash
    <2>2. Awaited' = [c \in {"main"} |-> {}]
      BY <2>1 DEF Awaited
    <2>3. QED
      BY <2>1, <2>2 DEF Awaited, Store!Stop, Store!Next
  <1>5. CASE Restart
    <2>1. /\ main = "dead" /\ main' = "starting" /\ records' = manifest.records
          /\ manifest' = manifest
      BY <1>5 DEF Restart, RestartWith
    <2>2. Awaited' \in [{"main"} -> {{}, manifest.records}]
      BY <2>1 DEF Awaited
    <2>3. QED
      BY <2>1, <2>2 DEF Awaited, Store!Restart, Store!Next
  <1>6. CASE Schedule \/ Complete \/ Finish
    BY <1>6, MainFlushes DEF Store!Next
  <1>7. QED
    BY <1>1, <1>2, <1>3, <1>4, <1>5, <1>6, RecordsSteps DEF Store!Next

\* What main() and the tasks do with the manifest is what the store allows: the
\* file loses no record, and main() goes on when it has those of the flush.
THEOREM SenderKeepsTheStore == SenderSpec => KeepsTheStore
  <1>1. SenderInit => Store!Init
    <2>1. ASSUME SenderInit
          PROVE  /\ records = {} /\ manifest.records = {} /\ main # "dead"
                 /\ Awaited = [c \in {"main"} |-> {}]
      BY <2>1 DEF SenderInit, NoManifest, Awaited
    <2>2. QED
      BY <2>1 DEF Awaited, Store!Init
  <1>2. QED
    BY <1>1, SenderInvariant, SenderStepsAreTheStores, PTL
       DEF SenderSpec, KeepsTheStore, Store!Spec

-----------------------------------------------------------------------------
(* The blockhashes, and the types that rest on how many there are.         *)

TaskTypes ==
  /\ \A o \in Ordinal : signature[o] \in Signature \cup {NoSignature}
  /\ issued \subseteq Signature
  /\ cache \in Nat /\ newest \in Nat /\ fresh \in BOOLEAN /\ flight \in BOOLEAN
  /\ hash \in [Ordinal -> Nat]

RecordTypes ==
  /\ records \subseteq Record /\ rendered.records \subseteq Record
  /\ manifest.records \subseteq Record
  /\ sendingComplete \in BOOLEAN /\ dirty \in BOOLEAN

FaultTypes == failures \in Nat /\ crashes + failures <= MaxFaults

HashTypes == TaskTypes /\ RecordTypes /\ FaultTypes

\* The blockhash that a task signs or has signed with in this run, 0 for none.
HashOf(o) == IF signature[o] = NoSignature THEN hash[o] ELSE signature[o].hash

\* At most as many blockhashes were used up by the runs that were killed and by
\* the signings that failed.
Spent == TransactionCount * crashes + failures

\* base is the newest blockhash of the earlier runs, lost holds those of the
\* signings that failed in this one.  Every other blockhash that was handed out in
\* this run is with a task, since of the tasks that were handed it the first to sign
\* finds its signature unused and keeps it: a run uses up no more of them than it
\* has ordinals.
UsedSince(base, lost) ==
  /\ cache <= newest + 1
  /\ \A o \in Ordinal : hash[o] <= newest /\ (step[o] = "signing" <=> hash[o] # 0)
  /\ \A o \in Ordinal :
       main \in {"starting", "dead"} \/ step[o] \notin Signed \cup {"ended"} =>
         signature[o] = NoSignature
  /\ \A s \in issued :
       /\ s.hash <= newest
       /\ s.hash <= base \/ s.hash \in lost \/ \E o \in Ordinal : signature[o] = s
  /\ \A r \in manifest.records : r.signature.hash <= newest
  /\ main = "dead" => newest <= base
  /\ \A h \in (base + 1)..newest : h \in lost \/ \E o \in Ordinal : HashOf(o) = h

HashesAreUsed ==
  \E base \in Nat, lost \in SUBSET Nat :
    /\ IsFiniteSet(lost) /\ base + Cardinality(lost) <= Spent
    /\ UsedSince(base, lost)

\* The products that count the blockhashes.
LEMMA Products ==
  ASSUME NEW a \in Nat, NEW b \in Nat, NEW c \in Nat, b <= c
  PROVE  /\ a * b \in Nat /\ a * (b + 1) = a * b + a /\ a * b <= a * c
  <1>1. PICK d \in Nat : c = b + d
    <2>1. c - b \in Nat /\ c = b + (c - b)
      OBVIOUS
    <2>2. QED
      BY <2>1
  <1>2. a * b \in Nat /\ a * d \in Nat /\ a * c = a * b + a * d
    BY <1>1, SMT
  <1>3. a * (b + 1) = a * b + a
    BY SMT
  <1>4. QED
    BY <1>2, <1>3

\* A task holds at most one blockhash of those that were handed out in this run.
LEMMA FewHashes ==
  ASSUME Types, HashTypes, NEW base \in Nat, NEW lost \in SUBSET Nat, IsFiniteSet(lost),
         base + Cardinality(lost) <= Spent, UsedSince(base, lost)
  PROVE  Spent \in Nat /\ newest <= Spent + TransactionCount /\ newest < MaxHash
  <1>1. /\ TransactionCount \in Nat \ {0} /\ MaxFaults \in Nat /\ crashes \in Nat
        /\ newest \in Nat /\ failures \in Nat /\ crashes + failures <= MaxFaults
    BY DEF Types, HashTypes, TaskTypes, FaultTypes
  <1>2. /\ Spent \in Nat /\ Spent <= TransactionCount * MaxFaults
        /\ TransactionCount * MaxFaults \in Nat
        /\ TransactionCount * (MaxFaults + 1) = TransactionCount * MaxFaults + TransactionCount
    <2>1. PICK less \in Nat : TransactionCount = less + 1
      <3>1. TransactionCount - 1 \in Nat /\ TransactionCount = (TransactionCount - 1) + 1
        BY <1>1
      <3>2. QED
        BY <3>1
    <2>2. /\ TransactionCount * crashes \in Nat /\ TransactionCount * MaxFaults \in Nat
          /\ TransactionCount * (MaxFaults + 1) = TransactionCount * MaxFaults + TransactionCount
          /\ TransactionCount * (crashes + failures) <= TransactionCount * MaxFaults
      BY <1>1, Products
    <2>3. /\ less * failures \in Nat
          /\ TransactionCount * (crashes + failures)
               = TransactionCount * crashes + TransactionCount * failures
          /\ TransactionCount * failures = less * failures + failures
      BY <1>1, <2>1, SMT
    <2>4. /\ TransactionCount * crashes + failures <= TransactionCount * (crashes + failures)
          /\ TransactionCount * crashes + failures \in Nat
      BY <1>1, <2>2, <2>3
    <2>5. QED
      BY <1>1, <2>2, <2>4 DEF Spent
  <1>3. newest <= Spent + TransactionCount
    <2> DEFINE handed == (base + 1)..newest
               held   == {HashOf(o) : o \in Ordinal}
               of     == [o \in 1..TransactionCount |-> HashOf(o)]
    <2>1. of \in Surjection(1..TransactionCount, held)
      BY DEF Surjection, Ordinal
    <2>2. IsFiniteSet(held) /\ Cardinality(held) <= TransactionCount
      <3>1. /\ IsFiniteSet(1..TransactionCount)
            /\ Cardinality(1..TransactionCount) = TransactionCount
        BY <1>1, FS_Interval
      <3>2. QED
        BY <2>1, <3>1, FS_Surjection
    <2>3. handed \in SUBSET (held \cup lost)
      BY DEF UsedSince
    <2>4. /\ IsFiniteSet(held \cup lost)
          /\ Cardinality(held \cup lost) =
               Cardinality(held) + Cardinality(lost) - Cardinality(held \cap lost)
      BY <2>2, FS_Union
    <2>5. Cardinality(handed) <= Cardinality(held \cup lost)
      BY <2>3, <2>4, FS_Subset
    <2>6. Cardinality(handed) = IF base + 1 > newest THEN 0 ELSE newest - base
      BY <1>1, FS_Interval
    <2>7. /\ Cardinality(held) \in Nat /\ Cardinality(lost) \in Nat
          /\ Cardinality(held \cap lost) \in Nat
      BY <2>2, FS_CardinalityType, FS_Intersection
    <2> HIDE DEF handed, held
    <2>8. Cardinality(handed) <= TransactionCount + Cardinality(lost)
      BY <1>1, <2>2, <2>4, <2>5, <2>6, <2>7
    <2>9. QED
      BY <1>1, <1>2, <2>6, <2>7, <2>8
  <1>4. QED
    BY <1>1, <1>2, <1>3 DEF MaxHash

\* What tasks and the cache hold are numbers of blockhashes.
LEMMA HashesFit ==
  ASSUME Types, HashTypes, HashesAreUsed
  PROVE  /\ cache \in 0..MaxHash /\ newest \in 0..MaxHash
         /\ hash \in [Ordinal -> 0..MaxHash]
         /\ MaxHash \in Nat
  <1>1. PICK base \in Nat, lost \in SUBSET Nat :
          /\ IsFiniteSet(lost) /\ base + Cardinality(lost) <= Spent
          /\ UsedSince(base, lost)
    BY DEF HashesAreUsed
  <1>2. newest < MaxHash
    BY <1>1, FewHashes
  <1>3. /\ newest \in Nat /\ cache \in Nat /\ cache <= newest + 1 /\ MaxHash \in Nat
    BY <1>1, Products DEF HashTypes, TaskTypes, UsedSince, MaxHash
  <1>4. hash \in [Ordinal -> Nat] /\ \A o \in Ordinal : hash[o] <= newest
    BY <1>1 DEF HashTypes, TaskTypes, UsedSince
  <1>5. QED
    BY <1>2, <1>3, <1>4

LEMMA FaultTypesStay ==
  ASSUME Types, FaultTypes, [SenderNext]_vars
  PROVE  FaultTypes'
  <1>1. \/ UNCHANGED <<crashes, failures>>
        \/ crashes' = crashes + 1 /\ failures' = failures /\ crashes + failures < MaxFaults
        \/ failures' = failures + 1 /\ crashes' = crashes /\ crashes + failures < MaxFaults
    BY DEF SenderNext, TaskStep, Wake, Start, SelectAgain, Select, Sign, SignFails, RefreshAgain,
           Broadcast, Answer, RecordBroadcast, Fail, Retry, MainStep, Schedule, Complete, Finish,
           Persist, StartRefresh, Expire, RefreshNew, RefreshOld, RefreshOk, RefreshFails, Crash, Restart,
           RestartWith, past_vars, vars
  <1>2. QED
    BY <1>1 DEF Types, FaultTypes

LEMMA RecordTypesStay ==
  ASSUME Types, NoTasks, SignaturesDiffer, issued \subseteq Signature, RecordTypes,
         [SenderNext]_vars
  PROVE  RecordTypes'
  <1> USE DEF RecordTypes
  <1>1. request /\ dirty \in BOOLEAN => dirty' \in BOOLEAN
    BY DEF request
  <1>2. ASSUME NEW o \in Ordinal, step[o] = "slot", request, manifest' = manifest,
               records' = records \cup {[ordinal |-> o, signature |-> signature[o]]},
               sendingComplete' = sendingComplete
        PROVE  RecordTypes'
    <2>1. signature[o] \in Signature
      BY <1>2 DEF SignaturesDiffer, Signed
    <2>2. records' \subseteq Record
      BY <1>2, <2>1 DEF Record
    <2>3. QED
      BY <1>1, <1>2, <2>2, Rendered DEF Manifest
  <1>3. ASSUME records' = records, manifest' = manifest, request,
               UNCHANGED <<main, sendingComplete>> \/ Complete
        PROVE  RecordTypes'
    <2>1. sendingComplete' \in BOOLEAN
      BY <1>3 DEF Complete
    <2>2. QED
      BY <1>1, <1>3, <2>1, Rendered DEF Manifest
  <1>4. CASE Persist
    BY <1>4 DEF Persist, Manifest, NoManifest
  <1>5. CASE Crash
    BY <1>5 DEF Crash, NoManifest
  <1>6. CASE Restart
    BY <1>6 DEF Restart, RestartWith, Manifest
  <1>7. ASSUME UNCHANGED <<records, rendered, manifest, sendingComplete, dirty>>
        PROVE  RecordTypes'
    BY <1>7
  <1>8. QED
    BY <1>2, <1>3, <1>4, <1>5, <1>6, <1>7, RecordsSteps

\* A task signs with a blockhash it was handed, of which there are few.
LEMMA TaskTypesStay ==
  ASSUME Types, HashTypes, HashesAreUsed, [SenderNext]_vars
  PROVE  TaskTypes'
  <1> USE DEF TaskTypes
  <1>1. TaskTypes
    BY DEF HashTypes
  <1>2. ASSUME NEW o \in Ordinal, step[o] = "signing"
        PROVE  [direction |-> directionFor[o], hash |-> hash[o]] \in Signature
    <2>1. hash[o] # 0 /\ hash[o] \in 0..MaxHash /\ MaxHash \in Nat
      BY <1>2, HashesFit DEF HashesAreUsed, UsedSince
    <2>2. hash[o] \in 1..MaxHash
      BY <2>1
    <2>3. QED
      BY <2>2 DEF Signature
  <1>3. ASSUME NEW o \in Ordinal, TaskStep(o)
        PROVE  TaskTypes'
    <2>1. CASE Start(o) \/ SelectAgain(o)
      <3>1. /\ UNCHANGED <<signature, issued, cache, fresh>>
            /\ flight' = flight \/ flight' = TRUE
            /\ hash' = hash \/ hash' = [hash EXCEPT ![o] = cache]
            /\ newest' \in {newest, cache}
        BY <2>1 DEF Start, SelectAgain, Select, NewestOf
      <3>2. QED
        BY <1>1, <3>1
    <2>2. CASE Sign(o)
      <3> DEFINE signed == [direction |-> directionFor[o], hash |-> hash[o]]
      <3>1. /\ hash' = [hash EXCEPT ![o] = 0] /\ UNCHANGED hash_vars
            /\ \/ UNCHANGED <<signature, issued>>
               \/ /\ signature' = [signature EXCEPT ![o] = signed]
                  /\ issued' = issued \cup {signed}
        BY <2>2 DEF Sign
      <3>2. signed \in Signature
        BY <1>2, <2>2 DEF Sign
      <3> HIDE DEF signed
      <3>3. QED
        BY <1>1, <3>1, <3>2 DEF Types, hash_vars
    <2>3. ASSUME Wake(o) \/ RefreshAgain(o) \/ Broadcast(o) \/ Answer(o) \/ RecordBroadcast(o)
                   \/ Fail(o) \/ Retry(o)
          PROVE  /\ UNCHANGED <<signature, issued, cache, newest, fresh, hash>>
                 /\ flight' = flight \/ flight' = TRUE
      BY <2>3 DEF Wake, RefreshAgain, Broadcast, Answer, RecordBroadcast, Fail, Retry, hash_vars
    <2>4. QED
      BY <1>1, <1>3, <2>1, <2>2, <2>3 DEF TaskStep
  <1>4. ASSUME MainStep \/ Persist \/ StartRefresh \/ Expire \/ RefreshFails \/ UNCHANGED vars
        PROVE  /\ UNCHANGED <<signature, issued, cache, newest, hash>>
               /\ fresh' \in {fresh, FALSE} /\ flight' \in {flight, TRUE, FALSE}
    BY <1>4 DEF MainStep, Schedule, Complete, Finish, Persist, StartRefresh, Expire, RefreshFails,
                vars, run_vars, hash_vars
  <1>5. ASSUME NEW h \in Nat, RefreshOk(h)
        PROVE  TaskTypes'
    <2>1. /\ UNCHANGED <<signature, issued>> /\ cache' = h /\ fresh' = TRUE /\ flight' = FALSE
          /\ newest' \in {newest, h}
          /\ hash' = [p \in Ordinal |-> IF step[p] = "refreshing" THEN h ELSE hash[p]]
      BY <1>5 DEF RefreshOk, NewestOf
    <2>2. QED
      BY <1>1, <1>5, <2>1
  <1>6. CASE RefreshNew \/ RefreshOld
    <2>1. \E h \in Nat : RefreshOk(h)
      BY <1>1, <1>6 DEF RefreshNew, RefreshOld
    <2>2. QED
      BY <1>5, <2>1
  <1>7. CASE Crash
    <2>1. /\ signature' = [o \in Ordinal |-> NoSignature] /\ hash' = [o \in Ordinal |-> 0]
          /\ issued' = {} /\ cache' = 0 /\ fresh' = FALSE /\ flight' = FALSE
          /\ newest' = newest
      BY <1>7 DEF Crash
    <2>2. QED
      BY <1>1, <2>1
  <1>8. CASE Restart
    <2>1. /\ UNCHANGED <<signature, hash, cache, newest, fresh, flight>>
          /\ issued' = {r.signature : r \in manifest.records}
      BY <1>8 DEF Restart, RestartWith, hash_vars
    <2>2. issued' \subseteq Signature
      BY <2>1 DEF HashTypes, RecordTypes, Record
    <2>3. QED
      BY <1>1, <2>1, <2>2
  <1>9. ASSUME NEW o \in Ordinal, SignFails(o)
        PROVE  TaskTypes'
    <2>1. /\ hash' = [hash EXCEPT ![o] = 0] /\ UNCHANGED <<hash_vars, signature>>
          /\ issued' \in {issued, issued \cup {[direction |-> directionFor[o], hash |-> hash[o]]}}
          /\ step[o] = "signing"
      BY <1>9 DEF SignFails
    <2>2. issued' \subseteq Signature
      BY <1>1, <1>2, <2>1
    <2>3. QED
      BY <1>1, <2>1, <2>2 DEF hash_vars
  <1>10. QED
    BY <1>1, <1>3, <1>4, <1>6, <1>7, <1>8, <1>9 DEF SenderNext

Unsigned(o) == main \in {"starting", "dead"} \/ step[o] \notin Signed \cup {"ended"}

\* A blockhash, at most one newer than those before, is handed to some tasks: to
\* none by a refresh that nobody awaits.
LEMMA HandedOut ==
  ASSUME Types, HashTypes, NEW base \in Nat, NEW lost \in SUBSET Nat, UsedSince(base, lost),
         NEW h \in Nat \ {0}, h <= newest + 1,
         NEW handed \in SUBSET Ordinal,
         handed # {} => main = "sending",
         hash' = [o \in Ordinal |-> IF o \in handed THEN h ELSE hash[o]],
         newest' = IF handed = {} THEN newest ELSE NewestOf(h),
         cache' <= newest' + 1,
         UNCHANGED <<main, signature, issued, manifest, crashes>>,
         \A o \in handed : /\ step[o] \notin Signed \cup {"ended", "signing"}
                           /\ step'[o] = "signing",
         \A o \in Ordinal \ handed :
           /\ step'[o] = "signing" <=> step[o] = "signing"
           /\ Unsigned(o)' => Unsigned(o)
  PROVE  UsedSince(base, lost)'
  <1>1. /\ newest \in Nat /\ newest' \in Nat /\ newest <= newest'
        /\ handed # {} => h <= newest'
        /\ newest' = newest \/ (newest' = newest + 1 /\ newest' = h /\ handed # {})
    BY DEF HashTypes, TaskTypes, NewestOf
  <1>2. \A n \in (base + 1)..newest : n # 0
    OBVIOUS
  <1>3. ASSUME NEW o \in Ordinal
        PROVE  hash'[o] <= newest' /\ (step'[o] = "signing" <=> hash'[o] # 0)
    <2>1. hash[o] \in Nat /\ hash[o] <= newest /\ (step[o] = "signing" <=> hash[o] # 0)
      BY DEF HashTypes, TaskTypes, UsedSince
    <2>2. CASE o \in handed
      BY <1>1, <2>1, <2>2
    <2>3. CASE o \notin handed
      BY <1>1, <2>1, <2>3
    <2>4. QED
      BY <2>2, <2>3
  <1>4. ASSUME NEW o \in Ordinal, Unsigned(o)'
        PROVE  signature'[o] = NoSignature
    <2>1. Unsigned(o)
      BY <1>4 DEF Unsigned
    <2>2. QED
      BY <2>1 DEF UsedSince, Unsigned
  <1>5. \A s \in issued' :
          /\ s.hash <= newest'
          /\ s.hash <= base \/ s.hash \in lost \/ \E o \in Ordinal : signature'[o] = s
    <2>1. \A s \in issued : s.hash \in Nat
      <3>1. \A n \in 1..MaxHash : n \in Nat
        OBVIOUS
      <3>2. QED
        BY <3>1 DEF HashTypes, TaskTypes, Signature
    <2>2. QED
      BY <1>1, <2>1 DEF UsedSince
  <1>6. \A r \in manifest'.records : r.signature.hash <= newest'
    <2>1. \A r \in manifest.records : r.signature.hash \in Nat
      <3>1. \A n \in 1..MaxHash : n \in Nat
        OBVIOUS
      <3>2. QED
        BY <3>1 DEF HashTypes, RecordTypes, Record, Signature
    <2>2. QED
      BY <1>1, <2>1 DEF UsedSince
  <1>7. main' = "dead" => newest' <= base
    BY <1>1 DEF UsedSince
  <1>8. ASSUME NEW n \in (base + 1)..newest', n \notin lost
        PROVE  \E o \in Ordinal : HashOf(o)' = n
    <2>1. CASE n \in (base + 1)..newest
      <3>1. PICK o \in Ordinal : HashOf(o) = n
        BY <1>8, <2>1 DEF UsedSince
      <3>2. n # 0
        BY <1>2, <2>1
      <3>3. ASSUME o \in handed
            PROVE  FALSE
        <4>1. step[o] # "signing" /\ Unsigned(o)
          BY <3>3 DEF Unsigned
        <4>2. signature[o] = NoSignature /\ hash[o] = 0
          BY <4>1 DEF UsedSince, Unsigned, HashTypes, TaskTypes
        <4>3. QED
          BY <3>1, <3>2, <4>2 DEF HashOf
      <3>4. hash'[o] = hash[o] /\ signature'[o] = signature[o]
        BY <3>3
      <3>5. HashOf(o)' = HashOf(o)
        BY <3>4 DEF HashOf, NoSignature
      <3>6. QED
        BY <3>1, <3>5
    <2>2. CASE n \notin (base + 1)..newest
      <3>1. n = h /\ handed # {}
        BY <1>1, <1>8, <2>2
      <3>2. PICK o \in handed : TRUE
        BY <3>1
      <3>3. signature'[o] = NoSignature
        BY <3>2 DEF UsedSince
      <3>4. hash'[o] = h
        BY <3>2
      <3>5. QED
        BY <3>1, <3>2, <3>3, <3>4 DEF HashOf, NoSignature
    <2>3. QED
      BY <2>1, <2>2
  <1>9. QED
    BY <1>3, <1>4, <1>5, <1>6, <1>7, <1>8 DEF UsedSince, Unsigned

\* A step that leaves the blockhashes alone.
LEMMA HashesLeft ==
  ASSUME NEW base \in Nat, NEW lost \in SUBSET Nat, UsedSince(base, lost),
         UNCHANGED <<hash, cache, newest, signature, issued, crashes>>,
         \A r \in manifest'.records : r.signature.hash <= newest,
         main' = "dead" => main = "dead",
         \A o \in Ordinal : /\ step'[o] = "signing" <=> step[o] = "signing"
                            /\ Unsigned(o)' => Unsigned(o)
  PROVE  UsedSince(base, lost)'
  <1>1. NoSignature' = NoSignature /\ \A o : HashOf(o)' = HashOf(o)
    BY DEF HashOf, NoSignature
  <1> HIDE DEF NoSignature
  <1>2. QED
    BY <1>1 DEF UsedSince, Unsigned

\* The first task to sign with a blockhash keeps it; one that comes later finds
\* the signature issued, and who issued it in this run has kept the blockhash.
LEMMA SignKeepsHashes ==
  ASSUME Types, NoTasks, HashTypes, NEW base \in Nat, NEW lost \in SUBSET Nat,
         UsedSince(base, lost), NEW o \in Ordinal, Sign(o)
  PROVE  UsedSince(base, lost)'
  <1> DEFINE signed == [direction |-> directionFor[o], hash |-> hash[o]]
  <1>1. /\ step[o] = "signing" /\ hash' = [hash EXCEPT ![o] = 0]
        /\ UNCHANGED <<main, cache, newest, manifest, crashes>>
        /\ main = "sending"
    BY DEF Sign, hash_vars, record_vars, past_vars, NoTasks
  <1>2. NoSignature' = NoSignature
    BY DEF NoSignature
  <1>3. signature[o] = NoSignature /\ hash[o] # 0 /\ hash[o] \in Nat /\ hash[o] <= newest
    BY <1>1 DEF UsedSince, Signed, HashTypes, TaskTypes
  <1>4. newest \in Nat /\ hash \in [Ordinal -> Nat]
    BY DEF HashTypes, TaskTypes
  <1>5. CASE signed \in issued /\ step' = [step EXCEPT ![o] = "duplicate"]
             /\ UNCHANGED <<signature, issued>>
    <2>1. \A p \in Ordinal : /\ hash'[p] <= newest'
                             /\ step'[p] = "signing" <=> hash'[p] # 0
      BY <1>1, <1>4, <1>5 DEF UsedSince, Types
    <2>2. \A p \in Ordinal : Unsigned(p)' => signature'[p] = NoSignature
      BY <1>1, <1>3, <1>5 DEF UsedSince, Unsigned, Types
    <2>3. ASSUME NEW n \in (base + 1)..newest, n \notin lost
          PROVE  \E p \in Ordinal : HashOf(p)' = n
      <3>1. PICK p \in Ordinal : HashOf(p) = n
        BY <2>3 DEF UsedSince
      <3>2. CASE p # o
        <4>1. HashOf(p)' = HashOf(p)
          BY <1>1, <1>2, <1>4, <1>5, <3>2 DEF HashOf
        <4>2. QED
          BY <3>1, <4>1
      <3>3. CASE p = o
        <4>1. hash[o] = n /\ n > base
          BY <1>3, <2>3, <3>1, <3>3 DEF HashOf
        <4>2. signed.hash = n
          BY <4>1
        <4>3. PICK q \in Ordinal : signature[q] = signed
          BY <1>5, <2>3, <4>1, <4>2 DEF UsedSince
        <4>4. signature[q] # NoSignature
          <5>1. signed.hash # 0 /\ NoSignature.hash = 0
            BY <1>3 DEF NoSignature
          <5>2. QED
            BY <4>3, <5>1
        <4>5. HashOf(q)' = n
          BY <1>2, <1>5, <4>2, <4>3, <4>4 DEF HashOf
        <4>6. QED
          BY <4>5
      <3>4. QED
        BY <3>2, <3>3
    <2>4. QED
      BY <1>1, <1>2, <1>5, <2>1, <2>2, <2>3 DEF UsedSince, Unsigned
  <1>6. CASE /\ step' = [step EXCEPT ![o] = "timer"]
             /\ signature' = [signature EXCEPT ![o] = signed]
             /\ issued' = issued \cup {signed}
    <2>1. \A p \in Ordinal : /\ hash'[p] <= newest'
                             /\ step'[p] = "signing" <=> hash'[p] # 0
      BY <1>1, <1>4, <1>6 DEF UsedSince, Types
    <2>2. \A p \in Ordinal : Unsigned(p)' => signature'[p] = NoSignature
      BY <1>1, <1>2, <1>6 DEF UsedSince, Unsigned, Types, Signed
    <2>3. signed.hash = hash[o] /\ signed # NoSignature
      BY <1>3 DEF NoSignature
    <2> HIDE DEF signed
    <2>4. /\ signature'[o] = signed
          /\ \A p \in Ordinal \ {o} : signature'[p] = signature[p] /\ hash'[p] = hash[p]
      BY <1>1, <1>4, <1>6 DEF Types
    <2>5. \A s \in issued' :
            /\ s.hash <= newest
            /\ s.hash <= base \/ s.hash \in lost \/ \E p \in Ordinal : signature'[p] = s
      <3>1. ASSUME NEW s \in issued
            PROVE  /\ s.hash <= newest
                   /\ s.hash <= base \/ s.hash \in lost \/ \E p \in Ordinal : signature'[p] = s
        <4>1. /\ s.hash <= newest
              /\ s.hash <= base \/ s.hash \in lost \/ \E p \in Ordinal : signature[p] = s
          BY DEF UsedSince
        <4>2. ASSUME NEW p \in Ordinal, signature[p] = s
              PROVE  p # o
          <5>1. s.hash # 0 
            BY <3>1 DEF HashTypes, TaskTypes, Signature
          <5>2. NoSignature.hash = 0
            BY DEF NoSignature
          <5>3. QED
            BY <1>3, <4>2, <5>1, <5>2
        <4>3. QED
          BY <2>4, <4>1, <4>2
      <3>2. QED
        BY <1>3, <1>6, <2>3, <2>4, <3>1
    <2>6. \A p \in Ordinal : HashOf(p)' = HashOf(p)
      BY <1>2, <1>3, <2>3, <2>4 DEF HashOf
    <2>7. QED
      BY <1>1, <1>2, <2>1, <2>2, <2>5, <2>6 DEF UsedSince, Unsigned
  <1>7. QED
    BY <1>5, <1>6 DEF Sign

\* A task that fails to sign gives up its blockhash, with or without a signature
\* that is reserved for good.
LEMMA FailedSigningLosesHash ==
  ASSUME Types, NoTasks, HashTypes, NEW base \in Nat, NEW lost \in SUBSET Nat,
         UsedSince(base, lost), NEW o \in Ordinal, SignFails(o), NEW h, h = hash[o]
  PROVE  UsedSince(base, lost \cup {h})'
  <1> DEFINE signed == [direction |-> directionFor[o], hash |-> h]
  <1>1. /\ step[o] = "signing" /\ hash' = [hash EXCEPT ![o] = 0]
        /\ step' = [step EXCEPT ![o] = "failed"]
        /\ UNCHANGED <<main, cache, newest, manifest, crashes, signature>>
        /\ issued' \in {issued, issued \cup {signed}}
        /\ main = "sending"
    BY DEF SignFails, hash_vars, record_vars, NoTasks
  <1>2. NoSignature' = NoSignature
    BY DEF NoSignature
  <1>3. signature[o] = NoSignature /\ h <= newest
    BY <1>1 DEF UsedSince, Signed
  <1>4. newest \in Nat /\ hash \in [Ordinal -> Nat]
    BY DEF HashTypes, TaskTypes
  <1>5. \A p \in Ordinal : /\ hash'[p] <= newest'
                           /\ step'[p] = "signing" <=> hash'[p] # 0
    BY <1>1, <1>4 DEF UsedSince, Types
  <1>6. \A p \in Ordinal : Unsigned(p)' => signature'[p] = NoSignature
    BY <1>1, <1>3 DEF UsedSince, Unsigned, Types
  <1>7. ASSUME NEW n \in (base + 1)..newest, n \notin lost, n # h
        PROVE  \E p \in Ordinal : HashOf(p)' = n
    <2>1. PICK p \in Ordinal : HashOf(p) = n
      BY <1>7 DEF UsedSince
    <2>2. p # o
      BY <1>3, <1>7, <2>1 DEF HashOf
    <2>3. HashOf(p)' = HashOf(p)
      BY <1>1, <1>2, <1>4, <2>2 DEF HashOf
    <2>4. QED
      BY <2>1, <2>3
  <1>8. signed.hash = h
    OBVIOUS
  <1> HIDE DEF signed
  <1>9. \A s \in issued' :
          /\ s.hash <= newest
          /\ \/ s.hash <= base \/ s.hash \in lost \cup {h}
             \/ \E p \in Ordinal : signature'[p] = s
    BY <1>1, <1>3, <1>8 DEF UsedSince
  <1>10. QED
    BY <1>1, <1>2, <1>5, <1>6, <1>7, <1>9 DEF UsedSince, Unsigned

\* A killed run leaves as many blockhashes behind as it has ordinals at most, and
\* as many more as it failed to sign with.
LEMMA KillsKeepHashes ==
  ASSUME Types, HashTypes, HashesAreUsed, Crash
  PROVE  HashesAreUsed'
  <1>1. PICK base \in Nat, lost \in SUBSET Nat :
          /\ IsFiniteSet(lost) /\ base + Cardinality(lost) <= Spent
          /\ UsedSince(base, lost)
    BY DEF HashesAreUsed
  <1>2. /\ newest \in Nat /\ crashes \in Nat /\ failures \in Nat
        /\ TransactionCount \in Nat /\ Spent \in Nat /\ newest <= Spent + TransactionCount
    BY <1>1, FewHashes DEF Types, HashTypes, TaskTypes, FaultTypes
  <1>3. /\ crashes' = crashes + 1 /\ failures' = failures /\ main' = "dead" /\ cache' = 0
        /\ newest' = newest
        /\ step' = [o \in Ordinal |-> "ended"]
        /\ signature' = [o \in Ordinal |-> NoSignature]
        /\ hash' = [o \in Ordinal |-> 0]
        /\ issued' = {} /\ manifest' = manifest
    BY DEF Crash
  <1>4. Spent' = Spent + TransactionCount
    <2>1. TransactionCount * (crashes + 1) = TransactionCount * crashes + TransactionCount
          /\ TransactionCount * crashes \in Nat
      BY <1>2, Products
    <2>2. QED
      BY <1>2, <1>3, <2>1 DEF Spent
  <1>5. PICK most \in Nat : most = newest
    BY <1>2
  <1>6. /\ most <= Spent' /\ most + 0 = most
        /\ newest' <= most /\ (most + 1)..newest' = {}
    BY <1>2, <1>3, <1>4, <1>5
  <1>7. NoSignature' = NoSignature
    BY DEF NoSignature
  <1>8. \A r \in manifest'.records : r.signature.hash <= newest'
    BY <1>1, <1>3 DEF UsedSince
  <1>9. UsedSince(most, {})'
    <2> HIDE DEF NoSignature
    <2>1. QED
      BY <1>2, <1>3, <1>6, <1>7, <1>8 DEF UsedSince
  <1>10. IsFiniteSet({}) /\ Cardinality({}) = 0
    BY FS_EmptySet
  <1>11. QED
    BY <1>6, <1>9, <1>10 DEF HashesAreUsed

\* The run that continues knows the blockhashes in the manifest.
LEMMA RestartsKeepHashes ==
  ASSUME Types, HashTypes, NEW base \in Nat, NEW lost \in SUBSET Nat, UsedSince(base, lost),
         Restart
  PROVE  UsedSince(base, lost)'
  <1>1. newest \in Nat
    BY DEF HashTypes, TaskTypes
  <1>2. /\ main = "dead" /\ main' = "starting"
        /\ UNCHANGED <<step, signature, hash, cache, newest, manifest>>
        /\ issued' = {r.signature : r \in manifest.records}
    BY DEF Restart, RestartWith, hash_vars
  <1>3. newest <= base
    BY <1>2 DEF UsedSince
  <1>4. \A s \in issued' : s.hash <= newest' /\ s.hash <= base
    <2>1. \A r \in manifest.records : r.signature.hash \in Nat
      <3>1. \A n \in 1..MaxHash : n \in Nat
        OBVIOUS
      <3>2. QED
        BY <3>1 DEF HashTypes, RecordTypes, Record, Signature
    <2>2. \A r \in manifest.records : r.signature.hash <= newest
      BY DEF UsedSince
    <2>3. QED
      BY <1>1, <1>2, <1>3, <2>1, <2>2
  <1>5. \A o \in Ordinal : signature[o] = NoSignature
    BY <1>2 DEF UsedSince
  <1>6. (base + 1)..newest' = {}
    BY <1>1, <1>2, <1>3
  <1>7. NoSignature' = NoSignature
    BY DEF NoSignature
  <1> HIDE DEF NoSignature
  <1>8. QED
    BY <1>2, <1>4, <1>5, <1>6, <1>7 DEF UsedSince

\* The signatures that are recorded or rendered are issued ones.
LEMMA RecordedHashes ==
  ASSUME NEW base, NEW lost, UsedSince(base, lost), SignaturesDiffer, RecordsGrow,
         rendered # NoManifest
  PROVE  \A r \in rendered.records : r.signature.hash <= newest
  BY DEF UsedSince, SignaturesDiffer, RecordsGrow

LEMMA HashesStaySince ==
  ASSUME Types, NoTasks, SignaturesDiffer, RecordsGrow, HashTypes,
         NEW base \in Nat, NEW lost \in SUBSET Nat, UsedSince(base, lost),
         [SenderNext]_vars, ~Crash, ~(\E o \in Ordinal : SignFails(o))
  PROVE  UsedSince(base, lost)'
  <1>1. \A r \in manifest.records : r.signature.hash <= newest
    BY DEF UsedSince
  <1>2. /\ newest \in Nat /\ cache \in Nat /\ cache <= newest + 1
        /\ \A o \in Ordinal : step[o] = "signing" <=> hash[o] # 0
        /\ hash \in [Ordinal -> Nat]
    BY DEF HashTypes, TaskTypes, UsedSince
  <1>3. ASSUME NEW o \in Ordinal, TaskStep(o)
        PROVE  UsedSince(base, lost)'
    <2>1. main = "sending" /\ main' = main
      BY <1>3 DEF TaskStep, Wake, Start, SelectAgain, Select, Sign, RefreshAgain, Broadcast, Answer,
                  RecordBroadcast, Fail, Retry, NoTasks
    <2>2. CASE Start(o) \/ SelectAgain(o)
      <3>1. /\ step[o] \in {"gate", "selecting"}
            /\ UNCHANGED <<main, signature, issued, cache, manifest, crashes>>
            /\ \/ /\ cache # 0 /\ hash' = [hash EXCEPT ![o] = cache]
                  /\ newest' = NewestOf(cache) /\ step' = [step EXCEPT ![o] = "signing"]
               \/ UNCHANGED <<hash, newest>> /\ step' = [step EXCEPT ![o] = "refreshing"]
        BY <2>2 DEF Start, SelectAgain, Select, record_vars, past_vars
      <3>2. CASE step' = [step EXCEPT ![o] = "signing"]
        <4>1. /\ cache # 0 /\ newest' = NewestOf(cache)
              /\ hash' = [p \in Ordinal |-> IF p \in {o} THEN cache ELSE hash[p]]
          <5>1. step'[o] = "signing"
            BY <3>2 DEF Types
          <5>2. step' # [step EXCEPT ![o] = "refreshing"]
            BY <5>1 DEF Types
          <5>3. QED
            BY <1>2, <3>1, <5>2
        <4>2. newest' \in Nat /\ cache <= newest'
          BY <1>2, <4>1 DEF NewestOf
        <4>3. \A p \in Ordinal \ {o} : step'[p] = step[p] /\ (Unsigned(p)' => Unsigned(p))
          BY <2>1, <3>2 DEF Types, Unsigned
        <4>4. step'[o] = "signing" /\ step[o] \notin Signed \cup {"ended", "signing"}
          BY <3>1, <3>2 DEF Types, Signed
        <4>5. cache \in Nat \ {0} /\ cache' <= newest' + 1 /\ {o} # {}
          BY <1>2, <3>1, <4>1, <4>2
        <4>6. QED
          <5>1. {o} \in SUBSET Ordinal
            OBVIOUS
          <5>2. newest' = IF {o} = {} THEN newest ELSE NewestOf(cache)
            BY <4>1
          <5>3. \A p \in {o} : step[p] \notin Signed \cup {"ended", "signing"} /\ step'[p] = "signing"
            BY <4>4
          <5>4. \A p \in Ordinal \ {o} :
                  (step'[p] = "signing" <=> step[p] = "signing") /\ (Unsigned(p)' => Unsigned(p))
            BY <4>3
          <5>5. QED
            BY <1>2, <2>1, <3>1, <4>1, <4>5, <5>1, <5>2, <5>3, <5>4, HandedOut
      <3>3. CASE step' # [step EXCEPT ![o] = "signing"]
        <4>1. UNCHANGED <<hash, newest>> /\ step' = [step EXCEPT ![o] = "refreshing"]
          BY <3>1, <3>3
        <4>2. \A p \in Ordinal : /\ step'[p] = "signing" <=> step[p] = "signing"
                                 /\ Unsigned(p)' => Unsigned(p)
          BY <2>1, <3>1, <4>1 DEF Types, Unsigned, Signed
        <4>3. QED
          BY <1>1, <2>1, <3>1, <4>1, <4>2, HashesLeft
      <3>4. QED
        BY <3>2, <3>3
    <2>3. CASE Sign(o)
      BY <2>3, SignKeepsHashes
    <2>4. ASSUME Wake(o) \/ RefreshAgain(o) \/ Broadcast(o) \/ Answer(o) \/ RecordBroadcast(o)
                   \/ Fail(o) \/ Retry(o)
          PROVE  UsedSince(base, lost)'
      <3>1. /\ UNCHANGED <<hash, cache, newest, signature, issued, crashes, manifest>>
            /\ \/ /\ step[o] \in {"asleep", "duplicate", "failed", "backoff"}
                  /\ \E s \in {"gate", "refreshing_again", "backoff"} :
                       step' = [step EXCEPT ![o] = s]
               \/ /\ step[o] \in {"timer", "rpc", "slot"}
                  /\ \E s \in {"rpc", "slot", "ended"} : step' = [step EXCEPT ![o] = s]
        BY <2>4 DEF Wake, RefreshAgain, Broadcast, Answer, RecordBroadcast, Fail, Retry, hash_vars,
                    record_vars, past_vars
      <3>2. \A p \in Ordinal : /\ step'[p] = "signing" <=> step[p] = "signing"
                               /\ Unsigned(p)' => Unsigned(p)
        BY <2>1, <3>1 DEF Types, Unsigned, Signed
      <3>3. QED
        BY <1>1, <2>1, <3>1, <3>2, HashesLeft
    <2>5. QED
      BY <1>3, <2>2, <2>3, <2>4 DEF TaskStep
  <1>4. ASSUME NEW h \in Nat \ {0}, h <= newest + 1, RefreshOk(h)
        PROVE  UsedSince(base, lost)'
    <2> DEFINE handed == {o \in Ordinal : step[o] = "refreshing"}
    <2>1. /\ UNCHANGED <<main, signature, issued, manifest, crashes>> /\ cache' = h
          /\ hash' = [o \in Ordinal |-> IF o \in handed THEN h ELSE hash[o]]
          /\ newest' = IF handed = {} THEN newest ELSE NewestOf(h)
          /\ step' = [o \in Ordinal |->
                        IF o \in handed THEN "signing"
                        ELSE IF step[o] = "refreshing_again" THEN "selecting" ELSE step[o]]
      BY <1>4 DEF RefreshOk, record_vars, past_vars
    <2>2. handed # {} => main = "sending"
      BY DEF NoTasks
    <2>3. cache' <= newest' + 1
      BY <1>2, <1>4, <2>1 DEF NewestOf
    <2>4. \A o \in handed : /\ step[o] \notin Signed \cup {"ended", "signing"}
                            /\ step'[o] = "signing"
      BY <2>1 DEF Signed
    <2>5. \A o \in Ordinal \ handed : /\ step'[o] = "signing" <=> step[o] = "signing"
                                      /\ Unsigned(o)' => Unsigned(o)
      BY <2>1 DEF Unsigned, Signed
    <2>6. handed \in SUBSET Ordinal
      OBVIOUS
    <2> HIDE DEF handed
    <2>7. QED
      BY <1>4, <2>1, <2>2, <2>3, <2>4, <2>5, <2>6, HandedOut
  <1>5. CASE RefreshNew
    BY <1>2, <1>4, <1>5 DEF RefreshNew
  <1>6. CASE RefreshOld
    <2>1. PICK h \in 1..newest : RefreshOk(h)
      BY <1>6 DEF RefreshOld
    <2>2. h \in Nat \ {0} /\ h <= newest + 1
      BY <1>2
    <2>3. QED
      BY <1>4, <2>1, <2>2
  <1>7. CASE MainStep
    <2>1. /\ UNCHANGED <<hash, cache, newest, signature, issued, crashes, manifest>>
          /\ main \in {"starting", "sending", "flushing"}
          /\ main' \notin {"starting", "dead"}
          /\ main = "starting" \/ step' = step
      BY <1>7 DEF MainStep, Schedule, Complete, Finish, hash_vars, record_vars, past_vars
    <2>2. \A o \in Ordinal : step'[o] = "signing" <=> step[o] = "signing"
      <3>1. CASE Schedule
        <4>1. /\ step' = [o \in Ordinal |-> IF o >= firstOrdinal THEN "asleep" ELSE "ended"]
              /\ main = "starting"
          BY <3>1 DEF Schedule
        <4>2. QED
          BY <4>1 DEF NoTasks
      <3>2. CASE ~Schedule
        BY <1>7, <3>2 DEF MainStep, Complete, Finish
      <3>3. QED
        BY <3>1, <3>2
    <2>3. \A o \in Ordinal : Unsigned(o)' => Unsigned(o)
      BY <2>1 DEF Unsigned
    <2>4. QED
      BY <1>1, <2>1, <2>2, <2>3, HashesLeft
  <1>8. CASE Persist
    <2>1. /\ UNCHANGED <<main, step, hash, cache, newest, signature, issued, crashes>>
          /\ rendered # NoManifest /\ manifest' = rendered
      BY <1>8 DEF Persist, run_vars, hash_vars, past_vars
    <2>2. \A r \in manifest'.records : r.signature.hash <= newest
      BY <2>1, RecordedHashes
    <2>3. \A o \in Ordinal : Unsigned(o)' => Unsigned(o)
      BY <2>1 DEF Unsigned
    <2>4. QED
      BY <2>1, <2>2, <2>3, HashesLeft
  <1>9. CASE StartRefresh \/ Expire \/ RefreshFails \/ UNCHANGED vars
    <2>1. /\ UNCHANGED <<main, hash, cache, newest, signature, issued, crashes, manifest>>
          /\ \A o \in Ordinal :
               step'[o] = step[o]
                 \/ (step[o] \in {"refreshing", "refreshing_again"} /\ step'[o] = "failed")
      BY <1>9 DEF StartRefresh, Expire, RefreshFails, vars, run_vars, hash_vars, record_vars,
                  past_vars
    <2>2. \A o \in Ordinal : /\ step'[o] = "signing" <=> step[o] = "signing"
                             /\ Unsigned(o)' => Unsigned(o)
      BY <2>1 DEF Unsigned, Signed
    <2>3. QED
      BY <1>1, <2>1, <2>2, HashesLeft
  <1>10. QED
    BY <1>3, <1>5, <1>6, <1>7, <1>8, <1>9, RestartsKeepHashes DEF SenderNext

\* Only a failed signing adds to what is lost.
LEMMA HashesStay ==
  ASSUME Types, NoTasks, SignaturesDiffer, RecordsGrow, HashTypes, HashesAreUsed,
         [SenderNext]_vars
  PROVE  HashesAreUsed'
  <1>1. PICK base \in Nat, lost \in SUBSET Nat :
          /\ IsFiniteSet(lost) /\ base + Cardinality(lost) <= Spent
          /\ UsedSince(base, lost)
    BY DEF HashesAreUsed
  <1>2. /\ crashes \in Nat /\ failures \in Nat /\ TransactionCount \in Nat
        /\ TransactionCount * crashes \in Nat /\ Cardinality(lost) \in Nat
    <2>1. crashes \in Nat /\ failures \in Nat /\ TransactionCount \in Nat
      BY DEF Types, HashTypes, FaultTypes
    <2>2. QED
      BY <1>1, <2>1, Products, FS_CardinalityType
  <1>3. CASE Crash
    BY <1>3, KillsKeepHashes
  <1>4. ASSUME NEW o \in Ordinal, SignFails(o)
        PROVE  HashesAreUsed'
    <2>1. /\ hash[o] \in Nat /\ crashes' = crashes /\ failures' = failures + 1
      BY <1>4 DEF SignFails, HashTypes, TaskTypes
    <2>2. PICK h \in Nat : h = hash[o]
      BY <2>1
    <2>3. UsedSince(base, lost \cup {h})'
      BY <1>1, <1>4, <2>2, FailedSigningLosesHash
    <2>4. /\ IsFiniteSet(lost \cup {h})
          /\ Cardinality(lost \cup {h}) <= Cardinality(lost) + 1
          /\ Cardinality(lost \cup {h}) \in Nat
      <3>1. /\ IsFiniteSet(lost \cup {h})
            /\ Cardinality(lost \cup {h}) =
                 IF h \in lost THEN Cardinality(lost) ELSE Cardinality(lost) + 1
        BY <1>1, FS_AddElement
      <3>2. QED
        BY <1>2, <3>1
    <2>5. Spent' = Spent + 1
      BY <1>2, <2>1 DEF Spent
    <2>6. base + Cardinality(lost \cup {h}) <= Spent'
      BY <1>1, <1>2, <2>4, <2>5 DEF Spent
    <2>7. QED
      BY <2>3, <2>4, <2>6 DEF HashesAreUsed
  <1>5. CASE ~Crash /\ ~(\E o \in Ordinal : SignFails(o))
    <2>1. UsedSince(base, lost)'
      BY <1>1, <1>5, HashesStaySince
    <2>2. \/ UNCHANGED <<crashes, failures>>
          \/ crashes' = crashes /\ failures' = failures + 1
      BY <1>5
         DEF SenderNext, TaskStep, Wake, Start, SelectAgain, Select, Sign, RefreshAgain,
             Broadcast, Answer, RecordBroadcast, Fail, Retry, MainStep, Schedule, Complete,
             Finish, Persist, StartRefresh, Expire, RefreshNew, RefreshOld, RefreshOk,
             RefreshFails, Restart, RestartWith, past_vars, vars
    <2>3. base + Cardinality(lost) <= Spent'
      <3>1. Spent \in Nat /\ Spent' \in Nat /\ Spent <= Spent'
        BY <1>2, <2>2 DEF Spent
      <3>2. QED
        BY <1>1, <1>2, <3>1
    <2>4. QED
      BY <1>1, <2>1, <2>3 DEF HashesAreUsed
  <1>6. QED
    BY <1>3, <1>4, <1>5

LEMMA HashesStart == SenderInit => HashTypes /\ HashesAreUsed
  <1> SUFFICES ASSUME SenderInit PROVE HashTypes /\ HashesAreUsed
    OBVIOUS
  <1>1. /\ main = "starting" /\ step = [o \in Ordinal |-> "ended"]
        /\ signature = [o \in Ordinal |-> NoSignature] /\ issued = {}
        /\ cache = 0 /\ fresh = FALSE /\ flight = FALSE /\ newest = 0
        /\ hash = [o \in Ordinal |-> 0]
        /\ crashes = 0 /\ failures = 0
    BY DEF SenderInit
  <1>2. /\ records = {} /\ rendered.records = {} /\ manifest.records = {}
        /\ sendingComplete = FALSE /\ dirty = FALSE
    BY DEF SenderInit, Manifest, NoManifest
  <1>3. HashTypes
    <2>1. TaskTypes
      BY <1>1 DEF TaskTypes
    <2>2. RecordTypes
      BY <1>2 DEF RecordTypes
    <2>3. FaultTypes
      <3>1. crashes = 0 /\ failures = 0
        BY <1>1
      <3>2. QED
        BY <3>1 DEF FaultTypes
    <2>4. QED
      BY <2>1, <2>2, <2>3 DEF HashTypes
  <1>4. HashesAreUsed
    <2>1. (0 + 1)..newest = {}
      BY <1>1
    <2>2. UsedSince(0, {})
      BY <1>1, <1>2, <2>1 DEF UsedSince
    <2>3. Spent = 0 /\ IsFiniteSet({}) /\ Cardinality({}) = 0
      BY <1>1, FS_EmptySet DEF Spent
    <2>4. QED
      BY <2>2, <2>3 DEF HashesAreUsed
  <1>5. QED
    BY <1>3, <1>4

\* Types, for every batch: the blockhashes of a run are at most as many as its
\* ordinals and the signings that failed, however often they expire, fail or come
\* again, so that a task which meets a duplicate has one to wait for within MaxHash.
THEOREM SenderTypeCorrect == SenderSpec => []SenderTypeOK
  <1> DEFINE TypesInv == IInv /\ HashTypes /\ HashesAreUsed
  <1>1. SenderInit => TypesInv
    BY SenderStart, HashesStart
  <1>2. TypesInv /\ IInv' /\ [SenderNext]_vars => TypesInv'
    <2>1. SUFFICES ASSUME TypesInv, IInv', [SenderNext]_vars
                   PROVE  HashTypes' /\ HashesAreUsed'
      OBVIOUS
    <2>2. Types /\ NoTasks /\ SignaturesDiffer /\ RecordsGrow
      BY <2>1 DEF IInv
    <2>3. HashesAreUsed' /\ TaskTypes'
      BY <2>1, <2>2, HashesStay, TaskTypesStay
    <2>4. issued \subseteq Signature /\ RecordTypes /\ FaultTypes
      BY <2>1 DEF HashTypes, TaskTypes
    <2>5. RecordTypes' /\ FaultTypes'
      BY <2>1, <2>2, <2>4, RecordTypesStay, FaultTypesStay
    <2>6. QED
      BY <2>3, <2>5 DEF HashTypes
  <1>3. TypesInv => SenderTypeOK
    <2>1. SUFFICES ASSUME TypesInv PROVE SenderTypeOK
      OBVIOUS
    <2>2. Types /\ GateTypeOK /\ firstOrdinal \in 1..(TransactionCount + 1)
      BY <2>1 DEF IInv, RunCounted
    <2>3. /\ cache \in 0..MaxHash /\ newest \in 0..MaxHash
          /\ hash \in [Ordinal -> 0..MaxHash]
      BY <2>1, <2>2, HashesFit
    <2>4. QED
      BY <2>1, <2>2, <2>3
         DEF SenderTypeOK, Types, HashTypes, TaskTypes, RecordTypes, FaultTypes
  <1>4. QED
    BY <1>1, <1>2, <1>3, SenderInvariant, PTL DEF SenderSpec
=============================================================================
