------------------------------- MODULE Monitor -------------------------------
(***************************************************************************)
(* mainnet-smoke-monitor.ts: it polls the manifest that the batch sender   *)
(* writes, asks an RPC node what became of each recorded signature, and    *)
(* ends when sending is complete and every signature is decided.           *)
(*                                                                         *)
(* A step is the code between two awaits, so the chain moves between any   *)
(* two answers of the node.  The chain is external: a block on top of the  *)
(* confirmed ones is visible ("processed") before it is confirmed, and the *)
(* cluster may confirm another block of that height in its place.  All     *)
(* answers come from one node, which never goes back.                      *)
(*                                                                         *)
(* A record stands for its place in the Map of the monitor: in the order   *)
(* of the polls that found them, and of the manifest within a poll.        *)
(***************************************************************************)
EXTENDS Integers, FiniteSets

CONSTANTS
  Requested,    \* the transactions of the batch, in the order of records.values()
  LastValid,    \* lastValidBlockHeight of each
  GroupSize,    \* signatures per getSignatureStatuses call (256)
  MaxHeight,    \* bound: the last block height
  MaxFailures   \* bound: how many calls fail

ASSUME RequestedAssumption == IsFiniteSet(Requested) /\ Requested \subseteq Nat
ASSUME LastValidAssumption == LastValid \in [Requested -> 0..(MaxHeight - 1)]
ASSUME BoundsAssumption    == GroupSize \in Nat \ {0} /\ MaxHeight \in Nat /\ MaxFailures \in Nat

VARIABLES
  height,    \* the confirmed block height
  chain,     \* where the transaction of each ordinal is
  file,      \* the manifest file
  phase,     \* what main() awaits
  manifest,  \* the manifest as last read
  record,    \* records: status, and what was reported with it
  currentBlockHeight,
  todo,      \* the pending records of this poll whose group has not come
  group,     \* those of the present group that are not handled
  response,  \* the answer of getSignatureStatuses for the group
  blocks,    \* the keys of blockPositions
  failures

chain_vars == <<height, chain, file>>
poll_vars  == <<currentBlockHeight, todo, group, response>>

vars == <<chain_vars, phase, manifest, record, poll_vars, blocks, failures>>

Slot   == (1..MaxHeight) \X {"first", "other"}  \* two candidates for each height
Absent == [place |-> "absent", slot |-> <<0, "">>, err |-> FALSE]

At(place, slot, err) == [place |-> place, slot |-> slot, err |-> err]

Landing == {At(p, s, e) : p \in {"processed", "confirmed"}, s \in Slot, e \in BOOLEAN}

Status == {"unseen", "broadcast", "success", "reverted", "expired"}

NotReported == [status |-> "broadcast", landedSlot |-> <<0, "">>]
Unseen      == [status |-> "unseen", landedSlot |-> <<0, "">>]

MonitorTypeOK ==
  /\ height \in 0..MaxHeight
  /\ chain \in [Requested -> Landing \cup {Absent}]
  /\ file.records \subseteq Requested /\ file.sendingComplete \in BOOLEAN
  /\ manifest.records \subseteq Requested /\ manifest.sendingComplete \in BOOLEAN
  /\ phase \in {"sleep", "height", "statuses", "record", "block", "finished"}
  /\ \A s \in Requested : /\ record[s].status \in Status
                          /\ record[s].landedSlot \in Slot \cup {<<0, "">>}
  /\ currentBlockHeight \in 0..MaxHeight
  /\ todo \subseteq Requested
  /\ group \subseteq Requested /\ Cardinality(group) <= GroupSize
  /\ response \in [Requested -> Landing \cup {Absent}]
  /\ blocks \subseteq Slot
  /\ failures \in 0..MaxFailures

NoFile == [records |-> {}, sendingComplete |-> FALSE, exists |-> FALSE]

MonitorInit ==
  /\ height = 0
  /\ chain = [s \in Requested |-> Absent]
  /\ file = NoFile
  /\ phase = "sleep"
  /\ manifest = NoFile
  /\ record = [s \in Requested |-> Unseen]
  /\ currentBlockHeight = 0
  /\ todo = {} /\ group = {}
  /\ response = [s \in Requested |-> Absent]
  /\ blocks = {}
  /\ failures = 0

-----------------------------------------------------------------------------
(* The chain and the sender, as the monitor sees them.                     *)

monitor_vars == <<phase, manifest, record, poll_vars, blocks, failures>>

\* The sender has broadcast s and its manifest says so, or says it is complete.
\* What the monitor finds first is first in its records.
Publish(s) ==
  /\ s \notin file.records
  /\ \A t \in Requested : t < s => t \in file.records
  /\ file' = [file EXCEPT !.records = @ \cup {s}, !.exists = TRUE]
  /\ UNCHANGED <<height, chain, monitor_vars>>

PublishComplete ==
  /\ file.records = Requested
  /\ ~file.sendingComplete
  /\ file' = [file EXCEPT !.sendingComplete = TRUE]
  /\ UNCHANGED <<height, chain, monitor_vars>>

\* A leader includes s in the block it makes on the confirmed ones, which it
\* may as long as its blockhash is valid.  It was sent before it is recorded.
MayLand(s) == height + 1 <= LastValid[s] /\ chain[s].place # "confirmed"

Land(s, err) ==
  /\ chain[s] = Absent
  /\ MayLand(s)
  /\ chain' = [chain EXCEPT ![s] = At("processed", <<height + 1, "first">>, err)]
  /\ UNCHANGED <<height, file, monitor_vars>>

\* The block is confirmed.
Confirm ==
  /\ height < MaxHeight
  /\ height' = height + 1
  /\ chain' = [s \in Requested |->
       IF chain[s].place = "processed" THEN [chain[s] EXCEPT !.place = "confirmed"] ELSE chain[s]]
  /\ UNCHANGED <<file, monitor_vars>>

\* Another block of that height is confirmed, with the transactions in landed.
ConfirmOther ==
  /\ height < MaxHeight
  /\ height' = height + 1
  /\ \E landed \in SUBSET {s \in Requested : MayLand(s)}, failed \in SUBSET Requested :
       /\ failed \subseteq landed
       /\ chain' = [s \in Requested |->
            IF s \in landed
              THEN At("confirmed", <<height + 1, "other">>, s \in failed)
              ELSE IF chain[s].place = "confirmed" THEN chain[s] ELSE Absent]
  /\ UNCHANGED <<file, monitor_vars>>

-----------------------------------------------------------------------------
(* Plausible mistakes, for the properties below.                           *)

\* The monitor ends when nothing it knows of is pending.
CompleteBeforeSent(m, recs) == \A s \in Requested : recs[s].status # "broadcast"

\* records.set() without the test for records.has()
AlwaysAdded(m) ==
  [s \in Requested |-> IF s \in m.records THEN NotReported ELSE record[s]]

\* One getSignatureStatuses call for all pending records
WholeGroup(g) == g = todo

\* getBlockHeight() after getSignatureStatuses()
HeightReadLate(s) ==
  IF height > LastValid[s]
    THEN record' = [record EXCEPT ![s].status = "expired"]
    ELSE UNCHANGED record

ExpiryForgotten(s) == UNCHANGED record

\* A status is taken for a confirmation.
StatusIsEnough(s) == TRUE

-----------------------------------------------------------------------------
(* main().                                                                 *)

\* What the last lines of the loop see: sending is complete, and no record
\* is left to decide.
Decided(r) == r.status \notin {"unseen", "broadcast"}

Complete(m, recs) ==
  /\ m.sendingComplete
  /\ m.records \subseteq {s \in Requested : recs[s].status # "unseen"}
  /\ \A s \in Requested : recs[s].status # "broadcast"

PersistAndSleep ==
  /\ phase' = IF Complete(manifest', record') THEN "finished" ELSE "sleep"
  /\ todo' = {} /\ group' = {}

Pending(recs) == {s \in Requested : recs[s].status = "broadcast"}

-----------------------------------------------------------------------------

\* Records that the manifest brings for the first time are pending.
Added(m) ==
  [s \in Requested |->
     IF s \in m.records /\ record[s].status = "unseen" THEN NotReported ELSE record[s]]

\* The top of the loop.  An absent or unreadable manifest is tried again.
Poll ==
  /\ phase = "sleep"
  /\ file.exists
  /\ manifest' = file
  /\ record' = Added(file)
  /\ IF Pending(record') = {}
       THEN PersistAndSleep
       ELSE /\ phase' = "height"
            /\ todo' = Pending(record')
            /\ UNCHANGED group
  /\ UNCHANGED <<chain_vars, currentBlockHeight, response, blocks, failures>>

\* getBlockHeight("confirmed") answers.
ReadHeight ==
  /\ phase = "height"
  /\ currentBlockHeight' = height
  /\ phase' = "statuses"
  /\ UNCHANGED <<chain_vars, manifest, record, todo, group, response, blocks, failures>>

\* The slice of the pending records that the next call asks for.
NextGroup(g) ==
  /\ g \subseteq todo
  /\ \A s \in g, t \in todo \ g : s < t
  /\ Cardinality(g) <= GroupSize
  /\ Cardinality(g) = GroupSize \/ g = todo

\* getSignatureStatuses() answers, for transactions that are only processed too.
ReadStatuses ==
  /\ phase = "statuses"
  /\ \E g \in SUBSET todo :
       /\ NextGroup(g)
       /\ group' = g
       /\ todo' = todo \ g
  /\ response' = [s \in Requested |-> IF s \in group' THEN chain[s] ELSE Absent]
  /\ phase' = "record"
  /\ UNCHANGED <<chain_vars, manifest, record, currentBlockHeight, blocks, failures>>

IsNext(s) == s \in group /\ \A t \in group : s <= t

\* No status: the record expires once its blockhash cannot be used any more.
Expire(s) ==
  IF currentBlockHeight > LastValid[s]
    THEN record' = [record EXCEPT ![s].status = "expired"]
    ELSE UNCHANGED record

WithoutStatus(s) ==
  /\ phase = "record"
  /\ IsNext(s)
  /\ response[s] = Absent
  /\ Expire(s)
  /\ group' = group \ {s}
  /\ UNCHANGED <<chain_vars, phase, manifest, currentBlockHeight, todo, response, blocks,
                 failures>>

\* The record takes the outcome and the slot of the status.
Decide(s) ==
  /\ record' = [record EXCEPT ![s] =
       [status     |-> IF response[s].err THEN "reverted" ELSE "success",
        landedSlot |-> response[s].slot]]
  /\ group' = group \ {s}

\* getTransaction(), which knows confirmed transactions, returned one.
IsConfirmed(s) == chain[s].place = "confirmed"

ReadTransaction(s) ==
  /\ phase = "record"
  /\ IsNext(s)
  /\ response[s] # Absent
  /\ IF ~IsConfirmed(s)
       THEN group' = group \ {s} /\ UNCHANGED <<phase, record>>
       ELSE IF response[s].slot \in blocks
         THEN Decide(s) /\ UNCHANGED phase
         ELSE phase' = "block" /\ UNCHANGED <<record, group>>
  /\ UNCHANGED <<chain_vars, manifest, currentBlockHeight, todo, response, blocks, failures>>

\* getBlock() answers: a block without signatures when it has none to show, as
\* of a block that was dropped.
ReadBlock(s) ==
  /\ phase = "block"
  /\ IsNext(s)
  /\ blocks' = blocks \cup {response[s].slot}
  /\ Decide(s)
  /\ phase' = "record"
  /\ UNCHANGED <<chain_vars, manifest, currentBlockHeight, todo, response, failures>>

\* Or the node answers that it has no such block, which only the confirmed chain
\* has for sure.  blockSignatures() throws, and the poll ends.
BlockRefused(s) ==
  /\ phase = "block"
  /\ IsNext(s)
  /\ response[s].slot # chain[s].slot
  /\ UNCHANGED <<manifest, record>>
  /\ PersistAndSleep
  /\ UNCHANGED <<chain_vars, currentBlockHeight, response, blocks, failures>>

EndGroup ==
  /\ phase = "record"
  /\ group = {}
  /\ UNCHANGED <<chain_vars, manifest, record, currentBlockHeight, response, blocks, failures>>
  /\ IF todo # {}
       THEN phase' = "statuses" /\ UNCHANGED <<todo, group>>
       ELSE PersistAndSleep

\* A call fails: the poll ends, with what it has decided.
CallFails ==
  /\ \/ phase \in {"height", "statuses", "block"}
     \/ /\ phase = "record"
        /\ \E s \in group : IsNext(s) /\ response[s] # Absent
  /\ failures < MaxFailures
  /\ failures' = failures + 1
  /\ UNCHANGED <<manifest, record>>
  /\ PersistAndSleep
  /\ UNCHANGED <<chain_vars, currentBlockHeight, response, blocks>>

-----------------------------------------------------------------------------

PollStep ==
  \/ Poll \/ ReadHeight \/ ReadStatuses \/ EndGroup
  \/ \E s \in Requested :
       WithoutStatus(s) \/ ReadTransaction(s) \/ ReadBlock(s) \/ BlockRefused(s)

SenderStep == PublishComplete \/ \E s \in Requested : Publish(s)

ChainStep ==
  \/ Confirm \/ ConfirmOther
  \/ \E s \in Requested, err \in BOOLEAN : Land(s, err)

MonitorNext == PollStep \/ CallFails \/ SenderStep \/ ChainStep

MonitorSpec == MonitorInit /\ [][MonitorNext]_vars

\* Sleeps end and calls answer, of which MaxFailures fail; the chain grows; the
\* sender finishes, as BatchSender shows of a run that is not killed.
MonitorFairSpec ==
  MonitorSpec /\ WF_vars(PollStep) /\ WF_vars(SenderStep) /\ WF_vars(Confirm \/ ConfirmOther)

-----------------------------------------------------------------------------
(* Properties.                                                             *)

\* A record that is reported as expired never lands afterwards: the block
\* height is read before the statuses, so a transaction without a status that
\* is past its last valid height has missed every block it could be in.
ExpiredNeverLands ==
  \A s \in Requested : record[s].status = "expired" => chain[s].place # "confirmed"

\* Success and revert are reported only of transactions the cluster confirmed,
\* although the status may be that of a block that is not.
OutcomeOnlyWhenConfirmed ==
  \A s \in Requested :
    record[s].status \in {"success", "reverted"} => chain[s].place = "confirmed"

\* The report of a record does not change once it is decided, however often
\* the manifest is read again.
DecidedIsFinal ==
  [][\A s \in Requested : Decided(record[s]) => record'[s] = record[s]]_vars

\* The monitor does not end before every requested transaction is decided,
\* although it decides records long before the last one is broadcast.
EndsWithAllDecided == phase = "finished" => \A s \in Requested : Decided(record[s])

\* It does end: a failed call, a dropped block or an expired blockhash only
\* delays it.
MonitoringEnds == <>(phase = "finished")

\* README.md, on the fields of a record: the slot in which the transaction
\* landed, and success or revert.
ReportIsWhatLanded ==
  \A s \in Requested : record[s].status \in {"success", "reverted"} =>
    /\ record[s].landedSlot = chain[s].slot
    /\ record[s].status = (IF chain[s].err THEN "reverted" ELSE "success")
=============================================================================
