---------------------------- MODULE MonitorProofs ----------------------------
(***************************************************************************)
(* Proofs about Monitor, for every finite batch, all last valid heights,   *)
(* every group size and any number of failing calls.                       *)
(***************************************************************************)
EXTENDS Monitor, FiniteSetTheorems, TLAPS

USE RequestedAssumption, LastValidAssumption, BoundsAssumption

-----------------------------------------------------------------------------
(* The inductive invariant, in parts.                                      *)

NoSlot == <<0, "">>
Report == [status : Status, landedSlot : Slot \cup {NoSlot}]
File   == [records : SUBSET Requested, sendingComplete : BOOLEAN, exists : BOOLEAN]

Shapes ==
  /\ record \in [Requested -> Report]
  /\ file \in File
  /\ manifest \in File

\* The monitor has not seen a block that does not exist.
HeightIsPast == currentBlockHeight <= height

\* What was not in any block when its blockhash expired never is.
Dead(s) == chain[s] = Absent /\ height > LastValid[s]

ExpiredIsDead == \A s \in Requested : record[s].status = "expired" => Dead(s)

\* That holds already of a record that is about to expire: its status was
\* asked for after the block height.
AboutToExpire(s) ==
  phase \in {"record", "block"} /\ response[s] = Absent /\ currentBlockHeight > LastValid[s]

AbsentIsDead == \A s \in group : AboutToExpire(s) => Dead(s)

\* A block is asked for on behalf of a transaction that getTransaction() returned.
NextIsConfirmed ==
  phase = "block" =>
    \A s \in Requested : IsNext(s) => IsConfirmed(s) /\ response[s] # Absent

\* What a poll works on is pending, and is handled once.
PollIsPending ==
  /\ \A s \in todo \cup group : record[s].status = "broadcast"
  /\ todo \cap group = {}
  /\ phase = "sleep" => group = {}

\* The sender completes its manifest only when it holds every record.
Whole(m) == m.sendingComplete => m.records = Requested

SentIsWhole == Whole(file) /\ Whole(manifest)

IInv ==
  /\ MonitorTypeOK /\ Shapes
  /\ HeightIsPast
  /\ ExpiredIsDead /\ AbsentIsDead
  /\ NextIsConfirmed /\ OutcomeOnlyWhenConfirmed
  /\ PollIsPending
  /\ SentIsWhole /\ EndsWithAllDecided

-----------------------------------------------------------------------------
(* Places on the chain.                                                    *)

LEMMA Places ==
  /\ Absent.place = "absent"
  /\ \A c \in Landing : c.place \in {"processed", "confirmed"} /\ c.slot \in Slot
                        /\ [c EXCEPT !.place = "confirmed"] \in Landing
                        /\ [c EXCEPT !.place = "confirmed"].place = "confirmed"
  /\ \A p \in {"processed", "confirmed"}, l \in Slot, e \in BOOLEAN :
        At(p, l, e) \in Landing /\ At(p, l, e).place = p
  /\ \A c \in Landing \cup {Absent} : c = Absent <=> c.place = "absent"
  <1>1. Absent.place = "absent"
    BY DEF Absent
  <1>2. ASSUME NEW p \in {"processed", "confirmed"}, NEW l \in Slot, NEW e \in BOOLEAN
        PROVE  /\ At(p, l, e) \in Landing /\ At(p, l, e).place = p /\ At(p, l, e).slot = l
               /\ [At(p, l, e) EXCEPT !.place = "confirmed"] = At("confirmed", l, e)
    <2>1. At(p, l, e) \in Landing
      BY <1>2 DEF Landing
    <2>2. QED
      BY <1>2, <2>1 DEF At
  <1>3. ASSUME NEW c \in Landing
        PROVE  \E p \in {"processed", "confirmed"}, l \in Slot, e \in BOOLEAN : c = At(p, l, e)
    BY <1>3 DEF Landing
  <1>4. ASSUME NEW c \in Landing
        PROVE  /\ c.place \in {"processed", "confirmed"} /\ c.slot \in Slot
               /\ [c EXCEPT !.place = "confirmed"] \in Landing
               /\ [c EXCEPT !.place = "confirmed"].place = "confirmed"
    <2>1. PICK p \in {"processed", "confirmed"}, l \in Slot, e \in BOOLEAN : c = At(p, l, e)
      BY <1>3
    <2>2. QED
      BY <1>2, <2>1
  <1>5. \A c \in Landing \cup {Absent} : c = Absent <=> c.place = "absent"
    BY <1>1, <1>4
  <1>6. QED
    BY <1>1, <1>2, <1>4, <1>5

\* The chain goes on: a confirmed transaction stays so, and one whose
\* blockhash has expired is not included any more.
ChainTypes == height \in 0..MaxHeight /\ chain \in [Requested -> Landing \cup {Absent}]

GoesOn ==
  /\ height <= height'
  /\ \A s \in Requested : IsConfirmed(s) => IsConfirmed(s)'
  /\ \A s \in Requested : Dead(s) => Dead(s)'

LEMMA ChainGoesOn ==
  ASSUME ChainTypes, ChainStep
  PROVE  ChainTypes' /\ GoesOn
  <1> USE DEF ChainTypes, GoesOn, IsConfirmed, Dead, MayLand
  <1>1. ASSUME NEW s \in Requested, NEW err \in BOOLEAN, Land(s, err)
        PROVE  ChainTypes' /\ GoesOn
    <2> DEFINE slot == <<height + 1, "first">>
    <2>1. height + 1 \in 1..MaxHeight
      BY <1>1 DEF Land
    <2>2. slot \in Slot
      BY <2>1 DEF Slot
    <2>3. At("processed", slot, err) \in Landing
      BY <2>2, Places
    <2>4. chain' = [chain EXCEPT ![s] = At("processed", slot, err)] /\ height' = height
      BY <1>1 DEF Land
    <2>5. ChainTypes'
      BY <2>3, <2>4
    <2>6. chain[s].place # "confirmed" /\ ~Dead(s)
      BY <1>1 DEF Land
    <2>7. \A t \in Requested : t # s => chain'[t] = chain[t]
      BY <2>4
    <2>8. QED
      BY <2>4, <2>5, <2>6, <2>7
  <1>2. CASE Confirm
    <2> DEFINE moved(s) == [chain[s] EXCEPT !.place = "confirmed"]
    <2>1. /\ height < MaxHeight /\ height' = height + 1
          /\ chain' = [s \in Requested |-> IF chain[s].place = "processed" THEN moved(s) ELSE chain[s]]
      BY <1>2 DEF Confirm
    <2>2. ASSUME NEW s \in Requested
          PROVE  /\ chain'[s] \in Landing \cup {Absent}
                 /\ IsConfirmed(s) => IsConfirmed(s)'
                 /\ Dead(s) => Dead(s)'
      <3>1. CASE chain[s].place = "processed"
        <4>1. chain[s] \in Landing /\ chain'[s] = moved(s)
          BY <2>1, <3>1, Places
        <4>2. QED
          BY <3>1, <4>1, Places
      <3>2. CASE chain[s].place # "processed"
        BY <2>1, <3>2
      <3>3. QED
        BY <3>1, <3>2
    <2>3. QED
      BY <2>1, <2>2
  <1>3. CASE ConfirmOther
    <2> DEFINE slot == <<height + 1, "other">>
    <2>1. PICK landed \in SUBSET {s \in Requested : MayLand(s)}, failed \in SUBSET Requested :
            chain' = [s \in Requested |->
              IF s \in landed
                THEN At("confirmed", slot, s \in failed)
                ELSE IF chain[s].place = "confirmed" THEN chain[s] ELSE Absent]
      BY <1>3 DEF ConfirmOther
    <2>2. height < MaxHeight /\ height' = height + 1
      BY <1>3 DEF ConfirmOther
    <2>3. slot \in Slot
      BY <2>2 DEF Slot
    <2>4. ASSUME NEW s \in Requested
          PROVE  /\ chain'[s] \in Landing \cup {Absent}
                 /\ IsConfirmed(s) => IsConfirmed(s)'
                 /\ Dead(s) => Dead(s)'
      <3>1. CASE s \in landed
        <4>1. MayLand(s) /\ chain'[s] = At("confirmed", slot, s \in failed)
          BY <2>1, <3>1
        <4> DEFINE err == s \in failed
        <4>2. At("confirmed", slot, err) \in Landing
          <5>1. err \in BOOLEAN
            OBVIOUS
          <5> HIDE DEF err, slot
          <5>2. QED
            BY <2>3, <5>1, Places
        <4>4. ~IsConfirmed(s) /\ ~Dead(s)
          BY <4>1
        <4>5. QED
          BY <4>1, <4>2, <4>4
      <3>2. CASE s \notin landed
        <4>1. chain'[s] = IF chain[s].place = "confirmed" THEN chain[s] ELSE Absent
          BY <2>1, <3>2
        <4>2. QED
          BY <2>2, <4>1
      <3>3. QED
        BY <3>1, <3>2
    <2>5. chain' \in [Requested -> Landing \cup {Absent}]
      BY <2>1, <2>4
    <2>6. QED
      BY <2>2, <2>4, <2>5
  <1>4. QED
    BY <1>1, <1>2, <1>3 DEF ChainStep

-----------------------------------------------------------------------------
(* The actions keep the parts of the invariant.                            *)

\* What a step of the monitor leaves alone, and what it does to the records.
MonitorStep == PollStep \/ CallFails

LEMMA OwnSteps ==
  ASSUME MonitorStep
  PROVE  UNCHANGED <<height, chain, file>>
  BY DEF MonitorStep, PollStep, CallFails, Poll, ReadHeight, ReadStatuses, EndGroup,
         WithoutStatus, ReadTransaction, ReadBlock, BlockRefused, chain_vars

LEMMA OthersSteps ==
  ASSUME SenderStep \/ ChainStep
  PROVE  UNCHANGED <<phase, manifest, record, currentBlockHeight, todo, group, response, blocks,
                     failures>>
  BY DEF SenderStep, ChainStep, Publish, PublishComplete, Land, Confirm, ConfirmOther,
         monitor_vars, poll_vars

LEMMA SenderLeavesChain ==
  ASSUME SenderStep
  PROVE  UNCHANGED <<height, chain>>
  BY DEF SenderStep, Publish, PublishComplete

LEMMA ChainLeavesFile ==
  ASSUME ChainStep
  PROVE  file' = file
  BY DEF ChainStep, Land, Confirm, ConfirmOther

LEMMA ShapesStay ==
  ASSUME MonitorTypeOK, Shapes, NextIsConfirmed, [MonitorNext]_vars
  PROVE  Shapes'
  <1> USE DEF Shapes, Report
  <1>1. ASSUME NEW s \in Requested, Publish(s)
        PROVE  Shapes'
    BY <1>1 DEF Publish, File, monitor_vars
  <1>2. CASE PublishComplete
    BY <1>2 DEF PublishComplete, File, monitor_vars
  <1>3. CASE ChainStep
    BY <1>3, OthersSteps, ChainLeavesFile
  <1>4. CASE Poll
    <2>1. record' = Added(file) /\ manifest' = file /\ file' = file
      BY <1>4 DEF Poll, chain_vars
    <2>2. NotReported \in Report
      BY DEF NotReported, Status, NoSlot
    <2>3. QED
      BY <2>1, <2>2 DEF Added
  <1>5. ASSUME NEW s \in Requested, WithoutStatus(s)
        PROVE  Shapes'
    <2>1. [record[s] EXCEPT !.status = "expired"] \in Report
      BY DEF Status
    <2>2. manifest' = manifest /\ file' = file
      BY <1>5 DEF WithoutStatus, chain_vars
    <2>3. record' = record \/ record' = [record EXCEPT ![s].status = "expired"]
      BY <1>5 DEF WithoutStatus, Expire
    <2>4. QED
      BY <2>1, <2>2, <2>3
  <1>6. ASSUME NEW s \in Requested, Decide(s), response[s].slot \in Slot
        PROVE  record' \in [Requested -> Report]
    <2> DEFINE report == [status     |-> IF response[s].err THEN "reverted" ELSE "success",
                          landedSlot |-> response[s].slot]
    <2>1. report \in Report
      BY <1>6 DEF Status
    <2>2. record' = [record EXCEPT ![s] = report]
      BY <1>6 DEF Decide
    <2>3. QED
      BY <2>1, <2>2
  <1>7. ASSUME NEW s \in Requested, ReadTransaction(s)
        PROVE  Shapes'
    <2>1. response[s] \in Landing
      BY <1>7 DEF ReadTransaction, MonitorTypeOK
    <2>2. response[s].slot \in Slot
      BY <2>1, Places
    <2>3. UNCHANGED <<manifest, file>> /\ (Decide(s) \/ UNCHANGED record)
      BY <1>7 DEF ReadTransaction, chain_vars
    <2>4. QED
      BY <1>6, <2>2, <2>3
  <1>8. ASSUME NEW s \in Requested, ReadBlock(s)
        PROVE  Shapes'
    <2>1. response[s] # Absent
      BY <1>8 DEF ReadBlock, NextIsConfirmed
    <2>2. response[s] \in Landing
      BY <2>1 DEF MonitorTypeOK
    <2>3. response[s].slot \in Slot
      BY <2>2, Places
    <2>4. UNCHANGED <<manifest, file>> /\ Decide(s)
      BY <1>8 DEF ReadBlock, chain_vars
    <2>5. QED
      BY <1>6, <2>3, <2>4
  <1>9. CASE \/ ReadHeight \/ ReadStatuses \/ EndGroup \/ CallFails \/ UNCHANGED vars
            \/ \E s \in Requested : BlockRefused(s)
    BY <1>9 DEF ReadHeight, ReadStatuses, EndGroup, CallFails, BlockRefused, vars, chain_vars
  <1>10. QED
    BY <1>1, <1>2, <1>3, <1>4, <1>5, <1>7, <1>8, <1>9
       DEF MonitorNext, PollStep, SenderStep

\* The other types.
LEMMA FewLeft ==
  ASSUME group \subseteq Requested, Cardinality(group) <= GroupSize, NEW s
  PROVE  group \ {s} \subseteq Requested /\ Cardinality(group \ {s}) <= GroupSize
  <1>1. IsFiniteSet(group)
    BY FS_Subset
  <1>2. Cardinality(group \ {s}) <= Cardinality(group) /\ IsFiniteSet(group \ {s})
    BY <1>1, FS_Subset
  <1>3. Cardinality(group) \in Nat /\ Cardinality(group \ {s}) \in Nat
    BY <1>1, <1>2, FS_CardinalityType
  <1>4. Cardinality(group \ {s}) <= GroupSize
    <2>1. GroupSize \in Int /\ Cardinality(group) <= GroupSize
      OBVIOUS
    <2>2. \A a, b, c \in Int : a <= b /\ b <= c => a <= c
      OBVIOUS
    <2>3. QED
      BY <1>2, <1>3, <2>1, <2>2
  <1>5. QED
    BY <1>4

PollTypes ==
  /\ phase \in {"sleep", "height", "statuses", "record", "block", "finished"}
  /\ currentBlockHeight \in 0..MaxHeight
  /\ todo \subseteq Requested
  /\ group \subseteq Requested /\ Cardinality(group) <= GroupSize
  /\ response \in [Requested -> Landing \cup {Absent}]
  /\ blocks \subseteq Slot
  /\ failures \in 0..MaxFailures

LEMMA Slept ==
  ASSUME PersistAndSleep
  PROVE  /\ phase' \in {"sleep", "finished"}
         /\ todo' = {} /\ group' = {} /\ Cardinality(group') <= GroupSize
  BY FS_EmptySet DEF PersistAndSleep

LEMMA PollTypesStay ==
  ASSUME ChainTypes, PollTypes, NextIsConfirmed, MonitorStep
  PROVE  PollTypes'
  <1> USE DEF PollTypes
  <1>1. CASE Poll
    <2>1. CASE Pending(record') = {}
      BY <1>1, <2>1, Slept DEF Poll
    <2>2. CASE Pending(record') # {}
      BY <1>1, <2>2 DEF Poll, Pending
    <2>3. QED
      BY <2>1, <2>2
  <1>2. CASE ReadHeight
    BY <1>2 DEF ReadHeight, ChainTypes
  <1>3. CASE ReadStatuses
    <2>1. response' \in [Requested -> Landing \cup {Absent}]
      BY <1>3 DEF ReadStatuses, ChainTypes
    <2>2. PICK g \in SUBSET todo : NextGroup(g) /\ group' = g /\ todo' = todo \ g
      BY <1>3 DEF ReadStatuses
    <2>3. QED
      BY <1>3, <2>1, <2>2 DEF ReadStatuses, NextGroup
  <1>4. CASE EndGroup
    <2>1. CASE todo = {}
      BY <1>4, <2>1, Slept DEF EndGroup
    <2>2. CASE todo # {}
      BY <1>4, <2>2 DEF EndGroup
    <2>3. QED
      BY <2>1, <2>2
  <1>5. ASSUME NEW s \in Requested, WithoutStatus(s)
        PROVE  PollTypes'
    BY <1>5, FewLeft DEF WithoutStatus
  <1>6. ASSUME NEW s \in Requested, ReadTransaction(s)
        PROVE  PollTypes'
    BY <1>6, FewLeft DEF ReadTransaction, Decide
  <1>7. ASSUME NEW s \in Requested, ReadBlock(s)
        PROVE  PollTypes'
    <2>1. response[s] \in Landing
      BY <1>7 DEF ReadBlock, NextIsConfirmed
    <2>2. response[s].slot \in Slot
      BY <2>1, Places
    <2>3. QED
      BY <1>7, <2>2, FewLeft DEF ReadBlock, Decide
  <1>8. CASE CallFails \/ \E s \in Requested : BlockRefused(s)
    BY <1>8, Slept DEF CallFails, BlockRefused
  <1>9. QED
    BY <1>1, <1>2, <1>3, <1>4, <1>5, <1>6, <1>7, <1>8 DEF MonitorStep, PollStep

LEMMA TypesStay ==
  ASSUME MonitorTypeOK, Shapes, NextIsConfirmed, [MonitorNext]_vars
  PROVE  MonitorTypeOK'
  <1>1. ChainTypes /\ PollTypes
    BY DEF MonitorTypeOK, ChainTypes, PollTypes
  <1>2. ChainTypes'
    <2>1. CASE ChainStep
      BY <1>1, <2>1, ChainGoesOn
    <2>2. CASE SenderStep
      BY <1>1, <2>2, SenderLeavesChain DEF ChainTypes
    <2>3. CASE MonitorStep
      BY <1>1, <2>3, OwnSteps DEF ChainTypes
    <2>4. QED
      BY <1>1, <2>1, <2>2, <2>3 DEF MonitorNext, MonitorStep, ChainTypes, vars, chain_vars
  <1>3. PollTypes'
    <2>1. CASE SenderStep \/ ChainStep
      BY <1>1, <2>1, OthersSteps DEF PollTypes
    <2>2. CASE MonitorStep
      BY <1>1, <2>2, PollTypesStay
    <2>3. QED
      BY <1>1, <2>1, <2>2 DEF MonitorNext, MonitorStep, PollTypes, vars, poll_vars
  <1>4. Shapes'
    BY ShapesStay
  <1>5. QED
    BY <1>2, <1>3, <1>4
       DEF MonitorTypeOK, ChainTypes, PollTypes, Shapes, File, Report, NoSlot

-----------------------------------------------------------------------------

LEMMA HeightTypes ==
  ASSUME MonitorTypeOK
  PROVE  height \in Int /\ currentBlockHeight \in Int /\ ChainTypes
  <1>1. height \in 0..MaxHeight /\ currentBlockHeight \in 0..MaxHeight
    BY DEF MonitorTypeOK
  <1>2. ChainTypes
    BY DEF MonitorTypeOK, ChainTypes
  <1>3. QED
    BY <1>1, <1>2

LEMMA HeightStays ==
  ASSUME MonitorTypeOK, HeightIsPast, [MonitorNext]_vars
  PROVE  HeightIsPast'
  <1> USE DEF HeightIsPast
  <1>1. height \in Int /\ currentBlockHeight \in Int /\ ChainTypes
    BY HeightTypes
  <1>2. CASE ChainStep
    <2>1. height' \in Int /\ height <= height' /\ currentBlockHeight' = currentBlockHeight
      BY <1>1, <1>2, ChainGoesOn, OthersSteps DEF GoesOn, ChainTypes
    <2>2. QED
      BY <1>1, <2>1
  <1>3. CASE SenderStep
    BY <1>3, OthersSteps, SenderLeavesChain
  <1>4. CASE MonitorStep
    <2>1. height' = height /\ (currentBlockHeight' = height \/ UNCHANGED currentBlockHeight)
      BY <1>4, OwnSteps
         DEF MonitorStep, PollStep, CallFails, Poll, ReadHeight, ReadStatuses, EndGroup,
             WithoutStatus, ReadTransaction, ReadBlock, BlockRefused
    <2>2. QED
      BY <1>1, <2>1
  <1>5. QED
    BY <1>2, <1>3, <1>4 DEF MonitorNext, MonitorStep, vars, chain_vars, poll_vars

LEMMA IfDead ==
  ASSUME MonitorTypeOK, HeightIsPast, NEW s \in Requested,
         chain[s] = Absent, currentBlockHeight > LastValid[s]
  PROVE  Dead(s)
  <1>1. height \in Int /\ currentBlockHeight \in Int /\ LastValid[s] \in Int
    BY HeightTypes
  <1>2. QED
    BY <1>1 DEF HeightIsPast, Dead

\* getTransaction() does not change a record, or it decides one that is confirmed.
LEMMA TransactionSteps ==
  ASSUME NEW s \in Requested, ReadTransaction(s)
  PROVE  record' = record \/ (Decide(s) /\ IsConfirmed(s))
  <1>1. CASE ~IsConfirmed(s)
    BY <1>1 DEF ReadTransaction, IsConfirmed
  <1>2. CASE IsConfirmed(s)
    <2>1. \/ Decide(s) /\ UNCHANGED phase
          \/ phase' = "block" /\ UNCHANGED <<record, group>>
      BY <1>2 DEF ReadTransaction, IsConfirmed
    <2>2. QED
      BY <1>2, <2>1
  <1>3. QED
    BY <1>1, <1>2

\* The record of s alone changes in these steps, and s is in the group.
OneRecord(s) == \A t \in Requested : t # s => record'[t] = record[t]

LEMMA HandledAlone ==
  ASSUME Shapes, NEW s \in Requested,
         WithoutStatus(s) \/ ReadTransaction(s) \/ ReadBlock(s), record' # record
  PROVE  s \in group /\ OneRecord(s) /\ group' = group \ {s} /\ todo' = todo
  <1>1. CASE WithoutStatus(s)
    BY <1>1 DEF WithoutStatus, IsNext, Expire, OneRecord, Shapes
  <1>2. ASSUME Decide(s)
        PROVE  OneRecord(s) /\ group' = group \ {s}
    BY <1>2 DEF Decide, OneRecord, Shapes
  <1>3. CASE ReadTransaction(s)
    <2>1. s \in group /\ todo' = todo
      BY <1>3 DEF ReadTransaction, IsNext
    <2>2. Decide(s)
      BY <1>3, TransactionSteps
    <2>3. QED
      BY <1>2, <2>1, <2>2
  <1>4. CASE ReadBlock(s)
    BY <1>2, <1>4 DEF ReadBlock, IsNext
  <1>5. QED
    BY <1>1, <1>3, <1>4

LEMMA RecordSteps ==
  ASSUME Shapes, MonitorStep
  PROVE  \/ record' = record
         \/ Poll
         \/ \E s \in group : /\ OneRecord(s)
                            /\ (WithoutStatus(s) \/ ReadTransaction(s) \/ ReadBlock(s))
  <1>1. ReadHeight \/ ReadStatuses \/ EndGroup \/ CallFails => record' = record
    BY DEF ReadHeight, ReadStatuses, EndGroup, CallFails
  <1>2. \A s \in Requested : BlockRefused(s) => record' = record
    BY DEF BlockRefused
  <1>3. QED
    BY <1>1, <1>2, HandledAlone DEF MonitorStep, PollStep

\* How the status of the record that is handled changes.
LEMMA StatusSteps ==
  ASSUME Shapes, NEW s \in Requested, record' # record,
         WithoutStatus(s) \/ ReadTransaction(s) \/ ReadBlock(s)
  PROVE  \/ record'[s].status = "expired" /\ WithoutStatus(s)
            /\ currentBlockHeight > LastValid[s]
         \/ record'[s].status \in {"success", "reverted"}
            /\ (ReadBlock(s) \/ (ReadTransaction(s) /\ IsConfirmed(s)))
  <1>1. ASSUME Decide(s)
        PROVE  record'[s].status \in {"success", "reverted"}
    BY <1>1 DEF Decide, Shapes
  <1>2. CASE WithoutStatus(s)
    <2>1. currentBlockHeight > LastValid[s] /\ record' = [record EXCEPT ![s].status = "expired"]
      BY <1>2 DEF WithoutStatus, Expire
    <2>2. record[s] \in Report /\ record'[s] = [record[s] EXCEPT !.status = "expired"]
      BY <2>1 DEF Shapes
    <2>3. record'[s].status = "expired"
      BY <2>2 DEF Report
    <2>4. QED
      BY <1>2, <2>1, <2>3
  <1>3. CASE ReadTransaction(s)
    <2>1. Decide(s) /\ IsConfirmed(s)
      BY <1>3, TransactionSteps
    <2>2. QED
      BY <1>1, <1>3, <2>1
  <1>4. CASE ReadBlock(s)
    <2>1. Decide(s)
      BY <1>4 DEF ReadBlock
    <2>2. record'[s].status \in {"success", "reverted"}
      BY <1>1, <2>1
    <2>3. QED
      BY <1>4, <2>2
  <1>5. QED
    BY <1>2, <1>3, <1>4

LEMMA AddedStatus ==
  ASSUME Shapes, Poll
  PROVE  \A s \in Requested :
           \/ record'[s] = record[s]
           \/ record[s].status = "unseen" /\ record'[s].status = "broadcast"
  BY DEF Shapes, Poll, Added, NotReported

-----------------------------------------------------------------------------

\* A group's statuses are not asked for again before it is handled.
LEMMA ResponseSteps ==
  ASSUME MonitorStep
  PROVE  \/ ReadStatuses
         \/ phase' \notin {"record", "block"}
         \/ /\ group' \subseteq group
            /\ UNCHANGED <<response, currentBlockHeight>>
            /\ phase \in {"record", "block"}
  <1>1. PersistAndSleep => phase' \notin {"record", "block"}
    BY DEF PersistAndSleep
  <1>2. Poll \/ ReadHeight \/ EndGroup \/ CallFails => phase' \notin {"record", "block"}
    BY <1>1 DEF Poll, ReadHeight, EndGroup, CallFails
  <1>3. \A s \in Requested : BlockRefused(s) => phase' \notin {"record", "block"}
    BY <1>1 DEF BlockRefused
  <1>4. ASSUME NEW s \in Requested, WithoutStatus(s) \/ ReadTransaction(s) \/ ReadBlock(s)
        PROVE  /\ group' \subseteq group
               /\ UNCHANGED <<response, currentBlockHeight>>
               /\ phase \in {"record", "block"}
    BY <1>4 DEF WithoutStatus, ReadTransaction, ReadBlock, Decide
  <1>5. QED
    BY <1>2, <1>3, <1>4 DEF MonitorStep, PollStep

LEMMA AboutStays ==
  ASSUME MonitorTypeOK, HeightIsPast, AbsentIsDead, [MonitorNext]_vars
  PROVE  AbsentIsDead'
  <1> USE DEF AbsentIsDead, AboutToExpire
  <1>1. CASE ChainStep
    BY <1>1, HeightTypes, ChainGoesOn, OthersSteps DEF GoesOn, MonitorTypeOK
  <1>2. CASE SenderStep
    BY <1>2, SenderLeavesChain, OthersSteps DEF Dead
  <1>3. CASE MonitorStep
    <2>1. UNCHANGED <<height, chain>>
      BY <1>3, OwnSteps
    <2>2. CASE ReadStatuses
      <3>1. /\ group' \subseteq todo /\ currentBlockHeight' = currentBlockHeight
            /\ \A s \in group' : response'[s] = chain[s]
        BY <2>2 DEF ReadStatuses, MonitorTypeOK
      <3>2. QED
        BY <2>1, <3>1, IfDead DEF Dead, MonitorTypeOK
    <2>3. CASE ~ReadStatuses
      BY <1>3, <2>1, <2>3, ResponseSteps DEF Dead
    <2>4. QED
      BY <2>2, <2>3
  <1>4. QED
    BY <1>1, <1>2, <1>3 DEF MonitorNext, MonitorStep, vars, chain_vars, poll_vars, Dead

LEMMA ExpiredStays ==
  ASSUME MonitorTypeOK, Shapes, AbsentIsDead, ExpiredIsDead, [MonitorNext]_vars
  PROVE  ExpiredIsDead'
  <1> USE DEF ExpiredIsDead
  <1>1. CASE ChainStep
    BY <1>1, HeightTypes, ChainGoesOn, OthersSteps DEF GoesOn
  <1>2. CASE SenderStep
    BY <1>2, SenderLeavesChain, OthersSteps DEF Dead
  <1>3. CASE MonitorStep
    <2>1. UNCHANGED <<height, chain>>
      BY <1>3, OwnSteps
    <2>2. \A s \in Requested : Dead(s) => Dead(s)'
      BY <2>1 DEF Dead
    <2>3. CASE Poll
      BY <2>2, <2>3, AddedStatus
    <2>4. ASSUME NEW s \in group, OneRecord(s), record' # record,
                 WithoutStatus(s) \/ ReadTransaction(s) \/ ReadBlock(s)
          PROVE  ExpiredIsDead'
      <3>1. s \in Requested
        BY DEF MonitorTypeOK
      <3>2. record'[s].status = "expired" => Dead(s)
        BY <2>4, <3>1, StatusSteps DEF WithoutStatus, AbsentIsDead, AboutToExpire
      <3>3. QED
        BY <2>2, <2>4, <3>1, <3>2 DEF OneRecord
    <2>5. CASE record' = record
      BY <2>2, <2>5
    <2>6. QED
      BY <1>3, <2>3, <2>4, <2>5, RecordSteps
  <1>4. QED
    BY <1>1, <1>2, <1>3 DEF MonitorNext, MonitorStep, vars, chain_vars, Dead

LEMMA NextStays ==
  ASSUME MonitorTypeOK, NextIsConfirmed, [MonitorNext]_vars
  PROVE  NextIsConfirmed'
  <1> USE DEF NextIsConfirmed, IsNext
  <1>1. CASE ChainStep
    BY <1>1, HeightTypes, ChainGoesOn, OthersSteps DEF GoesOn
  <1>2. CASE SenderStep
    BY <1>2, SenderLeavesChain, OthersSteps DEF IsConfirmed
  <1>3. ASSUME NEW s \in Requested, ReadTransaction(s)
        PROVE  NextIsConfirmed'
    <2>1. phase' = "block" => IsConfirmed(s) /\ group' = group
      BY <1>3 DEF ReadTransaction
    <2>2. UNCHANGED <<chain, response>> /\ response[s] # Absent /\ IsNext(s)
      BY <1>3 DEF ReadTransaction, chain_vars
    <2>3. \A t \in Requested : IsNext(t) => t = s
      BY <2>2
    <2>4. QED
      BY <2>1, <2>2, <2>3 DEF IsConfirmed
  <1>4. PersistAndSleep => phase' # "block"
    BY DEF PersistAndSleep
  <1>5. ASSUME Poll \/ ReadHeight \/ ReadStatuses \/ EndGroup \/ CallFails
               \/ \E s \in Requested : WithoutStatus(s) \/ ReadBlock(s) \/ BlockRefused(s)
        PROVE  phase' # "block"
    BY <1>4, <1>5
       DEF Poll, ReadHeight, ReadStatuses, EndGroup, CallFails, WithoutStatus, ReadBlock,
           BlockRefused
  <1>6. QED
    BY <1>1, <1>2, <1>3, <1>5
       DEF MonitorNext, PollStep, vars, chain_vars, poll_vars, IsConfirmed

LEMMA OutcomesStay ==
  ASSUME MonitorTypeOK, Shapes, NextIsConfirmed, OutcomeOnlyWhenConfirmed, [MonitorNext]_vars
  PROVE  OutcomeOnlyWhenConfirmed'
  <1> USE DEF OutcomeOnlyWhenConfirmed
  <1>1. CASE ChainStep
    BY <1>1, HeightTypes, ChainGoesOn, OthersSteps DEF GoesOn, IsConfirmed
  <1>2. CASE SenderStep
    BY <1>2, SenderLeavesChain, OthersSteps
  <1>3. CASE MonitorStep
    <2>1. UNCHANGED <<height, chain>>
      BY <1>3, OwnSteps
    <2>2. CASE Poll
      BY <2>1, <2>2, AddedStatus
    <2>3. ASSUME NEW s \in group, OneRecord(s), record' # record,
                 WithoutStatus(s) \/ ReadTransaction(s) \/ ReadBlock(s)
          PROVE  OutcomeOnlyWhenConfirmed'
      <3>1. s \in Requested
        BY DEF MonitorTypeOK
      <3>2. record'[s].status # "expired" => IsConfirmed(s)
        BY <2>3, <3>1, StatusSteps DEF ReadBlock, NextIsConfirmed
      <3>3. QED
        BY <2>1, <2>3, <3>1, <3>2 DEF OneRecord, IsConfirmed
    <2>4. CASE record' = record
      BY <2>1, <2>4
    <2>5. QED
      BY <1>3, <2>2, <2>3, <2>4, RecordSteps
  <1>4. QED
    BY <1>1, <1>2, <1>3 DEF MonitorNext, MonitorStep, vars, chain_vars

LEMMA PollStays ==
  ASSUME MonitorTypeOK, Shapes, PollIsPending, [MonitorNext]_vars
  PROVE  PollIsPending'
  <1> USE DEF PollIsPending
  <1>1. CASE SenderStep \/ ChainStep
    BY <1>1, OthersSteps
  <1>2. PersistAndSleep => PollIsPending'
    BY DEF PersistAndSleep
  <1>3. CASE Poll
    <2>1. CASE Pending(record') # {}
      <3>1. /\ todo' = Pending(record') /\ group' = group
            /\ phase = "sleep" /\ phase' = "height"
        BY <1>3, <2>1 DEF Poll
      <3>2. QED
        BY <3>1 DEF Pending
    <2>2. QED
      BY <1>2, <1>3, <2>1 DEF Poll
  <1>4. ASSUME group' \subseteq group, todo' \subseteq todo, record' = record, phase' # "sleep"
        PROVE  PollIsPending'
    BY <1>4
  <1>5. CASE ReadStatuses
    <2>1. PICK g \in SUBSET todo : group' = g /\ todo' = todo \ g
      BY <1>5 DEF ReadStatuses
    <2>2. record' = record /\ phase' # "sleep"
      BY <1>5 DEF ReadStatuses
    <2>3. QED
      BY <2>1, <2>2
  <1>6. CASE EndGroup
    BY <1>2, <1>4, <1>6 DEF EndGroup
  <1>7. CASE ReadHeight
    BY <1>4, <1>7 DEF ReadHeight
  <1>8. CASE CallFails \/ \E s \in Requested : BlockRefused(s)
    BY <1>2, <1>8 DEF CallFails, BlockRefused
  <1>9. ASSUME NEW s \in Requested, WithoutStatus(s) \/ ReadTransaction(s) \/ ReadBlock(s)
        PROVE  PollIsPending'
    <2>1. phase' # "sleep" /\ group' \subseteq group /\ todo' = todo
      BY <1>9 DEF WithoutStatus, ReadTransaction, ReadBlock, Decide
    <2>2. CASE record' = record
      BY <1>4, <2>1, <2>2
    <2>3. CASE record' # record
      <3>1. s \in group /\ OneRecord(s) /\ group' = group \ {s}
        BY <1>9, <2>3, HandledAlone
      <3>2. QED
        BY <2>1, <3>1 DEF OneRecord, MonitorTypeOK
    <2>4. QED
      BY <2>2, <2>3
  <1>10. CASE UNCHANGED vars
    BY <1>10 DEF vars, poll_vars
  <1>11. QED
    BY <1>1, <1>3, <1>5, <1>6, <1>7, <1>8, <1>9, <1>10 DEF MonitorNext, PollStep

LEMMA SentStays ==
  ASSUME Shapes, SentIsWhole, [MonitorNext]_vars
  PROVE  SentIsWhole'
  <1> USE DEF SentIsWhole, Whole
  <1>1. CASE SenderStep
    <2>1. ASSUME NEW s \in Requested, Publish(s)
          PROVE  Whole(file)'
      <3>1. file.records # Requested /\ file'.sendingComplete = file.sendingComplete
        BY <2>1 DEF Publish, Shapes, File
      <3>2. QED
        BY <3>1
    <2>2. PublishComplete => Whole(file)'
      BY DEF PublishComplete, Shapes, File
    <2>3. QED
      BY <1>1, <2>1, <2>2, OthersSteps DEF SenderStep
  <1>2. CASE ChainStep
    BY <1>2, ChainLeavesFile, OthersSteps
  <1>3. CASE MonitorStep
    <2>1. manifest' = file \/ manifest' = manifest
      BY <1>3 DEF MonitorStep, PollStep, CallFails, Poll, ReadHeight, ReadStatuses, EndGroup,
                  WithoutStatus, ReadTransaction, ReadBlock, BlockRefused
    <2>2. QED
      BY <1>3, <2>1, OwnSteps
  <1>4. QED
    BY <1>1, <1>2, <1>3 DEF MonitorNext, MonitorStep, vars, chain_vars

\* The monitor ends only where Complete holds, and does nothing afterwards.
LEMMA EndStays ==
  ASSUME SentIsWhole', EndsWithAllDecided, [MonitorNext]_vars
  PROVE  EndsWithAllDecided'
  <1> USE DEF EndsWithAllDecided
  <1>1. ASSUME PersistAndSleep, phase' = "finished"
        PROVE  EndsWithAllDecided'
    <2>1. Complete(manifest', record')
      BY <1>1 DEF PersistAndSleep
    <2>2. manifest'.records = Requested
      BY <2>1 DEF SentIsWhole, Whole, Complete
    <2>3. QED
      BY <2>1, <2>2 DEF Complete, Decided
  <1>2. ASSUME MonitorStep, phase' = "finished"
        PROVE  PersistAndSleep
    BY <1>2 DEF MonitorStep, PollStep, CallFails, Poll, ReadHeight, ReadStatuses, EndGroup,
                WithoutStatus, ReadTransaction, ReadBlock, BlockRefused
  <1>3. CASE SenderStep \/ ChainStep
    BY <1>3, OthersSteps
  <1>4. QED
    BY <1>1, <1>2, <1>3 DEF MonitorNext, MonitorStep, vars

-----------------------------------------------------------------------------
(* The invariant, and what it implies.                                     *)

LEMMA MonitorStart == MonitorInit => IInv
  <1> SUFFICES ASSUME MonitorInit PROVE IInv
    OBVIOUS
  <1> USE DEF MonitorInit
  <1>1. Cardinality({}) <= GroupSize
    BY FS_EmptySet
  <1>2. MonitorTypeOK
    <2>1. Unseen.status = "unseen" /\ Unseen.landedSlot = NoSlot
      BY DEF Unseen, NoSlot
    <2>2. NoFile.records = {} /\ NoFile.sendingComplete = FALSE
      BY DEF NoFile
    <2>3. ChainTypes
      BY DEF ChainTypes
    <2>4. PollTypes
      BY <1>1 DEF PollTypes
    <2>5. \A s \in Requested : /\ record[s].status \in Status
                              /\ record[s].landedSlot \in Slot \cup {NoSlot}
      BY <2>1 DEF Status
    <2>6. /\ file.records \subseteq Requested /\ file.sendingComplete \in BOOLEAN
          /\ manifest.records \subseteq Requested /\ manifest.sendingComplete \in BOOLEAN
      BY <2>2
    <2>7. QED
      BY <2>3, <2>4, <2>5, <2>6 DEF MonitorTypeOK, ChainTypes, PollTypes, NoSlot
  <1>3. Shapes
    BY DEF Shapes, Report, File, Unseen, NoFile, Status, NoSlot
  <1>4. HeightIsPast /\ AbsentIsDead /\ NextIsConfirmed /\ PollIsPending
    BY DEF HeightIsPast, AbsentIsDead, NextIsConfirmed, PollIsPending
  <1>5. ExpiredIsDead /\ OutcomeOnlyWhenConfirmed
    BY DEF ExpiredIsDead, OutcomeOnlyWhenConfirmed, Unseen
  <1>6. SentIsWhole /\ EndsWithAllDecided
    BY DEF SentIsWhole, Whole, NoFile, EndsWithAllDecided
  <1>7. QED
    BY <1>2, <1>3, <1>4, <1>5, <1>6 DEF IInv

LEMMA MonitorInvariant == MonitorSpec => []IInv
  <1>1. IInv /\ [MonitorNext]_vars => IInv'
    BY TypesStay, ShapesStay, HeightStays, ExpiredStays, AboutStays, NextStays, OutcomesStay,
       PollStays, SentStays, EndStays DEF IInv
  <1>2. QED
    BY <1>1, MonitorStart, PTL DEF MonitorSpec

\* The variables keep their types: a group has at most GroupSize signatures, and
\* a decided record has the slot of a block.
THEOREM MonitorTypeCorrect == MonitorSpec => []MonitorTypeOK
  <1>1. IInv => MonitorTypeOK
    BY DEF IInv
  <1>2. QED
    BY <1>1, MonitorInvariant, PTL

\* What is reported as expired never lands: the height is read before the
\* statuses, and the chain takes no transaction whose blockhash has expired.
THEOREM ExpiredStaysOut == MonitorSpec => []ExpiredNeverLands
  <1>1. IInv => ExpiredNeverLands
    BY Places DEF IInv, ExpiredIsDead, Dead, ExpiredNeverLands
  <1>2. QED
    BY <1>1, MonitorInvariant, PTL

\* Success and revert are reported of confirmed transactions only: those that
\* getTransaction() has returned, however the status was come by.
THEOREM OutcomesAreConfirmed == MonitorSpec => []OutcomeOnlyWhenConfirmed
  <1>1. IInv => OutcomeOnlyWhenConfirmed
    BY DEF IInv
  <1>2. QED
    BY <1>1, MonitorInvariant, PTL

\* When the monitor ends, every requested transaction is decided.
THEOREM EndIsComplete == MonitorSpec => []EndsWithAllDecided
  <1>1. IInv => EndsWithAllDecided
    BY DEF IInv
  <1>2. QED
    BY <1>1, MonitorInvariant, PTL

\* No poll changes a record that is decided.
THEOREM DecisionsStay == MonitorSpec => DecidedIsFinal
  <1>1. ASSUME IInv, [MonitorNext]_vars
        PROVE  \A s \in Requested : Decided(record[s]) => record'[s] = record[s]
    <2> SUFFICES ASSUME NEW s \in Requested, Decided(record[s])
                 PROVE  record'[s] = record[s]
      OBVIOUS
    <2>1. CASE SenderStep \/ ChainStep
      BY <2>1, OthersSteps
    <2>2. CASE Poll
      BY <1>1, <2>2, AddedStatus DEF IInv, Decided
    <2>3. ASSUME NEW t \in group, OneRecord(t)
          PROVE  record'[s] = record[s]
      <3>1. t # s
        BY <1>1 DEF IInv, PollIsPending, Decided
      <3>2. QED
        BY <2>3, <3>1 DEF OneRecord
    <2>4. CASE MonitorStep
      BY <1>1, <2>2, <2>3, <2>4, RecordSteps DEF IInv
    <2>5. QED
      BY <1>1, <2>1, <2>4 DEF MonitorNext, MonitorStep, vars
  <1>2. QED
    BY <1>1, MonitorInvariant, PTL DEF MonitorSpec, DecidedIsFinal
=============================================================================
