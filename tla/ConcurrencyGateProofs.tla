------------------------ MODULE ConcurrencyGateProofs ------------------------
(***************************************************************************)
(* Proofs about ConcurrencyGate, for every finite set of callers and every *)
(* positive limit.                                                         *)
(***************************************************************************)
EXTENDS ConcurrencyGate, FiniteSetTheorems, SequenceTheorems, TLAPS

USE TasksAssumption, LimitAssumption

\* The callers that hold a permit are a finite set.
LEMMA HoldersFinite ==
  /\ IsFiniteSet(Holders)
  /\ Cardinality(Holders) \in Nat
  <1>1. Holders \in SUBSET Tasks
    BY DEF Holders
  <1>2. IsFiniteSet(Holders)
    BY <1>1, FS_Subset
  <1>3. QED
    BY <1>2, FS_CardinalityType

\* run() keeps the counter and the queue well typed: a release follows an
\* acquire, so the counter was positive.
LEMMA GateTypeStep ==
  ASSUME GateTypeOK, GateInv, [GateNext]_gate_vars
  PROVE  GateTypeOK'
  <1>1. ASSUME NEW t \in Tasks, Call(t)
        PROVE  GateTypeOK'
    <2>1. Append(waiters, t) \in Seq(Tasks)
      BY AppendProperties DEF GateTypeOK
    <2>2. /\ active' = active + 1 \/ active' = active
          /\ waiters' = waiters \/ waiters' = Append(waiters, t)
          /\ \/ at' = [at EXCEPT ![t] = "granted"]
             \/ at' = [at EXCEPT ![t] = "waiting"]
      BY <1>1, Zenon DEF Call
    <2>3. waiters' \in Seq(Tasks)
      BY <2>1, <2>2 DEF GateTypeOK
    <2>4. active' \in Nat /\ at' \in [Tasks -> Place]
      BY <2>2 DEF GateTypeOK, Place
    <2>5. QED
      BY <2>3, <2>4 DEF GateTypeOK
  <1>2. ASSUME NEW t \in Tasks, Resume(t)
        PROVE  GateTypeOK'
    BY <1>2 DEF Resume, GateTypeOK, Place
  <1>3. ASSUME NEW t \in Tasks, Leave(t)
        PROVE  GateTypeOK'
    <2>1. active > 0
      <3>1. t \in Holders
        BY <1>3 DEF Leave, Holders
      <3>2. Cardinality(Holders) # 0
        BY <3>1, HoldersFinite, FS_EmptySet
      <3>3. QED
        BY <3>2, HoldersFinite DEF GateInv
    <2>2. waiters # <<>> => Tail(waiters) \in Seq(Tasks)
      BY HeadTailProperties DEF GateTypeOK
    <2>3. QED
      BY <1>3, <2>1, <2>2 DEF Leave, release, GateTypeOK, Place
  <1>4. CASE UNCHANGED gate_vars
    BY <1>4 DEF gate_vars, GateTypeOK
  <1>5. QED
    BY <1>1, <1>2, <1>3, <1>4 DEF GateNext

\* A caller joins the queue only when all permits are taken, and only once.
LEMMA CallKeepsInv ==
  ASSUME GateTypeOK, GateInv, NEW t \in Tasks, Call(t)
  PROVE  GateInv'
  <1>1. at[t] = "outside" /\ t \notin Holders
    BY DEF Call, Holders
  <1>2. CASE /\ HasPermit
             /\ active' = active + 1
             /\ at' = [at EXCEPT ![t] = "granted"]
             /\ UNCHANGED waiters
    <2>1. Holders' = Holders \cup {t}
      BY <1>2 DEF Holders, GateTypeOK
    <2>2. Cardinality(Holders') = Cardinality(Holders) + 1
      BY <1>1, <2>1, HoldersFinite, FS_AddElement
    <2>3. waiters = <<>>
      BY <1>2, HoldersFinite DEF GateInv, HasPermit, GateTypeOK
    <2>4. Len(waiters') = 0
      BY <1>2, <2>3
    <2>5. QED
      BY <1>2, <2>2, <2>3, <2>4 DEF GateInv, HasPermit, GateTypeOK
  <1>3. CASE /\ ~HasPermit
             /\ waiters' = Append(waiters, t)
             /\ at' = [at EXCEPT ![t] = "waiting"]
             /\ UNCHANGED active
    <2>1. Holders' = Holders
      BY <1>1, <1>3 DEF Holders, GateTypeOK
    <2>2. active = Limit
      BY <1>3 DEF GateInv, HasPermit, GateTypeOK
    <2>3. /\ Len(waiters') = Len(waiters) + 1
          /\ \A i \in 1..Len(waiters) : waiters'[i] = waiters[i]
          /\ waiters'[Len(waiters) + 1] = t
      BY <1>3, AppendProperties DEF GateTypeOK
    <2>4. Len(waiters) \in Nat /\ \A i \in 1..Len(waiters) : waiters[i] \in Tasks
      BY LenProperties, ElementOfSeq DEF GateTypeOK
    <2>5. \A i \in 1..Len(waiters) : waiters[i] # t
      BY <1>1 DEF GateInv
    <2>6. \A i \in 1..Len(waiters') : at'[waiters'[i]] = "waiting"
      BY <1>3, <2>3, <2>4 DEF GateInv, GateTypeOK
    <2>7. \A i, j \in 1..Len(waiters') : waiters'[i] = waiters'[j] => i = j
      BY <2>3, <2>4, <2>5 DEF GateInv
    <2>8. QED
      BY <1>3, <2>1, <2>2, <2>6, <2>7 DEF GateInv
  <1>4. QED
    BY <1>2, <1>3 DEF Call

\* A release hands its permit to the first waiter in the same step.
LEMMA LeaveKeepsInv ==
  ASSUME GateTypeOK, GateInv, NEW t \in Tasks, Leave(t)
  PROVE  GateInv'
  <1>1. at[t] = "running" /\ t \in Holders
    BY DEF Leave, Holders
  <1>2. /\ IsFiniteSet(Holders \ {t})
        /\ Cardinality(Holders \ {t}) = Cardinality(Holders) - 1
    BY <1>1, HoldersFinite, FS_RemoveElement
  <1>3. CASE waiters = <<>>
    <2>1. /\ active' = active - 1
          /\ at' = [at EXCEPT ![t] = "outside"]
          /\ waiters' = waiters
      BY <1>3 DEF Leave, release
    <2>2. Holders' = Holders \ {t}
      BY <2>1 DEF Holders, GateTypeOK
    <2>3. Len(waiters') = 0
      BY <1>3, <2>1
    <2>4. QED
      BY <1>2, <1>3, <2>1, <2>2, <2>3 DEF GateInv, GateTypeOK
  <1>4. CASE waiters # <<>>
    <2> DEFINE w == Head(waiters)
    <2>1. /\ active' = (active - 1) + 1
          /\ waiters' = Tail(waiters)
          /\ at' = [at EXCEPT ![t] = "outside", ![w] = "granted"]
      BY <1>4 DEF Leave, release
    <2>2. /\ Len(waiters) \in Nat /\ Len(waiters) > 0
          /\ w = waiters[1] /\ w \in Tasks
      BY <1>4, LenProperties, HeadTailProperties, EmptySeq DEF GateTypeOK
    <2>3. /\ Len(waiters') = Len(waiters) - 1
          /\ \A i \in 1..Len(waiters') : waiters'[i] = waiters[i + 1]
      BY <1>4, <2>1, HeadTailProperties DEF GateTypeOK
    <2>4. at[w] = "waiting"
      BY <2>2 DEF GateInv
    <2> HIDE DEF w
    <2>5. Holders' = (Holders \ {t}) \cup {w}
      BY <1>1, <2>1, <2>2, <2>4 DEF Holders, GateTypeOK
    <2>6. w \notin Holders \ {t}
      BY <2>4 DEF Holders
    <2>7. Cardinality(Holders') = Cardinality(Holders)
      <3> DEFINE rest == Holders \ {t}
      <3>1. Cardinality(rest \cup {w}) = Cardinality(rest) + 1
        <4>1. IsFiniteSet(rest) /\ w \notin rest
          BY <1>2, <2>6
        <4> HIDE DEF rest
        <4>2. QED
          BY <4>1, FS_AddElement
      <3>2. Cardinality(rest) = Cardinality(Holders) - 1
        BY <1>2
      <3>3. Holders' = rest \cup {w}
        BY <2>5
      <3> HIDE DEF rest
      <3>4. QED
        BY <3>1, <3>2, <3>3, HoldersFinite
    <2>8. \A i \in 1..Len(waiters') :
            /\ waiters[i + 1] # w
            /\ waiters[i + 1] # t
            /\ at[waiters[i + 1]] = "waiting"
            /\ waiters[i + 1] \in Tasks
      <3>1. SUFFICES ASSUME NEW i \in 1..Len(waiters')
                     PROVE  /\ waiters[i + 1] # w
                            /\ waiters[i + 1] # t
                            /\ at[waiters[i + 1]] = "waiting"
                            /\ waiters[i + 1] \in Tasks
        OBVIOUS
      <3>2. i + 1 \in 1..Len(waiters) /\ 1 \in 1..Len(waiters) /\ i + 1 # 1
        BY <2>2, <2>3
      <3>3. waiters[i + 1] \in Tasks
        BY <3>2, ElementOfSeq DEF GateTypeOK
      <3>4. QED
        BY <1>1, <2>2, <3>2, <3>3 DEF GateInv
    <2>9. \A i \in 1..Len(waiters') : at'[waiters'[i]] = "waiting"
      BY <2>1, <2>3, <2>8 DEF GateTypeOK
    <2>10. \A i, j \in 1..Len(waiters') : waiters'[i] = waiters'[j] => i = j
      <3>1. \A i \in 1..Len(waiters') : i + 1 \in 1..Len(waiters)
        BY <2>2, <2>3
      <3>2. QED
        BY <2>2, <2>3, <3>1 DEF GateInv
    <2>11. active' = active
      BY <2>1 DEF GateTypeOK
    <2>12. QED
      BY <1>4, <2>7, <2>9, <2>10, <2>11 DEF GateInv
  <1>5. QED
    BY <1>3, <1>4

LEMMA GateInvStep ==
  ASSUME GateTypeOK, GateInv, [GateNext]_gate_vars
  PROVE  GateInv'
  <1>1. ASSUME NEW t \in Tasks, Resume(t)
        PROVE  GateInv'
    <2>1. Holders' = Holders
      BY <1>1 DEF Resume, Holders, GateTypeOK
    <2>2. \A i \in 1..Len(waiters) : at'[waiters[i]] = "waiting"
      <3>1. \A i \in 1..Len(waiters) : waiters[i] # t
        BY <1>1 DEF Resume, GateInv
      <3>2. QED
        BY <1>1, <3>1, ElementOfSeq DEF Resume, GateInv, GateTypeOK
    <2>3. QED
      BY <1>1, <2>1, <2>2 DEF Resume, GateInv
  <1>2. CASE UNCHANGED gate_vars
    BY <1>2 DEF gate_vars, GateInv, Holders
  <1>3. QED
    BY <1>1, <1>2, CallKeepsInv, LeaveKeepsInv DEF GateNext

LEMMA GateInvariants == GateSpec => [](GateTypeOK /\ GateInv)
  <1>1. GateInit => GateTypeOK /\ GateInv
    <2>1. ASSUME GateInit
          PROVE  GateTypeOK
      BY <2>1, EmptySeq DEF GateInit, GateTypeOK, Place
    <2>2. ASSUME GateInit
          PROVE  GateInv
      <3>1. Holders = {}
        BY <2>2 DEF GateInit, Holders
      <3>2. waiters = <<>> /\ Len(waiters) = 0 /\ active = 0
        BY <2>2 DEF GateInit
      <3>3. QED
        BY <3>1, <3>2, FS_EmptySet DEF GateInv
    <2>3. QED
      BY <2>1, <2>2
  <1>2. QED
    BY <1>1, GateTypeStep, GateInvStep, PTL DEF GateSpec

\* The counter never goes negative and the queue holds callers.
THEOREM GateTypeCorrect == GateSpec => []GateTypeOK
  BY GateInvariants, PTL

\* run() never executes more than Limit tasks at a time.
THEOREM GateLimits == GateSpec => []AtMostLimit
  <1>1. ASSUME GateTypeOK, GateInv
        PROVE  AtMostLimit
    <2> DEFINE running == {t \in Tasks : at[t] = "running"}
    <2>1. running \in SUBSET Holders
      BY DEF Holders
    <2>2. Cardinality(running) <= Cardinality(Holders) /\ Cardinality(running) \in Nat
      BY <2>1, HoldersFinite, FS_Subset, FS_CardinalityType
    <2>3. QED
      BY <1>1, <2>2, HoldersFinite DEF AtMostLimit, GateInv
  <1>2. QED
    BY <1>1, GateInvariants, PTL

\* No caller waits while a permit is free.
THEOREM GateWastesNoPermit == GateSpec => []PermitsNeverIdle
  <1>1. ASSUME GateInv
        PROVE  PermitsNeverIdle
    BY <1>1 DEF GateInv, PermitsNeverIdle
  <1>2. QED
    BY <1>1, GateInvariants, PTL
=============================================================================
