------------------------- MODULE ManifestWriterProofs -------------------------
(***************************************************************************)
(* Proofs about ManifestWriter, for any number of drains, flushers and     *)
(* versions.                                                               *)
(***************************************************************************)
EXTENDS ManifestWriter, TLAPS

USE MaxVersionAssumption, DrainsAssumption

\* What request() leaves of the writer's own variables.
LEMMA RequestTyped ==
  ASSUME WriterTypeOK, version' \in Version, request
  PROVE  /\ dirty' \in BOOLEAN
         /\ writing' \in Drains \cup {NoDrain}
         /\ phase' \in [Drains -> Phase]
         /\ snapshot' \in [Drains -> Version]
  BY DEF WriterTypeOK, request, Phase

\* Nobody is in flush() and no drain() runs, initially and after the end of a
\* process.
LEMMA NothingRuns ==
  /\ [f \in Flushers |-> 0] \in [Flushers -> 0..MaxVersion]
  /\ [d \in Drains |-> "idle"] \in [Drains -> Phase]
  /\ 1 \in Version
  <1>1. 0 \in 0..MaxVersion /\ 1 \in 1..MaxVersion
    OBVIOUS
  <1>2. "idle" \in Phase
    BY DEF Phase
  <1>3. QED
    BY <1>1, <1>2 DEF Version

LEMMA WriterTypeStep ==
  ASSUME WriterTypeOK, [WriterNext]_writer_vars
  PROVE  WriterTypeOK'
  <1>1. CASE Change
    BY <1>1 DEF Change, WriterTypeOK, Version
  <1>2. CASE ChangeAndRequest
    <2>1. version' \in Version
      BY <1>2 DEF ChangeAndRequest, WriterTypeOK, Version
    <2>2. QED
      BY <1>2, <2>1, RequestTyped DEF ChangeAndRequest, WriterTypeOK
  <1>3. CASE Request
    BY <1>3, RequestTyped DEF Request, WriterTypeOK
  <1>4. ASSUME NEW f \in Flushers, Flush(f)
        PROVE  WriterTypeOK'
    <2>1. asked' \in [Flushers -> 0..MaxVersion]
      BY <1>4 DEF Flush, WriterTypeOK, Version
    <2>2. QED
      BY <1>4, <2>1, RequestTyped DEF Flush, WriterTypeOK
  <1>5. ASSUME NEW f \in Flushers, FlushReturns(f)
        PROVE  WriterTypeOK'
    BY <1>5 DEF FlushReturns, WriterTypeOK
  <1>6. ASSUME NEW d \in Drains, DrainStep(d)
        PROVE  WriterTypeOK'
    <2>1. CASE OpenTmp(d) \/ WriteTmp(d) \/ Rename(d)
      BY <1>6, <2>1 DEF OpenTmp, WriteTmp, Rename, WriterTypeOK, Phase, Content
    <2>2. CASE Continue(d)
      BY <1>6, <2>2 DEF Continue, WriterTypeOK, Phase
    <2>3. QED
      BY <1>6, <2>1, <2>2 DEF DrainStep
  <1>7. CASE Stop
    <2>1. /\ asked' \in [Flushers -> 0..MaxVersion]
          /\ phase' \in [Drains -> Phase]
      BY <1>7, NothingRuns DEF Stop
    <2>2. QED
      BY <1>7, <2>1 DEF Stop, WriterTypeOK
  <1>8. CASE Restart
    <2>1. version' \in Version
      BY <1>8 DEF Restart, WriterTypeOK, Version, Content, Absent
    <2>2. QED
      BY <1>8, <2>1 DEF Restart, WriterTypeOK
  <1>9. CASE UNCHANGED writer_vars
    BY <1>9 DEF writer_vars, WriterTypeOK
  <1>10. QED
    BY <1>1, <1>2, <1>3, <1>4, <1>5, <1>6, <1>7, <1>8, <1>9
       DEF WriterNext, IoFails, Crash

-----------------------------------------------------------------------------
(* One drain() runs at a time.                                             *)

\* The numbers the invariant compares.
LEMMA WriterNumbers ==
  ASSUME WriterTypeOK
  PROVE  /\ version \in Nat /\ version >= 1 /\ version <= MaxVersion
         /\ file \in Int /\ file >= -1
         /\ \A d \in Drains : snapshot[d] \in Nat /\ snapshot[d] >= 1
         /\ \A f \in Flushers : asked[f] \in Nat
  BY DEF WriterTypeOK, Version, Content, Absent, Torn

\* The same of the next state.
LEMMA NextNumbers ==
  ASSUME WriterTypeOK'
  PROVE  /\ version' \in Nat /\ version' >= 1 /\ version' <= MaxVersion
         /\ file' \in Int /\ file' >= -1
         /\ \A d \in Drains : snapshot'[d] \in Nat /\ snapshot'[d] >= 1
         /\ \A f \in Flushers : asked'[f] \in Nat
  BY DEF WriterTypeOK, Version, Content, Absent, Torn

\* request() keeps the invariant when the records only grew.
LEMMA RequestKeepsInv ==
  ASSUME WriterTypeOK, WriterTypeOK', WriterInv, request, alive,
         version' >= version,
         UNCHANGED <<alive, tmp, file>>,
         \A f \in Flushers : asked'[f] = asked[f] \/ asked'[f] = version'
  PROVE  WriterInv'
  <1>1. CASE writing # NoDrain
    <2>1. dirty' = TRUE /\ UNCHANGED <<writing, phase, snapshot>>
      BY <1>1 DEF request
    <2>2. \A d \in Drains : snapshot[d] <= version'
      BY WriterNumbers, NextNumbers DEF WriterInv
    <2>3. file <= version'
      BY WriterNumbers, NextNumbers DEF WriterInv
    <2>4. \A f \in Flushers : asked'[f] <= version'
      BY WriterNumbers, NextNumbers DEF WriterInv
    <2>5. QED
      BY <1>1, <2>1, <2>2, <2>3, <2>4 DEF WriterInv
  <1>2. CASE writing = NoDrain
    <2>1. PICK d \in Drains :
            /\ phase[d] = "idle" /\ writing' = d /\ dirty' = FALSE
            /\ phase' = [phase EXCEPT ![d] = "open"]
            /\ snapshot' = [snapshot EXCEPT ![d] = version']
      BY <1>2 DEF request
    <2>2. \A e \in Drains : phase[e] = "idle"
      BY <1>2 DEF WriterInv
    <2>3. \A e \in Drains : phase'[e] = IF e = d THEN "open" ELSE "idle"
      BY <2>1, <2>2 DEF WriterTypeOK
    <2>4. snapshot'[d] = version'
      BY <2>1 DEF WriterTypeOK
    <2>5. \A e \in Drains : snapshot'[e] <= version'
      BY <2>1, WriterNumbers, NextNumbers DEF WriterInv, WriterTypeOK
    <2>6. file <= version'
      BY WriterNumbers, NextNumbers DEF WriterInv
    <2>7. \A f \in Flushers : asked'[f] <= version'
      BY WriterNumbers, NextNumbers DEF WriterInv
    <2>8. QED
      BY <2>1, <2>3, <2>4, <2>5, <2>6, <2>7 DEF WriterInv
  <1>3. QED
    BY <1>1, <1>2

\* A step of drain() keeps the invariant: what it renames is what it rendered,
\* and it clears this.writing only when nothing is left to write.
LEMMA DrainKeepsInv ==
  ASSUME WriterTypeOK, WriterInv, NEW d \in Drains, DrainStep(d)
  PROVE  WriterInv'
  <1>1. phase[d] # "idle"
    BY DEF DrainStep, OpenTmp, WriteTmp, Rename, Continue
  <1>2. writing = d /\ writing # NoDrain /\ alive
    BY <1>1 DEF WriterInv
  <1>3. \A e \in Drains : e # d => phase[e] = "idle"
    BY <1>2 DEF WriterInv
  <1>4. CASE OpenTmp(d)
    BY <1>2, <1>3, <1>4 DEF OpenTmp, WriterInv, WriterTypeOK
  <1>5. CASE WriteTmp(d)
    BY <1>2, <1>3, <1>5 DEF WriteTmp, WriterInv, WriterTypeOK
  <1>6. CASE Rename(d)
    <2>1. /\ file' = snapshot[d]
          /\ phase' = [phase EXCEPT ![d] = "renamed"]
          /\ UNCHANGED <<version, alive, dirty, writing, snapshot, asked>>
      BY <1>6 DEF Rename, WriterInv
    <2>2. file' # Torn /\ file' <= version /\ file <= file'
      BY <1>1, <2>1, WriterNumbers DEF WriterInv, Torn
    <2>3. \A e \in Drains : phase'[e] = IF e = d THEN "renamed" ELSE "idle"
      BY <1>3, <2>1 DEF WriterTypeOK
    <2>4. \A f \in Flushers : file' < asked[f] => file < asked[f]
      BY <2>1, <2>2, WriterNumbers
    <2>5. \A e \in Drains : phase'[e] # "idle" => file' <= snapshot[e]
      BY <2>1, <2>3, WriterNumbers
    <2>6. QED
      BY <1>2, <2>1, <2>2, <2>3, <2>4, <2>5 DEF WriterInv
  <1>7. CASE Continue(d)
    <2>1. file = snapshot[d] /\ UNCHANGED <<version, alive, tmp, file, asked>>
      BY <1>7 DEF Continue, WriterInv
    <2>2. CASE /\ dirty
               /\ dirty' = FALSE
               /\ phase' = [phase EXCEPT ![d] = "open"]
               /\ snapshot' = [snapshot EXCEPT ![d] = version]
               /\ UNCHANGED writing
      <3>1. \A e \in Drains : phase'[e] = IF e = d THEN "open" ELSE "idle"
        BY <1>3, <2>2 DEF WriterTypeOK
      <3>2. snapshot'[d] = version
        BY <2>2 DEF WriterTypeOK
      <3>3. \A e \in Drains : snapshot'[e] <= version
        BY <2>2, WriterNumbers DEF WriterInv, WriterTypeOK
      <3>4. QED
        BY <1>2, <2>1, <2>2, <3>1, <3>2, <3>3 DEF WriterInv
    <2>3. CASE /\ ~dirty
               /\ writing' = NoDrain
               /\ phase' = [phase EXCEPT ![d] = "idle"]
               /\ UNCHANGED <<dirty, snapshot>>
      <3>1. \A e \in Drains : phase'[e] = "idle"
        BY <1>3, <2>3 DEF WriterTypeOK
      <3>2. \A f \in Flushers : ~(file < asked[f])
        BY <1>2, <2>1, <2>3, WriterNumbers DEF WriterInv
      <3>3. QED
        BY <1>2, <2>1, <2>3, <3>1, <3>2 DEF WriterInv
    <2>4. QED
      BY <1>7, <2>2, <2>3 DEF Continue
  <1>8. QED
    BY <1>4, <1>5, <1>6, <1>7 DEF DrainStep

\* A process that ends leaves nothing running, and the next one starts from
\* the manifest.
LEMMA StopAndRestartKeepInv ==
  ASSUME WriterTypeOK, WriterTypeOK', WriterInv, Stop \/ Restart
  PROVE  WriterInv'
  <1>1. CASE Stop
    <2>1. \A f \in Flushers : asked'[f] = 0
      BY <1>1 DEF Stop
    <2>2. \A e \in Drains : phase'[e] = "idle"
      BY <1>1 DEF Stop
    <2>3. \A f \in Flushers : asked'[f] <= version' /\ ~(file < asked'[f])
      BY <1>1, <2>1, WriterNumbers DEF Stop, WriterInv, Torn
    <2>4. QED
      BY <1>1, <2>1, <2>2, <2>3 DEF Stop, WriterInv
  <1>2. CASE Restart
    <2>1. \A e \in Drains : phase[e] = "idle" /\ snapshot'[e] = version'
      BY <1>2 DEF Restart, WriterInv
    <2>2. file <= version' /\ 0 <= file
      BY <1>2, WriterNumbers DEF Restart, WriterInv, Absent, Torn
    <2>3. \A f \in Flushers : asked[f] = 0
      BY <1>2 DEF Restart, WriterInv
    <2>4. \A f \in Flushers : asked[f] <= version' /\ ~(file < asked[f])
      <3>1. file \in Int /\ version' \in Nat
        BY WriterNumbers, NextNumbers
      <3>2. 0 <= version' /\ ~(file < 0)
        BY <2>2, <3>1
      <3>3. QED
        BY <2>3, <3>2
    <2>5. version' <= version'
      BY NextNumbers
    <2>6. QED
      BY <1>2, <2>1, <2>2, <2>4, <2>5 DEF Restart, WriterInv
  <1>3. QED
    BY <1>1, <1>2

LEMMA WriterInvStep ==
  ASSUME WriterTypeOK, WriterTypeOK', WriterInv, [WriterNext]_writer_vars
  PROVE  WriterInv'
  <1>1. CASE Change
    <2>1. version' >= version
      BY <1>1, WriterNumbers DEF Change
    <2>2. /\ \A d \in Drains : snapshot[d] <= version'
          /\ \A f \in Flushers : asked[f] <= version'
          /\ file <= version'
      BY <2>1, WriterNumbers, NextNumbers DEF WriterInv
    <2>3. QED
      BY <1>1, <2>2 DEF Change, WriterInv
  <1>2. CASE ChangeAndRequest
    <2>1. version' >= version
      BY <1>2, WriterNumbers DEF ChangeAndRequest
    <2>2. QED
      BY <1>2, <2>1, RequestKeepsInv DEF ChangeAndRequest
  <1>3. CASE Request
    <2>1. version' >= version
      BY <1>3, WriterNumbers DEF Request
    <2>2. QED
      BY <1>3, <2>1, RequestKeepsInv DEF Request
  <1>4. ASSUME NEW f \in Flushers, Flush(f)
        PROVE  WriterInv'
    <2>1. version' >= version
      BY <1>4, WriterNumbers DEF Flush
    <2>2. \A g \in Flushers : asked'[g] = asked[g] \/ asked'[g] = version'
      BY <1>4 DEF Flush, WriterTypeOK
    <2>3. QED
      BY <1>4, <2>1, <2>2, RequestKeepsInv DEF Flush
  <1>5. ASSUME NEW f \in Flushers, FlushReturns(f)
        PROVE  WriterInv'
    <2>1. \A g \in Flushers : asked'[g] = IF g = f THEN 0 ELSE asked[g]
      BY <1>5 DEF FlushReturns, WriterTypeOK
    <2>2. 0 <= version /\ ~(file < 0)
      BY WriterNumbers DEF WriterInv, Torn
    <2>3. QED
      BY <1>5, <2>1, <2>2 DEF FlushReturns, WriterInv
  <1>6. CASE UNCHANGED writer_vars
    BY <1>6 DEF writer_vars, WriterInv
  <1>7. QED
    BY <1>1, <1>2, <1>3, <1>4, <1>5, <1>6, DrainKeepsInv, StopAndRestartKeepInv
       DEF WriterNext, IoFails, Crash

LEMMA WriterInvariants == WriterSpec => [](WriterTypeOK /\ WriterInv)
  <1>1. WriterInit => WriterTypeOK
    <2>1. ASSUME WriterInit
          PROVE  /\ asked \in [Flushers -> 0..MaxVersion]
                 /\ phase \in [Drains -> Phase]
                 /\ snapshot \in [Drains -> Version]
                 /\ version \in Version
      BY <2>1, NothingRuns DEF WriterInit
    <2>2. QED
      BY <2>1 DEF WriterInit, WriterTypeOK, Content
  <1>2. WriterInit => WriterInv
    BY DEF WriterInit, WriterInv, Absent, Torn
  <1>3. QED
    BY <1>1, <1>2, WriterTypeStep, WriterInvStep, PTL DEF WriterSpec

\* The writer's variables and the two files keep their types.
THEOREM WriterTypeCorrect == WriterSpec => []WriterTypeOK
  BY WriterInvariants, PTL

\* Whenever the process ends, the manifest it leaves is complete.
THEOREM ManifestIsWhole == WriterSpec => []ManifestNeverTorn
  <1>1. WriterInv => ManifestNeverTorn
    BY DEF WriterInv, ManifestNeverTorn
  <1>2. QED
    BY <1>1, WriterInvariants, PTL

\* No drain() and no later run replaces the manifest by an older one.
THEOREM ManifestNeverGoesBack == WriterSpec => ManifestNeverOlder
  <1>1. ASSUME WriterTypeOK, WriterInv, [WriterNext]_writer_vars
        PROVE  [file # Absent => file' >= file]_writer_vars
    <2>1. file' = file \/ \E d \in Drains : Rename(d)
      BY <1>1, Zenon DEF WriterNext, writer_vars, Change, ChangeAndRequest, Request, Flush,
         FlushReturns, DrainStep, OpenTmp, WriteTmp, Continue, IoFails, Crash, Stop, Restart
    <2>2. ASSUME NEW d \in Drains, Rename(d)
          PROVE  file' >= file
      <3>1. file' = snapshot[d] /\ file <= snapshot[d]
        BY <1>1, <2>2 DEF Rename, WriterInv
      <3>2. QED
        BY <1>1, <3>1, WriterNumbers
    <2>3. file >= file
      BY <1>1, WriterNumbers
    <2>4. QED
      BY <2>1, <2>2, <2>3
  <1>2. QED
    BY <1>1, WriterInvariants, PTL DEF WriterSpec, ManifestNeverOlder

\* flush() returns only when the manifest holds what the records were.
THEOREM FlushKeepsItsPromise == WriterSpec => FlushPersists
  <1>1. ASSUME WriterTypeOK, WriterInv
        PROVE  [\A f \in Flushers : FlushReturns(f) => file >= asked[f]]_writer_vars
    <2>1. ASSUME NEW f \in Flushers, FlushReturns(f)
          PROVE  file >= asked[f]
      <3>1. writing = NoDrain
        BY <2>1 DEF FlushReturns
      <3>2. ~(file < asked[f])
        BY <1>1, <3>1 DEF WriterInv
      <3>3. QED
        BY <1>1, <3>2, WriterNumbers
    <2>2. QED
      BY <2>1
  <1>2. QED
    BY <1>1, WriterInvariants, PTL DEF WriterSpec, FlushPersists

-----------------------------------------------------------------------------
(* The writer implements ManifestStore.                                    *)

\* The items of the file and of the memory, and what each flush() waits for.
InFile  == IF file = Torn THEN {Torn} ELSE 2..file
InMind  == IF alive THEN 2..version ELSE {}
Awaited == [f \in Flushers |-> 2..asked[f]]

\* A change of the records is a step of the store, whether or not the writer is
\* told of it.
LEMMA ChangeRecords ==
  ASSUME WriterTypeOK, WriterTypeOK', alive, version' >= version, UNCHANGED <<alive, file, asked>>
  PROVE  Store!Record
  <1>1. 2..version \subseteq 2..version'
    BY WriterNumbers, NextNumbers
  <1>2. QED
    BY <1>1 DEF Store!Record

\* Only a rename changes the file: to what was rendered, which is not older and
\* was in memory.
LEMMA DrainWrites ==
  ASSUME WriterTypeOK, WriterInv, NEW d \in Drains, DrainStep(d)
  PROVE  Store!Write \/ UNCHANGED Store!vars
  <1>1. UNCHANGED <<version, alive, asked>>
    BY DEF DrainStep, OpenTmp, WriteTmp, Rename, Continue
  <1>2. CASE file' = file
    BY <1>1, <1>2 DEF Store!vars
  <1>3. CASE Rename(d)
    <2>1. alive /\ file' = snapshot[d] /\ file <= snapshot[d] /\ snapshot[d] <= version
      BY <1>3 DEF Rename, WriterInv
    <2>2. file # Torn /\ file' # Torn
      BY <2>1, WriterNumbers DEF WriterInv, Torn
    <2>3. 2..file \subseteq 2..file' /\ 2..file' \subseteq 2..version
      BY <2>1, WriterNumbers
    <2>4. QED
      BY <1>1, <2>1, <2>2, <2>3 DEF Store!Write
  <1>4. QED
    BY <1>2, <1>3 DEF DrainStep, OpenTmp, WriteTmp, Continue

\* The last step of flush() finds what it waited for in the file.
LEMMA FlushSteps ==
  ASSUME WriterTypeOK, WriterInv, NEW f \in Flushers, Flush(f) \/ FlushReturns(f)
  PROVE  Store!Flush(f) \/ Store!FlushReturns(f)
  <1>1. CASE Flush(f)
    <2>1. asked' = [asked EXCEPT ![f] = version] /\ UNCHANGED <<version, file, alive>> /\ alive
      BY <1>1 DEF Flush
    <2>2. Awaited' = [Awaited EXCEPT ![f] = 2..version]
      BY <2>1 DEF Awaited, WriterTypeOK
    <2>3. QED
      BY <2>1, <2>2 DEF Awaited, Store!Flush
  <1>2. CASE FlushReturns(f)
    <2>1. /\ asked' = [asked EXCEPT ![f] = 0] /\ UNCHANGED <<version, file, alive>> /\ alive
          /\ writing = NoDrain
      BY <1>2 DEF FlushReturns
    <2>2. Awaited' = [Awaited EXCEPT ![f] = 2..0]
      BY <2>1 DEF Awaited, WriterTypeOK
    <2>3. 2..0 = {}
      OBVIOUS
    <2>4. file # Torn /\ ~(file < asked[f])
      BY <2>1 DEF WriterInv
    <2>5. 2..asked[f] \subseteq 2..file
      BY <2>4, WriterNumbers
    <2>6. QED
      BY <2>1, <2>2, <2>3, <2>4, <2>5 DEF Awaited, Store!FlushReturns
  <1>3. QED
    BY <1>1, <1>2

\* What a process leaves behind is the file, and the next one starts with it.
LEMMA StopAndRestartAreTheStores ==
  ASSUME WriterTypeOK, WriterInv, (alive /\ Stop) \/ Restart
  PROVE  Store!Stop \/ Store!Restart
  <1>1. 2..0 = {} /\ 2..1 = {}
    OBVIOUS
  <1>2. CASE alive /\ Stop
    <2>1. asked' = [f \in Flushers |-> 0] /\ alive' = FALSE /\ UNCHANGED file
      BY <1>2 DEF Stop
    <2>2. Awaited' = [f \in Flushers |-> {}]
      BY <1>1, <2>1 DEF Awaited
    <2>3. QED
      BY <1>2, <2>1, <2>2 DEF Awaited, Store!Stop
  <1>3. CASE Restart
    <2>1. ~alive /\ alive' = TRUE /\ UNCHANGED <<file, asked>> /\ file # Torn
      BY <1>3 DEF Restart
    <2>2. 2..version' = 2..file
      BY <1>1, <1>3 DEF Restart, Absent
    <2>3. \A f \in Flushers : asked'[f] = 0
      BY <2>1 DEF WriterInv
    <2>4. Awaited' = [f \in Flushers |-> {}]
      BY <1>1, <2>3 DEF Awaited
    <2>5. Awaited' \in [Flushers -> {{}, 2..file}]
      BY <2>4
    <2>6. QED
      BY <2>1, <2>2, <2>5 DEF Awaited, Store!Restart
  <1>4. QED
    BY <1>2, <1>3

LEMMA WriterStepsAreTheStores ==
  ASSUME WriterTypeOK, WriterTypeOK', WriterInv, [WriterNext]_writer_vars
  PROVE  [Store!Next]_(Store!vars)
  <1>1. CASE Change \/ ChangeAndRequest
    <2>1. alive /\ version' >= version /\ UNCHANGED <<alive, file, asked>>
      BY <1>1, WriterNumbers DEF Change, ChangeAndRequest
    <2>2. QED
      BY <2>1, ChangeRecords DEF Store!Next
  <1>2. CASE Request \/ UNCHANGED writer_vars
    BY <1>2 DEF Request, writer_vars, Store!vars
  <1>3. ASSUME NEW f \in Flushers, Flush(f) \/ FlushReturns(f)
        PROVE  Store!Next
    BY <1>3, FlushSteps DEF Store!Next
  <1>4. ASSUME NEW d \in Drains, DrainStep(d)
        PROVE  [Store!Next]_(Store!vars)
    BY <1>4, DrainWrites DEF Store!Next
  <1>5. ASSUME Crash \/ Restart \/ \E d \in Drains : IoFails(d)
        PROVE  Store!Next
    <2>1. (alive /\ Stop) \/ Restart
      BY <1>5 DEF Crash, IoFails, WriterInv
    <2>2. QED
      BY <2>1, StopAndRestartAreTheStores DEF Store!Next
  <1>6. QED
    BY <1>1, <1>2, <1>3, <1>4, <1>5 DEF WriterNext

\* The writer is an implementation of the store: every step of its drains, of its
\* callers and of the process is one of the store, or changes nothing there.
THEOREM WriterImplementsStore == WriterSpec => ImplementsStore
  <1>1. WriterInit => Store!Init
    <2>1. 2..0 = {} /\ 2..1 = {} /\ Absent # Torn
      BY DEF Absent, Torn
    <2>2. ASSUME WriterInit
          PROVE  /\ InFile = {} /\ InMind = {} /\ alive = TRUE
                 /\ Awaited = [f \in Flushers |-> {}]
      BY <2>1, <2>2 DEF WriterInit, InFile, InMind, Awaited, Absent
    <2>3. QED
      BY <2>2 DEF InFile, InMind, Awaited, Store!Init
  <1>2. QED
    BY <1>1, WriterInvariants, WriterStepsAreTheStores, PTL
       DEF WriterSpec, ImplementsStore, Store!Spec
=============================================================================
