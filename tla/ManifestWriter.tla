---------------------------- MODULE ManifestWriter ----------------------------
(***************************************************************************)
(* AsyncManifestWriter of sender-pipeline.ts and the process around it.    *)
(*                                                                         *)
(* What render() would produce now is the number "version": every change   *)
(* of the sender's records makes a new one.  The file system holds the     *)
(* manifest and its temporary file; a content is the version rendered into *)
(* it, Absent, or Torn while a write is under way or was cut off.          *)
(*                                                                         *)
(* drain() is written so that one call runs at a time.  The model gives a  *)
(* running call an identity and lets several run, so that this is a        *)
(* consequence of request() and of the finally block and not an            *)
(* assumption.                                                             *)
(***************************************************************************)
EXTENDS Integers

CONSTANTS
  Drains,     \* identities of running calls of drain()
  Flushers,   \* callers of flush()
  MaxVersion  \* bound: changes of the records

ASSUME MaxVersionAssumption == MaxVersion \in Nat \ {0}
\* Nobody: "this.writing" is null.
NoDrain == "null"
ASSUME DrainsAssumption == NoDrain \notin Drains

VARIABLES
  version,   \* what the sender's records are now
  alive,     \* the process runs
  dirty,     \* this.dirty
  writing,   \* this.writing, as the call of drain() that settles the promise
  phase,     \* where each call of drain() is
  snapshot,  \* what its last render() returned
  tmp,       \* content of `${path}.tmp`
  file,      \* content of path
  asked      \* asked[f]: the version when f called flush(), 0 when it is not in flush()

writer_vars == <<version, alive, dirty, writing, phase, snapshot, tmp, file, asked>>

Absent  == 0
Torn    == -1
Version == 1..MaxVersion
Content == Version \cup {Absent, Torn}

\* idle       the call is not running
\* open       writeFile was called and has not touched the file
\* write      the file is truncated and partly written
\* rename     the file is complete, rename was called
\* renamed    the file is renamed, drain() has not resumed
Phase == {"idle", "open", "write", "rename", "renamed"}

WriterTypeOK ==
  /\ version \in Version
  /\ alive \in BOOLEAN
  /\ dirty \in BOOLEAN
  /\ writing \in Drains \cup {NoDrain}
  /\ phase \in [Drains -> Phase]
  /\ snapshot \in [Drains -> Version]
  /\ tmp \in Content
  /\ file \in Content
  /\ asked \in [Flushers -> 0..MaxVersion]

WriterInit ==
  /\ version = 1
  /\ alive = TRUE
  /\ dirty = FALSE
  /\ writing = NoDrain
  /\ phase = [d \in Drains |-> "idle"]
  /\ snapshot = [d \in Drains |-> 1]
  /\ tmp = Absent
  /\ file = Absent
  /\ asked = [f \in Flushers |-> 0]

-----------------------------------------------------------------------------
(* Plausible mistakes, for the properties below.                           *)

\* request() starts a drain() whether or not one runs.
AlwaysDrain ==
  \E d \in Drains :
    /\ phase[d] = "idle"
    /\ writing' = d
    /\ dirty' = FALSE
    /\ phase' = [phase EXCEPT ![d] = "open"]
    /\ snapshot' = [snapshot EXCEPT ![d] = version']

\* request() during a drain() is taken to be covered by it.
ForgetWhileWriting ==
  IF writing # NoDrain
  THEN UNCHANGED <<dirty, writing, phase, snapshot>>
  ELSE \E d \in Drains :
         /\ phase[d] = "idle"
         /\ writing' = d
         /\ dirty' = FALSE
         /\ phase' = [phase EXCEPT ![d] = "open"]
         /\ snapshot' = [snapshot EXCEPT ![d] = version']

\* The loop writes again what it rendered before.
RenderOnce(d) ==
  /\ phase[d] = "renamed"
  /\ IF dirty
       THEN /\ dirty' = FALSE
            /\ phase' = [phase EXCEPT ![d] = "open"]
            /\ UNCHANGED <<writing, snapshot>>
       ELSE /\ writing' = NoDrain
            /\ phase' = [phase EXCEPT ![d] = "idle"]
            /\ UNCHANGED <<dirty, snapshot>>
  /\ UNCHANGED <<version, alive, tmp, file, asked>>

\* The next run does not look whether there is a manifest, ...
RestartUnchecked ==
  /\ ~alive
  /\ file # Torn
  /\ alive' = TRUE
  /\ version' = file
  /\ snapshot' = [d \in Drains |-> version']
  /\ UNCHANGED <<dirty, writing, phase, tmp, file, asked>>

\* ... or starts from nothing.
RestartFresh ==
  /\ ~alive
  /\ alive' = TRUE
  /\ version' = 1
  /\ snapshot' = [d \in Drains |-> 1]
  /\ UNCHANGED <<dirty, writing, phase, tmp, file, asked>>

-----------------------------------------------------------------------------
(* The methods.                                                            *)

\* request(), called in a step that leaves the records at version'.  The call
\* of drain() runs at once up to its first await, so it renders them.
request ==
  IF writing # NoDrain
  THEN /\ dirty' = TRUE
       /\ UNCHANGED <<writing, phase, snapshot>>
  ELSE \E d \in Drains :
         /\ phase[d] = "idle"
         /\ writing' = d
         /\ dirty' = FALSE
         /\ phase' = [phase EXCEPT ![d] = "open"]
         /\ snapshot' = [snapshot EXCEPT ![d] = version']

\* The sender changes its records and tells the writer, in one step, ...
ChangeAndRequest ==
  /\ alive
  /\ version < MaxVersion
  /\ version' = version + 1
  /\ request
  /\ UNCHANGED <<alive, tmp, file, asked>>

\* ... or changes them without telling it yet (sendErrors += 1).
Change ==
  /\ alive
  /\ version < MaxVersion
  /\ version' = version + 1
  /\ UNCHANGED <<alive, dirty, writing, phase, snapshot, tmp, file, asked>>

Request ==
  /\ alive
  /\ UNCHANGED version
  /\ request
  /\ UNCHANGED <<alive, tmp, file, asked>>

\* flush() up to its first await.
Flush(f) ==
  /\ alive
  /\ asked[f] = 0
  /\ UNCHANGED version
  /\ request
  /\ asked' = [asked EXCEPT ![f] = version]
  /\ UNCHANGED <<alive, tmp, file>>

\* flush() resumes and finds this.writing null; if it finds another promise it
\* awaits that one, which changes nothing.
FlushReturns(f) ==
  /\ alive
  /\ asked[f] # 0
  /\ writing = NoDrain
  /\ asked' = [asked EXCEPT ![f] = 0]
  /\ UNCHANGED <<version, alive, dirty, writing, phase, snapshot, tmp, file>>

-----------------------------------------------------------------------------
(* A call of drain(), and the file system it waits for.                    *)

OpenTmp(d) ==
  /\ phase[d] = "open"
  /\ phase' = [phase EXCEPT ![d] = "write"]
  /\ tmp' = Torn
  /\ UNCHANGED <<version, alive, dirty, writing, snapshot, file, asked>>

WriteTmp(d) ==
  /\ phase[d] = "write"
  /\ phase' = [phase EXCEPT ![d] = "rename"]
  /\ tmp' = snapshot[d]
  /\ UNCHANGED <<version, alive, dirty, writing, snapshot, file, asked>>

Rename(d) ==
  /\ phase[d] = "rename"
  /\ tmp # Absent
  /\ phase' = [phase EXCEPT ![d] = "renamed"]
  /\ file' = tmp
  /\ tmp' = Absent
  /\ UNCHANGED <<version, alive, dirty, writing, snapshot, asked>>

\* drain() resumes: another round if dirty, the finally block otherwise.
Continue(d) ==
  /\ phase[d] = "renamed"
  /\ IF dirty
       THEN /\ dirty' = FALSE
            /\ phase' = [phase EXCEPT ![d] = "open"]
            /\ snapshot' = [snapshot EXCEPT ![d] = version]
            /\ UNCHANGED writing
       ELSE /\ writing' = NoDrain
            /\ phase' = [phase EXCEPT ![d] = "idle"]
            /\ UNCHANGED <<dirty, snapshot>>
  /\ UNCHANGED <<version, alive, tmp, file, asked>>

\* The process ends: nothing it had in memory is left.
Stop ==
  /\ alive' = FALSE
  /\ dirty' = FALSE
  /\ writing' = NoDrain
  /\ phase' = [d \in Drains |-> "idle"]
  /\ asked' = [f \in Flushers |-> 0]
  /\ UNCHANGED <<version, snapshot, tmp, file>>

\* A file operation fails.  No one catches the rejection of drain(): awaited
\* by flush() it reaches main().catch, otherwise it is an unhandled rejection;
\* both end the process.  A drain() started by the finally block ends with it.
IoFails(d) ==
  /\ phase[d] \in {"open", "write", "rename"}
  /\ Stop

Crash == alive /\ Stop

\* The next run loads the records of the manifest; a torn one does not parse,
\* and the run ends before it has changed anything.
Restart ==
  /\ ~alive
  /\ file # Torn
  /\ alive' = TRUE
  /\ version' = IF file = Absent THEN 1 ELSE file
  /\ snapshot' = [d \in Drains |-> version']
  /\ UNCHANGED <<dirty, writing, phase, tmp, file, asked>>

-----------------------------------------------------------------------------
DrainStep(d) == OpenTmp(d) \/ WriteTmp(d) \/ Rename(d) \/ Continue(d)

WriterNext ==
  \/ Change \/ ChangeAndRequest \/ Request
  \/ \E f \in Flushers : Flush(f) \/ FlushReturns(f)
  \/ \E d \in Drains : DrainStep(d) \/ IoFails(d)
  \/ Crash \/ Restart

WriterSpec == WriterInit /\ [][WriterNext]_writer_vars

\* The file system answers, and the promise it resolves resumes drain().
WriterFairSpec == WriterSpec /\ \A d \in Drains : WF_writer_vars(DrainStep(d))

-----------------------------------------------------------------------------
(* Properties.                                                             *)

\* At no moment, a crash in the middle of a write included, is the manifest a
\* file the next run or the monitor could not read.
ManifestNeverTorn == file # Torn

\* Once written the manifest is never replaced by an older one, not even by
\* the next run.
ManifestNeverOlder == [][file # Absent => file' >= file]_writer_vars

\* When flush() returns, everything the records held when it was called is in
\* the manifest.
FlushPersists ==
  [][\A f \in Flushers : FlushReturns(f) => file >= asked[f]]_writer_vars

\* A change the writer was told of reaches the manifest, unless the process
\* ends first: no request is lost between two drains.
RequestsReachTheManifest ==
  \A v \in Version :
    (\/ dirty /\ version = v
     \/ writing # NoDrain /\ snapshot[writing] = v) ~> (file >= v \/ ~alive)

\* Version v has the items 2..v: what the first version has is not worth a
\* promise.  A torn file has what nobody recorded.
Store == INSTANCE ManifestStore WITH
  Callers <- Flushers,
  current <- IF alive THEN 2..version ELSE {},
  file    <- IF file = Torn THEN {Torn} ELSE 2..file,
  asked   <- [f \in Flushers |-> 2..asked[f]]

\* The writer keeps the promise of the manifest: it loses nothing, over kills
\* and failed writes too, and flush() waits for what was there at the call.
ImplementsStore == Store!Spec

\* Strengthening: only the call this.writing stands for runs, and what it has
\* written is complete when it renames it.
WriterInv ==
  /\ \A d \in Drains : phase[d] # "idle" => writing = d
  /\ writing # NoDrain => phase[writing] # "idle"
  /\ ~alive => writing = NoDrain
  /\ \A d \in Drains : phase[d] = "rename" => tmp = snapshot[d]
  /\ \A d \in Drains : phase[d] = "renamed" => file = snapshot[d]
  /\ \A d \in Drains : snapshot[d] <= version
  /\ \A d \in Drains : phase[d] # "idle" => file <= snapshot[d]
  /\ file # Torn /\ file <= version
  /\ dirty => writing # NoDrain
  /\ \A f \in Flushers :
       /\ asked[f] <= version
       /\ ~alive => asked[f] = 0
       /\ file < asked[f] =>
            dirty \/ (writing # NoDrain /\ snapshot[writing] >= asked[f])
=============================================================================
