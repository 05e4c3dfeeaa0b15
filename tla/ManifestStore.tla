---------------------------- MODULE ManifestStore ----------------------------
(***************************************************************************)
(* What the manifest file promises those who write and read it, however    *)
(* the writer goes about it.  The process keeps a growing set of items in  *)
(* memory, and at any moment the file holds some that it once was.  The    *)
(* file never loses an item, not even when the process ends, and flush()   *)
(* returns only when the file has what the memory had at the call.  The    *)
(* next process starts with what the file has.                             *)
(***************************************************************************)

CONSTANT Callers  \* of flush()

VARIABLES
  current,  \* the items in memory, none when no process runs
  file,     \* the items in the file
  alive,    \* a process runs
  asked     \* asked[c]: what the file must have before the flush() of c returns

vars == <<current, file, alive, asked>>

Init ==
  /\ current = {}
  /\ file = {}
  /\ alive = TRUE
  /\ asked = [c \in Callers |-> {}]

Record ==
  /\ alive
  /\ current \subseteq current'
  /\ UNCHANGED <<file, alive, asked>>

Write ==
  /\ alive
  /\ file \subseteq file'
  /\ file' \subseteq current
  /\ UNCHANGED <<current, alive, asked>>

Flush(c) ==
  /\ alive
  /\ asked' = [asked EXCEPT ![c] = current]
  /\ UNCHANGED <<current, file, alive>>

FlushReturns(c) ==
  /\ alive
  /\ asked[c] \subseteq file
  /\ asked' = [asked EXCEPT ![c] = {}]
  /\ UNCHANGED <<current, file, alive>>

Stop ==
  /\ alive
  /\ alive' = FALSE
  /\ current' = {}
  /\ asked' = [c \in Callers |-> {}]
  /\ UNCHANGED file

\* The next process may begin with a flush().
Restart ==
  /\ ~alive
  /\ alive' = TRUE
  /\ current' = file
  /\ asked' \in [Callers -> {{}, file}]
  /\ UNCHANGED file

Next ==
  \/ Record \/ Write \/ Stop \/ Restart
  \/ \E c \in Callers : Flush(c) \/ FlushReturns(c)

Spec == Init /\ [][Next]_vars
=============================================================================
