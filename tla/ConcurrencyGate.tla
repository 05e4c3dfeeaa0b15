--------------------------- MODULE ConcurrencyGate ---------------------------
(***************************************************************************)
(* ConcurrencyGate of sender-pipeline.ts: at most Limit of the callers of  *)
(* run() execute their task at a time, the others queue.                   *)
(*                                                                         *)
(* JavaScript runs to completion, so a step is the code between two awaits.*)
(* A promise resolved in one step resumes the code that awaits it in a     *)
(* later one: a caller that was handed a permit ("granted") is not yet     *)
(* running its task, and other callers may act in between.                 *)
(***************************************************************************)
EXTENDS Integers, Sequences, FiniteSets

CONSTANTS
  Tasks,  \* the callers of run(); a caller may call again
  Limit   \* the constructor's argument

ASSUME TasksAssumption == IsFiniteSet(Tasks)
ASSUME LimitAssumption == Limit \in Nat \ {0}  \* the constructor throws otherwise

VARIABLES
  active,   \* this.active
  waiters,  \* this.waiters, by the caller whose promise the closure resolves
  at        \* where each caller is

gate_vars == <<active, waiters, at>>

Place == {"outside", "waiting", "granted", "running"}

GateTypeOK ==
  /\ active \in Nat
  /\ waiters \in Seq(Tasks)
  /\ at \in [Tasks -> Place]

GateInit ==
  /\ active = 0
  /\ waiters = <<>>
  /\ at = [t \in Tasks |-> "outside"]

-----------------------------------------------------------------------------
(* Plausible mistakes, for the properties below.                           *)

OffByOne   == active + 1 < Limit
OneTooMany == active <= Limit

\* The closure of a waiter resolves the promise but forgets active += 1.
UncountedHandover(t) ==
  /\ active' = active - 1
  /\ IF waiters = <<>>
       THEN /\ UNCHANGED waiters
            /\ at' = [at EXCEPT ![t] = "outside"]
       ELSE /\ waiters' = Tail(waiters)
            /\ at' = [at EXCEPT ![t] = "outside", ![Head(waiters)] = "granted"]

\* this.waiters.pop() for shift()
NewestFirst(t) ==
  IF waiters = <<>>
    THEN /\ active' = active - 1
         /\ at' = [at EXCEPT ![t] = "outside"]
         /\ UNCHANGED waiters
    ELSE /\ waiters' = SubSeq(waiters, 1, Len(waiters) - 1)
         /\ at' = [at EXCEPT ![t] = "outside", ![waiters[Len(waiters)]] = "granted"]
         /\ UNCHANGED active

-----------------------------------------------------------------------------

\* this.active < this.limit
HasPermit == active < Limit

\* run() up to the await in acquire().
Call(t) ==
  /\ at[t] = "outside"
  /\ IF HasPermit
       THEN /\ active' = active + 1
            /\ at' = [at EXCEPT ![t] = "granted"]
            /\ UNCHANGED waiters
       ELSE /\ waiters' = Append(waiters, t)
            /\ at' = [at EXCEPT ![t] = "waiting"]
            /\ UNCHANGED active

\* The await in run() resumes, and the task starts.
Resume(t) ==
  /\ at[t] = "granted"
  /\ at' = [at EXCEPT ![t] = "running"]
  /\ UNCHANGED <<active, waiters>>

\* release(): the closure of the first waiter counts its permit at once.
release(t) ==
  IF waiters = <<>>
    THEN /\ active' = active - 1
         /\ at' = [at EXCEPT ![t] = "outside"]
         /\ UNCHANGED waiters
    ELSE /\ active' = (active - 1) + 1
         /\ waiters' = Tail(waiters)
         /\ at' = [at EXCEPT ![t] = "outside", ![Head(waiters)] = "granted"]

\* The task returned or threw: the finally block of run().
Leave(t) ==
  /\ at[t] = "running"
  /\ release(t)

GateNext == \E t \in Tasks : Call(t) \/ Resume(t) \/ Leave(t)

GateSpec == GateInit /\ [][GateNext]_gate_vars

\* Resolved promises resume their code, and every task ends.  Nothing says
\* that a caller calls again.
GateFairSpec ==
  GateSpec /\ \A t \in Tasks : WF_gate_vars(Resume(t)) /\ WF_gate_vars(Leave(t))

-----------------------------------------------------------------------------
(* Properties.                                                             *)

Holders == {t \in Tasks : at[t] \in {"granted", "running"}}

\* run() never executes more than Limit tasks at a time.
AtMostLimit == Cardinality({t \in Tasks : at[t] = "running"}) <= Limit

\* No caller waits while a permit is free: release() wakes one for every
\* permit it returns.
PermitsNeverIdle == waiters # <<>> => Cardinality(Holders) = Limit

\* Every caller that waits gets its turn, however often the others come back.
EveryWaiterRuns == \A t \in Tasks : at[t] = "waiting" ~> at[t] = "running"

\* The strengthening that makes the two invariants inductive.
GateInv ==
  /\ active = Cardinality(Holders)
  /\ active <= Limit
  /\ waiters # <<>> => active = Limit
  /\ \A i \in 1..Len(waiters) : at[waiters[i]] = "waiting"
  /\ \A i, j \in 1..Len(waiters) : waiters[i] = waiters[j] => i = j
=============================================================================
