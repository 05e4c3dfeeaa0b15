---------------------------- MODULE SingleSender ----------------------------
(***************************************************************************)
(* mainnet-smoke.ts without batch mode (TRANSACTION_COUNT = 0): main()     *)
(* simulates every direction and, when SEND_REAL_TRANSACTION says so,      *)
(* sends one transaction per direction, each after the one before it is    *)
(* confirmed, in up to three attempts with fresh blockhashes.              *)
(*                                                                         *)
(* A step is the code between two awaits.  The chain and the RPC node are  *)
(* external: a transaction that was sent lands or expires at any time, a   *)
(* block that is only processed may be dropped for another, and a call may *)
(* fail after the node has done what it asks.  All answers come from one   *)
(* node, which never goes back.                                            *)
(***************************************************************************)
EXTENDS Integers, Sequences, FiniteSets

CONSTANTS
  Directions,  \* initialModes, a sequence
  MaxFaults    \* bound: calls that fail

ASSUME DirectionsAssumption == Len(Directions) \in Nat \ {0}
ASSUME FaultsAssumption     == MaxFaults \in Nat

MaxAttempts == 3

Index == 1..Len(Directions)
Tx    == 1..(MaxAttempts * Len(Directions))  \* the signatures, in the order of signing

VARIABLES
  real,       \* SEND_REAL_TRANSACTION is "true"
  phase,      \* what main() awaits, or how it has ended
  index,      \* the direction the loop is at
  attempt,
  tx,         \* the signature of the attempt
  signed,     \* how many signatures there are
  chain,      \* what became of each
  confirmed,  \* history: the signatures main() took for confirmed
  doubtful,   \* history: those for which a call failed
  faults

main_vars == <<real, phase, index, attempt, tx, signed, confirmed>>
vars      == <<main_vars, chain, doubtful, faults>>

Ended == {"finished", "failed"}

\* of: the direction's index.  A signature whose blockhash is too old to land
\* is expired; "processed" and "confirmed" have run, and err says how.
Fate == [of : 0..Len(Directions), err : BOOLEAN,
         place : {"unsent", "pending", "processed", "confirmed", "expired"}]

SingleTypeOK ==
  /\ real \in BOOLEAN
  /\ phase \in {"simulate", "build", "send", "confirm", "status", "details"} \cup Ended
  /\ index \in Index
  /\ attempt \in 1..MaxAttempts
  /\ tx \in 0..signed
  /\ signed \in 0..(MaxAttempts * Len(Directions))
  /\ chain \in [Tx -> Fate]
  /\ confirmed \subseteq Tx /\ doubtful \subseteq Tx
  /\ faults \in 0..MaxFaults

SingleInit ==
  /\ real \in BOOLEAN
  /\ phase = "simulate"
  /\ index = 1
  /\ attempt = 1
  /\ tx = 0
  /\ signed = 0
  /\ chain = [t \in Tx |-> [of |-> 0, err |-> FALSE, place |-> "unsent"]]
  /\ confirmed = {}
  /\ doubtful = {}
  /\ faults = 0

Place(t) == chain[t].place

-----------------------------------------------------------------------------
(* The chain.                                                              *)

Run(t, from, to, err) ==
  /\ Place(t) = from
  /\ chain' = [chain EXCEPT ![t].place = to, ![t].err = err]
  /\ UNCHANGED <<main_vars, doubtful, faults>>

Land(t)   == \E err \in BOOLEAN : Run(t, "pending", "processed", err)
Settle(t) == Run(t, "processed", "confirmed", chain[t].err)
Drop(t)   == Run(t, "processed", "pending", FALSE)

\* The last valid block height is passed.
Expire(t) ==
  /\ t <= signed
  /\ \E from \in {"unsent", "pending"} : Run(t, from, "expired", FALSE)

ChainStep(t) == Land(t) \/ Settle(t) \/ Drop(t) \/ Expire(t)

-----------------------------------------------------------------------------
(* Plausible mistakes, for the properties below.                           *)

\* The status is taken for a confirmation at any commitment.
ProcessedIsEnough(t) == Place(t) \in {"processed", "confirmed"}

\* The status' err is not looked at.
ErrIgnored(t) == FALSE

\* confirmTransaction(signature), without lastValidBlockHeight
WaitForever ==
  /\ phase = "confirm"
  /\ FALSE
  /\ UNCHANGED vars

\* The answer is awaited for a while, not until the blockhash is too old.
TimeOut ==
  /\ phase = "confirm"
  /\ Place(tx) \in {"pending", "expired"}
  /\ phase' = "status"
  /\ UNCHANGED <<real, index, attempt, tx, signed, chain, confirmed, doubtful, faults>>

\* attempt is not reset for the next direction.
AttemptsGoOn ==
  IF index < Len(Directions)
    THEN phase' = "build" /\ index' = index + 1 /\ attempt' = attempt + 1
    ELSE phase' = "finished" /\ UNCHANGED <<index, attempt>>

-----------------------------------------------------------------------------
(* main().                                                                 *)

\* simulateTransaction() of one mode after the other.
SimulationPasses ==
  /\ phase = "simulate"
  /\ IF index < Len(Directions)
       THEN index' = index + 1 /\ UNCHANGED phase
       ELSE index' = 1 /\ phase' = (IF real THEN "build" ELSE "finished")
  /\ UNCHANGED <<real, attempt, tx, signed, chain, confirmed, doubtful, faults>>

SimulationFails ==
  /\ phase = "simulate"
  /\ phase' = "failed"
  /\ UNCHANGED <<real, index, attempt, tx, signed, chain, confirmed, doubtful, faults>>

\* refreshRouteSnapshot() and transactionFor().  With another blockhash or
\* another route the signature is new; else it is that of the last attempt.
Build ==
  /\ phase = "build"
  /\ phase' = "send"
  /\ \/ /\ signed' = signed + 1
        /\ tx' = signed + 1
        /\ chain' = [chain EXCEPT ![tx'].of = index]
     \/ /\ attempt > 1
        /\ Place(tx) # "expired"
        /\ UNCHANGED <<signed, tx, chain>>
  /\ UNCHANGED <<real, index, attempt, confirmed, doubtful, faults>>

\* sendRawTransaction() with preflight returns the signature.
Send ==
  /\ phase = "send"
  /\ Place(tx) # "confirmed"
  /\ phase' = "confirm"
  /\ chain' = [chain EXCEPT ![tx].place = IF @ = "unsent" THEN "pending" ELSE @]
  /\ UNCHANGED <<real, index, attempt, tx, signed, confirmed, doubtful, faults>>

\* The end of the catch block, when the signature is not found confirmed.
NextAttempt ==
  IF attempt = MaxAttempts
    THEN phase' = "failed" /\ UNCHANGED attempt
    ELSE phase' = "build" /\ attempt' = attempt + 1

\* The preflight rejects the transaction: it is not sent.
Reject ==
  /\ phase = "send"
  /\ NextAttempt
  /\ UNCHANGED <<real, index, tx, signed, chain, confirmed, doubtful, faults>>

Fault ==
  /\ faults < MaxFaults
  /\ faults' = faults + 1

\* The transaction is sent and the answer is lost: there is no signature to ask for.
SendLost ==
  /\ phase = "send"
  /\ Fault
  /\ NextAttempt
  /\ chain' = [chain EXCEPT ![tx].place = IF @ = "unsent" THEN "pending" ELSE @]
  /\ doubtful' = doubtful \cup {tx}
  /\ UNCHANGED <<real, index, tx, signed, confirmed>>

\* confirmTransaction() answers with what ran, or that the blockhash is too
\* old.  An err is thrown, and so is the latter.
Confirmation ==
  /\ phase = "confirm"
  /\ Place(tx) = "confirmed"
  /\ IF chain[tx].err
       THEN phase' = "status" /\ UNCHANGED confirmed
       ELSE phase' = "details" /\ confirmed' = confirmed \cup {tx}
  /\ UNCHANGED <<real, index, attempt, tx, signed, chain, doubtful, faults>>

HeightExceeded ==
  /\ phase = "confirm"
  /\ Place(tx) = "expired"
  /\ phase' = "status"
  /\ UNCHANGED <<real, index, attempt, tx, signed, chain, confirmed, doubtful, faults>>

\* The call fails, or the notification is lost until the height is exceeded.
ConfirmationLost ==
  /\ phase = "confirm"
  /\ Fault
  /\ phase' = "status"
  /\ doubtful' = doubtful \cup {tx}
  /\ UNCHANGED <<real, index, attempt, tx, signed, chain, confirmed>>

HasErr(t)      == Place(t) \in {"processed", "confirmed"} /\ chain[t].err
IsConfirmed(t) == Place(t) = "confirmed"

\* The catch block: getSignatureStatuses() answers.
Status ==
  /\ phase = "status"
  /\ IF HasErr(tx)
       THEN phase' = "failed" /\ UNCHANGED <<attempt, confirmed>>
       ELSE IF IsConfirmed(tx)
              THEN phase' = "details" /\ confirmed' = confirmed \cup {tx} /\ UNCHANGED attempt
              ELSE NextAttempt /\ UNCHANGED confirmed
  /\ UNCHANGED <<real, index, tx, signed, chain, doubtful, faults>>

NextDirection ==
  IF index < Len(Directions)
    THEN phase' = "build" /\ index' = index + 1 /\ attempt' = 1
    ELSE phase' = "finished" /\ UNCHANGED <<index, attempt>>

\* getTransaction() answers.
Details ==
  /\ phase = "details"
  /\ NextDirection
  /\ UNCHANGED <<real, tx, signed, chain, confirmed, doubtful, faults>>

\* A call outside of the try block fails, or the one in the catch block.
CallFails ==
  /\ phase \in {"simulate", "build", "status", "details"}
  /\ Fault
  /\ phase' = "failed"
  /\ doubtful' = IF phase = "status" THEN doubtful \cup {tx} ELSE doubtful
  /\ UNCHANGED <<real, index, attempt, tx, signed, chain, confirmed>>

-----------------------------------------------------------------------------

MainStep ==
  \/ SimulationPasses \/ SimulationFails \/ Build \/ Send \/ Reject
  \/ Confirmation \/ HeightExceeded \/ Status \/ Details

FaultStep == SendLost \/ ConfirmationLost \/ CallFails

SingleNext == MainStep \/ FaultStep \/ \E t \in Tx : ChainStep(t)

SingleSpec == SingleInit /\ [][SingleNext]_vars

\* What main() waits for comes: what is processed is confirmed or dropped for
\* good, and the blockhash gets too old.
Decide == \E t \in Tx : t = tx /\ (Expire(t) \/ Settle(t))

\* Calls answer when there is something to answer, and the chain goes on.
SingleFairSpec == SingleSpec /\ WF_vars(MainStep) /\ SF_vars(Decide)

-----------------------------------------------------------------------------
(* Properties.                                                             *)

Success(t) == Place(t) = "confirmed" /\ ~chain[t].err
MayLand(t) == Place(t) \in {"pending", "processed"} /\ t <= signed

\* A signature the program gave up, because it signs another one or ends, has
\* not traded and never will: unless main() took it for confirmed, or a call
\* about it failed without an answer.  And of two signatures of one direction
\* that trade, one is such a doubtful one.  So an error without a lost answer
\* means no trade, and a lost answer costs one further trade at most, however
\* the attempts, the blocks that are dropped and the late answers come together.
GivenUpIsDead ==
  /\ \A t \in Tx :
       /\ t # tx \/ phase \in Ended
       /\ Success(t) \/ MayLand(t)
       => t \in confirmed \cup doubtful
  /\ \A s, t \in Tx :
       /\ s # t /\ chain[s].of = chain[t].of
       /\ Success(s) \/ MayLand(s)
       /\ Success(t) \/ MayLand(t)
       => s \in doubtful \/ t \in doubtful

\* A direction counts as done only when a transaction of it has succeeded on the
\* confirmed chain: the next one is signed, and success is reported, after that.
DoneHasTraded ==
  \A i \in Index :
    (\/ \E t \in Tx : chain[t].of > i
     \/ real /\ phase = "finished") => \E t \in Tx : chain[t].of = i /\ Success(t)

\* The program ends although nobody lands its transaction or answers for it.
SingleEnds == <>(phase \in Ended)
=============================================================================
