--------------------------- MODULE AtomicArbitrage ---------------------------
(***************************************************************************)
(* What the executor promises the trader, whatever route it takes and      *)
(* whatever the exchanges do: an instruction either leaves both token      *)
(* accounts exactly as they were, or raises the WSOL account by at least   *)
(* the profit that was asked for and leaves the target-token account       *)
(* exactly as it was, and then the receipt it emits tells the truth.       *)
(***************************************************************************)
EXTENDS Integers

CONSTANT U64Max

U64 == 0..U64Max

VARIABLES
  wsol,      \* the trader's WSOL balance, as the chain has committed it
  target,    \* the trader's target-token balance, likewise
  running,   \* an instruction of the program is being executed
  asked,     \* the profit the running instruction asks for
  receipt    \* what the last instruction reported, if it landed

vars == <<wsol, target, running, asked, receipt>>

NoReceipt == [profit |-> 0, initial |-> 0, final |-> 0]

Init ==
  /\ wsol \in U64
  /\ target \in U64
  /\ running = FALSE
  /\ asked = 0
  /\ receipt = NoReceipt

\* Somebody else moves the trader's tokens, between two instructions.
Transfer ==
  /\ ~running
  /\ wsol' \in U64
  /\ target' \in U64
  /\ UNCHANGED <<running, asked, receipt>>

Begin ==
  /\ ~running
  /\ running' = TRUE
  /\ asked' \in U64
  /\ receipt' = NoReceipt
  /\ UNCHANGED <<wsol, target>>

Abort ==
  /\ running
  /\ running' = FALSE
  /\ asked' = 0
  /\ UNCHANGED <<wsol, target, receipt>>

Land ==
  /\ running
  /\ running' = FALSE
  /\ asked > 0
  /\ wsol' \in U64
  /\ wsol' >= wsol + asked
  /\ target' = target
  /\ receipt' = [profit |-> asked, initial |-> wsol, final |-> wsol']
  /\ asked' = 0

Next == Transfer \/ Begin \/ Abort \/ Land

Spec == Init /\ [][Next]_vars
=============================================================================
