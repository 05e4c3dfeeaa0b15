------------------------------ MODULE MCMonitor ------------------------------
(***************************************************************************)
(* Two transactions: the first may land in the first block, the second in  *)
(* the first two, and a third block makes both of them expire.             *)
(***************************************************************************)
EXTENDS Monitor

MCRequested == 1..2
MCLastValid == [s \in MCRequested |-> s]
=============================================================================
