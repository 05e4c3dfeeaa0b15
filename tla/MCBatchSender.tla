---------------------------- MODULE MCBatchSender ----------------------------
(***************************************************************************)
(* Small batches of one direction: then all ordinals contend for each      *)
(* blockhash, and two of them may come to the same signature.              *)
(***************************************************************************)
EXTENDS BatchSender

MCOrdinals == 1..TransactionCount

Fixed == [o \in MCOrdinals |-> "best-direction"]
=============================================================================
