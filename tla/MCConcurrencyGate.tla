-------------------------- MODULE MCConcurrencyGate --------------------------
(* Five callers for two permits: three wait, and any of them may come back. *)
EXTENDS ConcurrencyGate

CONSTANTS t1, t2, t3, t4, t5

MCTasks == {t1, t2, t3, t4, t5}
=============================================================================
