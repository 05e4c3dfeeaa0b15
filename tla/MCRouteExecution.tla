-------------------------- MODULE MCRouteExecution --------------------------
(***************************************************************************)
(* Small instances of RouteExecution.  A request has at most one fault or  *)
(* two, so that the order in which the program finds them matters.         *)
(***************************************************************************)
EXTENDS RouteExecution

MCFaults ==
  {{}} \cup {{f} : f \in Fault} \cup {{"cashback", "meteora"}, {"pump", "bin_arrays"}, {"fees", "pair"}}

Req(entry, min, max, profit, faults, arrays) ==
  [entry |-> entry, min_amount |-> min, max_amount |-> max, min_profit |-> profit,
   faults |-> faults, arrays |-> arrays]

\* Every fault at every entry point.
FaultRequests ==
  {Req(e, 1, 2, 1, f, 1) : e \in Entry, f \in MCFaults}

\* The legal and illegal arguments, the overflow of initial + profit, and the
\* limits on the number of bin arrays.
ArgumentRequests ==
  {Req(e, a, 2, p, {}, 1) : e \in Entry, a \in 0..2, p \in 0..2}
  \cup {Req(e, 2, 1, 1, {}, 1) : e \in Entry}
  \cup {Req(e, 1, 3, U64Max, {}, 1) : e \in Entry}
  \cup {Req(e, 1, 1, 1, {}, n) : e \in Entry, n \in {0, 4, 5, 8, 9}}

MCRequests == FaultRequests \cup ArgumentRequests

MCQuotes == {None} \cup 1..U64Max
=============================================================================
