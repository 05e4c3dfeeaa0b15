--------------------------- MODULE MCSingleSender ---------------------------
(***************************************************************************)
(* The two fixed directions, which the program sends one after the other   *)
(* unless it is asked for the best one.                                    *)
(***************************************************************************)
EXTENDS SingleSender

MCDirections == <<"pump-to-meteora", "meteora-to-pump">>
=============================================================================
