------------------------- MODULE SingleSenderProofs -------------------------
(***************************************************************************)
(* SingleSender, for every sequence of directions and any number of failed *)
(* calls: a transaction the program gives up can never trade unless a call *)
(* about it failed, and a direction that counts as done has traded.        *)
(*                                                                         *)
(* The argument.  A signature that was not sent, or whose blockhash is too *)
(* old, or that ran with an error, is dead and stays so (ChainMoves).      *)
(* main() leaves a signature behind only in phases in which it is dead,    *)
(* confirmed or doubtful (InHandAccounted).  A direction has a confirmed    *)
(* signature only once main() is done with it (NotDone), so the one that   *)
(* is sent meets doubtful ones of its direction and no others (TradesOnce).*)
(***************************************************************************)
EXTENDS SingleSender, TLAPS

\* Three signatures for each direction before this one, and those of its attempts.
Counted ==
  /\ phase = "simulate" => signed = 0 /\ attempt = 1 /\ tx = 0
  /\ signed <= 3 * (index - 1) + attempt
  /\ phase = "build" => signed <= 3 * (index - 1) + (attempt - 1)

InHand ==
  phase \in {"send", "confirm", "status", "details"} \/ (phase = "build" /\ attempt > 1)
    => tx \in 1..signed /\ chain[tx].of = index

Unsigned == \A t \in Tx : t > signed => chain[t].of = 0 /\ Place(t) = "unsent"

Alive(t)     == Success(t) \/ Place(t) \in {"pending", "processed"}
Accounted(t) == Alive(t) => t \in confirmed \cup doubtful

OthersAccounted == \A t \in Tx : t # tx => Accounted(t)

InHandAccounted ==
  /\ phase \in {"build", "status", "details"} \cup Ended => tx = 0 \/ Accounted(tx)
  /\ phase = "send" \/ (phase = "build" /\ attempt > 1) =>
       Place(tx) \in {"unsent", "expired"} \/ tx \in doubtful
  /\ phase = "details" => tx \in confirmed

ConfirmedTraded == \A t \in confirmed : Success(t)

Traded(i) == \E t \in Tx : chain[t].of = i /\ Success(t)

Done ==
  /\ \A t \in Tx, i \in Index : i < chain[t].of => Traded(i)
  /\ phase \notin {"simulate"} \cup Ended => \A i \in Index : i < index => Traded(i)
  /\ phase = "finished" /\ real => \A i \in Index : Traded(i)

IInv ==
  /\ SingleTypeOK /\ Counted /\ InHand /\ Unsigned /\ OthersAccounted
  /\ InHandAccounted /\ ConfirmedTraded /\ Done

-----------------------------------------------------------------------------

LEMMA SingleInitial == SingleInit => IInv
<1> SUFFICES ASSUME SingleInit PROVE IInv
  OBVIOUS
<1> USE DirectionsAssumption, FaultsAssumption
<1>1. SingleTypeOK
  BY DEF SingleInit, SingleTypeOK, Ended, Index, Tx, Fate, MaxAttempts
<1>2. Counted /\ InHand
  BY DEF SingleInit, Counted, InHand
<1>3. Unsigned /\ OthersAccounted /\ InHandAccounted /\ ConfirmedTraded
  BY DEF SingleInit, Unsigned, OthersAccounted, InHandAccounted, ConfirmedTraded,
         Accounted, Alive, Success, Place, Ended
<1>4. Done
  BY DEF SingleInit, Done, Index, Ended
<1> QED BY <1>1, <1>2, <1>3, <1>4 DEF IInv

\* What the chain does on its own: the signatures keep their direction, one that
\* has traded has traded for good, one that is dead does not come back.
ChainMoved ==
  /\ chain' \in [Tx -> Fate]
  /\ \A s \in Tx :
       /\ chain'[s].of = chain[s].of
       /\ Success(s) => Success(s)'
       /\ Alive(s)' => Alive(s)
       /\ Place(s) \in {"unsent", "expired"} => Place(s)' \in {"unsent", "expired"}
       /\ s > signed => Place(s)' = Place(s)
  /\ UNCHANGED <<main_vars, doubtful, faults>>

LEMMA ChainMoves ==
  ASSUME IInv, NEW t \in Tx, ChainStep(t)
  PROVE  ChainMoved
<1>0. chain \in [Tx -> Fate] /\ signed \in Int /\ t \in Int
  BY DirectionsAssumption DEF IInv, SingleTypeOK, Tx, MaxAttempts
<1>1. PICK from \in {"unsent", "pending", "processed"},
           to \in {"pending", "processed", "confirmed", "expired"}, err \in BOOLEAN :
        /\ Run(t, from, to, err)
        /\ from = "unsent" => to = "expired" /\ t <= signed
        /\ to = "confirmed" => from = "processed"
  BY <1>0 DEF ChainStep, Land, Settle, Drop, Expire, Run, Fate
<1>2. /\ chain' \in [Tx -> Fate]
      /\ \A s \in Tx : s # t => chain'[s] = chain[s]
      /\ chain'[t].of = chain[t].of /\ chain'[t].place = to /\ chain'[t].err = err
      /\ chain[t].place = from
  BY <1>0, <1>1 DEF Run, Fate, Place
<1>3. UNCHANGED <<main_vars, doubtful, faults>>
  BY <1>1 DEF Run
<1>4. t > signed => Place(t) = "unsent"
  BY DEF IInv, Unsigned
<1>5. \A s \in Tx :
        /\ chain'[s].of = chain[s].of
        /\ Success(s) => Success(s)'
        /\ Alive(s)' => Alive(s)
        /\ Place(s) \in {"unsent", "expired"} => Place(s)' \in {"unsent", "expired"}
  BY <1>0, <1>1, <1>2 DEF Success, Alive, Place
<1>6. \A s \in Tx : s > signed => Place(s)' = Place(s)
  BY <1>0, <1>1, <1>2, <1>4 DEF Place
<1> QED BY <1>2, <1>3, <1>5, <1>6 DEF ChainMoved

LEMMA ChainPreserves ==
  ASSUME IInv, NEW t \in Tx, ChainStep(t)
  PROVE  IInv'
<1>1. ChainMoved
  BY ChainMoves
<1>2. /\ UNCHANGED <<real, phase, index, attempt, tx, signed, confirmed, doubtful, faults>>
      /\ chain' \in [Tx -> Fate]
  BY <1>1 DEF ChainMoved, main_vars
<1>3. confirmed \subseteq Tx /\ tx \in 0..signed /\ signed \in 0..(MaxAttempts * Len(Directions))
  BY DEF IInv, SingleTypeOK
<1>4. 1..signed \subseteq Tx
  BY <1>3, DirectionsAssumption DEF Tx, MaxAttempts
<1>a. SingleTypeOK'
  BY <1>2 DEF IInv, SingleTypeOK
<1>b. Counted'
  BY <1>2 DEF IInv, Counted
<1>c. InHand'
  BY <1>1, <1>2, <1>4 DEF IInv, InHand, ChainMoved
<1>d. Unsigned'
  BY <1>1, <1>2 DEF IInv, Unsigned, ChainMoved
<1>e. OthersAccounted'
  BY <1>1, <1>2 DEF IInv, OthersAccounted, Accounted, ChainMoved
<1>f. InHandAccounted'
  <2>1. tx = 0 \/ tx \in Tx
    BY <1>3, <1>4
  <2>2. phase = "send" \/ (phase = "build" /\ attempt > 1) => tx \in Tx
    BY <1>4 DEF IInv, InHand
  <2> QED BY <1>1, <1>2, <2>1, <2>2 DEF IInv, InHandAccounted, Accounted, ChainMoved
<1>g. ConfirmedTraded'
  BY <1>1, <1>2, <1>3 DEF IInv, ConfirmedTraded, ChainMoved
<1>h. Done'
  <2>1. \A i \in Index : Traded(i) => Traded(i)'
    BY <1>1 DEF Traded, ChainMoved
  <2> QED BY <1>1, <1>2, <2>1 DEF IInv, Done, ChainMoved
<1> QED BY <1>a, <1>b, <1>c, <1>d, <1>e, <1>f, <1>g, <1>h DEF IInv

-----------------------------------------------------------------------------
(* The steps of main().                                                    *)

LEMMA Types ==
  ASSUME IInv
  PROVE  /\ Len(Directions) \in Nat /\ Len(Directions) > 0
         /\ index \in Int /\ 1 <= index /\ index <= Len(Directions)
         /\ attempt \in Int /\ 1 <= attempt /\ attempt <= 3
         /\ signed \in Int /\ 0 <= signed /\ tx \in Int /\ 0 <= tx /\ tx <= signed
         /\ signed <= 3 * Len(Directions)
         /\ 1..signed \subseteq Tx /\ Tx = 1..(3 * Len(Directions))
         /\ chain \in [Tx -> Fate]
         /\ confirmed \subseteq Tx /\ doubtful \subseteq Tx
         /\ faults \in Int /\ 0 <= faults /\ faults <= MaxFaults /\ MaxFaults \in Nat
BY DirectionsAssumption, FaultsAssumption
   DEF IInv, SingleTypeOK, Index, Tx, MaxAttempts

LEMMA SimulationPassesPreserves ==
  ASSUME IInv, SimulationPasses
  PROVE  IInv'
<1>0. /\ SingleTypeOK /\ Counted /\ InHand /\ Unsigned /\ OthersAccounted
      /\ InHandAccounted /\ ConfirmedTraded /\ Done
  BY DEF IInv
<1>a. SingleTypeOK'
  BY <1>0, Types DEF SingleTypeOK, SimulationPasses, Index, Ended
<1>b. Counted'
  BY <1>0, Types DEF Counted, SimulationPasses
<1>c. InHand'
  BY <1>0, Types DEF InHand, Counted, SimulationPasses
<1>d. Unsigned'
  BY <1>0, Types DEF Unsigned, Place, SimulationPasses
<1>e. OthersAccounted'
  BY <1>0, Types DEF OthersAccounted, Accounted, Alive, Success, Place, SimulationPasses
<1>f. InHandAccounted'
  BY <1>0, Types DEF InHandAccounted, InHand, Counted, Accounted, Alive, Success, Place, Ended, SimulationPasses
<1>g. ConfirmedTraded'
  BY <1>0, Types DEF ConfirmedTraded, InHand, Success, Place, SimulationPasses
<1>h. Done'
  BY <1>0, Types DEF Done, Traded, InHand, InHandAccounted, ConfirmedTraded, Success, Place, Index, Ended, SimulationPasses
<1> QED BY <1>a, <1>b, <1>c, <1>d, <1>e, <1>f, <1>g, <1>h DEF IInv

LEMMA SimulationFailsPreserves ==
  ASSUME IInv, SimulationFails
  PROVE  IInv'
<1>0. /\ SingleTypeOK /\ Counted /\ InHand /\ Unsigned /\ OthersAccounted
      /\ InHandAccounted /\ ConfirmedTraded /\ Done
  BY DEF IInv
<1>a. SingleTypeOK'
  BY <1>0, Types DEF SingleTypeOK, SimulationFails, Index, Ended
<1>b. Counted'
  BY <1>0, Types DEF Counted, SimulationFails
<1>c. InHand'
  BY <1>0, Types DEF InHand, SimulationFails
<1>d. Unsigned'
  BY <1>0, Types DEF Unsigned, Place, SimulationFails
<1>e. OthersAccounted'
  BY <1>0, Types DEF OthersAccounted, Accounted, Alive, Success, Place, SimulationFails
<1>f. InHandAccounted'
  BY <1>0, Types DEF InHandAccounted, InHand, Counted, Accounted, Alive, Success, Place, Ended, SimulationFails
<1>g. ConfirmedTraded'
  BY <1>0, Types DEF ConfirmedTraded, InHand, Success, Place, SimulationFails
<1>h. Done'
  BY <1>0, Types DEF Done, Traded, InHand, InHandAccounted, ConfirmedTraded, Success, Place, Index, Ended, SimulationFails
<1> QED BY <1>a, <1>b, <1>c, <1>d, <1>e, <1>f, <1>g, <1>h DEF IInv

LEMMA RejectPreserves ==
  ASSUME IInv, Reject
  PROVE  IInv'
<1>0. /\ SingleTypeOK /\ Counted /\ InHand /\ Unsigned /\ OthersAccounted
      /\ InHandAccounted /\ ConfirmedTraded /\ Done
  BY DEF IInv
<1>a. SingleTypeOK'
  BY <1>0, Types DEF SingleTypeOK, Reject, NextAttempt, MaxAttempts, Index, Ended
<1>b. Counted'
  BY <1>0, Types DEF Counted, Reject, NextAttempt, MaxAttempts
<1>c. InHand'
  BY <1>0, Types DEF InHand, Reject, NextAttempt, MaxAttempts
<1>d. Unsigned'
  BY <1>0, Types DEF Unsigned, Place, Reject, NextAttempt, MaxAttempts
<1>e. OthersAccounted'
  BY <1>0, Types DEF OthersAccounted, Accounted, Alive, Success, Place, Reject, NextAttempt, MaxAttempts
<1>f. InHandAccounted'
  BY <1>0, Types DEF InHandAccounted, InHand, Accounted, Alive, Success, Place, Ended, Reject, NextAttempt, MaxAttempts
<1>g. ConfirmedTraded'
  BY <1>0, Types DEF ConfirmedTraded, InHand, Success, Place, Reject, NextAttempt, MaxAttempts
<1>h. Done'
  BY <1>0, Types DEF Done, Traded, InHand, InHandAccounted, ConfirmedTraded, Success, Place, Index, Ended, Reject, NextAttempt, MaxAttempts
<1> QED BY <1>a, <1>b, <1>c, <1>d, <1>e, <1>f, <1>g, <1>h DEF IInv

LEMMA ConfirmationPreserves ==
  ASSUME IInv, Confirmation
  PROVE  IInv'
<1>0. /\ SingleTypeOK /\ Counted /\ InHand /\ Unsigned /\ OthersAccounted
      /\ InHandAccounted /\ ConfirmedTraded /\ Done
  BY DEF IInv
<1>1. phase \in {"confirm", "status"} => tx \in Tx
  BY <1>0, Types DEF InHand
<1>a. SingleTypeOK'
  BY <1>0, <1>1, Types DEF SingleTypeOK, InHand, Confirmation, Index, Ended
<1>b. Counted'
  BY <1>0, Types DEF Counted, Confirmation
<1>c. InHand'
  BY <1>0, Types DEF InHand, Confirmation
<1>d. Unsigned'
  BY <1>0, Types DEF Unsigned, Place, Confirmation
<1>e. OthersAccounted'
  BY <1>0, Types DEF OthersAccounted, Accounted, Alive, Success, Place, Confirmation
<1>f. InHandAccounted'
  BY <1>0, Types DEF InHandAccounted, InHand, Accounted, Alive, Success, Place, Ended, Confirmation
<1>g. ConfirmedTraded'
  BY <1>0, Types DEF ConfirmedTraded, InHand, Success, Place, Confirmation
<1>h. Done'
  BY <1>0, Types DEF Done, Traded, InHand, InHandAccounted, ConfirmedTraded, Success, Place, Index, Ended, Confirmation
<1> QED BY <1>a, <1>b, <1>c, <1>d, <1>e, <1>f, <1>g, <1>h DEF IInv

LEMMA HeightExceededPreserves ==
  ASSUME IInv, HeightExceeded
  PROVE  IInv'
<1>0. /\ SingleTypeOK /\ Counted /\ InHand /\ Unsigned /\ OthersAccounted
      /\ InHandAccounted /\ ConfirmedTraded /\ Done
  BY DEF IInv
<1>a. SingleTypeOK'
  BY <1>0, Types DEF SingleTypeOK, HeightExceeded, Index, Ended
<1>b. Counted'
  BY <1>0, Types DEF Counted, HeightExceeded
<1>c. InHand'
  BY <1>0, Types DEF InHand, HeightExceeded
<1>d. Unsigned'
  BY <1>0, Types DEF Unsigned, Place, HeightExceeded
<1>e. OthersAccounted'
  BY <1>0, Types DEF OthersAccounted, Accounted, Alive, Success, Place, HeightExceeded
<1>f. InHandAccounted'
  BY <1>0, Types DEF InHandAccounted, InHand, Accounted, Alive, Success, Place, Ended, HeightExceeded
<1>g. ConfirmedTraded'
  BY <1>0, Types DEF ConfirmedTraded, InHand, Success, Place, HeightExceeded
<1>h. Done'
  BY <1>0, Types DEF Done, Traded, InHand, InHandAccounted, ConfirmedTraded, Success, Place, Index, Ended, HeightExceeded
<1> QED BY <1>a, <1>b, <1>c, <1>d, <1>e, <1>f, <1>g, <1>h DEF IInv

LEMMA ConfirmationLostPreserves ==
  ASSUME IInv, ConfirmationLost
  PROVE  IInv'
<1>0. /\ SingleTypeOK /\ Counted /\ InHand /\ Unsigned /\ OthersAccounted
      /\ InHandAccounted /\ ConfirmedTraded /\ Done
  BY DEF IInv
<1>1. phase \in {"confirm", "status"} => tx \in Tx
  BY <1>0, Types DEF InHand
<1>a. SingleTypeOK'
  BY <1>0, <1>1, Types DEF SingleTypeOK, InHand, ConfirmationLost, Fault, Index, Ended
<1>b. Counted'
  BY <1>0, Types DEF Counted, ConfirmationLost, Fault
<1>c. InHand'
  BY <1>0, Types DEF InHand, ConfirmationLost, Fault
<1>d. Unsigned'
  BY <1>0, Types DEF Unsigned, Place, ConfirmationLost, Fault
<1>e. OthersAccounted'
  BY <1>0, Types DEF OthersAccounted, Accounted, Alive, Success, Place, ConfirmationLost, Fault
<1>f. InHandAccounted'
  BY <1>0, Types DEF InHandAccounted, InHand, Accounted, Alive, Success, Place, Ended, ConfirmationLost, Fault
<1>g. ConfirmedTraded'
  BY <1>0, Types DEF ConfirmedTraded, InHand, Success, Place, ConfirmationLost, Fault
<1>h. Done'
  BY <1>0, Types DEF Done, Traded, InHand, InHandAccounted, ConfirmedTraded, Success, Place, Index, Ended, ConfirmationLost, Fault
<1> QED BY <1>a, <1>b, <1>c, <1>d, <1>e, <1>f, <1>g, <1>h DEF IInv

LEMMA StatusPreserves ==
  ASSUME IInv, Status
  PROVE  IInv'
<1>0. /\ SingleTypeOK /\ Counted /\ InHand /\ Unsigned /\ OthersAccounted
      /\ InHandAccounted /\ ConfirmedTraded /\ Done
  BY DEF IInv
<1>1. phase \in {"confirm", "status"} => tx \in Tx
  BY <1>0, Types DEF InHand
<1>a. SingleTypeOK'
  BY <1>0, <1>1, Types DEF SingleTypeOK, InHand, Status, NextAttempt, MaxAttempts, HasErr, IsConfirmed, Index, Ended
<1>b. Counted'
  BY <1>0, Types DEF Counted, Status, NextAttempt, MaxAttempts, HasErr, IsConfirmed
<1>c. InHand'
  BY <1>0, Types DEF InHand, Status, NextAttempt, MaxAttempts, HasErr, IsConfirmed
<1>d. Unsigned'
  BY <1>0, Types DEF Unsigned, Place, Status, NextAttempt, MaxAttempts, HasErr, IsConfirmed
<1>e. OthersAccounted'
  BY <1>0, Types DEF OthersAccounted, Accounted, Alive, Success, Place, Status, NextAttempt, MaxAttempts, HasErr, IsConfirmed
<1>f. InHandAccounted'
  <2>1. /\ tx \in Tx /\ Accounted(tx) /\ tx # 0
        /\ UNCHANGED <<tx, chain, doubtful>>
    BY <1>0, <1>1, Types DEF InHandAccounted, InHand, Status
  <2>2. confirmed' = confirmed \/ confirmed' = confirmed \cup {tx}
    BY DEF Status
  <2>3. Accounted(tx)'
    BY <2>1, <2>2 DEF Accounted, Alive, Success, Place
  <2>4. phase' = "details" => tx \in confirmed'
    BY DEF Status, NextAttempt
  <2>5. phase' # "send"
    BY DEF Status, NextAttempt
  <2>6. ASSUME phase' = "build"
        PROVE  Place(tx) \in {"unsent", "expired"} \/ tx \in doubtful
    <3>1. ~HasErr(tx) /\ ~IsConfirmed(tx)
      BY <2>6 DEF Status
    <3>2. tx \notin confirmed
      BY <1>0, <3>1 DEF ConfirmedTraded, IsConfirmed, Success
    <3>3. Place(tx) \in {"unsent", "pending", "processed", "confirmed", "expired"}
      BY <2>1, Types DEF Fate, Place
    <3> QED BY <2>1, <3>1, <3>2, <3>3 DEF Accounted, Alive, IsConfirmed
  <2> QED BY <2>1, <2>3, <2>4, <2>5, <2>6 DEF InHandAccounted, Place
<1>g. ConfirmedTraded'
  BY <1>0, Types DEF ConfirmedTraded, InHand, Success, Place, Status, NextAttempt, MaxAttempts, HasErr, IsConfirmed
<1>h. Done'
  BY <1>0, Types DEF Done, Traded, InHand, InHandAccounted, ConfirmedTraded, Success, Place, Index, Ended, Status, NextAttempt, MaxAttempts, HasErr, IsConfirmed
<1> QED BY <1>a, <1>b, <1>c, <1>d, <1>e, <1>f, <1>g, <1>h DEF IInv

LEMMA DetailsPreserves ==
  ASSUME IInv, Details
  PROVE  IInv'
<1>0. /\ SingleTypeOK /\ Counted /\ InHand /\ Unsigned /\ OthersAccounted
      /\ InHandAccounted /\ ConfirmedTraded /\ Done
  BY DEF IInv
<1>a. SingleTypeOK'
  <2>1. index < Len(Directions) => index + 1 \in Index
    BY Types DEF Index
  <2> QED BY <1>0, <2>1 DEF SingleTypeOK, Details, NextDirection, Ended, MaxAttempts
<1>b. Counted'
  BY <1>0, Types DEF Counted, Details, NextDirection
<1>c. InHand'
  BY <1>0, Types DEF InHand, Details, NextDirection
<1>d. Unsigned'
  BY <1>0, Types DEF Unsigned, Place, Details, NextDirection
<1>e. OthersAccounted'
  BY <1>0, Types DEF OthersAccounted, Accounted, Alive, Success, Place, Details, NextDirection
<1>f. InHandAccounted'
  BY <1>0, Types DEF InHandAccounted, InHand, Accounted, Alive, Success, Place, Ended, Details, NextDirection
<1>g. ConfirmedTraded'
  BY <1>0, Types DEF ConfirmedTraded, InHand, Success, Place, Details, NextDirection
<1>h. Done'
  <2>1. Traded(index)
    BY <1>0, Types DEF Details, InHand, InHandAccounted, ConfirmedTraded, Traded
  <2>2. \A i \in Index : Traded(i)' <=> Traded(i)
    BY DEF Details, Traded, Success, Place
  <2>3. \A i \in Index : i <= index => Traded(i)
    BY <1>0, <2>1, Types DEF Details, Done, Index, Ended
  <2>4. \A t \in Tx, i \in Index : i < chain'[t].of => Traded(i)'
    BY <1>0, <2>2 DEF Details, Done
  <2>5. phase' \notin {"simulate"} \cup Ended => \A i \in Index : i < index' => Traded(i)'
    BY <2>2, <2>3, Types DEF Details, NextDirection, Index, Ended
  <2>6. phase' = "finished" => \A i \in Index : Traded(i)'
    BY <2>2, <2>3, Types DEF Details, NextDirection, Index
  <2> QED BY <2>4, <2>5, <2>6 DEF Done, Details
<1> QED BY <1>a, <1>b, <1>c, <1>d, <1>e, <1>f, <1>g, <1>h DEF IInv

LEMMA CallFailsPreserves ==
  ASSUME IInv, CallFails
  PROVE  IInv'
<1>0. /\ SingleTypeOK /\ Counted /\ InHand /\ Unsigned /\ OthersAccounted
      /\ InHandAccounted /\ ConfirmedTraded /\ Done
  BY DEF IInv
<1>1. phase \in {"confirm", "status"} => tx \in Tx
  BY <1>0, Types DEF InHand
<1>a. SingleTypeOK'
  BY <1>0, <1>1, Types DEF SingleTypeOK, InHand, CallFails, Fault, Index, Ended
<1>b. Counted'
  BY <1>0, Types DEF Counted, CallFails, Fault
<1>c. InHand'
  BY <1>0, Types DEF InHand, CallFails, Fault
<1>d. Unsigned'
  BY <1>0, Types DEF Unsigned, Place, CallFails, Fault
<1>e. OthersAccounted'
  BY <1>0, Types DEF OthersAccounted, Accounted, Alive, Success, Place, CallFails, Fault
<1>f. InHandAccounted'
  BY <1>0, Types DEF InHandAccounted, InHand, Counted, Accounted, Alive, Success, Place, Ended, CallFails, Fault
<1>g. ConfirmedTraded'
  BY <1>0, Types DEF ConfirmedTraded, InHand, Success, Place, CallFails, Fault
<1>h. Done'
  BY <1>0, Types DEF Done, Traded, InHand, InHandAccounted, ConfirmedTraded, Success, Place, Index, Ended, CallFails, Fault
<1> QED BY <1>a, <1>b, <1>c, <1>d, <1>e, <1>f, <1>g, <1>h DEF IInv

LEMMA BuildPreserves ==
  ASSUME IInv, Build
  PROVE  IInv'
<1>0. /\ SingleTypeOK /\ Counted /\ InHand /\ Unsigned /\ OthersAccounted
      /\ InHandAccounted /\ ConfirmedTraded /\ Done
  BY DEF IInv
<1>1. phase = "build" /\ phase' = "send"
      /\ UNCHANGED <<real, index, attempt, confirmed, doubtful, faults>>
  BY DEF Build
<1>2. CASE /\ signed' = signed + 1
           /\ tx' = signed + 1
           /\ chain' = [chain EXCEPT ![tx'].of = index]
  <2>1. signed + 1 \in Tx /\ signed + 1 <= 3 * (index - 1) + attempt
    BY <1>0, <1>1, Types DEF Counted
  <2>2. index \in 0..Len(Directions)
    BY Types
  <2>3. /\ chain' \in [Tx -> Fate]
        /\ chain'[tx'].of = index
        /\ \A t \in Tx : t # tx' => chain'[t] = chain[t]
        /\ \A t \in Tx : chain'[t].place = chain[t].place /\ chain'[t].err = chain[t].err
    BY <1>2, <2>1, <2>2, Types DEF Fate
  <2>4. \A t \in Tx : /\ Place(t)' = Place(t) /\ (Success(t)' <=> Success(t))
                      /\ (Alive(t)' <=> Alive(t))
    BY <2>3 DEF Place, Success, Alive
  <2>5. chain[signed + 1].of = 0 /\ Place(signed + 1) = "unsent"
    BY <1>0, <2>1, Types DEF Unsigned
  <2>a. SingleTypeOK'
    BY <1>0, <1>1, <1>2, <2>1, <2>3, Types DEF SingleTypeOK, Ended, Tx
  <2>b. Counted'
    BY <1>1, <1>2, <2>1 DEF Counted
  <2>c. InHand'
    BY <1>1, <1>2, <2>3, Types DEF InHand
  <2>d. Unsigned'
    BY <1>0, <1>2, <2>3, <2>4, Types DEF Unsigned
  <2>e. OthersAccounted'
    <3>1. \A t \in Tx : Accounted(t)
      BY <1>0, <1>1, Types DEF OthersAccounted, InHandAccounted, Ended
    <3> QED BY <1>1, <2>4, <3>1 DEF OthersAccounted, Accounted
  <2>f. InHandAccounted'
    BY <1>1, <1>2, <2>1, <2>4, <2>5 DEF InHandAccounted, Ended
  <2>g. ConfirmedTraded'
    BY <1>0, <1>1, <2>4, Types DEF ConfirmedTraded
  <2>h. Done'
    <3>1. \A i \in Index : Traded(i) => Traded(i)'
      BY <2>1, <2>3, <2>4, <2>5, <1>2 DEF Traded, Success
    <3>2. \A i \in Index : i < index => Traded(i)
      BY <1>0, <1>1 DEF Done, Ended
    <3>3. \A t \in Tx, i \in Index : i < chain'[t].of => Traded(i)'
      BY <1>0, <2>3, <3>1, <3>2 DEF Done
    <3> QED BY <1>1, <3>1, <3>2, <3>3 DEF Done
  <2> QED BY <2>a, <2>b, <2>c, <2>d, <2>e, <2>f, <2>g, <2>h DEF IInv
<1>3. CASE /\ attempt > 1
           /\ Place(tx) # "expired"
           /\ UNCHANGED <<signed, tx, chain>>
  <2>1. \A t \in Tx : Place(t)' = Place(t) /\ (Success(t)' <=> Success(t)) /\ (Alive(t)' <=> Alive(t))
    BY <1>3 DEF Place, Success, Alive
  <2>2. tx \in Tx /\ Accounted(tx)
    BY <1>0, <1>1, <1>3, Types DEF InHand, InHandAccounted, Ended
  <2>a. SingleTypeOK' /\ Counted' /\ InHand' /\ Unsigned'
    BY <1>0, <1>1, <1>3, Types DEF SingleTypeOK, Counted, InHand, Unsigned, Place, Ended
  <2>e. OthersAccounted' /\ ConfirmedTraded'
    BY <1>0, <1>1, <1>3, <2>1, Types DEF OthersAccounted, Accounted, ConfirmedTraded
  <2>f. InHandAccounted'
    BY <1>0, <1>1, <1>3, <2>1, <2>2 DEF InHandAccounted, Ended
  <2>h. Done'
    BY <1>0, <1>1, <1>3 DEF Done, Traded, Success, Place, Ended
  <2> QED BY <2>a, <2>e, <2>f, <2>h DEF IInv
<1> QED BY <1>2, <1>3 DEF Build

LEMMA SendPreserves ==
  ASSUME IInv, Send
  PROVE  IInv'
<1>0. /\ SingleTypeOK /\ Counted /\ InHand /\ Unsigned /\ OthersAccounted
      /\ InHandAccounted /\ ConfirmedTraded /\ Done
  BY DEF IInv
<1>1. tx \in Tx /\ phase = "send"
  BY <1>0, Types DEF InHand, Send
<1>2. /\ chain' \in [Tx -> Fate]
      /\ \A t \in Tx : chain'[t].of = chain[t].of /\ (Success(t) => Success(t)')
  <2>1. chain' = [chain EXCEPT ![tx].place = IF @ = "unsent" THEN "pending" ELSE @]
    BY DEF Send
  <2>2. chain \in [Tx -> Fate]
    BY Types
  <2> QED BY <1>1, <2>1, <2>2 DEF Fate, Success, Place
<1>a. SingleTypeOK'
  BY <1>0, <1>1, <1>2, Types DEF SingleTypeOK, Send, Ended
<1>b. Counted'
  BY <1>0, Types DEF Counted, Send
<1>c. InHand'
  BY <1>0, Types DEF InHand, Send
<1>d. Unsigned'
  BY <1>0, Types DEF Unsigned, Place, Send
<1>e. OthersAccounted'
  BY <1>0, Types DEF OthersAccounted, Accounted, Alive, Success, Place, Send
<1>f. InHandAccounted'
  BY <1>0, Types DEF InHandAccounted, InHand, Accounted, Alive, Success, Place, Ended, Send
<1>g. ConfirmedTraded'
  BY <1>0, Types DEF ConfirmedTraded, InHand, Success, Place, Send
<1>h. Done'
  <2>1. \A i \in Index : Traded(i) => Traded(i)'
    BY <1>2 DEF Traded
  <2> QED BY <1>0, <1>1, <1>2, <2>1, Types DEF Done, Index, Ended, Send
<1> QED BY <1>a, <1>b, <1>c, <1>d, <1>e, <1>f, <1>g, <1>h DEF IInv

LEMMA SendLostPreserves ==
  ASSUME IInv, SendLost
  PROVE  IInv'
<1>0. /\ SingleTypeOK /\ Counted /\ InHand /\ Unsigned /\ OthersAccounted
      /\ InHandAccounted /\ ConfirmedTraded /\ Done
  BY DEF IInv
<1>1. tx \in Tx /\ phase = "send"
  BY <1>0, Types DEF InHand, SendLost
<1>2. /\ chain' \in [Tx -> Fate]
      /\ \A t \in Tx : chain'[t].of = chain[t].of /\ (Success(t) => Success(t)')
  <2>1. chain' = [chain EXCEPT ![tx].place = IF @ = "unsent" THEN "pending" ELSE @]
    BY DEF SendLost
  <2>2. chain \in [Tx -> Fate]
    BY Types
  <2> QED BY <1>1, <2>1, <2>2 DEF Fate, Success, Place
<1>a. SingleTypeOK'
  BY <1>0, <1>1, <1>2, Types DEF SingleTypeOK, SendLost, NextAttempt, MaxAttempts, Fault, Ended
<1>b. Counted'
  BY <1>0, Types DEF Counted, SendLost, NextAttempt, MaxAttempts, Fault
<1>c. InHand'
  BY <1>0, Types DEF InHand, SendLost, NextAttempt, MaxAttempts, Fault
<1>d. Unsigned'
  BY <1>0, Types DEF Unsigned, Place, SendLost, NextAttempt, MaxAttempts, Fault
<1>e. OthersAccounted'
  BY <1>0, Types DEF OthersAccounted, Accounted, Alive, Success, Place, SendLost, NextAttempt, MaxAttempts, Fault
<1>f. InHandAccounted'
  BY <1>0, Types DEF InHandAccounted, InHand, Accounted, Alive, Success, Place, Ended, SendLost, NextAttempt, MaxAttempts, Fault
<1>g. ConfirmedTraded'
  BY <1>0, Types DEF ConfirmedTraded, InHand, Success, Place, SendLost, NextAttempt, MaxAttempts, Fault
<1>h. Done'
  <2>1. \A i \in Index : Traded(i) => Traded(i)'
    BY <1>2 DEF Traded
  <2> QED BY <1>0, <1>1, <1>2, <2>1, Types DEF Done, Index, Ended, SendLost, NextAttempt, MaxAttempts, Fault
<1> QED BY <1>a, <1>b, <1>c, <1>d, <1>e, <1>f, <1>g, <1>h DEF IInv

-----------------------------------------------------------------------------

LEMMA SinglePreserves == IInv /\ [SingleNext]_vars => IInv'
<1> SUFFICES ASSUME IInv, [SingleNext]_vars PROVE IInv'
  OBVIOUS
<1>1. CASE MainStep
  BY <1>1, SimulationPassesPreserves, SimulationFailsPreserves, BuildPreserves,
     SendPreserves, RejectPreserves, ConfirmationPreserves, HeightExceededPreserves,
     StatusPreserves, DetailsPreserves DEF MainStep
<1>2. CASE FaultStep
  BY <1>2, SendLostPreserves, ConfirmationLostPreserves, CallFailsPreserves DEF FaultStep
<1>3. CASE \E t \in Tx : ChainStep(t)
  BY <1>3, ChainPreserves
<1>4. CASE UNCHANGED vars
  BY <1>4 DEF vars, main_vars, IInv, SingleTypeOK, Counted, InHand, Unsigned, OthersAccounted,
     InHandAccounted, ConfirmedTraded, Done, Accounted, Alive, Success, Place, Traded
<1> QED BY <1>1, <1>2, <1>3, <1>4 DEF SingleNext

LEMMA SingleInvariant == SingleSpec => []IInv
BY SingleInitial, SinglePreserves, PTL DEF SingleSpec

-----------------------------------------------------------------------------
(* How often a direction trades.                                           *)

Reached == \A t \in Tx : chain[t].of <= index

NotDone ==
  phase \notin {"details"} \cup Ended => \A t \in confirmed : chain[t].of # index

TradesOnce ==
  \A s, t \in Tx :
    s # t /\ chain[s].of = chain[t].of /\ Alive(s) /\ Alive(t)
      => s \in doubtful \/ t \in doubtful

Trades == Reached /\ NotDone /\ TradesOnce

LEMMA TradesInitial == SingleInit => Trades
<1> SUFFICES ASSUME SingleInit PROVE Trades
  OBVIOUS
<1>1. /\ confirmed = {} /\ index = 1
      /\ \A t \in Tx : chain[t].of = 0 /\ Place(t) = "unsent"
  BY DEF SingleInit, Place
<1> QED BY <1>1 DEF Trades, Reached, NotDone, TradesOnce, Alive, Success

LEMMA ChainKeepsTrades ==
  ASSUME IInv, Trades, NEW t \in Tx, ChainStep(t)
  PROVE  Trades'
<1>1. ChainMoved
  BY ChainMoves
<1>2. UNCHANGED <<phase, index, confirmed, doubtful>>
  BY <1>1 DEF ChainMoved, main_vars
<1> QED BY <1>1, <1>2, Types DEF Trades, Reached, NotDone, TradesOnce, ChainMoved

\* The first transactions are signed after the simulations.
LEMMA SimulationKeepsTrades ==
  ASSUME IInv, Trades, SimulationPasses \/ SimulationFails
  PROVE  Trades'
<1>1. signed = 0 /\ UNCHANGED <<chain, confirmed, doubtful>>
  BY DEF SimulationPasses, SimulationFails, IInv, Counted
<1>2. \A t \in Tx : chain[t].of = 0 /\ Place(t) = "unsent"
  BY <1>1, Types DEF IInv, Unsigned
<1>3. confirmed = {}
  BY <1>2, Types DEF IInv, ConfirmedTraded, Success
<1>4. index' \in Int /\ index' >= 1
  BY Types DEF SimulationPasses, SimulationFails
<1> QED BY <1>1, <1>2, <1>3, <1>4
        DEF Trades, Reached, NotDone, TradesOnce, Alive, Success, Place

\* A signature that is new is not alive.
LEMMA BuildKeepsTrades ==
  ASSUME IInv, Trades, Build
  PROVE  Trades'
<1>1. phase = "build" /\ phase' = "send" /\ UNCHANGED <<index, confirmed, doubtful>>
  BY DEF Build
<1>2. CASE UNCHANGED <<signed, tx, chain>>
  BY <1>1, <1>2 DEF Trades, Reached, NotDone, TradesOnce, Alive, Success, Place, Ended
<1>3. CASE signed' = signed + 1 /\ tx' = signed + 1 /\ chain' = [chain EXCEPT ![tx'].of = index]
  <2>1. signed + 1 \in Tx
    BY <1>1, Types DEF IInv, Counted
  <2>2. /\ \A t \in Tx : t # signed + 1 => chain'[t] = chain[t]
        /\ chain'[signed + 1].of = index
        /\ \A t \in Tx : chain'[t].place = chain[t].place /\ chain'[t].err = chain[t].err
    BY <1>3, <2>1, Types DEF Fate
  <2>3. chain[signed + 1].place = "unsent"
    BY <2>1, Types DEF IInv, Unsigned, Place
  <2>4. \A t \in Tx : Alive(t)' => Alive(t) /\ t # signed + 1
    BY <2>2, <2>3 DEF Alive, Success, Place
  <2>5. Reached'
    BY <1>1, <2>2, Types DEF Trades, Reached
  <2>6. signed + 1 \notin confirmed
    BY <2>3 DEF IInv, ConfirmedTraded, Success, Place
  <2>7. NotDone'
    BY <1>1, <2>2, <2>6, Types DEF Trades, NotDone, Ended
  <2>8. TradesOnce'
    BY <1>1, <2>2, <2>4 DEF Trades, TradesOnce
  <2> QED BY <2>5, <2>7, <2>8 DEF Trades
<1> QED BY <1>2, <1>3 DEF Build

\* What trades of the direction before it is sent is doubtful.
LEMMA SendKeepsTrades ==
  ASSUME IInv, Trades, Send \/ SendLost
  PROVE  Trades'
<1>1. /\ phase = "send" /\ UNCHANGED <<index, confirmed>>
      /\ chain' = [chain EXCEPT ![tx].place = IF @ = "unsent" THEN "pending" ELSE @]
      /\ doubtful \subseteq doubtful'
  BY DEF Send, SendLost
<1>2. tx \in Tx /\ chain[tx].of = index /\ chain \in [Tx -> Fate]
  BY <1>1, Types DEF IInv, InHand
<1>3. /\ \A t \in Tx : chain'[t].of = chain[t].of
      /\ \A t \in Tx : t # tx => chain'[t] = chain[t]
  BY <1>1, <1>2 DEF Fate
<1>4. \A t \in Tx : t # tx => (Alive(t)' <=> Alive(t))
  BY <1>3 DEF Alive, Success, Place
<1>5. \A t \in Tx : t # tx /\ chain[t].of = index /\ Alive(t) => t \in doubtful
  BY <1>1 DEF IInv, OthersAccounted, Accounted, Trades, NotDone, Ended
<1>6. Reached' /\ NotDone'
  BY <1>1, <1>3, Types DEF Trades, Reached, NotDone, Ended
<1>7. TradesOnce'
  BY <1>1, <1>2, <1>3, <1>4, <1>5 DEF Trades, TradesOnce
<1> QED BY <1>6, <1>7 DEF Trades

LEMMA RestKeepsTrades ==
  ASSUME IInv, Trades,
         Reject \/ Confirmation \/ HeightExceeded \/ Status \/ ConfirmationLost \/ CallFails
  PROVE  Trades'
<1>1. UNCHANGED <<index, chain>> /\ doubtful \subseteq doubtful'
  BY DEF Reject, Confirmation, HeightExceeded, Status, ConfirmationLost, CallFails
<1>2. phase' \in {"details"} \cup Ended \/ (confirmed' = confirmed /\ phase \notin {"details"} \cup Ended)
  BY DEF Reject, Confirmation, HeightExceeded, Status, ConfirmationLost, CallFails, Ended,
         NextAttempt
<1>3. Reached' /\ TradesOnce'
  BY <1>1 DEF Trades, Reached, TradesOnce, Alive, Success, Place
<1>4. NotDone'
  BY <1>1, <1>2 DEF Trades, NotDone, Ended
<1> QED BY <1>3, <1>4 DEF Trades

LEMMA DetailsKeepTrades ==
  ASSUME IInv, Trades, Details
  PROVE  Trades'
<1>1. /\ UNCHANGED <<chain, confirmed, doubtful>>
      /\ index' = index + 1 \/ (index' = index /\ phase' = "finished")
  BY DEF Details, NextDirection
<1>2. \A t \in Tx : chain[t].of \in Int /\ chain[t].of <= index
  BY Types DEF Trades, Reached, Fate
<1>3. Reached' /\ NotDone'
  BY <1>1, <1>2, Types DEF Reached, NotDone, Ended
<1>4. TradesOnce'
  BY <1>1 DEF Trades, TradesOnce, Alive, Success, Place
<1> QED BY <1>3, <1>4 DEF Trades

LEMMA TradesPreserved == IInv /\ Trades /\ [SingleNext]_vars => Trades'
<1> SUFFICES ASSUME IInv, Trades, [SingleNext]_vars PROVE Trades'
  OBVIOUS
<1>1. CASE MainStep \/ FaultStep
  BY <1>1, SimulationKeepsTrades, BuildKeepsTrades, SendKeepsTrades, RestKeepsTrades,
     DetailsKeepTrades DEF MainStep, FaultStep
<1>2. CASE \E t \in Tx : ChainStep(t)
  BY <1>2, ChainKeepsTrades
<1>3. CASE UNCHANGED vars
  BY <1>3 DEF vars, main_vars, Trades, Reached, NotDone, TradesOnce, Alive, Success, Place
<1> QED BY <1>1, <1>2, <1>3 DEF SingleNext

LEMMA TradesInvariant == SingleSpec => []Trades
BY SingleInvariant, TradesInitial, TradesPreserved, PTL DEF SingleSpec

-----------------------------------------------------------------------------

\* The counters stay in their ranges: three attempts for each direction, and so
\* at most three signatures for each, whatever fails.
THEOREM SingleTypeCorrect == SingleSpec => []SingleTypeOK
<1>1. IInv => SingleTypeOK
  BY DEF IInv
<1> QED BY <1>1, SingleInvariant, PTL

\* A signature the program gave up has not traded and never will, unless main()
\* took it for confirmed or a call about it failed without an answer; and of the
\* signatures of a direction that trade, all but one at most are doubtful.
THEOREM GivenUpStaysDead == SingleSpec => []GivenUpIsDead
<1>1. IInv /\ Trades => GivenUpIsDead
  <2> SUFFICES ASSUME IInv, Trades PROVE GivenUpIsDead
    OBVIOUS
  <2>1. \A t \in Tx : Success(t) \/ MayLand(t) => Alive(t)
    BY DEF Alive, MayLand
  <2>2. ASSUME NEW t \in Tx, t # tx \/ phase \in Ended, Success(t) \/ MayLand(t)
        PROVE  t \in confirmed \cup doubtful
    <3>1. Alive(t) /\ t # 0
      BY <2>1, <2>2, Types
    <3>2. Accounted(t)
      BY <2>2, <3>1 DEF IInv, OthersAccounted, InHandAccounted
    <3> QED BY <3>1, <3>2 DEF Accounted
  <2> QED BY <2>1, <2>2 DEF GivenUpIsDead, Trades, TradesOnce
<1> QED BY <1>1, SingleInvariant, TradesInvariant, PTL

\* The next direction is signed, and success is reported, only after the
\* direction before it has traded on the confirmed chain.
THEOREM DoneTraded == SingleSpec => []DoneHasTraded
<1>1. IInv => DoneHasTraded
  BY DEF IInv, Done, Traded, DoneHasTraded
<1> QED BY <1>1, SingleInvariant, PTL
=============================================================================
