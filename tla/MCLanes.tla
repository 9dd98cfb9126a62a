------------------------------- MODULE MCLanes -------------------------------
(***************************************************************************)
(* What serialises the work of an Agent: its lane (SerialLane), and the    *)
(* admission of turns in the child (TurnAdmission).  One run checks them   *)
(* side by side: part names the one that moves, and the other stays as it  *)
(* began.                                                                  *)
(***************************************************************************)
EXTENDS SerialLane, TurnAdmission, TLC

CONSTANTS prepare, admit, o1, o2,            \* operations of the lane
          c1, native, forwarded, reminder    \* inputs of the child

VARIABLE part

\* A preparation waits for the admission that the same human input triggers.
PreparationNeedsAdmission ==
  [o \in Op |-> IF o \in Releasers THEN {admit} ELSE {}]

-----------------------------------------------------------------------------
MCInit == part \in {"lane", "turns"} /\ Init /\ TurnInit

MCNext ==
  /\ UNCHANGED part
  /\ \/ part = "lane" /\ Next /\ UNCHANGED turnVars
     \/ part = "turns" /\ TurnNext /\ UNCHANGED vars

\* The fairness of the modules, each while its part moves.
LaneFairness ==
  \A o \in Op : /\ WF_vars(part = "lane" /\ Begin(o)) /\ WF_vars(part = "lane" /\ Settle(o))
                /\ WF_vars(part = "lane" /\ ReleaseCurrent(o))
                /\ \A n \in Needs[o] : WF_vars(part = "lane" /\ Run(n))
TurnFairness == WF_turnVars(part = "turns" /\ Step)

MCSpec == MCInit /\ [][MCNext]_<<part, vars, turnVars>> /\ LaneFairness /\ TurnFairness
=============================================================================
