-------------------------- MODULE MCMessageDelivery --------------------------
(***************************************************************************)
(* Finite instances of MessageDelivery.  The kind and the mode of each     *)
(* Message follow from its name.                                           *)
(***************************************************************************)
EXTENDS MessageDelivery, TLC
CONSTANTS note,      \* a Steer Message
          request,   \* a Deferred Request
          urgent,    \* a Steer Request
          answer,    \* an Answer, always Steer
          cancel,    \* the Steer Cancellation of urgent
          later,     \* a Background Message
          resume     \* a Supervisory Resume

Modes == [m \in Delivery |-> IF m \in {note, urgent, answer, cancel} THEN "steer"
                             ELSE IF m = later THEN "background" ELSE "deferred"]
Withdrawals == [c \in Cancellation |-> urgent]
=============================================================================
