------------------------------ MODULE MCAnswers ------------------------------
(***************************************************************************)
(* What reaches an Agent's Runtime, and the model that Runtime is launched *)
(* with: the Deliveries of an Answer and of a Request that is withdrawn    *)
(* (MessageDelivery), the preparation of Runtimes under a policy that is   *)
(* edited (ModelSelection), and the admission of the Owner they belong to  *)
(* (OwnerAdmission).  One run checks them side by side: part names the one *)
(* that moves, and the others stay as they began.                          *)
(***************************************************************************)
EXTENDS MCMessageDelivery, ModelSelection

CONSTANTS root, upper, lower,          \* the Owner, its child and its grandchild
          m1, m2, vm, real, virtual,   \* models and their providers
          Sessions, NoSession,         \* the Owner's sessions
          MaxAttachments               \* attachments Pi builds

ASSUME AttachmentAssumption == NoSession \notin Sessions /\ MaxAttachments \in Nat \ {0}

VARIABLES part, attached, used, told, workflow, registry, captured, bridge, turn

ownerVars == <<attached, used, told, workflow, registry, captured, bridge, turn>>

O == INSTANCE OwnerAdmission WITH current <- attached

\* upper asks for the preset levels of what it inherits; lower has a Template
\* whose second candidate is the Virtual Model.
Chain      == (upper :> root) @@ (lower :> upper)
Providing  == (m1 :> real) @@ (m2 :> real) @@ (vm :> virtual)
Presets    == [model |-> vm, preset |-> TRUE]
Requested  == (upper :> [says |-> "inherit", selection |-> Presets]) @@
              (lower :> [says |-> "nothing", selection |-> Explicit(m1)])
Offered    == (upper :> <<>>) @@ (lower :> <<Explicit(m1), Presets>>)
Exclusions == {{}, {m1, virtual}}
EntryLists == {<<>>, <<m1, m2>>}

-----------------------------------------------------------------------------
MCInit ==
  /\ part \in {"delivery", "models", "owner"} /\ Init /\ SelectionInit /\ O!AdmissionInit
  /\ part # "models" => file = Text(TRUE, Default)
  /\ part # "owner" => used = {CHOOSE s \in Sessions : TRUE}
MCNext ==
  /\ UNCHANGED part
  /\ \/ part = "delivery" /\ Next /\ UNCHANGED <<modelVars, ownerVars>>
     \/ part = "models" /\ SelectionNext /\ UNCHANGED <<vars, ownerVars>>
     \/ part = "owner" /\ O!AdmissionNext /\ UNCHANGED <<vars, modelVars>>
MCSpec == MCInit /\ [][MCNext]_<<part, vars, modelVars, ownerVars>>

\* The property of the instance, under the name its module gives it.
OneLiveWorkflow == O!OneLiveWorkflow
=============================================================================
