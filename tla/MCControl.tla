------------------------------ MODULE MCControl ------------------------------
(***************************************************************************)
(* The Control between the Owner and a child, each module on a small       *)
(* instance: the admission of the connection (ControlAdmission), the       *)
(* channel (ControlChannel), and what is followed over it: the Runtime     *)
(* (HostedRuntime), the keys typed into the child (NativeInput), its       *)
(* screen (ChildScreen) and the view of the Agent that is selected         *)
(* (InteractiveSelection).  One run checks them side by side: part names   *)
(* the one that moves, and the others stay as they began.                  *)
(***************************************************************************)
EXTENDS InteractiveSelection, TLC

CONSTANTS Conns, Tokens,  \* connections, and the tokens of their admissions
          Strange,        \* a token nobody expects
          Calls,          \* calls for the child's screen
          MaxFrames, MaxRequests, MaxEvents, MaxIncidents, MaxRuns, MaxReports,
          MaxKeys, MaxViews, MaxWire, MaxPaints  \* the bounds of the modules

ASSUME ChannelAssumption == MaxRequests \in Nat /\ MaxEvents \in Nat /\ MaxIncidents \in Nat
ASSUME CallsAssumption == Calls \subseteq Nat \ {0}

VARIABLES part,
          peer, conn, queued, accepting, tok, closing, listener, broker,
          side, wire, running, settled, down, excused, overtook, spent,
          child, sent, asked, owner, refused, overlapped, events,
          view, typed, gate, requests, tty, editor, reports, views,
          calls, own, grid, trans, asks, tui, paints

admissionVars == <<peer, conn, queued, accepting, tok, closing, listener, broker>>
channelVars == <<side, wire, running, settled, down, excused, overtook, spent>>
runtimeVars == <<child, sent, asked, owner, refused, overlapped, events>>
inputVars == <<view, typed, gate, requests, tty, editor, reports, views>>
screenVars == <<calls, own, grid, trans, asks, tui, paints>>

A == INSTANCE ControlAdmission
C == INSTANCE ControlChannel
H == INSTANCE HostedRuntime WITH MaxEvents <- MaxReports, wire <- sent
N == INSTANCE NativeInput WITH own <- typed, asks <- requests, kid <- editor, wire <- reports
S == INSTANCE ChildScreen

-----------------------------------------------------------------------------
MCInit ==
  /\ part \in {"admission", "channel", "runtime", "input", "screen", "selection"}
  /\ A!Init /\ C!Init /\ H!Init /\ N!Init /\ S!Init /\ Init

\* Every part but p stays as it began.
Still(p) ==
  /\ UNCHANGED part
  /\ p # "admission" => UNCHANGED admissionVars
  /\ p # "channel" => UNCHANGED channelVars
  /\ p # "runtime" => UNCHANGED runtimeVars
  /\ p # "input" => UNCHANGED inputVars
  /\ p # "screen" => UNCHANGED screenVars
  /\ p # "selection" => UNCHANGED vars

MCNext ==
  \/ part = "admission" /\ A!Next /\ Still("admission")
  \/ part = "channel" /\ C!Next /\ Still("channel")
  \/ part = "runtime" /\ H!Next /\ Still("runtime")
  \/ part = "input" /\ N!Next /\ Still("input")
  \/ part = "screen" /\ S!Next /\ Still("screen")
  \/ part = "selection" /\ Next /\ Still("selection")

MCSpec == /\ MCInit
          /\ [][MCNext]_<<part, admissionVars, channelVars, runtimeVars, inputVars, screenVars,
                          vars>>

-----------------------------------------------------------------------------
(* The properties of the instances, under the names their modules give them. *)

AdmissionIsSound == A!AdmissionIsSound
ChannelIsSound == C!ChannelIsSound
OwnerKeepsUp == H!OwnerKeepsUp
IdleIsTrue == N!IdleIsTrue
HeldScreenIsCurrent == S!HeldScreenIsCurrent
=============================================================================
