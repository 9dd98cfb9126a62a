--------------------------- MODULE OwnerAdmission ---------------------------
(***************************************************************************)
(* One Pi process admits its sessions as Workflow Owners                   *)
(* (bootstrap/owner-admission.ts, bootstrap/owner-bootstrap.ts).  Pi       *)
(* builds a new extension attachment for every replacement and every       *)
(* reload; each admits one session at most.  Across reloads the process    *)
(* keeps a registry of the Workflow of a session, so that a new attachment *)
(* shuts the previous Workflow down before it reads the transcripts that   *)
(* the Workflow wrote.  The Runtime of a session reaches the attachment    *)
(* through Pi's rebind callback (pi-integration/interactive-host-          *)
(* bridge.ts).                                                             *)
(*                                                                         *)
(* Pi is external: it awaits session_start before it reloads or replaces,  *)
(* and tells the attachment of session_shutdown first.                     *)
(***************************************************************************)
EXTENDS Integers

CONSTANTS Sessions, NoSession,
          MaxAttachments   \* attachments Pi builds

VARIABLES
  current,    \* the attachment: its number, the session Pi binds it to, the one it
              \* started with (#startedSession), and how far its admission is
  used,       \* the sessions Pi bound so far
  told,       \* the session_shutdown the attachment was told of: "none", "reload", "replace"
  workflow,   \* workflow[n]: the coordinator that attachment n built
  registry,   \* initializedWorkflows: the attachment whose Workflow a session has, 0 for none
  captured,   \* the sessions whose Runtime is published to the bridge
  bridge,     \* "installed", or "rejected" with the host's own methods restored
  turn        \* a model turn that another extension launched from session_start

admissionVars == <<current, used, told, workflow, registry, captured, bridge, turn>>

Attachments == 1 .. MaxAttachments
NoWorkflow  == [session |-> NoSession, state |-> "absent", served |-> FALSE]
New(n, s)   == [n |-> n, bound |-> s, session |-> NoSession, stage |-> "idle",
                outcome |-> "pending", identified |-> FALSE]
Session     == current.session
Previous    == registry[Session]

-----------------------------------------------------------------------------
(* session_start, and the capture of the Runtime. *)

\* RPC mode repeats session_start for the same session; the repeat is ignored.
Starts(s) == current.session = NoSession

At(stage)      == current' = [current EXCEPT !.stage = stage]
Settles(state) == current' = [current EXCEPT !.stage = "settled", !.outcome = state]
Blocks         == Settles("blocked")

\* With the bridge rejected the binding fails before session_start.
SessionStart(s) ==
  /\ s = current.bound /\ Starts(s) /\ told = "none" /\ bridge = "installed"
  /\ current' = [current EXCEPT !.session = s, !.stage = "capture", !.outcome = "pending"]
  /\ UNCHANGED <<used, told, workflow, registry, captured, bridge, turn>>

\* A host without a terminal that published no Runtime has no Owner.
Inactive ==
  /\ current.stage = "capture" /\ Session \notin captured
  /\ Settles("inactive")
  /\ UNCHANGED <<used, told, workflow, registry, captured, bridge, turn>>

\* Pi hands a Runtime over: its waiter goes on, or the Runtime is refused.
\* With the bridge rejected nothing is captured any more.
Publish(s) ==
  /\ s \notin captured /\ bridge = "installed"
  /\ captured' = captured \union {s}
  /\ UNCHANGED <<current, used, told, workflow, registry, bridge, turn>>

Capture ==
  /\ current.stage = "capture" /\ Session \in captured /\ bridge = "installed"
  /\ At("captured")
  /\ UNCHANGED <<used, told, workflow, registry, captured, bridge, turn>>

\* A Runtime of another shape, or a binding with no Runtime, rejects every waiter.
RejectHost ==
  /\ bridge = "installed" /\ bridge' = "rejected"
  /\ IF current.stage = "capture" THEN Blocks ELSE UNCHANGED current
  /\ UNCHANGED <<used, told, workflow, registry, captured, turn>>

-----------------------------------------------------------------------------
(* initializeOwnerWorkflow. *)

\* prepareOwnerReplacement: one shutdown, however often it is asked for.
Shutdown(n) ==
  workflow' = IF workflow[n].state = "open" THEN [workflow EXCEPT ![n].state = "closing"] ELSE workflow

\* The shutdown joins the managed writers, or fails and stays failed.
ShutdownEnds(n, how) ==
  /\ workflow[n].state = "closing"
  /\ workflow' = [workflow EXCEPT ![n].state = how]
  /\ UNCHANGED <<current, used, told, registry, captured, bridge, turn>>

CleanUp ==
  /\ current.stage = "captured"
  /\ IF Previous = 0 THEN At("bind") /\ UNCHANGED workflow
                     ELSE At("cleanup") /\ Shutdown(Previous)
  /\ UNCHANGED <<used, told, registry, captured, bridge, turn>>

\* Mutant of Forgets: the entry is dropped whether or not the cleanup failed.
ForgetsFailed(n) == TRUE
Forgets(n) == workflow[n].state = "closed"

\* A failed cleanup keeps its entry and blocks the attachment.
CleanedUp ==
  /\ current.stage = "cleanup" /\ workflow[Previous].state \in {"closed", "broken"}
  /\ IF Forgets(Previous)
       THEN At("bind") /\ registry' = [registry EXCEPT ![Session] = 0]
       ELSE Blocks /\ UNCHANGED registry
  /\ UNCHANGED <<used, told, workflow, captured, bridge, turn>>

\* Policy, registered models, and the Owner Identity of the transcript.
Identify ==
  /\ current.stage = "bind"
  /\ \/ Blocks
     \/ current' = [current EXCEPT !.stage = "recover", !.identified = TRUE]
  /\ UNCHANGED <<used, told, workflow, registry, captured, bridge, turn>>

\* Fork provenance and cold discovery; then the coordinator is constructed.
Recover ==
  /\ current.stage = "recover"
  /\ \/ Blocks /\ UNCHANGED workflow
     \/ /\ At("initialize")
        /\ workflow' = [workflow EXCEPT ![current.n] =
                          [session |-> Session, state |-> "building", served |-> FALSE]]
  /\ UNCHANGED <<used, told, registry, captured, bridge, turn>>

\* An initialization that fails shuts its partial coordinator down.
Initialize ==
  /\ current.stage = "initialize"
  /\ \/ /\ Settles("admitted")
        /\ workflow' = [workflow EXCEPT ![current.n] =
                          [session |-> Session, state |-> "open", served |-> TRUE]]
        /\ registry' = [registry EXCEPT ![Session] = current.n]
     \/ /\ At("rollback") /\ UNCHANGED registry
        /\ workflow' = [workflow EXCEPT ![current.n].state = "closing"]
  /\ UNCHANGED <<used, told, captured, bridge, turn>>

RolledBack ==
  /\ current.stage = "rollback" /\ workflow[current.n].state # "closing"
  /\ Blocks
  /\ UNCHANGED <<used, told, workflow, registry, captured, bridge, turn>>

-----------------------------------------------------------------------------
(* Native operations. *)

\* before_agent_start awaits settled().
Turn ==
  /\ turn # "runs"
  /\ turn' = (IF current.stage = "settled" THEN "runs" ELSE "held")
  /\ UNCHANGED <<current, used, told, workflow, registry, captured, bridge>>

Allows(kind) ==
  CASE current.outcome = "pending" -> FALSE
    [] current.outcome \in {"admitted", "inactive"} -> TRUE
    [] OTHER -> kind = "new" \/ (kind = "fork" /\ current.identified)

\* session_shutdown of a reload, or of a replacement the attachment allows.
TellShutdown(kind) ==
  /\ current.stage = "settled" /\ told = "none"
  /\ kind = "reload" \/ Allows(kind)
  /\ told' = (IF kind = "reload" THEN "reload" ELSE "replace")
  /\ IF current.outcome = "admitted" THEN Shutdown(current.n) ELSE UNCHANGED workflow
  /\ UNCHANGED <<current, used, registry, captured, bridge, turn>>

\* Pi awaited the shutdown handler, whose failure it only reports.  A reload keeps
\* the session, a replacement brings a new one.  A bridge that was rejected is
\* installed anew, and has captured nothing.
Attach(s) ==
  /\ told # "none" /\ current.n < MaxAttachments
  /\ \A n \in Attachments : workflow[n].state # "closing"
  /\ IF told = "reload" THEN s = current.bound ELSE s \notin used
  /\ current' = New(current.n + 1, s) /\ used' = used \union {s}
  /\ told' = "none" /\ turn' = "none"
  /\ bridge' = "installed" /\ captured' = (IF bridge = "installed" THEN captured ELSE {})
  /\ UNCHANGED <<workflow, registry>>

-----------------------------------------------------------------------------
AdmissionInit ==
  /\ \E s \in Sessions : current = New(1, s) /\ used = {s}
  /\ told = "none"
  /\ workflow = [n \in Attachments |-> NoWorkflow]
  /\ registry = [s \in Sessions |-> 0]
  /\ captured = {} /\ bridge = "installed" /\ turn = "none"

AdmissionNext ==
  \/ \E s \in Sessions : SessionStart(s) \/ Publish(s) \/ Attach(s)
  \/ Inactive \/ Capture \/ RejectHost
  \/ CleanUp \/ CleanedUp \/ Identify \/ Recover \/ Initialize \/ RolledBack
  \/ \E n \in Attachments, how \in {"closed", "broken"} : ShutdownEnds(n, how)
  \/ Turn
  \/ \E kind \in {"reload", "fork", "new", "resume"} : TellShutdown(kind)

AdmissionSpec == AdmissionInit /\ [][AdmissionNext]_admissionVars
-----------------------------------------------------------------------------
(* A coordinator is built for a session only after every Workflow the       *)
(* session had is completely shut down: no managed writer of the previous   *)
(* one is left, also when its shutdown failed or began in another           *)
(* attachment (owner-bootstrap.ts: another reload must not mistake failed   *)
(* cleanup for a repair-safe snapshot).  One Workflow escapes, and no other *)
(* may: a coordinator that was never admitted, because its initialization   *)
(* failed, and whose own shutdown failed too, was never registered.         *)
OneLiveWorkflow ==
  \A n, k \in Attachments :
    n # k /\ workflow[n].session = workflow[k].session /\ workflow[n].session # NoSession
          /\ workflow[n].state \in {"building", "open"}
    => \/ workflow[k].state = "closed"
       \/ workflow[k].state = "broken" /\ ~workflow[k].served
=============================================================================
