---------------------------- MODULE NativeInput ----------------------------
(***************************************************************************)
(* What a human submits in the terminal of a child, and how the Owner      *)
(* knows that it is still on its way: the projection counts the            *)
(* submissions it dispatches (pi-child-process-projection.ts), the child   *)
(* counts those it reads and reports each over Control                     *)
(* (child-control-connection.ts), and a Run is not released while the two  *)
(* differ or an input is being prepared.  Between them is LiveNativeInput  *)
(* (pi-child-process-runtime.ts), which holds keys back until the child    *)
(* confirms that its editor runs.                                          *)
(*                                                                         *)
(* Only keys that submit are modelled.  The child serves the requests to   *)
(* show and to hide its editor in order; its reports arrive in order; the  *)
(* terminal between them is not ordered with either.                       *)
(***************************************************************************)
EXTENDS Naturals, Sequences

CONSTANTS MaxKeys,  \* submissions typed
          MaxViews, \* times the child is shown
          MaxWire   \* reports on their way when a Run begins

VARIABLES
  view,    \* "no", "asked" or "ready": the physical attachment to this child
  own,     \* the projection: latest, acked, active, busy (childInputActive), processing
  gate,    \* LiveNativeInput: live, activating, pending
  asks,    \* requests to show and hide that the child has not served
  tty,     \* submissions written to the terminal and not read
  kid,     \* the child: visible, read, current, input, started
  wire,    \* reports on their way to the Owner
  views    \* times the child was shown

vars == <<view, own, gate, asks, tty, kid, wire, views>>

NoSequence == 0
Report(e, n) == [event |-> e, sequence |-> n]

Init ==
  /\ view = "no" /\ asks = <<>> /\ tty = 0 /\ wire = <<>> /\ views = 0
  /\ own = [latest |-> 0, acked |-> 0, active |-> NoSequence, busy |-> FALSE,
            processing |-> FALSE]
  /\ gate = [live |-> FALSE, activating |-> FALSE, pending |-> 0]
  \* input: "none", "preflight" or "run"; started: a Run began since the input did.
  /\ kid = [visible |-> FALSE, read |-> 0, current |-> NoSequence, input |-> "none",
            started |-> FALSE]

-----------------------------------------------------------------------------
(* The human and the Owner's terminal.                                     *)

\* beginPhysicalTerminalAttachment; input is accepted when the child is shown.
View ==
  /\ view = "no" /\ views < MaxViews
  /\ view' = "asked" /\ views' = views + 1
  /\ asks' = Append(asks, "show")
  /\ UNCHANGED <<own, gate, tty, kid, wire>>

\* hidePresentation: the keys that wait for the editor are dropped.
Hide ==
  /\ view # "no"
  /\ view' = "no"
  /\ gate' = [gate EXCEPT !.live = FALSE, !.pending = 0]
  /\ asks' = Append(asks, "hide")
  /\ UNCHANGED <<own, tty, kid, wire, views>>

\* dispatchInput: the submission is counted, and written if the gate is open; otherwise it
\* waits, and the first one that waits asks for the editor.  What a hidden child's terminal
\* gets is no submission any more.
Type ==
  /\ view = "ready" /\ own.latest < MaxKeys
  /\ own' = [own EXCEPT !.latest = @ + 1, !.processing = TRUE]
  /\ IF gate.live THEN /\ tty' = IF kid.visible THEN tty + 1 ELSE tty
                       /\ UNCHANGED <<gate, asks>>
     ELSE /\ gate' = [gate EXCEPT !.pending = @ + 1, !.activating = TRUE]
          /\ asks' = IF gate.activating THEN asks ELSE Append(asks, "activate")
          /\ UNCHANGED tty
  /\ UNCHANGED <<view, kid, wire, views>>

\* The child serves a request, and its answer arrives: an attachment is ready, or the gate
\* opens and what waits is written.
Serve ==
  /\ asks # <<>> /\ asks' = Tail(asks)
  /\ kid' = [kid EXCEPT !.visible = Head(asks) # "hide"]
  /\ view' = IF Head(asks) = "show" /\ view = "asked" /\ \A i \in 2..Len(asks) : asks[i] # "hide"
             THEN "ready" ELSE view
  /\ IF Head(asks) = "activate"
     THEN /\ gate' = [live |-> TRUE, activating |-> FALSE, pending |-> 0]
          /\ tty' = tty + gate.pending
     ELSE UNCHANGED <<gate, tty>>
  /\ UNCHANGED <<own, wire, views>>

-----------------------------------------------------------------------------
(* The child.                                                              *)

\* Mutant of Reports: the acknowledgment is sent at once.
ReportsAtOnce(started, n) ==
  <<Report("acknowledged", n)>>
    \o (IF started = NoSequence THEN <<>> ELSE <<Report("started", started)>>)
\* runtime.input.started leaves before the acknowledgment of the same submission, which
\* waits for the check phase.
Reports(started, n) ==
  (IF started = NoSequence THEN <<>> ELSE <<Report("started", started)>>)
    \o <<Report("acknowledged", n)>>


\* A submission is read.  The editor's loop takes it as the next input, or it is no input
\* of the loop: an empty editor, a dialog, a steer of the Run.
Read(taken) ==
  LET n == kid.read + 1
      current == IF kid.current = NoSequence THEN n ELSE kid.current   \* beginInput
  IN /\ kid.visible /\ tty > 0 /\ tty' = tty - 1
     /\ taken => kid.input = "none" /\ ~kid.started
     /\ kid' = IF taken THEN [kid EXCEPT !.read = n, !.current = current, !.input = "preflight",
                                         !.started = FALSE]
               ELSE [kid EXCEPT !.read = n]
     /\ wire' = wire \o Reports(IF taken THEN current ELSE NoSequence, n)
     /\ UNCHANGED <<view, own, gate, asks, views>>

\* The input was handled without a Run: inputCompleted.
Complete ==
  /\ kid.input = "preflight"
  /\ kid' = [kid EXCEPT !.input = "none", !.current = NoSequence]
  /\ wire' = IF kid.current = NoSequence THEN wire
             ELSE Append(wire, Report("completed", kid.current))
  /\ UNCHANGED <<view, own, gate, asks, tty, views>>

\* A Run begins, of the input or of a Delivery; executionStarted takes the submission.
StartRun ==
  /\ kid.input \in {"preflight", "none"} /\ ~kid.started /\ Len(wire) < MaxWire
  /\ kid' = [kid EXCEPT !.started = TRUE, !.current = NoSequence]
  /\ wire' = Append(wire, Report("agent.start", NoSequence))
  /\ UNCHANGED <<view, own, gate, asks, tty, views>>

\* The prompt of an input whose Run began returns.
EndRun ==
  /\ kid.started
  /\ kid' = [kid EXCEPT !.started = FALSE, !.input = "none"]
  /\ UNCHANGED <<view, own, gate, asks, tty, wire, views>>

-----------------------------------------------------------------------------
(* The projection handles a report.                                        *)

Pending(o) == o.acked < o.latest

\* finishInput(sequence): the active submission when none is named.
Finish(o, n) ==
  IF n # NoSequence /\ o.active # n THEN o
  ELSE [o EXCEPT !.busy = FALSE, !.active = NoSequence, !.processing = Pending(o)]

Higher(m, n) == IF m < n THEN n ELSE m

Handled(o, r) ==
  CASE r.event = "acknowledged" ->
         LET a == [o EXCEPT !.acked = Higher(@, r.sequence)]
         IN IF a.busy \/ Pending(a) THEN a ELSE Finish(a, a.active)
    [] r.event = "started" ->
         [o EXCEPT !.busy = TRUE, !.active = r.sequence, !.processing = TRUE,
                   !.latest = Higher(@, r.sequence)]
    [] r.event = "completed" -> Finish(o, r.sequence)
    [] OTHER -> IF o.busy THEN Finish(o, NoSequence) ELSE o

Handle ==
  /\ wire # <<>> /\ wire' = Tail(wire)
  /\ own' = Handled(own, Head(wire))
  /\ UNCHANGED <<view, gate, asks, tty, kid, views>>

-----------------------------------------------------------------------------
Next == View \/ Hide \/ Type \/ Serve \/ Read(TRUE) \/ Read(FALSE)
        \/ Complete \/ StartRun \/ EndRun \/ Handle

Spec == Init /\ [][Next]_vars

\* The child serves, reads and works, and its reports arrive.
FairSpec ==
  /\ Spec /\ WF_vars(Serve) /\ WF_vars(Handle) /\ WF_vars(EndRun)
  /\ WF_vars(Read(TRUE) \/ Read(FALSE)) /\ WF_vars(Complete \/ StartRun)

-----------------------------------------------------------------------------
TypeOK ==
  /\ view \in {"no", "asked", "ready"} /\ views \in 0..MaxViews
  /\ own.latest \in 0..MaxKeys /\ own.acked <= own.latest
  /\ kid.input \in {"none", "preflight"} /\ tty \in 0..MaxKeys

\* When the projection says that no input is on its way, none is: nothing typed waits for
\* the editor or in the terminal, and the input the child prepares, if any, was overtaken
\* by a Run.  The release of a Runtime, which would lose the input, relies on it.
IdleIsTrue ==
  ~own.processing =>
    /\ gate.pending = 0 /\ tty = 0
    /\ kid.input = "preflight" => kid.started

\* What is typed is dealt with in the end, and the Runtime can be released: "an eligible
\* settled Runtime exits" (docs/child-ui-context.md).
InputBecomesIdle == own.processing ~> ~own.processing
=============================================================================
