------------------------- MODULE TerminalAttachment -------------------------
(***************************************************************************)
(* The attachment of the Owner's physical terminal to the selected child   *)
(* (presentation/physical-terminal-attachment.ts): a child is prepared     *)
(* behind the one that is shown, takes the terminal over once the old      *)
(* output is flushed, and is hidden when another takes its place.          *)
(*                                                                         *)
(* attach() and suspend() append an operation to operationTail; it runs    *)
(* when every earlier one has settled.  A child serves the requests to     *)
(* show and to hide it in the order they were sent.  What it prints is     *)
(* numbered, the frame it paints when it is shown included.                *)
(***************************************************************************)
EXTENDS Naturals, Sequences

CONSTANTS Views,     \* terminal projections
          NoView,    \* undefined
          MaxEvents, \* bound on what the user, the children and the terminal do
          MaxQueued  \* bound on the operations that have not settled

VARIABLES
  att,      \* the fields of the attachment, see Init
  ops,      \* operationTail: the operations that have not settled
  prep,     \* the preparation of the operation that runs
  child,    \* of each view: its requests, whether it is visible, what it printed
  spent,    \* events used
  torn      \* whether the terminal got anything but the next output of its child

vars == <<att, ops, prep, child, spent, torn>>

NoPrep == [view |-> NoView, cancelled |-> FALSE, hiding |-> FALSE, out |-> <<>>]

Init ==
  /\ att = [desired |-> NoView,    \* #desiredProjection
            shown |-> NoView,      \* #projection
            ready |-> FALSE,       \* #inputReady
            output |-> <<>>,       \* #pendingOutput
            routing |-> FALSE,     \* #outputRoutingActive
            blocked |-> NoView,    \* #backpressuredProjection, set while #outputDraining
            flushing |-> FALSE,    \* #outputFlushWaiters is not empty
            drains |-> {},         \* views whose waitForDrain() is open
            releasing |-> {},      \* #releasingProjections
            suspended |-> FALSE,   \* #ownerSuspended
            closed |-> FALSE]
  /\ ops = <<>>
  /\ prep = NoPrep
  /\ child = [v \in Views |-> [requests |-> <<>>, visible |-> FALSE,
                               printed |-> 0, due |-> 0]]
  /\ spent = 0 /\ torn = FALSE

Head1 == ops[1]
\* A continuation of the operation is due before any event is handled.
Continues == /\ ops # <<>> /\ ~att.flushing
             /\ Head1.pc \in {"flush", "write"}
Event == ~Continues /\ spent < MaxEvents /\ spent' = spent + 1

-----------------------------------------------------------------------------
(* Requests to a child: "show", "cancel" (the hide of a cancelled          *)
(* preparation) and "release" (the hide of a released child).              *)

Ask(cs, v, r) == [cs EXCEPT ![v].requests = Append(@, r)]
Asked(v, r) == \E i \in 1..Len(child[v].requests) : child[v].requests[i] = r

\* #settleOutputFlush
Settled(a) == [a EXCEPT !.flushing = @ /\ (a.output # <<>> \/ a.blocked # NoView)]

\* Mutant of Release: nobody who waits for the flush is told.
ReleaseSilently(a) ==
  [a EXCEPT !.shown = NoView, !.routing = FALSE, !.ready = FALSE,
            !.blocked = IF @ = a.shown THEN NoView ELSE @,
            !.releasing = @ \cup ({a.shown} \ {NoView})]
\* #releaseProjection: what was held back is let through, the child is hidden, and its
\* release is remembered until the child has hidden itself.
Release(a) ==
  Settled([a EXCEPT !.shown = NoView, !.routing = FALSE, !.ready = FALSE,
                    !.blocked = IF @ = a.shown THEN NoView ELSE @,
                    !.releasing = @ \cup ({a.shown} \ {NoView})])
ReleaseHides(cs, a) == IF a.shown = NoView THEN cs ELSE Ask(cs, a.shown, "release")


\* cancelPreparation: its handlers are removed and the child it was to show is hidden, once.
Cancel(p) == IF p.view = NoView THEN p ELSE [p EXCEPT !.cancelled = TRUE, !.hiding = TRUE]
CancelHides(cs, p) ==
  IF p.view = NoView \/ p.hiding THEN cs ELSE Ask(cs, p.view, "cancel")


\* #drainOutput: what is pending goes to the terminal, up to the first write after which
\* the terminal wants no more (the n-th, if it is among them): the child is paused then.
Write(a, n) ==
  LET full == n <= Len(a.output)
      left == IF full THEN SubSeq(a.output, n + 1, Len(a.output)) ELSE <<>>
  IN IF a.blocked # NoView \/ a.shown = NoView THEN a
     ELSE IF full THEN [a EXCEPT !.output = left, !.blocked = a.shown,
                                 !.drains = @ \cup {a.shown}]
     ELSE Settled([a EXCEPT !.output = left])

\* What the terminal got must be the next output of the child that is shown.
Got(before, after) == SubSeq(before.output, 1, Len(before.output) - Len(after.output))
DrainOutput(a, cs, n) ==
  LET w == Got(a, Write(a, n))
  IN /\ att' = Write(a, n)
     /\ torn' = (torn \/ \E i \in 1..Len(w) :
                           w[i] # [view |-> a.shown, n |-> cs[a.shown].due + i - 1])
     /\ child' = IF w = <<>> THEN cs ELSE [cs EXCEPT ![a.shown].due = @ + Len(w)]

-----------------------------------------------------------------------------
(* The user: what agent-view-surface calls when the selection changes, the *)
(* view is suspended, or it is closed.                                     *)

\* attach(projection)
Attach(v) ==
  /\ Event /\ ~att.closed /\ Len(ops) < MaxQueued
  /\ ops' = Append(ops, [kind |-> "attach", view |-> v, pc |-> "start"])
  /\ IF att.desired = v THEN UNCHANGED <<att, prep, child>>
     ELSE /\ att' = [att EXCEPT !.desired = v, !.ready = FALSE]
          /\ prep' = Cancel(prep)
          /\ child' = CancelHides(child, prep)
  /\ UNCHANGED torn

\* What suspend() and close() do at once: the Owner has its terminal back.
Withdraw(a) ==
  /\ att' = [Release([a EXCEPT !.desired = NoView, !.output = <<>>]) EXCEPT !.suspended = FALSE]
  /\ prep' = Cancel(prep)
  /\ child' = ReleaseHides(CancelHides(child, prep), a)
  /\ UNCHANGED torn

\* suspend()
Suspend ==
  /\ Event /\ ~att.closed /\ Len(ops) < MaxQueued
  /\ Withdraw(att)
  /\ ops' = Append(ops, [kind |-> "suspend", view |-> NoView, pc |-> "start"])

\* close(), by the user or because the child failed or ended (#failAttachment).
Close ==
  /\ Event /\ ~att.closed
  /\ Withdraw([att EXCEPT !.closed = TRUE])
  /\ UNCHANGED ops

-----------------------------------------------------------------------------
(* The operation that runs.                                                *)

Running(kind, pc) == ops # <<>> /\ Head1.kind = kind /\ Head1.pc = pc
Goto(pc) == ops' = [ops EXCEPT ![1].pc = pc]
Ends == ops' = Tail(ops)

Wanted(v) == ~att.closed /\ att.desired = v

\* #attach: nothing to do.
Skip ==
  /\ Running("attach", "start")
  /\ ~Wanted(Head1.view) \/ att.shown = Head1.view
  /\ Ends
  /\ att' = [att EXCEPT !.ready = @ \/ Wanted(Head1.view)]
  /\ UNCHANGED <<prep, child, spent, torn>>

\* #attach: once an earlier hide of this child has settled, it is asked to show itself.
Prepare ==
  /\ Running("attach", "start")
  /\ Wanted(Head1.view) /\ att.shown # Head1.view
  /\ Head1.view \notin att.releasing
  /\ Goto("show")
  /\ prep' = [NoPrep EXCEPT !.view = Head1.view]
  /\ child' = [Ask(child, Head1.view, "show") EXCEPT
                 ![Head1.view].due = child[Head1.view].printed + 1]
  /\ UNCHANGED <<att, spent, torn>>

\* Mutant of Shown: the old output is not waited for.
ShownAtOnce ==
  /\ Running("attach", "show") /\ ~Asked(Head1.view, "show")
  /\ prep.cancelled => ~Asked(Head1.view, "cancel")
  /\ Goto("flush")
  /\ prep' = [prep EXCEPT !.hiding = FALSE]
  /\ UNCHANGED <<att, child, spent, torn>>
\* It is shown; a cancelled preparation waits for its hide, and forgets it.
Shown ==
  /\ Running("attach", "show") /\ ~Asked(Head1.view, "show")
  /\ prep.cancelled => ~Asked(Head1.view, "cancel")
  /\ Goto("flush")
  /\ prep' = [prep EXCEPT !.hiding = FALSE]
  /\ att' = [att EXCEPT !.flushing = att.output # <<>> \/ att.blocked # NoView]
  /\ UNCHANGED <<child, spent, torn>>

\* The old output is flushed: the child takes the terminal over.
Take ==
  LET v == Head1.view
      a == Release(att)
      fresh == [a EXCEPT !.shown = v, !.output = @ \o prep.out,
                         !.suspended = TRUE, !.routing = TRUE]
  IN /\ Running("attach", "flush") /\ ~att.flushing
     /\ Wanted(v) /\ ~prep.cancelled
     /\ \E n \in 1..(Len(fresh.output) + 1) :
          LET w == Write(fresh, n)
          IN /\ DrainOutput([fresh EXCEPT !.flushing = w.output # <<>> \/ w.blocked # NoView],
                      ReleaseHides(child, att), n)
     /\ prep' = NoPrep /\ Goto("write")
     /\ UNCHANGED spent


\* Nobody wants it any more: it is hidden (again), and the operation waits for that.
Leave ==
  /\ Running("attach", "flush") /\ ~att.flushing
  /\ ~Wanted(Head1.view) \/ prep.cancelled
  /\ Goto("leave")
  /\ prep' = Cancel(prep)
  /\ child' = CancelHides(child, prep)
  /\ UNCHANGED <<att, spent, torn>>

Left ==
  /\ Running("attach", "leave") /\ ~Asked(Head1.view, "cancel")
  /\ prep' = NoPrep /\ Ends
  /\ UNCHANGED <<att, child, spent, torn>>

\* The frame is on the terminal: the child takes input.
Wrote ==
  /\ Running("attach", "write") /\ ~att.flushing
  /\ att' = [att EXCEPT !.ready = @ \/ Wanted(Head1.view)]
  /\ Ends
  /\ UNCHANGED <<prep, child, spent, torn>>

\* suspend() settles when the children it released are hidden.
Suspended ==
  /\ Running("suspend", "start") /\ att.releasing = {}
  /\ Ends
  /\ UNCHANGED <<att, prep, child, spent, torn>>

Continue == Skip \/ Prepare \/ Shown \/ Take \/ Leave \/ Left \/ Wrote \/ Suspended

-----------------------------------------------------------------------------
(* The children and the terminal.                                          *)

\* A child serves its first request, and the answer arrives.
Serve(v) ==
  /\ ~Continues /\ child[v].requests # <<>>
  /\ child' = [child EXCEPT ![v].requests = Tail(@), ![v].visible = child[v].requests[1] = "show"]
  /\ UNCHANGED <<att, ops, prep, spent, torn>>

\* The hide of a released child settled, and what it left in the terminal is drained.
Released(v) ==
  /\ v \in att.releasing \ att.drains /\ ~Asked(v, "release")
  /\ att' = [att EXCEPT !.releasing = @ \ {v}]
  /\ UNCHANGED <<ops, prep, child, spent, torn>>

\* A visible child prints; when its output is paused, at most what had been read already
\* arrives.  Its handler keeps what it prints for the preparation, or passes it on.
Emit(v) ==
  LET item == [view |-> v, n |-> child[v].printed + 1]
      cs == [child EXCEPT ![v].printed = @ + 1]
      a == [att EXCEPT !.output = Append(@, item)]
  IN /\ Event /\ child[v].visible /\ ~att.closed
     /\ att.blocked = v => att.output = <<>>
     /\ CASE v = att.shown -> /\ \E n \in 1..(Len(a.output) + 1) : DrainOutput(a, cs, n)
                              /\ UNCHANGED prep
          [] v = prep.view /\ ~prep.cancelled ->
               /\ prep' = [prep EXCEPT !.out = Append(@, item)]
               /\ child' = cs /\ UNCHANGED <<att, torn>>
          [] OTHER -> child' = cs /\ UNCHANGED <<att, prep, torn>>
     /\ UNCHANGED ops

\* The terminal takes output again: #resumeOutputAfterDrain.
Drained(v) ==
  /\ ~Continues /\ v \in att.drains
  /\ LET a == [att EXCEPT !.drains = @ \ {v}]
     IN IF a.blocked # v THEN att' = a /\ UNCHANGED <<child, torn>>
        ELSE \E n \in 1..(Len(a.output) + 1) :
               DrainOutput([a EXCEPT !.blocked = NoView], child, n)
  /\ UNCHANGED <<ops, prep, spent>>

-----------------------------------------------------------------------------
Step == Continue \/ \E v \in Views : Serve(v) \/ Released(v) \/ Drained(v)
Next == \/ \E v \in Views : Attach(v) \/ Emit(v)
        \/ Suspend \/ Close \/ Step

Spec == Init /\ [][Next]_vars

\* Continuations run, children answer their requests, and the terminal drains.
FairSpec ==
  /\ Spec /\ WF_vars(Continue)
  /\ \A v \in Views : WF_vars(Serve(v)) /\ WF_vars(Released(v)) /\ WF_vars(Drained(v))

-----------------------------------------------------------------------------
TypeOK ==
  /\ att.desired \in Views \cup {NoView} /\ att.shown \in Views \cup {NoView}
  /\ att.blocked \in {NoView, att.shown}
  /\ att.drains \subseteq Views /\ att.releasing \subseteq Views
  /\ prep.view \in Views \cup {NoView}
  /\ spent \in 0..MaxEvents

\* The terminal gets what the selected child printed since it was prepared, in order and
\* whole, and nothing of another child: preparation buffers, the old output is flushed before
\* the switch, and back-pressure pauses the child whose output is held.
OutputIsWhole == ~torn

\* When nothing is under way, the child that has the terminal is the desired one and the
\* only one that paints, the Owner's own TUI is suspended exactly then, and nothing it
\* printed is missing: a cancelled preparation and a replaced child are hidden again
\* however the operations overlapped.
AtRest == /\ ops = <<>> /\ att.releasing = {}
          /\ \A v \in Views : child[v].requests = <<>>
OnlyTheSelectedChildIsShown ==
  AtRest => /\ att.shown = att.desired
            /\ att.suspended = (att.shown # NoView)
            /\ \A v \in Views : child[v].visible = (v = att.shown)
            /\ att.shown # NoView /\ att.blocked = NoView =>
                 att.output = <<>> /\ child[att.shown].due = child[att.shown].printed + 1

\* The terminal shows the selected child, all of it and nothing else.
TerminalIsFaithful == OutputIsWhole /\ OnlyTheSelectedChildIsShown

\* Every attach() and suspend() settles: whoever waits for a flush, a hide or an earlier
\* operation is released by a suspension, a closing or a drain that comes in between.
OperationsSettle == (ops # <<>>) ~> (ops = <<>>)
=============================================================================
