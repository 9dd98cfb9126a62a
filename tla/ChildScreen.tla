----------------------------- MODULE ChildScreen -----------------------------
(***************************************************************************)
(* The screen of a child as a host without a terminal of its own shows it: *)
(* the Owner parses what the child prints only while a view holds the      *)
(* screen (beginScreenView and hidePresentation in                         *)
(* pi-child-process-runtime.ts, the consumers and the frame waiter in      *)
(* pty-terminal-projection.ts, the native TUI in                           *)
(* interactive-presentation.ts).                                           *)
(*                                                                         *)
(* A view is opened and closed, the next one opened; each is one call of   *)
(* beginScreenView.  The child serves the requests in order, and its       *)
(* output is not ordered with its answers.                                 *)
(***************************************************************************)
EXTENDS Naturals, Sequences

CONSTANTS Calls,     \* calls of beginScreenView, 1..n in the order they are made
          MaxPaints  \* frames the child paints of its own accord

VARIABLES
  calls,   \* of each call: "none", "open", "frame", "held", "over" or "failed"
  own,     \* the Owner's presentation: revision, held, outcome of the held view
  grid,    \* the parser: consumers, suspended, waiter, stale
  trans,   \* queued suspensions of the parser
  asks,    \* visibility requests not served
  tui,     \* the child: requested, required (by a Human Request), output on its way
  paints

vars == <<calls, own, grid, trans, asks, tui, paints>>

None == 0
Visible(t) == t.requested \/ t.required

\* The child is admitted and hidden, and its output is not parsed.
Init ==
  /\ calls = [i \in Calls |-> [at |-> "none", revision |-> 0]]
  /\ own = [revision |-> 0, held |-> None, complete |-> FALSE]
  /\ grid = [consumers |-> {}, suspended |-> TRUE, waiter |-> None,
             complete |-> [i \in Calls |-> FALSE], stale |-> TRUE]
  /\ trans = 0 /\ asks = <<>> /\ paints = 0
  /\ tui = [requested |-> FALSE, required |-> FALSE, output |-> <<>>]

At(i, pc) == calls[i].at = pc
Goto(i, pc) == calls' = [calls EXCEPT ![i].at = pc]
Called == {i \in Calls : calls[i].at # "none"}
Opened == \E i \in Called : calls[i].at \in {"open", "frame"}

-----------------------------------------------------------------------------
(* pty-terminal-projection: who reads the screen.                          *)

Parsing(g) == g.consumers # {} \/ ~g.suspended

\* addScreenConsumer resumes parsing at once.
Consume(g, i) == [g EXCEPT !.consumers = @ \cup {i}, !.suspended = FALSE]
\* Its release queues a suspension with the last one.
Released(g, i) == [g EXCEPT !.consumers = @ \ {i}]
Queues(g, i) == IF i \in g.consumers /\ g.consumers = {i} THEN trans + 1 ELSE trans

\* A queued suspension: a view that came in the meantime keeps the parser running.
Suspend ==
  /\ trans > 0 /\ trans' = trans - 1
  /\ grid' = IF grid.consumers # {} THEN grid ELSE [grid EXCEPT !.suspended = TRUE]
  /\ UNCHANGED <<calls, own, asks, tui, paints>>

\* Mutant of Completes: the end of any frame will do.
CompletesWithAny(frame) == TRUE
\* Only a frame that erased the display settles the waiter.
Completes(frame) == frame = "full"

\* What the child printed arrives: it is parsed or lost to the grid.
Arrive ==
  /\ tui.output # <<>>
  /\ tui' = [tui EXCEPT !.output = Tail(@)]
  /\ LET frame == Head(tui.output)
         done == grid.waiter # None /\ Completes(frame)
     IN grid' = IF ~Parsing(grid) THEN [grid EXCEPT !.stale = TRUE]
                ELSE [grid EXCEPT !.stale = @ /\ frame # "full",
                                  !.complete = IF done THEN [@ EXCEPT ![grid.waiter] = TRUE] ELSE @,
                                  !.waiter = IF done THEN None ELSE @]
  /\ UNCHANGED <<calls, own, trans, asks, paints>>

\* The bound on the wait expires.
Bounded ==
  /\ grid.waiter # None
  /\ grid' = [grid EXCEPT !.waiter = None]
  /\ UNCHANGED <<calls, own, trans, asks, tui, paints>>

-----------------------------------------------------------------------------
(* pi-child-process-runtime: the views.                                    *)

\* beginScreenView.  A second wait for a frame throws, after the screen was taken.
Begin(i) ==
  /\ At(i, "none") /\ i - 1 \in Called \cup {None}
  /\ \A j \in Called : j < i => calls[j].at \in {"over", "failed"} \/ calls[j].revision # own.revision
  /\ IF own.held # None THEN Goto(i, "over") /\ UNCHANGED <<own, grid, asks>>
     ELSE /\ own' = [own EXCEPT !.revision = @ + 1]
          /\ IF grid.waiter # None
             THEN grid' = Consume(grid, i) /\ Goto(i, "failed") /\ UNCHANGED asks
             ELSE /\ grid' = [Consume(grid, i) EXCEPT !.waiter = i]
                  /\ asks' = Append(asks, i)
                  /\ calls' = [calls EXCEPT ![i] = [at |-> "open", revision |-> own.revision + 1]]
  /\ UNCHANGED <<trans, tui, paints>>

\* The frame is complete, or the bound expired: a hide in between owns the visibility.
Finish(i) ==
  /\ At(i, "frame") /\ grid.waiter # i
  /\ IF calls[i].revision # own.revision
     THEN /\ grid' = Released(grid, i) /\ trans' = Queues(grid, i)
          /\ Goto(i, "over") /\ UNCHANGED own
     ELSE /\ own' = [own EXCEPT !.held = i, !.complete = grid.complete[i]]
          /\ Goto(i, "held") /\ UNCHANGED <<grid, trans>>
  /\ UNCHANGED <<asks, tui, paints>>

\* hidePresentation, when the view that was opened last is closed.
Hide ==
  /\ \E i \in Called : calls[i].revision = own.revision /\ calls[i].at \in {"open", "frame", "held"}
  /\ own' = [own EXCEPT !.revision = @ + 1, !.held = None, !.complete = FALSE]
  /\ IF own.held = None THEN UNCHANGED <<grid, trans, calls>>
     ELSE /\ grid' = Released(grid, own.held) /\ trans' = Queues(grid, own.held)
          /\ Goto(own.held, "over")
  /\ asks' = Append(asks, None)
  /\ UNCHANGED <<tui, paints>>

-----------------------------------------------------------------------------
(* interactive-presentation: the child's native TUI.                       *)

\* setVisible: a show paints a complete frame, also when the TUI ran already.
Serve ==
  /\ asks # <<>> /\ asks' = Tail(asks)
  /\ tui' = [tui EXCEPT !.requested = Head(asks) # None,
                        !.output = IF Head(asks) # None THEN Append(@, "full") ELSE @]
  /\ IF Head(asks) = None THEN UNCHANGED calls ELSE Goto(Head(asks), "frame")
  /\ UNCHANGED <<own, grid, trans, paints>>

\* setNativeEditorRequired: a Human Request begins or ends.
Require ==
  /\ paints < MaxPaints /\ paints' = paints + 1
  /\ tui' = [tui EXCEPT !.required = ~@,
                        !.output = IF Visible(tui) THEN @ ELSE Append(@, "full")]
  /\ UNCHANGED <<calls, own, grid, trans, asks>>

\* A running TUI paints what changed.
Paint ==
  /\ Visible(tui) /\ paints < MaxPaints /\ paints' = paints + 1
  /\ tui' = [tui EXCEPT !.output = Append(@, "part")]
  /\ UNCHANGED <<calls, own, grid, trans, asks>>

-----------------------------------------------------------------------------
Next == \/ \E i \in Calls : Begin(i) \/ Finish(i)
        \/ Hide \/ Serve \/ Require \/ Paint \/ Arrive \/ Bounded \/ Suspend

Spec == Init /\ [][Next]_vars

-----------------------------------------------------------------------------
TypeOK ==
  /\ \A i \in Calls : calls[i].at \in {"none", "open", "frame", "held", "over", "failed"}
  /\ own.held \in Calls \cup {None} /\ grid.waiter \in Calls \cup {None}
  /\ grid.consumers \subseteq Calls /\ trans \in Nat

\* A view whose handoff completed shows the child's current screen: nothing the child
\* printed since its complete frame went by unparsed, whatever views were opened and closed
\* before it and whatever the child painted of its own accord meanwhile.
HeldScreenIsCurrent == own.held # None /\ own.complete => ~grid.stale /\ Parsing(grid)

\* A child nobody watches is not parsed: "The hidden state resumes on hide"
\* (pi-child-process-runtime.ts).
HiddenStateResumes ==
  ~Opened /\ own.held = None /\ trans = 0 => ~Parsing(grid)
=============================================================================
