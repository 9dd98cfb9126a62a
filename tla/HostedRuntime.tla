---------------------------- MODULE HostedRuntime ----------------------------
(***************************************************************************)
(* A child's Runtime as its own process reports it (ChildControlConnection *)
(* over the NativeSessionDriver) and as the Owner follows it               *)
(* (PiChildHostedRuntime): the identity and the edges of native Runs, the  *)
(* snapshot of the child's configuration, reload, quit and loss.           *)
(*                                                                         *)
(* Control carries frames in order (ControlChannel).  What is abstracted:  *)
(* a snapshot is its version, a Run end its outcome; Deliveries are the    *)
(* subject of TurnAdmission.  Pi reloads only while no Run is active.      *)
(***************************************************************************)
EXTENDS Naturals, Sequences

CONSTANTS MaxRuns,   \* native Runs Pi starts
          MaxEvents  \* selections, reloads, reads, requests, quits and losses

VARIABLES
  child,      \* the connection's state and the session it reports
  wire,       \* frames from the child the Owner has not handled
  asked,      \* requests from the Owner the child has not handled
  owner,      \* the fields of PiChildHostedRuntime
  refused,    \* a run-scoped request was refused: it named no reported Run
  overlapped, \* a Run started while the report of the one before was written
  events

vars == <<child, wire, asked, owner, refused, overlapped, events>>

\* n is the identity of a Run or the version of a snapshot; 0 stands for none.
Frame(kind, n, with) == [kind |-> kind, n |-> n, with |-> with]
Report(frame) == wire' = IF child.closed THEN wire ELSE Append(wire, frame)
Spend == events < MaxEvents /\ events' = events + 1

-----------------------------------------------------------------------------
(* The child.                                                               *)

\* agent_start: a Run takes over an identity that is still current.
Identified(c) == LET id == IF c.current # 0 THEN c.current ELSE c.sequence + 1
                 IN [c EXCEPT !.current = id, !.latest = id,
                              !.sequence = IF @ < id THEN id ELSE @]

\* Pi starts a native Run: from idle, as the continuation of one that ended, or
\* from a settlement hook, before the edge of the settled Run is notified.
RunStarts ==
  /\ child.bound /\ child.session \in {"idle", "ended"} /\ child.started < MaxRuns
  /\ \E hook \in IF child.session = "ended" THEN BOOLEAN ELSE {FALSE} :
       child' = [Identified(child) EXCEPT !.session = "streaming", !.edge = hook,
                                          !.started = @ + 1]
  /\ overlapped' = (overlapped \/ child.writing # <<>>)
  /\ Report(Frame("agent.start", child'.current, ""))
  /\ UNCHANGED <<asked, owner, refused, events>>

\* agent_end.
RunEnds(outcome) ==
  /\ child.session = "streaming" /\ ~child.edge
  /\ child' = [child EXCEPT !.session = "ended"]
  /\ IF child.current = 0 THEN UNCHANGED wire
                          ELSE Report(Frame("agent.end", child.current, outcome))
  /\ UNCHANGED <<asked, owner, refused, overlapped, events>>

\* agent_settled: the report is sent, and the identity is kept until it is written.
Settled(c) == [c EXCEPT !.writing = IF c.closed THEN @
                                    ELSE Append(@, <<c.current, c.generation>>)]
RunSettles ==
  /\ child.session = "ended"
  /\ IF child.current = 0
     THEN child' = [child EXCEPT !.session = "idle"] /\ UNCHANGED wire
     ELSE /\ child' = [Settled(child) EXCEPT !.session = "idle"]
          /\ Report(Frame("agent.settled", child.current, ""))
  /\ UNCHANGED <<asked, owner, refused, overlapped, events>>

\* The edge of a Run whose successor a hook has started is notified while the
\* session streams: it settles nothing.
\* Mutant of OldEdge: it is reported like any other.
OldEdgeReported ==
  /\ child.edge
  /\ child' = [Settled(child) EXCEPT !.edge = FALSE]
  /\ Report(Frame("agent.settled", child.current, ""))
  /\ UNCHANGED <<asked, owner, refused, overlapped, events>>

OldEdge ==
  /\ child.edge
  /\ child' = [child EXCEPT !.edge = FALSE]
  /\ UNCHANGED <<wire, asked, owner, refused, overlapped, events>>

\* The report is written: the identity it named is given up, unless a reload has
\* replaced the generation that reported.
SettlementWritten ==
  /\ child.writing # <<>>
  /\ child' = [child EXCEPT
       !.writing = Tail(@),
       !.current = IF child.bound /\ Head(child.writing) = <<@, child.generation>> THEN 0 ELSE @]
  /\ UNCHANGED <<wire, asked, owner, refused, overlapped, events>>

\* The model or the thinking level is selected.  Nothing reports it between two
\* generations; the next one publishes what it finds.
SelectModel ==
  /\ Spend
  /\ child' = [child EXCEPT !.version = @ + 1]
  /\ IF child.bound THEN Report(Frame("snapshot.changed", child'.version, "")) ELSE UNCHANGED wire
  /\ UNCHANGED <<asked, owner, refused, overlapped>>

\* completeStartup, after the inherited handlers of the first generation.
CompleteStartup ==
  /\ child.bound /\ ~child.complete /\ ~child.closed
  /\ child' = [child EXCEPT !.complete = TRUE]
  /\ wire' = wire \o <<Frame("snapshot.changed", child.version, ""),
                       Frame("startupComplete", child.version, "")>>
  /\ UNCHANGED <<asked, owner, refused, overlapped, events>>

EndGeneration(reason) ==
  /\ Spend /\ child.bound /\ child.complete /\ child.session = "idle"
  /\ child' = [child EXCEPT !.bound = FALSE, !.quit = @ \/ reason = "quit"]
  /\ Report(Frame("session.shutdown", 0, reason))
  /\ UNCHANGED <<asked, owner, refused, overlapped>>

Bind ==
  /\ ~child.bound /\ ~child.quit /\ ~child.closed
  /\ child' = [child EXCEPT !.bound = TRUE, !.generation = @ + 1]
  /\ Report(Frame("snapshot.changed", child.version, ""))
  /\ UNCHANGED <<asked, owner, refused, overlapped, events>>

\* requireReportedRun: a request must name a Run this child has reported; it need
\* not be the current one.
Reported(n) == n <= child.sequence

\* Requests are served by the generation bound when they arrive.  An interrupt ends the
\* Run that is active, which RunEnds shows.
Serve ==
  /\ asked # <<>> /\ ~child.closed
  /\ asked' = Tail(asked)
  /\ LET r == Head(asked)
         interrupts == r.kind = "run.interrupt" /\ child.bound
     IN /\ refused' = (refused \/ (interrupts /\ ~Reported(r.n)))
        /\ IF r.kind = "runtime.snapshot"
           THEN Report(IF child.bound THEN Frame("answer", child.version, "")
                                      ELSE Frame("refusal", 0, ""))
           ELSE UNCHANGED wire
  /\ UNCHANGED <<child, owner, overlapped, events>>

\* The process exits, after it quit, when the Owner disposes of it, or by accident;
\* what it wrote last may be lost.
Exit ==
  /\ ~child.closed
  /\ IF child.quit \/ owner.disposed THEN UNCHANGED events ELSE Spend
  /\ child' = [child EXCEPT !.closed = TRUE, !.writing = <<>>]
  /\ \E n \in 0 .. Len(wire) : wire' = SubSeq(wire, 1, n)
  /\ asked' = <<>>
  /\ UNCHANGED <<owner, refused, overlapped>>

-----------------------------------------------------------------------------
(* The Owner.                                                               *)

Lost(o, why) ==
  IF o.lost # "no" THEN o
  ELSE [o EXCEPT !.lost = why, !.work = "unavailable", !.current = 0, !.aborted = TRUE,
                 !.ended = IF why # "shutdown" /\ (o.observed \/ o.snapshot # 0) THEN @ + 1 ELSE @]

\* #acceptsLifecycleEvent
Accepts(o, f) == o.current = f.n \/ (f.kind = "agent.start" /\ o.current = 0)

Lifecycle(o, f) ==
  IF ~Accepts(o, f) THEN Lost(o, "stale_run")
  ELSE LET followed == [o EXCEPT !.current = f.n, !.latest = f.n, !.observed = TRUE]
       IN CASE f.kind = "agent.start" -> [followed EXCEPT !.work = "active", !.aborted = FALSE]
            [] f.kind = "agent.end" -> [o EXCEPT !.aborted = @ \/ f.with = "aborted"]
            [] OTHER -> [o EXCEPT !.work = "settled", !.current = 0]

\* #handleEvent, and the response to synchronizeState.
Handled(o, f) ==
  CASE f.kind = "answer" -> [o EXCEPT !.reading.answer = f.n, !.reading.step = "answered"]
    [] f.kind = "refusal" -> [o EXCEPT !.reading.step = "no"]
    [] f.kind = "startupComplete" ->
         IF o.admission = "pending" THEN [o EXCEPT !.admission = "checked", !.launch = f.n] ELSE o
    [] f.kind = "snapshot.changed" /\ o.lost = "no" ->
         [o EXCEPT !.revision = @ + 1, !.snapshot = f.n]
    [] f.kind \in {"agent.start", "agent.end", "agent.settled"} /\ o.lost = "no" -> Lifecycle(o, f)
    [] OTHER -> o

\* Only the Workflow can accept a quit as orderly: while the child is shown.
HandleEvent ==
  /\ wire # <<>>
  /\ wire' = Tail(wire)
  /\ IF Head(wire).with = "quit" /\ ~owner.disposed /\ owner.lost = "no"
     THEN \/ owner' = [Lost(owner, "shutdown") EXCEPT !.disposed = TRUE]
          \/ UNCHANGED owner
     ELSE owner' = Handled(owner, Head(wire))
  /\ UNCHANGED <<child, asked, refused, overlapped, events>>

\* The launch's snapshot is compared with the configuration, which reads files, and
\* only then adopted.
Admit ==
  /\ owner.admission = "checked" /\ owner.lost = "no"
  /\ owner' = [owner EXCEPT !.admission = "admitted", !.snapshot = owner.launch]
  /\ UNCHANGED <<child, wire, asked, refused, overlapped, events>>

RefuseAdmission ==
  /\ Spend
  /\ owner.admission \in {"pending", "checked"} /\ owner.lost = "no"
  /\ owner' = [Lost(owner, "launch") EXCEPT !.admission = "refused"]
  /\ UNCHANGED <<child, wire, asked, refused, overlapped>>

\* synchronizeState: the response is adopted by a continuation, unless an event was
\* handled in between.
Read ==
  /\ Spend /\ owner.admission = "admitted" /\ owner.lost = "no" /\ owner.reading.step = "no"
  /\ owner' = [owner EXCEPT !.reading = [step |-> "asked", revision |-> owner.revision,
                                         answer |-> 0]]
  /\ asked' = Append(asked, Frame("runtime.snapshot", 0, ""))
  /\ UNCHANGED <<child, wire, refused, overlapped>>

Current(reading) == reading.revision = owner.revision

AdoptAnswer ==
  /\ owner.reading.step = "answered"
  /\ owner' = [owner EXCEPT !.reading.step = "no",
       !.snapshot = IF Current(owner.reading) THEN owner.reading.answer ELSE @]
  /\ UNCHANGED <<child, wire, asked, refused, overlapped, events>>

\* abort and clearQueue name the current Run or the newest one.
Interrupt ==
  /\ Spend /\ owner.admission = "admitted" /\ owner.lost = "no" /\ ~owner.disposed
  /\ LET run == IF owner.current # 0 THEN owner.current ELSE owner.latest
     IN run # 0 /\ asked' = Append(asked, Frame("run.interrupt", run, ""))
  /\ UNCHANGED <<child, wire, owner, refused, overlapped>>

Dispose ==
  /\ Spend /\ ~owner.disposed
  /\ owner' = [owner EXCEPT !.disposed = TRUE]
  /\ UNCHANGED <<child, wire, asked, refused, overlapped>>

\* The end of the transport is observed after the frames before it.
ObserveClose ==
  /\ child.closed /\ wire = <<>> /\ owner.lost = "no" /\ ~owner.disposed
  /\ owner' = Lost(owner, "failure")
  /\ UNCHANGED <<child, wire, asked, refused, overlapped, events>>

-----------------------------------------------------------------------------
Init ==
  /\ child = [session |-> "idle", started |-> 0, current |-> 0, latest |-> 0, sequence |-> 0,
              writing |-> <<>>, edge |-> FALSE, bound |-> TRUE, generation |-> 1,
              version |-> 1, complete |-> FALSE, quit |-> FALSE, closed |-> FALSE]
  /\ wire = <<>> /\ asked = <<>>
  /\ owner = [admission |-> "pending", launch |-> 0, snapshot |-> 0, revision |-> 0,
              work |-> "settled", current |-> 0, latest |-> 0, observed |-> FALSE,
              aborted |-> FALSE, lost |-> "no", ended |-> 0, disposed |-> FALSE,
              reading |-> [step |-> "no", revision |-> 0, answer |-> 0]]
  /\ refused = FALSE /\ overlapped = FALSE /\ events = 0

Next ==
  \/ RunStarts \/ RunSettles \/ OldEdge \/ SettlementWritten
  \/ \E outcome \in {"completed", "aborted"} : RunEnds(outcome)
  \/ SelectModel \/ CompleteStartup \/ Bind \/ Serve \/ Exit
  \/ \E reason \in {"reload", "quit"} : EndGeneration(reason)
  \/ HandleEvent \/ Admit \/ RefuseAdmission \/ Read \/ AdoptAnswer
  \/ Interrupt \/ Dispose \/ ObserveClose

Spec == Init /\ [][Next]_vars
-----------------------------------------------------------------------------
TypeOK ==
  /\ child.session \in {"idle", "streaming", "ended"} /\ (child.edge => child.session = "streaming")
  /\ child.current \in {0, child.latest} /\ child.latest <= child.sequence
  /\ owner.work \in {"settled", "active", "unavailable"}
  /\ (owner.work = "unavailable" <=> owner.lost # "no")
  /\ owner.ended <= 1

Quiet == /\ wire = <<>> /\ child.writing = <<>> /\ ~child.edge /\ ~child.closed
         /\ owner.reading.step = "no" /\ owner.lost = "no"

\* What the Owner believes of the child is what the child does: no native Run is
\* taken for a stale one, and once every report has been written and handled the Owner
\* shows the child active exactly while Pi's session is.
OwnerFollowsTheChild ==
  /\ owner.lost # "stale_run"
  /\ Quiet => (owner.work = "active" <=> child.session # "idle")

\* The same, as long as no Run starts while the settlement of the one before it is
\* still being written.
OwnerFollowsUnlessOverlapped == overlapped \/ OwnerFollowsTheChild

\* The Owner's snapshot, from which descendants inherit, is the child's present
\* configuration once every report has been handled.
SnapshotFollowsTheChild ==
  Quiet /\ child.bound /\ owner.admission = "admitted" => owner.snapshot = child.version

\* A run-scoped request is never refused as drift, however many Runs the child has
\* started since the Owner chose the identity, through reloads and continuations.
InterruptsAreRecognised == ~refused

\* The Owner keeps up with the child's Runs, and the child with the Owner's requests, while
\* each is a report behind the other.
OwnerKeepsUp == OwnerFollowsUnlessOverlapped /\ InterruptsAreRecognised
=============================================================================
