-------------------------- MODULE RuntimeSupervisor --------------------------
(***************************************************************************)
(* How one child Agent's Runtime is started, prepared without a Run,       *)
(* admitted, released and torn down                                        *)
(* (src/src/runtime/agent-runtime-supervisor.ts), with the callers that    *)
(* use it: Delivery, the human's selection, agent_control abort and the    *)
(* shutdown of the Workflow.  What a live Run does with its input is       *)
(* MessageDelivery.                                                        *)
(*                                                                         *)
(* The Agent lane is the queue of its operations, whose head runs          *)
(* (SerialLane models the lane itself).  Each step is the code between two *)
(* awaits.                                                                 *)
(***************************************************************************)
EXTENDS Naturals, Sequences, FiniteSets

CONSTANTS MaxRuntimes,    \* bound on the child Runtimes launched
          MaxOperations,  \* bound on the operations asked of the lane
          MaxFaults,      \* bound on startups, initializers and handlers that fail
          MaxTurns        \* bound on the inputs and compactions of the Runtimes

VARIABLES sup,         \* the fields of the supervisor
          lane,        \* operations in the lane, the running one first
          detached,    \* preparations that gave the lane up before they were ready
          finalizing,  \* preparations whose finally is still to run
          ready,       \* startup readiness of each Runtime launched
          disposed,    \* Runtimes disposed
          busy,        \* what the bound Runtime is busy with, outside its turns
          ended,       \* the Runs reported ended
          wanted,      \* a release was retained for a reason that passes by itself
          stopped,     \* shutdown has ended the Agent
          counts       \* operations, faults and turns spent

vars == <<sup, lane, detached, finalizing, ready, disposed, busy, ended, wanted, stopped, counts>>

None == 0
Kinds == {"start", "prepare", "release", "abort", "failure", "shutdown"}
Runtimes == 1..Len(ready)

TypeOK ==
  /\ sup.runtime \in {None} \cup Runtimes
  /\ {sup.handle, sup.startingHandle, sup.attention} \subseteq None..sup.seq
  /\ {sup.admitted, sup.failed, sup.starting, sup.passive, sup.cancelRequested, sup.closed,
      sup.ending, sup.pendingAbort} \subseteq BOOLEAN
  /\ sup.prepared \in {None} \cup Runtimes
  /\ sup.reasons \subseteq {"interactive_selection", "pending_delivery"}
  /\ sup.deferred \subseteq {"input", "activity", "timer"}
  /\ \A i \in 1..Len(lane) : lane[i].kind \in Kinds \cup {"classify"}
  /\ detached \subseteq Runtimes /\ finalizing \subseteq Runtimes /\ disposed \subseteq Runtimes
  /\ ready \in Seq({"pending", "cancelled", "ready", "failed"})
  /\ busy \subseteq {"input", "compaction"}
  /\ ended \subseteq 1..sup.seq
  /\ {wanted, stopped} \subseteq BOOLEAN

Init ==
  /\ sup = [runtime |-> None, admitted |-> FALSE, handle |-> None, failed |-> FALSE,
            starting |-> FALSE, passive |-> FALSE, startingHandle |-> None, prepared |-> None,
            cancelRequested |-> FALSE, pendingAbort |-> FALSE, closed |-> FALSE, ending |-> FALSE,
            reasons |-> {}, attention |-> None, seq |-> 0, deferred |-> {}]
  /\ lane = <<>> /\ ready = <<>>
  /\ detached = {} /\ finalizing = {} /\ disposed = {}
  /\ busy = {}
  /\ ended = {}
  /\ wanted = FALSE /\ stopped = FALSE
  /\ counts = [operations |-> 0, faults |-> 0, turns |-> 0]

-----------------------------------------------------------------------------
(* What the methods do to the fields *)

\* observe().phase = "starting": a passive preparation does not count.
PhaseStarting(s) == s.starting /\ ~s.passive

\* currentHandle()
CurrentHandle(s) == IF s.admitted THEN s.handle ELSE s.startingHandle

\* #clearRunScopedState
ClearRunScopedState(s, keepsSelection) ==
  [s EXCEPT !.reasons = IF keepsSelection THEN @ \cap {"interactive_selection"} ELSE {},
            !.cancelRequested = FALSE, !.passive = FALSE, !.prepared = None, !.attention = None]

\* #bindRuntime of the Runtime g: not yet admitted.
BindRuntime(s, g) ==
  [s EXCEPT !.runtime = g, !.admitted = FALSE, !.handle = None, !.failed = FALSE,
            !.deferred = {}, !.ending = FALSE]

\* #markPreparedRunAdmitted up to its await: the Run gets the handle its startup
\* reserved, or a new one; a deferred release of the preparation is forgotten.
MarkPreparedRunAdmitted(s) ==
  [s EXCEPT !.handle = IF s.startingHandle # None THEN s.startingHandle ELSE s.seq + 1,
            !.seq = IF s.startingHandle # None THEN @ ELSE @ + 1,
            !.startingHandle = None, !.admitted = TRUE, !.deferred = @ \ {"timer", "activity"}]

\* The finally of #ensureRuntimeInLane.
StartupSettles(s) ==
  [s EXCEPT !.startingHandle = None, !.starting = FALSE,
            !.passive = IF s.starting THEN FALSE ELSE @]

\* The Runtime is gone: #runtime = undefined.
Unbind(s) == [s EXCEPT !.runtime = None, !.admitted = FALSE, !.handle = None, !.failed = FALSE,
                       !.deferred = {}]

\* The Runtime stays, without a Run; it keeps the handle of the one that ended.
Retain(s) == [s EXCEPT !.admitted = FALSE, !.failed = FALSE]

\* #notifyEnded of the Run h, if there is one.
RunsEnded(h) == ended \cup ({h} \ {None})

\* projection.cancelInitialization: has an effect only before startup has settled.
Cancels(g) == [ready EXCEPT ![g] = IF @ = "pending" THEN "cancelled" ELSE @]

\* Mutant of Disposes: a child whose startup failed is taken for gone.
DisposesReady(g) == /\ disposed' = IF ready[g] = "ready" THEN disposed \cup {g} ELSE disposed
                    /\ ready' = [ready EXCEPT ![g] = IF @ = "ready" THEN @ ELSE "failed"]

\* Disposal kills the child: a startup still pending fails.
Disposes(g) == /\ disposed' = disposed \cup {g}
               /\ ready' = [ready EXCEPT ![g] = IF @ = "ready" THEN @ ELSE "failed"]

Head1 == lane[1]
AtHead(kinds, pc) == lane # <<>> /\ Head1.kind \in kinds /\ Head1.pc = pc
GoesTo(pc) == lane' = [lane EXCEPT ![1].pc = pc]
Returns == lane' = Tail(lane)
Starts == {"start", "prepare"}
Settled(g) == ready[g] \in {"ready", "failed"}
Spend(what) == counts' = [counts EXCEPT ![what] = @ + 1]
CanFail == counts.faults < MaxFaults

-----------------------------------------------------------------------------
(* Callers *)

\* An operation is queued by Delivery (start, release, failure), by the human's
\* selection (prepare), which releases the same way, or by agent_control abort.
Ask(kind) ==
  /\ counts.operations < MaxOperations
  /\ kind \in Kinds \ {"shutdown", "abort"}
  /\ kind = "failure" => sup.failed
  /\ lane' = Append(lane, [kind |-> kind, pc |-> "queued", gen |-> None, fence |-> "no"])
  /\ Spend("operations")
  /\ UNCHANGED <<sup, detached, finalizing, ready, disposed, busy, ended, wanted, stopped>>

\* RunSupervisor.execute of an abort: when the Run is starting, its initialization is
\* cancelled at once and later admissions are fenced until the receipt, then the lane.
AskAbort ==
  /\ counts.operations < MaxOperations
  /\ \/ /\ PhaseStarting(sup) /\ sup.runtime # None /\ ~sup.pendingAbort
        /\ sup' = [sup EXCEPT !.pendingAbort = TRUE,
                              !.cancelRequested = @ \/ ready[sup.runtime] = "pending"]
        /\ ready' = Cancels(sup.runtime)
        /\ lane' = Append(lane, [kind |-> "abort", pc |-> "queued", gen |-> sup.runtime,
                                 fence |-> IF ready[sup.runtime] = "pending" THEN "cancelled" ELSE "late"])
     \/ /\ ~(PhaseStarting(sup) /\ sup.runtime # None /\ ~sup.pendingAbort)
        /\ lane' = Append(lane, [kind |-> "abort", pc |-> "queued", gen |-> None, fence |-> "no"])
        /\ UNCHANGED <<sup, ready>>
  /\ Spend("operations")
  /\ UNCHANGED <<detached, finalizing, disposed, busy, ended, wanted, stopped>>

\* Shutdown of the Workflow: beginShutdown, then the discard is queued.
BeginShutdown ==
  /\ ~sup.closed
  /\ sup' = [sup EXCEPT !.closed = TRUE,
                        !.cancelRequested = @ \/ (/\ sup.runtime # None
                                                  /\ sup.starting \/ sup.prepared # None
                                                  /\ ready[sup.runtime] = "pending")]
  /\ ready' = IF sup.runtime # None /\ (sup.starting \/ sup.prepared # None)
                THEN Cancels(sup.runtime) ELSE ready
  /\ lane' = Append(lane, [kind |-> "shutdown", pc |-> "queued", gen |-> None, fence |-> "no"])
  /\ UNCHANGED <<detached, finalizing, disposed, busy, ended, wanted, stopped, counts>>

\* addRetentionReason and removeRetentionReason of the selection, whose view has a
\* projection of the bound Runtime.
Select(on) ==
  /\ sup.runtime # None
  /\ on <=> "interactive_selection" \notin sup.reasons
  /\ sup' = [sup EXCEPT !.reasons = IF on THEN @ \cup {"interactive_selection"}
                                          ELSE @ \ {"interactive_selection"}]
  /\ UNCHANGED <<lane, detached, finalizing, ready, disposed, busy, ended, wanted, stopped, counts>>

-----------------------------------------------------------------------------
(* #ensureRuntimeInLane: startInLane and prepareInLane *)

Admits == Head1.kind = "start"
Reason == IF Admits THEN "pending_delivery" ELSE "interactive_selection"

\* The startup is refused: an abort's receipt is pending, or the Workflow shuts down.
Fenced(s, admits) ==
  \/ s.pendingAbort
  \/ /\ s.closed
     /\ s.runtime = None \/ (admits /\ ~s.admitted)

\* Nothing to do: the Runtime is bound, and has the Run that is asked for.
Present(s, admits) == s.runtime # None /\ (s.admitted \/ ~admits)

EnsureReturns ==
  /\ AtHead(Starts, "queued")
  /\ Fenced(sup, Admits) \/ Present(sup, Admits)
  /\ sup' = IF Fenced(sup, Admits) THEN sup ELSE [sup EXCEPT !.reasons = @ \cup {Reason}]
  /\ Returns
  /\ UNCHANGED <<detached, finalizing, ready, disposed, busy, ended, wanted, stopped, counts>>

\* The prepared Runtime is admitted as a Run.
EnsureAdmits ==
  /\ AtHead({"start"}, "queued")
  /\ ~Fenced(sup, TRUE) /\ sup.runtime # None /\ ~sup.admitted
  /\ sup' = MarkPreparedRunAdmitted([sup EXCEPT !.reasons = @ \cup {Reason},
                                                !.starting = TRUE, !.passive = FALSE])
  /\ wanted' = FALSE
  /\ GoesTo("initializing")
  /\ UNCHANGED <<detached, finalizing, ready, disposed, busy, ended, stopped, counts>>

\* A session is started; a Run owns its handle before it has a Runtime.
EnsureLaunches ==
  /\ AtHead(Starts, "queued")
  /\ ~Fenced(sup, Admits) /\ sup.runtime = None
  /\ Len(ready) < MaxRuntimes
  /\ sup' = [sup EXCEPT !.starting = TRUE, !.passive = ~Admits,
                        !.seq = IF Admits THEN @ + 1 ELSE @,
                        !.startingHandle = IF Admits THEN sup.seq + 1 ELSE @,
                        !.reasons = @ \cup {Reason}]
  /\ GoesTo("launching")
  /\ UNCHANGED <<detached, finalizing, ready, disposed, busy, ended, wanted, stopped, counts>>

\* startSession resolves for a Run: it is bound, admitted, and initialized.
SessionStarts ==
  /\ AtHead({"start"}, "launching")
  /\ ready' = Append(ready, "pending")
  /\ sup' = MarkPreparedRunAdmitted(BindRuntime(sup, Len(ready) + 1))
  /\ lane' = [lane EXCEPT ![1].pc = "initializing", ![1].gen = Len(ready) + 1]
  /\ UNCHANGED <<detached, finalizing, disposed, busy, ended, wanted, stopped, counts>>

\* startSession resolves for a passive preparation: it publishes its Runtime and gives
\* the lane up before it is ready, unless the Workflow shuts down.
SessionPrepared ==
  /\ AtHead({"prepare"}, "launching")
  /\ LET g == Len(ready) + 1 IN
     \/ /\ ~sup.closed
        /\ ready' = Append(ready, "pending")
        /\ sup' = [BindRuntime(sup, g) EXCEPT !.prepared = g]
        /\ detached' = detached \cup {g}
        /\ Returns
     \/ /\ sup.closed
        /\ ready' = Append(ready, "cancelled")
        /\ sup' = [BindRuntime(sup, g) EXCEPT !.cancelRequested = TRUE]
        /\ lane' = [lane EXCEPT ![1].pc = "unready", ![1].gen = g]
        /\ UNCHANGED detached
  /\ UNCHANGED <<finalizing, disposed, busy, ended, wanted, stopped, counts>>

\* startSession rejects.
SessionFails ==
  /\ AtHead(Starts, "launching")
  /\ CanFail /\ Spend("faults")
  /\ GoesTo("failed")
  /\ UNCHANGED <<sup, detached, finalizing, ready, disposed, busy, ended, wanted, stopped>>

\* The initializer of the Run's relationships settles.  A Workflow that shuts down
\* meanwhile cancels the startup: a new Runtime settles its readiness first.
InitializerSettles ==
  /\ AtHead({"start"}, "initializing")
  /\ \/ /\ ~sup.closed
        /\ GoesTo("announcing")
        /\ UNCHANGED <<sup, ready>>
     \/ /\ sup.closed
        /\ sup' = [sup EXCEPT !.cancelRequested = TRUE]
        /\ ready' = IF Head1.gen = None THEN ready ELSE Cancels(Head1.gen)
        /\ GoesTo(IF Head1.gen = None THEN "discarding" ELSE "unready")
  /\ UNCHANGED <<detached, finalizing, disposed, busy, ended, wanted, stopped, counts>>

\* The initializer, or the handler of the started Run, throws.  A new Runtime is
\* cancelled and its readiness awaited before the failure is classified.
StartHandlerThrows ==
  /\ AtHead({"start"}, Head1.pc) /\ Head1.pc \in {"initializing", "announcing"}
  /\ CanFail /\ Spend("faults")
  /\ ready' = IF Head1.gen = None THEN ready ELSE Cancels(Head1.gen)
  /\ GoesTo(IF Head1.gen = None THEN "discarding" ELSE "unready")
  /\ UNCHANGED <<sup, detached, finalizing, disposed, busy, ended, wanted, stopped>>

\* The handler of the started Run settles: the admission of a prepared Runtime
\* returns, a new one awaits its readiness.
RunStarted ==
  /\ AtHead({"start"}, "announcing")
  /\ \/ /\ Head1.gen = None
        /\ sup' = [sup EXCEPT !.starting = FALSE, !.passive = FALSE]
        /\ Returns
     \/ /\ Head1.gen # None
        /\ GoesTo("readying")
        /\ UNCHANGED sup
  /\ UNCHANGED <<detached, finalizing, ready, disposed, busy, ended, wanted, stopped, counts>>

\* Startup has completed: the Run is live.
StartReady ==
  /\ AtHead({"start"}, "readying")
  /\ ready[Head1.gen] = "ready"
  /\ sup' = StartupSettles([sup EXCEPT !.prepared = None])
  /\ Returns
  /\ UNCHANGED <<detached, finalizing, ready, disposed, busy, ended, wanted, stopped, counts>>

\* Startup failed, or was cancelled and has settled.
StartUnready ==
  /\ \/ AtHead({"start"}, "readying") /\ ready[Head1.gen] = "failed"
     \/ AtHead(Starts, "unready") /\ Settled(Head1.gen)
  /\ GoesTo("failed")
  /\ UNCHANGED <<sup, detached, finalizing, ready, disposed, busy, ended, wanted, stopped, counts>>

-----------------------------------------------------------------------------
(* A preparation that released the lane settles by itself *)

\* It is ready: its finally runs at once, whatever the lane does meanwhile.
PreparationReady(g) ==
  /\ g \in detached /\ ready[g] = "ready"
  /\ detached' = detached \ {g}
  /\ sup' = StartupSettles([sup EXCEPT !.prepared = None])
  /\ UNCHANGED <<lane, finalizing, ready, disposed, busy, ended, wanted, stopped, counts>>

\* It failed: the failure is classified in the lane.
PreparationFails(g) ==
  /\ g \in detached /\ ready[g] = "failed"
  /\ detached' = detached \ {g}
  /\ lane' = Append(lane, [kind |-> "classify", pc |-> "failed", gen |-> g, fence |-> "no"])
  /\ UNCHANGED <<sup, finalizing, ready, disposed, busy, ended, wanted, stopped, counts>>

\* After the classification the finally runs, once the next operation has begun.
Finally(g) ==
  /\ g \in finalizing
  /\ finalizing' = finalizing \ {g}
  /\ sup' = StartupSettles(sup)
  /\ UNCHANGED <<lane, detached, ready, disposed, busy, ended, wanted, stopped, counts>>

\* The operation that failed leaves the lane.  One that ran outside of it goes on
\* to its own finally later.
FailureReturns(s) ==
  /\ Returns
  /\ \/ /\ Head1.kind = "classify"
        /\ finalizing' = finalizing \cup {Head1.gen}
        /\ sup' = s
     \/ /\ Head1.kind # "classify"
        /\ UNCHANGED finalizing
        /\ sup' = StartupSettles(s)

\* The Run that failed to start is admitted for its own cleanup.
Claims(s) == [s EXCEPT !.handle = s.startingHandle, !.admitted = TRUE, !.startingHandle = None]

\* #classifyFailedStartInLane: the Runtime that is bound now is discarded.
ClassifyFailedStart ==
  /\ AtHead(Starts \cup {"classify"}, "failed")
  /\ LET s == [sup EXCEPT !.prepared = None] IN
     \/ /\ sup.runtime # None
        /\ sup' = IF s.startingHandle # None /\ ~s.admitted THEN Claims(s) ELSE s
        /\ GoesTo("discarding")
        /\ UNCHANGED <<finalizing, ended>>
     \/ /\ sup.runtime = None
        /\ FailureReturns(ClearRunScopedState([s EXCEPT !.startingHandle = None], FALSE))
        /\ ended' = RunsEnded(sup.startingHandle)
  /\ UNCHANGED <<detached, ready, disposed, busy, wanted, stopped, counts>>

\* #discardFailedStart: the Runtime is disposed, its Run reported ended.
DiscardFailedStart ==
  /\ AtHead(Starts \cup {"classify"}, "discarding")
  /\ Disposes(sup.runtime)
  /\ ended' = IF sup.admitted THEN RunsEnded(sup.handle) ELSE ended
  /\ FailureReturns([ClearRunScopedState(Unbind(sup), FALSE) EXCEPT !.starting = FALSE])
  /\ busy' = {} /\ wanted' = FALSE
  /\ UNCHANGED <<detached, stopped, counts>>

-----------------------------------------------------------------------------
(* Release *)

\* Why the bound Runtime is retained although nobody asked for it: its reason passes
\* by itself, and asks for the release again.
Passing == busy # {} \/ "timer" \in sup.deferred

\* Mutant of Deferral: activity that is pending defers nothing.
DefersInputOnly(s) == IF "input" \in busy THEN s.deferred \cup {"input"} ELSE s.deferred

\* #deferReleaseUntilProjectionInputSettles, #deferReleaseUntilRuntimeActivitySettles
Deferral(s) == s.deferred \cup (IF "input" \in busy THEN {"input"}
                               ELSE IF busy # {} THEN {"activity"} ELSE {})

\* What a Run, or a prepared Runtime, is kept for.
Kept(s) ==
  \/ s.starting \/ s.ending
  \/ s.admitted /\ (s.reasons \ {"interactive_selection"} # {} \/ s.attention # None)
  \/ ~s.admitted /\ (s.prepared # None \/ s.reasons # {})

Retained ==
  /\ AtHead({"release"}, "queued")
  /\ LET s == [sup EXCEPT !.reasons = @ \ {"pending_delivery"}] IN
     /\ \/ sup.runtime = None \/ (~sup.admitted /\ sup.startingHandle # None)
        \/ Passing
        \/ Kept(s)
     /\ sup' = IF sup.runtime # None /\ Passing THEN [s EXCEPT !.deferred = Deferral(s)] ELSE s
     /\ wanted' = (sup.runtime # None /\ Passing)
  /\ Returns
  /\ UNCHANGED <<detached, finalizing, ready, disposed, busy, ended, stopped, counts>>

\* retainRuntime, captured when an end begins: the human's view keeps the Runtime of its Run.
Ending == IF "interactive_selection" \in sup.reasons THEN "keeping" ELSE "ending"

\* releaseIfEligibleInLane, or releasePreparedRuntimeInLane: the end begins.
ReleaseBegins ==
  /\ AtHead({"release"}, "queued")
  /\ LET s == [sup EXCEPT !.reasons = @ \ {"pending_delivery"}] IN
     /\ sup.runtime # None /\ (sup.admitted \/ sup.startingHandle = None)
     /\ ~Passing /\ ~Kept(s)
     /\ sup' = [s EXCEPT !.ending = TRUE]
  /\ GoesTo(IF sup.admitted THEN Ending ELSE "ending")
  /\ UNCHANGED <<detached, finalizing, ready, disposed, busy, ended, wanted, stopped, counts>>

\* The Runtime is disposed with its Run, unless the human's view was attached to it.
ReleaseEnds ==
  /\ \E pc \in {"ending", "keeping"} : AtHead({"release"}, pc)
  /\ \/ /\ Head1.pc = "keeping"
        /\ sup' = [ClearRunScopedState(Retain(sup), TRUE) EXCEPT !.ending = FALSE]
        /\ UNCHANGED <<ready, disposed, busy>>
     \/ /\ Head1.pc = "ending"
        /\ Disposes(sup.runtime)
        /\ sup' = [ClearRunScopedState(Unbind(sup), FALSE) EXCEPT !.ending = FALSE]
        /\ busy' = {}
  /\ ended' = IF sup.admitted THEN RunsEnded(sup.handle) ELSE ended
  /\ wanted' = FALSE
  /\ Returns
  /\ UNCHANGED <<detached, finalizing, stopped, counts>>

-----------------------------------------------------------------------------
(* discardAndEndInLane: abort, failure and shutdown *)

\* The fence of an aborted startup is lifted by its receipt.
Receipt(s) == IF Head1.fence # "no" THEN [s EXCEPT !.pendingAbort = FALSE] ELSE s

\* The cancellation that an abort waits for: a startup it cancelled is already over.
InitializationCancelled == Head1.fence = "cancelled"

\* Nothing is left to end: no Runtime, or for an abort no Run, or the cancelled
\* startup already ended it.
NothingToEnd ==
  \/ sup.runtime = None
  \/ Head1.kind = "abort" /\ (CurrentHandle(sup) = None \/ InitializationCancelled)
  \/ Head1.kind = "failure" /\ ~sup.failed

DiscardsNothing ==
  /\ AtHead({"abort", "failure", "shutdown"}, "queued")
  /\ InitializationCancelled => Settled(Head1.gen)
  /\ NothingToEnd
  /\ sup' = IF Head1.kind = "shutdown" THEN ClearRunScopedState(sup, FALSE) ELSE Receipt(sup)
  /\ stopped' = (stopped \/ Head1.kind = "shutdown")
  /\ Returns
  /\ UNCHANGED <<detached, finalizing, ready, disposed, busy, ended, wanted, counts>>

DiscardBegins ==
  /\ AtHead({"abort", "failure", "shutdown"}, "queued")
  /\ InitializationCancelled => Settled(Head1.gen)
  /\ ~NothingToEnd
  /\ sup' = [sup EXCEPT !.ending = TRUE, !.deferred = @ \ {"timer"}]
  /\ GoesTo(IF Head1.kind = "shutdown" THEN "ending" ELSE Ending)
  /\ UNCHANGED <<detached, finalizing, ready, disposed, busy, ended, wanted, stopped, counts>>

\* The human's view keeps the Runtime of a Run that failed or was aborted.
RetainsView == Head1.kind # "shutdown" /\ Head1.pc = "keeping"

\* Clearing the native queue waits until the child's startup has settled.
DiscardEnds ==
  /\ \E pc \in {"ending", "keeping"} : AtHead({"abort", "failure", "shutdown"}, pc)
  /\ Settled(sup.runtime)
  /\ \/ /\ RetainsView
        /\ sup' = Receipt([ClearRunScopedState(Retain(sup), TRUE) EXCEPT !.ending = FALSE])
        /\ UNCHANGED <<ready, disposed, busy>>
     \/ /\ ~RetainsView
        /\ Disposes(sup.runtime)
        /\ sup' = Receipt([ClearRunScopedState(Unbind(sup), FALSE) EXCEPT !.ending = FALSE])
        /\ busy' = {}
  /\ ended' = RunsEnded(sup.handle)
  /\ wanted' = FALSE
  /\ stopped' = (stopped \/ Head1.kind = "shutdown")
  /\ Returns
  /\ UNCHANGED <<detached, finalizing, counts>>

-----------------------------------------------------------------------------
(* The child Runtime and its Run *)

\* Startup readiness settles: it completes, was cancelled, or fails.
ReadinessSettles(g) ==
  /\ g \in Runtimes
  /\ \/ ready[g] = "pending" /\ ready' = [ready EXCEPT ![g] = "ready"]
     \/ ready[g] = "cancelled" /\ ready' = [ready EXCEPT ![g] = "failed"]
  /\ UNCHANGED <<sup, lane, detached, finalizing, disposed, busy, ended, wanted, stopped, counts>>

\* #markRunFailed, and the scheduler queues the discard of the Run that settled failed.
RunFails ==
  /\ sup.admitted /\ ~sup.failed
  /\ sup' = [sup EXCEPT !.failed = TRUE]
  /\ lane' = Append(lane, [kind |-> "failure", pc |-> "queued", gen |-> None, fence |-> "no"])

\* The child dies, at its startup or later; a Run that was given input fails with it.
ChildDies(g) ==
  /\ g \in Runtimes \ disposed
  /\ ready[g] \in {"pending", "ready"}
  /\ CanFail /\ Spend("faults")
  /\ ready' = [ready EXCEPT ![g] = IF @ = "pending" THEN "failed" ELSE @]
  /\ \/ g = sup.runtime /\ RunFails
     \/ ready[g] = "pending" /\ UNCHANGED <<sup, lane>>
  /\ UNCHANGED <<detached, finalizing, disposed, busy, ended, wanted, stopped>>

\* beginInputRequired, beginAgentWait: a tool of the Run blocks on the human or on
\* Answers; endInputRequired, endAgentWait.
Attend(on) ==
  /\ sup.admitted
  /\ IF on THEN /\ sup.attention = None /\ ready[sup.runtime] = "ready"
               /\ ~sup.starting /\ ~sup.ending /\ ~sup.failed
          ELSE sup.attention # None
  /\ sup' = [sup EXCEPT !.attention = IF on THEN sup.handle ELSE None]
  /\ UNCHANGED <<lane, detached, finalizing, ready, disposed, busy, ended, wanted, stopped, counts>>

\* Input is being prepared, or the session compacts.  Activity that resumes during
\* the grace of a release takes the timer back.
GetsBusy(what) ==
  /\ sup.runtime # None /\ ready[sup.runtime] = "ready"
  /\ what \notin busy
  /\ counts.turns < MaxTurns /\ Spend("turns")
  /\ busy' = busy \cup {what}
  /\ sup' = IF what = "compaction" /\ "timer" \in sup.deferred
              THEN [sup EXCEPT !.deferred = (@ \ {"timer"}) \cup {"activity"}] ELSE sup
  /\ UNCHANGED <<lane, detached, finalizing, ready, disposed, ended, wanted, stopped>>

Releases == lane' = Append(lane, [kind |-> "release", pc |-> "queued", gen |-> None, fence |-> "no"])

\* Input in flight settles: a release that it deferred is asked again.
InputSettles ==
  /\ "input" \in busy
  /\ busy' = busy \ {"input"}
  /\ IF "input" \in sup.deferred THEN Releases ELSE UNCHANGED lane
  /\ sup' = [sup EXCEPT !.deferred = @ \ {"input"}]
  /\ UNCHANGED <<detached, finalizing, ready, disposed, ended, wanted, stopped, counts>>

\* The activity ends: a release that it deferred is asked again after a grace.
ActivitySettles ==
  /\ "compaction" \in busy
  /\ busy' = busy \ {"compaction"}
  /\ sup' = IF "activity" \in sup.deferred
              THEN [sup EXCEPT !.deferred = (@ \ {"activity"}) \cup {"timer"}] ELSE sup
  /\ UNCHANGED <<lane, detached, finalizing, ready, disposed, ended, wanted, stopped, counts>>

\* The grace is over.
GraceEnds ==
  /\ "timer" \in sup.deferred
  /\ sup' = [sup EXCEPT !.deferred = @ \ {"timer"}]
  /\ Releases
  /\ UNCHANGED <<detached, finalizing, ready, disposed, busy, ended, wanted, stopped, counts>>

-----------------------------------------------------------------------------
\* What the operation at the head does when it is its turn.
BeginHead == EnsureReturns \/ EnsureAdmits \/ EnsureLaunches \/ Retained \/ ReleaseBegins
             \/ DiscardsNothing \/ DiscardBegins

\* What it does after an await.
ContinueHead ==
  \/ SessionStarts \/ SessionPrepared \/ InitializerSettles \/ RunStarted
  \/ StartReady \/ StartUnready \/ ClassifyFailedStart \/ DiscardFailedStart
  \/ ReleaseEnds \/ DiscardEnds

\* A continuation that is ready runs before anything else: that of a preparation that
\* settled; and after a classification has left the lane the operation behind it
\* begins, and then the finally runs.
Ripe == {g \in detached : Settled(g)}
NextHasBegun == ~(lane # <<>> /\ Head1.pc = "queued")

Next ==
  \/ finalizing # {} /\ ~NextHasBegun /\ BeginHead
  \/ NextHasBegun /\ \E g \in finalizing : Finally(g)
  \/ finalizing = {} /\ \E g \in Ripe : PreparationReady(g) \/ PreparationFails(g)
  \/ /\ finalizing = {} /\ Ripe = {}
     /\ \/ BeginHead \/ ContinueHead \/ SessionFails \/ StartHandlerThrows
        \/ \E g \in Runtimes : ReadinessSettles(g) \/ ChildDies(g)
        \/ \E kind \in Kinds : Ask(kind)
        \/ AskAbort \/ BeginShutdown
        \/ \E on \in BOOLEAN : Select(on) \/ Attend(on)
        \/ \E what \in {"input", "compaction"} : GetsBusy(what)
        \/ InputSettles \/ ActivitySettles \/ GraceEnds

Finalizes == \E g \in finalizing : Finally(g)
Detaches == \E g \in detached : PreparationReady(g) \/ PreparationFails(g)
GetsReady == \E g \in Runtimes : ReadinessSettles(g)

\* Promises that can settle do, a startup settles within its bound, and input and
\* compaction end.
Fairness ==
  /\ WF_vars(BeginHead) /\ WF_vars(ContinueHead)
  /\ WF_vars(Finalizes) /\ WF_vars(Detaches) /\ WF_vars(GetsReady)
  /\ WF_vars(InputSettles) /\ WF_vars(ActivitySettles) /\ WF_vars(GraceEnds)

Spec == Init /\ [][Next]_vars
FairSpec == Spec /\ Fairness

-----------------------------------------------------------------------------
\* A Run that was reported ended is never current again, nor about to start, and
\* nobody waits on its behalf.
EndedIsOver ==
  /\ CurrentHandle(sup) \notin ended
  /\ sup.attention # None => sup.admitted /\ sup.attention = sup.handle

\* Every child that was launched is the bound Runtime or disposed: neither a failed
\* startup, nor an abort, nor a preparation that failed outside the lane leaves one
\* running that nobody can reach.
NoChildIsLeaked == \A g \in Runtimes : g = sup.runtime \/ g \in disposed

\* Once shutdown has ended the Agent it stays ended, whatever was queued behind the
\* discard or settles outside the lane.
StoppedStaysStopped == stopped => sup.runtime = None /\ CurrentHandle(sup) = None

\* Nothing outlives its end, whichever startup, preparation, abort, release or shutdown
\* overtakes another: neither a child, nor a Run, nor the wait on its behalf.
NothingOutlivesItsEnd == NoChildIsLeaked /\ EndedIsOver /\ StoppedStaysStopped

\* No Run starts between the abort of a startup and its receipt, although the
\* cancelled startup gives the lane to the admissions queued behind it.
AbortFencesStarts == [][sup.pendingAbort /\ sup'.pendingAbort => sup'.seq = sup.seq]_vars

\* A release retained because of input in flight or of activity is asked again, or
\* the Run takes over.
DeferredReleaseIsAsked == wanted ~> ~wanted

\* Admission survives failures before a child Runtime exists: every Run that was given
\* a handle is starting, current, or was reported ended.
NoRunVanishes ==
  \A h \in 1..sup.seq : h \in ended \cup {sup.handle, sup.startingHandle}

\* A failure of the preparation of g discards g: it does not race the lane's work that
\* proceeded while g was settling, and ends no other Runtime.
ClassifiesItsOwn ==
  AtHead({"classify"}, "discarding") => sup.runtime = Head1.gen
=============================================================================
