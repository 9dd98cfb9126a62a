------------------------ MODULE OperationalIncidents ------------------------
(***************************************************************************)
(* How the host moderates what blocks obligated work                       *)
(* (src/src/coordination/operational-incidents.ts): the reconciliation     *)
(* pass, the creation of Moderators, their failure and replacement, the    *)
(* reminders, the reports and the watch over a pass that does not finish.  *)
(*                                                                         *)
(* What is observed of the Agents is ProgressVerdict; here a condition     *)
(* begins and clears by itself.  "dependency_deadlock" stands for every    *)
(* kind that has neither a reminder nor a recovery notice of its own.      *)
(***************************************************************************)
EXTENDS Naturals, Sequences, FiniteSets

CONSTANTS Keys,          \* the conditions, one of each kind that is checked: "run_failure",
                         \* "obligation_stall", "dependency_deadlock"
          MaxModerators, \* bound on the Moderators created
          MaxEvents      \* bound on the events nothing in the model causes: conditions that begin,
                         \* faults, Moderators that settle or resolve, a human's interruption

VARIABLES present,    \* conditions that hold of the Agents
          episode,    \* how often each condition has begun
          successor,  \* a successor of the failed Run has started
          tracked,    \* the failed Run is kept in #runFailureByKey
          handling,   \* #handlingByKey
          mods,       \* the Moderators, in the order of their commit
          lane,       \* tasks in the reconciliation lane, the running one first
          pending,    \* #pendingReconciliation
          watch,      \* the deadline of the pass, and the creation it watches
          faults,     \* #faultAttention: "evidence" and conditions
          shown,      \* exhausted conditions shown to the Owner
          reminder,   \* Obligation Reminders of the stalled Agent
          closed,     \* the Workflow is shutting down
          spent,      \* events spent
          forgotten   \* history: an observation that failed dropped the cleared Run failure

vars == <<present, episode, successor, tracked, handling, mods, lane, pending, watch, faults,
          shown, reminder, closed, spent, forgotten>>
world == <<present, episode, successor, tracked>>

MAX_AUTOMATIC_MODERATOR_ATTEMPTS == 2
None == 0
NoHandling == [mod |-> None, attempts |-> 0, exhausted |-> FALSE, creationFailed |-> FALSE,
               findings |-> {}, inst |-> 0]
Moderators == 1..Len(mods)
Evidence == "evidence"
Idle == "idle"

TypeOK ==
  /\ present \in [Keys -> BOOLEAN] /\ episode \in [Keys -> 0..MaxEvents]
  /\ {successor, tracked, pending, closed, forgotten, watch.armed, watch.stalled} \subseteq BOOLEAN
  /\ \A k \in Keys : /\ handling[k].mod \in {None} \cup Moderators
                     /\ handling[k].attempts \in 0..MAX_AUTOMATIC_MODERATOR_ATTEMPTS
                     /\ handling[k].findings \subseteq Moderators
  /\ \A m \in Moderators : /\ mods[m].state \in {"committed", "live", "released", "failed", "aborted"}
                           /\ mods[m].failure \in {"none", "retained", "published"}
                           /\ mods[m].reminder \in {"none", "scheduled", "asked", "committed"}
                           /\ mods[m].resolve \in {"none", "asked", "blocked", "cleared"}
                           /\ mods[m].queue \in Seq({"notice", "release"})
  /\ faults \subseteq Keys \cup {Evidence} /\ shown \subseteq Keys
  /\ watch.active \in Keys \cup {Idle}
  /\ reminder.entries \in Seq({"free", "standing"})

Init ==
  /\ present = [k \in Keys |-> FALSE] /\ episode = [k \in Keys |-> 0]
  /\ successor = FALSE /\ tracked = FALSE
  /\ handling = [k \in Keys |-> NoHandling]
  /\ mods = <<>> /\ lane = <<>> /\ pending = FALSE
  /\ watch = [armed |-> FALSE, stalled |-> FALSE, active |-> Idle]
  /\ faults = {} /\ shown = {}
  /\ reminder = [entries |-> <<>>, free |-> {}, scheduled |-> Idle, interrupted |-> FALSE]
  /\ closed = FALSE /\ spent = 0 /\ forgotten = FALSE

-----------------------------------------------------------------------------
(* Parts of the handlers *)

Task(kind, m) == [kind |-> kind, mod |-> m, pc |-> "queued", todo |-> {}]
Head1 == lane[1]
At(kinds, pc) == lane # <<>> /\ Head1.kind \in kinds /\ Head1.pc = pc
GoTo(pc, todo) == lane' = [lane EXCEPT ![1].pc = pc, ![1].todo = todo]
Spend == spent < MaxEvents /\ spent' = spent + 1

\* Mutant of Scheduled: a pass that is running already is shared too.
SharesRunning(l) == IF pending \/ watch.armed THEN l ELSE Append(l, Task("pass", None))

\* #scheduleReconciliation: the pass that is pending is shared.
Scheduled(l) == IF pending THEN l ELSE Append(l, Task("pass", None))
Schedules == lane' = Scheduled(lane) /\ pending' = TRUE

Handled(k) == handling[k].inst # 0

\* #flushModeratorFailureFindings: what was retained reaches the incident's Report.
Flushed(ms, k) == [m \in DOMAIN ms |-> IF m \in handling[k].findings
                                         THEN [ms[m] EXCEPT !.failure = "published"] ELSE ms[m]]

\* The Moderator's part of #releaseHandling: it is retained no more, and its release is asked.
Released(ms, k, notices) ==
  [m \in DOMAIN ms |-> IF m = handling[k].mod
                         THEN [ms[m] EXCEPT !.retained = FALSE, !.queue = @ \o notices \o <<"release">>]
                         ELSE ms[m]]

\* #releaseHandling of the conditions in ks.
ReleaseHandling(ks) ==
  /\ handling' = [k \in Keys |-> IF k \in ks THEN NoHandling ELSE handling[k]]
  /\ shown' = shown \ ks

ReplacementAvailable(h) == h.attempts < MAX_AUTOMATIC_MODERATOR_ATTEMPTS

\* #recordModeratorFailure: while a replacement is available and the condition persists,
\* the observation is retained; the attempt that ends moderation publishes it.
Retains(k, m) ==
  /\ Handled(k) /\ mods[m].inst = handling[k].inst
  /\ ReplacementAvailable(handling[k])
  /\ present[k]

\* The Moderators once the failure of m has been recorded in the way.
Recorded(ms, k, m, state) ==
  IF ms[m].failure # "none" THEN [ms EXCEPT ![m].state = state]
  ELSE IF Retains(k, m) THEN [ms EXCEPT ![m].failure = "retained", ![m].state = state]
  ELSE LET flushed == IF Handled(k) /\ mods[m].inst = handling[k].inst THEN Flushed(ms, k) ELSE ms
       IN [flushed EXCEPT ![m].failure = "published", ![m].state = state]

\* The handling once the failure of m has been recorded.
RecordedIn(k, m) ==
  IF mods[m].failure # "none" \/ ~Handled(k) \/ mods[m].inst # handling[k].inst THEN handling[k]
  ELSE [handling[k] EXCEPT !.findings = IF Retains(k, m) THEN @ \cup {m} ELSE {}]

\* #presentFault, once for a fault that continues.
Presented(f) == IF closed THEN faults ELSE faults \cup {f}

-----------------------------------------------------------------------------
(* The Agents *)

\* A condition begins: an Agent stalls, or a group deadlocks.
ConditionBegins(k) ==
  /\ k # "run_failure" /\ ~present[k] /\ ~closed /\ Spend
  /\ k = "obligation_stall" => reminder.scheduled = Idle
  /\ present' = [present EXCEPT ![k] = TRUE]
  /\ episode' = [episode EXCEPT ![k] = @ + 1]
  /\ Schedules
  /\ UNCHANGED <<successor, tracked, handling, mods, watch, faults, shown, reminder, closed,
                 forgotten>>

\* The Run of an obligated Agent fails: the ended handler reports it and keeps it.
RunFails ==
  /\ "run_failure" \in Keys /\ ~present["run_failure"] /\ ~tracked /\ ~closed
  /\ ~Handled("run_failure")
  /\ Spend
  /\ present' = [present EXCEPT !["run_failure"] = TRUE]
  /\ episode' = [episode EXCEPT !["run_failure"] = @ + 1]
  /\ successor' = FALSE /\ tracked' = TRUE
  /\ Schedules
  /\ UNCHANGED <<handling, mods, watch, faults, shown, reminder, closed, forgotten>>

\* The condition clears: progress, an Answer, a Cancellation, a successor of the failed Run.
ConditionClears(k) ==
  /\ present[k] /\ ~closed
  /\ present' = [present EXCEPT ![k] = FALSE]
  /\ successor' \in IF k = "run_failure" THEN BOOLEAN ELSE {successor}
  /\ Schedules
  /\ UNCHANGED <<episode, tracked, handling, mods, watch, faults, shown, reminder, closed,
                 spent, forgotten>>

\* noteHumanInterruption: the human typed into the Agent, which settles while selected.
Interrupted ==
  /\ "obligation_stall" \in Keys
  /\ ~reminder.interrupted /\ ~present["obligation_stall"] /\ Spend
  /\ reminder' = [reminder EXCEPT !.interrupted = TRUE]
  /\ UNCHANGED <<world, handling, mods, lane, pending, watch, faults, shown, closed, forgotten>>

\* The reminder that is scheduled commits, or is suppressed: its Run is over, or it waits.
ReminderSettles(commits) ==
  /\ reminder.scheduled # Idle /\ ~closed
  /\ reminder' = [reminder EXCEPT !.entries = IF commits THEN Append(@, reminder.scheduled) ELSE @,
                                  !.scheduled = Idle]
  /\ Schedules
  /\ UNCHANGED <<world, handling, mods, watch, faults, shown, closed, spent, forgotten>>

-----------------------------------------------------------------------------
(* The reconciliation pass *)

\* After a turn of the event loop the pass begins under its deadline.
PassBegins ==
  /\ At({"pass"}, "queued")
  /\ pending' = FALSE
  /\ watch' = [watch EXCEPT !.armed = TRUE, !.stalled = FALSE]
  /\ GoTo("inspecting", {})
  /\ UNCHANGED <<world, handling, mods, faults, shown, reminder, closed, spent, forgotten>>

\* The pass is over, and its deadline with it.
TaskEnds == /\ lane' = Tail(lane)
            /\ watch' = [watch EXCEPT !.armed = FALSE, !.active = Idle]

\* The evidence cannot be inspected.
InspectionThrows ==
  /\ At({"pass"}, "inspecting") /\ Spend
  /\ faults' = Presented(Evidence)
  /\ TaskEnds
  /\ UNCHANGED <<world, handling, mods, pending, shown, reminder, closed, forgotten>>

Current == {k \in Keys : present[k]}

\* Indexes of the committed reminders that the host takes for standing ones.
Standing == {i \in 1..Len(reminder.entries) : i \notin reminder.free}

\* #scheduleObligationReminder of a stall that nobody handles yet.
Reminds(k) ==
  /\ k = "obligation_stall" /\ ~Handled(k)
  /\ reminder.interrupted \/ Standing = {}

\* Its reminder, which is free after a human's interruption.
Remind ==
  IF reminder.interrupted
    THEN [reminder EXCEPT !.interrupted = FALSE, !.scheduled = "free",
                          !.free = @ \cup {Len(reminder.entries) + 1}]
    ELSE [reminder EXCEPT !.scheduled = "standing"]

\* The failed Run that a successor or the end of its obligations has cleared.
Recovering == {k \in Keys \cap {"run_failure"} : tracked /\ ~present[k]}

\* The observation throws at evidence it reads after it has taken the cleared failure off
\* #runFailureByKey, and before it releases anything: that failure is in no later observation.
ObservationThrows ==
  /\ At({"pass"}, "inspecting") /\ ~closed /\ Recovering # {} /\ Spend
  /\ tracked' = FALSE /\ forgotten' = TRUE
  /\ faults' = Presented(Evidence)
  /\ TaskEnds
  /\ UNCHANGED <<present, episode, successor, handling, mods, pending, shown, reminder, closed>>

Creates(k) ==
  /\ present[k] /\ ~Reminds(k)
  /\ handling[k].mod = None /\ ~handling[k].exhausted /\ ~handling[k].creationFailed

\* Mutant of Notices: the notice is looked up after the handling is released.
NoticesAfterRelease(k) == <<>>

\* #notifyRunFailureRecovery, queued ahead of the release.
Notices(k) == IF k \in Recovering /\ successor THEN <<"notice">> ELSE <<>>

\* A handling Moderator that settled is reminded of its obligation once.
RemindsModerator(m) ==
  /\ \E k \in Current : handling[k].mod = m
  /\ mods[m].state = "live" /\ mods[m].idle /\ mods[m].reminder = "none"

\* The observation, in one step: what has cleared is released, what is new is reminded
\* of or handled.
Observe ==
  /\ At({"pass"}, "inspecting") /\ ~closed
  /\ LET cleared == {k \in Keys : Handled(k) /\ ~present[k]}
         kept == [k \in Keys |-> IF k \in cleared THEN NoHandling
                                 ELSE IF Creates(k) /\ ~Handled(k)
                                 THEN [NoHandling EXCEPT !.inst = episode[k]] ELSE handling[k]]
     IN /\ handling' = kept
        /\ shown' = shown \ cleared
        /\ faults' = {f \in faults : f = Evidence \/ f \in Current}
        /\ mods' = [m \in Moderators |->
             IF RemindsModerator(m) THEN [mods[m] EXCEPT !.reminder = "scheduled"]
             ELSE LET k == mods[m].key IN
                  IF k \in cleared THEN Released(Flushed(mods, k), k, Notices(k))[m] ELSE mods[m]]
        /\ tracked' = (tracked /\ Recovering = {})
        /\ reminder' = IF \E k \in Current : Reminds(k) THEN Remind ELSE reminder
        /\ GoTo("creating", {k \in Current : Creates(k)})
  /\ present' = IF \E k \in Current : Reminds(k)
                  THEN [present EXCEPT !["obligation_stall"] = FALSE] ELSE present
  /\ forgotten' = FALSE
  /\ UNCHANGED <<episode, successor, pending, watch, closed, spent>>

\* A shutdown ends the pass before it observes; else it ends when nothing is left to create.
PassEnds ==
  /\ \/ At({"pass"}, "inspecting") /\ closed
     \/ At({"pass"}, "creating") /\ Head1.todo = {}
  /\ faults' = faults \ {Evidence}
  /\ TaskEnds
  /\ UNCHANGED <<world, handling, mods, pending, shown, reminder, closed, spent, forgotten>>

-----------------------------------------------------------------------------
(* Creation of a Moderator *)

\* #attemptModeratorCreation: its Runtime is prepared.
CreationBegins(k) ==
  /\ At({"pass"}, "creating") /\ k \in Head1.todo
  /\ watch' = [watch EXCEPT !.active = k]
  /\ GoTo("preparing", Head1.todo \ {k})
  /\ UNCHANGED <<world, handling, mods, pending, faults, shown, reminder, closed, spent,
                 forgotten>>

Target == watch.active

\* The creation returns; the pass goes on to the next one, the failed attempt is settled.
CreationReturns ==
  IF Head1.kind = "pass"
    THEN /\ lane' = [lane EXCEPT ![1].pc = "creating"]
         /\ watch' = [watch EXCEPT !.active = Idle]
    ELSE TaskEnds

\* It throws: the fault is shown, and nothing is staged again for this condition.
CreationThrows ==
  /\ At({"pass", "failure"}, Head1.pc) /\ Head1.pc \in {"preparing", "committing"} /\ Spend
  /\ handling' = [handling EXCEPT ![Target].creationFailed = TRUE,
                                  ![Target].findings = IF closed THEN @ ELSE {}]
  /\ mods' = IF closed THEN mods ELSE Flushed(mods, Target)
  /\ faults' = Presented(Target)
  /\ CreationReturns
  /\ UNCHANGED <<world, pending, shown, reminder, closed, forgotten>>

\* Prepared: a condition that cleared meanwhile needs no Moderator.
CreationPrepared ==
  /\ At({"pass", "failure"}, "preparing")
  /\ \/ /\ ~closed /\ present[Target]
        /\ lane' = [lane EXCEPT ![1].pc = "committing"]
        /\ UNCHANGED <<handling, watch, faults>>
     \/ /\ ~(~closed /\ present[Target])
        /\ handling' = IF closed THEN handling ELSE [handling EXCEPT ![Target] = NoHandling]
        /\ faults' = faults \ {Target}
        /\ CreationReturns
  /\ UNCHANGED <<world, mods, pending, shown, reminder, closed, spent, forgotten>>

\* What the commit of the Moderator m makes of the handling.
Commits(k, m) == [handling[k] EXCEPT !.mod = m, !.attempts = @ + 1, !.findings = {}]

\* The bootstrap is durable: the attempt counts, the earlier failures get their Report.
ModeratorCommitted ==
  /\ At({"pass", "failure"}, "committing")
  /\ Len(mods) < MaxModerators
  /\ LET m == Len(mods) + 1 IN
     /\ handling' = [handling EXCEPT ![Target] = Commits(Target, m)]
     /\ mods' = Append(IF closed THEN mods ELSE Flushed(mods, Target),
          [key |-> Target, episode |-> episode[Target], inst |-> handling[Target].inst,
           state |-> "committed", retained |-> FALSE, idle |-> FALSE, failure |-> "none",
           reminder |-> "none", noticed |-> FALSE, resolve |-> "none", queue |-> <<>>])
     /\ lane' = [lane EXCEPT ![1].pc = "starting", ![1].mod = m]
  /\ UNCHANGED <<world, pending, watch, faults, shown, reminder, closed, spent, forgotten>>

\* Its Run starts, retained by the handling, and is given its routine start.
ModeratorStarts ==
  /\ At({"pass", "failure"}, "starting")
  /\ mods' = IF closed THEN mods
             ELSE [mods EXCEPT ![Head1.mod].state = "live", ![Head1.mod].retained = TRUE]
  /\ faults' = faults \ {Target}
  /\ CreationReturns
  /\ UNCHANGED <<world, handling, pending, shown, reminder, closed, spent, forgotten>>

\* #handleModeratorFailure once the failure is recorded (in ms and h): the condition has
\* cleared, or a replacement is created, or the attempts are exhausted.
FailureHandled(ms, h, k, m) ==
  \/ /\ closed \/ h.mod # m
     /\ mods' = ms /\ handling' = [handling EXCEPT ![k] = h]
     /\ CreationReturns
     /\ UNCHANGED <<shown, faults>>
  \/ /\ ~closed /\ h.mod = m /\ ~present[k]
     /\ mods' = Released(Flushed(ms, k), k, <<>>)
     /\ ReleaseHandling({k})
     /\ CreationReturns
     /\ UNCHANGED faults
  \/ /\ ~closed /\ h.mod = m /\ present[k] /\ ReplacementAvailable(h)
     /\ mods' = ms /\ handling' = [handling EXCEPT ![k] = [h EXCEPT !.mod = None]]
     /\ lane' = [lane EXCEPT ![1].pc = "preparing"]
     /\ watch' = [watch EXCEPT !.armed = TRUE, !.active = k,
                               !.stalled = IF watch.armed THEN @ ELSE FALSE]
     /\ UNCHANGED <<shown, faults>>
  \/ /\ ~closed /\ h.mod = m /\ present[k] /\ ~ReplacementAvailable(h)
     /\ mods' = ms
     /\ handling' = [handling EXCEPT ![k] = [h EXCEPT !.mod = None, !.exhausted = TRUE]]
     /\ shown' = shown \cup {k}
     /\ CreationReturns
     /\ UNCHANGED faults

\* The startup of the Moderator is rejected: its Run ends failed, and the creation
\* handles the failure itself.
ModeratorStartThrows ==
  /\ At({"pass", "failure"}, "starting") /\ Spend /\ ~closed
  /\ LET m == Head1.mod IN
     FailureHandled(Recorded(mods, Target, m, "failed"), RecordedIn(Target, m), Target, m)
  /\ UNCHANGED <<world, pending, reminder, closed, forgotten>>

\* The Run of a Moderator fails: the ended handler records it at once, and queues the rest.
ModeratorFails(m) ==
  /\ mods[m].state = "live" /\ ~closed /\ Spend
  /\ LET k == mods[m].key IN
     /\ mods' = [Recorded(mods, k, m, "failed") EXCEPT ![m].retained = FALSE]
     /\ handling' = [handling EXCEPT ![k] = RecordedIn(k, m)]
  /\ lane' = Append(lane, Task("failure", m))
  /\ UNCHANGED <<world, pending, watch, faults, shown, reminder, closed, forgotten>>

\* The queued rest: whatever is handled by m now.
FailureTask ==
  /\ At({"failure"}, "queued")
  /\ LET m == Head1.mod k == mods[m].key IN FailureHandled(mods, handling[k], k, m)
  /\ UNCHANGED <<world, pending, reminder, closed, spent, forgotten>>

-----------------------------------------------------------------------------
(* Moderators *)

\* A live Moderator settles, which schedules a pass behind its lane; or works again.
ModeratorSettles(m) ==
  /\ mods[m].state = "live" /\ ~mods[m].idle /\ ~closed /\ Spend
  /\ mods' = [mods EXCEPT ![m].idle = TRUE]
  /\ Schedules
  /\ UNCHANGED <<world, handling, watch, faults, shown, reminder, closed, forgotten>>

\* Another Moderator, or the human, aborts its Run: no failure, and no replacement.
ModeratorAborted(m) ==
  /\ mods[m].state = "live" /\ ~closed /\ Spend
  /\ mods' = [mods EXCEPT ![m].state = "aborted", ![m].retained = FALSE]
  /\ UNCHANGED <<world, handling, lane, pending, watch, faults, shown, reminder, closed,
                 forgotten>>

\* Its lane runs what was queued: the recovery notice boots a Moderator that was
\* released already; a release waits for what retains it.
ModeratorLane(m) ==
  /\ mods[m].queue # <<>> /\ ~closed
  /\ LET rest == Tail(mods[m].queue)
         notice == mods[m].queue[1] = "notice" IN
     mods' = [mods EXCEPT ![m].queue = rest,
       ![m].noticed = @ \/ notice,
       ![m].state = IF notice THEN "live"
                    ELSE IF @ = "live" /\ ~mods[m].retained THEN "released" ELSE @]
  /\ UNCHANGED <<world, handling, lane, pending, watch, faults, shown, reminder, closed,
                 spent, forgotten>>

\* moderator_control resolve.
AskResolve(m) ==
  /\ mods[m].state = "live" /\ ~closed /\ mods[m].resolve = "none" /\ Spend
  /\ lane' = Append(lane, Task("resolve", m))
  /\ mods' = [mods EXCEPT ![m].resolve = "asked"]
  /\ UNCHANGED <<world, handling, pending, watch, faults, shown, reminder, closed, forgotten>>

\* #resolveHandling: blocked while the condition remains, or the Moderator has a Request to
\* answer, or one that is not answered.
Resolve ==
  /\ At({"resolve"}, "queued")
  /\ LET m == Head1.mod k == mods[m].key IN
     \/ /\ handling[k].mod = m /\ ~present[k]
        /\ mods' = [Released(Flushed(mods, k), k, <<>>) EXCEPT ![m].resolve = "cleared"]
        /\ ReleaseHandling({k})
     \/ /\ handling[k].mod # m
        /\ mods' = [mods EXCEPT ![m].resolve = "cleared"]
        /\ UNCHANGED <<handling, shown>>
     \/ /\ mods' = [mods EXCEPT ![m].resolve = "blocked"]
        /\ UNCHANGED <<handling, shown>>
  /\ lane' = Tail(lane)
  /\ UNCHANGED <<world, pending, watch, faults, reminder, closed, spent, forgotten>>

\* The native Runtime is idle: the reminder asks the reconciliation lane to commit it.
AskReminder(m) ==
  /\ mods[m].reminder = "scheduled" /\ mods[m].state = "live" /\ ~closed
  /\ mods' = [mods EXCEPT ![m].reminder = "asked"]
  /\ lane' = Append(lane, Task("reminder", m))
  /\ UNCHANGED <<world, handling, pending, watch, faults, shown, reminder, closed, spent,
                 forgotten>>

MayCommit(m) == handling[mods[m].key].mod = m /\ present[mods[m].key]

\* commitIfCurrent, up to the acknowledgement of the native transcript.
ReminderTask ==
  /\ At({"reminder"}, "queued")
  /\ IF MayCommit(Head1.mod)
       THEN GoTo("acknowledging", {}) /\ UNCHANGED mods
       ELSE lane' = Tail(lane) /\ mods' = [mods EXCEPT ![Head1.mod].reminder = "none"]
  /\ UNCHANGED <<world, handling, pending, watch, faults, shown, reminder, closed, spent,
                 forgotten>>

ReminderAcknowledged ==
  /\ At({"reminder"}, "acknowledging")
  /\ mods' = [mods EXCEPT ![Head1.mod].reminder = "committed", ![Head1.mod].idle = FALSE]
  /\ lane' = Tail(lane)
  /\ UNCHANGED <<world, handling, pending, watch, faults, shown, reminder, closed, spent,
                 forgotten>>

-----------------------------------------------------------------------------
(* The watch over the pass, and shutdown *)

Overdue == [watch EXCEPT !.stalled = TRUE]

\* The pass has hung for the interval: it stops to count as progress, and its fault is shown.
DeadlineFires ==
  /\ watch.armed /\ ~watch.stalled /\ ~closed
  /\ lane # <<>> /\ Head1.pc = "hung"
  /\ watch' = Overdue
  /\ faults' = Presented(IF Target = Idle THEN Evidence ELSE Target)
  /\ IF Target # Idle /\ Target \notin faults
       THEN /\ mods' = Flushed(mods, Target)
            /\ handling' = [handling EXCEPT ![Target].findings = {}]
       ELSE UNCHANGED <<mods, handling>>
  /\ UNCHANGED <<world, lane, pending, shown, reminder, closed, spent, forgotten>>

\* An inspection or a preparation may never settle.
Hangs ==
  /\ At({"pass", "failure"}, Head1.pc) /\ Head1.pc \in {"inspecting", "preparing"} /\ ~closed /\ Spend
  /\ lane' = [lane EXCEPT ![1].pc = "hung"]
  /\ UNCHANGED <<world, handling, mods, pending, watch, faults, shown, reminder, closed,
                 forgotten>>

\* shutdown()
Shutdown ==
  /\ ~closed
  /\ closed' = TRUE
  /\ handling' = [k \in Keys |-> NoHandling]
  /\ shown' = {} /\ faults' = {} /\ tracked' = FALSE
  /\ UNCHANGED <<present, episode, successor, mods, lane, pending, watch, reminder, spent,
                 forgotten>>

-----------------------------------------------------------------------------
LaneStep ==
  \/ PassBegins \/ Observe \/ PassEnds
  \/ \E k \in Keys : CreationBegins(k)
  \/ CreationPrepared \/ ModeratorCommitted \/ ModeratorStarts \/ FailureTask
  \/ Resolve \/ ReminderTask \/ ReminderAcknowledged

Next ==
  \/ LaneStep \/ InspectionThrows \/ ObservationThrows \/ CreationThrows \/ ModeratorStartThrows \/ Hangs
  \/ RunFails \/ Interrupted \/ DeadlineFires \/ Shutdown
  \/ \E k \in Keys : ConditionBegins(k) \/ ConditionClears(k)
  \/ \E commits \in BOOLEAN : ReminderSettles(commits)
  \/ \E m \in Moderators : \/ ModeratorFails(m) \/ ModeratorSettles(m) \/ ModeratorAborted(m)
                           \/ ModeratorLane(m) \/ AskResolve(m) \/ AskReminder(m)

\* Promises that can settle do, and the timer of the deadline fires.
Fairness ==
  /\ WF_vars(LaneStep) /\ WF_vars(DeadlineFires)
  /\ \A m \in 1..MaxModerators : WF_vars(m \in Moderators /\ ModeratorLane(m))

Spec == Init /\ [][Next]_vars
FairSpec == Spec /\ Fairness

-----------------------------------------------------------------------------

\* A condition that persists is never ignored: it is reminded of, handled, or its
\* exhaustion or its fault is shown.  Only a Moderator that was aborted, or could not be
\* created within the bound, leaves it as it is.
Attended(k) ==
  \/ ~present[k] \/ closed \/ k \in shown \/ faults # {}
  \/ handling[k].mod # None /\ mods[handling[k].mod].state \in {"live", "aborted"}
  \/ Len(mods) = MaxModerators
IncidentIsAttended == \A k \in Keys : present[k] ~> Attended(k)

\* The Moderator of a failed Run learns of the successor: whoever releases its handling
\* after the successor has started has queued the notice before, unless it failed or
\* resolved by itself, or an observation that threw has forgotten the failure.
RecoveryIsNoticed ==
  [][\A m \in Moderators :
       /\ mods[m].key = "run_failure" /\ handling["run_failure"].mod = m
       /\ successor /\ ~present["run_failure"]
       /\ handling'["run_failure"].mod # m
       => \/ closed' \/ forgotten \/ "notice" \in {mods'[m].queue[i] : i \in 1..Len(mods'[m].queue)}
          \/ mods'[m].state \in {"failed", "aborted"} \/ mods'[m].resolve = "cleared"]_vars

\* Every failed attempt reaches the Report of its incident before its handling is gone.
FailuresReachTheirReport ==
  \A m \in Moderators : mods[m].failure = "retained" =>
    closed \/ m \in handling[mods[m].key].findings

\* Each Request has one standing reminder: only free ones are sent besides.
OneStandingReminder ==
  Cardinality({i \in 1..Len(reminder.entries) : reminder.entries[i] = "standing"}) <= 1
=============================================================================
