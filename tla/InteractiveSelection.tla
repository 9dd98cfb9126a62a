------------------------ MODULE InteractiveSelection ------------------------
(***************************************************************************)
(* Which child Agent the human looks at (interactive-selection.ts): one    *)
(* view lane opens, switches and closes the single active view, and keeps  *)
(* the Runtime of the selected Agent from being released by a retention    *)
(* reason that it sets and removes in the lane of that Agent, while Runs   *)
(* of the Agent start, fail and end in the same lane.                      *)
(*                                                                         *)
(* A Runtime is known by its projection, numbered per Agent from 1.        *)
(***************************************************************************)
EXTENDS Naturals, FiniteSets

CONSTANTS Watched,     \* child Agents
          Nobody,
          MaxRuntimes, \* Runtimes an Agent gets
          MaxOpens     \* times the human opens a view

VARIABLES
  rt,     \* rt[a]: phase, projection, next, admitted, retained, lane
  shown,  \* #active: agent, projection, failed
  job,    \* the operation that holds the view lane
  closes, \* closes queued on the view lane because a preparation failed
  opens,
  broken,   \* an admission met another projection than the one that is viewed
  stranded  \* history: Agents that a switch went to when the view had closed under it

vars == <<rt, shown, job, closes, opens, broken, stranded>>

NoView == [agent |-> Nobody, projection |-> 0, failed |-> FALSE]
NoJob == [step |-> "none", target |-> Nobody, projection |-> 0, prior |-> NoView]

\* phase: "dormant", "starting", "preparing" or "live"; lane: who holds it over several
\* steps, "free", "start" or "prepare".
Dormant(r) == [r EXCEPT !.phase = "dormant", !.projection = 0, !.admitted = FALSE,
                        !.retained = FALSE, !.lane = "free"]

Init ==
  /\ rt = [a \in Watched |-> [phase |-> "dormant", projection |-> 0, next |-> 1,
                              admitted |-> FALSE, retained |-> FALSE, lane |-> "free"]]
  /\ shown = NoView /\ job = NoJob /\ closes = {} /\ opens = 0 /\ broken = FALSE
  /\ stranded = {}

Free(a) == rt[a].lane = "free"
Views(a, p) == shown.agent = a /\ shown.projection = p

-----------------------------------------------------------------------------
(* The Agent's own Runs.                                                   *)

\* startInLane for a Delivery.
Start(a) ==
  /\ Free(a) /\ rt[a].phase = "dormant" /\ rt[a].next <= MaxRuntimes
  /\ rt' = [rt EXCEPT ![a].phase = "starting", ![a].lane = "start"]
  /\ UNCHANGED <<shown, job, closes, opens, broken>>

\* #bindViewedRunInLane: an admission keeps a selected Runtime, and throws if the view is of
\* another Runtime.
Bind(a, r) ==
  LET mine == Views(a, r.projection)
      other == shown.agent = a /\ ~mine
  IN /\ rt' = [rt EXCEPT ![a] = IF other THEN Dormant(r)
                               ELSE [r EXCEPT !.retained = @ \/ mine]]
     /\ shown' = IF mine THEN [shown EXCEPT !.failed = FALSE] ELSE shown
     /\ broken' = (broken \/ other)
     /\ UNCHANGED <<job, closes, opens>>

\* The Runtime of a starting Run is bound, and the human can reach it before it is ready.
StartPublishes(a) ==
  /\ rt[a].phase = "starting" /\ rt[a].projection = 0
  /\ Bind(a, [rt[a] EXCEPT !.projection = rt[a].next, !.next = @ + 1,
                       !.admitted = TRUE])
StartReady(a) ==
  /\ rt[a].phase = "starting" /\ rt[a].projection # 0
  /\ rt' = [rt EXCEPT ![a].phase = "live", ![a].lane = "free"]
  /\ UNCHANGED <<shown, job, closes, opens, broken>>

\* #discardFailedStart: the view of a Run that never became usable is closed with it
\* (#handleViewedRunEndingInLane).
StartFails(a) ==
  /\ rt[a].phase = "starting"
  /\ rt' = [rt EXCEPT ![a] = Dormant(@)]
  /\ shown' = IF rt[a].projection # 0 /\ Views(a, rt[a].projection) THEN NoView ELSE shown
  /\ UNCHANGED <<job, closes, opens, broken>>

\* A Run in a Runtime that is there already, prepared or left by an earlier Run.
Admit(a) ==
  /\ Free(a) /\ rt[a].phase \in {"preparing", "live"} /\ ~rt[a].admitted
  /\ Bind(a, [rt[a] EXCEPT !.admitted = TRUE])

\* The Run is released, or fails and leaves its view as it is: a retained Runtime stays.
RunEnds(a) ==
  /\ Free(a) /\ rt[a].phase = "live" /\ rt[a].admitted
  /\ rt' = [rt EXCEPT ![a] = IF @.retained THEN [@ EXCEPT !.admitted = FALSE] ELSE Dormant(@)]
  /\ \E failed \in BOOLEAN :
       shown' = IF failed /\ Views(a, rt[a].projection) THEN [shown EXCEPT !.failed = TRUE]
                ELSE shown
  /\ UNCHANGED <<job, closes, opens, broken>>

\* requestRelease of a Runtime nobody needs.
Release(a) ==
  /\ Free(a) /\ rt[a].phase = "live" /\ ~rt[a].admitted /\ ~rt[a].retained
  /\ rt' = [rt EXCEPT ![a] = Dormant(@)]
  /\ UNCHANGED <<shown, job, closes, opens, broken>>

-----------------------------------------------------------------------------
(* A Runtime prepared for the human, without a Run.                        *)

\* The projection is published and the lane released while the Runtime becomes ready.
PreparePublishes(a) ==
  /\ rt[a].lane = "prepare" /\ rt[a].projection = 0
  /\ rt' = [rt EXCEPT ![a].projection = rt[a].next, ![a].next = rt[a].next + 1,
                      ![a].phase = "preparing", ![a].lane = "free"]
  /\ UNCHANGED <<shown, job, closes, opens, broken>>
PrepareReady(a) ==
  /\ rt[a].phase = "preparing"
  /\ rt' = [rt EXCEPT ![a].phase = "live"]
  /\ UNCHANGED <<shown, job, closes, opens, broken>>

\* #classifyFailedStartInLane, in the lane again; the view is closed later, on the view
\* lane, but that of an admitted Run at once.
PrepareFails(a) ==
  /\ \/ rt[a].lane = "prepare"
     \/ rt[a].phase = "preparing" /\ Free(a)
  /\ rt' = [rt EXCEPT ![a] = Dormant(@)]
  /\ closes' = IF rt[a].projection = 0 THEN closes
               ELSE closes \cup {<<a, rt[a].projection>>}
  /\ shown' = IF rt[a].admitted /\ Views(a, rt[a].projection) THEN NoView ELSE shown
  /\ UNCHANGED <<job, opens, broken>>

-----------------------------------------------------------------------------
(* The view lane.                                                          *)

\* openPresentation captures the active view here, and goes by it to its end.
Open(a) ==
  /\ job = NoJob /\ shown.agent # a /\ opens < MaxOpens
  /\ opens' = opens + 1
  /\ job' = [NoJob EXCEPT !.step = "acquire", !.target = a, !.prior = shown]
  /\ UNCHANGED <<rt, shown, closes, broken>>

Retain(a) == rt' = [rt EXCEPT ![a].retained = TRUE]
Target(a) == job' = [job EXCEPT !.step = "show", !.projection = rt[a].projection]

\* #acquireTarget of a Run that is starting: not in its lane, which waits for this human.
AcquireStarting ==
  /\ job.step = "acquire"
  /\ LET a == job.target IN
       /\ rt[a].phase = "starting" /\ rt[a].projection # 0
       /\ Retain(a) /\ Target(a)
  /\ UNCHANGED <<shown, closes, opens, broken>>

\* #acquireLiveTargetInLane
AcquireLive ==
  /\ job.step = "acquire"
  /\ LET a == job.target IN
       /\ Free(a) /\ rt[a].projection # 0
       /\ Retain(a) /\ Target(a)
  /\ UNCHANGED <<shown, closes, opens, broken>>

\* #prepareTarget: prepareInLane keeps the Runtime for the selection from the start.
Prepare ==
  /\ job.step = "acquire"
  /\ LET a == job.target IN
       /\ Free(a) /\ rt[a].phase = "dormant"
       /\ \/ /\ rt[a].next <= MaxRuntimes
             /\ rt' = [rt EXCEPT ![a].lane = "prepare", ![a].retained = TRUE]
             /\ job' = [job EXCEPT !.step = "prepared"]
          \/ job' = NoJob /\ UNCHANGED rt \* it cannot be started: a post mortem view
  /\ UNCHANGED <<shown, closes, opens, broken>>

\* waitForStartupProjection
Prepared ==
  /\ job.step = "prepared"
  /\ LET a == job.target IN
       /\ rt[a].projection # 0 \/ rt[a].lane # "prepare"
       /\ IF rt[a].projection # 0 THEN Retain(a) /\ Target(a)
                                  ELSE job' = NoJob /\ UNCHANGED rt
  /\ UNCHANGED <<shown, closes, opens, broken>>

\* The first view: nothing is checked again.
Show ==
  /\ job.step = "show" /\ job.prior = NoView
  /\ shown' = [agent |-> job.target, projection |-> job.projection, failed |-> FALSE]
  /\ job' = NoJob
  /\ UNCHANGED <<rt, closes, opens, broken>>

\* #switchActiveToTargetInLane, in the lane of the Agent that is left: a target that changed
\* meanwhile is released and acquired again.  The view itself is not looked at again: one that
\* closed in the meantime (its starting Run failed) is retargeted all the same, which shows
\* nothing.
Changed == rt[job.target].projection # job.projection
Unpublished == [rt EXCEPT ![job.target].retained = FALSE]
Switch ==
  /\ job.step = "show" /\ job.prior # NoView /\ Free(job.prior.agent)
  /\ IF Changed
     THEN /\ Free(job.target)
          /\ rt' = Unpublished
          /\ \E step \in {"acquire", "none"} :
               job' = IF step = "none" THEN NoJob ELSE [job EXCEPT !.step = step]
          /\ UNCHANGED shown
     ELSE /\ shown' = IF shown = NoView THEN NoView
                      ELSE [agent |-> job.target, projection |-> job.projection, failed |-> FALSE]
          /\ job' = [job EXCEPT !.step = "leave"]
          /\ UNCHANGED rt
  /\ UNCHANGED <<closes, opens, broken>>

\* Mutant of Left: the Runtime is let go only while its Run is still there.
LeftAdmitted(a, p) == rt[a].projection = p /\ rt[a].admitted
Left(a, p) == rt[a].projection = p

\* The terminal was handed over: the Runtime that was shown before is let go, if it is still
\* the one.
Leave ==
  /\ job.step = "leave" /\ Free(job.prior.agent)
  /\ LET a == job.prior.agent IN
       rt' = IF Left(a, job.prior.projection)
             THEN [rt EXCEPT ![a].retained = FALSE] ELSE rt
  /\ job' = NoJob
  /\ UNCHANGED <<shown, closes, opens, broken>>

\* The human goes back to the Owner, or a preparation failed under the view.
Close ==
  /\ job = NoJob /\ shown # NoView
  /\ job' = [NoJob EXCEPT !.step = "close", !.prior = shown]
  /\ UNCHANGED <<rt, shown, closes, opens, broken>>
CloseFailed ==
  /\ job = NoJob
  /\ \E c \in closes :
       /\ closes' = closes \ {c}
       /\ job' = IF Views(c[1], c[2]) THEN [NoJob EXCEPT !.step = "close", !.prior = shown]
                 ELSE job
  /\ UNCHANGED <<rt, shown, opens, broken>>

\* #closeActiveInLane: initialization is cancelled first, then the selection ends in the
\* lane of its Agent, whatever Runtime that has by now.
CloseCancels ==
  /\ job.step = "close"
  /\ LET a == job.prior.agent IN
       /\ rt[a].projection = job.prior.projection
       /\ IF rt[a].phase = "preparing" THEN Free(a) /\ PrepareFails(a)
          ELSE rt[a].phase = "starting" /\ StartFails(a)
Closed ==
  /\ job.step = "close"
  /\ Free(job.prior.agent)
  /\ IF shown = job.prior \/ Views(job.prior.agent, job.prior.projection)
     THEN /\ shown' = NoView
          /\ rt' = [rt EXCEPT ![job.prior.agent].retained = FALSE]
     ELSE UNCHANGED <<shown, rt>>
  /\ job' = NoJob
  /\ UNCHANGED <<closes, opens, broken>>

ViewNext ==
  \/ \E a \in Watched : \/ Start(a) \/ StartPublishes(a) \/ StartReady(a) \/ StartFails(a)
                        \/ Admit(a) \/ RunEnds(a) \/ Release(a)
                        \/ PreparePublishes(a) \/ PrepareReady(a) \/ PrepareFails(a)
                        \/ Open(a)
  \/ AcquireStarting \/ AcquireLive \/ Prepare \/ Prepared \/ Show \/ Switch \/ Leave
  \/ Close \/ CloseFailed \/ CloseCancels \/ Closed

\* A switch strands its target until the reason it set is removed after all.
Strands == IF job.step = "show" /\ job'.step = "leave" /\ shown' = NoView THEN {job.target} ELSE {}

Next == ViewNext /\ stranded' = {a \in stranded \cup Strands : rt'[a].retained}

Spec == Init /\ [][Next]_vars

-----------------------------------------------------------------------------
\* An Agent is kept for the human only while it is viewed, or on its way into or out of the
\* view: a reason that stayed behind would keep it from being released, and from being
\* inspected for Deadlocks, for good (the comment in #closeActiveInLane).  One switch does
\* leave its reason behind: that to a target which was acquired while the view closed by
\* itself.  No other order of Runs, preparations, switches and closes may.
NoSelectionLingers ==
  \A a \in Watched : rt[a].retained =>
    \/ shown.agent = a
    \/ job.target = a
    \/ job.step \in {"leave", "close"} /\ job.prior.agent = a
    \/ a \in stranded

\* The assertion in #bindViewedRunInLane: the Runtime of a viewed Agent does not change under
\* the view.
ViewedRuntimeIsKept == ~broken
=============================================================================
