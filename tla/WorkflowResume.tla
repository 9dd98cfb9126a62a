--------------------------- MODULE WorkflowResume ---------------------------
(***************************************************************************)
(* workflow_resume: the Owner takes up again what a lost host left behind  *)
(* (workflow-resume.ts).  A snapshot of the transcripts names the          *)
(* responders whose Requests are unanswered and the Requests that were     *)
(* never delivered; the responders are continued first                     *)
(* (continueDormantResponder of run-supervision.ts), then the Requests are *)
(* scheduled again (resumeMessage of messages.ts), and only when all that  *)
(* is admitted may a continuation be dispatched, with the view of its      *)
(* Agent.  Runs start, ask, answer and end meanwhile.                      *)
(*                                                                         *)
(* Each Agent has at most one incoming Request, named after it.            *)
(***************************************************************************)
EXTENDS Naturals, FiniteSets

CONSTANTS Agents,     \* responders
          Author,     \* Author[a]: who asked a: an Agent, or the Owner
          MaxRuns,    \* Runs of an Agent
          MaxResumes  \* calls of workflow_resume

VARIABLES
  run,       \* run[a]: number, phase, input (currentRunHasInput), held, kept
  request,   \* request[a]: "absent", "unsent", "delivered" or "answered"
  job,       \* the resume on its way: number, step, listed, responders, unsent, at, handle
  admitted,  \* continuations in the scheduler: agent, run, resume
  scheduled, \* Requests in the scheduler
  views,     \* views[n]: what resume n tells each author, and whether it is ready
  continued, \* continuations that were dispatched: agent, run, resume, view
  known      \* history: the Requests that were authored when resume n took its snapshot

vars == <<run, request, job, admitted, scheduled, views, continued, known>>

NoAgent == "none"
Idle(n) == [number |-> n, step |-> "none", listed |-> {}, responders |-> {}, unsent |-> {},
            at |-> NoAgent, handle |-> 0]
NotReady == [ready |-> FALSE, outstanding |-> {}]

Init ==
  /\ run = [a \in Agents |-> [number |-> 0, phase |-> "dormant", input |-> FALSE,
                              held |-> FALSE, kept |-> FALSE]]
  /\ request \in [Agents -> {"absent", "unsent", "delivered"}]
  /\ job = Idle(0)
  /\ admitted = {} /\ scheduled = {} /\ continued = {}
  /\ views = [n \in 1 .. MaxResumes |-> NotReady] /\ known = [n \in 1 .. MaxResumes |-> {}]

Busy(a) == job.at = a \* the lane of a is held by the activation
Unresolved(a) == request[a] = "delivered"

-----------------------------------------------------------------------------
(* The Agents.                                                             *)

Started(r) == [r EXCEPT !.number = @ + 1, !.phase = "live", !.input = FALSE]
Ended(r) == [r EXCEPT !.phase = "dormant", !.input = FALSE, !.held = FALSE, !.kept = FALSE]

\* Something else than the resume gives a Run input, and starts it if there is none.
Input(a) ==
  /\ ~Busy(a) /\ ~run[a].held
  /\ IF run[a].phase = "dormant"
     THEN run[a].number < MaxRuns /\ run' = [run EXCEPT ![a] = [Started(@) EXCEPT !.input = TRUE]]
     ELSE ~run[a].input /\ run' = [run EXCEPT ![a].input = TRUE]
  /\ UNCHANGED <<request, job, admitted, scheduled, views, continued, known>>

\* The Owner, or an Agent at work, asks: its Request is in the scheduler, or not admitted.
Ask(a) ==
  /\ request[a] = "absent"
  /\ Author[a] \in Agents => run[Author[a]].phase = "live" /\ run[Author[a]].input
  /\ request' = [request EXCEPT ![a] = "unsent"]
  /\ scheduled' \in {scheduled, scheduled \cup {a}}
  /\ UNCHANGED <<run, job, admitted, views, continued, known>>

\* An Answer is committed; one by a Run that was not resumed counts as well.
AnswerCommits(a) ==
  /\ Unresolved(a) /\ run[a].phase = "live" /\ run[a].input
  /\ request' = [request EXCEPT ![a] = "answered"]
  /\ UNCHANGED <<run, job, admitted, scheduled, views, continued, known>>

\* A Run ends: released when nothing keeps it, or lost at any time.
RunEnds(a) ==
  /\ run[a].phase = "live"
  /\ run' = [run EXCEPT ![a] = Ended(@)]
  /\ UNCHANGED <<request, job, admitted, scheduled, views, continued, known>>

\* The human interrupts the Run, and resumes it.
Hold(a) ==
  /\ run[a].phase = "live"
  /\ run' = [run EXCEPT ![a].held = ~@]
  /\ UNCHANGED <<request, job, admitted, scheduled, views, continued, known>>

-----------------------------------------------------------------------------
(* resumeWorkflow                                                          *)

\* The snapshot: recoveryRequestIds and recoveryMessageCandidates of every Agent.  A Request
\* that is authored later is in no view, and one that is resolved already is left out.
Resume ==
  /\ job.step = "none" /\ job.number < MaxResumes
  /\ job' = [Idle(job.number + 1) EXCEPT
              !.step = "activate",
              !.listed = {a \in Agents : request[a] \in {"unsent", "delivered"}},
              !.responders = {a \in Agents : Unresolved(a)},
              !.unsent = {a \in Agents : request[a] = "unsent"}]
  /\ known' = [known EXCEPT ![job.number + 1] = {a \in Agents : request[a] # "absent"}]
  /\ UNCHANGED <<run, request, admitted, scheduled, views, continued>>

\* continueDormantResponder, in the lane of the responder.  A Run that has input, or is being
\* continued already, is left alone; another is continued, or one is started.
Continued(a) == \E c \in admitted : c.agent = a /\ c.run = run[a].number
AlreadyRunning(a) == run[a].phase = "live" /\ (run[a].input \/ Continued(a))

Activate(a) ==
  /\ job.step = "activate" /\ job.at = NoAgent /\ a \in job.responders
  /\ LET skipped == run[a].held \/ AlreadyRunning(a) \/ ~Unresolved(a) IN
       IF skipped
       THEN job' = [job EXCEPT !.responders = @ \ {a}] /\ UNCHANGED run
       ELSE IF run[a].phase = "live"
       THEN job' = [job EXCEPT !.at = a, !.handle = run[a].number] /\ UNCHANGED run
       ELSE \/ /\ run[a].number < MaxRuns
               /\ run' = [run EXCEPT ![a] = [Started(@) EXCEPT !.kept = TRUE]]
               /\ job' = [job EXCEPT !.at = a, !.handle = run'[a].number]
            \/ job' = [job EXCEPT !.responders = @ \ {a}] /\ UNCHANGED run \* it does not start
  /\ UNCHANGED <<request, admitted, scheduled, views, continued, known>>

\* The Run is there: what was captured is looked at again before the continuation is admitted.
IsCurrent(a, n) == run[a].phase = "live" /\ run[a].number = n
Admit(a) ==
  /\ job.at = a
  /\ LET ok == IsCurrent(a, job.handle) /\ ~run[a].held /\ Unresolved(a) IN
       /\ admitted' = IF ok THEN admitted \cup {[agent |-> a, run |-> job.handle,
                                                  resume |-> job.number]}
                      ELSE admitted
       \* A Run that was started for nothing is released.
       /\ run' = IF ~ok /\ IsCurrent(a, job.handle) /\ run[a].kept /\ ~run[a].input
                 THEN [run EXCEPT ![a] = Ended(@)] ELSE run
  /\ job' = [job EXCEPT !.at = NoAgent, !.handle = 0, !.responders = @ \ {a}]
  /\ UNCHANGED <<request, scheduled, views, continued, known>>

\* resumeMessage: inspected again, and not scheduled twice; one that is resolved by now is
\* listed no more.
ScheduleAgain(a) ==
  /\ job.step = "activate" /\ job.responders = {} /\ a \in job.unsent
  /\ job' = [job EXCEPT !.unsent = @ \ {a},
                        !.listed = IF request[a] = "answered" THEN @ \ {a} ELSE @]
  /\ scheduled' = IF request[a] = "unsent" THEN scheduled \cup {a} ELSE scheduled
  /\ UNCHANGED <<run, request, admitted, views, continued, known>>

\* The finally: each author's view of the Requests in the snapshot, and then the barrier falls.
\* A delivered one stays listed, as resolved, when its Answer came meanwhile.
Finish ==
  /\ job.step = "activate" /\ job.responders = {} /\ job.unsent = {}
  /\ views' = [views EXCEPT ![job.number] =
                 [ready |-> TRUE, outstanding |-> job.listed]]
  /\ job' = Idle(job.number)
  /\ UNCHANGED <<run, request, admitted, scheduled, continued, known>>

-----------------------------------------------------------------------------
(* The scheduler.                                                          *)

\* isReady and isSuppressed of a continuation.
\* Mutant of IsReady: the continuation does not wait for the resume.
IsReadyAtOnce(c) == TRUE
IsReady(c) == views[c.resume].ready
IsSuppressed(c) == ~IsCurrent(c.agent, c.run) \/ ~Unresolved(c.agent)
Told(c) == {a \in views[c.resume].outstanding : Author[a] = c.agent}

Dispatch ==
  /\ \E c \in admitted :
       /\ ~Busy(c.agent)
       /\ \/ IsSuppressed(c) /\ UNCHANGED <<run, continued>>
          \/ /\ ~IsSuppressed(c) /\ IsReady(c) /\ ~run[c.agent].held
             /\ run' = [run EXCEPT ![c.agent].input = TRUE]
             /\ continued' = continued \cup {[agent |-> c.agent, run |-> c.run,
                                              resume |-> c.resume, told |-> Told(c)]}
       /\ admitted' = admitted \ {c}
  /\ UNCHANGED <<request, job, scheduled, views, known>>

\* A Request that was scheduled again starts a Run; the interrupted one of the same Agent
\* would have been continued before it.
Deliver(a) ==
  /\ a \in scheduled /\ ~Busy(a) /\ ~run[a].held
  /\ run[a].phase = "live" \/ run[a].number < MaxRuns
  /\ scheduled' = scheduled \ {a}
  /\ request' = [request EXCEPT ![a] = "delivered"]
  /\ run' = [run EXCEPT ![a] = IF @.phase = "live" THEN [@ EXCEPT !.input = TRUE]
                               ELSE [Started(@) EXCEPT !.input = TRUE]]
  /\ UNCHANGED <<job, admitted, views, continued, known>>

Next ==
  \/ \E a \in Agents : \/ Input(a) \/ Ask(a) \/ AnswerCommits(a) \/ RunEnds(a) \/ Hold(a)
                       \/ Activate(a) \/ Admit(a) \/ ScheduleAgain(a) \/ Deliver(a)
  \/ Resume \/ Finish \/ Dispatch

Spec == Init /\ [][Next]_vars

-----------------------------------------------------------------------------

\* A continuation tells its Agent of every Request that the Agent itself had authored when the
\* resume took its snapshot and still waits for, however long ago that was; none is dispatched
\* before all admissions are made and the views drawn up.
Informed ==
  \A c \in continued' \ continued : \A a \in known[c.resume] :
    Author[a] = c.agent /\ request[a] # "answered" => a \in c.told
ContinuationKnowsItsRequests == [][Informed]_vars
=============================================================================
