--------------------------- MODULE HumanRequests ---------------------------
(***************************************************************************)
(* ask_user: the question a child Agent puts to the human                  *)
(* (human-requests.ts), from the tool call in the child to the result that *)
(* its transcript holds, over the Runs of one Agent, with the review that  *)
(* watches the call meanwhile (operation-review.ts).  Agents wait for the  *)
(* human independently of each other, so one is enough.                    *)
(*                                                                         *)
(* The child is another process: the guard of its result and the commit of *)
(* it are two steps, and it can die between any two.                       *)
(***************************************************************************)
EXTENDS Naturals, FiniteSets

CONSTANTS MaxRuns,  \* Runs of the Agent
          MaxCalls  \* questions it asks

VARIABLES
  host,    \* run, phase ("ended", "running", "failed", "ending"), input,
           \* and whether its native turn is aborted
  kid,     \* phase, ok: where the child is with the call
  last,    \* the newest call
  ask,     \* ask[c]: run, phase, promise, candidate; pending: #pendingByRequestId
  pending,
  result,  \* result[c]: what the child's transcript holds of c
  review,  \* of the newest call: "none", "ticking" or "expired"; waiting, handled; and
           \* whether a Moderator renewed it
  owed     \* the Agent owes an Answer

questionVars == <<host, kid, last, ask, pending, result, review, owed>>

Calls == 1 .. MaxCalls
NoCall == 0
Unreviewed == [watch |-> "none", waiting |-> FALSE, handled |-> FALSE, renewed |-> FALSE]

QuestionInit ==
  /\ host = [run |-> 0, phase |-> "ended", input |-> NoCall, aborted |-> FALSE]
  \* phase: "gone", "idle", "issued", "asking", "returned" or "guarded"
  /\ kid = [phase |-> "gone", ok |-> FALSE]
  /\ last = NoCall /\ pending = {}
  /\ ask = [c \in Calls |-> [run |-> 0, phase |-> "none", promise |-> "none",
                             candidate |-> FALSE]]
  /\ result = [c \in Calls |-> "none"]
  /\ review = Unreviewed /\ owed \in BOOLEAN

-----------------------------------------------------------------------------
(* OperationReviewWatcher, for the newest call.                            *)

Unresolved == result[last] = "none"

\* #clearExpired
Unexpired(r) == IF r.watch = "expired"
                THEN [r EXCEPT !.watch = "none", !.handled = FALSE] ELSE r

\* #reconcile; a removed call is not watched again.
Reconciled(r, unresolved) ==
  IF r = Unreviewed \/ ~unresolved \/ ~owed THEN Unreviewed
  ELSE IF r.waiting THEN [r EXCEPT !.watch = "none", !.handled = FALSE]
  ELSE IF r.watch = "none" THEN [r EXCEPT !.watch = "ticking", !.handled = FALSE]
  ELSE r

\* beginHumanWaiting: a review a Moderator already handles is kept.
Waiting(r) == IF r = Unreviewed THEN r
              ELSE LET w == [r EXCEPT !.waiting = TRUE,
                                      !.watch = IF @ = "ticking" THEN "none" ELSE @]
                   IN  IF r.handled THEN w ELSE Unexpired(w)

\* beginHumanResultCommit
ResultComing(r) == IF r = Unreviewed THEN r
                   ELSE Reconciled([r EXCEPT !.waiting = FALSE], Unresolved)

\* The interval ends.
Expire ==
  /\ review.watch = "ticking"
  /\ review' = IF ~Unresolved \/ ~owed THEN Unreviewed ELSE [review EXCEPT !.watch = "expired"]
  /\ UNCHANGED <<host, kid, last, ask, pending, result, owed>>

\* markModeratorInputCommitted: a Moderator was created for the expired review.
ModeratorHandles ==
  /\ review.watch = "expired" /\ ~review.handled
  /\ review' = [review EXCEPT !.handled = TRUE]
  /\ UNCHANGED <<host, kid, last, ask, pending, result, owed>>

\* renew
Renew ==
  /\ review.handled
  /\ review' = IF ~Unresolved \/ ~owed THEN Unreviewed
               ELSE [review EXCEPT !.watch = IF review.waiting THEN "none" ELSE "ticking",
                                   !.handled = FALSE, !.renewed = TRUE]
  /\ UNCHANGED <<host, kid, last, ask, pending, result, owed>>

\* The last Answer the Agent owes is committed.
Discharge == owed /\ owed' = FALSE
             /\ UNCHANGED <<host, kid, last, ask, pending, result, review>>

\* Any change of the host's state, a selection by the human among them.
StateChange ==
  /\ review # Reconciled(review, Unresolved)
  /\ review' = Reconciled(review, Unresolved)
  /\ UNCHANGED <<host, kid, last, ask, pending, result, owed>>

-----------------------------------------------------------------------------
(* HumanRequestCoordinator.                                                *)

Accepts(c) == host.phase = "running" /\ host.run = ask[c].run /\ host.input = c

\* #fence: the promise of a submitted candidate is resolved already.
WithFence(a) == [a EXCEPT !.phase = "fenced",
                       !.promise = IF @ = "none" THEN "rejected" ELSE @]
Fence(cs) ==
  LET hit == {c \in cs \cap pending : ask[c].phase # "fenced"} IN
  /\ ask' = [c \in Calls |-> IF c \in hit THEN WithFence(ask[c]) ELSE ask[c]]
  /\ review' = IF last \in hit THEN ResultComing(review) ELSE review

\* reconcileCommittedResults: the pending calls whose result the transcript holds are
\* complete, and the reviews are reconciled after them.
Committed == {c \in pending : result[c] # "none"}
Reconcile ==
  /\ pending' = pending \ Committed
  /\ host' = [host EXCEPT !.input = IF @ \in Committed THEN NoCall ELSE @]
  /\ review' = IF last = NoCall THEN review ELSE Reconciled(review, Unresolved)

\* ask: one question at a time, in the current Run, or the tool call fails.
Admissible(c) == host.phase = "running" /\ ~host.aborted /\ pending = {}
AskHuman ==
  /\ kid.phase = "issued"
  /\ IF Admissible(last)
     THEN /\ kid' = [kid EXCEPT !.phase = "asking"]
          /\ host' = [host EXCEPT !.input = last]
          /\ pending' = pending \cup {last}
          /\ ask' = [ask EXCEPT ![last] = [run |-> host.run, phase |-> "open",
                                           promise |-> "none", candidate |-> FALSE]]
          /\ review' = Waiting(Reconciled(review, Unresolved))
     ELSE /\ kid' = [phase |-> "returned", ok |-> FALSE]
          /\ UNCHANGED <<host, pending, ask, review>>
  /\ UNCHANGED <<last, result, owed>>

\* submitAnswer: the human presses Enter in the editor of the Agent.
Submit ==
  /\ \E c \in pending :
       /\ ask[c].phase = "open"
       /\ IF ~host.aborted /\ Accepts(c)
          THEN /\ ask' = [ask EXCEPT ![c].phase = "submitted", ![c].promise = "resolved",
                                     ![c].candidate = TRUE]
               /\ review' = ResultComing(review)
          ELSE Fence({c})
  /\ UNCHANGED <<host, kid, last, pending, result, owed>>

\* Escape aborts the native turn in the child, and the signal of its request here.
Escape ==
  /\ kid.phase = "asking" /\ host.phase = "running" /\ ~host.aborted
  /\ host' = [host EXCEPT !.aborted = TRUE]
  /\ Fence({last})
  /\ UNCHANGED <<kid, last, pending, result, owed>>

\* guardResultCommit: an error goes through; a success only if the Run still accepts it.
Guarded(ok) == ok /\ (last \in pending => ask[last].phase # "fenced" /\ Accepts(last))
Guard ==
  /\ kid.phase = "returned"
  /\ kid' = [phase |-> "guarded", ok |-> Guarded(kid.ok)]
  /\ IF kid.ok /\ last \in pending /\ ~Accepts(last) THEN Fence({last})
     ELSE UNCHANGED <<ask, review>>
  /\ UNCHANGED <<host, last, pending, result, owed>>

-----------------------------------------------------------------------------
(* The child.                                                              *)

\* rootToolExecutionStarted: the facts are reconciled before the call is admitted.
Issue ==
  /\ kid.phase = "idle" /\ host.phase = "running" /\ ~host.aborted /\ last < MaxCalls
  /\ Committed = {}
  /\ last' = last + 1
  /\ kid' = [kid EXCEPT !.phase = "issued"]
  /\ review' = IF owed THEN [Unreviewed EXCEPT !.watch = "ticking"] ELSE Unreviewed
  /\ UNCHANGED <<host, ask, pending, result, owed>>

\* The native turn after an Escape has a signal of its own.
NextTurn ==
  /\ kid.phase = "idle" /\ host.phase = "running" /\ host.aborted /\ Committed = {}
  /\ host' = [host EXCEPT !.aborted = FALSE]
  /\ UNCHANGED <<kid, last, ask, pending, result, review, owed>>

\* The tool returns what the Owner answered, or that its own turn was aborted.
Return ==
  /\ kid.phase = "asking" /\ ask[last].promise # "none"
  /\ \E ok \in {ask[last].promise = "resolved"} \cup (IF host.aborted THEN {FALSE} ELSE {}) :
       kid' = [phase |-> "returned", ok |-> ok]
  /\ UNCHANGED <<host, last, ask, pending, result, review, owed>>

Commit ==
  /\ kid.phase = "guarded"
  /\ kid' = [kid EXCEPT !.phase = "idle"]
  /\ result' = [result EXCEPT ![last] = IF kid.ok THEN "answered" ELSE "interrupted"]
  /\ UNCHANGED <<host, last, ask, pending, review, owed>>

\* safeBoundaryReached at turn_end and executionEnded at agent_end; an aborted turn
\* reaches only the second.
\* Mutant of Boundary: only turn_end reconciles.
BoundaryAtTurnEnd ==
  /\ kid.phase = "idle" /\ Committed # {} /\ ~host.aborted
  /\ Reconcile
  /\ UNCHANGED <<kid, last, ask, result, owed>>
Boundary ==
  /\ kid.phase = "idle" /\ Committed # {}
  /\ Reconcile
  /\ UNCHANGED <<kid, last, ask, result, owed>>

Crash ==
  /\ kid.phase # "gone" /\ host.phase # "ended"
  /\ kid' = [kid EXCEPT !.phase = "gone"]
  /\ UNCHANGED <<host, last, ask, pending, result, review, owed>>

-----------------------------------------------------------------------------
(* The Run.                                                                *)

Begin ==
  /\ host.phase = "ended" /\ host.run < MaxRuns
  /\ host' = [run |-> host.run + 1, phase |-> "running", input |-> NoCall, aborted |-> FALSE]
  /\ kid' = [phase |-> "idle", ok |-> FALSE]
  /\ UNCHANGED <<last, ask, pending, result, review, owed>>

\* #fenceRun, the fence handler of the Run: when it fails and when it starts to end.
OfRun == {c \in pending : ask[c].run = host.run}

Fail ==
  /\ host.phase = "running"
  /\ host' = [host EXCEPT !.phase = "failed"]
  /\ Fence(OfRun)
  /\ UNCHANGED <<kid, last, pending, result, owed>>

\* Mutant of EndBegins: the end of a Run that did not fail fences nothing.
EndFencesFailed ==
  /\ host.phase \in {"running", "failed"}
  /\ host' = [host EXCEPT !.phase = "ending"]
  /\ IF host.phase = "failed" THEN Fence(OfRun) ELSE UNCHANGED <<ask, review>>
  /\ UNCHANGED <<kid, last, pending, result, owed>>
EndBegins ==
  /\ host.phase \in {"running", "failed"}
  /\ host' = [host EXCEPT !.phase = "ending"]
  /\ Fence(OfRun)
  /\ UNCHANGED <<kid, last, pending, result, owed>>

\* The Runtime is disposed, and what belongs to the Run with it.
Ended ==
  /\ host.phase = "ending"
  /\ host' = [host EXCEPT !.phase = "ended", !.input = NoCall]
  /\ kid' = [kid EXCEPT !.phase = "gone"]
  /\ review' = Unreviewed
  /\ UNCHANGED <<last, ask, pending, result, owed>>

QuestionNext ==
  \/ Begin \/ Fail \/ EndBegins \/ Ended \/ Crash
  \/ Issue \/ NextTurn \/ AskHuman \/ Return \/ Guard \/ Commit \/ Boundary
  \/ Submit \/ Escape
  \/ Expire \/ ModeratorHandles \/ Renew \/ Discharge \/ StateChange

QuestionSpec == QuestionInit /\ [][QuestionNext]_questionVars

\* The child goes on while it lives, and a Run that ends is ended.
Progress == Return \/ Guard \/ Commit \/ Boundary \/ Ended
FairQuestionSpec == QuestionSpec /\ WF_questionVars(Progress)

-----------------------------------------------------------------------------
QuestionTypeOK ==
  /\ host.run \in 0 .. MaxRuns /\ host.input \in Calls \cup {NoCall}
  /\ pending \subseteq Calls
  /\ \A c \in Calls : ask[c].phase \in {"none", "open", "submitted", "fenced"}

\* The human is asked, and an answer is taken, only for a Run that can still commit it:
\* whatever makes a Run fail or end fences its questions in the same step (#fenceRun).
OpenQuestionIsAnswerable ==
  \A c \in pending : ask[c].phase \in {"open", "submitted"} => Accepts(c)

\* A question that was answered or fenced stops being pending, unless its child died before
\* a result was committed (reconcileCommittedResults at turn_end and agent_end).
LostWithItsChild(c) == kid.phase = "gone" \/ host.run # ask[c].run
EveryQuestionSettles ==
  \A c \in Calls : (c \in pending /\ ask[c].phase # "open")
                     ~> (c \notin pending \/ LostWithItsChild(c))

\* docs/operational-incident-moderation.md:21: once a Moderator handles an expired review,
\* that the human is waited for does not clear it; only the result, the end of the
\* obligation or of the Run, or a renewal does.
HandledReviewStands ==
  [][review.handled /\ review.waiting /\ owed /\ Unresolved /\ host'.phase = host.phase
       => review'.handled \/ review'.renewed]_questionVars

\* docs/human-requests.md:108: Answer mode is volatile, a successor Run does not have it.
AnswerModeEndsWithItsRun ==
  host.phase = "running" => \A c \in pending : ask[c].run = host.run

\* docs/human-requests.md:100: a fence between submission and commit defeats the candidate.
FenceDefeatsTheCandidate ==
  \A c \in Calls : ask[c].phase = "fenced" => result[c] # "answered"
=============================================================================
