------------------------------ MODULE AgentWait ------------------------------
(***************************************************************************)
(* agent_wait: one requester parks its Run until every Request of a        *)
(* snapshot is answered (coordination/agent-waits.ts), the arbitration     *)
(* that lets either a committed tool result or a direct Delivery, never    *)
(* both, be the requester's proof of an Answer                             *)
(* (coordination/answer-arbitration.ts), and the passes that keep the      *)
(* awaited Requests delivered (messages.ts, createRequestDelivery-         *)
(* Reconciler).                                                            *)
(*                                                                         *)
(* The requester executes its tool calls one after another.  A call goes   *)
(* through the stages of Pi's tool execution: "preparing" awaits the       *)
(* transcripts, "parked" awaits the Wait, "returned" holds a result the    *)
(* commit guard has not seen, "guarded" one it let through.  Every Request *)
(* has a responder of its own.                                             *)
(***************************************************************************)
EXTENDS Integers, FiniteSets

CONSTANTS Requests,   \* the Requests the requester authored, one per responder
          MaxCalls,   \* agent_wait calls of the requester
          MaxRuns,    \* Runs of the requester, and of each responder
          MaxEvents   \* unsolicited events: stops, ticks, preemptions

VARIABLES
  answer,    \* answer[r]: "none", "admitted" (indeterminate) or "canonical"
  proofs,    \* proofs[r]: requester-side proofs of the Answer
  inFlight,  \* the Requests whose direct Answer Delivery is frozen or dispatched
  resp,      \* resp[r]: the responder's Run and what the Request did there
  caller,    \* the requester's Run
  attention, \* AgentRuntimeSupervisor.#agentWait: the call it waits for, 0 if none
  exec,      \* the tool call in execution
  pend,      \* pend[c]: AgentWaitCoordinator.#pendingByKey
  committed, \* committed[c]: the native result in the requester's transcript
  shutdown, broken, events

vars == <<answer, proofs, inFlight, resp, caller, attention, exec, pend,
          committed, shutdown, broken, events>>

Calls == 1 .. MaxCalls

\* A result is a preemption, an error, or one disposition for each awaited Request.
Preempted == [kind |-> "preempted"]
Error     == [kind |-> "error"]
NoResult  == [kind |-> "none"]
WithAnswers(slots) == [kind |-> "answers", slots |-> slots]

NoPending == [phase |-> "absent"]
Idle      == [stage |-> "idle", call |-> 0, result |-> NoResult]

Phase(c)   == pend[c].phase
Waiting(c) == Phase(c) = "waiting"
Current(c) == caller.run # 0 /\ caller.run = pend[c].run
Spend      == events < MaxEvents /\ events' = events + 1
-----------------------------------------------------------------------------
(* Answer arbitration. *)

\* Mutant of InspectOne: the scheduler's reservations are not consulted.
IgnoresReservations(r) ==
  CASE answer[r] = "none"     -> "unanswered"
    [] answer[r] = "admitted" -> "indeterminate"
    [] OTHER -> IF proofs[r] > 0 THEN "delivered" ELSE "retrievable"
\* Whether the requester has the Answer of r, may retrieve it, or must leave
\* it to the Delivery the scheduler already holds.
InspectOne(r) ==
  CASE answer[r] = "none"                     -> "unanswered"
    [] answer[r] = "admitted"                 -> "indeterminate"
    [] answer[r] = "canonical" /\ proofs[r] > 0      -> "delivered"
    [] answer[r] = "canonical" /\ proofs[r] = 0
         /\ r \in inFlight                    -> "direct_delivery_in_flight"
    [] OTHER                                  -> "retrievable"

Slot(r) == IF InspectOne(r) = "delivered" THEN "already" ELSE "retrieved"

\* Every Request of the snapshot is retrievable or already delivered.
Complete(S)  == \A r \in S : InspectOne(r) \in {"retrievable", "delivered"}
Aggregate(S) == WithAnswers([r \in S |-> Slot(r)])

\* Re-checks a retrieval at the native commit edge.
Reconfirmed(S) ==
  IF \E r \in S : InspectOne(r) = "direct_delivery_in_flight"
  THEN Error ELSE Aggregate(S)
-----------------------------------------------------------------------------
(* Leaving the Wait: operators on a pending record and the attention.      *)

\* Mutant of Fence: the Wait rejects and its timer stops, its phase is left.
FencesOnlyThePromise(p) ==
  IF p.phase \in {"absent", "fenced"} THEN p
  ELSE [p EXCEPT !.timer = FALSE, !.promise = IF @ = NoResult THEN Error ELSE @]
\* #fence: the Wait rejects unless it has resolved, and its timer stops.
Fence(p) ==
  IF p.phase \in {"absent", "fenced"} THEN p
  ELSE [p EXCEPT !.phase = "fenced", !.timer = FALSE,
                 !.promise = IF @ = NoResult THEN Error ELSE @]

\* endAgentWait throws when the requester waits for another call.
Mismatch(c) == attention \notin {0, c}
EndsAttention(c) == IF attention = c THEN 0 ELSE attention

\* #resumeWithResult for a Wait that is still waiting.
Resumed(c, result) ==
  IF Mismatch(c) \/ shutdown \/ caller.suspended \/ caller.aborted \/ ~Current(c)
  THEN Fence(pend[c])
  ELSE [pend[c] EXCEPT !.phase = "result_pending", !.timer = FALSE,
                       !.candidate = result, !.promise = result]

ResumeWith(c, result) ==
  /\ pend' = [pend EXCEPT ![c] = Resumed(c, result)]
  /\ attention' = EndsAttention(c)
-----------------------------------------------------------------------------
(* Delivery maintenance of the awaited Requests.                           *)

\* The recipient a fresh Wait may readmit: the Run it found, or the next one.
IntentFor(r) == [handle |-> resp[r].run, seq |-> resp[r].seq]

\* Starts the passes of the recipients that have none; the others coalesce.
StartsPasses(p) == [p EXCEPT !.passes = p.reqs]

\* #reconcile of one pending Wait, up to its first await.
Reconciles(c) ==
  IF ~Waiting(c) THEN UNCHANGED <<pend, attention>>
  ELSE IF Complete(pend[c].reqs)
       THEN ResumeWith(c, Aggregate(pend[c].reqs))
       ELSE /\ pend' = [pend EXCEPT ![c] = StartsPasses(pend[c])]
            /\ UNCHANGED attention

\* The responder may still be readmitted for this Wait.
MayReadmit(i, r) ==
  IF i.handle # 0 THEN resp[r].run = i.handle
  ELSE resp[r].seq = i.seq /\ resp[r].run = 0

StillWaiting(c) == Waiting(c) /\ ~caller.aborted /\ Current(c)

\* #retryRequestInLane: an undelivered Request starts a Dormant responder and is
\* queued for a live one; a queued or delivered Request is left alone.
Starts(r) == resp[r].run = 0 /\ resp[r].request = "lost"
Retried(r) ==
  [resp[r] EXCEPT !.seq = IF Starts(r) THEN @ + 1 ELSE @,
                  !.run = IF Starts(r) THEN resp[r].seq + 1 ELSE @,
                  !.request = IF @ = "lost" THEN "queued" ELSE @]

\* A pass reaches the responder's lane and maintains the Request there.
PassRuns(c, r) ==
  /\ pend[c].phase # "absent"
  /\ r \in pend[c].passes
  /\ LET readmits == /\ StillWaiting(c)
                     /\ ~shutdown
                     /\ ~resp[r].failed
                     /\ answer[r] = "none"
                     /\ MayReadmit(pend[c].intent[r], r)
         next == Retried(r)
     IN /\ readmits => next.seq <= MaxRuns
        /\ resp' = [resp EXCEPT ![r] = IF readmits THEN next ELSE @]
        /\ pend' = [pend EXCEPT
             ![c].passes = @ \ {r},
             ![c].intent[r].handle = IF readmits THEN next.run ELSE @,
             ![c].starts[r] = IF readmits /\ Starts(r) THEN next.seq ELSE @]
  /\ UNCHANGED <<answer, proofs, inFlight, caller, attention, exec, committed,
                 shutdown, broken, events>>

\* Its Delivery cannot be ensured: the Wait fails unless it has ended meanwhile.
PassThrows(c, r) ==
  /\ Spend
  /\ pend[c].phase # "absent"
  /\ r \in pend[c].passes
  /\ LET p == [pend[c] EXCEPT !.passes = @ \ {r}] IN
     pend' = [pend EXCEPT ![c] = IF Waiting(c) THEN Fence(p) ELSE p]
  /\ UNCHANGED <<answer, proofs, inFlight, resp, caller, attention, exec,
                 committed, shutdown, broken>>
-----------------------------------------------------------------------------
(* The tool call. *)

Returns(result) == exec' = [exec EXCEPT !.stage = "returned", !.result = result]

\* wait() is called and awaits the transcripts.
Call(c) ==
  /\ exec.stage = "idle"
  /\ caller.run # 0 /\ ~caller.aborted /\ ~caller.failed
  /\ committed[c] = NoResult
  /\ \A d \in Calls : d < c => committed[d] # NoResult
  /\ exec' = [stage |-> "preparing", call |-> c, result |-> NoResult]
  /\ UNCHANGED <<answer, proofs, inFlight, resp, caller, attention, pend,
                 committed, shutdown, broken, events>>

\* outstandingRequestIdsAt: the Requests whose Answer the requester lacks.
Outstanding == {r \in Requests : answer[r] # "canonical" \/ proofs[r] = 0}

\* A Wait as it enters the table.
Pending(S) ==
  [phase |-> "waiting", run |-> caller.run, reqs |-> S, timer |-> FALSE,
   candidate |-> NoResult, promise |-> NoResult, passes |-> {},
   intent |-> [r \in S |-> IntentFor(r)], starts |-> [r \in S |-> 0]]

\* wait() continues: it rejects, answers at once, or parks the Run.
Prepared ==
  LET c == exec.call  S == Outstanding IN
  /\ exec.stage = "preparing"
  /\ IF caller.aborted \/ shutdown \/ S = {} \/ caller.run = 0
     THEN Returns(Error) /\ UNCHANGED <<pend, attention, broken>>
     ELSE IF Complete(S)
     THEN /\ pend' = [pend EXCEPT ![c] =
               [Pending(S) EXCEPT !.phase = "result_pending",
                  !.candidate = Aggregate(S), !.promise = Aggregate(S)]]
          /\ exec' = [exec EXCEPT !.stage = "parked"]
          /\ UNCHANGED <<attention, broken>>
     ELSE IF caller.failed \/ attention # 0
     THEN \* beginAgentWait throws; #complete throws too when another call waits.
          /\ Returns(Error)
          /\ broken' = (broken \/ attention # 0)
          /\ pend' = IF attention = 0 THEN pend
                     ELSE [pend EXCEPT ![c] = Pending(S)]
          /\ UNCHANGED attention
     ELSE /\ pend' = [pend EXCEPT ![c] =
               StartsPasses([Pending(S) EXCEPT !.timer = TRUE])]
          /\ attention' = c
          /\ exec' = [exec EXCEPT !.stage = "parked"]
          /\ UNCHANGED broken
  /\ UNCHANGED <<answer, proofs, inFlight, resp, caller, committed, shutdown, events>>

\* The promise of the Wait settles and the tool call returns.
Return ==
  /\ exec.stage = "parked"
  /\ pend[exec.call].phase # "absent"
  /\ pend[exec.call].promise # NoResult
  /\ Returns(pend[exec.call].promise)
  /\ UNCHANGED <<answer, proofs, inFlight, resp, caller, attention, pend,
                 committed, shutdown, broken, events>>

\* guardResultCommit decides what the transcript may hold of a result.
Guarded(c, result) ==
  IF result.kind = "error" \/ Phase(c) = "absent" THEN result
  ELSE IF /\ Phase(c) = "result_pending" /\ Current(c) /\ ~caller.failed
          /\ result = pend[c].candidate
       THEN IF result.kind = "preempted" THEN result ELSE Reconfirmed(pend[c].reqs)
       ELSE Error

\* Pi's final hook before it appends the result.
Guard ==
  LET c == exec.call  result == Guarded(c, exec.result) IN
  /\ exec.stage = "returned"
  /\ exec' = [exec EXCEPT !.stage = "guarded", !.result = result]
  /\ pend' = IF exec.result.kind = "error" \/ Phase(c) = "absent" THEN pend
             ELSE [pend EXCEPT ![c] = IF result = Error THEN Fence(@)
                                      ELSE [@ EXCEPT !.candidate = result]]
  /\ UNCHANGED <<answer, proofs, inFlight, resp, caller, attention, committed,
                 shutdown, broken, events>>

\* Pi appends the result: every retrieved slot becomes a requester-side proof.
AppendResult ==
  LET result == exec.result
      proved == IF result.kind # "answers" THEN {}
                ELSE {r \in DOMAIN result.slots : result.slots[r] = "retrieved"}
  IN /\ exec.stage = "guarded"
     /\ committed' = [committed EXCEPT ![exec.call] = result]
     /\ proofs' = [r \in Requests |-> IF r \in proved THEN proofs[r] + 1 ELSE proofs[r]]
     /\ exec' = Idle
     /\ UNCHANGED <<answer, inFlight, resp, caller, attention, pend, shutdown,
                    broken, events>>
-----------------------------------------------------------------------------
(* Preemption, timers and Answers.                                         *)

\* Human input or eligible Delivery preempts a parked Wait; complete Answers win
\* over it, and a Delivery must be reserved before it does.
Preempt(c, reserved) ==
  /\ Spend
  /\ Waiting(c)
  /\ IF Complete(pend[c].reqs)
     THEN ResumeWith(c, Aggregate(pend[c].reqs)) /\ UNCHANGED inFlight
     ELSE IF ~Current(c) THEN UNCHANGED <<pend, attention, inFlight>>
     ELSE /\ inFlight' = inFlight \cup reserved
          /\ ResumeWith(c, Preempted)
  /\ UNCHANGED <<answer, proofs, resp, caller, exec, committed, shutdown, broken>>

\* The interval elapses: the timer is armed again before the pass.
Tick(c) ==
  /\ Spend
  /\ Waiting(c) /\ pend[c].timer
  /\ Reconciles(c)
  /\ UNCHANGED <<answer, proofs, inFlight, resp, caller, exec, committed,
                 shutdown, broken>>

\* A responder admits its Answer, whose author result Pi has not appended.
Admit(r) ==
  /\ answer[r] = "none" /\ resp[r].run # 0 /\ resp[r].request = "delivered"
  /\ answer' = [answer EXCEPT ![r] = "admitted"]
  /\ UNCHANGED <<proofs, inFlight, resp, caller, attention, exec, pend,
                 committed, shutdown, broken, events>>

\* The author result becomes canonical and the responder's safe boundary lets
\* every parked Wait look again (reconcileCommittedAnswers).
BecomeCanonical(r) ==
  /\ answer[r] = "admitted"
  /\ answer' = [answer EXCEPT ![r] = "canonical"]
  /\ UNCHANGED <<proofs, inFlight, resp, caller, attention, exec, pend,
                 committed, shutdown, broken, events>>

\* A safe boundary of another Agent re-checks the Wait.
ReconcileCommittedAnswers(c) ==
  /\ Waiting(c) /\ Complete(pend[c].reqs)
  /\ Reconciles(c)
  /\ UNCHANGED <<answer, proofs, inFlight, resp, caller, exec, committed,
                 shutdown, broken, events>>

\* A pass ends or an Answer arrives after the Wait left the waiting phase or its
\* pending record: nothing happens.  (#reconcile, second phase check.)

\* The scheduler freezes the direct Delivery of a canonical Answer: at a boundary
\* of the requester, which is executing no tool call then, or as it preempts.
Freeze(r) ==
  /\ Spend
  /\ exec.stage = "idle"
  /\ answer[r] = "canonical" /\ proofs[r] = 0 /\ r \notin inFlight
  /\ inFlight' = inFlight \cup {r}
  /\ UNCHANGED <<answer, proofs, resp, caller, attention, exec, pend, committed,
                 shutdown, broken>>

\* The frozen Delivery commits in the requester's transcript.
DirectProof(r) ==
  /\ exec.stage = "idle"
  /\ r \in inFlight /\ caller.run # 0
  /\ inFlight' = inFlight \ {r}
  /\ proofs' = [proofs EXCEPT ![r] = IF answer[r] = "canonical" THEN @ + 1 ELSE @]
  /\ UNCHANGED <<answer, resp, caller, attention, exec, pend, committed,
                 shutdown, broken, events>>
-----------------------------------------------------------------------------
(* Boundaries and the end of things.                                       *)

\* #complete for a set of Waits.
Completes(S) ==
  /\ pend' = [c \in Calls |-> IF c \in S THEN NoPending ELSE pend[c]]
  /\ attention' = IF attention \in S THEN 0 ELSE attention

\* The requester's safe boundary: every Wait whose native result is committed
\* leaves the table, and the result must be the one it prepared.
SafeBoundary ==
  LET done == {c \in Calls : Phase(c) # "absent" /\ committed[c] # NoResult}
  IN /\ exec.stage = "idle" /\ caller.run # 0 /\ done # {}
     /\ Completes(done)
     /\ broken' = (broken \/ \E c \in done :
                      committed[c] # Error /\ committed[c] # pend[c].candidate)
     /\ UNCHANGED <<answer, proofs, inFlight, resp, caller, exec, committed,
                    shutdown, events>>

\* The Run of the requester is interrupted: the signal aborts the Wait.
Interrupt ==
  /\ Spend
  /\ caller.run # 0 /\ ~caller.aborted
  /\ caller' = [caller EXCEPT !.aborted = TRUE, !.suspended = TRUE]
  /\ pend' = [c \in Calls |-> IF exec.call = c THEN Fence(pend[c]) ELSE pend[c]]
  /\ UNCHANGED <<answer, proofs, inFlight, resp, attention, exec, committed,
                 shutdown, broken>>

\* A human resumes the interrupted Run; later calls get a new signal.
ResumeRun ==
  /\ caller.suspended /\ exec.stage = "idle"
  /\ caller' = [caller EXCEPT !.aborted = FALSE, !.suspended = FALSE]
  /\ UNCHANGED <<answer, proofs, inFlight, resp, attention, exec, pend,
                 committed, shutdown, broken, events>>

\* failExactRun: the Run is marked failed before it ends.
FailRun ==
  /\ Spend
  /\ caller.run # 0 /\ ~caller.failed
  /\ caller' = [caller EXCEPT !.failed = TRUE]
  /\ UNCHANGED <<answer, proofs, inFlight, resp, attention, exec, pend,
                 committed, shutdown, broken>>

\* The Run ends: its Waits are fenced and forgotten, the call it executed is
\* never appended, and its reservations go back.
EndRun ==
  /\ Spend
  /\ caller.run # 0
  /\ caller' = [caller EXCEPT !.run = 0, !.failed = FALSE, !.aborted = FALSE,
                              !.suspended = FALSE]
  /\ Completes({c \in Calls : Phase(c) # "absent" /\ pend[c].run = caller.run})
  /\ committed' = [c \in Calls |-> IF c = exec.call THEN Error ELSE committed[c]]
  /\ exec' = Idle
  /\ inFlight' = {}
  /\ UNCHANGED <<answer, proofs, resp, shutdown, broken>>

StartRun ==
  /\ caller.run = 0 /\ ~shutdown /\ caller.seq < MaxRuns
  /\ caller' = [caller EXCEPT !.run = caller.seq + 1, !.seq = @ + 1]
  /\ UNCHANGED <<answer, proofs, inFlight, resp, attention, exec, pend,
                 committed, shutdown, broken, events>>

\* The Request queued for the responder's Run becomes durable in its transcript.
Receive(r) ==
  /\ resp[r].run # 0 /\ resp[r].request = "queued"
  /\ resp' = [resp EXCEPT ![r].request = "delivered"]
  /\ UNCHANGED <<answer, proofs, inFlight, caller, attention, exec, pend,
                 committed, shutdown, broken, events>>

\* A responder's Run fails or is stopped, and ends; other work may start another.
StopResponder(r) ==
  /\ Spend
  /\ resp[r].run # 0
  /\ resp' = [resp EXCEPT
       ![r].run = IF resp[r].failed THEN 0 ELSE @,
       ![r].failed = ~@,
       ![r].request = IF resp[r].failed /\ @ = "queued" THEN "lost" ELSE @]
  /\ UNCHANGED <<answer, proofs, inFlight, caller, attention, exec, pend,
                 committed, shutdown, broken>>

StartResponder(r) ==
  /\ Spend
  /\ resp[r].run = 0 /\ resp[r].seq < MaxRuns /\ ~shutdown
  /\ resp' = [resp EXCEPT ![r].run = resp[r].seq + 1, ![r].seq = @ + 1]
  /\ UNCHANGED <<answer, proofs, inFlight, caller, attention, exec, pend,
                 committed, shutdown, broken>>

Shutdown ==
  /\ Spend
  /\ ~shutdown
  /\ shutdown' = TRUE
  /\ Completes({c \in Calls : Phase(c) # "absent"})
  /\ exec' = IF exec.stage = "parked"
             THEN [exec EXCEPT !.stage = "returned",
                     !.result = Fence(pend[exec.call]).promise]
             ELSE exec
  /\ UNCHANGED <<answer, proofs, inFlight, resp, caller, committed, broken>>
-----------------------------------------------------------------------------
Init ==
  /\ answer = [r \in Requests |-> "none"]
  /\ proofs = [r \in Requests |-> 0]
  /\ inFlight = {}
  /\ resp \in [Requests -> {[run |-> 0, seq |-> 0, failed |-> FALSE, request |-> "lost"],
                            [run |-> 1, seq |-> 1, failed |-> FALSE, request |-> "delivered"]}]
  /\ caller = [run |-> 1, seq |-> 1, failed |-> FALSE, aborted |-> FALSE,
               suspended |-> FALSE]
  /\ attention = 0
  /\ exec = Idle
  /\ pend = [c \in Calls |-> NoPending]
  /\ committed = [c \in Calls |-> NoResult]
  /\ shutdown = FALSE /\ broken = FALSE /\ events = 0

Next ==
  \/ \E c \in Calls : Call(c) \/ Tick(c) \/ ReconcileCommittedAnswers(c)
  \/ \E c \in Calls, S \in SUBSET {r \in Requests :
        answer[r] = "canonical" /\ proofs[r] = 0} : Preempt(c, S)
  \/ \E c \in Calls, r \in Requests : PassRuns(c, r) \/ PassThrows(c, r)
  \/ Prepared \/ Return \/ Guard \/ AppendResult \/ SafeBoundary
  \/ \E r \in Requests : \/ Admit(r) \/ BecomeCanonical(r) \/ Freeze(r)
                         \/ DirectProof(r) \/ Receive(r) \/ StopResponder(r) \/ StartResponder(r)
  \/ Interrupt \/ ResumeRun \/ FailRun \/ EndRun \/ StartRun \/ Shutdown

Spec == Init /\ [][Next]_vars
-----------------------------------------------------------------------------
PhaseOK(p) ==
  \/ p = NoPending
  \/ /\ p.phase \in {"waiting", "result_pending", "fenced"}
     /\ p.reqs \subseteq Requests /\ p.reqs # {}
     /\ p.passes \subseteq p.reqs
     /\ p.promise = NoResult <=> p.phase = "waiting"

TypeOK ==
  /\ answer \in [Requests -> {"none", "admitted", "canonical"}]
  /\ inFlight \subseteq Requests
  /\ attention \in 0 .. MaxCalls
  /\ \A c \in Calls : PhaseOK(pend[c])
  /\ committed \in [Calls -> {NoResult, Preempted, Error} \cup
       {WithAnswers(f) : f \in UNION {[S -> {"retrieved", "already"}] : S \in SUBSET Requests}}]

\* The requester holds at most one proof of an Answer whether a tool result or a
\* direct Delivery brought it, and only of a canonical one: the arbitration
\* implements AnswerOnce.
AO == INSTANCE AnswerOnce WITH
  canonical <- {r \in Requests : answer[r] = "canonical"}
AnsweredOnce == AO!ASpec

\* A parked Wait of a live Run is never forgotten: its timer is armed and the
\* requester's Run is shown as waiting for it.
WaitIsRenewed ==
  \A c \in Calls : exec.stage = "parked" /\ exec.call = c /\ Waiting(c) =>
    pend[c].timer /\ attention = c

\* A committed result accounts for the whole snapshot truthfully: it names an
\* Answer delivered before only where a proof exists, and no Wait commits Answers
\* while a direct Delivery of one of them is held.
ResultIsTruthful ==
  \A c \in Calls : committed[c].kind = "answers" =>
    \A r \in DOMAIN committed[c].slots : proofs[r] > 0 /\ answer[r] = "canonical"

\* The only Run a Wait may start is the next one of the responder it found
\* Dormant: once that Run, or another, was stopped or failed, the Wait's
\* maintenance does not undo the stop by starting the responder again.
ReadmitsOnce ==
  \A c \in Calls : Phase(c) # "absent" =>
    \A r \in pend[c].reqs : pend[c].starts[r] \in {0, pend[c].intent[r].seq + 1}

\* A Wait that is parked stays alive, commits nothing that the transcripts do not bear out
\* and starts no responder that somebody else has stopped.
WaitIsSound == WaitIsRenewed /\ ResultIsTruthful /\ ReadmitsOnce

\* "Agent Wait does not match waiting attention" and "committed a different
\* result" are never reached (runtime/agent-runtime-supervisor.ts:688).
NeverMismatched == ~broken

=============================================================================
