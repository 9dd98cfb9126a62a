------------------------------ MODULE RequestEvidence ------------------------------
(***************************************************************************)
(* The evidence about one Agent Request: what the transcripts of its       *)
(* requester R and its responder A prove (coordination/request-evidence.ts,*)
(* protocol/request-resolution.ts, protocol/message.ts), the authorship    *)
(* the Host has admitted but no transcript proves yet, and the             *)
(* agent_message operations that read the one and write the other          *)
(* (coordination/messages.ts).                                             *)
(*                                                                         *)
(* A call commits in its author's transcript before it executes, and its   *)
(* native result commits after.  Between the two an Agent Run may fail     *)
(* while the Host still executes the call, and the Host may stop.  What    *)
(* is left is the fact the inspectors have to agree about.                 *)
(***************************************************************************)
EXTENDS Naturals, FiniteSets

CONSTANTS Answers, Cancellations,  \* the calls A and R may make
          None,
          MaxRetries, MaxCrashes,
          MaxFailures  \* Agent Runs and admissions that fail

VARIABLES
  called,     \* messages whose call is in the author's transcript
  result,     \* result[m]: the native result in the author's transcript
  delivered,  \* messages whose Delivery is in the recipient's transcript
  retrieved,  \* Answers a committed retry receipt retrieved
  admitted,   \* the bridges: the admitted Request, Answer and Cancellation
  queue,      \* queue[m]: how the scheduler holds m
  calls,      \* the executions the Host has not finished
  lost,       \* the requester's source of the Request was not recovered
  spent       \* retries, failures and Host crashes so far

vars == <<called, result, delivered, retrieved, admitted, queue, calls, lost, spent>>

Messages == {"q"} \cup Answers \cup Cancellations

Author(m)    == IF m \in Answers THEN "A" ELSE "R"
Recipient(m) == IF m \in Answers THEN "R" ELSE "A"

NoBridge == [request |-> None, answer |-> None, cancellation |-> None]
-----------------------------------------------------------------------------
(* What the transcripts prove. *)

Proven(m) == m \in delivered \/ m \in retrieved

\* A result that creates nothing: an error, a receipt that another Message
\* already settled the Request, an initial Request that was not admitted.
Denies(m) == result[m] \in {"error", "declined"}

\* inspectMessageAuthorResult: an absent result may be replaced by Delivery.
AuthorResult(m) ==
  CASE result[m] = "accepted"         -> "canonical"
    [] Denies(m)                      -> "not_created"
    [] result[m] = "none" /\ Proven(m) -> "canonical"
    [] OTHER                          -> "indeterminate"

Canonical(m) == m \in called /\ AuthorResult(m) = "canonical"

CanonicalAnswers       == {k \in Answers : Canonical(k)}
CanonicalCancellations == {x \in Cancellations : Canonical(x)}

\* The inspectors throw an invariant violation, then and ever after.
Contradictory ==
  \/ \E m \in Messages : Denies(m) /\ Proven(m)
  \/ delivered \cap retrieved # {}
  \/ Cardinality(CanonicalAnswers) > 1
  \/ Cardinality(CanonicalCancellations) > 1

\* findAnswer and findCancellation: durable evidence wins over the bridge.
AnswersFound ==
  IF CanonicalAnswers # {} THEN CanonicalAnswers ELSE {admitted.answer} \ {None}
CancellationsFound ==
  IF CanonicalCancellations # {} THEN CanonicalCancellations
  ELSE {admitted.cancellation} \ {None}

Conflicting ==
  \/ CanonicalAnswers # {} /\ admitted.answer # None
       /\ admitted.answer \notin CanonicalAnswers
  \/ CanonicalCancellations # {} /\ admitted.cancellation # None
       /\ admitted.cancellation \notin CanonicalCancellations

Fails == Contradictory \/ Conflicting

CancellationDelivered == Cancellations \cap delivered # {}

\* RequestEvidence.stakeIn: one Agent's stake. The requester's own Cancellation
\* withdraws at once; the responder's duty lasts until it hears of it.
Awaiting == /\ ~lost /\ Canonical("q") /\ CanonicalCancellations = {}
            /\ ~\E k \in CanonicalAnswers : Proven(k)
Owed == /\ "q" \in delivered /\ CanonicalAnswers = {}
        /\ IF lost THEN ~CancellationDelivered
           ELSE CanonicalCancellations \cap delivered = {}
-----------------------------------------------------------------------------
(* Executions. *)

Execution(m, stage, outcome) == [id |-> m, stage |-> stage, outcome |-> outcome, alive |-> TRUE]

Living(a) == {e \in calls : e.alive /\ IF e.id = "retry" THEN a = "R" ELSE Author(e.id) = a}

Becomes(e, stage, outcome) ==
  calls' = (calls \ {e}) \cup {[e EXCEPT !.stage = stage, !.outcome = outcome]}

\* One tool call of an Agent executes at a time.
Call(m) ==
  /\ m \notin called
  /\ Living(Author(m)) = {}
  /\ m \in Answers => "q" \in called
  /\ m \in Cancellations => ~lost /\ "q" \in called
  /\ called' = called \cup {m}
  /\ calls' = calls \cup {Execution(m, "start", None)}
  /\ UNCHANGED <<result, delivered, retrieved, admitted, queue, lost, spent>>

\* send: the Request is remembered before its Delivery is admitted.
AdmitRequest(e) ==
  /\ e.id = "q" /\ e.stage = "start"
  /\ admitted' = [admitted EXCEPT !.request = "q"]
  /\ Becomes(e, "admit", "accepted")
  /\ UNCHANGED <<called, result, delivered, retrieved, queue, lost, spent>>

\* What #answer finds wrong with a call in the caller's lane.
MayNotAnswer ==
  \/ Fails
  \/ "q" \notin delivered
  \/ ~lost /\ ~Canonical("q")
  \/ AnswersFound # {}
  \/ IF lost THEN CancellationDelivered ELSE CancellationsFound \cap delivered # {}

\* Mutant of AdmitAnswer: the existing Answer is not looked for.
AdmitAnswerAgain(e) ==
  /\ e.id \in Answers /\ e.stage = "start"
  /\ IF "q" \notin delivered \/ CancellationsFound \cap delivered # {}
     THEN admitted' = admitted /\ Becomes(e, "done", "error")
     ELSE /\ admitted' = [admitted EXCEPT !.answer = e.id]
          /\ Becomes(e, "admit", "accepted")
  /\ UNCHANGED <<called, result, delivered, retrieved, queue, lost, spent>>
\* #answer and #answerWithoutRequestSource, in the caller's lane. Without the
\* requester's source nothing is delivered.
AdmitAnswer(e) ==
  /\ e.id \in Answers /\ e.stage = "start"
  /\ IF MayNotAnswer
     THEN admitted' = admitted /\ Becomes(e, "done", "error")
     ELSE /\ admitted' = [admitted EXCEPT !.answer = e.id]
          /\ Becomes(e, IF lost THEN "done" ELSE "admit", "accepted")
  /\ UNCHANGED <<called, result, delivered, retrieved, queue, lost, spent>>

\* #cancel, in the caller's lane.
AdmitCancellation(e) ==
  /\ e.id \in Cancellations /\ e.stage = "start"
  /\ IF Fails \/ lost \/ AuthorResult("q") = "not_created"
     THEN admitted' = admitted /\ Becomes(e, "done", "error")
     ELSE IF (\E k \in AnswersFound : Proven(k)) \/ CancellationsFound # {}
     THEN admitted' = admitted /\ Becomes(e, "done", "declined")
     ELSE /\ admitted' = [admitted EXCEPT !.cancellation = e.id]
          /\ Becomes(e, "admit", "accepted")
  /\ UNCHANGED <<called, result, delivered, retrieved, queue, lost, spent>>

\* The Delivery is admitted to the recipient's queue, or refused. A refused
\* Answer or Cancellation is authored all the same; a refused Request is not,
\* and its bridge is rolled back.
AdmitDelivery(e) ==
  /\ e.stage = "admit"
  /\ \/ /\ queue' = [queue EXCEPT ![e.id] = IF @ = "none" THEN "pending" ELSE @]
        /\ Becomes(e, "done", e.outcome)
        /\ admitted' = admitted
     \/ /\ queue' = queue
        /\ Becomes(e, "done", IF e.id = "q" THEN "declined" ELSE e.outcome)
        /\ admitted' = IF e.id = "q" THEN [admitted EXCEPT !.request = None] ELSE admitted
  /\ UNCHANGED <<called, result, delivered, retrieved, lost, spent>>

\* Draining the recipient's queue throws: what it had not handed over is dropped,
\* the call fails, and nothing takes the bridge back.
AdmissionThrows(e) ==
  /\ e.stage = "admit"
  /\ spent.failures < MaxFailures
  /\ spent' = [spent EXCEPT !.failures = @ + 1]
  /\ queue' = [m \in Messages |-> IF Recipient(m) = Recipient(e.id) /\ queue[m] = "pending"
                                  THEN "none" ELSE queue[m]]
  /\ Becomes(e, "done", "error")
  /\ UNCHANGED <<called, result, delivered, retrieved, admitted, lost>>

\* retry of the Request, in the responder's lane, after the answer arbitration.
Retry ==
  /\ spent.retries < MaxRetries
  /\ ~lost /\ "q" \in called /\ Living("R") = {}
  /\ spent' = [spent EXCEPT !.retries = @ + 1]
  /\ LET retrievable == {k \in CanonicalAnswers : ~Proven(k) /\ queue[k] # "dispatched"} IN
     IF ~Fails /\ CancellationsFound = {} /\ Canonical("q") /\ retrievable # {}
     THEN \E k \in retrievable :
            /\ calls' = calls \cup {Execution("retry", "done", k)}
            /\ queue' = queue
     ELSE /\ calls' = calls
          /\ queue' = IF ~Fails /\ CancellationsFound = {} /\ Canonical("q")
                         /\ AnswersFound = {} /\ "q" \notin delivered /\ queue["q"] = "none"
                      THEN [queue EXCEPT !["q"] = "pending"] ELSE queue
  /\ UNCHANGED <<called, result, delivered, retrieved, admitted, lost>>

\* guardResultCommit: at the commit edge a direct Delivery that won stays the one
\* proof.
Reconfirmed(k) == ~Fails /\ CanonicalCancellations = {} /\ ~Proven(k) /\ queue[k] # "dispatched"

\* The native result commits.
CommitResult(e) ==
  /\ e.stage = "done" /\ e.alive
  /\ calls' = calls \ {e}
  /\ IF e.id = "retry"
     THEN /\ retrieved' = IF Reconfirmed(e.outcome) THEN retrieved \cup {e.outcome} ELSE retrieved
          /\ UNCHANGED result
     ELSE result' = [result EXCEPT ![e.id] = e.outcome] /\ UNCHANGED retrieved
  /\ admitted' = [request |-> IF e.id = "q" THEN None ELSE admitted.request,
                  answer  |-> IF e.id = admitted.answer /\ e.outcome = "accepted"
                              THEN None ELSE admitted.answer,
                  cancellation |-> IF e.id = admitted.cancellation /\ e.outcome = "accepted"
                                   THEN None ELSE admitted.cancellation]
  /\ UNCHANGED <<called, delivered, queue, lost, spent>>

\* An execution whose Run has ended returns to nobody.
Returns(e) ==
  /\ e.stage = "done" /\ ~e.alive
  /\ calls' = calls \ {e}
  /\ UNCHANGED <<called, result, delivered, retrieved, admitted, queue, lost, spent>>
-----------------------------------------------------------------------------
(* The scheduler. *)

\* #isRequestWithdrawn, #isCancellationNotified, #requestCanNeverReachResponder.
Suppressed(m) ==
  CASE m = "q" -> IF lost THEN CancellationDelivered ELSE CancellationsFound # {}
    [] m \in Cancellations ->
         \/ IF lost THEN CancellationDelivered ELSE CancellationsFound \cap delivered # {}
         \/ "q" \notin delivered /\ queue["q"] # "dispatched"
    [] OTHER -> FALSE

\* Work that is proven or no longer due leaves the queue; other work is frozen
\* and handed to the recipient's Runtime.
Dispatch(m) ==
  /\ queue[m] = "pending"
  /\ ~Fails
  /\ queue' = [queue EXCEPT ![m] = IF Proven(m) \/ Suppressed(m) THEN "none" ELSE "dispatched"]
  /\ UNCHANGED <<called, result, delivered, retrieved, admitted, calls, lost, spent>>

\* The Delivery commits. A Cancellation takes the waiting Request with it.
CommitDelivery(m) ==
  /\ queue[m] = "dispatched"
  /\ delivered' = delivered \cup {m}
  /\ queue' = [n \in Messages |->
                 IF n = m \/ (m \in Cancellations /\ n = "q" /\ queue[n] = "pending")
                 THEN "none" ELSE queue[n]]
  /\ UNCHANGED <<called, result, retrieved, admitted, calls, lost, spent>>
-----------------------------------------------------------------------------
(* Failures. *)

BridgesWithout(a) ==
  [request      |-> IF a = "R" THEN None ELSE admitted.request,
   answer       |-> IF a = "A" THEN None ELSE admitted.answer,
   cancellation |-> IF a = "R" THEN None ELSE admitted.cancellation]

\* An Agent Run fails: its admitted authorship and what was scheduled to it are
\* discarded. The Host's executions of its calls go on.
RunFails(a) ==
  /\ spent.failures < MaxFailures
  /\ spent' = [spent EXCEPT !.failures = @ + 1]
  /\ admitted' = BridgesWithout(a)
  /\ calls' = {[e EXCEPT !.alive = @ /\ e \notin Living(a)] : e \in calls}
  /\ queue' = [m \in Messages |-> IF Recipient(m) = a THEN "none" ELSE queue[m]]
  /\ UNCHANGED <<called, result, delivered, retrieved, lost>>

\* The Host stops and recovers: the transcripts are all that is left, and the
\* requester's history may not be recovered in full.
Crash ==
  /\ spent.crashes < MaxCrashes
  /\ spent' = [spent EXCEPT !.crashes = @ + 1]
  /\ admitted' = NoBridge /\ calls' = {}
  /\ queue' = [m \in Messages |-> "none"]
  /\ \/ lost' = lost
     \/ lost' = TRUE
  /\ UNCHANGED <<called, result, delivered, retrieved>>

\* inspectRecoveryMessage and resumeMessage: workflow_resume schedules what is
\* canonical, undelivered and still due.
Resume(m) ==
  /\ spent.crashes > 0
  /\ queue[m] = "none" /\ ~Fails /\ ~lost
  /\ Canonical(m) /\ ~Proven(m)
  /\ m = "q" => CanonicalCancellations = {} /\ CanonicalAnswers = {}
  /\ m \in Cancellations => "q" \in delivered \/ queue["q"] = "dispatched"
  /\ queue' = [queue EXCEPT ![m] = "pending"]
  /\ UNCHANGED <<called, result, delivered, retrieved, admitted, calls, lost, spent>>
-----------------------------------------------------------------------------
Init ==
  /\ called = {} /\ delivered = {} /\ retrieved = {} /\ calls = {} /\ lost = FALSE
  /\ result = [m \in Messages |-> "none"]
  /\ admitted = NoBridge
  /\ queue = [m \in Messages |-> "none"]
  /\ spent = [retries |-> 0, failures |-> 0, crashes |-> 0]

Next ==
  \/ \E m \in Messages : \/ Call(m) \/ Dispatch(m) \/ CommitDelivery(m) \/ Resume(m)
  \/ \E e \in calls : \/ AdmitRequest(e) \/ AdmitAnswer(e) \/ AdmitCancellation(e)
                      \/ AdmitDelivery(e) \/ AdmissionThrows(e)
                      \/ CommitResult(e) \/ Returns(e)
  \/ Retry
  \/ \E a \in {"R", "A"} : RunFails(a)
  \/ Crash

Spec == Init /\ [][Next]_vars
-----------------------------------------------------------------------------
TypeOK ==
  /\ called \subseteq Messages /\ delivered \subseteq called /\ retrieved \subseteq Answers
  /\ result \in [Messages -> {"none", "accepted", "declined", "error"}]
  /\ admitted.request \in {None, "q"} /\ admitted.answer \in Answers \cup {None}
  /\ admitted.cancellation \in Cancellations \cup {None}
  /\ queue \in [Messages -> {"none", "pending", "dispatched"}]

\* No transcript pair ever shows a Message that its author's result denies and
\* its recipient received, nor one Answer received twice.
EvidenceAgrees ==
  /\ \A m \in Messages : ~(Denies(m) /\ Proven(m))
  /\ delivered \cap retrieved = {}

OneCanonicalAnswer == Cardinality(CanonicalAnswers) <= 1

\* While nothing fails, a Request has one canonical Answer and one canonical
\* Cancellation at most, whatever the Host loses when it stops.
OneAnswerUnlessSomethingFails ==
  spent.failures = 0 => /\ OneCanonicalAnswer
                        /\ Cardinality(CanonicalCancellations) <= 1

\* An Agent that owes an Answer and executes nothing can give it: an admitted
\* bridge lasts until the native result of its call and no longer.
DutiesCanBeMet == Owed /\ calls = {} /\ ~Fails => ~MayNotAnswer

\* It can as long as nothing has failed.
DutiesCanBeMetUnlessSomethingFails == spent.failures = 0 => DutiesCanBeMet

\* What the transcripts of both Agents show agrees, and while nothing has failed there is
\* one Answer and a way to give it.
EvidenceIsSound ==
  EvidenceAgrees /\ OneAnswerUnlessSomethingFails /\ DutiesCanBeMetUnlessSomethingFails

=============================================================================
