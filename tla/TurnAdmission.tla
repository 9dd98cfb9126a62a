---------------------------- MODULE TurnAdmission ----------------------------
(***************************************************************************)
(* How inputs of one child come to a native Run: the admission gate        *)
(* (ChildTurnCompactionGateway), the lane of queue intentions              *)
(* (ChildControlConnection), the one input that may prepare a Run          *)
(* (SessionStartupAdmission), the dispatch and its commit proof            *)
(* (NativeSessionDriver), a Moderator reminder's reservation and the       *)
(* Owner's interruption, which clears the queue and then aborts            *)
(* (PiChildHostedRuntime, AgentRuntimeSupervisor).                         *)
(*                                                                         *)
(* Pi runs one native Run at a time, which takes its queue; a Run that is  *)
(* aborted keeps it, one that fails loses it to the driver.  Reload is the *)
(* subject of HostedRuntime.                                               *)
(***************************************************************************)
EXTENDS Naturals, Sequences, FiniteSets

CONSTANTS Custom,            \* custom Deliveries, which start or join a Run
          Native, Forwarded, \* the human's own input, and the Owner's copy of it
          Reminder

Inputs == Custom \union {Native, Forwarded, Reminder}
Deliveries == Custom \union {Forwarded}
NoOne == "no one"

VARIABLES
  gate,       \* #admissionTail: who holds the gate, and who waits behind
  lane,       \* queueIntentionTail: submissions, cancellations, clear and interrupt
  preparing,  \* the input whose preparation owns the startup
  input,      \* for each input, how far it is
  run,        \* the native Run, and who was given to it
  queue,      \* Pi's native queue
  committed,  \* the inputs in the transcript
  interrupt   \* the Owner's interruption

turnVars == <<gate, lane, preparing, input, run, queue, committed, interrupt>>

NoRun == run.id = 0
Leave(seq, x) == SelectSeq(seq, LAMBDA y : y # x)
HoldsGate(x) == gate # <<>> /\ Head(gate) = x
At(x, steps) == input[x].step \in steps

\* The end of a preparation wakes every dispatch that waits for it.
Awake(in) == [y \in Inputs |-> IF in[y].step = "busy" THEN [in[y] EXCEPT !.step = "retry"] ELSE in[y]]
To(x, step) == [input EXCEPT ![x].step = step]
Fails(x) ==
  /\ input' = (IF preparing = x THEN Awake(To(x, "failed")) ELSE To(x, "failed"))
  /\ preparing' = (IF preparing = x THEN NoOne ELSE preparing)
  /\ gate' = Leave(gate, x)

\* cancelPreparation: the input being prepared, and whatever waits for it, are given up.
Abandoned(in) == [y \in Inputs |->
  IF y = preparing \/ in[y].step \in {"busy", "retry"} THEN [in[y] EXCEPT !.abandoned = TRUE]
                                                       ELSE in[y]]
Fenced(x) == input[x].cancelled \/ input[x].abandoned

-----------------------------------------------------------------------------
(* A Delivery is dispatched.                                                *)

\* The Agent's lane holds Deliveries back while it interrupts.
Deliver(x) ==
  /\ x \in Custom /\ At(x, {"no"}) /\ interrupt.step \in {"no", "done"}
  /\ input' = To(x, "gate") /\ gate' = Append(gate, x)
  /\ UNCHANGED <<lane, preparing, run, queue, committed, interrupt>>

\* prepareIdleCustomTurn compacts, and Pi's compaction aborts whatever is prepared.
Compact(x) ==
  /\ HoldsGate(x) /\ x \in Custom /\ At(x, {"gate"}) /\ ~Fenced(x) /\ NoRun
  /\ input' = [Abandoned(input) EXCEPT ![x].step = "compacting"]
  /\ UNCHANGED <<gate, lane, preparing, run, queue, committed, interrupt>>

\* The attempt: Pi is handed the input at once when idle, else in its turn among the
\* queue intentions, and then it belongs to the Run that is active.
Given(x) ==
  /\ input' = [input EXCEPT ![x].step = "given", ![x].signal = run.id]
  /\ gate' = Leave(gate, x) /\ queue' = Append(queue, x)
  /\ run' = [run EXCEPT !.carries = @ \union {x}]
  /\ UNCHANGED preparing

\* The forwarded copy takes over the preparation of the input it was made from.
TakesOver(x) == x = Forwarded /\ preparing = Native /\ At(Native, {"forwarded"})
                  /\ ~input[Native].abandoned

\* Mutant of Busy: a busy Delivery keeps the gate while it waits.
BusyInside(x) ==
  /\ input' = To(x, "busy") /\ UNCHANGED <<gate, preparing>>
Busy(x) ==
  /\ input' = To(x, "busy") /\ gate' = Leave(gate, x)
  /\ UNCHANGED preparing

Submit(x) ==
  IF Fenced(x) THEN Fails(x) /\ UNCHANGED <<run, queue>>
  ELSE IF ~NoRun
  THEN IF x \in Custom THEN Given(x) ELSE Fails(x) /\ UNCHANGED <<run, queue>>
  ELSE /\ UNCHANGED <<run, queue>>
       /\ \/ /\ preparing = NoOne \/ TakesOver(x)
             /\ preparing' = x
             /\ input' = [(IF preparing = NoOne THEN input ELSE Awake(input)) EXCEPT ![x].step = "prepared"]
             /\ UNCHANGED gate
          \/ /\ preparing # NoOne /\ ~TakesOver(x)
             /\ IF x \in Custom THEN Busy(x) ELSE Fails(x)

Attempt(x) ==
  /\ HoldsGate(x) /\ x \in Deliveries /\ At(x, {"gate", "compacting"})
  /\ IF Fenced(x) \/ NoRun THEN Submit(x) /\ UNCHANGED lane
     ELSE /\ lane' = Append(lane, <<"submit", x>>) /\ input' = To(x, "intends")
          /\ UNCHANGED <<gate, preparing, run, queue>>
  /\ UNCHANGED <<committed, interrupt>>

SubmitInTurn(x) ==
  /\ lane # <<>> /\ Head(lane) = <<"submit", x>>
  /\ lane' = Tail(lane) /\ Submit(x)
  /\ UNCHANGED <<committed, interrupt>>

\* dispatch: the wait is outside the gate; an abandoned wait ends the dispatch.
Retry(x) ==
  /\ At(x, {"retry"}) \/ (At(x, {"busy"}) /\ Fenced(x))
  /\ IF Fenced(x) THEN Fails(x)
     ELSE /\ input' = To(x, "gate") /\ gate' = Append(gate, x)
          /\ UNCHANGED preparing
  /\ UNCHANGED <<lane, run, queue, committed, interrupt>>

-----------------------------------------------------------------------------
(* A prepared input starts a Run, which takes its queue and ends.           *)

\* A reminder keeps the gate until its commit is proved.
Started(x) ==
  /\ run' = [id |-> run.last + 1, last |-> run.last + 1, by |-> x, carries |-> {x}, aborted |-> FALSE]
  /\ input' = [Awake(input) EXCEPT ![x].step = "given", ![x].signal = run.last + 1]
  /\ gate' = (IF x = Reminder THEN gate ELSE Leave(gate, x))
  /\ preparing' = NoOne

\* The last fence is passed in the turn in which Pi allocates the Run's signal.  Hooks
\* of Pi may also refuse the input.
Start(x) ==
  /\ preparing = x /\ At(x, {"prepared"})
  /\ \/ NoRun /\ ~Fenced(x) /\ Started(x)
     \/ Fails(x) /\ UNCHANGED run
  /\ UNCHANGED <<lane, queue, committed, interrupt>>

\* Pi appends a message, and its proof is found in the next turn.
Commits(x) ==
  /\ committed' = committed \union {x}
  /\ input' = [input EXCEPT ![x].proof = IF @ = "no" THEN "committed" ELSE @]
  /\ gate' = (IF x = Reminder THEN Leave(gate, x) ELSE gate)
CommitOwn ==
  /\ ~NoRun /\ run.by \notin committed /\ Commits(run.by)
  /\ UNCHANGED <<lane, preparing, run, queue, interrupt>>
TakeQueued ==
  /\ ~NoRun /\ ~run.aborted /\ run.by \in committed /\ queue # <<>>
  /\ Commits(Head(queue)) /\ queue' = Tail(queue)
  /\ UNCHANGED <<lane, preparing, run, interrupt>>

\* The Run settles: what was given to Pi and is not in the transcript is answered so,
\* and every Delivery given to it is complete.
\* Mutant of Unproved: a Delivery whose busy attempt is over is answered too.
UnprovedAlsoBusy(x) == At(x, {"given", "busy", "retry"}) /\ x # Native
Unproved(x) == At(x, {"given"}) /\ x # Native

RunSettles(failed) ==
  /\ ~NoRun /\ (run.aborted \/ failed \/ (run.by \in committed /\ queue = <<>>))
  /\ run' = [run EXCEPT !.id = 0, !.by = NoOne, !.carries = {}, !.aborted = FALSE]
  /\ queue' = (IF failed THEN <<>> ELSE queue)
  /\ input' = [x \in Inputs |->
       [input[x] EXCEPT !.proof = IF Unproved(x) /\ @ = "no" THEN "uncommitted" ELSE @,
                        !.step = IF @ = "given" THEN "complete" ELSE @]]
  /\ gate' = Leave(gate, Reminder)
  /\ UNCHANGED <<lane, preparing, committed, interrupt>>

-----------------------------------------------------------------------------
(* The human's own input.                                                   *)

\* Behind a preparation of another kind the input is refused.
Type ==
  /\ At(Native, {"no"}) /\ NoRun
  /\ IF preparing = NoOne THEN preparing' = Native /\ input' = To(Native, "hooks")
                          ELSE UNCHANGED preparing /\ input' = To(Native, "refused")
  /\ UNCHANGED <<gate, lane, run, queue, committed, interrupt>>

\* handleInput: the Owner lets the input continue, and it reserves the gate, or
\* forwards it, and the handler waits for the answer to that Delivery.
InputContinues ==
  /\ At(Native, {"hooks"})
  /\ input' = To(Native, "gate") /\ gate' = Append(gate, Native)
  /\ UNCHANGED <<lane, preparing, run, queue, committed, interrupt>>
InputForwarded ==
  /\ At(Native, {"hooks"}) /\ interrupt.step \in {"no", "done"}
  /\ input' = [input EXCEPT ![Native].step = "forwarded", ![Forwarded].step = "gate"]
  /\ gate' = Append(gate, Forwarded)
  /\ UNCHANGED <<lane, preparing, run, queue, committed, interrupt>>

\* reserveNativeTurn: the gate is held until the Run starts or the input is done.
ReserveNativeTurn ==
  /\ HoldsGate(Native) /\ At(Native, {"gate"})
  /\ input' = To(Native, "prepared")
  /\ UNCHANGED <<gate, lane, preparing, run, queue, committed, interrupt>>

ForwardAnswered ==
  /\ At(Native, {"forwarded"})
  /\ input[Forwarded].proof # "no" \/ At(Forwarded, {"failed"})
  /\ input' = (IF preparing = Native THEN Awake(To(Native, "complete")) ELSE To(Native, "complete"))
  /\ preparing' = (IF preparing = Native THEN NoOne ELSE preparing)
  /\ UNCHANGED <<gate, lane, run, queue, committed, interrupt>>

-----------------------------------------------------------------------------
(* A Moderator reminder reserves the gate until the Owner decides.          *)

Remind ==
  /\ At(Reminder, {"no"}) /\ interrupt.step \in {"no", "done"}
  /\ input' = To(Reminder, "gate") /\ gate' = Append(gate, Reminder)
  /\ UNCHANGED <<lane, preparing, run, queue, committed, interrupt>>

\* Cancelled before it holds the gate, it leaves when its turn comes.
Reserve ==
  /\ HoldsGate(Reminder) /\ At(Reminder, {"gate"})
  /\ IF NoRun /\ preparing = NoOne /\ ~input[Reminder].cancelled
     THEN input' = To(Reminder, "reserved") /\ UNCHANGED <<gate, preparing>>
     ELSE Fails(Reminder)
  /\ UNCHANGED <<lane, run, queue, committed, interrupt>>

\* finish: the decision bypasses the gate; the commit rechecks that Pi is idle.
Decide(commit) ==
  /\ At(Reminder, {"reserved"})
  /\ IF commit /\ NoRun /\ preparing = NoOne
     THEN /\ preparing' = Reminder /\ input' = To(Reminder, "prepared")
          /\ UNCHANGED gate
     ELSE Fails(Reminder)
  /\ UNCHANGED <<lane, run, queue, committed, interrupt>>

\* cancel: a reservation releases the gate at once, whatever its Run does.
CancelledReminder(in) ==
  [in EXCEPT ![Reminder].cancelled = @ \/ in[Reminder].step # "no",
             ![Reminder].step = IF @ = "reserved" THEN "failed" ELSE @]
ReleasesGate(seq) == IF HoldsGate(Reminder) /\ ~At(Reminder, {"gate"}) THEN Tail(seq) ELSE seq

-----------------------------------------------------------------------------
(* The Owner interrupts: it clears the queue, and when that is answered     *)
(* cancels its Deliveries and aborts the Run.                               *)

Pending(x) == At(x, {"gate", "compacting", "intends", "prepared", "busy", "retry", "given"})

BeginInterrupt ==
  /\ interrupt.step = "no" /\ run.last > 0
  /\ interrupt' = [interrupt EXCEPT !.step = "clearing",
                                    !.before = {x \in Deliveries : input[x].step # "no"}]
  /\ gate' = Append(gate, "clear")
  /\ UNCHANGED <<lane, preparing, input, run, queue, committed>>

\* queue.clear and run.interrupt take the gate and then their turn in the lane.
Intend(kind) ==
  /\ HoldsGate(kind) /\ <<kind, kind>> \notin {lane[i] : i \in DOMAIN lane}
  /\ interrupt.step = (IF kind = "clear" THEN "clearing" ELSE "aborting")
  /\ lane' = Append(lane, <<kind, kind>>)
  /\ UNCHANGED <<gate, preparing, input, run, queue, committed, interrupt>>

\* The answer brings the cancellations of what is still pending.
ClearQueue ==
  /\ lane # <<>> /\ Head(lane) = <<"clear", "clear">>
  /\ lane' = Tail(lane) /\ gate' = Leave(gate, "clear") /\ queue' = <<>>
  /\ interrupt' = [interrupt EXCEPT !.step = "cancelling", !.cancels = {x \in Deliveries : Pending(x)}]
  /\ UNCHANGED <<preparing, input, run, committed>>

\* message.cancel: what Pi has been handed is cancelled among the queue intentions.
Cancel(x) ==
  /\ interrupt.step = "cancelling" /\ x \in interrupt.cancels
  /\ interrupt' = [interrupt EXCEPT !.cancels = @ \ {x}]
  /\ IF Pending(x)
     THEN /\ input' = [input EXCEPT ![x].cancelled = TRUE]
          /\ lane' = (IF input[x].signal = 0 THEN lane ELSE Append(lane, <<"cancel", x>>))
     ELSE UNCHANGED <<input, lane>>
  /\ UNCHANGED <<gate, preparing, run, queue, committed>>

RunInterrupt ==
  /\ interrupt.step = "cancelling" /\ interrupt.cancels = {}
  /\ interrupt' = [interrupt EXCEPT !.step = "aborting"]
  /\ input' = CancelledReminder(input)
  /\ gate' = Append(ReleasesGate(gate), "interrupt")
  /\ UNCHANGED <<lane, preparing, run, queue, committed>>

\* session.abort: it returns when Pi is idle.  A cancellation whose Run is over does
\* nothing, an interrupt without a Run neither.
Names(op) == ~NoRun /\ (op[1] = "cancel" => input[op[2]].signal = run.id)
AbortRun ==
  /\ lane # <<>> /\ Head(lane)[1] \in {"cancel", "interrupt"} /\ ~run.aborted /\ Names(Head(lane))
  /\ run' = [run EXCEPT !.aborted = TRUE]
  /\ input' = Abandoned(input)
  /\ queue' = (IF Head(lane)[1] = "cancel" THEN <<>> ELSE queue)
  /\ UNCHANGED <<gate, lane, preparing, committed, interrupt>>

AbortReturns ==
  /\ lane # <<>> /\ Head(lane)[1] \in {"cancel", "interrupt"} /\ ~Names(Head(lane))
  /\ lane' = Tail(lane)
  /\ gate' = (IF Head(lane)[1] = "interrupt" THEN Leave(gate, "interrupt") ELSE gate)
  /\ interrupt' = (IF Head(lane)[1] = "interrupt" THEN [interrupt EXCEPT !.step = "answered"] ELSE interrupt)
  /\ UNCHANGED <<preparing, input, run, queue, committed>>

\* The Owner has every answer.
InterruptDone ==
  /\ interrupt.step = "answered" /\ \A i \in DOMAIN lane : lane[i][1] # "cancel"
  /\ interrupt' = [interrupt EXCEPT !.step = "done"]
  /\ UNCHANGED <<gate, lane, preparing, input, run, queue, committed>>

-----------------------------------------------------------------------------
TurnInit ==
  /\ gate = <<>> /\ lane = <<>> /\ preparing = NoOne /\ queue = <<>> /\ committed = {}
  /\ input = [x \in Inputs |-> [step |-> "no", signal |-> 0, cancelled |-> FALSE,
                                abandoned |-> FALSE, proof |-> "no"]]
  /\ run = [id |-> 0, last |-> 0, by |-> NoOne, carries |-> {}, aborted |-> FALSE]
  /\ interrupt = [step |-> "no", before |-> {}, cancels |-> {}]

\* What goes on without the human and the Owner's scheduler.
Step ==
  \/ \E x \in Inputs : Compact(x) \/ Attempt(x) \/ SubmitInTurn(x) \/ Retry(x) \/ Start(x) \/ Cancel(x)
  \/ CommitOwn \/ TakeQueued \/ \E failed \in BOOLEAN : RunSettles(failed)
  \/ InputContinues \/ InputForwarded \/ ReserveNativeTurn \/ ForwardAnswered
  \/ Reserve \/ \E commit \in BOOLEAN : Decide(commit)
  \/ \E kind \in {"clear", "interrupt"} : Intend(kind)
  \/ ClearQueue \/ RunInterrupt \/ AbortRun \/ AbortReturns \/ InterruptDone

TurnNext == (\E x \in Custom : Deliver(x)) \/ Type \/ Remind \/ BeginInterrupt \/ Step

TurnSpec == TurnInit /\ [][TurnNext]_turnVars
FairTurnSpec == TurnSpec /\ WF_turnVars(Step)
-----------------------------------------------------------------------------
TurnTypeOK ==
  /\ preparing \in Inputs \union {NoOne} /\ committed \subseteq Inputs
  /\ run.by \in Inputs \union {NoOne} /\ run.id \in {0, run.last}
  /\ \A x \in Inputs : input[x].proof \in {"no", "committed", "uncommitted"}
  /\ NoRun => run.carries = {} /\ ~run.aborted

\* The answer to a dispatch is the truth and stays it: committed means the message is in
\* the transcript, uncommitted that it is not and never will be.
ProofIsTruthful ==
  \A x \in Inputs : input[x].proof # "no" => (input[x].proof = "committed" <=> x \in committed)

\* Every dispatch is answered.
DispatchIsAnswered ==
  \A x \in Deliveries : At(x, {"gate"}) ~> At(x, {"complete", "failed"})

\* A dispatch fails only when it is cancelled or refused by Pi: the compaction that
\* prepares one Delivery ends no other input's preparation or wait.
PreparationEndsNoOther ==
  \A x \in Inputs : input[x].abandoned /\ interrupt.step = "no" => FALSE
=============================================================================
