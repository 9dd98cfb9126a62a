----------------------------- MODULE OwnerParking -----------------------------
(***************************************************************************)
(* Owner settlement parking (installOwnerSettlementParker): a successful   *)
(* response of the Owner does not end its native prompt while the Workflow *)
(* still makes progress.  The prompt waits at agent_end until input is     *)
(* queued, progress ends, or the Run is stopped.                           *)
(*                                                                         *)
(* While it waits, the Delivery scheduler treats the Owner as settled: a   *)
(* Deferred Delivery enters the native queue instead of being held.        *)
(***************************************************************************)
EXTENDS Naturals, Sequences, FiniteSets

CONSTANTS Children,  \* Agents whose work is the Workflow's progress
          Recovery,  \* the progress that recovery is, once it is handed over
          MaxEvents  \* inputs, Answers, starts, aborts, failures, shutdown

VARIABLES
  prompt,     \* Pi's native prompt: idle, running, at agent_end
  run,        \* the current Run of the Owner, 0 without
  runs,       \* Runs begun
  aborted,    \* the signal of this Run
  park,       \* the step of parkAtCandidateBoundary
  woken,      \* its waiter is settled
  entered,    \* beginParking returned a function that leaves
  parkedRun,  \* #parkedRunByAgent of the Owner
  lane,       \* operations in the Owner's lane
  queue,      \* messages in the native queues
  held,       \* Deferred Deliveries the scheduler holds
  busy,       \* what makes progress
  emitting,   \* what a listener of the notification under way will start
  check,      \* the microtask of checkProgress is queued
  down,       \* the Workflow shuts down
  events

vars == <<prompt, run, runs, aborted, park, woken, entered, parkedRun, lane, queue, held, busy,
          emitting, check, down, events>>
piVars == <<prompt, run, runs, aborted>>
parkVars == <<park, woken, entered>>
workVars == <<busy, emitting, check>>

Spend == events < MaxEvents /\ events' = events + 1
Synchronous == emitting = {}   \* no notification is under way

\* hasAutonomousWorkflowProgress: a Delivery held for the Owner can still be delivered.
Progress == ~down /\ (busy # {} \/ held > 0)

Operation(kind, of) == [kind |-> kind, of |-> of]
At(kind) == Synchronous /\ lane # <<>> /\ Head(lane).kind = kind
Waits == park \in {"entering", "begun", "parked"}

\* Mutant of Enqueued: the waiter does not observe the native queue.
EnqueuedUnseen(n) == queue' = queue + n /\ UNCHANGED woken
\* An admission to the native queue wakes the waiter.
Enqueued(n) == queue' = queue + n /\ woken' = (woken \/ (Waits /\ n > 0))

\* The prompt goes on with what is queued, or settles.
PiGoesOn ==
  IF queue > 0 /\ ~aborted
  THEN prompt' = "running" /\ queue' = 0 /\ UNCHANGED lane
  ELSE prompt' = "idle" /\ UNCHANGED queue /\ lane' = Append(lane, Operation("settled", run))

\* Input to an idle Owner starts a prompt, in a new Run if it has none.
StartsPrompt ==
  /\ prompt' = "running"
  /\ run' = (IF run = 0 THEN runs + 1 ELSE run)
  /\ runs' = (IF run = 0 THEN runs + 1 ELSE runs)
  /\ aborted' = (aborted /\ run # 0)

-----------------------------------------------------------------------------
(* parkAtCandidateBoundary *)

CanBegin == run # 0 /\ ~aborted /\ ~down

\* agent_end: after a normal completion with empty queues, while something progresses, the
\* waiter is created and parking is entered in the Owner's lane.
AgentEnd(ok) ==
  /\ Synchronous /\ prompt = "running" /\ (ok \/ Spend) /\ (ok => UNCHANGED events)
  /\ IF ok /\ ~aborted /\ queue = 0 /\ Progress
     THEN /\ prompt' = "agent_end"
          /\ woken' = (aborted \/ down) /\ entered' = FALSE
          /\ park' = (IF CanBegin THEN "entering" ELSE "begun")
          /\ lane' = (IF CanBegin THEN Append(lane, Operation("begin", run)) ELSE lane)
          /\ UNCHANGED queue
     ELSE PiGoesOn /\ UNCHANGED parkVars
  /\ UNCHANGED <<run, runs, aborted, parkedRun, held, busy, emitting, check, down>>

DrainsHeld == held' = 0 /\ Enqueued(held)

\* beginParkingInLane: the Run must still be the one whose prompt waits.  What is held is
\* drained into the native queue.
Begin(fails) ==
  /\ At("begin") /\ (fails => Spend) /\ (~fails => UNCHANGED events)
  /\ lane' = Tail(lane) /\ park' = "begun"
  /\ IF aborted \/ down \/ run # Head(lane).of \/ fails
     THEN UNCHANGED <<entered, parkedRun, held, queue, woken>>
     ELSE entered' = TRUE /\ parkedRun' = run /\ DrainsHeld
  /\ UNCHANGED <<piVars, workVars, down>>

Rechecks == ~entered \/ queue > 0 \/ ~Progress

Begun ==
  /\ Synchronous /\ park = "begun"
  /\ park' = "parked" /\ woken' = (woken \/ Rechecks)
  /\ UNCHANGED <<piVars, entered, parkedRun, lane, queue, held, workVars, down, events>>

\* checkProgress, a microtask after the notification.
Check ==
  /\ Synchronous /\ check /\ check' = FALSE
  /\ woken' = (woken \/ (Waits /\ ~Progress))
  /\ UNCHANGED <<piVars, park, entered, parkedRun, lane, queue, held, busy, emitting, down, events>>

Leave ==
  /\ Synchronous /\ park = "parked" /\ woken
  /\ IF entered
     THEN /\ park' = "leaving" /\ lane' = Append(lane, Operation("end", run))
          /\ UNCHANGED <<prompt, queue>>
     ELSE park' = "none" /\ PiGoesOn
  /\ UNCHANGED <<run, runs, aborted, woken, entered, parkedRun, held, workVars, down, events>>

\* endParkingInLane, and the prompt goes on.
End ==
  /\ At("end")
  /\ lane' = Tail(lane) /\ park' = "left"
  /\ parkedRun' = 0
  /\ UNCHANGED <<piVars, woken, entered, queue, held, workVars, down, events>>

Left ==
  /\ Synchronous /\ park = "left" /\ park' = "none" /\ PiGoesOn
  /\ UNCHANGED <<run, runs, aborted, woken, entered, parkedRun, held, workVars, down, events>>

-----------------------------------------------------------------------------
(* The Owner's lane and its native prompt. *)

\* A parked Owner is at a Delivery boundary.
AtBoundary == prompt = "idle" \/ (run # 0 /\ parkedRun = run)

\* A Deferred Delivery to the Owner: it starts a turn, enters the queue, or is held.
Admit ==
  /\ At("admit") /\ lane' = Tail(lane)
  /\ IF ~AtBoundary \/ down
     THEN held' = held + 1 /\ UNCHANGED <<piVars, queue, woken>>
     ELSE /\ UNCHANGED held
          /\ IF prompt = "idle" THEN StartsPrompt /\ UNCHANGED <<queue, woken>>
                                ELSE Enqueued(1) /\ UNCHANGED piVars
  /\ UNCHANGED <<park, entered, parkedRun, workVars, down, events>>

\* #settledInLane: nothing is parked, and what was held is delivered.
Settled ==
  /\ At("settled") /\ lane' = Tail(lane)
  /\ IF run = Head(lane).of /\ run # 0
     THEN /\ parkedRun' = 0
          /\ IF held > 0 /\ prompt = "idle" /\ ~down
             THEN held' = held - 1 /\ StartsPrompt
             ELSE UNCHANGED <<held, piVars>>
     ELSE UNCHANGED <<parkedRun, held, piVars>>
  /\ UNCHANGED <<parkVars, queue, workVars, down, events>>

\* An aborted Run ends once its prompt has settled; its scheduling is discarded.
EndRun ==
  /\ At("endRun") /\ prompt # "running" /\ lane' = Tail(lane)
  /\ IF run = Head(lane).of THEN run' = 0 /\ held' = 0 ELSE UNCHANGED <<run, held>>
  /\ UNCHANGED <<prompt, runs, aborted, parkVars, parkedRun, queue, workVars, down, events>>

-----------------------------------------------------------------------------
(* The rest of the Workflow. *)

\* Steering a waiting prompt, or input to an idle one.
Input ==
  /\ Synchronous /\ Spend /\ ~down
  /\ IF prompt = "idle" THEN StartsPrompt /\ UNCHANGED <<queue, woken>>
                        ELSE Enqueued(1) /\ UNCHANGED piVars
  /\ UNCHANGED <<park, entered, parkedRun, lane, held, workVars, down>>

Answer(c) ==
  /\ Synchronous /\ Spend /\ c \in busy \cap Children
  /\ lane' = Append(lane, Operation("admit", c))
  /\ UNCHANGED <<piVars, parkVars, parkedRun, queue, held, workVars, down>>

\* A child stops.  The listeners of the notification run in turn: the parking's queues its
\* check, another may hand the work over to recovery.
Notified == check' = (check \/ Waits) /\ UNCHANGED woken

Stops(c, hands) ==
  /\ Synchronous /\ c \in busy
  /\ \A i \in 1..Len(lane) : ~(lane[i].kind = "admit" /\ lane[i].of = c)
  /\ hands \subseteq Recovery \ {c} /\ (hands # {} => Spend) /\ (hands = {} => UNCHANGED events)
  /\ busy' = busy \ {c} /\ emitting' = hands
  /\ Notified
  /\ UNCHANGED <<piVars, park, entered, parkedRun, lane, queue, held, down>>

HandsOver ==
  /\ emitting # {} /\ busy' = busy \union emitting /\ emitting' = {} /\ Notified
  /\ UNCHANGED <<piVars, park, entered, parkedRun, lane, queue, held, down, events>>

Starts(c) ==
  /\ Synchronous /\ Spend /\ c \in Children \ busy /\ ~down
  /\ busy' = busy \union {c} /\ Notified
  /\ UNCHANGED <<piVars, park, entered, parkedRun, lane, queue, held, emitting, down>>

\* The Run is aborted: its signal wakes the waiter.
Abort ==
  /\ Synchronous /\ Spend /\ run # 0 /\ ~aborted /\ aborted' = TRUE
  /\ woken' = (woken \/ Waits) /\ lane' = Append(lane, Operation("endRun", run))
  /\ UNCHANGED <<prompt, run, runs, park, entered, parkedRun, queue, held, workVars, down>>

ShutDown ==
  /\ Synchronous /\ Spend /\ ~down /\ down' = TRUE
  /\ woken' = (woken \/ Waits)
  /\ UNCHANGED <<piVars, park, entered, parkedRun, lane, queue, held, workVars>>

-----------------------------------------------------------------------------
Init ==
  /\ prompt = "running" /\ run = 1 /\ runs = 1 /\ aborted = FALSE
  /\ park = "none" /\ woken = FALSE /\ entered = FALSE /\ parkedRun = 0
  /\ lane = <<>> /\ queue = 0 /\ held = 0
  /\ busy = Children /\ emitting = {} /\ check = FALSE /\ down = FALSE /\ events = 0

InLane == Begin(FALSE) \/ Admit \/ Settled \/ End \/ EndRun
Parking == Begun \/ Leave \/ Left

Next ==
  \/ InLane \/ Begin(TRUE) \/ Parking \/ Check \/ HandsOver
  \/ \E ok \in BOOLEAN : AgentEnd(ok)
  \/ \E c \in Children \union Recovery, hands \in SUBSET Recovery : Stops(c, hands)
  \/ Input \/ Abort \/ ShutDown
  \/ \E c \in Children : Answer(c) \/ Starts(c)

\* Lanes, continuations and microtasks go on.
Fairness == WF_vars(InLane) /\ WF_vars(Parking) /\ WF_vars(Check) /\ WF_vars(HandsOver)

Spec == Init /\ [][Next]_vars
FairSpec == Spec /\ Fairness
-----------------------------------------------------------------------------
TypeOK ==
  /\ prompt \in {"idle", "running", "agent_end"}
  /\ park \in {"none", "entering", "begun", "parked", "leaving", "left"}
  /\ (prompt = "agent_end") = (park # "none")
  /\ parkedRun \in {0, run} \/ aborted

\* A prompt that waits is let go as soon as there is input, nothing progresses any more, or
\* its Run or the Workflow stops: whatever happens while parking is entered.
Released == queue > 0 \/ ~Progress \/ aborted
ParkedOwnerIsReleased == park # "none" /\ Released ~> park = "none" \/ ~Released

=============================================================================
