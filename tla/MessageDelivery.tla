--------------------------- MODULE MessageDelivery ---------------------------
(***************************************************************************)
(* Delivery of Messages to one recipient Agent                             *)
(* (src/src/coordination/message-delivery-scheduler.ts), together with the *)
(* part of its Run that decides when a Delivery may be dispatched          *)
(* (src/src/runtime/agent-runtime-supervisor.ts).                          *)
(*                                                                         *)
(* Three actors interleave: the operations of other Agents, which queue in *)
(* the recipient's lane; the native Runtime, which starts turns, commits   *)
(* Messages to the transcript, waits at safe boundaries and settles; and   *)
(* the lane, which runs one queued closure at a time.  A closure that      *)
(* awaits the Runtime keeps the lane (busy), and Runtime events go on.     *)
(*                                                                         *)
(* A Map keyed by Message with insertion order is a set with an admission  *)
(* ordinal (since).  Reservations are objects compared by identity: they   *)
(* are numbered batches.                                                   *)
(***************************************************************************)
EXTENDS Naturals, Sequences, FiniteSets, FiniteSetsExt

CONSTANTS Message,      \* the ordinary Messages of a behaviour
          Resume,       \* the Supervisory Resume Messages
          None,         \* "undefined"
          Mode,         \* Mode[m]: "steer", "deferred" or "background"
          Request, Answer, Cancellation,   \* the kinds that matter to scheduling
          Withdraws,    \* Withdraws[c]: the Request that Cancellation c withdraws
          Capacity,     \* maxPendingDeliveriesPerAgent
          MaxArrivals, MaxControls, MaxFaults, MaxBatch   \* bounds of the model

Delivery == Message \cup Resume
Slot == {"deferred", "preemption", "frozen", "resume"}
Prompt == {"deferred", "preemption"}   \* the slots that own ActivePromptDelivery

ASSUME KindAssumption ==
  /\ IsFiniteSet(Delivery) /\ None \notin Delivery
  /\ Message \cap Resume = {}
  /\ Request \subseteq Message /\ Answer \subseteq Message /\ Cancellation \subseteq Message
  /\ Mode \in [Delivery -> {"steer", "deferred", "background"}]
  /\ Withdraws \in [Cancellation -> Request]
ASSUME BoundAssumption ==
  /\ Capacity \in Nat /\ MaxArrivals \in Nat /\ MaxControls \in Nat
  /\ MaxFaults \in Nat /\ MaxBatch \in Nat

VARIABLES sched,      \* the scheduler's maps for this Agent, and its batches
          run,        \* the current Run and what the supervisor knows of it
          copies,     \* how often the transcript holds each Delivery
          retrieved,  \* Answers proven by Answer Retrieval instead
          withdrawn,  \* Requests whose Cancellation is committed by the requester
          answered,   \* Requests the recipient has answered
          lane,       \* closures queued in the Agent lane
          busy,       \* what the closure that holds the lane awaits
          joins,      \* settlements waiting for Promise.allSettled
          spent       \* how much of each bound is used

vars == <<sched, run, copies, retrieved, withdrawn, answered, lane, busy, joins, spent>>
transcript == <<copies, retrieved, withdrawn, answered>>

-----------------------------------------------------------------------------
(* Types *)

Batch == [msgs : SUBSET Delivery, committed : SUBSET Delivery, run : Nat,
          comp : {"open", "done", "failed"},
          place : {"submitted", "queued", "committed", "dropped", "cancelled"}]

Sched == [pending : SUBSET Delivery, since : [Delivery -> Nat],
          slot : [Slot -> Nat], reserved : Resume \cup {None}, reservedHold : Nat,
          retained : BOOLEAN, batch : Seq(Batch),
          tracked : SUBSET Delivery, failed : SUBSET Delivery,
          afterCommit : [Delivery -> Nat]]

\* An active native turn takes queued input, lets the model and its tools work, and
\* waits at the safe boundary after them.
TurnPhase == {"input", "tools", "boundary"}

Run == [seq : Nat, phase : {"dormant", "live"},
        work : {"settled", "unavailable"} \cup TurnPhase, failed : BOOLEAN, wait : BOOLEAN,
        stop : {"none", "interruption", "suspension"}, hold : Nat, holds : Nat,
        isolated : {"none", "begun", "committed"},
        ended : {"none", "completed", "error", "aborted"}, settledEarly : BOOLEAN]

NoIds == [k \in Slot |-> 0]
Verdict == {"settled", "failed"}
TaskKind == {"admit", "resume", "interrupt", "abort", "settled", "reconcile",
             "rejected", "boundary", "drain", "evaluate", "abandoned"}
Task == {t \in [kind : TaskKind, msg : Delivery \cup {None}, run : Nat, batch : Nat,
                 verdict : Verdict, ids : [Slot -> Nat]] :
           (t.kind = "admit" => t.msg \in Message) /\ (t.kind = "resume" => t.msg \in Resume)}
Join == [run : Nat, verdict : Verdict, ids : [Slot -> Nat]]

\* Tasks differ in what they captured when they were queued.
NewTask(kind) ==
  [kind |-> kind, msg |-> None, run |-> 0, batch |-> 0, verdict |-> "settled", ids |-> NoIds]
Operation(kind, m) == [NewTask(kind) EXCEPT !.msg = m]
Settled(seq, v) == [NewTask("settled") EXCEPT !.run = seq, !.verdict = v]
Rejected(b, seq) == [NewTask("rejected") EXCEPT !.batch = b, !.run = seq]

TypeOK ==
  /\ sched \in Sched
  /\ run \in Run
  /\ copies \in [Delivery -> Nat]
  /\ retrieved \in SUBSET Message
  /\ withdrawn \in SUBSET Request
  /\ answered \in SUBSET Request
  /\ lane \in Seq(Task)
  /\ busy \in {"free", "resume", "interrupt", "end", "await"}
  /\ joins \in SUBSET Join
  /\ spent \in [arrivals : Nat, controls : Nat, faults : Nat]

Init ==
  /\ sched = [pending |-> {}, since |-> [m \in Delivery |-> 0],
              slot |-> NoIds, reserved |-> None, reservedHold |-> 0, retained |-> FALSE,
              batch |-> <<>>,
              tracked |-> {}, failed |-> {}, afterCommit |-> [m \in Delivery |-> 0]]
  /\ run = [seq |-> 0, phase |-> "dormant", work |-> "settled", failed |-> FALSE,
            wait |-> FALSE, stop |-> "none", hold |-> 0, holds |-> 0,
            isolated |-> "none", ended |-> "none", settledEarly |-> FALSE]
  /\ copies = [m \in Delivery |-> 0]
  /\ retrieved = {} /\ withdrawn = {} /\ answered = {}
  /\ lane = <<>>
  /\ busy = "free"
  /\ joins = {}
  /\ spent = [arrivals |-> 0, controls |-> 0, faults |-> 0]

-----------------------------------------------------------------------------
(* What the scheduler reads: proof, suppression, Run state.  s is a value of *)
(* sched and r a value of run, so that one closure can chain several calls.  *)

\* inspectProof: the recipient's transcript holds the Delivery.
Proven(m) == copies[m] > 0 \/ m \in retrieved

\* The Deliveries of the batch a slot holds.
Members(s, k) == IF s.slot[k] = 0 THEN {} ELSE s.batch[s.slot[k]].msgs

\* Mutant of HasReservation: a frozen batch is not taken for a reservation.
FrozenForgotten(s, m) == \E k \in Slot \ {"frozen"} : m \in Members(s, k)

\* #hasDispatchReservation: frozen or dispatched.
HasReservation(s, m) == \E k \in Slot : m \in Members(s, k)

\* hasScheduling: reserved, queued, frozen or dispatched.
HasScheduling(s, m) == m = s.reserved \/ m \in s.pending \/ HasReservation(s, m)

\* Mutant of Suppressed: a withdrawal is noticed only after Delivery.
WithdrawalNoticedLate(s, m) == m \in Request /\ m \in withdrawn /\ Proven(m)

\* isSuppressed: a withdrawn Request; a Cancellation that was already announced, or
\* whose Request was neither delivered nor handed to the Runtime.
Suppressed(s, m) ==
  \/ m \in Request /\ m \in withdrawn
  \/ /\ m \in Cancellation
     /\ \/ Proven(m)
        \/ ~Proven(Withdraws[m]) /\ ~HasReservation(s, Withdraws[m])

\* blocksOrdinaryDelivery
Blocks(r) == r.stop # "none" \/ r.isolated # "none"

\* isCurrentResumptionHold
HoldIs(r, h) == r.phase = "live" /\ r.stop # "none" /\ r.hold = h

IsCurrent(r, seq) == r.phase = "live" /\ r.seq = seq

\* currentWorkState: a suspended Run counts as settled; a dormant one is unavailable.
Active(r) == r.work \in TurnPhase
WorkState(r) == IF r.stop = "suspension" THEN "settled"
                ELSE IF r.phase = "dormant" THEN "unavailable" ELSE r.work
AtBoundary(r) == WorkState(r) = "settled"

\* The Requests whose Answers the recipient owes.
Owed == {q \in Request : Proven(q) /\ q \notin answered /\ q \notin withdrawn}

\* isDeliveryBlocked of a scheduled Message: Requests and Background input only.
\* Steer input is never blocked by Run state.
Blocked(r, m) ==
  /\ m \in Request \/ Mode[m] = "background"
  /\ Mode[m] # "steer"
  /\ \/ r.phase # "live"
     \/ Mode[m] = "deferred" /\ ~r.wait /\ Active(r) /\ ~AtBoundary(r)
     \/ Mode[m] = "background" /\ (r.wait \/ ~AtBoundary(r) \/ Owed # {})

Foreground(s) == {m \in s.pending : Mode[m] # "background"}

\* The member of S that was queued first.
Front(s, S) == CHOOSE m \in S : \A n \in S : s.since[m] <= s.since[n]

OrElse(S, T) == IF S # {} THEN S ELSE T

\* #eligibleDeliveries: foreground input, of its Deferred Requests only the front
\* one; Background input, one at a time, only when nothing else is eligible.
Eligible(s, r) ==
  LET waiting == {m \in Foreground(s) : m \in Request /\ Mode[m] = "deferred"}
      background == s.pending \ Foreground(s)
  IN OrElse({m \in Foreground(s) : (m \in waiting => m = Front(s, waiting)) /\ ~Blocked(r, m)},
            {m \in background : m = Front(s, background) /\ ~Blocked(r, m)})

\* Of the Requests in S, those whose Cancellation is not in S as well.
Standing(S) == {m \in S : \A c \in Cancellation \cap S : Withdraws[c] # m}

\* #eligibleSteerDeliveries: not yet reserved, and no Request together with the
\* Cancellation that withdraws it.
EligibleSteer(s, r) ==
  Standing({m \in Eligible(s, r) : Mode[m] = "steer" /\ ~HasReservation(s, m)})

\* Mutant of Preempting: a Steer Message does not preempt a Wait.
OnlyRequestsPreempt(m) == m \in Request \/ m \in Cancellation

\* isIncomingRequest or preemptsAgentWait
Preempting(m) ==
  m \in Request \/ m \in Cancellation \/ (Mode[m] = "steer" /\ m \notin Answer)

\* #hasUnprovenFrozenBatch
UnprovenFrozen(s) == Members(s, "frozen") \cap s.pending # {}

\* #hasPendingScheduling
HasPendingScheduling(s) ==
  \/ \E k \in Slot \ {"frozen"} : s.slot[k] # 0
  \/ s.reserved # None
  \/ s.pending # {}
  \/ UnprovenFrozen(s)

-----------------------------------------------------------------------------
(* What the scheduler's synchronous methods compute. *)

\* Mutant of DropReason: only the queue keeps the Run.
ReservationsForgotten(s) == IF s.pending # {} THEN s ELSE [s EXCEPT !.retained = FALSE]

\* #removePendingDeliveryReason
DropReason(s) == IF HasPendingScheduling(s) THEN s ELSE [s EXCEPT !.retained = FALSE]

\* Map.set of a Delivery that is not queued.
Enqueued(s, m) ==
  [s EXCEPT !.pending = @ \cup {m}, !.since[m] = 1 + Max({s.since[n] : n \in Delivery})]

\* Map.delete of the queued Deliveries in S, with afterCommit for those in C.
Dequeued(s, S, C) ==
  [s EXCEPT !.pending = @ \ S,
            !.since = [m \in Delivery |-> IF m \in S THEN 0 ELSE s.since[m]],
            !.afterCommit = [m \in Delivery |->
                               s.afterCommit[m] + IF m \in C THEN 1 ELSE 0]]

\* Mutant of Failed: only Deliveries that are still queued are reported.
OnlyQueuedFail(s, S) == [s EXCEPT !.failed = @ \cup (S \cap s.tracked \cap s.pending)]

\* #advanceProgress and #failDeliveryProgress on the tracked Deliveries in S.
Advanced(s, S) == [s EXCEPT !.failed = @ \ S]
Failed(s, S) == [s EXCEPT !.failed = @ \cup (S \cap s.tracked)]

\* Delivery proof or suppression ends scheduling; a prompt that was dispatched is
\* never suppressed.
Gone(s) ==
  LET owned == Members(s, "deferred") \cup Members(s, "preemption")
  IN {m \in s.pending : Proven(m) \/ (m \notin owned /\ Suppressed(s, m))}

\* The Deliveries in S leave the queue; the prompts that hold them note their proof.
Removed(s, S) ==
  [Dequeued(s, S, {m \in S : Proven(m)}) EXCEPT
     !.batch = [b \in DOMAIN s.batch |->
                  IF \E k \in Prompt : s.slot[k] = b
                  THEN [s.batch[b] EXCEPT !.committed = @ \cup (S \cap s.batch[b].msgs)]
                  ELSE s.batch[b]]]

\* A preemption whose batch is proven gives up its reservation before its prompt
\* settles, and so does a frozen batch with nothing queued.
Yields(s, k) ==
  \/ k = "preemption" /\ s.slot[k] # 0 /\ Members(s, k) \subseteq s.batch[s.slot[k]].committed
  \/ k = "frozen" /\ Members(s, k) \cap s.pending = {}

Yielded(s) == [s EXCEPT !.slot = [k \in Slot |-> IF Yields(s, k) THEN 0 ELSE s.slot[k]]]

Swept(s) == DropReason(Yielded(Removed(s, Gone(s))))

\* #removeProvenDeliveriesInLane: returns at once when nothing is queued.
RemoveProven(s) == IF s.pending = {} THEN s ELSE Swept(s)

\* #dispatchInLane: a new batch ms, submitted to the Runtime and reserved in slot k.
Dispatched(s, r, k, ms) ==
  [Advanced(s, ms) EXCEPT
     !.slot[k] = Len(s.batch) + 1,
     !.batch = Append(@, [msgs |-> ms, committed |-> {}, run |-> r.seq, comp |-> "open",
                          place |-> "submitted"])]

\* #reserveWaitPreemptionInLane: trigger acquires the Wait, in one batch with other
\* eligible Steer input that is not an Answer.
Acquired(s, r, trigger) ==
  LET ms == IF Mode[trigger] = "steer" THEN EligibleSteer(s, r) \ Answer ELSE {trigger}
      ended == [r EXCEPT !.wait = FALSE]
  IN IF HasReservation(s, trigger) THEN [s |-> s, r |-> ended]
     ELSE IF \A m \in ms : ~Preempting(m) THEN [s |-> s, r |-> r]
     ELSE [s |-> Dispatched(s, r, "preemption", ms), r |-> ended]

\* #preemptAgentWait: the first eligible trigger, Steer before Deferred.
Preempted(s, r) ==
  LET triggers == {m \in Eligible(s, r) : Preempting(m)}
  IN IF triggers = {} THEN [s |-> s, r |-> r]
     ELSE Acquired(s, r, Front(s, OrElse({m \in triggers : Mode[m] = "steer"}, triggers)))

\* The part of #advanceDeliveryInLane that serves ordinary Deliveries.
AdvancedOrdinary(s, r) ==
  IF Blocks(r) \/ s.slot["preemption"] # 0 \/ s.pending = {} THEN [s |-> s, r |-> r]
  ELSE IF r.wait THEN Preempted(s, r)
  ELSE IF \/ s.slot["deferred"] # 0 \/ UnprovenFrozen(s) \/ ~AtBoundary(r)
          \/ Eligible(s, r) = {}
       THEN [s |-> s, r |-> r]
  ELSE IF EligibleSteer(s, r) # {}
       THEN [s |-> Dispatched(s, r, "frozen", EligibleSteer(s, r)), r |-> r]
  ELSE [s |-> Dispatched(s, r, "deferred", {Front(s, Eligible(s, r))}), r |-> r]

\* #startResumeInLane up to its await: the reserved Resume is dispatched in isolation.
Resumed(s, r) ==
  IF r.isolated # "none" THEN [s |-> s, r |-> r]
  ELSE [s |-> Dispatched(s, r, "resume", {s.reserved}), r |-> [r EXCEPT !.isolated = "begun"]]

\* #advanceDeliveryInLane.  A Resume whose Hold is gone becomes ordinary input.
AdvancedDelivery(s, r) ==
  LET requeued == [Enqueued(s, s.reserved) EXCEPT !.reserved = None]
  IN IF s.slot["resume"] # 0 THEN [s |-> s, r |-> r]
     ELSE IF s.reserved = None \/ ~HoldIs(r, s.reservedHold)
          THEN AdvancedOrdinary(IF s.reserved = None THEN s ELSE requeued, r)
     ELSE IF WorkState(r) = "settled" THEN Resumed(s, r)
     ELSE [s |-> s, r |-> r]

\* #drainInLane
Drained(s, r) == AdvancedDelivery(RemoveProven(s), r)

\* #freezeSteerInLane as reachSafeBoundaryInLane calls it.
Frozen(s, r) ==
  IF UnprovenFrozen(s) \/ EligibleSteer(s, r) = {} THEN s
  ELSE Dispatched(s, r, "frozen", EligibleSteer(s, r))

\* Completions of the batches in B reject; each Delivery's progress fails at once.
Rejects(s, B, place) ==
  [Failed(s, UNION {s.batch[b].msgs : b \in B}) EXCEPT
     !.batch = [b \in DOMAIN s.batch |->
        IF b \in B THEN [s.batch[b] EXCEPT !.comp = "failed",
                           !.place = IF @ = "committed" THEN @ ELSE place]
        ELSE s.batch[b]]]

\* discardInLane
Discarded(s) ==
  [Dequeued(s, s.pending, {}) EXCEPT !.slot = NoIds, !.reserved = None, !.retained = FALSE]

\* The tail of #finishSettledInLane for one prompt-owned reservation.
Consumed(s, k) ==
  LET b == s.slot[k] IN
  IF b = 0 THEN s
  ELSE [Dequeued(s, Members(s, k),
                 {m \in Members(s, k) \ s.batch[b].committed : Proven(m)})
          EXCEPT !.slot[k] = 0]

\* A reservation has failed: its dispatch was rejected, or a member has no proof.
Lost(s, k) ==
  /\ s.slot[k] # 0
  /\ \/ s.batch[s.slot[k]].comp = "failed"
     \/ \E m \in Members(s, k) : ~Proven(m)

\* The dispatch of batch b is not terminal; the dispatch a slot holds is not.
Running(s, b) == b # 0 /\ s.batch[b].comp = "open"
Open(s, k) == Running(s, s.slot[k])

-----------------------------------------------------------------------------
(* Closures that run in the lane.  rest is the lane without the closure. *)

\* A queued boundary whose Run a stop takes over returns without its work.
Abandoned(q) ==
  [i \in 1..Len(q) |-> IF q[i].kind = "boundary" THEN NewTask("abandoned") ELSE q[i]]

\* Mutants of Released: the boundary is not released; it leaves no turn phase.
StillAtBoundary(r) == r

\* The native turn goes on when its safe boundary returns.
Released(r) == IF r.work = "boundary" THEN [r EXCEPT !.work = "input"] ELSE r

\* Every closure that can dispatch stays inside the number of batches modelled.
Fits(s) == Len(s.batch) <= MaxBatch

\* The outcome d of a drain; starting a Resume keeps the lane until it commits.
Becomes(d, before) ==
  /\ Fits(d.s)
  /\ sched' = d.s
  /\ run' = d.r
  /\ busy' = IF d.r.isolated = "begun" /\ before.isolated # "begun" THEN "resume" ELSE "free"

\* discardInLane and discardAndEndInLane up to their awaits.
EndRun(s, r, rest) ==
  /\ sched' = Discarded(s)
  /\ run' = Released(r)
  /\ busy' = "end"
  /\ lane' = Abandoned(rest)

\* The end of #finishSettledInLane: d is the outcome of its drain, for a Run that was r.
DrainedAndEvaluated(d, r, rest) ==
  /\ Becomes([d EXCEPT !.s = DropReason(d.s)], r)
  /\ lane' = IF HasPendingScheduling(d.s) THEN rest
             ELSE Append(rest, [NewTask("evaluate") EXCEPT !.run = r.seq])

\* #finishSettledInLane after its Hold check.  An open dispatch keeps the lane until
\* it is terminal; the prompt reservations are reconciled one after the other.
Reconciled(s0, r0, v, rest) ==
  LET s1 == [s0 EXCEPT !.slot["resume"] = 0]
      r1 == [r0 EXCEPT !.isolated = IF s0.slot["resume"] # 0 THEN "none" ELSE @]
      settled == [r0 EXCEPT !.isolated = "none"]
      s2 == Consumed(s1, "deferred")
      s3 == Swept(Consumed(s2, "preemption"))
      Await(s, r) == /\ sched' = s /\ run' = r /\ busy' = "await" /\ lane' = rest
  IN IF Open(s0, "resume") THEN Await(s0, r0)
     ELSE IF Lost(s0, "resume") THEN EndRun(s0, r1, rest)
     ELSE IF Open(s1, "deferred") THEN Await(s1, r1)
     ELSE IF Lost(s1, "deferred") THEN EndRun(s2, r1, rest)
     ELSE IF Open(s2, "preemption") THEN Await(s2, r1)
     ELSE IF Lost(s2, "preemption") \/ v = "failed" \/ UnprovenFrozen(s3)
          THEN EndRun(s3, r1, rest)
     ELSE DrainedAndEvaluated(Drained(s3, settled), settled, rest)

\* #finishSettledInLane: under a Hold the unproven work stays queued.
FinishSettled(s, r, v, rest) ==
  IF r.stop # "none"
  THEN /\ sched' = [RemoveProven(s) EXCEPT !.slot = NoIds]
       /\ run' = [r EXCEPT !.isolated = "none"]
       /\ busy' = "free"
       /\ lane' = rest
  ELSE Reconciled(s, r, v, rest)

Head1(kind) == busy = "free" /\ lane # <<>> /\ Head(lane).kind = kind
Rest == Tail(lane)
Skip == lane' = Rest /\ UNCHANGED <<sched, run, busy>>

-----------------------------------------------------------------------------
(* Operations of other Agents and of humans.  They queue in the lane. *)

Spend(what) == spent' = [spent EXCEPT ![what] = @ + 1]

\* send, request, answer, cancel or retry reaches the recipient's lane.  A
\* Cancellation withdraws its Request when it is created.
Arrive(m) ==
  /\ spent.arrivals < MaxArrivals
  /\ m \in Cancellation => Withdraws[m] \in sched.tracked \ answered
  /\ lane' = Append(lane, Operation("admit", m))
  /\ withdrawn' = withdrawn \cup {q \in Request : m \in Cancellation /\ Withdraws[m] = q}
  /\ Spend("arrivals")
  /\ UNCHANGED <<sched, run, copies, retrieved, answered, busy, joins>>

\* agent_control interrupt and abort.
Control(kind) ==
  /\ spent.controls < MaxControls
  /\ lane' = Append(lane, NewTask(kind))
  /\ Spend("controls")
  /\ UNCHANGED <<sched, run, transcript, busy, joins>>

\* Nothing knows the Resume m: each call of the tool creates its Message anew.
NewResume(m) ==
  /\ copies[m] = 0
  /\ ~HasScheduling(sched, m)
  /\ \A b \in DOMAIN sched.batch :
       m \in sched.batch[b].msgs => sched.batch[b].place \notin {"submitted", "queued"}
  /\ \A i \in 1..Len(lane) : lane[i].msg # m

\* agent_control resume: waits outside the lane for a suspended Run to settle.
ControlResume(m) ==
  /\ spent.controls < MaxControls
  /\ NewResume(m)
  /\ run.stop = "suspension" => ~Active(run)
  /\ lane' = Append(lane, Operation("resume", m))
  /\ Spend("controls")
  /\ UNCHANGED <<sched, run, transcript, busy, joins>>

\* A Request that was withdrawn or delivered is not scheduled again by a retry.
Settles(m) == m \in sched.tracked /\ (Proven(m) \/ m \in withdrawn)

\* #admitInLane of a Delivery that already has scheduling: only a drain.
AdmitAgain ==
  /\ Head1("admit")
  /\ LET m == Head(lane).msg IN
     IF Settles(m) THEN Skip
     ELSE /\ HasScheduling(sched, m)
          /\ Becomes(Drained(sched, run), run)
          /\ lane' = Rest
  /\ UNCHANGED <<transcript, joins, spent>>

Full(s) ==
  Cardinality({m \in s.pending : ~Proven(m) /\ ~Suppressed(s, m)}) >= Capacity

\* #admitInLane: a full queue rejects, and reports the Delivery as failed.
AdmitFull ==
  /\ Head1("admit")
  /\ LET m == Head(lane).msg IN
     /\ ~Settles(m) /\ ~HasScheduling(sched, m) /\ Full(sched)
     /\ sched' = Failed([sched EXCEPT !.tracked = @ \cup {m}], {m})
  /\ lane' = Rest
  /\ UNCHANGED <<run, transcript, busy, joins, spent>>

\* #admitInLane: queue the Delivery, booting a dormant recipient, and drain.
Admit ==
  /\ Head1("admit")
  /\ LET m == Head(lane).msg
         fresh == [sched EXCEPT !.tracked = @ \cup {m}, !.failed = @ \ {m}]
         live == IF run.phase = "live" THEN run
                 ELSE [run EXCEPT !.phase = "live", !.seq = @ + 1]
     IN /\ ~Settles(m) /\ ~HasScheduling(sched, m) /\ ~Full(sched)
        /\ IF Suppressed(sched, m)
           THEN /\ sched' = [sched EXCEPT !.tracked = @ \ {m}, !.failed = @ \ {m}]
                /\ UNCHANGED <<run, busy>>
           ELSE Becomes(Drained([Enqueued(fresh, m) EXCEPT !.retained = TRUE], live), live)
  /\ lane' = Rest
  /\ UNCHANGED <<transcript, joins, spent>>

\* #admitInLane: the boot of a dormant recipient fails.
AdmitUnavailable ==
  /\ Head1("admit")
  /\ run.phase = "dormant"
  /\ spent.faults < MaxFaults
  /\ LET m == Head(lane).msg IN
     /\ ~Settles(m) /\ ~HasScheduling(sched, m) /\ ~Full(sched) /\ ~Suppressed(sched, m)
     /\ sched' = Failed([sched EXCEPT !.tracked = @ \cup {m}], {m})
  /\ lane' = Rest
  /\ Spend("faults")
  /\ UNCHANGED <<run, transcript, busy, joins>>

\* admitResumeInLane through RunSupervision: one Resume at a time, for the Hold
\* that stands when the lane reaches it.
AdmitResume ==
  /\ Head1("resume")
  /\ IF \/ run.stop = "none" \/ sched.reserved # None \/ sched.slot["resume"] # 0
     THEN Skip
     ELSE /\ Becomes(Drained([sched EXCEPT !.reserved = Head(lane).msg,
                                           !.reservedHold = run.hold,
                                           !.retained = TRUE], run), run)
          /\ lane' = Rest
  /\ UNCHANGED <<transcript, joins, spent>>

\* The Resume is in the transcript: the Hold ends, and events that outran the commit
\* are replayed.  An attempt that ended aborted leaves a suspension as it was.
CommitResume ==
  /\ busy = "resume"
  /\ copies[sched.reserved] > 0
  /\ LET kept == run.stop = "suspension" /\ run.ended = "aborted"
         again == run.ended = "error"
     IN /\ run' = [run EXCEPT
             !.isolated = IF kept THEN "none" ELSE "committed",
             !.stop = IF kept THEN @
                      ELSE IF again /\ run.work # "unavailable" /\ ~run.failed
                           THEN "suspension" ELSE "none",
             !.hold = IF ~kept /\ again THEN run.holds + 1 ELSE @,
             !.holds = IF ~kept /\ again THEN @ + 1 ELSE @,
             !.failed = @ \/ (~kept /\ again /\ run.work = "unavailable"),
             !.ended = "none", !.settledEarly = FALSE]
        /\ lane' = IF run.settledEarly
                   THEN Append(lane, Settled(run.seq, IF run'.failed THEN "failed" ELSE "settled"))
                   ELSE lane
  /\ sched' = [sched EXCEPT !.reserved = None,
                            !.afterCommit[sched.reserved] = @ + 1]
  /\ busy' = "free"
  /\ UNCHANGED <<transcript, joins, spent>>

\* The Resume did not commit: the attempt is cancelled and its Hold stays.
FailResume ==
  /\ busy = "resume"
  /\ copies[sched.reserved] = 0
  /\ LET b == sched.batch[sched.slot["resume"]] IN
     b.comp = "failed" \/ (b.place = "dropped" /\ ~Active(run))
  /\ sched' = DropReason([sched EXCEPT !.reserved = None, !.slot["resume"] = 0])
  /\ run' = [run EXCEPT !.isolated = "none", !.ended = "none", !.settledEarly = FALSE]
  /\ busy' = "free"
  /\ UNCHANGED <<transcript, lane, joins, spent>>

-----------------------------------------------------------------------------
(* Stops: interruption, abort, and the end of a Run.  They keep the lane while *)
(* the native turn unwinds.                                                    *)

\* prepareInterruptionInLane and interruptCurrentRunInLane up to its awaits.
Interrupt ==
  /\ Head1("interrupt")
  /\ sched' = [sched EXCEPT !.slot["frozen"] = 0]
  /\ IF run.phase = "dormant" \/ run.failed \/ run.stop # "none"
     THEN lane' = Rest /\ UNCHANGED <<run, busy>>
     ELSE /\ run' = Released([run EXCEPT !.isolated = "none"])
          /\ busy' = "interrupt"
          /\ lane' = Abandoned(Rest)
  /\ UNCHANGED <<transcript, joins, spent>>

\* The dispatches whose completion is open; those the Runtime has accepted but
\* neither committed nor given up.
Incomplete == {b \in DOMAIN sched.batch : sched.batch[b].comp = "open"}
Uncommitted == {b \in Incomplete : sched.batch[b].place \in {"submitted", "queued"}}

\* interruptCurrentRunInLane after its awaits: the settled Run is held.
FinishInterrupt ==
  /\ busy = "interrupt"
  /\ ~Active(run)
  /\ Uncommitted = {}
  /\ run' = IF run.failed \/ run.work = "unavailable" THEN run
            ELSE [run EXCEPT !.stop = "interruption", !.hold = run.holds + 1, !.holds = @ + 1]
  /\ busy' = "free"
  /\ UNCHANGED <<sched, transcript, lane, joins, spent>>

\* RunSupervision abort.
Abort ==
  /\ Head1("abort")
  /\ IF run.phase = "dormant" THEN Skip ELSE EndRun(sched, run, Rest)
  /\ UNCHANGED <<transcript, joins, spent>>

DormantRun == [run EXCEPT !.phase = "dormant", !.work = "settled", !.failed = FALSE,
                          !.wait = FALSE, !.stop = "none",
                          !.isolated = "none", !.ended = "none", !.settledEarly = FALSE]

\* discardAndEndInLane after its awaits.  Disposal rejects what is still open, and the
\* ended handler fails the progress of every Delivery to this Agent.
FinishEnd ==
  /\ busy = "end"
  /\ ~Active(run)
  /\ Uncommitted = {}
  /\ sched' = Rejects(Failed(sched, Delivery), Incomplete, "dropped")
  /\ run' = DormantRun
  /\ busy' = "free"
  /\ UNCHANGED <<transcript, lane, joins, spent>>

-----------------------------------------------------------------------------
(* What the Runtime's events queue in the lane. *)

\* #settledInLane: reconcile at once, or when every dispatch it found is terminal.
SettledInLane ==
  /\ Head1("settled")
  /\ LET t == Head(lane) IN
     IF ~IsCurrent(run, t.run) THEN Skip /\ UNCHANGED joins
     ELSE IF sched.slot = NoIds
     THEN FinishSettled(sched, run, t.verdict, Rest) /\ UNCHANGED joins
     ELSE /\ joins' = joins \cup {[run |-> t.run, verdict |-> t.verdict, ids |-> sched.slot]}
          /\ lane' = Rest
          /\ UNCHANGED <<sched, run, busy>>
  /\ UNCHANGED <<transcript, spent>>

\* Promise.allSettled of the dispatches a settlement found.
JoinSettles(j) ==
  /\ ~\E k \in Slot : Running(sched, j.ids[k])
  /\ joins' = joins \ {j}
  /\ lane' = Append(lane, [NewTask("reconcile") EXCEPT
                             !.run = j.run, !.verdict = j.verdict, !.ids = j.ids])
  /\ UNCHANGED <<sched, run, transcript, busy, spent>>

\* The continuation in the lane: a changed reservation ends the reconciliation,
\* except that a failed Run is fenced all the same.
ReconcileInLane ==
  /\ Head1("reconcile")
  /\ LET t == Head(lane) IN
     IF ~IsCurrent(run, t.run) THEN Skip
     ELSE IF sched.slot = t.ids THEN FinishSettled(sched, run, t.verdict, Rest)
     ELSE IF t.verdict = "failed" THEN EndRun(sched, run, Rest)
     ELSE Skip
  /\ UNCHANGED <<transcript, joins, spent>>

\* The rejection handler of #dispatchInLane: fences the Run of an unproven dispatch
\* that still owns its reservation.
RejectedInLane ==
  /\ Head1("rejected")
  /\ LET t == Head(lane)
         owned == {m \in sched.batch[t.batch].msgs \cap sched.tracked : HasReservation(sched, m)}
     IN IF ~IsCurrent(run, t.run) \/ \A m \in owned : Proven(m) THEN Skip
        ELSE FinishSettled(sched, run, "failed", Rest)
  /\ UNCHANGED <<transcript, joins, spent>>

\* #finishSettledInLane goes on once the dispatch it awaits is terminal.
Awaited == IF sched.slot["resume"] # 0 THEN "resume"
           ELSE IF sched.slot["deferred"] # 0 THEN "deferred" ELSE "preemption"

FinishAwait ==
  /\ busy = "await"
  /\ ~Open(sched, Awaited)
  /\ Reconciled(sched, run, "failed", lane)
  /\ UNCHANGED <<transcript, joins, spent>>

\* reachSafeBoundaryInLane.  A Runtime that has died since rejects the hand-off.
BoundaryInLane ==
  /\ Head1("boundary")
  /\ LET s == RemoveProven(sched) IN
     sched' = IF Blocks(run) THEN s
              ELSE IF run.work = "unavailable" THEN Failed(s, EligibleSteer(s, run))
              ELSE Frozen(s, run)
  /\ Fits(sched')
  /\ run' = Released(run)
  /\ lane' = Rest
  /\ UNCHANGED <<transcript, busy, joins, spent>>

\* requestQueueAdvanced
DrainInLane ==
  /\ Head1("drain")
  /\ Becomes(Drained(sched, run), run)
  /\ lane' = Rest
  /\ UNCHANGED <<transcript, joins, spent>>

\* What keeps a settled Run live.
Retained == sched.retained \/ Owed # {} \/ run.wait \/ run.stop # "none"

\* releaseIfEligibleInLane; disposal rejects what is still open.
EvaluateRelease ==
  /\ Head1("evaluate")
  /\ IF IsCurrent(run, Head(lane).run) /\ run.work = "settled" /\ ~Retained
     THEN run' = DormantRun /\ sched' = Rejects(sched, Incomplete, "dropped")
     ELSE UNCHANGED <<run, sched>>
  /\ lane' = Rest
  /\ UNCHANGED <<transcript, busy, joins, spent>>

ReturnAbandoned == Head1("abandoned") /\ Skip /\ UNCHANGED <<transcript, joins, spent>>

-----------------------------------------------------------------------------
(* The native Runtime, as NativeSessionDriver and PiChildHostedRuntime report it. *)

Live == run.phase = "live"
Stopping == busy \in {"interrupt", "end"}

\* The closures that report the rejection of the batches in B, oldest dispatch first.
Ascending(B) ==
  {f \in [1..Cardinality(B) -> B] : \A i, j \in DOMAIN f : i < j => f[i] < f[j]}
RejectedTasks(f) == [i \in DOMAIN f |-> Rejected(f[i], sched.batch[f[i]].run)]

Commits(b) ==
  /\ sched' = [sched EXCEPT !.batch[b].place = "committed"]
  /\ copies' = [m \in Delivery |-> copies[m] + IF m \in sched.batch[b].msgs THEN 1 ELSE 0]

\* A submitted batch that finds the session idle starts a turn, which commits it first.
StartTurn(b) ==
  /\ Live /\ run.work = "settled"
  /\ sched.batch[b].run = run.seq /\ sched.batch[b].place = "submitted"
  /\ run' = [run EXCEPT !.work = "input"]
  /\ Commits(b)
  /\ UNCHANGED <<retrieved, withdrawn, answered, lane, busy, joins, spent>>

\* A submitted batch that finds a turn is queued behind it.
EnterQueue(b) ==
  /\ Live /\ Active(run)
  /\ sched.batch[b].run = run.seq /\ sched.batch[b].place = "submitted"
  /\ sched' = [sched EXCEPT !.batch[b].place = "queued"]
  /\ UNCHANGED <<run, transcript, lane, busy, joins, spent>>

\* Native steering is one-at-a-time: each model step takes one batch from the queue.
Queued == {b \in DOMAIN sched.batch : sched.batch[b].place = "queued"}

TakeInput(b) ==
  /\ Live /\ run.work = "input" /\ b \in Queued
  /\ run' = [run EXCEPT !.work = "tools"]
  /\ Commits(b)
  /\ UNCHANGED <<retrieved, withdrawn, answered, lane, busy, joins, spent>>

ContinueTurn ==
  /\ Live /\ run.work = "input" /\ Queued = {}
  /\ run' = [run EXCEPT !.work = "tools"]
  /\ UNCHANGED <<sched, transcript, lane, busy, joins, spent>>

\* A turn ends between two model steps and awaits the safe boundary, unless a stop
\* owns the Run.
ReachBoundary ==
  /\ Live /\ run.work = "tools" /\ ~run.wait
  /\ run' = [run EXCEPT !.work = IF Stopping THEN "input" ELSE "boundary"]
  /\ lane' = IF Stopping THEN lane ELSE Append(lane, NewTask("boundary"))
  /\ UNCHANGED <<sched, transcript, busy, joins, spent>>

\* The turn calls agent_wait, which also advances delivery.
BeginWait ==
  /\ Live /\ run.work = "tools" /\ ~run.wait /\ ~run.failed /\ busy # "end"
  /\ spent.controls < MaxControls
  /\ run' = [run EXCEPT !.wait = TRUE]
  /\ lane' = Append(lane, NewTask("drain"))
  /\ Spend("controls")
  /\ UNCHANGED <<sched, transcript, busy, joins>>

\* The Wait ends with its Answers, or with its signal.
CompleteWait ==
  /\ run.wait
  /\ run' = [run EXCEPT !.wait = FALSE]
  /\ UNCHANGED <<sched, transcript, lane, busy, joins, spent>>

\* A tool result of the turn retrieves an Answer: AnswerArbitration lets it only
\* when direct Delivery neither is in flight nor has proof.  A stop has already told
\* the Runtime to clear its queue and abort when a later result asks.
RetrieveAnswer(m) ==
  /\ Live /\ run.work = "tools" /\ ~Stopping
  /\ ~HasReservation(sched, m) /\ ~Proven(m)
  /\ retrieved' = retrieved \cup {m}
  /\ UNCHANGED <<sched, run, copies, withdrawn, answered, lane, busy, joins, spent>>

\* The turn answers a Request it was given.
AnswerRequest(q) ==
  /\ Live /\ run.work = "tools" /\ ~run.wait
  /\ q \in Owed
  /\ answered' = answered \cup {q}
  /\ UNCHANGED <<sched, run, copies, retrieved, withdrawn, lane, busy, joins, spent>>

\* agent_end and agent_settled.  While a Resume is uncommitted they are only recorded.
\* An unexpected error suspends the Run.
RunSettles(outcome) ==
  LET early == run.isolated = "begun"
      suspends == outcome = "error" /\ ~early /\ ~Stopping /\ run.stop # "suspension" /\ ~run.failed
      over == [run EXCEPT !.work = "settled", !.wait = FALSE]
  IN /\ run' = IF early THEN [over EXCEPT !.ended = outcome, !.settledEarly = TRUE]
               ELSE IF suspends THEN [over EXCEPT !.stop = "suspension",
                                        !.hold = run.holds + 1, !.holds = @ + 1]
               ELSE over
     /\ lane' = IF early THEN lane
                ELSE Append(lane, Settled(run.seq, IF run.failed THEN "failed" ELSE "settled"))

CompleteTurn ==
  /\ Live /\ run.work = "input" /\ Queued = {}
  /\ RunSettles("completed")
  /\ UNCHANGED <<sched, transcript, busy, joins, spent>>

\* A terminal provider error; custom input in the native queue is dropped.
FailTurn ==
  /\ Live /\ run.work \in {"input", "tools"} /\ ~run.wait /\ ~Stopping
  /\ spent.faults < MaxFaults
  /\ RunSettles("error")
  /\ sched' = [sched EXCEPT !.batch = [b \in DOMAIN sched.batch |->
                 IF sched.batch[b].place = "queued"
                 THEN [sched.batch[b] EXCEPT !.place = "dropped"] ELSE sched.batch[b]]]
  /\ Spend("faults")
  /\ UNCHANGED <<transcript, busy, joins>>

\* abort() of a stop: uncommitted Deliveries are cancelled, then the turn ends.
CancelDelivery(b) ==
  /\ Stopping
  /\ b \in Uncommitted
  /\ sched' = Rejects(sched, {b}, "cancelled")
  /\ lane' = Append(lane, Rejected(b, sched.batch[b].run))
  /\ UNCHANGED <<run, transcript, busy, joins, spent>>

AbortTurn ==
  /\ Stopping
  /\ Live /\ run.work \in {"input", "tools"}
  /\ Uncommitted = {}
  /\ RunSettles("aborted")
  /\ UNCHANGED <<sched, transcript, busy, joins, spent>>

\* A completion resolves when the native session is idle again.
CompletionResolves(b) ==
  /\ sched.batch[b].comp = "open"
  /\ sched.batch[b].place \in {"committed", "dropped"}
  /\ run.work = "settled"
  /\ sched' = [sched EXCEPT !.batch[b].comp = "done"]
  /\ UNCHANGED <<run, transcript, lane, busy, joins, spent>>

\* Preparation before the turn can settle a replacement turn first.
PreparationSettles ==
  /\ Live /\ run.work = "settled"
  /\ \E b \in Uncommitted : sched.batch[b].place = "submitted"
  /\ spent.faults < MaxFaults
  /\ RunSettles("completed")
  /\ Spend("faults")
  /\ UNCHANGED <<sched, transcript, busy, joins>>

\* Preparation or startup rejects an idle Delivery before any turn starts.
RejectDelivery(b) ==
  /\ b \in Uncommitted /\ sched.batch[b].place = "submitted" /\ run.work = "settled"
  /\ spent.faults < MaxFaults
  /\ sched' = Rejects(sched, {b}, "dropped")
  /\ lane' = Append(lane, Rejected(b, sched.batch[b].run))
  /\ Spend("faults")
  /\ UNCHANGED <<run, transcript, busy, joins>>

\* The transport ends: every open completion rejects, then agent_end(error) and
\* agent_settled are reported for a Runtime that is gone.
EndTransport ==
  /\ Live /\ run.work # "unavailable"
  /\ spent.faults < MaxFaults
  /\ LET early == run.isolated = "begun"
         fails == ~early /\ ~Stopping /\ run.stop # "suspension"
     IN /\ sched' = Rejects(sched, Incomplete, "dropped")
        /\ run' = [run EXCEPT !.work = "unavailable", !.wait = FALSE,
                     !.failed = @ \/ fails,
                     !.ended = IF early THEN "error" ELSE @, !.settledEarly = early]
        /\ \E f \in Ascending(Incomplete) :
             lane' = lane \o RejectedTasks(f) \o
                     (IF early THEN <<>>
                      ELSE <<Settled(run.seq, IF run'.failed THEN "failed" ELSE "settled")>>)
  /\ Spend("faults")
  /\ UNCHANGED <<transcript, busy, joins>>

InLane ==
  \/ AdmitAgain \/ AdmitFull \/ Admit \/ AdmitUnavailable \/ AdmitResume
  \/ CommitResume \/ FailResume
  \/ Interrupt \/ FinishInterrupt \/ Abort \/ FinishEnd
  \/ SettledInLane \/ ReconcileInLane \/ RejectedInLane \/ FinishAwait
  \/ BoundaryInLane \/ DrainInLane \/ EvaluateRelease \/ ReturnAbandoned

Native ==
  \/ \E b \in DOMAIN sched.batch : \/ StartTurn(b) \/ EnterQueue(b) \/ TakeInput(b) \/ CancelDelivery(b)
                            \/ CompletionResolves(b) \/ RejectDelivery(b)
  \/ ContinueTurn \/ ReachBoundary \/ BeginWait \/ CompleteWait \/ CompleteTurn \/ FailTurn \/ AbortTurn
  \/ PreparationSettles \/ EndTransport
  \/ \E m \in Answer : RetrieveAnswer(m)
  \/ \E q \in Request : AnswerRequest(q)

Others ==
  \/ \E m \in Message : Arrive(m)
  \/ \E kind \in {"interrupt", "abort"} : Control(kind)
  \/ \E m \in Resume : ControlResume(m)

Next == InLane \/ Native \/ Others \/ \E j \in joins : JoinSettles(j)

Spec == Init /\ [][Next]_vars

\* The lane runs its queue; the Runtime takes its input and reports it; a turn goes on,
\* and one that can end infinitely often ends.  Nobody has to answer a Request, to end
\* a Wait or to release a Hold.
HandlesInput ==
  \/ \E j \in joins : JoinSettles(j)
  \/ \E b \in DOMAIN sched.batch : \/ StartTurn(b) \/ EnterQueue(b) \/ TakeInput(b)
                                  \/ CancelDelivery(b) \/ CompletionResolves(b)

\* A closure is due: the head of a free lane, or the one whose await is over.
LaneReady ==
  \/ busy = "free" /\ lane # <<>>
  \/ busy \in {"interrupt", "end"} /\ ~Active(run) /\ Uncommitted = {}
  \/ busy = "await" /\ ~Open(sched, Awaited)
  \/ busy = "resume" /\ (ENABLED CommitResume \/ ENABLED FailResume)

\* The first conjunct is WF_vars(InLane) with its enabling condition spelled out.
Fairness ==
  /\ []<>~LaneReady \/ []<><<InLane>>_vars
  /\ WF_vars(HandlesInput)
  /\ WF_vars(ContinueTurn \/ ReachBoundary)
  /\ SF_vars(CompleteTurn \/ AbortTurn)

FairSpec == Spec /\ Fairness

-----------------------------------------------------------------------------
(* Properties *)

\* The recipient gets every Delivery at most once: one transcript entry, or one
\* Answer Retrieval instead, never both, whatever is retried, cancelled or resumed.
\* It needs that a suspension finds no submission under way: see README.md.
ExactlyOneProof ==
  \A m \in Delivery \ Cancellation : copies[m] + (IF m \in retrieved THEN 1 ELSE 0) <= 1

\* afterCommit, which moves Request obligations, runs once per Delivery and only
\* for one that has proof.
AfterCommitOnce ==
  \A m \in Delivery : sched.afterCommit[m] <= 1 /\ (sched.afterCommit[m] = 1 => Proven(m))

\* Scheduled work keeps its Run: it exists only with a live Run, which the reason
\* pending_delivery keeps from being released.
ScheduledWorkRetainsItsRun ==
  HasPendingScheduling(sched) => Live /\ sched.retained

\* No silent loss: once no closure ends the Run, a Delivery whose progress is tracked
\* has proof, is suppressed, still has scheduling, or has failed visibly.
NothingIsLostSilently ==
  busy # "end" => \A m \in sched.tracked \ Cancellation :
    Proven(m) \/ Suppressed(sched, m) \/ HasScheduling(sched, m) \/ m \in sched.failed

\* Every Delivery is accounted for: it is pending, proven, withdrawn or reported failed,
\* and what follows its commit happens once.
DeliveryIsAccounted == NothingIsLostSilently /\ AfterCommitOnce

NewBatch == sched'.batch[Len(sched'.batch)]
Dispatches == Len(sched'.batch) > Len(sched.batch)

\* A withdrawn Request is never handed to the Runtime afterwards.
WithdrawnIsNotDispatched ==
  [][Dispatches => NewBatch.msgs \cap withdrawn = {}]_vars

\* A held, suspended or resuming Run takes only its Resume.
HeldTakesOnlyItsResume ==
  [][Dispatches /\ (run'.stop # "none" \/ run'.isolated # "none") => NewBatch.msgs \subseteq Resume]_vars

Fences == busy' = "end" /\ busy # "end" /\ (lane # <<>> /\ busy = "free" => Head(lane).kind # "abort")

\* Every queued Delivery of a Run that is neither stopped nor dead leaves the queue,
\* with proof or visibly, even if the Agent stays in its Wait for good.
QueuedIsServed ==
  \A m \in Message : m \in sched.pending ~>
    (m \notin sched.pending \/ run.stop # "none" \/ run.work = "unavailable")

\* A closure that awaits the Runtime gives the lane back.
LaneIsReturned == (busy # "free") ~> (busy = "free")

\* Claimed by the comment at agent-runtime-supervisor.ts:1376: a dead Runtime keeps the
\* terminal Run Failure path, so its Run is fenced.  Violated during an interruption.
DeadRuntimeIsFenced == (Live /\ run.work = "unavailable") ~> ~(Live /\ run.work = "unavailable")

\* Claimed by the comment at messages.ts:1285: a withdrawn Request that reaches its
\* responder after all has its Cancellation announced.  Violated.
WithdrawnRequestIsAnnounced ==
  busy # "end" => \A c \in sched.tracked \cap Cancellation :
    Proven(Withdraws[c]) => \/ Proven(c) \/ HasScheduling(sched, c) \/ c \in sched.failed
                            \/ \E b \in Uncommitted : c \in sched.batch[b].msgs

\* Claimed by docs/agent-spawning.md:109: a dispatch reservation prevents duplicate
\* Delivery.  Violated by a retried Cancellation.
CancellationDeliveredOnce == \A c \in Cancellation : copies[c] <= 1

\* Claimed by the comment at message-delivery-scheduler.ts:731: an interruption ends a
\* turn, not the admitted Messages, so a Run is not fenced for input it cancelled.
InterruptionDiscardsNothing ==
  [][Fences => \/ run.failed \/ run.work = "unavailable"
               \/ \E b \in DOMAIN sched.batch : sched.batch[b].run = run.seq
                                               /\ sched.batch[b].place = "dropped"]_vars

\* Claimed by the comment at message-delivery-scheduler.ts:712: reconciliation does not
\* hold the lane while a turn needs it for its safe boundary.
LaneLeavesBoundaries == ~(busy = "await" /\ run.work = "boundary")
=============================================================================
