---------------------------- MODULE DeferredBoots ----------------------------
(***************************************************************************)
(* The soft bound on working Runs (MessageDeliveryScheduler and            *)
(* WorkflowCoordinator): a Delivery to a dormant child over the bound is   *)
(* kept, its boot deferred, and activity changes start deferred boots.     *)
(*                                                                         *)
(* One Message is on its way to each spawned child at a time.  A Run works *)
(* or waits for somebody else; what it does is MessageDelivery's subject.  *)
(***************************************************************************)
EXTENDS Naturals, Sequences, FiniteSets

CONSTANTS Agents,    \* spawned children
          MaxRuns,   \* maxConcurrentAgentRuns
          MaxEvents  \* spawns, Messages, withdrawals, discards, failures, human starts
MaxAttempts == 2     \* MAXIMUM_PRE_DISPATCH_BOOT_ATTEMPTS

VARIABLES
  run,      \* the phase of each child's Run
  working,  \* it is active, owes an Answer or has a Delivery in progress
  pending,  \* the Delivery of each child: none, waiting, failed visibly but kept,
            \* or resolved without one
  lane,     \* the operations in each child's lane
  deferred, \* #deferredBoots, in the order of deferral
  inFlight, \* #bootsInFlight
  rounds,   \* the boots each call of startDeferredBoots still awaits
  handOns,  \* continuations of such calls
  check,    \* #deferredBootCheckQueued
  granted,  \* children that work because a deferred boot was started
  down,     \* the Workflow shuts down
  events

vars == <<run, working, pending, lane, deferred, inFlight, rounds, handOns, check, granted,
          down, events>>

Spend == events < MaxEvents /\ events' = events + 1
Notify == check' = ~down

Dormant(a) == run[a] = "dormant"
Working(a) == run[a] = "starting" \/ working[a]

\* Mutant of Counted: a boot that was handed a slot does not count until it starts.
CountsRunning == {a \in Agents : Working(a)}
Counted == inFlight \union {a \in Agents : Working(a)}
FreeSlots == IF Cardinality(Counted) < MaxRuns THEN MaxRuns - Cardinality(Counted) ELSE 0

Unresolved(a) == pending[a] \in {"waiting", "failed"}
AwaitsBoot(a) == Unresolved(a) /\ Dormant(a)
MayBootNow == deferred = <<>> /\ FreeSlots > 0
MustDefer(a) ==
  a \in inFlight \/ a \in {deferred[i] : i \in 1..Len(deferred)} \/ ~MayBootNow

At(a, kind, step) == lane[a] # <<>> /\ Head(lane[a]).kind = kind /\ Head(lane[a]).step = step
Operation(kind) == [kind |-> kind, step |-> "queued", attempt |-> 1]
Queues(a, kind) == lane' = [lane EXCEPT ![a] = Append(@, Operation(kind))]
Leaves(a) == [lane EXCEPT ![a] = Tail(@)]
Moves(a, step) == [lane EXCEPT ![a] = <<[Head(@) EXCEPT !.step = step]>> \o Tail(@)]

-----------------------------------------------------------------------------
(* startDeferredBoots *)

\* In deferral order, what no longer awaits a boot is dropped and slots are handed out
\* until none is free.  What is deferred behind that point is not looked at.
StartDeferredBoots ==
  LET awaiting == SelectSeq(deferred, AwaitsBoot)
      fits     == Len(awaiting) <= FreeSlots
      boots    == {awaiting[i] : i \in 1..(IF fits THEN Len(awaiting) ELSE FreeSlots)}
      rest     == IF fits THEN Len(deferred) + 1
                  ELSE CHOOSE i \in 1..Len(deferred) : deferred[i] = awaiting[FreeSlots + 1]
  IN /\ deferred' = SubSeq(deferred, rest, Len(deferred))
     /\ inFlight' = inFlight \union boots /\ granted' = granted \union boots
     /\ rounds' = (IF boots = {} THEN rounds ELSE rounds \union {boots})
     /\ lane' = [a \in Agents |-> IF a \in boots THEN Append(lane[a], Operation("boot"))
                                                 ELSE lane[a]]

Check ==
  /\ check /\ check' = FALSE
  /\ IF down THEN UNCHANGED <<deferred, inFlight, granted, rounds, lane>> ELSE StartDeferredBoots
  /\ UNCHANGED <<run, working, pending, handOns, down, events>>

\* Every boot of a round has dispatched or failed: what is still deferred may go.
HandOn ==
  /\ handOns > 0 /\ handOns' = handOns - 1
  /\ IF deferred = <<>> THEN UNCHANGED <<deferred, inFlight, granted, rounds, lane>>
                        ELSE StartDeferredBoots
  /\ UNCHANGED <<run, working, pending, check, down, events>>

\* A boot ends and releases its slot.  One that throws ends the wait of its round.
\* Mutant of BootEnds: the slot is not handed on.
BootEndsAlone(a, throws) ==
  /\ inFlight' = inFlight \ {a}
  /\ rounds' = {boots \ {a} : boots \in rounds} \ {{}}
  /\ UNCHANGED handOns
BootEnds(a, throws) ==
  LET round == {boots \in rounds : a \in boots}
  IN /\ inFlight' = inFlight \ {a}
     /\ rounds' = (rounds \ round) \union
                    (IF throws THEN {} ELSE {boots \ {a} : boots \in round} \ {{}})
     /\ handOns' = (IF ~throws /\ {a} \in round THEN handOns + 1 ELSE handOns)

-----------------------------------------------------------------------------
(* Operations of a child's lane. *)

Dispatched(a) ==
  /\ working' = [working EXCEPT ![a] = TRUE] /\ pending' = [pending EXCEPT ![a] = "no"]
  /\ Notify

StartsRun(a) == run' = [run EXCEPT ![a] = "starting"] /\ lane' = Moves(a, "starting") /\ Notify

\* #admitInLane
Admit(a) ==
  /\ At(a, "admit", "queued")
  /\ \/ /\ pending[a] # "no"
        /\ IF run[a] = "live" /\ Unresolved(a) THEN Dispatched(a)
                                                        ELSE UNCHANGED <<working, pending, check>>
        /\ lane' = Leaves(a)
        /\ UNCHANGED <<run, deferred>>
     \/ /\ pending[a] = "no" /\ run[a] = "live"
        /\ Dispatched(a) /\ lane' = Leaves(a)
        /\ UNCHANGED <<run, deferred>>
     \/ /\ pending[a] = "no" /\ Dormant(a) /\ MustDefer(a)
        /\ pending' = [pending EXCEPT ![a] = "waiting"]
        /\ deferred' = (IF a \in inFlight \union {deferred[i] : i \in 1..Len(deferred)}
                        THEN deferred ELSE Append(deferred, a))
        /\ lane' = Leaves(a) /\ Notify
        /\ UNCHANGED <<run, working>>
     \/ /\ pending[a] = "no" /\ Dormant(a) /\ ~MustDefer(a)
        /\ StartsRun(a)
        /\ UNCHANGED <<working, pending, deferred>>
  /\ UNCHANGED <<inFlight, rounds, handOns, granted, down, events>>

\* #startDeferredBoot
Boot(a) ==
  /\ At(a, "boot", "queued")
  /\ \/ /\ (down \/ ~Unresolved(a))
        /\ pending' = [pending EXCEPT ![a] = IF down THEN @ ELSE "no"]
        /\ BootEnds(a, FALSE) /\ lane' = Leaves(a)
        /\ granted' = granted \ (IF working[a] THEN {} ELSE {a})
        /\ UNCHANGED <<run, working, check>>
     \/ /\ ~down /\ Unresolved(a) /\ run[a] = "live"
        /\ Dispatched(a) /\ BootEnds(a, FALSE) /\ lane' = Leaves(a)
        /\ UNCHANGED <<run, granted>>
     \/ /\ ~down /\ Unresolved(a) /\ Dormant(a)
        /\ StartsRun(a)
        /\ UNCHANGED <<working, pending, inFlight, rounds, handOns, granted>>
  /\ UNCHANGED <<deferred, down, events>>

\* A spawn starts its child, a human or a Resume starts one that is dormant.
Start(a, kind) ==
  /\ At(a, kind, "queued") /\ kind \in {"spawn", "human"}
  /\ IF down \/ ~Dormant(a) THEN lane' = Leaves(a) /\ UNCHANGED <<run, check>> ELSE StartsRun(a)
  /\ UNCHANGED <<working, pending, deferred, inFlight, rounds, handOns, granted, down, events>>

\* discardInLane
Discard(a) ==
  /\ At(a, "discard", "queued")
  /\ lane' = Leaves(a) /\ pending' = [pending EXCEPT ![a] = "no"]
  /\ deferred' = SelectSeq(deferred, LAMBDA b : b # a)
  /\ UNCHANGED <<run, working, inFlight, rounds, handOns, check, granted, down, events>>

Starting(a) == lane[a] # <<>> /\ Head(lane[a]).step = "starting"

Started(a) ==
  /\ Starting(a)
  /\ run' = [run EXCEPT ![a] = "live"] /\ Notify
  /\ CASE Head(lane[a]).kind \in {"admit", "boot"} ->
            lane' = Moves(a, "started") /\ UNCHANGED working
       [] Head(lane[a]).kind = "spawn" ->
            lane' = [lane EXCEPT ![a] = Append(Tail(@), Operation("admit"))] /\ UNCHANGED working
       [] OTHER -> lane' = Leaves(a) /\ working' = [working EXCEPT ![a] = TRUE]
  /\ UNCHANGED <<pending, deferred, inFlight, rounds, handOns, granted, down, events>>

\* A startup that outlived its bound is tried once more, unless it was a spawn's own.
TimesOut(a) ==
  /\ Spend /\ Starting(a) /\ Head(lane[a]).kind \in {"admit", "boot"}
  /\ Head(lane[a]).attempt < MaxAttempts
  /\ lane' = [lane EXCEPT ![a][1].attempt = @ + 1] /\ Notify
  /\ UNCHANGED <<run, working, pending, deferred, inFlight, rounds, handOns, granted, down>>

\* The Delivery fails visibly, which is an activity change: a boot's own Deliveries are
\* dropped, those of a child that somebody else started stay.
Fails(a, throws) ==
  /\ Spend /\ Starting(a)
  /\ run' = [run EXCEPT ![a] = "dormant"] /\ lane' = Leaves(a) /\ Notify
  /\ IF Head(lane[a]).kind = "boot"
     THEN BootEnds(a, throws) /\ pending' = [pending EXCEPT ![a] = "no"] /\ granted' = granted \ {a}
     ELSE /\ pending' = [pending EXCEPT ![a] = IF @ = "waiting" THEN "failed" ELSE @]
          /\ UNCHANGED <<inFlight, rounds, handOns, granted>>
  /\ UNCHANGED <<working, deferred, down>>

\* The Run is live and the drain dispatches, unless the Delivery was withdrawn.
Drains(a) ==
  /\ lane[a] # <<>> /\ Head(lane[a]).step = "started"
  /\ lane' = Leaves(a)
  /\ IF Head(lane[a]).kind = "admit"
     THEN Dispatched(a) /\ UNCHANGED <<inFlight, rounds, handOns, granted>>
     ELSE /\ BootEnds(a, FALSE)
          /\ IF Unresolved(a)
             THEN Dispatched(a) /\ UNCHANGED granted
             ELSE /\ pending' = [pending EXCEPT ![a] = "no"] /\ granted' = granted \ {a}
                  /\ UNCHANGED <<working, check>>
  /\ UNCHANGED <<run, deferred, down, events>>

-----------------------------------------------------------------------------
(* The rest of the Workflow. *)

\* A Run settles, suspends itself or begins a Wait; a settlement drains what waits.
StopsWork(a) ==
  /\ run[a] = "live" /\ working[a] /\ Notify
  /\ IF Unresolved(a) THEN pending' = [pending EXCEPT ![a] = "no"] /\ UNCHANGED working
                               ELSE working' = [working EXCEPT ![a] = FALSE] /\ UNCHANGED pending
  /\ granted' = granted \ {a}
  /\ UNCHANGED <<run, lane, deferred, inFlight, rounds, handOns, down, events>>

Resumes(a) ==
  /\ Spend /\ run[a] = "live" /\ ~working[a] /\ working' = [working EXCEPT ![a] = TRUE] /\ Notify
  /\ UNCHANGED <<run, pending, lane, deferred, inFlight, rounds, handOns, granted, down>>

EndsRun(a) ==
  /\ run[a] = "live" /\ ~working[a] /\ (lane[a] # <<>> => Head(lane[a]).step = "queued")
  /\ run' = [run EXCEPT ![a] = "dormant"] /\ Notify
  /\ UNCHANGED <<working, pending, lane, deferred, inFlight, rounds, handOns, granted, down, events>>

Spawn(a) ==
  /\ Spend /\ Dormant(a) /\ pending[a] = "no" /\ lane[a] = <<>>
  /\ Queues(a, IF MayBootNow THEN "spawn" ELSE "admit")
  /\ UNCHANGED <<run, working, pending, deferred, inFlight, rounds, handOns, check, granted, down>>

Ask(a, kind) ==
  /\ Spend /\ Len(lane[a]) < 2 /\ Queues(a, kind)
  /\ UNCHANGED <<run, working, pending, deferred, inFlight, rounds, handOns, check, granted, down>>

\* Proof or a Cancellation: nobody is told.
Withdraw(a) ==
  /\ Spend /\ Unresolved(a) /\ pending' = [pending EXCEPT ![a] = "resolved"]
  /\ UNCHANGED <<run, working, lane, deferred, inFlight, rounds, handOns, check, granted, down>>

ShutDown ==
  /\ Spend /\ ~down /\ down' = TRUE
  /\ UNCHANGED <<run, working, pending, lane, deferred, inFlight, rounds, handOns, check, granted>>

-----------------------------------------------------------------------------
Init ==
  /\ run = [a \in Agents |-> "dormant"] /\ working = [a \in Agents |-> FALSE]
  /\ pending = [a \in Agents |-> "no"] /\ lane = [a \in Agents |-> <<>>]
  /\ deferred = <<>> /\ inFlight = {} /\ rounds = {} /\ handOns = 0 /\ check = FALSE
  /\ granted = {} /\ down = FALSE /\ events = 0

InLane(a) == Admit(a) \/ Boot(a) \/ Discard(a) \/ Started(a) \/ Drains(a)
               \/ \E kind \in {"spawn", "human"} : Start(a, kind)

Next ==
  \/ Check \/ HandOn \/ ShutDown
  \/ \E a \in Agents :
       \/ InLane(a) \/ StopsWork(a) \/ Resumes(a) \/ EndsRun(a)
       \/ TimesOut(a) \/ \E throws \in BOOLEAN : Fails(a, throws)
       \/ Spawn(a) \/ Withdraw(a) \/ \E kind \in {"admit", "human", "discard"} : Ask(a, kind)

\* Microtasks and lanes go on, a startup settles within its bound, and no Run works for good.
Fairness ==
  /\ WF_vars(Check) /\ WF_vars(HandOn)
  /\ \A a \in Agents : WF_vars(InLane(a)) /\ WF_vars(StopsWork(a))

Spec == Init /\ [][Next]_vars
FairSpec == Spec /\ Fairness
-----------------------------------------------------------------------------
TypeOK ==
  /\ inFlight \subseteq Agents /\ granted \subseteq Agents
  /\ \A a \in Agents : /\ pending[a] \in {"no", "waiting", "failed", "resolved"}
                       /\ working[a] => run[a] = "live"
  /\ \A boots \in rounds : boots \subseteq inFlight

\* The children that work because a deferred boot was started never exceed the bound: no
\* slot is handed out twice, not even between a boot and its dispatch, when its Run is
\* settled and does not count.
SlotsAreHandedOutOnce == Cardinality(granted) <= MaxRuns

\* A child whose boot is deferred is booted, or its Delivery fails or is resolved: every
\* slot that comes free reaches whoever waits.
DeferredIsServed == \A a \in Agents : pending[a] = "waiting" ~> pending[a] # "waiting" \/ down
=============================================================================
