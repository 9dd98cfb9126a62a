----------------------------- MODULE SerialLane -----------------------------
(***************************************************************************)
(* The lane that serializes the operations of one Agent                    *)
(* (src/src/runtime/serial-lane.ts).  An operation acquires the lane,      *)
(* may give its occupancy up early while it is still settling, and gives   *)
(* up what it still has when it settles.  Waiters are served in order.     *)
(*                                                                         *)
(* An operation is one call of run().  Promise continuations run between   *)
(* steps, so being granted the lane and starting to run are two steps.     *)
(***************************************************************************)
EXTENDS Naturals, Sequences

CONSTANTS Op,         \* the calls of run() of a behaviour
          NoOp,       \* "undefined"
          Releasers,  \* the operations that call releaseCurrent()
          Needs       \* Needs[o]: the operations o waits for before it settles

ASSUME NoOpAssumption == NoOp \notin Op
ASSUME ReleasersAssumption == Releasers \subseteq Op
ASSUME NeedsAssumption == Needs \in [Op -> SUBSET Op]

VARIABLES phase,             \* where each call of run() stands
          occupied,          \* #occupied
          waiters,           \* #waiters, oldest first
          releaseOccupancy,  \* #releaseOccupancy: the closure, named by its operation
          previousRelease,   \* the local previousRelease of each operation
          refused,           \* operations whose releaseCurrent() returned false
          idleWaiting        \* a caller awaits idle()

vars == <<phase, occupied, waiters, releaseOccupancy, previousRelease, refused, idleWaiting>>

Phase == {"new", "waiting", "granted", "holding", "released", "settled"}

\* The operations that occupy the lane: granted it, and not released since.
Occupants == {o \in Op : phase[o] \in {"granted", "holding"}}

\* The operations whose closure has not run yet.
Holders == {o \in Op : phase[o] = "holding"}

\* #outstanding: calls of run() that have not settled.
Outstanding == {o \in Op : phase[o] \notin {"new", "settled"}}

TypeOK == /\ phase \in [Op -> Phase]
          /\ occupied \in BOOLEAN
          /\ waiters \in Seq(Op)
          /\ releaseOccupancy \in Op \cup {NoOp}
          /\ previousRelease \in [Op -> Op \cup {NoOp}]
          /\ refused \in SUBSET Op
          /\ idleWaiting \in BOOLEAN

Init == /\ phase = [o \in Op |-> "new"]
        /\ occupied = FALSE
        /\ waiters = <<>>
        /\ releaseOccupancy = NoOp
        /\ previousRelease = [o \in Op |-> NoOp]
        /\ refused = {}
        /\ idleWaiting = FALSE

-----------------------------------------------------------------------------
\* Mutant of FreeOccupancy: the lane is marked free while it is handed on.
HandsOnUnmarked(o, ph) ==
  /\ occupied' = FALSE
  /\ phase' = [p \in Op |-> IF p = o THEN ph
                           ELSE IF waiters # <<>> /\ p = Head(waiters) THEN "granted" ELSE phase[p]]
  /\ waiters' = IF waiters = <<>> THEN waiters ELSE Tail(waiters)

\* #freeOccupancy, where o becomes ph: the lane passes to the oldest waiter
\* without becoming free in between.
FreeOccupancy(o, ph) ==
  \/ /\ waiters = <<>>
     /\ occupied' = FALSE
     /\ phase' = [phase EXCEPT ![o] = ph]
     /\ UNCHANGED waiters
  \/ /\ waiters # <<>>
     /\ occupied' = TRUE
     /\ phase' = [phase EXCEPT ![o] = ph, ![Head(waiters)] = "granted"]
     /\ waiters' = Tail(waiters)

\* run: acquire the free lane, or queue.
Run(o) ==
  /\ phase[o] = "new"
  /\ \/ /\ ~occupied
        /\ occupied' = TRUE
        /\ phase' = [phase EXCEPT ![o] = "granted"]
        /\ UNCHANGED waiters
     \/ /\ occupied
        /\ phase' = [phase EXCEPT ![o] = "waiting"]
        /\ waiters' = Append(waiters, o)
        /\ UNCHANGED occupied
  /\ UNCHANGED <<releaseOccupancy, previousRelease, refused, idleWaiting>>

\* The continuation after #acquire: install this operation's closure, start it.
Begin(o) ==
  /\ phase[o] = "granted"
  /\ phase' = [phase EXCEPT ![o] = "holding"]
  /\ previousRelease' = [previousRelease EXCEPT ![o] = releaseOccupancy]
  /\ releaseOccupancy' = o
  /\ UNCHANGED <<occupied, waiters, refused, idleWaiting>>

\* Mutant of ReleaseCurrent: nothing is ever released early.
ReleasesNothing(o) ==
  /\ o \in Releasers
  /\ phase[o] = "holding"
  /\ o \notin refused
  /\ refused' = refused \cup {o}
  /\ UNCHANGED <<occupied, waiters, phase, releaseOccupancy, previousRelease, idleWaiting>>

\* releaseCurrent, called from inside the operation o that holds the lane.  It
\* calls whatever closure is installed; a closure that already ran returns false.
ReleaseCurrent(o) ==
  /\ o \in Releasers
  /\ phase[o] = "holding"
  /\ o \notin refused
  /\ \/ /\ releaseOccupancy \in Holders
        /\ FreeOccupancy(releaseOccupancy, "released")
        /\ UNCHANGED refused
     \/ /\ releaseOccupancy \notin Holders
        /\ refused' = refused \cup {o}
        /\ UNCHANGED <<occupied, waiters, phase>>
  /\ UNCHANGED <<releaseOccupancy, previousRelease, idleWaiting>>

\* Whether idle() is still awaited once o has settled: the last outstanding call
\* resolves every caller.
StillIdle(o) == idleWaiting /\ Outstanding # {o}

\* The local released of the closure: o has not given its occupancy up.
StillOccupies(o) == phase[o] = "holding"

\* The operation settles: its finally frees what it still occupies and puts the
\* closure it found back.
Settle(o) ==
  /\ phase[o] \in {"holding", "released"}
  /\ \A n \in Needs[o] : phase[n] = "settled"
  /\ \/ /\ StillOccupies(o)
        /\ FreeOccupancy(o, "settled")
     \/ /\ ~StillOccupies(o)
        /\ phase' = [phase EXCEPT ![o] = "settled"]
        /\ UNCHANGED <<occupied, waiters>>
  /\ releaseOccupancy' = previousRelease[o]
  /\ idleWaiting' = StillIdle(o)
  /\ UNCHANGED <<previousRelease, refused>>

\* idle: resolves at once when nothing is outstanding, or joins the resolvers.
Idle ==
  /\ Outstanding # {}
  /\ ~idleWaiting
  /\ idleWaiting' = TRUE
  /\ UNCHANGED <<phase, occupied, waiters, releaseOccupancy, previousRelease, refused>>

Next == \/ \E o \in Op : Run(o) \/ Begin(o) \/ ReleaseCurrent(o) \/ Settle(o)
        \/ Idle

\* Continuations of resolved promises run, and an operation settles once what it
\* waits for did.  The one caller of releaseCurrent, the passive preparation of
\* AgentRuntimeSupervisor, always calls it before it awaits its readiness, and
\* the operation that readiness waits for is eventually called.
Fairness ==
  \A o \in Op : /\ WF_vars(Begin(o))
                /\ WF_vars(Settle(o))
                /\ WF_vars(ReleaseCurrent(o))
                /\ \A n \in Needs[o] : WF_vars(Run(n))

Spec == Init /\ [][Next]_vars
FairSpec == Spec /\ Fairness

-----------------------------------------------------------------------------
\* At most one operation occupies the lane, and #occupied says whether one does:
\* the lane never hands out two occupancies, and never stays occupied by nobody.
OneOccupant ==
  /\ \A a, b \in Occupants : a = b
  /\ occupied <=> Occupants # {}

\* No lost wake-up: exactly the waiting operations are queued, once each, and they
\* queue only behind an occupant that will hand the lane on.
WaitersAreServed ==
  /\ \A i \in 1..Len(waiters) : phase[waiters[i]] = "waiting"
  /\ \A o \in Op : phase[o] = "waiting" => \E i \in 1..Len(waiters) : waiters[i] = o
  /\ \A i, j \in 1..Len(waiters) : waiters[i] = waiters[j] => i = j
  /\ waiters # <<>> => occupied

\* The installed closure can free the lane only on behalf of its occupant: any
\* other closure that is still installed, or that a running operation will put
\* back, has already run and is inert.
ClosureIsOwnOrInert ==
  /\ releaseOccupancy # NoOp =>
       phase[releaseOccupancy] \in {"holding", "released", "settled"}
  /\ \A o \in Op : previousRelease[o] # NoOp =>
       phase[previousRelease[o]] \in {"released", "settled"}

\* Order: an operation is not granted the lane while one queued before it waits.
ServedInOrder ==
  [][\A i, j \in 1..Len(waiters) :
       (i < j /\ phase'[waiters[j]] # "waiting") => phase'[waiters[i]] # "waiting"]_vars

\* Every call of run() settles, although some operations wait for operations that
\* are queued behind them.
EveryOperationSettles == \A o \in Op : phase[o] = "waiting" ~> phase[o] = "settled"

\* A caller of idle() is still waiting only while some call is outstanding: the last
\* call to settle resolves every caller, whichever call that is.
IdleIsNotForgotten == idleWaiting => Outstanding # {}
=============================================================================
