--------------------------- MODULE MCLanes_proofs ---------------------------
(***************************************************************************)
(* What serialises the work of an Agent, proved for any set of operations  *)
(* of its lane (SerialLane) and any number of inputs of its child          *)
(* (TurnAdmission).                                                        *)
(*                                                                         *)
(* Lane: the type invariant, OneOccupant, WaitersAreServed and             *)
(* ClosureIsOwnOrInert need one another: that the lane has one occupant    *)
(* rests on the installed closure never freeing it for somebody else,      *)
(* which rests on there being one occupant when a closure is installed.    *)
(* Their conjunction is inductive.                                         *)
(*                                                                         *)
(* Turns: the answer to a dispatch is the truth and stays it.  An answer   *)
(* of "uncommitted" is given when the native Run settles, and could only   *)
(* turn false if the input were still in Pi's queue, which a Run that is   *)
(* aborted keeps.  So the heart of the invariant is that an aborted Run    *)
(* has nothing queued: a cancellation clears the queue itself, and when    *)
(* the interrupt's turn comes, every input that entered the queue after    *)
(* the Owner cleared it has been cancelled in a turn of its own.           *)
(***************************************************************************)
EXTENDS SerialLane, TurnAdmission, TLAPS

-----------------------------------------------------------------------------
(* The lane. *)


\* The inductive invariant.
IInv == TypeOK /\ OneOccupant /\ WaitersAreServed /\ ClosureIsOwnOrInert

\* The positions of a queue that lost its head are the later ones, shifted.
LEMMA TailShifts ==
  ASSUME NEW S, NEW q \in Seq(S), q # <<>>
  PROVE  /\ Head(q) = q[1] /\ Head(q) \in S /\ Len(q) \in Nat \ {0}
         /\ Tail(q) \in Seq(S) /\ Len(Tail(q)) = Len(q) - 1
         /\ \A i \in 1..Len(Tail(q)) : Tail(q)[i] = q[i + 1] /\ i + 1 \in 1..Len(q)
  OBVIOUS

\* Freeing the lane on behalf of its occupant, which is then released or settled,
\* keeps everything about the occupants and the waiters.
LEMMA FreeOccupancyKeeps ==
  ASSUME TypeOK, OneOccupant, WaitersAreServed,
         NEW o \in Op, phase[o] = "holding",
         NEW ph \in {"released", "settled"},
         FreeOccupancy(o, ph)
  PROVE  /\ phase' \in [Op -> Phase] /\ occupied' \in BOOLEAN /\ waiters' \in Seq(Op)
         /\ OneOccupant'
         /\ WaitersAreServed'
         /\ phase'[o] = ph
         /\ \A p \in Op \ {o} : phase'[p] # phase[p] => phase[p] = "waiting"
<1> USE DEF TypeOK, OneOccupant, WaitersAreServed, Occupants, Phase
<1>1. \A p \in Op : phase[p] \in {"granted", "holding"} => p = o
  OBVIOUS
<1>2. CASE waiters = <<>>
  <2>1. /\ occupied' = FALSE /\ waiters' = waiters
        /\ phase' = [phase EXCEPT ![o] = ph]
    BY <1>2 DEF FreeOccupancy
  <2>2. phase' \in [Op -> Phase] /\ phase'[o] = ph /\ \A p \in Op \ {o} : phase'[p] = phase[p]
    BY <2>1
  <2>3. OneOccupant'
    BY <1>1, <2>1, <2>2
  <2>4. \A p \in Op : phase[p] # "waiting"
    BY <1>2
  <2>5. WaitersAreServed'
    BY <1>2, <2>1, <2>2, <2>4
  <2> QED BY ZenonT(60), <2>1, <2>2, <2>3, <2>5
<1>3. CASE waiters # <<>>
  <2> DEFINE h == Head(waiters)
  <2>1. /\ h = waiters[1] /\ h \in Op /\ phase[h] = "waiting" /\ h # o
        /\ waiters' = Tail(waiters) /\ occupied'
        /\ phase' = [phase EXCEPT ![o] = ph, ![h] = "granted"]
        /\ Len(waiters) \in Nat \ {0}
    BY <1>3, TailShifts DEF FreeOccupancy
  <2>2. /\ Tail(waiters) \in Seq(Op) /\ Len(Tail(waiters)) = Len(waiters) - 1
        /\ \A i \in 1..Len(Tail(waiters)) :
             Tail(waiters)[i] = waiters[i + 1] /\ i + 1 \in 1..Len(waiters)
    BY <1>3, TailShifts
  <2> HIDE DEF h
  <2>3. /\ phase'[o] = ph /\ phase'[h] = "granted"
        /\ \A p \in Op \ {o, h} : phase'[p] = phase[p]
        /\ phase' \in [Op -> Phase]
    BY <2>1
  <2>4. OneOccupant'
    BY <1>1, <2>1, <2>3
  <2>5. \A i \in 1..Len(waiters') : waiters'[i] = waiters[i + 1] /\ waiters'[i] \notin {o, h}
    <3> TAKE i \in 1..Len(waiters')
    <3>1. waiters'[i] = waiters[i + 1] /\ i + 1 \in 1..Len(waiters) /\ 1 \in 1..Len(waiters)
          /\ i + 1 # 1
      BY <2>1, <2>2
    <3>2. waiters[i + 1] # h
      BY <3>1, <2>1
    <3>3. waiters[i + 1] # o
      BY <3>1
    <3> QED BY <3>1, <3>2, <3>3
  <2>6. \A i \in 1..Len(waiters') : phase'[waiters'[i]] = "waiting"
    BY <2>1, <2>2, <2>3, <2>5
  <2>7. \A p \in Op : phase'[p] = "waiting" => \E i \in 1..Len(waiters') : waiters'[i] = p
    <3> SUFFICES ASSUME NEW p \in Op, phase'[p] = "waiting"
                 PROVE  \E i \in 1..Len(waiters') : waiters'[i] = p
      OBVIOUS
    <3>1. p \notin {o, h} /\ phase[p] = "waiting"
      BY <2>3
    <3>2. PICK j \in 1..Len(waiters) : waiters[j] = p
      BY <3>1
    <3>3. j # 1
      BY <2>1, <3>1, <3>2
    <3>4. j - 1 \in 1..Len(waiters') /\ waiters'[j - 1] = waiters[(j - 1) + 1]
      BY <2>1, <2>2, <3>3
    <3> QED BY <3>2, <3>4
  <2>8. \A i, j \in 1..Len(waiters') : waiters'[i] = waiters'[j] => i = j
    <3> TAKE i, j \in 1..Len(waiters')
    <3>1. i + 1 \in 1..Len(waiters) /\ j + 1 \in 1..Len(waiters)
      BY <2>1, <2>2
    <3>2. (i + 1 = j + 1) => i = j
      BY <2>1
    <3> QED BY <2>5, <3>1, <3>2
  <2>9. WaitersAreServed'
    BY <2>1, <2>6, <2>7, <2>8
  <2> QED BY SMTT(30), <2>1, <2>2, <2>3, <2>4, <2>9
<1> QED BY <1>2, <1>3

\* Initially the lane is free and nobody waits.
LEMMA InitEstablishes == Init => IInv
<1> SUFFICES ASSUME Init PROVE IInv
  OBVIOUS
<1> USE DEF Init
<1>1. TypeOK
  <2>1. <<>> \in Seq(Op)
    OBVIOUS
  <2>2. phase \in [Op -> Phase] /\ previousRelease \in [Op -> Op \cup {NoOp}]
    BY DEF Phase
  <2> QED BY <2>1, <2>2 DEF TypeOK
<1>2. OneOccupant
  BY DEF OneOccupant, Occupants
<1>3. WaitersAreServed
  BY DEF WaitersAreServed
<1>4. ClosureIsOwnOrInert
  BY DEF ClosureIsOwnOrInert
<1> QED BY <1>1, <1>2, <1>3, <1>4 DEF IInv

\* A new call takes the free lane, or queues behind its occupant.
LEMMA RunKeeps == ASSUME IInv, NEW o \in Op, Run(o) PROVE IInv'
<1> USE DEF IInv, TypeOK, Phase, Run
<1>1. TypeOK'
  <2>1. Append(waiters, o) \in Seq(Op)
    OBVIOUS
  <2>2. waiters' \in Seq(Op) /\ occupied' \in BOOLEAN
    BY <2>1
  <2>3. phase' \in [Op -> Phase]
    OBVIOUS
  <2> QED BY <2>2, <2>3
<1>2. OneOccupant'
  BY DEF OneOccupant, Occupants
<1>3. WaitersAreServed'
  <2>1. CASE ~occupied
    BY <2>1 DEF WaitersAreServed
  <2>2. CASE occupied
    <3>1. /\ Len(waiters') = Len(waiters) + 1 /\ waiters'[Len(waiters) + 1] = o
          /\ \A i \in 1..Len(waiters) : waiters'[i] = waiters[i] /\ waiters[i] # o
          /\ phase' = [phase EXCEPT ![o] = "waiting"] /\ occupied'
      BY SMTT(30), <2>2 DEF WaitersAreServed
    <3>2. \A i \in 1..Len(waiters') : i \in 1..Len(waiters) \/ i = Len(waiters) + 1
      BY <3>1
    <3>3. \A i \in 1..Len(waiters') : phase'[waiters'[i]] = "waiting"
      BY <3>1, <3>2 DEF WaitersAreServed
    <3>4. \A p \in Op : phase'[p] = "waiting" => \E i \in 1..Len(waiters') : waiters'[i] = p
      <4> SUFFICES ASSUME NEW p \in Op, phase'[p] = "waiting"
                   PROVE  \E i \in 1..Len(waiters') : waiters'[i] = p
        OBVIOUS
      <4>1. CASE p = o
        BY <3>1, <4>1
      <4>2. CASE p # o
        <5>1. PICK i \in 1..Len(waiters) : waiters[i] = p
          BY <3>1, <4>2 DEF WaitersAreServed
        <5>2. i \in 1..Len(waiters') /\ waiters'[i] = p
          BY <3>1, <5>1
        <5> QED BY <5>2
      <4> QED BY <4>1, <4>2
    <3>5. \A i, j \in 1..Len(waiters') : waiters'[i] = waiters'[j] => i = j
      BY <3>1, <3>2 DEF WaitersAreServed
    <3>6. waiters' # <<>> => occupied'
      BY <3>1
    <3> QED BY <3>3, <3>4, <3>5, <3>6 DEF WaitersAreServed
  <2> QED BY <2>1, <2>2
<1>4. ClosureIsOwnOrInert'
  BY DEF ClosureIsOwnOrInert
<1> QED BY <1>1, <1>2, <1>3, <1>4

\* The closure that an operation finds installed when it begins is inert: its owner
\* would otherwise be a second occupant.
LEMMA BeginKeeps == ASSUME IInv, NEW o \in Op, Begin(o) PROVE IInv'
<1> USE DEF IInv, TypeOK, Phase, Begin
<1>1. TypeOK'
  OBVIOUS
<1>2. OneOccupant'
  BY DEF OneOccupant, Occupants
<1>3. WaitersAreServed'
  BY DEF WaitersAreServed
<1>4. releaseOccupancy # NoOp => phase[releaseOccupancy] \in {"released", "settled"}
  BY DEF OneOccupant, ClosureIsOwnOrInert, Occupants
<1>5. ClosureIsOwnOrInert'
  BY <1>4, NoOpAssumption DEF ClosureIsOwnOrInert
<1> QED BY <1>1, <1>2, <1>3, <1>5

\* An early release frees the lane for its occupant, or does nothing.
LEMMA ReleaseCurrentKeeps == ASSUME IInv, NEW o \in Op, ReleaseCurrent(o) PROVE IInv'
<1> USE DEF IInv, ReleaseCurrent
<1>1. CASE releaseOccupancy \in Holders /\ FreeOccupancy(releaseOccupancy, "released")
  <2>1. releaseOccupancy \in Op /\ phase[releaseOccupancy] = "holding"
    BY <1>1 DEF Holders
  <2>2. /\ phase' \in [Op -> Phase] /\ occupied' \in BOOLEAN /\ waiters' \in Seq(Op)
        /\ OneOccupant' /\ WaitersAreServed'
        /\ phase'[releaseOccupancy] = "released"
        /\ \A p \in Op \ {releaseOccupancy} : phase'[p] # phase[p] => phase[p] = "waiting"
    BY <1>1, <2>1, FreeOccupancyKeeps
  <2>3. TypeOK'
    BY <1>1, <2>1, <2>2 DEF TypeOK
  <2>4. ClosureIsOwnOrInert'
    BY <2>1, <2>2 DEF ClosureIsOwnOrInert, TypeOK
  <2> QED BY <2>2, <2>3, <2>4
<1>2. CASE releaseOccupancy \notin Holders /\ UNCHANGED <<occupied, waiters, phase>>
  BY <1>2 DEF TypeOK, OneOccupant, WaitersAreServed, ClosureIsOwnOrInert, Occupants
<1> QED BY <1>1, <1>2

\* A settling operation frees the lane only if it still occupies it, and the closure it
\* puts back is inert.
LEMMA SettleKeeps == ASSUME IInv, NEW o \in Op, Settle(o) PROVE IInv'
<1> USE DEF IInv, Settle
<1>1. CASE phase[o] = "holding" /\ FreeOccupancy(o, "settled")
  <2>1. /\ phase' \in [Op -> Phase] /\ occupied' \in BOOLEAN /\ waiters' \in Seq(Op)
        /\ OneOccupant' /\ WaitersAreServed'
        /\ phase'[o] = "settled"
        /\ \A p \in Op \ {o} : phase'[p] # phase[p] => phase[p] = "waiting"
    BY <1>1, FreeOccupancyKeeps
  <2>2. TypeOK'
    BY <2>1 DEF TypeOK, StillIdle
  <2>3. ClosureIsOwnOrInert'
    BY <2>1 DEF ClosureIsOwnOrInert, TypeOK
  <2> QED BY <2>1, <2>2, <2>3
<1>2. CASE /\ phase[o] = "released"
           /\ phase' = [phase EXCEPT ![o] = "settled"]
           /\ UNCHANGED <<occupied, waiters>>
  <2>1. TypeOK'
    BY <1>2 DEF TypeOK, Phase, StillIdle
  <2>2. OneOccupant'
    BY <1>2 DEF TypeOK, OneOccupant, Occupants
  <2>3. WaitersAreServed'
    BY <1>2 DEF TypeOK, WaitersAreServed
  <2>4. ClosureIsOwnOrInert'
    BY <1>2 DEF TypeOK, ClosureIsOwnOrInert
  <2> QED BY <2>1, <2>2, <2>3, <2>4
<1> QED BY <1>1, <1>2 DEF StillOccupies

\* Every step keeps the inductive invariant.
LEMMA NextKeeps == IInv /\ [Next]_vars => IInv'
<1> SUFFICES ASSUME IInv, [Next]_vars PROVE IInv'
  OBVIOUS
<1>1. ASSUME NEW o \in Op, Run(o) PROVE IInv'
  BY <1>1, RunKeeps
<1>2. ASSUME NEW o \in Op, Begin(o) PROVE IInv'
  BY <1>2, BeginKeeps
<1>3. ASSUME NEW o \in Op, ReleaseCurrent(o) PROVE IInv'
  BY <1>3, ReleaseCurrentKeeps
<1>4. ASSUME NEW o \in Op, Settle(o) PROVE IInv'
  BY <1>4, SettleKeeps
<1>5. CASE Idle
  BY <1>5 DEF Idle, IInv, TypeOK, OneOccupant, WaitersAreServed, ClosureIsOwnOrInert, Occupants
<1>6. CASE UNCHANGED vars
  BY <1>6 DEF vars, IInv, TypeOK, OneOccupant, WaitersAreServed, ClosureIsOwnOrInert, Occupants
<1> QED BY <1>1, <1>2, <1>3, <1>4, <1>5, <1>6 DEF Next

\* The inductive invariant holds in every reachable state.
THEOREM Invariance == Spec => []IInv
<1>1. Init => IInv
  BY InitEstablishes
<1>2. IInv /\ [Next]_vars => IInv'
  BY NextKeeps
<1> QED BY <1>1, <1>2, PTL DEF Spec

\* The variables keep their types, for any set of operations.
THEOREM TypeCorrect == Spec => []TypeOK
<1>1. IInv => TypeOK
  BY DEF IInv
<1> QED BY <1>1, Invariance, PTL

\* The lane serializes: at most one operation occupies it, and it is never marked
\* occupied by nobody, whatever operations release it early and whenever they settle.
THEOREM MutualExclusion == Spec => []OneOccupant
<1>1. IInv => OneOccupant
  BY DEF IInv
<1> QED BY <1>1, Invariance, PTL

\* No wake-up is lost and none is doubled: the queue holds exactly the waiting
\* operations, and an occupant that will hand the lane on.
THEOREM NoLostWakeup == Spec => []WaitersAreServed
<1>1. IInv => WaitersAreServed
  BY DEF IInv
<1> QED BY <1>1, Invariance, PTL

\* releaseCurrent() can never free the lane of an operation other than its occupant.
THEOREM ClosuresAreInert == Spec => []ClosureIsOwnOrInert
<1>1. IInv => ClosureIsOwnOrInert
  BY DEF IInv
<1> QED BY <1>1, Invariance, PTL

\* An operation leaves the queue only from its head.
LEMMA OnlyTheHeadIsGranted ==
  ASSUME IInv, [Next]_vars, NEW j \in 2..Len(waiters)
  PROVE  phase'[waiters[j]] = "waiting"
<1>1. j \in 1..Len(waiters) /\ 1 \in 1..Len(waiters) /\ j # 1 /\ waiters # <<>>
  BY DEF IInv, TypeOK
<1>2. /\ waiters[j] \in Op /\ phase[waiters[j]] = "waiting" /\ waiters[j] # Head(waiters)
      /\ phase \in [Op -> Phase]
  BY <1>1, TailShifts DEF IInv, TypeOK, WaitersAreServed
<1>3. ASSUME NEW o \in Op, NEW ph, phase[o] # "waiting", FreeOccupancy(o, ph)
      PROVE  phase'[waiters[j]] = "waiting"
  BY <1>1, <1>2, <1>3 DEF FreeOccupancy
<1>4. ASSUME NEW o \in Op, Run(o) PROVE phase'[waiters[j]] = "waiting"
  BY <1>2, <1>4 DEF Run
<1>5. ASSUME NEW o \in Op, Begin(o) PROVE phase'[waiters[j]] = "waiting"
  BY <1>2, <1>5 DEF Begin
<1>6. ASSUME NEW o \in Op, ReleaseCurrent(o) PROVE phase'[waiters[j]] = "waiting"
  BY <1>2, <1>3, <1>6 DEF ReleaseCurrent, Holders
<1>7. ASSUME NEW o \in Op, Settle(o) PROVE phase'[waiters[j]] = "waiting"
  BY <1>2, <1>3, <1>7 DEF Settle, StillOccupies
<1>8. CASE Idle
  BY <1>2, <1>8 DEF Idle
<1>9. CASE UNCHANGED vars
  BY <1>2, <1>9 DEF vars
<1> QED BY <1>4, <1>5, <1>6, <1>7, <1>8, <1>9 DEF Next

\* Operations are granted the lane in the order in which they queued.
THEOREM FirstComeFirstServed == Spec => ServedInOrder
<1> DEFINE Order == \A i, j \in 1..Len(waiters) :
             (i < j /\ phase'[waiters[j]] # "waiting") => phase'[waiters[i]] # "waiting"
<1>1. IInv /\ [Next]_vars => [Order]_vars
  <2> SUFFICES ASSUME IInv, [Next]_vars,
                      NEW i \in 1..Len(waiters), NEW j \in 1..Len(waiters), i < j
               PROVE  phase'[waiters[j]] = "waiting"
    OBVIOUS
  <2>1. j \in 2..Len(waiters)
    BY DEF IInv, TypeOK
  <2> QED BY <2>1, OnlyTheHeadIsGranted
<1>2. Spec => []IInv
  BY Invariance
<1> QED BY <1>1, <1>2, PTL DEF Spec, ServedInOrder

\* idle() resolves with the last outstanding call: nobody who awaits it is left behind.
THEOREM IdleCallersWake == Spec => []IdleIsNotForgotten
<1> DEFINE J == IInv /\ IdleIsNotForgotten
<1>1. Init => J
  BY InitEstablishes DEF Init, IdleIsNotForgotten
<1>2. J /\ [Next]_vars => J'
  <2> SUFFICES ASSUME J, [Next]_vars PROVE IdleIsNotForgotten'
    BY NextKeeps
  <2> USE DEF IdleIsNotForgotten, Outstanding
  <2>1. ASSUME NEW o \in Op, NEW ph \in {"released", "settled"}, phase[o] = "holding",
               FreeOccupancy(o, ph)
        PROVE  \A p \in Op \ {o} : p \in Outstanding => p \in Outstanding'
    <3>1. CASE waiters = <<>>
      BY <2>1, <3>1 DEF FreeOccupancy, IInv, TypeOK, Phase
    <3>2. CASE waiters # <<>>
      BY <2>1, <3>2, TailShifts DEF FreeOccupancy, IInv, TypeOK, Phase
    <3> QED BY <3>1, <3>2
  <2>2. ASSUME NEW o \in Op, Run(o) \/ Begin(o) PROVE IdleIsNotForgotten'
    BY <2>2 DEF Run, Begin, IInv, TypeOK, Phase
  <2>3. ASSUME NEW o \in Op, ReleaseCurrent(o) PROVE IdleIsNotForgotten'
    <3>1. CASE releaseOccupancy \in Holders /\ FreeOccupancy(releaseOccupancy, "released")
      <4>1. /\ releaseOccupancy \in Op /\ phase[releaseOccupancy] = "holding"
            /\ phase'[releaseOccupancy] = "released"
        BY <3>1, FreeOccupancyKeeps DEF Holders, IInv
      <4> QED BY <2>3, <4>1 DEF ReleaseCurrent
    <3>2. CASE releaseOccupancy \notin Holders /\ UNCHANGED <<occupied, waiters, phase>>
      BY <2>3, <3>2 DEF ReleaseCurrent
    <3> QED BY <2>3, <3>1, <3>2 DEF ReleaseCurrent
  <2>4. ASSUME NEW o \in Op, Settle(o) PROVE IdleIsNotForgotten'
    <3> SUFFICES ASSUME idleWaiting' PROVE Outstanding' # {}
      OBVIOUS
    <3>1. idleWaiting /\ Outstanding # {o} /\ o \in Outstanding
      BY <2>4 DEF Settle, StillIdle
    <3>2. PICK p \in Outstanding : p # o
      BY <3>1
    <3>3. p \in Outstanding'
      <4>1. CASE StillOccupies(o)
        BY <2>1, <2>4, <3>2, <4>1 DEF Settle, StillOccupies
      <4>2. CASE ~StillOccupies(o)
        BY <2>4, <3>2, <4>2 DEF Settle, IInv, TypeOK
      <4> QED BY <4>1, <4>2
    <3> QED BY <3>3
  <2>5. CASE Idle
    BY <2>5 DEF Idle
  <2>6. CASE UNCHANGED vars
    BY <2>6 DEF vars
  <2> QED BY <2>2, <2>3, <2>4, <2>5, <2>6 DEF Next
<1>3. J => IdleIsNotForgotten
  OBVIOUS
<1> QED BY <1>1, <1>2, <1>3, PTL DEF Spec

-----------------------------------------------------------------------------
(* The turns of the child. *)


DistinctInputs ==
  /\ Native \notin Custom /\ Forwarded \notin Custom \union {Native}
  /\ Reminder \notin Custom \union {Native, Forwarded}

Steps == {"no", "hooks", "refused", "forwarded", "gate", "compacting", "intends", "busy", "retry",
          "reserved", "prepared", "given", "complete", "failed"}
Waiting == {"gate", "compacting", "intends", "busy", "retry"}
InputSet == [step : Steps, signal : Nat, cancelled : BOOLEAN, abandoned : BOOLEAN,
             proof : {"no", "committed", "uncommitted"}]
RunSet == [id : Nat, last : Nat, by : Inputs \union {NoOne}, carries : SUBSET Inputs,
           aborted : BOOLEAN]
InterruptSet == [step : {"no", "clearing", "cancelling", "aborting", "answered", "done"},
                 before : SUBSET Deliveries, cancels : SUBSET Deliveries]
OpSet == ({"submit", "cancel"} \X Deliveries) \union ({"clear"} \X {"clear"})
           \union ({"interrupt"} \X {"interrupt"})

TypeInv ==
  /\ input \in [Inputs -> InputSet] /\ run \in RunSet /\ interrupt \in InterruptSet
  /\ lane \in Seq(OpSet) /\ queue \in Seq(Custom) /\ committed \subseteq Inputs

\* The proof of an input is what the transcript says, and an input that is answered was
\* given to Pi; one that is answered "uncommitted" is over.
ProofInv ==
  \A x \in Inputs :
    /\ x \in committed <=> input[x].proof = "committed"
    /\ input[x].proof = "committed" => At(x, {"given", "complete"})
    /\ input[x].proof = "uncommitted" => At(x, {"complete"})

\* What the native Run still may commit was given to it.
RunInv ==
  /\ NoRun => queue = <<>>
  /\ ~NoRun => run.by \in Inputs /\ At(run.by, {"given"})
  /\ \A i \in DOMAIN queue : At(queue[i], {"given"}) /\ input[queue[i]].signal = run.id

\* An aborted Run is aborted by the operation whose turn it is, and has nothing queued.
AbortedInv ==
  run.aborted => /\ ~NoRun /\ queue = <<>> /\ lane # <<>>
                 /\ Head(lane)[1] \in {"cancel", "interrupt"} /\ Names(Head(lane))

\* A submission in the lane waits for its turn, once; so do the Owner's two operations.
OnceIn(ops) == \A i, j \in DOMAIN ops : ops[i] = ops[j] /\ ops[i][1] # "cancel" => i = j
OpHolds(op) ==
  /\ op[1] = "submit" => At(op[2], {"intends"})
  /\ op[1] = "clear" => interrupt.step = "clearing"
  /\ op[1] = "interrupt" => interrupt.step = "aborting"
LaneInv == OnceIn(lane) /\ \A i \in DOMAIN lane : OpHolds(lane[i])

\* While the Owner interrupts, what waits is or will be cancelled, and so is what is queued,
\* in a turn before the interrupt's.
CancelledIn(ops, x) ==
  \E i \in DOMAIN ops : ops[i] = <<"cancel", x>> /\ \A j \in 1 .. i : ops[j][1] # "interrupt"
Interrupting == interrupt.step \in {"cancelling", "aborting"}
WaitingInv == \A x \in Custom : At(x, Waiting) => x \in interrupt.cancels \/ input[x].cancelled
QueueInv == \A i \in DOMAIN queue : queue[i] \in interrupt.cancels \/ CancelledIn(lane, queue[i])
InterruptInv ==
  /\ interrupt.step = "aborting" => interrupt.cancels = {}
  /\ Interrupting => WaitingInv /\ QueueInv

\* The Owner's copy of the human's input is made once.
ForwardInv == At(Native, {"no", "hooks"}) => At(Forwarded, {"no"})

TurnInv == TypeInv /\ ProofInv /\ RunInv /\ AbortedInv /\ LaneInv /\ InterruptInv /\ ForwardInv

-----------------------------------------------------------------------------
(* The lane as a sequence of operations. *)

LEMMA OpFacts ==
  ASSUME NEW op \in OpSet
  PROVE  /\ op[1] \in {"submit", "cancel", "clear", "interrupt"} /\ op = <<op[1], op[2]>>
         /\ op[1] \in {"submit", "cancel"} => op[2] \in Deliveries /\ op[2] \in Inputs
  BY DEF OpSet, Deliveries, Inputs

LEMMA PushFacts ==
  ASSUME NEW S, NEW ops \in Seq(S), NEW op \in S
  PROVE  /\ Append(ops, op) \in Seq(S)
         /\ DOMAIN Append(ops, op) = 1 .. Len(ops) + 1 /\ DOMAIN ops = 1 .. Len(ops)
         /\ Len(ops) \in Nat
         /\ \A i \in DOMAIN ops : Append(ops, op)[i] = ops[i]
         /\ Append(ops, op)[Len(ops) + 1] = op
  OBVIOUS

LEMMA PopFacts ==
  ASSUME NEW S, NEW ops \in Seq(S), ops # <<>>
  PROVE  /\ Tail(ops) \in Seq(S) /\ Head(ops) = ops[1] /\ ops[1] \in S
         /\ DOMAIN Tail(ops) = 1 .. Len(ops) - 1 /\ DOMAIN ops = 1 .. Len(ops)
         /\ Len(ops) \in Nat \ {0} /\ 1 \in DOMAIN ops
         /\ \A i \in DOMAIN Tail(ops) : i + 1 \in DOMAIN ops /\ Tail(ops)[i] = ops[i + 1]
  OBVIOUS

\* What is appended to the lane leaves what is said of it true when it is not there yet.
LEMMA PushKeeps ==
  ASSUME NEW ops \in Seq(OpSet), NEW op \in OpSet
  PROVE  /\ OnceIn(ops) /\ (op[1] = "cancel" \/ \A i \in DOMAIN ops : ops[i] # op)
              => OnceIn(Append(ops, op))
         /\ \A x : CancelledIn(ops, x) => CancelledIn(Append(ops, op), x)
  <1> DEFINE new == Append(ops, op)
  <1>1. /\ new \in Seq(OpSet) /\ DOMAIN new = 1 .. Len(ops) + 1 /\ DOMAIN ops = 1 .. Len(ops)
        /\ Len(ops) \in Nat /\ \A i \in DOMAIN ops : new[i] = ops[i]
        /\ new[Len(ops) + 1] = op
    BY PushFacts
  <1> HIDE DEF new
  <1>2. ASSUME OnceIn(ops), op[1] = "cancel" \/ \A i \in DOMAIN ops : ops[i] # op
        PROVE  OnceIn(new)
    <2> SUFFICES ASSUME NEW i \in DOMAIN new, NEW j \in DOMAIN new, new[i] = new[j],
                        new[i][1] # "cancel"
                 PROVE  i = j
      BY DEF OnceIn
    <2>1. CASE i \in DOMAIN ops /\ j \in DOMAIN ops
      BY <1>1, <1>2, <2>1 DEF OnceIn
    <2>2. CASE i = Len(ops) + 1 /\ j \in DOMAIN ops
      BY <1>1, <1>2, <2>2
    <2>3. CASE j = Len(ops) + 1 /\ i \in DOMAIN ops
      BY <1>1, <1>2, <2>3
    <2> QED BY <1>1, <2>1, <2>2, <2>3
  <1>3. ASSUME NEW x, CancelledIn(ops, x)
        PROVE  CancelledIn(new, x)
    <2>1. PICK i \in DOMAIN ops : ops[i] = <<"cancel", x>> /\ \A j \in 1 .. i : ops[j][1] # "interrupt"
      BY <1>3 DEF CancelledIn
    <2>2. i \in DOMAIN new /\ new[i] = <<"cancel", x>>
      BY <1>1, <2>1
    <2>3. \A j \in 1 .. i : new[j][1] # "interrupt"
      BY <1>1, <2>1
    <2> QED BY <2>2, <2>3 DEF CancelledIn
  <1> QED BY <1>2, <1>3 DEF new

\* The turn of an operation passes.
LEMMA PopKeeps ==
  ASSUME NEW ops \in Seq(OpSet), ops # <<>>
  PROVE  /\ OnceIn(ops) => OnceIn(Tail(ops))
         /\ OnceIn(ops) /\ Head(ops)[1] # "cancel"
              => \A i \in DOMAIN Tail(ops) : Tail(ops)[i] # Head(ops)
         /\ \A x : CancelledIn(ops, x) /\ Head(ops) # <<"cancel", x>> => CancelledIn(Tail(ops), x)
  <1> DEFINE new == Tail(ops)
  <1>1. /\ new \in Seq(OpSet) /\ Head(ops) = ops[1]
        /\ DOMAIN new = 1 .. Len(ops) - 1 /\ DOMAIN ops = 1 .. Len(ops)
        /\ Len(ops) \in Nat \ {0} /\ 1 \in DOMAIN ops
        /\ \A i \in DOMAIN new : i + 1 \in DOMAIN ops /\ new[i] = ops[i + 1]
    BY PopFacts
  <1> HIDE DEF new
  <1>2. ASSUME OnceIn(ops)
        PROVE  OnceIn(new) /\ (Head(ops)[1] # "cancel" => \A i \in DOMAIN new : new[i] # Head(ops))
    BY SMTT(30), <1>1, <1>2 DEF OnceIn
  <1>3. ASSUME NEW x, CancelledIn(ops, x), Head(ops) # <<"cancel", x>>
        PROVE  CancelledIn(new, x)
    <2>1. PICK i \in DOMAIN ops : ops[i] = <<"cancel", x>> /\ \A j \in 1 .. i : ops[j][1] # "interrupt"
      BY <1>3 DEF CancelledIn
    <2>2. i # 1
      BY <1>1, <1>3, <2>1
    <2>3. i - 1 \in DOMAIN new /\ new[i - 1] = <<"cancel", x>>
      BY <1>1, <2>1, <2>2
    <2>4. \A j \in 1 .. i - 1 : new[j][1] # "interrupt"
      BY <1>1, <2>1, <2>2
    <2> QED BY <2>3, <2>4 DEF CancelledIn
  <1> QED BY <1>2, <1>3 DEF new

-----------------------------------------------------------------------------
(* How the inputs move. *)

InputFields(f, in) ==
  /\ f.proof = in.proof /\ f.signal = in.signal /\ (in.cancelled => f.cancelled)

\* The input moves to another step, the others stay or stop waiting for a preparation.
Moved(x, s) ==
  /\ input' \in [Inputs -> InputSet] /\ input'[x].step = s
  /\ \A y \in Inputs : InputFields(input'[y], input[y])
  /\ \A y \in Inputs \ {x} : \/ input'[y].step = input[y].step
                             \/ input[y].step = "busy" /\ input'[y].step = "retry"

\* Moves that make no input given or answered and bring none behind the Owner's back.
Mild(y) ==
  /\ InputFields(input'[y], input[y])
  /\ \/ input'[y].step = input[y].step
     \/ /\ ~At(y, {"given", "complete"}) /\ input'[y].step # "given"
        /\ y \in Custom /\ Interrupting /\ input'[y].step \in Waiting => At(y, Waiting)

LEMMA StepOf ==
  ASSUME NEW in \in [Inputs -> InputSet], NEW x \in Inputs, NEW s \in Steps
  PROVE  LET to == [in EXCEPT ![x].step = s]
         IN  /\ to \in [Inputs -> InputSet] /\ to[x].step = s
             /\ \A y \in Inputs : InputFields(to[y], in[y])
             /\ \A y \in Inputs \ {x} : to[y] = in[y]
  <1> DEFINE r == [in[x] EXCEPT !.step = s]
  <1>1. in[x] \in InputSet
    OBVIOUS
  <1>2. /\ r \in InputSet /\ r.step = s /\ r.proof = in[x].proof
        /\ r.signal = in[x].signal /\ r.cancelled = in[x].cancelled
    BY <1>1 DEF InputSet
  <1> HIDE DEF r
  <1>3. [in EXCEPT ![x] = r] \in [Inputs -> InputSet]
    BY <1>2
  <1>4. \A y \in Inputs : [in EXCEPT ![x] = r][y] = IF y = x THEN r ELSE in[y]
    OBVIOUS
  <1>5. \A y \in Inputs : InputFields([in EXCEPT ![x] = r][y], in[y])
    BY <1>2, <1>4 DEF InputFields
  <1> QED BY <1>2, <1>3, <1>4, <1>5 DEF r

LEMMA AwakeFacts ==
  ASSUME NEW in \in [Inputs -> InputSet]
  PROVE  /\ Awake(in) \in [Inputs -> InputSet]
         /\ \A y \in Inputs :
              /\ InputFields(Awake(in)[y], in[y])
              /\ Awake(in)[y].step = IF in[y].step = "busy" THEN "retry" ELSE in[y].step
  <1>1. ASSUME NEW r \in InputSet
        PROVE  LET a == [r EXCEPT !.step = "retry"]
               IN  a \in InputSet /\ InputFields(a, r) /\ a.step = "retry"
    BY DEF InputSet, Steps, InputFields
  <1>2. ASSUME NEW y \in Inputs
        PROVE  /\ Awake(in)[y] \in InputSet /\ InputFields(Awake(in)[y], in[y])
               /\ Awake(in)[y].step = IF in[y].step = "busy" THEN "retry" ELSE in[y].step
    <2>1. CASE in[y].step = "busy"
      <3>1. Awake(in)[y] = [in[y] EXCEPT !.step = "retry"]
        BY <2>1 DEF Awake
      <3> QED BY <1>1, <2>1, <3>1
    <2>2. CASE in[y].step # "busy"
      BY <2>2 DEF Awake, InputFields
    <2> QED BY <2>1, <2>2
  <1>3. Awake(in) = [y \in Inputs |-> Awake(in)[y]]
    BY DEF Awake
  <1> QED BY <1>2, <1>3

LEMMA AbandonedFacts ==
  ASSUME NEW in \in [Inputs -> InputSet]
  PROVE  /\ Abandoned(in) \in [Inputs -> InputSet]
         /\ \A y \in Inputs : /\ InputFields(Abandoned(in)[y], in[y])
                              /\ Abandoned(in)[y].step = in[y].step
  <1>1. ASSUME NEW r \in InputSet
        PROVE  LET a == [r EXCEPT !.abandoned = TRUE]
               IN  a \in InputSet /\ InputFields(a, r) /\ a.step = r.step
    BY DEF InputSet, InputFields
  <1>2. ASSUME NEW y \in Inputs
        PROVE  /\ Abandoned(in)[y] \in InputSet /\ InputFields(Abandoned(in)[y], in[y])
               /\ Abandoned(in)[y].step = in[y].step
    <2>1. Abandoned(in)[y] \in {in[y], [in[y] EXCEPT !.abandoned = TRUE]}
      BY DEF Abandoned
    <2>2. CASE Abandoned(in)[y] = in[y]
      BY <2>2 DEF InputFields
    <2>3. CASE Abandoned(in)[y] = [in[y] EXCEPT !.abandoned = TRUE]
      BY <1>1, <2>3
    <2> QED BY <2>1, <2>2, <2>3
  <1>3. Abandoned(in) = [y \in Inputs |-> Abandoned(in)[y]]
    BY DEF Abandoned
  <1> QED BY <1>2, <1>3

\* The ways in which the code moves an input.
LEMMA MovesTo ==
  ASSUME TypeInv, NEW x \in Inputs, NEW s \in Steps,
         \/ input' = To(x, s)
         \/ s # "busy" /\ input' = Awake(To(x, s))
         \/ input' = [Awake(input) EXCEPT ![x].step = s]
         \/ input' = [Abandoned(input) EXCEPT ![x].step = s]
  PROVE  Moved(x, s)
  <1>1. input \in [Inputs -> InputSet]
    BY DEF TypeInv
  <1>2. CASE input' = To(x, s)
    BY <1>1, <1>2, StepOf DEF To, Moved
  <1>3. CASE s # "busy" /\ input' = Awake(To(x, s))
    <2>1. /\ To(x, s) \in [Inputs -> InputSet] /\ To(x, s)[x].step = s
          /\ \A y \in Inputs : InputFields(To(x, s)[y], input[y])
          /\ \A y \in Inputs \ {x} : To(x, s)[y] = input[y]
      BY <1>1, StepOf DEF To
    <2>2. PICK in : in = To(x, s)
      OBVIOUS
    <2>3. in \in [Inputs -> InputSet] /\ input' = Awake(in)
      BY <1>3, <2>1, <2>2
    <2>4. /\ input' \in [Inputs -> InputSet]
          /\ \A y \in Inputs :
               /\ InputFields(input'[y], in[y])
               /\ input'[y].step = IF in[y].step = "busy" THEN "retry" ELSE in[y].step
      BY <2>3, AwakeFacts
    <2>5. in[x].step = s /\ \A y \in Inputs : InputFields(in[y], input[y])
      BY <2>1, <2>2
    <2>6. \A y \in Inputs \ {x} : in[y] = input[y]
      BY <2>1, <2>2
    <2>7. \A y \in Inputs : InputFields(input'[y], input[y])
      BY <2>4, <2>5 DEF InputFields
    <2> QED BY <1>3, <2>4, <2>5, <2>6, <2>7 DEF Moved
  <1>4. CASE input' = [Awake(input) EXCEPT ![x].step = s]
    <2>1. PICK in : in = Awake(input)
      OBVIOUS
    <2>2. /\ in \in [Inputs -> InputSet]
          /\ \A y \in Inputs :
               /\ InputFields(in[y], input[y])
               /\ in[y].step = IF input[y].step = "busy" THEN "retry" ELSE input[y].step
      BY <1>1, <2>1, AwakeFacts
    <2>3. input' = [in EXCEPT ![x].step = s]
      BY <1>4, <2>1
    <2>4. /\ input' \in [Inputs -> InputSet] /\ input'[x].step = s
          /\ \A y \in Inputs : InputFields(input'[y], in[y])
          /\ \A y \in Inputs \ {x} : input'[y] = in[y]
      BY <2>2, <2>3, StepOf
    <2>5. \A y \in Inputs : InputFields(input'[y], input[y])
      BY <2>2, <2>4 DEF InputFields
    <2> QED BY <2>2, <2>4, <2>5 DEF Moved
  <1>5. CASE input' = [Abandoned(input) EXCEPT ![x].step = s]
    <2>1. PICK in : in = Abandoned(input)
      OBVIOUS
    <2>2. /\ in \in [Inputs -> InputSet]
          /\ \A y \in Inputs : /\ InputFields(in[y], input[y])
                               /\ in[y].step = input[y].step
      BY <1>1, <2>1, AbandonedFacts
    <2>3. input' = [in EXCEPT ![x].step = s]
      BY <1>5, <2>1
    <2>4. /\ input' \in [Inputs -> InputSet] /\ input'[x].step = s
          /\ \A y \in Inputs : InputFields(input'[y], in[y])
          /\ \A y \in Inputs \ {x} : input'[y] = in[y]
      BY <2>2, <2>3, StepOf
    <2>5. \A y \in Inputs : InputFields(input'[y], input[y])
      BY <2>2, <2>4 DEF InputFields
    <2> QED BY <2>2, <2>4, <2>5 DEF Moved
  <1> QED BY <1>2, <1>3, <1>4, <1>5

\* The moves of one input that are mild.
May(x, s) ==
  \/ s = input[x].step
  \/ /\ ~At(x, {"no", "given", "complete"}) /\ s \notin {"no", "hooks", "given"}
     /\ x \in Custom /\ s \in Waiting => At(x, Waiting)
  \/ /\ At(x, {"no"}) /\ s \in {"gate", "hooks", "refused"} /\ x # Forwarded
     /\ x \in Custom => ~Interrupting

LEMMA MovedIsMild ==
  ASSUME TurnInv, NEW x \in Inputs, NEW s, May(x, s), Moved(x, s)
  PROVE  /\ \A y \in Inputs : Mild(y)
         /\ ForwardInv'
  <1>1. ASSUME NEW y \in Inputs
        PROVE  Mild(y)
    <2>1. CASE y = x
      BY <2>1 DEF May, Moved, Mild, At, Waiting
    <2>2. CASE y # x
      BY <2>2 DEF Moved, Mild, At, Waiting
    <2> QED BY <2>1, <2>2
  <1>2. Native \in Inputs /\ Forwarded \in Inputs
    BY DEF Inputs
  <1>3. ForwardInv'
    <2> SUFFICES ASSUME input'[Native].step \in {"no", "hooks"}
                 PROVE  input'[Forwarded].step = "no"
      BY DEF ForwardInv, At
    <2>1. input[Native].step \in {"no", "hooks"}
      BY <1>2 DEF Moved, May, At
    <2>2. input[Forwarded].step = "no"
      BY <2>1 DEF TurnInv, ForwardInv, At
    <2> QED BY <1>2, <2>2 DEF Moved, May, At
  <1> QED BY <1>1, <1>3

-----------------------------------------------------------------------------
(* What mild moves preserve. *)

LEMMA MildKeepsRun ==
  ASSUME TurnInv, \A y \in Inputs : Mild(y), UNCHANGED <<run, queue, committed>>
  PROVE  ProofInv' /\ RunInv'
  <1>1. ProofInv'
    BY DEF TurnInv, ProofInv, Mild, InputFields, At
  <1>2. \A i \in DOMAIN queue : queue[i] \in Inputs
    BY DEF TurnInv, TypeInv, Inputs
  <1>3. RunInv'
    BY <1>2 DEF TurnInv, RunInv, Mild, InputFields, At, NoRun
  <1> QED BY <1>1, <1>3

\* While the Owner interrupts, mild moves leave whatever waits cancelled.
LEMMA MildKeepsWaiting ==
  ASSUME TurnInv, \A y \in Inputs : Mild(y), Interrupting, interrupt' = interrupt
  PROVE  WaitingInv'
  <1>1. Custom \subseteq Inputs
    BY DEF Inputs
  <1>2. WaitingInv
    BY DEF TurnInv, InterruptInv
  <1>3. ASSUME NEW x \in Custom, At(x, Waiting)'
        PROVE  At(x, Waiting)
    BY <1>1, <1>3 DEF Mild, At
  <1> QED BY <1>1, <1>2, <1>3 DEF WaitingInv, Mild, InputFields

LEMMA MildKeepsAborted ==
  ASSUME TurnInv, \A y \in Inputs : Mild(y), UNCHANGED <<run, queue, lane>>
  PROVE  AbortedInv'
  <1> SUFFICES ASSUME run'.aborted
               PROVE  AbortedInv'
    BY DEF AbortedInv
  <1>1. /\ ~NoRun /\ queue = <<>> /\ lane # <<>>
        /\ Head(lane)[1] \in {"cancel", "interrupt"} /\ Names(Head(lane))
    BY DEF TurnInv, AbortedInv
  <1>2. Head(lane) \in OpSet
    BY <1>1, PopFacts DEF TurnInv, TypeInv
  <1>3. Head(lane)[1] = "cancel" => Head(lane)[2] \in Inputs
    BY <1>2, OpFacts
  <1>4. Names(Head(lane))'
    BY <1>1, <1>3 DEF Names, NoRun, Mild, InputFields
  <1> QED BY <1>1, <1>4 DEF AbortedInv, NoRun

LEMMA MildKeepsQueued ==
  ASSUME TurnInv, UNCHANGED <<queue, lane, interrupt>>, Interrupting
  PROVE  QueueInv'
  BY DEF TurnInv, InterruptInv, QueueInv

LEMMA MildKeeps ==
  ASSUME TurnInv, input' \in [Inputs -> InputSet], \A y \in Inputs : Mild(y), ForwardInv',
         \A y \in Inputs : At(y, {"intends"}) => input'[y].step = "intends",
         UNCHANGED <<run, queue, committed, lane, interrupt>>
  PROVE  TurnInv'
  <1>1. ProofInv' /\ RunInv' /\ AbortedInv'
    BY MildKeepsRun, MildKeepsAborted
  <1>2. LaneInv'
    <2>1. ASSUME NEW i \in DOMAIN lane
          PROVE  OpHolds(lane[i])'
      <3>1. lane[i] \in OpSet
        BY DEF TurnInv, TypeInv
      <3>2. OpHolds(lane[i])
        BY DEF TurnInv, LaneInv
      <3> QED BY <3>1, <3>2, OpFacts DEF OpHolds, At
    <2> QED BY <2>1 DEF TurnInv, LaneInv
  <1>3. InterruptInv'
    <2>1. CASE Interrupting
      BY <2>1, MildKeepsWaiting, MildKeepsQueued DEF TurnInv, InterruptInv
    <2>2. CASE ~Interrupting
      BY <2>2 DEF TurnInv, InterruptInv, Interrupting
    <2> QED BY <2>1, <2>2
  <1> QED BY <1>1, <1>2, <1>3 DEF TurnInv, TypeInv

\* One input moves, which is not a submission in the lane.
LEMMA MovedKeeps ==
  ASSUME TurnInv, NEW x \in Inputs, NEW s, May(x, s), Moved(x, s), ~At(x, {"intends"}),
         UNCHANGED <<run, queue, committed, lane, interrupt>>
  PROVE  TurnInv'
  <1>1. (\A y \in Inputs : Mild(y)) /\ ForwardInv' /\ input' \in [Inputs -> InputSet]
    BY MovedIsMild DEF Moved
  <1>2. \A y \in Inputs : At(y, {"intends"}) => input'[y].step = "intends"
    BY DEF Moved, At
  <1> QED BY <1>1, <1>2, MildKeeps

-----------------------------------------------------------------------------
(* A Delivery is dispatched. *)

LEMMA FailsMoves ==
  ASSUME TypeInv, NEW x \in Inputs, Fails(x)
  PROVE  Moved(x, "failed")
  BY MovesTo DEF Fails, Steps

LEMMA BusyMoves ==
  ASSUME TypeInv, NEW x \in Inputs, Busy(x)
  PROVE  Moved(x, "busy")
  BY MovesTo DEF Busy, Steps

\* Pi idle, or the input fenced, a submission gives nothing to Pi.
LEMMA SubmitMoves ==
  ASSUME TurnInv, NEW x \in Inputs, Submit(x)
  PROVE  \/ UNCHANGED <<run, queue>> /\ (Moved(x, "failed") \/ Moved(x, "prepared"))
         \/ UNCHANGED <<run, queue>> /\ x \in Custom /\ Moved(x, "busy")
         \/ ~Fenced(x) /\ ~NoRun /\ x \in Custom /\ Given(x)
  <1>1. TypeInv /\ "prepared" \in Steps
    BY DEF TurnInv, Steps
  <1>2. CASE Fenced(x)
    BY <1>1, <1>2, FailsMoves DEF Submit
  <1>3. CASE ~Fenced(x) /\ ~NoRun
    BY <1>1, <1>3, FailsMoves DEF Submit
  <1>4. CASE ~Fenced(x) /\ NoRun
    <2>1. CASE preparing = NoOne \/ TakesOver(x)
      <3>1. \/ input' = [input EXCEPT ![x].step = "prepared"]
            \/ input' = [Awake(input) EXCEPT ![x].step = "prepared"]
        BY <1>4, <2>1 DEF Submit
      <3>2. Moved(x, "prepared")
        BY <1>1, <3>1, MovesTo DEF To
      <3> QED BY <1>4, <3>2 DEF Submit
    <2>2. CASE preparing # NoOne /\ ~TakesOver(x)
      BY <1>1, <1>4, <2>2, FailsMoves, BusyMoves DEF Submit
    <2> QED BY <2>1, <2>2
  <1> QED BY <1>2, <1>3, <1>4

-----------------------------------------------------------------------------
(* The lane gets an operation, and passes the turn on. *)

LEMMA PushStep ==
  ASSUME TurnInv, NEW op \in OpSet, lane' = Append(lane, op),
         op[1] = "cancel" \/ \A i \in DOMAIN lane : lane[i] # op,
         OpHolds(op)', \A o \in OpSet : OpHolds(o) => OpHolds(o)',
         UNCHANGED <<run, queue>>, \A y \in Inputs : InputFields(input'[y], input[y])
  PROVE  /\ lane' \in Seq(OpSet) /\ LaneInv' /\ AbortedInv'
         /\ \A x : CancelledIn(lane, x) => CancelledIn(lane', x)
  <1>1. lane \in Seq(OpSet) /\ OnceIn(lane) /\ \A i \in DOMAIN lane : OpHolds(lane[i])
    BY DEF TurnInv, TypeInv, LaneInv
  <1>2. /\ lane' \in Seq(OpSet)
        /\ DOMAIN lane' = 1 .. Len(lane) + 1 /\ DOMAIN lane = 1 .. Len(lane)
        /\ Len(lane) \in Nat
        /\ \A i \in DOMAIN lane : lane'[i] = lane[i]
        /\ lane'[Len(lane) + 1] = op
    BY <1>1, PushFacts
  <1>3. OnceIn(lane') /\ \A x : CancelledIn(lane, x) => CancelledIn(lane', x)
    BY <1>1, PushKeeps
  <1>4. LaneInv'
    <2>1. ASSUME NEW i \in DOMAIN lane'
          PROVE  OpHolds(lane[i])'
      <3>1. CASE i \in DOMAIN lane
        <4>1. lane[i] \in OpSet /\ OpHolds(lane[i]) /\ lane'[i] = lane[i]
          BY <1>1, <1>2, <3>1
        <4>2. PICK o \in OpSet : o = lane[i]
          BY <4>1
        <4>3. OpHolds(o)'
          BY <4>1, <4>2
        <4> QED BY <4>1, <4>2, <4>3 DEF OpHolds, At
      <3>2. CASE i = Len(lane) + 1
        BY <1>2, <3>2 DEF OpHolds, At
      <3> QED BY <1>2, <2>1, <3>1, <3>2
    <2> QED BY <1>3, <2>1 DEF LaneInv
  <1>5. ASSUME run'.aborted
        PROVE  AbortedInv'
    <2>1. /\ ~NoRun /\ queue = <<>> /\ lane # <<>>
          /\ Head(lane)[1] \in {"cancel", "interrupt"} /\ Names(Head(lane))
      BY <1>5 DEF TurnInv, AbortedInv
    <2>2. Head(lane) = lane[1] /\ 1 \in DOMAIN lane /\ Head(lane) \in OpSet
      BY <1>1, <2>1, PopFacts
    <2>3. Head(lane') = lane'[1] /\ lane' # <<>>
      BY <1>2, PopFacts
    <2>4. Head(lane') = Head(lane)
      BY <1>2, <2>2, <2>3
    <2>5. PICK o \in OpSet : o = Head(lane)
      BY <2>2
    <2>6. o[1] = "cancel" => o[2] \in Inputs
      BY OpFacts
    <2>7. Names(o)'
      BY <2>1, <2>5, <2>6 DEF Names, NoRun, InputFields
    <2> QED BY <2>1, <2>3, <2>4, <2>5, <2>7 DEF AbortedInv, NoRun, Names
  <1>6. AbortedInv'
    BY <1>5 DEF AbortedInv
  <1> QED BY <1>2, <1>3, <1>4, <1>6

LEMMA PopStep ==
  ASSUME TurnInv, lane # <<>>, lane' = Tail(lane),
         \A o \in OpSet : OpHolds(o) /\ (o[1] # "cancel" => o # Head(lane)) => OpHolds(o)'
  PROVE  /\ lane' \in Seq(OpSet) /\ LaneInv' /\ Head(lane) \in OpSet /\ OpHolds(Head(lane))
         /\ \A x : CancelledIn(lane, x) /\ Head(lane) # <<"cancel", x>> => CancelledIn(lane', x)
  <1>1. lane \in Seq(OpSet) /\ OnceIn(lane) /\ \A i \in DOMAIN lane : OpHolds(lane[i])
    BY DEF TurnInv, TypeInv, LaneInv
  <1>2. /\ lane' \in Seq(OpSet) /\ Head(lane) = lane[1] /\ lane[1] \in OpSet
        /\ 1 \in DOMAIN lane
        /\ \A i \in DOMAIN lane' : i + 1 \in DOMAIN lane /\ lane'[i] = lane[i + 1]
    BY <1>1, PopFacts
  <1>3. /\ OnceIn(lane')
        /\ Head(lane)[1] # "cancel" => \A i \in DOMAIN lane' : lane'[i] # Head(lane)
        /\ \A x : CancelledIn(lane, x) /\ Head(lane) # <<"cancel", x>> => CancelledIn(lane', x)
    BY <1>1, PopKeeps
  <1>4. ASSUME NEW i \in DOMAIN lane'
        PROVE  OpHolds(lane[i])'
    <2>1. lane'[i] \in OpSet /\ OpHolds(lane[i + 1]) /\ lane'[i] = lane[i + 1]
      BY <1>1, <1>2
    <2>2. PICK o \in OpSet : o = lane'[i]
      BY <2>1
    <2>3. OpHolds(o) /\ (o[1] # "cancel" => o # Head(lane))
      BY <1>3, <2>1, <2>2
    <2>4. OpHolds(o)'
      BY <2>3
    <2> QED BY <2>2, <2>4 DEF OpHolds, At
  <1> QED BY <1>1, <1>2, <1>3, <1>4 DEF LaneInv

-----------------------------------------------------------------------------
(* Pi is handed an input. *)

LEMMA GivenStep ==
  ASSUME NEW in \in [Inputs -> InputSet], NEW x \in Inputs, NEW n \in Nat,
         input' = [in EXCEPT ![x].step = "given", ![x].signal = n]
  PROVE  /\ input' \in [Inputs -> InputSet]
         /\ input'[x].step = "given" /\ input'[x].signal = n
         /\ input'[x].proof = in[x].proof /\ input'[x].cancelled = in[x].cancelled
         /\ \A y \in Inputs \ {x} : input'[y] = in[y]
  <1> DEFINE r == [in[x] EXCEPT !.step = "given", !.signal = n]
  <1>1. in[x] \in InputSet
    OBVIOUS
  <1>2. /\ r \in InputSet /\ r.step = "given" /\ r.signal = n
        /\ r.proof = in[x].proof /\ r.cancelled = in[x].cancelled
    BY <1>1 DEF InputSet, Steps
  <1>3. input' = [in EXCEPT ![x] = r]
    OBVIOUS
  <1> HIDE DEF r
  <1>4. input' \in [Inputs -> InputSet]
    BY <1>2, <1>3
  <1>5. input'[x] = r /\ \A y \in Inputs \ {x} : input'[y] = in[y]
    BY <1>3
  <1> QED BY <1>2, <1>4, <1>5

\* An input that is not answered yet has no proof.
LEMMA NotAnswered ==
  ASSUME TurnInv, NEW x \in Inputs, ~At(x, {"given", "complete"})
  PROVE  input[x].proof = "no" /\ x \notin committed
  <1>1. input[x].proof \in {"no", "committed", "uncommitted"}
    BY DEF TurnInv, TypeInv, InputSet
  <1> QED BY <1>1 DEF TurnInv, ProofInv, At

\* In its turn, an input that is not cancelled joins the queue of the Run that is active.
LEMMA GivenKeeps ==
  ASSUME TurnInv, NEW x \in Custom, lane # <<>>, Head(lane) = <<"submit", x>>, lane' = Tail(lane),
         ~Fenced(x), ~NoRun, Given(x), UNCHANGED <<committed, interrupt>>,
         DistinctInputs
  PROVE  TurnInv'
  <1>1. TypeInv /\ x \in Inputs /\ x \in Deliveries
    BY DEF TurnInv, Inputs, Deliveries
  <1>2. run.id \in Nat /\ run \in RunSet
    BY <1>1 DEF TypeInv, RunSet
  <1>3. /\ input' \in [Inputs -> InputSet]
        /\ input'[x].step = "given" /\ input'[x].signal = run.id
        /\ input'[x].proof = input[x].proof /\ input'[x].cancelled = input[x].cancelled
        /\ \A y \in Inputs \ {x} : input'[y] = input[y]
    <2>1. input \in [Inputs -> InputSet] /\ run.id \in Nat
      BY <1>1, <1>2 DEF TypeInv, RunSet
    <2>2. input' = [input EXCEPT ![x].step = "given", ![x].signal = run.id]
      BY DEF Given
    <2>3. PICK in \in [Inputs -> InputSet], n \in Nat : in = input /\ n = run.id
      BY <2>1
    <2>4. input' = [in EXCEPT ![x].step = "given", ![x].signal = n]
      BY <2>2, <2>3
    <2>5. /\ input' \in [Inputs -> InputSet]
          /\ input'[x].step = "given" /\ input'[x].signal = n
          /\ input'[x].proof = in[x].proof /\ input'[x].cancelled = in[x].cancelled
          /\ \A y \in Inputs \ {x} : input'[y] = in[y]
      BY Zenon, <1>1, <2>4, GivenStep
    <2> QED BY <2>3, <2>5
  <1>4. /\ lane' \in Seq(OpSet) /\ LaneInv' /\ OpHolds(Head(lane))
        /\ \A q : CancelledIn(lane, q) /\ Head(lane) # <<"cancel", q>> => CancelledIn(lane', q)
    <2>1. ASSUME NEW o \in OpSet, OpHolds(o), o[1] # "cancel" => o # Head(lane)
          PROVE  OpHolds(o)'
      <3>1. o = <<o[1], o[2]>> /\ (o[1] = "submit" => o[2] \in Inputs)
        BY OpFacts
      <3>2. o[1] = "submit" => o[2] # x
        BY <2>1, <3>1
      <3> QED BY <1>3, <2>1, <3>1, <3>2 DEF OpHolds, At
    <2> QED BY <2>1, PopStep
  <1>5. At(x, {"intends"})
    BY <1>4 DEF OpHolds
  <1>6. input[x].proof = "no" /\ x \notin committed
    BY <1>1, <1>5, NotAnswered DEF At
  <1>7. run' = [run EXCEPT !.carries = @ \union {x}]
    BY DEF Given
  <1>8. /\ run' \in RunSet /\ run'.id = run.id /\ run'.by = run.by
        /\ run'.aborted = run.aborted
    BY <1>1, <1>2, <1>7 DEF RunSet
  <1>9. ~run.aborted
    BY DEF TurnInv, AbortedInv
  <1>10. /\ queue' \in Seq(Custom) /\ DOMAIN queue' = 1 .. Len(queue) + 1
         /\ DOMAIN queue = 1 .. Len(queue) /\ Len(queue) \in Nat
         /\ \A i \in DOMAIN queue : queue'[i] = queue[i] /\ queue[i] \in Custom
         /\ queue'[Len(queue) + 1] = x
    BY <1>1, PushFacts DEF TypeInv, Given
  <1>11. ProofInv'
    BY <1>3, <1>6 DEF TurnInv, ProofInv, At
  <1>12. RunInv'
    <2>1. ~NoRun' /\ run'.by \in Inputs /\ At(run.by, {"given"})'
      BY <1>3, <1>8 DEF TurnInv, RunInv, NoRun, At
    <2>2. ASSUME NEW i \in DOMAIN queue'
          PROVE  input'[queue'[i]].step = "given" /\ input'[queue'[i]].signal = run'.id
      <3>1. CASE queue'[i] = x
        BY <1>3, <1>8, <3>1
      <3>2. CASE queue'[i] # x
        <4>1. i \in DOMAIN queue /\ queue'[i] = queue[i] /\ queue[i] \in Inputs
          BY <1>10, <3>2 DEF Inputs
        <4> QED BY <1>3, <1>8, <3>2, <4>1 DEF TurnInv, RunInv, At
      <3> QED BY <3>1, <3>2
    <2> QED BY <2>1, <2>2 DEF RunInv, At
  <1>13. InterruptInv'
    <2>1. CASE Interrupting
      <3>1. WaitingInv /\ QueueInv
        BY <2>1 DEF TurnInv, InterruptInv
      <3>2. x \in interrupt.cancels
        BY <1>5, <3>1 DEF WaitingInv, Waiting, At, Fenced
      <3>3. WaitingInv'
        BY <1>3, <3>1 DEF WaitingInv, Waiting, At, Inputs
      <3>4. QueueInv'
        <4>1. ASSUME NEW i \in DOMAIN queue'
              PROVE  queue'[i] \in interrupt.cancels \/ CancelledIn(lane', queue'[i])
          <5>1. CASE queue'[i] = x
            BY <3>2, <5>1
          <5>2. CASE queue'[i] # x
            <6>1. i \in DOMAIN queue /\ queue'[i] = queue[i]
              BY <1>10, <5>2
            <6> QED BY <1>4, <3>1, <6>1 DEF QueueInv
          <5> QED BY <5>1, <5>2
        <4> QED BY <4>1 DEF QueueInv
      <3> QED BY <3>3, <3>4 DEF TurnInv, InterruptInv
    <2>2. CASE ~Interrupting
      BY <2>2 DEF TurnInv, InterruptInv, Interrupting
    <2> QED BY <2>1, <2>2
  <1>14. ForwardInv'
    BY <1>3 DEF TurnInv, ForwardInv, At, DistinctInputs, Inputs
  <1> QED
    BY <1>1, <1>3, <1>4, <1>8, <1>9, <1>10, <1>11, <1>12, <1>13, <1>14
    DEF TurnInv, TypeInv, AbortedInv

\* The turn of a submission.
LEMMA SubmitInTurnKeeps ==
  ASSUME TurnInv, DistinctInputs, NEW x \in Inputs, SubmitInTurn(x)
  PROVE  TurnInv'
  <1>1. /\ lane # <<>> /\ Head(lane) = <<"submit", x>> /\ lane' = Tail(lane)
        /\ Submit(x) /\ UNCHANGED <<committed, interrupt>>
    BY DEF SubmitInTurn
  <1>2. /\ Head(lane)[1] = "submit" /\ Head(lane)[2] = x /\ Head(lane) \in OpSet
        /\ OpHolds(Head(lane))
    <2>1. Head(lane) = lane[1] /\ lane[1] \in OpSet /\ 1 \in DOMAIN lane
      BY <1>1, PopFacts DEF TurnInv, TypeInv
    <2> QED BY <1>1, <2>1 DEF TurnInv, LaneInv
  <1>3. At(x, {"intends"}) /\ ~run.aborted
    BY <1>2 DEF OpHolds, TurnInv, AbortedInv
  <1>4. ASSUME NEW s, Moved(x, s), s = "failed" \/ s = "prepared" \/ (s = "busy" /\ x \in Custom),
               UNCHANGED <<run, queue>>
        PROVE  TurnInv'
    <2>1. May(x, s)
      BY <1>3, <1>4 DEF May, At, Waiting
    <2>2. (\A y \in Inputs : Mild(y)) /\ ForwardInv' /\ input' \in [Inputs -> InputSet]
      BY <1>4, <2>1, MovedIsMild DEF Moved
    <2>3. ProofInv' /\ RunInv'
      BY <1>1, <1>4, <2>2, MildKeepsRun
    <2>4. /\ lane' \in Seq(OpSet) /\ LaneInv'
          /\ \A q : CancelledIn(lane, q) /\ Head(lane) # <<"cancel", q>> => CancelledIn(lane', q)
      <3>1. ASSUME NEW o \in OpSet, OpHolds(o), o[1] # "cancel" => o # Head(lane)
            PROVE  OpHolds(o)'
        <4>1. o = <<o[1], o[2]>> /\ (o[1] = "submit" => o[2] \in Inputs)
          BY OpFacts
        <4>2. o[1] = "submit" => o[2] # x
          BY <1>1, <3>1, <4>1
        <4> QED BY <1>1, <1>4, <3>1, <4>1, <4>2 DEF OpHolds, At, Moved
      <3> QED BY <1>1, <3>1, PopStep
    <2>5. InterruptInv'
      <3>1. CASE Interrupting
        <4>1. WaitingInv'
          BY <1>1, <2>2, <3>1, MildKeepsWaiting
        <4>2. QueueInv'
          BY <1>1, <1>2, <1>4, <2>4, <3>1 DEF TurnInv, InterruptInv, QueueInv
        <4> QED BY <1>1, <4>1, <4>2 DEF TurnInv, InterruptInv
      <3>2. CASE ~Interrupting
        BY <1>1, <3>2 DEF TurnInv, InterruptInv, Interrupting
      <3> QED BY <3>1, <3>2
    <2> QED BY <1>1, <1>3, <1>4, <2>2, <2>3, <2>4, <2>5 DEF TurnInv, TypeInv, AbortedInv
  <1>5. CASE ~Fenced(x) /\ ~NoRun /\ x \in Custom /\ Given(x)
    BY <1>1, <1>5, GivenKeeps
  <1>6. \/ UNCHANGED <<run, queue>> /\ (Moved(x, "failed") \/ Moved(x, "prepared"))
        \/ UNCHANGED <<run, queue>> /\ x \in Custom /\ Moved(x, "busy")
        \/ ~Fenced(x) /\ ~NoRun /\ x \in Custom /\ Given(x)
    BY <1>1, SubmitMoves
  <1>7. CASE UNCHANGED <<run, queue>> /\ Moved(x, "failed")
    BY <1>4, <1>7
  <1>8. CASE UNCHANGED <<run, queue>> /\ Moved(x, "prepared")
    BY <1>4, <1>8
  <1>9. CASE UNCHANGED <<run, queue>> /\ x \in Custom /\ Moved(x, "busy")
    BY <1>4, <1>9
  <1> QED BY Zenon, <1>5, <1>6, <1>7, <1>8, <1>9

\* The input reaches the lane of queue intentions.
LEMMA AttemptKeeps ==
  ASSUME TurnInv, NEW x \in Inputs, Attempt(x)
  PROVE  TurnInv'
  <1>1. /\ x \in Deliveries /\ At(x, {"gate", "compacting"}) /\ UNCHANGED <<committed, interrupt>>
        /\ TypeInv
    BY DEF Attempt, TurnInv
  <1>2. CASE Fenced(x) \/ NoRun
    <2>1. Submit(x) /\ UNCHANGED lane
      BY <1>2 DEF Attempt
    <2>2. ASSUME NEW s, Moved(x, s), s = "failed" \/ s = "prepared" \/ (s = "busy" /\ x \in Custom),
                 UNCHANGED <<run, queue>>
          PROVE  TurnInv'
      <3>1. May(x, s) /\ ~At(x, {"intends"})
        BY <1>1, <2>2 DEF May, At, Waiting
      <3> QED BY <1>1, <2>1, <2>2, <3>1, MovedKeeps
    <2>3. \/ UNCHANGED <<run, queue>> /\ (Moved(x, "failed") \/ Moved(x, "prepared"))
          \/ UNCHANGED <<run, queue>> /\ x \in Custom /\ Moved(x, "busy")
      BY <1>2, <2>1, SubmitMoves
    <2>4. CASE UNCHANGED <<run, queue>> /\ Moved(x, "failed")
      BY <2>2, <2>4
    <2>5. CASE UNCHANGED <<run, queue>> /\ Moved(x, "prepared")
      BY <2>2, <2>5
    <2>6. CASE UNCHANGED <<run, queue>> /\ x \in Custom /\ Moved(x, "busy")
      BY <2>2, <2>6
    <2> QED BY Zenon, <2>3, <2>4, <2>5, <2>6
  <1>3. CASE ~(Fenced(x) \/ NoRun)
    <2>1. /\ lane' = Append(lane, <<"submit", x>>) /\ input' = To(x, "intends")
          /\ UNCHANGED <<run, queue>>
      BY <1>3 DEF Attempt
    <2>2. Moved(x, "intends")
      BY <1>1, <2>1, MovesTo DEF Steps
    <2>3. May(x, "intends")
      BY <1>1 DEF May, At, Waiting
    <2>4. (\A y \in Inputs : Mild(y)) /\ ForwardInv' /\ input' \in [Inputs -> InputSet]
      BY <2>2, <2>3, MovedIsMild DEF Moved
    <2>5. ProofInv' /\ RunInv'
      BY <1>1, <2>1, <2>4, MildKeepsRun
    <2>6. /\ lane' \in Seq(OpSet) /\ LaneInv' /\ AbortedInv'
          /\ \A q : CancelledIn(lane, q) => CancelledIn(lane', q)
      <3> DEFINE op == <<"submit", x>>
      <3>1. op \in OpSet /\ op[1] = "submit" /\ op[2] = x
        BY <1>1 DEF OpSet
      <3>2. \A i \in DOMAIN lane : lane[i] # op
        BY <1>1, <3>1 DEF TurnInv, LaneInv, OpHolds, At
      <3>3. OpHolds(op)'
        BY <2>2, <3>1 DEF OpHolds, At, Moved
      <3>4. ASSUME NEW o \in OpSet, OpHolds(o)
            PROVE  OpHolds(o)'
        <4>1. o[1] = "submit" => o[2] \in Inputs
          BY OpFacts
        <4> QED BY <1>1, <2>2, <3>4, <4>1 DEF OpHolds, At, Moved
      <3>5. \A y \in Inputs : InputFields(input'[y], input[y])
        BY <2>2 DEF Moved
      <3> HIDE DEF op
      <3>6. lane' = Append(lane, op)
        BY <2>1 DEF op
      <3> QED BY <2>1, <3>1, <3>2, <3>3, <3>4, <3>5, <3>6, PushStep
    <2>7. InterruptInv'
      <3>1. CASE Interrupting
        <4>1. WaitingInv'
          BY <1>1, <2>4, <3>1, MildKeepsWaiting
        <4>2. QueueInv'
          BY <1>1, <2>1, <2>6, <3>1 DEF TurnInv, InterruptInv, QueueInv
        <4> QED BY <1>1, <4>1, <4>2 DEF TurnInv, InterruptInv
      <3>2. CASE ~Interrupting
        BY <1>1, <3>2 DEF TurnInv, InterruptInv, Interrupting
      <3> QED BY <3>1, <3>2
    <2> QED BY <1>1, <2>1, <2>4, <2>5, <2>6, <2>7 DEF TurnInv, TypeInv
  <1> QED BY <1>2, <1>3

\* Moves outside the lane: a Delivery enters, prepares, is refused or waits again.
LEMMA DispatchKeeps ==
  ASSUME TurnInv, DistinctInputs, NEW x \in Inputs, Deliver(x) \/ Compact(x) \/ Retry(x)
  PROVE  TurnInv'
  <1>1. TypeInv
    BY DEF TurnInv
  <1>2. CASE Deliver(x)
    <2>1. Moved(x, "gate")
      BY <1>1, <1>2, MovesTo DEF Deliver, Steps
    <2>2. May(x, "gate") /\ ~At(x, {"intends"})
      BY <1>2 DEF Deliver, May, At, Interrupting, DistinctInputs
    <2> QED BY <1>2, <2>1, <2>2, MovedKeeps DEF Deliver
  <1>3. CASE Compact(x)
    <2>1. Moved(x, "compacting")
      BY <1>1, <1>3, MovesTo DEF Compact, Steps
    <2>2. May(x, "compacting") /\ ~At(x, {"intends"})
      BY <1>3 DEF Compact, May, At, Waiting
    <2> QED BY SMTT(30), <1>3, <2>1, <2>2, MovedKeeps DEF Compact
  <1>4. CASE Retry(x)
    <2>1. /\ Moved(x, "failed") \/ Moved(x, "gate")
          /\ UNCHANGED <<run, queue, committed, lane, interrupt>>
      BY <1>1, <1>4, MovesTo, FailsMoves DEF Retry, Steps
    <2>2. May(x, "failed") /\ May(x, "gate") /\ ~At(x, {"intends"})
      BY <1>4 DEF Retry, May, At, Waiting
    <2> QED BY <2>1, <2>2, MovedKeeps
  <1> QED BY <1>2, <1>3, <1>4

-----------------------------------------------------------------------------
(* A prepared input starts a Run, which takes its queue and ends. *)

LEMMA StartedKeeps ==
  ASSUME TurnInv, DistinctInputs, NEW x \in Inputs, At(x, {"prepared"}), NoRun, Started(x),
         UNCHANGED <<lane, queue, committed, interrupt>>
  PROVE  TurnInv'
  <1>1. TypeInv /\ input \in [Inputs -> InputSet] /\ run \in RunSet /\ run.last + 1 \in Nat
    BY DEF TurnInv, TypeInv, RunSet
  <1>2. PICK n \in Nat : n = run.last + 1 /\ n # 0
    BY <1>1 DEF RunSet
  <1>3. run' = [id |-> n, last |-> n, by |-> x, carries |-> {x}, aborted |-> FALSE]
    BY <1>2 DEF Started
  <1>4. /\ run' \in RunSet /\ run'.id = n /\ run'.by = x /\ ~run'.aborted
    BY <1>3 DEF RunSet
  <1>5. PICK in : in = Awake(input)
    OBVIOUS
  <1>6. /\ in \in [Inputs -> InputSet]
        /\ \A y \in Inputs :
             /\ InputFields(in[y], input[y])
             /\ in[y].step = IF input[y].step = "busy" THEN "retry" ELSE input[y].step
    BY <1>1, <1>5, AwakeFacts
  <1>7. /\ input' \in [Inputs -> InputSet]
        /\ input'[x].step = "given" /\ input'[x].signal = n
        /\ input'[x].proof = in[x].proof /\ input'[x].cancelled = in[x].cancelled
        /\ \A y \in Inputs \ {x} : input'[y] = in[y]
    <2>1. input' = [in EXCEPT ![x].step = "given", ![x].signal = n]
      BY <1>2, <1>5 DEF Started
    <2> QED BY Zenon, <1>6, <2>1, GivenStep
  <1>8. input[x].proof = "no" /\ x \notin committed
    BY NotAnswered DEF At
  <1>9. \A y \in Inputs \ {x} :
          /\ InputFields(input'[y], input[y])
          /\ input'[y].step = IF input[y].step = "busy" THEN "retry" ELSE input[y].step
    BY <1>6, <1>7
  <1>10. input'[x].proof = "no"
    BY <1>6, <1>7, <1>8 DEF InputFields
  <1>11. queue = <<>>
    BY DEF TurnInv, RunInv
  <1>12. ProofInv'
    BY <1>8, <1>9, <1>10 DEF TurnInv, ProofInv, At, InputFields
  <1>13. RunInv'
    BY <1>2, <1>4, <1>7, <1>11 DEF RunInv, NoRun, At
  <1>14. LaneInv'
    <2>1. ASSUME NEW i \in DOMAIN lane
          PROVE  OpHolds(lane[i])'
      <3>1. lane[i] \in OpSet /\ OpHolds(lane[i])
        BY DEF TurnInv, TypeInv, LaneInv
      <3>2. lane[i][1] = "submit" => lane[i][2] \in Inputs
        BY <3>1, OpFacts
      <3>3. lane[i][1] = "submit" => input'[lane[i][2]].step = "intends"
        BY <1>9, <3>1, <3>2 DEF OpHolds, At
      <3> QED BY <3>1, <3>3 DEF OpHolds, At
    <2> QED BY <2>1 DEF TurnInv, LaneInv
  <1>15. InterruptInv'
    <2>1. CASE Interrupting
      <3>1. WaitingInv
        BY <2>1 DEF TurnInv, InterruptInv
      <3>2. WaitingInv'
        <4>1. ASSUME NEW y \in Custom, input'[y].step \in Waiting
              PROVE  y \in interrupt.cancels \/ input'[y].cancelled
          <5>1. y \in Inputs /\ y # x
            BY <1>7, <4>1 DEF Inputs, Waiting
          <5>2. input[y].step \in Waiting
            BY <1>9, <4>1, <5>1 DEF Waiting
          <5> QED BY <1>9, <3>1, <5>1, <5>2 DEF WaitingInv, At, InputFields
        <4> QED BY <4>1 DEF WaitingInv, At
      <3> QED BY <1>11, <3>2 DEF TurnInv, InterruptInv, QueueInv
    <2>2. CASE ~Interrupting
      BY <2>2 DEF TurnInv, InterruptInv, Interrupting
    <2> QED BY <2>1, <2>2
  <1>16. ForwardInv'
    BY <1>7, <1>9 DEF TurnInv, ForwardInv, At, DistinctInputs, Inputs
  <1> QED
    BY <1>1, <1>4, <1>7, <1>12, <1>13, <1>14, <1>15, <1>16 DEF TurnInv, TypeInv, AbortedInv

LEMMA StartKeeps ==
  ASSUME TurnInv, DistinctInputs, NEW x \in Inputs, Start(x)
  PROVE  TurnInv'
  <1>1. CASE NoRun /\ ~Fenced(x) /\ Started(x)
    BY <1>1, StartedKeeps DEF Start
  <1>2. CASE Fails(x) /\ UNCHANGED run
    <2>1. Moved(x, "failed")
      BY <1>2, FailsMoves DEF TurnInv
    <2>2. May(x, "failed") /\ ~At(x, {"intends"})
      BY DEF Start, May, At, Waiting
    <2> QED BY <1>2, <2>1, <2>2, MovedKeeps DEF Start
  <1> QED BY <1>1, <1>2 DEF Start

\* An input that was given to Pi reaches the transcript.
LEMMA CommitsFacts ==
  ASSUME TurnInv, NEW x \in Inputs, At(x, {"given"}), Commits(x)
  PROVE  /\ input' \in [Inputs -> InputSet] /\ committed' \subseteq Inputs /\ ProofInv'
         /\ \A y \in Inputs : /\ input'[y].step = input[y].step
                              /\ input'[y].signal = input[y].signal
                              /\ input'[y].cancelled = input[y].cancelled
  <1> DEFINE r == [input[x] EXCEPT !.proof = IF @ = "no" THEN "committed" ELSE @]
  <1>1. input[x] \in InputSet /\ input \in [Inputs -> InputSet] /\ committed \subseteq Inputs
    BY DEF TurnInv, TypeInv
  <1>2. input[x].proof \in {"no", "committed"}
    BY <1>1 DEF TurnInv, ProofInv, At, InputSet
  <1>3. /\ r \in InputSet /\ r.proof = "committed" /\ r.step = input[x].step
        /\ r.signal = input[x].signal /\ r.cancelled = input[x].cancelled
    BY <1>1, <1>2 DEF InputSet
  <1>4. input' = [input EXCEPT ![x] = r] /\ committed' = committed \union {x}
    BY DEF Commits
  <1> HIDE DEF r
  <1>5. input' \in [Inputs -> InputSet] /\ committed' \subseteq Inputs
    BY <1>1, <1>3, <1>4
  <1>6. \A y \in Inputs : input'[y] = IF y = x THEN r ELSE input[y]
    BY <1>1, <1>4
  <1>7. ProofInv'
    BY <1>3, <1>4, <1>6 DEF TurnInv, ProofInv, At
  <1> QED BY <1>3, <1>5, <1>6, <1>7

\* What a commit does not change.
LEMMA CommitKeeps ==
  ASSUME TurnInv, input' \in [Inputs -> InputSet], committed' \subseteq Inputs, ProofInv',
         \A y \in Inputs : /\ input'[y].step = input[y].step
                           /\ input'[y].signal = input[y].signal
                           /\ input'[y].cancelled = input[y].cancelled,
         UNCHANGED <<lane, run, interrupt>>,
         \/ queue' = queue
         \/ ~run.aborted /\ queue # <<>> /\ queue' = Tail(queue) /\ ~NoRun
  PROVE  TurnInv'
  <1>1. /\ lane \in Seq(OpSet) /\ queue \in Seq(Custom) /\ run \in RunSet
        /\ interrupt \in InterruptSet /\ Custom \subseteq Inputs
    BY DEF TurnInv, TypeInv, Inputs
  <1>2. /\ queue' \in Seq(Custom)
        /\ \A i \in DOMAIN queue' : \E j \in DOMAIN queue : queue'[i] = queue[j]
    <2>1. CASE queue' = queue
      BY <1>1, <2>1
    <2>2. CASE queue # <<>> /\ queue' = Tail(queue)
      <3>1. /\ queue' \in Seq(Custom)
            /\ \A i \in DOMAIN queue' : i + 1 \in DOMAIN queue /\ queue'[i] = queue[i + 1]
        BY <1>1, <2>2, PopFacts
      <3> QED BY <3>1
    <2> QED BY <2>1, <2>2
  <1>3. RunInv'
    <2>1. NoRun' => queue' = <<>>
      BY DEF TurnInv, RunInv, NoRun
    <2>2. ~NoRun' => run'.by \in Inputs /\ At(run.by, {"given"})'
      BY DEF TurnInv, RunInv, NoRun, At
    <2>3. \A i \in DOMAIN queue' : At(queue[i], {"given"})' /\ input'[queue'[i]].signal = run'.id
      <3>1. \A j \in DOMAIN queue : queue[j] \in Inputs
        BY <1>1
      <3> QED BY <1>2, <3>1 DEF TurnInv, RunInv, At
    <2> QED BY <2>1, <2>2, <2>3 DEF RunInv
  <1>4. AbortedInv'
    <2> SUFFICES ASSUME run.aborted
                 PROVE  AbortedInv'
      BY DEF AbortedInv
    <2>1. /\ queue' = queue /\ ~NoRun /\ queue = <<>> /\ lane # <<>>
          /\ Head(lane)[1] \in {"cancel", "interrupt"} /\ Names(Head(lane))
      BY DEF TurnInv, AbortedInv
    <2>2. Head(lane) \in OpSet
      BY <1>1, <2>1, PopFacts
    <2>3. Head(lane)[1] = "cancel" => Head(lane)[2] \in Inputs
      BY <2>2, OpFacts
    <2> QED BY <2>1, <2>3 DEF AbortedInv, Names, NoRun
  <1>5. LaneInv'
    <2>1. ASSUME NEW i \in DOMAIN lane
          PROVE  OpHolds(lane[i])'
      <3>1. lane[i] \in OpSet /\ OpHolds(lane[i])
        BY <1>1 DEF TurnInv, LaneInv
      <3> QED BY <3>1, OpFacts DEF OpHolds, At
    <2> QED BY <2>1 DEF TurnInv, LaneInv
  <1>6. InterruptInv'
    <2>1. CASE Interrupting
      <3>1. WaitingInv /\ QueueInv
        BY <2>1 DEF TurnInv, InterruptInv
      <3>2. WaitingInv'
        BY <1>1, <3>1 DEF WaitingInv, At
      <3>3. QueueInv'
        BY <1>2, <3>1 DEF QueueInv
      <3> QED BY <3>2, <3>3 DEF TurnInv, InterruptInv
    <2>2. CASE ~Interrupting
      BY <2>2 DEF TurnInv, InterruptInv, Interrupting
    <2> QED BY <2>1, <2>2
  <1>7. ForwardInv'
    BY DEF TurnInv, ForwardInv, At, Inputs
  <1> QED BY <1>1, <1>2, <1>3, <1>4, <1>5, <1>6, <1>7 DEF TurnInv, TypeInv

LEMMA CommitOwnKeeps ==
  ASSUME TurnInv, CommitOwn
  PROVE  TurnInv'
  <1>1. run.by \in Inputs /\ At(run.by, {"given"}) /\ Commits(run.by)
    BY DEF CommitOwn, TurnInv, RunInv
  <1>2. PICK x \in Inputs : x = run.by
    BY <1>1
  <1>3. At(x, {"given"}) /\ Commits(x)
    BY <1>1, <1>2
  <1>4. /\ input' \in [Inputs -> InputSet] /\ committed' \subseteq Inputs /\ ProofInv'
        /\ \A y \in Inputs : /\ input'[y].step = input[y].step
                             /\ input'[y].signal = input[y].signal
                             /\ input'[y].cancelled = input[y].cancelled
    BY <1>3, CommitsFacts
  <1> QED BY <1>4, CommitKeeps DEF CommitOwn

LEMMA TakeQueuedKeeps ==
  ASSUME TurnInv, TakeQueued
  PROVE  TurnInv'
  <1>1. queue # <<>> /\ queue \in Seq(Custom) /\ Commits(Head(queue))
    BY DEF TakeQueued, TurnInv, TypeInv
  <1>2. 1 \in DOMAIN queue /\ Head(queue) = queue[1] /\ queue[1] \in Custom
    BY <1>1, PopFacts
  <1>3. PICK x \in Inputs : x = Head(queue)
    BY <1>2 DEF Inputs
  <1>4. At(x, {"given"}) /\ Commits(x)
    BY <1>1, <1>2, <1>3 DEF TurnInv, RunInv
  <1>5. /\ input' \in [Inputs -> InputSet] /\ committed' \subseteq Inputs /\ ProofInv'
        /\ \A y \in Inputs : /\ input'[y].step = input[y].step
                             /\ input'[y].signal = input[y].signal
                             /\ input'[y].cancelled = input[y].cancelled
    BY <1>4, CommitsFacts
  <1> QED BY <1>5, CommitKeeps DEF TakeQueued

\* When the Run ends nothing is left in the queue, so whoever is answered "uncommitted" is
\* not in the transcript and cannot get there.
LEMMA RunSettleKeeps ==
  ASSUME TurnInv, DistinctInputs, NEW failed \in BOOLEAN, RunSettles(failed)
  PROVE  TurnInv'
  <1>1. /\ TypeInv /\ input \in [Inputs -> InputSet] /\ run \in RunSet
        /\ Custom \subseteq Inputs
    BY DEF TurnInv, TypeInv, Inputs
  <1>2. queue' = <<>> /\ UNCHANGED <<lane, committed, interrupt>>
    BY DEF RunSettles, TurnInv, AbortedInv
  <1>3. run' = [run EXCEPT !.id = 0, !.by = NoOne, !.carries = {}, !.aborted = FALSE]
    BY DEF RunSettles
  <1>4. run' \in RunSet /\ run'.id = 0 /\ ~run'.aborted
    BY <1>1, <1>3 DEF RunSet
  <1>5. ASSUME NEW x \in Inputs
        PROVE  /\ input'[x] \in InputSet
               /\ input'[x].step = IF input[x].step = "given" THEN "complete" ELSE input[x].step
               /\ input'[x].signal = input[x].signal /\ input'[x].cancelled = input[x].cancelled
               /\ \/ input'[x].proof = input[x].proof
                  \/ At(x, {"given"}) /\ input[x].proof = "no" /\ input'[x].proof = "uncommitted"
    <2>1. input'[x] = [input[x] EXCEPT
                         !.proof = IF Unproved(x) /\ input[x].proof = "no" THEN "uncommitted"
                                                                       ELSE input[x].proof,
                         !.step = IF input[x].step = "given" THEN "complete" ELSE input[x].step]
      BY DEF RunSettles
    <2>2. input[x] \in InputSet
      BY <1>1
    <2>3. CASE Unproved(x) /\ input[x].proof = "no"
      BY <2>1, <2>2, <2>3 DEF InputSet, Steps, Unproved, At
    <2>4. CASE ~(Unproved(x) /\ input[x].proof = "no")
      BY <2>1, <2>2, <2>4 DEF InputSet, Steps
    <2> QED BY <2>3, <2>4
  <1>6. input' \in [Inputs -> InputSet]
    <2>1. input' = [x \in Inputs |-> input'[x]]
      BY DEF RunSettles
    <2> QED BY <1>5, <2>1
  <1>7. ProofInv'
    BY <1>2, <1>5 DEF TurnInv, ProofInv, At
  <1>8. RunInv' /\ AbortedInv'
    BY <1>2, <1>4 DEF RunInv, AbortedInv, NoRun
  <1>9. LaneInv'
    <2>1. ASSUME NEW i \in DOMAIN lane
          PROVE  OpHolds(lane[i])'
      <3>1. lane[i] \in OpSet /\ OpHolds(lane[i])
        BY DEF TurnInv, TypeInv, LaneInv
      <3>2. lane[i][1] = "submit" => lane[i][2] \in Inputs
        BY <3>1, OpFacts
      <3>3. lane[i][1] = "submit" => input'[lane[i][2]].step = "intends"
        BY <1>5, <3>1, <3>2 DEF OpHolds, At
      <3> QED BY <1>2, <3>1, <3>3 DEF OpHolds, At
    <2> QED BY <1>2, <2>1 DEF TurnInv, LaneInv
  <1>10. InterruptInv'
    <2>1. CASE Interrupting
      <3>1. WaitingInv
        BY <2>1 DEF TurnInv, InterruptInv
      <3>2. WaitingInv'
        BY <1>1, <1>2, <1>5, <3>1 DEF WaitingInv, At, Waiting
      <3> QED BY <1>2, <3>2 DEF TurnInv, InterruptInv, QueueInv
    <2>2. CASE ~Interrupting
      BY <1>2, <2>2 DEF TurnInv, InterruptInv, Interrupting
    <2> QED BY <2>1, <2>2
  <1>11. ForwardInv'
    BY <1>5 DEF TurnInv, ForwardInv, At, Inputs
  <1> QED
    BY <1>1, <1>2, <1>4, <1>6, <1>7, <1>8, <1>9, <1>10, <1>11 DEF TurnInv, TypeInv

-----------------------------------------------------------------------------
(* The human's input and a Moderator reminder. *)

LEMMA OwnInputKeeps ==
  ASSUME TurnInv, DistinctInputs, Type \/ InputContinues \/ ReserveNativeTurn \/ ForwardAnswered
  PROVE  TurnInv'
  <1>1. TypeInv /\ Native \in Inputs /\ Native # Forwarded /\ Native \notin Custom
    BY DEF TurnInv, Inputs, DistinctInputs
  <1>2. CASE Type
    <2>1. Moved(Native, "hooks") \/ Moved(Native, "refused")
      BY <1>1, <1>2, MovesTo DEF Type, Steps
    <2>2. May(Native, "hooks") /\ May(Native, "refused") /\ ~At(Native, {"intends"})
      BY <1>1, <1>2 DEF Type, May, At
    <2> QED BY <1>1, <1>2, <2>1, <2>2, MovedKeeps DEF Type
  <1>3. CASE InputContinues
    <2>1. Moved(Native, "gate")
      BY <1>1, <1>3, MovesTo DEF InputContinues, Steps
    <2>2. May(Native, "gate") /\ ~At(Native, {"intends"})
      BY <1>1, <1>3 DEF InputContinues, May, At
    <2> QED BY <1>1, <1>3, <2>1, <2>2, MovedKeeps DEF InputContinues
  <1>4. CASE ReserveNativeTurn
    <2>1. Moved(Native, "prepared")
      BY <1>1, <1>4, MovesTo DEF ReserveNativeTurn, Steps
    <2>2. May(Native, "prepared") /\ ~At(Native, {"intends"})
      BY <1>1, <1>4 DEF ReserveNativeTurn, May, At
    <2> QED BY <1>1, <1>4, <2>1, <2>2, MovedKeeps DEF ReserveNativeTurn
  <1>5. CASE ForwardAnswered
    <2>1. Moved(Native, "complete")
      BY <1>1, <1>5, MovesTo DEF ForwardAnswered, Steps
    <2>2. May(Native, "complete") /\ ~At(Native, {"intends"})
      BY <1>1, <1>5 DEF ForwardAnswered, May, At
    <2> QED BY <1>1, <1>5, <2>1, <2>2, MovedKeeps DEF ForwardAnswered
  <1> QED BY <1>2, <1>3, <1>4, <1>5

LEMMA InputForwardedKeeps ==
  ASSUME TurnInv, DistinctInputs, InputForwarded
  PROVE  TurnInv'
  <1>1. /\ TypeInv /\ Native \in Inputs /\ Forwarded \in Inputs /\ Native # Forwarded
        /\ Native \notin Custom /\ Forwarded \notin Custom
        /\ input \in [Inputs -> InputSet]
    BY DEF TurnInv, TypeInv, Inputs, DistinctInputs
  <1>2. /\ At(Native, {"hooks"}) /\ At(Forwarded, {"no"})
        /\ UNCHANGED <<run, queue, committed, lane, interrupt>>
    BY DEF InputForwarded, TurnInv, ForwardInv, At
  <1> DEFINE moved == [input EXCEPT ![Native].step = "forwarded"]
  <1>3. /\ moved \in [Inputs -> InputSet] /\ moved[Native].step = "forwarded"
        /\ \A y \in Inputs : InputFields(moved[y], input[y])
        /\ \A y \in Inputs \ {Native} : moved[y] = input[y]
    <2>1. "forwarded" \in Steps
      BY DEF Steps
    <2> QED BY <1>1, <2>1, StepOf
  <1>4. input' = [moved EXCEPT ![Forwarded].step = "gate"]
    BY DEF InputForwarded
  <1> HIDE DEF moved
  <1>5. PICK mid \in [Inputs -> InputSet] :
          /\ mid = moved
          /\ mid[Native].step = "forwarded"
          /\ \A y \in Inputs : InputFields(mid[y], input[y])
          /\ \A y \in Inputs \ {Native} : mid[y] = input[y]
    BY <1>3
  <1>6. input' = [mid EXCEPT ![Forwarded].step = "gate"]
    BY <1>5, <1>4
  <1>7. /\ input' \in [Inputs -> InputSet] /\ input'[Forwarded].step = "gate"
        /\ \A y \in Inputs : InputFields(input'[y], mid[y])
        /\ \A y \in Inputs \ {Forwarded} : input'[y] = mid[y]
    <2>1. "gate" \in Steps
      BY DEF Steps
    <2> QED BY <1>1, <1>6, <2>1, StepOf
  <1>8. \A y \in Inputs : InputFields(input'[y], input[y])
    BY <1>5, <1>7 DEF InputFields
  <1>9. /\ input'[Native].step = "forwarded"
        /\ \A y \in Inputs \ {Native, Forwarded} : input'[y] = input[y]
    BY <1>1, <1>5, <1>7
  <1>10. \A y \in Inputs : Mild(y)
    BY <1>1, <1>2, <1>7, <1>8, <1>9 DEF Mild, At
  <1>11. ForwardInv'
    BY <1>9 DEF ForwardInv, At
  <1>12. \A y \in Inputs : At(y, {"intends"}) => input'[y].step = "intends"
    BY <1>2, <1>9 DEF At
  <1> QED BY <1>2, <1>7, <1>10, <1>11, <1>12, MildKeeps

LEMMA ReminderKeeps ==
  ASSUME TurnInv, DistinctInputs, Remind \/ Reserve \/ \E commit \in BOOLEAN : Decide(commit)
  PROVE  TurnInv'
  <1>1. TypeInv /\ Reminder \in Inputs /\ Reminder # Forwarded /\ Reminder \notin Custom
    BY DEF TurnInv, Inputs, DistinctInputs
  <1>2. CASE Remind
    <2>1. Moved(Reminder, "gate")
      BY <1>1, <1>2, MovesTo DEF Remind, Steps
    <2>2. May(Reminder, "gate") /\ ~At(Reminder, {"intends"})
      BY <1>1, <1>2 DEF Remind, May, At
    <2> QED BY <1>1, <1>2, <2>1, <2>2, MovedKeeps DEF Remind
  <1>3. CASE Reserve
    <2>1. Moved(Reminder, "reserved") \/ Moved(Reminder, "failed")
      BY <1>1, <1>3, MovesTo, FailsMoves DEF Reserve, Steps
    <2>2. May(Reminder, "reserved") /\ May(Reminder, "failed") /\ ~At(Reminder, {"intends"})
      BY <1>1, <1>3 DEF Reserve, May, At
    <2> QED BY <1>1, <1>3, <2>1, <2>2, MovedKeeps DEF Reserve
  <1>4. ASSUME NEW commit \in BOOLEAN, Decide(commit)
        PROVE  TurnInv'
    <2>1. Moved(Reminder, "prepared") \/ Moved(Reminder, "failed")
      BY <1>1, <1>4, MovesTo, FailsMoves DEF Decide, Steps
    <2>2. May(Reminder, "prepared") /\ May(Reminder, "failed") /\ ~At(Reminder, {"intends"})
      BY <1>1, <1>4 DEF Decide, May, At
    <2> QED BY <1>1, <1>4, <2>1, <2>2, MovedKeeps DEF Decide
  <1> QED BY <1>2, <1>3, <1>4

-----------------------------------------------------------------------------
(* The Owner interrupts. *)

LEMMA BeginInterruptKeeps ==
  ASSUME TurnInv, BeginInterrupt
  PROVE  TurnInv'
  <1>1. /\ interrupt.step = "no" /\ UNCHANGED <<lane, input, run, queue, committed>>
        /\ interrupt' = [interrupt EXCEPT !.step = "clearing",
                                          !.before = {x \in Deliveries : input[x].step # "no"}]
    BY DEF BeginInterrupt
  <1>2. /\ interrupt' \in InterruptSet /\ interrupt'.step = "clearing"
    BY <1>1 DEF TurnInv, TypeInv, InterruptSet
  <1>3. LaneInv'
    BY <1>1, <1>2 DEF TurnInv, LaneInv, OpHolds, At
  <1>4. InterruptInv'
    BY <1>2 DEF InterruptInv, Interrupting
  <1>5. ProofInv' /\ RunInv' /\ AbortedInv' /\ ForwardInv'
    BY <1>1 DEF TurnInv, ProofInv, RunInv, AbortedInv, ForwardInv, Names, NoRun, At
  <1> QED BY <1>1, <1>2, <1>3, <1>4, <1>5 DEF TurnInv, TypeInv

LEMMA IntendKeeps ==
  ASSUME TurnInv, NEW kind \in {"clear", "interrupt"}, Intend(kind)
  PROVE  TurnInv'
  <1> DEFINE op == <<kind, kind>>
  <1>1. /\ lane' = Append(lane, op) /\ UNCHANGED <<input, run, queue, committed, interrupt>>
        /\ \A i \in DOMAIN lane : lane[i] # op
        /\ interrupt.step = (IF kind = "clear" THEN "clearing" ELSE "aborting")
    BY DEF Intend
  <1>2. op \in OpSet /\ op[1] = kind /\ OpHolds(op)'
    BY <1>1 DEF OpSet, OpHolds
  <1>3. \A o \in OpSet : OpHolds(o) => OpHolds(o)'
    BY <1>1 DEF OpHolds, At
  <1>4. \A y \in Inputs : InputFields(input'[y], input[y])
    BY <1>1 DEF InputFields
  <1> HIDE DEF op
  <1>5. /\ lane' \in Seq(OpSet) /\ LaneInv' /\ AbortedInv'
        /\ \A q : CancelledIn(lane, q) => CancelledIn(lane', q)
    BY <1>1, <1>2, <1>3, <1>4, PushStep
  <1>6. InterruptInv'
    BY <1>1, <1>5 DEF TurnInv, InterruptInv, Interrupting, WaitingInv, QueueInv, At
  <1>7. ProofInv' /\ RunInv' /\ ForwardInv'
    BY <1>1 DEF TurnInv, ProofInv, RunInv, ForwardInv, NoRun, At
  <1> QED BY <1>1, <1>5, <1>6, <1>7 DEF TurnInv, TypeInv

\* The queue is empty when the Owner's clear is answered, and all that still waits is to be
\* cancelled.
LEMMA ClearQueueKeeps ==
  ASSUME TurnInv, ClearQueue
  PROVE  TurnInv'
  <1>1. /\ lane # <<>> /\ Head(lane) = <<"clear", "clear">> /\ lane' = Tail(lane)
        /\ queue' = <<>> /\ UNCHANGED <<input, run, committed>>
        /\ interrupt' = [interrupt EXCEPT !.step = "cancelling",
                                          !.cancels = {x \in Deliveries : Pending(x)}]
    BY DEF ClearQueue
  <1>2. /\ interrupt' \in InterruptSet /\ interrupt'.step = "cancelling"
        /\ interrupt'.cancels = {x \in Deliveries : Pending(x)}
    BY <1>1 DEF TurnInv, TypeInv, InterruptSet
  <1>3. 1 \in DOMAIN lane /\ Head(lane) = lane[1] /\ Head(lane)[1] = "clear"
    BY <1>1, PopFacts DEF TurnInv, TypeInv
  <1>4. interrupt.step = "clearing" /\ ~run.aborted
    BY <1>1, <1>3 DEF TurnInv, LaneInv, OpHolds, AbortedInv
  <1>5. lane' \in Seq(OpSet) /\ LaneInv'
    <2>1. ASSUME NEW o \in OpSet, OpHolds(o), o[1] # "cancel" => o # Head(lane)
          PROVE  OpHolds(o)'
      <3>1. o[1] # "clear"
        BY <1>1, <2>1 DEF OpSet
      <3> QED BY <1>1, <1>4, <2>1, <3>1 DEF OpHolds, At
    <2> QED BY <1>1, <2>1, PopStep
  <1>6. WaitingInv'
    BY <1>1, <1>2 DEF WaitingInv, At, Waiting, Pending, Deliveries
  <1>7. QueueInv'
    BY <1>1 DEF QueueInv
  <1>8. ProofInv' /\ RunInv' /\ AbortedInv' /\ ForwardInv'
    BY <1>1, <1>4 DEF TurnInv, ProofInv, RunInv, AbortedInv, ForwardInv, NoRun, At
  <1> QED BY <1>1, <1>2, <1>5, <1>6, <1>7, <1>8 DEF TurnInv, TypeInv, InterruptInv

\* A cancellation of what is queued gets its turn before the interrupt, which is not in the
\* lane yet.
LEMMA CancelKeeps ==
  ASSUME TurnInv, NEW x \in Inputs, Cancel(x)
  PROVE  TurnInv'
  <1>1. /\ interrupt.step = "cancelling" /\ x \in interrupt.cancels /\ x \in Deliveries
        /\ UNCHANGED <<run, queue, committed>>
        /\ interrupt' = [interrupt EXCEPT !.cancels = @ \ {x}]
    BY DEF Cancel, TurnInv, TypeInv, InterruptSet
  <1>2. /\ interrupt' \in InterruptSet /\ interrupt'.step = "cancelling"
        /\ interrupt'.cancels = interrupt.cancels \ {x}
    BY <1>1 DEF TurnInv, TypeInv, InterruptSet
  <1>3. /\ input' \in [Inputs -> InputSet]
        /\ \A y \in Inputs : /\ input'[y].step = input[y].step
                             /\ InputFields(input'[y], input[y])
        /\ Pending(x) => input'[x].cancelled
    <2> DEFINE r == [input[x] EXCEPT !.cancelled = TRUE]
    <2>1. input[x] \in InputSet /\ input \in [Inputs -> InputSet]
      BY DEF TurnInv, TypeInv
    <2>2. r \in InputSet /\ r.step = input[x].step /\ InputFields(r, input[x]) /\ r.cancelled
      BY <2>1 DEF InputSet, InputFields
    <2>3. CASE Pending(x)
      <3>1. input' = [input EXCEPT ![x] = r]
        BY <2>3 DEF Cancel
      <3> HIDE DEF r
      <3>2. \A y \in Inputs : input'[y] = IF y = x THEN r ELSE input[y]
        BY <2>1, <3>1
      <3> QED BY <2>1, <2>2, <3>1, <3>2 DEF InputFields
    <2>4. CASE ~Pending(x)
      BY <2>1, <2>4 DEF Cancel, InputFields
    <2> QED BY <2>3, <2>4
  <1>4. \A y \in Inputs : Mild(y)
    BY <1>3 DEF Mild
  <1>5. ProofInv' /\ RunInv'
    BY <1>1, <1>4, MildKeepsRun
  <1>6. ForwardInv'
    BY <1>3 DEF TurnInv, ForwardInv, At, Inputs
  <1>7. \A o \in OpSet : OpHolds(o) => OpHolds(o)'
    <2>1. ASSUME NEW o \in OpSet, OpHolds(o)
          PROVE  OpHolds(o)'
      <3>1. o[1] = "submit" => o[2] \in Inputs
        BY OpFacts
      <3> QED BY <1>1, <1>2, <1>3, <2>1, <3>1 DEF OpHolds, At
    <2> QED BY <2>1
  <1>8. /\ lane' \in Seq(OpSet) /\ LaneInv' /\ AbortedInv'
        /\ \A q : CancelledIn(lane, q) => CancelledIn(lane', q)
    <2>1. CASE lane' = lane
      <3>1. AbortedInv'
        BY <1>1, <1>4, <2>1, MildKeepsAborted
      <3>2. LaneInv'
        <4>1. ASSUME NEW i \in DOMAIN lane
              PROVE  OpHolds(lane[i])'
          <5>1. lane[i] \in OpSet /\ OpHolds(lane[i]) /\ lane'[i] = lane[i]
            BY <2>1 DEF TurnInv, TypeInv, LaneInv
          <5>2. PICK o \in OpSet : o = lane[i]
            BY <5>1
          <5>3. OpHolds(o)'
            BY <1>7, <5>1, <5>2
          <5> QED BY <5>1, <5>2, <5>3 DEF OpHolds, At
        <4> QED BY <2>1, <4>1 DEF TurnInv, LaneInv
      <3> QED BY <2>1, <3>1, <3>2 DEF TurnInv, TypeInv
    <2>2. CASE lane' = Append(lane, <<"cancel", x>>)
      <3> DEFINE op == <<"cancel", x>>
      <3>1. op \in OpSet /\ op[1] = "cancel" /\ OpHolds(op)'
        BY <1>1 DEF OpSet, OpHolds
      <3>2. lane' = Append(lane, op) /\ \A y \in Inputs : InputFields(input'[y], input[y])
        BY <1>3, <2>2
      <3> HIDE DEF op
      <3> QED BY <1>1, <1>7, <3>1, <3>2, PushStep
    <2> QED BY <2>1, <2>2 DEF Cancel
  <1>9. WaitingInv'
    <2>1. ASSUME NEW y \in Custom, At(y, Waiting)'
          PROVE  y \in interrupt'.cancels \/ input'[y].cancelled
      <3>1. y \in Inputs /\ At(y, Waiting)
        BY <1>3, <2>1 DEF Inputs, At
      <3>2. y \in interrupt.cancels \/ input[y].cancelled
        BY <1>1, <2>1, <3>1 DEF TurnInv, InterruptInv, Interrupting, WaitingInv
      <3>3. CASE y = x
        <4>1. Pending(x)
          BY <3>1, <3>3 DEF Pending, At, Waiting
        <4> QED BY <1>3, <3>3, <4>1
      <3>4. CASE y # x
        BY <1>2, <1>3, <3>1, <3>2, <3>4 DEF InputFields
      <3> QED BY <3>3, <3>4
    <2> QED BY <2>1 DEF WaitingInv
  <1>10. QueueInv'
    <2>1. ASSUME NEW i \in DOMAIN queue
          PROVE  queue[i] \in interrupt'.cancels \/ CancelledIn(lane', queue[i])
      <3>1. queue[i] \in interrupt.cancels \/ CancelledIn(lane, queue[i])
        BY <1>1 DEF TurnInv, InterruptInv, Interrupting, QueueInv
      <3>2. CASE queue[i] # x
        BY <1>2, <1>8, <3>1, <3>2
      <3>3. CASE queue[i] = x
        <4>1. At(x, {"given"}) /\ input[x].signal = run.id /\ queue # <<>>
          BY <3>3 DEF TurnInv, RunInv, TypeInv
        <4>2. input[x].signal # 0 /\ Pending(x)
          BY <4>1 DEF TurnInv, RunInv, NoRun, Pending, At
        <4>3. lane' = Append(lane, <<"cancel", x>>)
          BY <4>2 DEF Cancel
        <4> DEFINE n == Len(lane) + 1
        <4>4. /\ n \in DOMAIN lane' /\ lane'[n] = <<"cancel", x>> /\ n \in Nat
              /\ \A j \in 1 .. n : j # n => j \in DOMAIN lane /\ lane'[j] = lane[j]
          <5>1. lane \in Seq(OpSet) /\ <<"cancel", x>> \in OpSet
            BY <1>1 DEF TurnInv, TypeInv, OpSet
          <5> QED BY <4>3, <5>1, PushFacts
        <4>5. \A j \in DOMAIN lane : lane[j][1] # "interrupt"
          BY <1>1 DEF TurnInv, LaneInv, OpHolds
        <4>6. \A j \in 1 .. n : lane'[j][1] # "interrupt"
          BY <4>4, <4>5
        <4> HIDE DEF n
        <4>7. CancelledIn(lane', x)
          BY <4>4, <4>6 DEF CancelledIn
        <4> QED BY <3>3, <4>7
      <3> QED BY <3>2, <3>3
    <2> QED BY <1>1, <2>1 DEF QueueInv
  <1> QED
    BY <1>1, <1>2, <1>3, <1>5, <1>6, <1>8, <1>9, <1>10 DEF TurnInv, TypeInv, InterruptInv

\* cancel, for a reminder: it leaves what is given as it is.
LEMMA CancelledReminderFacts ==
  ASSUME TurnInv, DistinctInputs, input' = CancelledReminder(input)
  PROVE  input' \in [Inputs -> InputSet] /\ (\A y \in Inputs : Mild(y)) /\ ForwardInv'
  <1> DEFINE r == [input[Reminder] EXCEPT
                     !.cancelled = input[Reminder].cancelled \/ input[Reminder].step # "no",
                     !.step = IF input[Reminder].step = "reserved" THEN "failed"
                                                                   ELSE input[Reminder].step]
  <1>1. /\ Reminder \in Inputs /\ Reminder \notin Custom
        /\ Reminder # Native /\ Reminder # Forwarded
        /\ input \in [Inputs -> InputSet] /\ input[Reminder] \in InputSet
    BY DEF Inputs, DistinctInputs, TurnInv, TypeInv
  <1>2. /\ r \in InputSet /\ InputFields(r, input[Reminder])
        /\ r.step = (IF input[Reminder].step = "reserved" THEN "failed" ELSE input[Reminder].step)
    <2>1. (input[Reminder].cancelled \/ input[Reminder].step # "no") \in BOOLEAN
      OBVIOUS
    <2> QED BY <1>1, <2>1 DEF InputSet, Steps, InputFields
  <1>3. input' = [input EXCEPT ![Reminder] = r]
    BY DEF CancelledReminder
  <1> HIDE DEF r
  <1>4. \A y \in Inputs : input'[y] = IF y = Reminder THEN r ELSE input[y]
    BY <1>1, <1>3
  <1>5. input' \in [Inputs -> InputSet]
    BY <1>1, <1>2, <1>3
  <1>6. \A y \in Inputs : Mild(y)
    BY <1>1, <1>2, <1>4 DEF Mild, InputFields, At
  <1>7. ForwardInv'
    BY <1>1, <1>4 DEF TurnInv, ForwardInv, At, Inputs
  <1> QED BY <1>5, <1>6, <1>7

LEMMA RunInterruptKeeps ==
  ASSUME TurnInv, DistinctInputs, RunInterrupt
  PROVE  TurnInv'
  <1>1. /\ interrupt.step = "cancelling" /\ interrupt.cancels = {}
        /\ interrupt' = [interrupt EXCEPT !.step = "aborting"]
        /\ input' = CancelledReminder(input) /\ UNCHANGED <<lane, run, queue, committed>>
    BY DEF RunInterrupt
  <1>2. /\ interrupt' \in InterruptSet /\ interrupt'.step = "aborting"
        /\ interrupt'.cancels = {}
    BY <1>1 DEF TurnInv, TypeInv, InterruptSet
  <1>3. /\ input' \in [Inputs -> InputSet] /\ (\A y \in Inputs : Mild(y)) /\ ForwardInv'
    BY <1>1, CancelledReminderFacts
  <1>4. ProofInv' /\ RunInv' /\ AbortedInv'
    BY <1>1, <1>3, MildKeepsRun, MildKeepsAborted
  <1>5. \A y \in Inputs : At(y, {"intends"}) => input'[y].step = "intends"
    <2>1. input \in [Inputs -> InputSet] /\ Reminder \in Inputs
      BY DEF TurnInv, TypeInv, Inputs
    <2>2. \A y \in Inputs \ {Reminder} : input'[y] = input[y]
      BY <1>1, <2>1 DEF CancelledReminder
    <2>3. At(Reminder, {"intends"}) => input'[Reminder].step = "intends"
      BY <1>1, <2>1 DEF CancelledReminder, At
    <2> QED BY <2>2, <2>3 DEF At
  <1>6. LaneInv'
    <2>1. ASSUME NEW i \in DOMAIN lane
          PROVE  OpHolds(lane[i])'
      <3>1. lane[i] \in OpSet /\ OpHolds(lane[i])
        BY DEF TurnInv, TypeInv, LaneInv
      <3>2. lane[i][1] = "submit" => lane[i][2] \in Inputs
        BY <3>1, OpFacts
      <3> QED BY <1>1, <1>2, <1>5, <3>1, <3>2 DEF OpHolds, At
    <2> QED BY <1>1, <2>1 DEF TurnInv, LaneInv
  <1>7. WaitingInv /\ QueueInv
    BY <1>1 DEF TurnInv, InterruptInv, Interrupting
  <1>8. WaitingInv'
    <2>1. ASSUME NEW y \in Custom, input'[y].step \in Waiting
          PROVE  input'[y].cancelled
      <3>1. y \in Inputs
        BY DEF Inputs
      <3>2. input[y].step \in Waiting
        BY <1>1, <1>3, <2>1, <3>1 DEF Mild, At, Interrupting
      <3> QED BY <1>1, <1>3, <1>7, <3>1, <3>2 DEF WaitingInv, At, Mild, InputFields
    <2> QED BY <2>1 DEF WaitingInv, At
  <1>9. QueueInv'
    BY <1>1, <1>2, <1>7 DEF QueueInv
  <1> QED
    BY <1>1, <1>2, <1>3, <1>4, <1>6, <1>8, <1>9 DEF TurnInv, TypeInv, InterruptInv

\* Whoever aborts the Run leaves nothing in its queue.
LEMMA AbortRunKeeps ==
  ASSUME TurnInv, AbortRun
  PROVE  TurnInv'
  <1>1. /\ lane # <<>> /\ Head(lane)[1] \in {"cancel", "interrupt"} /\ Names(Head(lane))
        /\ run' = [run EXCEPT !.aborted = TRUE] /\ input' = Abandoned(input)
        /\ queue' = (IF Head(lane)[1] = "cancel" THEN <<>> ELSE queue)
        /\ UNCHANGED <<lane, committed, interrupt>>
    BY DEF AbortRun
  <1>2. /\ input' \in [Inputs -> InputSet]
        /\ \A y \in Inputs : /\ InputFields(input'[y], input[y])
                             /\ input'[y].step = input[y].step
    BY <1>1, AbandonedFacts DEF TurnInv, TypeInv
  <1>3. run' \in RunSet /\ run'.id = run.id /\ run'.by = run.by
    BY <1>1 DEF TurnInv, TypeInv, RunSet
  <1>4. Head(lane) = lane[1] /\ 1 \in DOMAIN lane /\ lane[1] \in OpSet
    BY <1>1, PopFacts DEF TurnInv, TypeInv
  <1>5. queue' = <<>>
    <2>1. CASE Head(lane)[1] = "interrupt"
      <3>1. interrupt.step = "aborting"
        BY <1>4, <2>1 DEF TurnInv, LaneInv, OpHolds
      <3>2. \A i \in DOMAIN queue : CancelledIn(lane, queue[i])
        BY <3>1 DEF TurnInv, InterruptInv, Interrupting, QueueInv
      <3>3. ASSUME NEW x
            PROVE  ~CancelledIn(lane, x)
        <4> SUFFICES ASSUME NEW i \in DOMAIN lane, \A j \in 1 .. i : lane[j][1] # "interrupt"
                     PROVE  FALSE
          BY DEF CancelledIn
        <4>1. DOMAIN lane = 1 .. Len(lane)
          BY DEF TurnInv, TypeInv
        <4>2. 1 \in 1 .. i
          BY <4>1
        <4> QED BY <1>4, <2>1, <4>2
      <3>4. DOMAIN queue = {}
        BY <3>2, <3>3
      <3> QED BY <1>1, <2>1, <3>4 DEF TurnInv, TypeInv
    <2> QED BY <1>1, <2>1
  <1>6. ProofInv' /\ ForwardInv'
    BY <1>1, <1>2 DEF TurnInv, ProofInv, ForwardInv, InputFields, At, Inputs
  <1>7. ~NoRun
    BY <1>1 DEF Names
  <1>8. RunInv'
    BY <1>2, <1>3, <1>5, <1>7 DEF TurnInv, RunInv, NoRun, At
  <1>9. AbortedInv'
    <2>1. Head(lane)[1] = "cancel" => Head(lane)[2] \in Inputs
      BY <1>4, OpFacts
    <2>2. Names(Head(lane))'
      BY <1>1, <1>2, <1>3, <2>1 DEF Names, NoRun, InputFields
    <2> QED BY <1>1, <1>3, <1>5, <1>7, <2>2 DEF AbortedInv, NoRun
  <1>10. LaneInv'
    <2>1. ASSUME NEW i \in DOMAIN lane
          PROVE  OpHolds(lane[i])'
      <3>1. lane[i] \in OpSet /\ OpHolds(lane[i])
        BY DEF TurnInv, TypeInv, LaneInv
      <3>2. lane[i][1] = "submit" => lane[i][2] \in Inputs
        BY <3>1, OpFacts
      <3> QED BY <1>1, <1>2, <3>1, <3>2 DEF OpHolds, At
    <2> QED BY <1>1, <2>1 DEF TurnInv, LaneInv
  <1>11. InterruptInv'
    <2>1. CASE Interrupting
      <3>1. WaitingInv'
        BY <1>1, <1>2, <2>1 DEF TurnInv, InterruptInv, WaitingInv, At, InputFields, Inputs
      <3>2. QueueInv'
        BY <1>5 DEF QueueInv
      <3> QED BY <1>1, <3>1, <3>2 DEF TurnInv, InterruptInv
    <2>2. CASE ~Interrupting
      BY <1>1, <2>2 DEF TurnInv, InterruptInv, Interrupting
    <2> QED BY <2>1, <2>2
  <1> QED
    BY <1>1, <1>2, <1>3, <1>5, <1>6, <1>8, <1>9, <1>10, <1>11 DEF TurnInv, TypeInv

LEMMA AbortReturnsKeeps ==
  ASSUME TurnInv, AbortReturns
  PROVE  TurnInv'
  <1>1. /\ lane # <<>> /\ Head(lane)[1] \in {"cancel", "interrupt"} /\ ~Names(Head(lane))
        /\ lane' = Tail(lane) /\ UNCHANGED <<input, run, queue, committed>>
        /\ interrupt' = (IF Head(lane)[1] = "interrupt"
                         THEN [interrupt EXCEPT !.step = "answered"] ELSE interrupt)
    BY DEF AbortReturns
  <1>2. /\ interrupt' \in InterruptSet
        /\ Head(lane)[1] = "interrupt" => interrupt'.step = "answered"
        /\ Head(lane)[1] = "cancel" => interrupt' = interrupt
    BY <1>1 DEF TurnInv, TypeInv, InterruptSet
  <1>3. Head(lane) = lane[1] /\ 1 \in DOMAIN lane /\ lane[1] \in OpSet
    BY <1>1, PopFacts DEF TurnInv, TypeInv
  <1>4. Head(lane) = <<Head(lane)[1], Head(lane)[2]>>
        /\ (Head(lane)[1] = "cancel" => Head(lane)[2] \in Inputs)
    BY <1>3, OpFacts
  <1>5. OpHolds(Head(lane))
    BY <1>3 DEF TurnInv, LaneInv
  <1>6. /\ lane' \in Seq(OpSet) /\ LaneInv'
        /\ \A q : CancelledIn(lane, q) /\ Head(lane) # <<"cancel", q>> => CancelledIn(lane', q)
    <2>1. ASSUME NEW o \in OpSet, OpHolds(o), o[1] # "cancel" => o # Head(lane)
          PROVE  OpHolds(o)'
      <3>1. CASE Head(lane)[1] = "cancel"
        BY <1>1, <1>2, <2>1, <3>1 DEF OpHolds, At
      <3>2. CASE Head(lane)[1] = "interrupt"
        <4>1. Head(lane) = <<"interrupt", "interrupt">>
          BY <1>3, <3>2 DEF OpSet
        <4>2. o[1] # "interrupt"
          BY <2>1, <4>1 DEF OpSet
        <4>3. o[1] # "clear"
          BY <1>5, <2>1, <3>2 DEF OpHolds
        <4> QED BY <1>1, <2>1, <4>2, <4>3 DEF OpHolds, At
      <3> QED BY <1>1, <3>1, <3>2
    <2> QED BY <1>1, <2>1, PopStep
  <1>7. ~run.aborted
    BY <1>1 DEF TurnInv, AbortedInv
  <1>8. InterruptInv'
    <2>1. CASE Head(lane)[1] = "interrupt"
      BY <1>2, <2>1 DEF InterruptInv, Interrupting
    <2>2. CASE Head(lane)[1] = "cancel" /\ Interrupting
      <3>1. WaitingInv /\ QueueInv
        BY <2>2 DEF TurnInv, InterruptInv
      <3>2. WaitingInv'
        BY <1>1, <1>2, <2>2, <3>1 DEF WaitingInv, At
      <3>3. \A i \in DOMAIN queue : Head(lane) # <<"cancel", queue[i]>>
        BY <1>1, <1>4, <2>2 DEF TurnInv, RunInv, Names, NoRun, TypeInv
      <3>4. QueueInv'
        BY <1>1, <1>2, <1>6, <2>2, <3>1, <3>3 DEF QueueInv
      <3> QED BY <1>2, <2>2, <3>2, <3>4 DEF TurnInv, InterruptInv
    <2>3. CASE Head(lane)[1] = "cancel" /\ ~Interrupting
      BY <1>2, <2>3 DEF TurnInv, InterruptInv, Interrupting
    <2> QED BY <1>1, <2>1, <2>2, <2>3
  <1>9. ProofInv' /\ RunInv' /\ AbortedInv' /\ ForwardInv'
    BY <1>1, <1>7 DEF TurnInv, ProofInv, RunInv, AbortedInv, ForwardInv, NoRun, At
  <1> QED BY <1>1, <1>2, <1>6, <1>8, <1>9 DEF TurnInv, TypeInv

LEMMA InterruptDoneKeeps ==
  ASSUME TurnInv, InterruptDone
  PROVE  TurnInv'
  <1>1. /\ interrupt.step = "answered" /\ interrupt' = [interrupt EXCEPT !.step = "done"]
        /\ UNCHANGED <<lane, input, run, queue, committed>>
    BY DEF InterruptDone
  <1>2. interrupt' \in InterruptSet /\ interrupt'.step = "done"
    BY <1>1 DEF TurnInv, TypeInv, InterruptSet
  <1>3. LaneInv'
    BY <1>1 DEF TurnInv, LaneInv, OpHolds, At
  <1>4. InterruptInv'
    BY <1>2 DEF InterruptInv, Interrupting
  <1>5. ProofInv' /\ RunInv' /\ AbortedInv' /\ ForwardInv'
    BY <1>1 DEF TurnInv, ProofInv, RunInv, AbortedInv, ForwardInv, Names, NoRun, At
  <1> QED BY <1>1, <1>2, <1>3, <1>4, <1>5 DEF TurnInv, TypeInv

-----------------------------------------------------------------------------
LEMMA StepKeeps ==
  ASSUME TurnInv, DistinctInputs, Step
  PROVE  TurnInv'
  <1>1. ASSUME NEW x \in Inputs,
               Compact(x) \/ Attempt(x) \/ SubmitInTurn(x) \/ Retry(x) \/ Start(x) \/ Cancel(x)
        PROVE  TurnInv'
    BY <1>1, DispatchKeeps, AttemptKeeps, SubmitInTurnKeeps, StartKeeps, CancelKeeps
  <1>2. ASSUME NEW kind \in {"clear", "interrupt"}, Intend(kind)
        PROVE  TurnInv'
    BY <1>2, IntendKeeps
  <1> QED
    BY Zenon, <1>1, <1>2, CommitOwnKeeps, TakeQueuedKeeps, RunSettleKeeps, OwnInputKeeps,
       InputForwardedKeeps, ReminderKeeps, ClearQueueKeeps, RunInterruptKeeps, AbortRunKeeps,
       AbortReturnsKeeps, InterruptDoneKeeps DEF Step

LEMMA TurnNextKeeps ==
  ASSUME TurnInv, DistinctInputs, [TurnNext]_turnVars
  PROVE  TurnInv'
  <1>1. ASSUME NEW x \in Custom, Deliver(x)
        PROVE  TurnInv'
    BY <1>1, DispatchKeeps DEF Inputs
  <1>2. CASE UNCHANGED turnVars
    BY <1>2 DEF turnVars, TurnInv, TypeInv, ProofInv, RunInv, AbortedInv, LaneInv, InterruptInv,
                ForwardInv, NoRun, At, Names, OpHolds, Interrupting, WaitingInv, QueueInv
  <1> QED
    BY <1>1, <1>2, StepKeeps, OwnInputKeeps, ReminderKeeps, BeginInterruptKeeps DEF TurnNext

LEMMA InitHolds ==
  ASSUME TurnInit, DistinctInputs
  PROVE  TurnInv
  <1>1. TypeInv
    BY DEF TurnInit, TypeInv, InputSet, Steps, RunSet, InterruptSet
  <1>2. \A x \in Inputs : input[x].step = "no" /\ input[x].proof = "no"
    BY DEF TurnInit
  <1>3. ProofInv /\ RunInv /\ AbortedInv /\ LaneInv /\ InterruptInv
    BY <1>2 DEF TurnInit, ProofInv, RunInv, AbortedInv, LaneInv, OnceIn, InterruptInv, Interrupting,
                At, NoRun
  <1>4. ForwardInv
    BY <1>2 DEF ForwardInv, At, Inputs
  <1> QED BY <1>1, <1>3, <1>4 DEF TurnInv

-----------------------------------------------------------------------------
\* What is given to Pi, queued, cancelled and answered fits together in every reachable state.
THEOREM TurnInvariantHolds == ASSUME DistinctInputs PROVE TurnSpec => []TurnInv
  <1>1. TurnInit => TurnInv
    BY InitHolds
  <1>2. TurnInv /\ [TurnNext]_turnVars => TurnInv'
    BY TurnNextKeeps
  <1> QED BY <1>1, <1>2, PTL DEF TurnSpec

\* The commit proof that NativeSessionDriver gives for a dispatch is the truth and stays it,
\* for any number of Deliveries and whatever Run, interruption or cancellation they meet.
THEOREM ProofsAreTruthful == ASSUME DistinctInputs PROVE TurnSpec => []ProofIsTruthful
  <1>1. TurnInv => ProofIsTruthful
    BY DEF TurnInv, TypeInv, InputSet, ProofInv, ProofIsTruthful
  <1> QED BY <1>1, TurnInvariantHolds, PTL
=============================================================================
