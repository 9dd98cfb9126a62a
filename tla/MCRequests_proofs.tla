-------------------------- MODULE MCRequests_proofs --------------------------
(***************************************************************************)
(* What happens around Requests, proved for any Requests, Agents, children *)
(* and bounds.                                                             *)
(*                                                                         *)
(* Wait: the arbitration implements AnswerOnce, and a Wait is sound.  The  *)
(* argument is about what can happen between the moment a Wait resolves    *)
(* and the moment Pi appends its result.  A Wait resolves with Answers     *)
(* only when every Answer of the Requester is complete, not only those of  *)
(* its snapshot, since a snapshot leaves out only what is proved already   *)
(* (SnapshotInv).  From then on nothing can be reserved for direct         *)
(* Delivery: the Requester is not idle, and no other Wait can be preempted *)
(* while all its Requests are complete (HeldInv).  So the slots of the     *)
(* result say of each proof whether it exists until the result is appended.*)
(*                                                                         *)
(* Resume: the list a resume goes by, and the view that is drawn up from   *)
(* it, miss no Request of the snapshot that is unanswered, however the     *)
(* Agents go on, so a continuation tells its Agent of every Request that   *)
(* the Agent had authored by then and still waits for (ResumeInv).         *)
(*                                                                         *)
(* Recovery: a host knows a child exactly if it can prove its lineage.     *)
(* Spawners are born before their children, which gives the rounds of the  *)
(* search a rank to follow; a call whose native id is not repeated still   *)
(* resolves to its own entry, whatever is appended after it (RecoveryInv). *)
(*                                                                         *)
(* Evidence: what the transcripts of both Agents show agrees.  A Message   *)
(* that is scheduled or received was authored by an execution that will    *)
(* not deny it (TouchInv); and while nothing has failed, what was authored *)
(* of a kind is one Message, canonical or named by its bridge, whose       *)
(* execution goes on (BridgeInv).                                          *)
(***************************************************************************)
EXTENDS MCRequests, TLAPS, WellFoundedInduction, FiniteSetTheorems, SequenceTheorems

-----------------------------------------------------------------------------
(* The Wait (AgentWait)                                                      *)

Results == {NoResult, Preempted, Error} \cup
  {WithAnswers(f) : f \in UNION {[Q -> {"retrieved", "already"}] : Q \in SUBSET Requests}}
Intents == UNION {[Q -> [handle : Nat, seq : Nat]] : Q \in SUBSET Requests}
StartsOf == UNION {[Q -> Nat] : Q \in SUBSET Requests}
Wait == [phase : {"waiting", "result_pending", "fenced"}, run : Nat, reqs : SUBSET Requests,
         timer : BOOLEAN, candidate : Results, promise : Results, passes : SUBSET Requests,
         intent : Intents, starts : StartsOf]
Responder == [run : Nat, seq : Nat, failed : BOOLEAN,
              request : {"lost", "queued", "delivered"}]
Caller == [run : Nat, seq : Nat, failed : BOOLEAN, aborted : BOOLEAN, suspended : BOOLEAN]
Execution == [stage : {"idle", "preparing", "parked", "returned", "guarded"},
              call : Calls \cup {0}, result : Results]

\* A pending Wait: the fields that belong to its Requests, a fenced one has resolved, and
\* the Run it started for a responder is the one it was allowed to start.
WaitOK(p) ==
  /\ p \in Wait
  /\ DOMAIN p.intent = p.reqs /\ DOMAIN p.starts = p.reqs /\ p.passes \subseteq p.reqs
  /\ p.phase = "fenced" => p.promise.kind # "none"
  /\ \A r \in p.reqs : p.starts[r] \in {0, p.intent[r].seq + 1}

DataInv ==
  /\ answer \in [Requests -> {"none", "admitted", "canonical"}]
  /\ proofs \in [Requests -> {0, 1}]
  /\ inFlight \subseteq Requests
  /\ \A r \in Requests : proofs[r] = 1 => answer[r] = "canonical"
  /\ \A r \in inFlight : answer[r] = "canonical" /\ proofs[r] = 0

RunsInv == resp \in [Requests -> Responder] /\ caller \in Caller

PendInv ==
  /\ pend = [k \in Calls |-> pend[k]]
  /\ \A k \in Calls : pend[k] = NoPending \/ WaitOK(pend[k])

\* What a Wait does not ask for is proved.
SnapshotInv ==
  \A k \in Calls : Phase(k) # "absent" =>
    \A r \in Requests \ pend[k].reqs : answer[r] = "canonical" /\ proofs[r] = 1

\* No Answer is open, and none is on its way by another route.
AllComplete ==
  \A r \in Requests : answer[r] = "canonical" /\ (proofs[r] = 1 \/ r \notin inFlight)

\* A result with Answers says of each of them what the transcript holds.
Backed(x) ==
  x.kind = "answers" =>
    /\ AllComplete
    /\ DOMAIN x.slots \subseteq Requests
    /\ \A r \in DOMAIN x.slots :
         x.slots[r] = IF proofs[r] = 1 THEN "already" ELSE "retrieved"

HeldInv ==
  /\ exec \in Execution
  /\ exec.stage # "idle" => exec.call \in Calls
  /\ exec.stage \in {"returned", "guarded"} =>
       exec.result.kind # "none" /\ Backed(exec.result)
  /\ exec.stage = "parked" => Phase(exec.call) # "absent" /\ Backed(pend[exec.call].promise)

CommittedInv == committed \in [Calls -> Results] /\ ResultIsTruthful

\* The inductive invariant.
IInv == DataInv /\ RunsInv /\ PendInv /\ SnapshotInv /\ HeldInv /\ WaitIsRenewed /\ CommittedInv

-----------------------------------------------------------------------------
(* Results and the records of Waits. *)

LEMMA ResultFacts ==
  /\ NoResult \in Results /\ Preempted \in Results /\ Error \in Results
  /\ NoResult.kind = "none" /\ Preempted.kind = "preempted" /\ Error.kind = "error"
  /\ \A x \in Results : /\ x.kind \in {"none", "preempted", "error", "answers"}
                        /\ x.kind = "none" => x = NoResult
                        /\ x.kind = "error" => x = Error
  <1>1. \A f : WithAnswers(f).kind = "answers"
    BY DEF WithAnswers
  <1>2. NoResult.kind = "none" /\ Preempted.kind = "preempted" /\ Error.kind = "error"
    BY DEF NoResult, Preempted, Error
  <1> QED BY <1>1, <1>2 DEF Results

\* What InspectOne finds when no Answer is open.
LEMMA SlotFacts ==
  ASSUME DataInv, AllComplete, NEW r \in Requests
  PROVE  Slot(r) = IF proofs[r] = 1 THEN "already" ELSE "retrieved"
  <1>1. answer[r] = "canonical" /\ proofs[r] \in {0, 1} /\ (proofs[r] = 1 \/ r \notin inFlight)
    BY DEF AllComplete, DataInv
  <1>2. CASE proofs[r] = 1
    BY <1>1, <1>2 DEF Slot, InspectOne
  <1>3. CASE proofs[r] = 0
    BY <1>1, <1>3 DEF Slot, InspectOne
  <1> QED BY <1>1, <1>2, <1>3

LEMMA AggregateFacts ==
  ASSUME NEW Q \in SUBSET Requests
  PROVE  /\ Aggregate(Q) \in Results /\ Aggregate(Q).kind = "answers"
         /\ DOMAIN Aggregate(Q).slots = Q
         /\ \A r \in Q : Aggregate(Q).slots[r] = Slot(r)
  <1> DEFINE f == [r \in Q |-> Slot(r)]
  <1>1. Aggregate(Q) = WithAnswers(f)
    BY DEF Aggregate
  <1>2. f \in [Q -> {"retrieved", "already"}]
    BY DEF Slot
  <1>3. DOMAIN f = Q /\ \A r \in Q : f[r] = Slot(r)
    OBVIOUS
  <1> HIDE DEF f
  <1>4. WithAnswers(f).kind = "answers" /\ WithAnswers(f).slots = f
    BY DEF WithAnswers
  <1>5. f \in UNION {[W -> {"retrieved", "already"}] : W \in SUBSET Requests}
    BY <1>2
  <1>6. WithAnswers(f) \in Results
    BY <1>5 DEF Results
  <1> QED BY <1>1, <1>3, <1>4, <1>6

\* A result made when no Answer is open is backed.
LEMMA AggregateIsBacked ==
  ASSUME DataInv, AllComplete, NEW Q \in SUBSET Requests
  PROVE  Backed(Aggregate(Q))
  BY SlotFacts, AggregateFacts DEF Backed

\* A snapshot that is complete leaves no Answer open.
LEMMA CompleteIsAll ==
  ASSUME DataInv, NEW Q \in SUBSET Requests, Complete(Q),
         \A r \in Requests \ Q : answer[r] = "canonical" /\ proofs[r] = 1
  PROVE  AllComplete
  <1>1. ASSUME NEW r \in Requests
        PROVE  answer[r] = "canonical" /\ (proofs[r] = 1 \/ r \notin inFlight)
    <2>1. CASE r \in Q
      <3>1. InspectOne(r) \in {"retrievable", "delivered"}
        BY <2>1 DEF Complete
      <3>2. answer[r] \in {"none", "admitted", "canonical"} /\ proofs[r] \in {0, 1}
        BY DEF DataInv
      <3>3. answer[r] = "canonical"
        BY <3>1, <3>2 DEF InspectOne
      <3>4. proofs[r] = 0 => r \notin inFlight
        BY <3>1, <3>3 DEF InspectOne
      <3> QED BY <3>2, <3>3, <3>4
    <2>2. CASE r \notin Q
      BY <2>2
    <2> QED BY <2>1, <2>2
  <1> QED BY <1>1 DEF AllComplete

LEMMA AllIsComplete ==
  ASSUME DataInv, AllComplete, NEW Q \in SUBSET Requests
  PROVE  Complete(Q)
  <1>1. ASSUME NEW r \in Q PROVE InspectOne(r) \in {"retrievable", "delivered"}
    <2>1. answer[r] = "canonical" /\ proofs[r] \in {0, 1} /\ (proofs[r] = 1 \/ r \notin inFlight)
      BY DEF AllComplete, DataInv
    <2>2. CASE proofs[r] = 1
      BY <2>1, <2>2 DEF InspectOne
    <2>3. CASE proofs[r] = 0
      BY <2>1, <2>3 DEF InspectOne
    <2> QED BY <2>1, <2>2, <2>3
  <1> QED BY <1>1 DEF Complete

LEMMA FenceFacts ==
  ASSUME NEW p, WaitOK(p)
  PROVE  /\ WaitOK(Fence(p)) /\ Fence(p).reqs = p.reqs
         /\ Fence(p).phase = "fenced"
         /\ Fence(p).promise = p.promise \/ Fence(p).promise = Error
         /\ Fence(p).promise.kind # "none"
  <1>1. p \in Wait /\ p.phase # "absent" /\ p.promise \in Results
    BY DEF WaitOK, Wait
  <1>2. CASE p.phase = "fenced"
    BY <1>1, <1>2 DEF Fence, WaitOK
  <1>3. CASE p.phase # "fenced"
    <2> DEFINE e == IF p.promise = NoResult THEN Error ELSE p.promise
    <2>1. e \in Results /\ e.kind # "none" /\ (e = p.promise \/ e = Error)
      BY <1>1, ResultFacts
    <2>2. Fence(p) = [p EXCEPT !.phase = "fenced", !.timer = FALSE, !.promise = e]
      BY <1>1, <1>3 DEF Fence
    <2> HIDE DEF e
    <2>3. Fence(p) \in Wait
      BY <1>1, <2>1, <2>2 DEF Wait
    <2>4. /\ Fence(p).reqs = p.reqs /\ Fence(p).phase = "fenced" /\ Fence(p).promise = e
          /\ Fence(p).intent = p.intent /\ Fence(p).starts = p.starts
          /\ Fence(p).passes = p.passes
      BY <1>1, <2>2 DEF Wait
    <2> QED BY <2>1, <2>3, <2>4 DEF WaitOK
  <1> QED BY <1>2, <1>3

LEMMA ResumedFacts ==
  ASSUME NEW k \in Calls, WaitOK(pend[k]), NEW x \in Results, x.kind # "none"
  PROVE  /\ WaitOK(Resumed(k, x)) /\ Resumed(k, x).reqs = pend[k].reqs
         /\ Resumed(k, x).phase # "waiting"
         /\ Resumed(k, x).promise \in {x, pend[k].promise, Error}
  <1> DEFINE p == pend[k]
             y == [p EXCEPT !.phase = "result_pending", !.timer = FALSE,
                            !.candidate = x, !.promise = x]
  <1>1. Resumed(k, x) = Fence(p) \/ Resumed(k, x) = y
    BY DEF Resumed
  <1>2. p \in Wait /\ WaitOK(p)
    BY DEF WaitOK
  <1> HIDE DEF p
  <1>3. y \in Wait
    BY <1>2 DEF Wait
  <1>4. /\ y.reqs = p.reqs /\ y.phase = "result_pending" /\ y.promise = x
        /\ y.intent = p.intent /\ y.starts = p.starts /\ y.passes = p.passes
    BY <1>2 DEF Wait
  <1> HIDE DEF y
  <1>5. WaitOK(y)
    BY <1>2, <1>3, <1>4 DEF WaitOK
  <1>6. CASE Resumed(k, x) = y
    BY <1>4, <1>5, <1>6 DEF p
  <1>7. CASE Resumed(k, x) = Fence(p)
    BY <1>2, <1>7, FenceFacts DEF p
  <1> QED BY <1>1, <1>6, <1>7

LEMMA AbsentFacts ==
  /\ NoPending.phase = "absent"
  /\ \A p : WaitOK(p) => p.phase \in {"waiting", "result_pending", "fenced"}
  BY DEF NoPending, WaitOK, Wait

-----------------------------------------------------------------------------
(* What the steps of one kind keep. *)

\* The proofs are the same and no Answer is opened: what was backed is backed.
Keeps == /\ proofs' = proofs
         /\ \A r \in Requests : answer[r] = "canonical" => answer'[r] = "canonical"
         /\ AllComplete => AllComplete'

LEMMA BackedStays ==
  ASSUME Keeps, NEW x, Backed(x)
  PROVE  Backed(x)'
  BY DEF Keeps, Backed

LEMMA SameKeeps ==
  ASSUME UNCHANGED <<answer, proofs, inFlight>>
  PROVE  Keeps /\ (DataInv => DataInv') /\ (AllComplete' <=> AllComplete)
  BY DEF Keeps, AllComplete, DataInv

LEMMA SlotsFacts ==
  ASSUME NEW x \in Results, x.kind = "answers"
  PROVE  DOMAIN x.slots \subseteq Requests
  <1>1. PICK f \in UNION {[Q -> {"retrieved", "already"}] : Q \in SUBSET Requests} :
          x = WithAnswers(f)
    BY ResultFacts DEF Results
  <1>2. DOMAIN f \subseteq Requests
    OBVIOUS
  <1> QED BY <1>1, <1>2 DEF WithAnswers

\* What is committed stays true as long as proofs and Answers only become more.
LEMMA CommittedStays ==
  ASSUME CommittedInv, UNCHANGED committed,
         \A r \in Requests : proofs[r] > 0 => proofs'[r] > 0,
         \A r \in Requests : answer[r] = "canonical" => answer'[r] = "canonical"
  PROVE  CommittedInv'
  <1>1. ASSUME NEW k \in Calls, committed[k].kind = "answers"
        PROVE  \A r \in DOMAIN committed[k].slots : r \in Requests
    BY <1>1, SlotsFacts DEF CommittedInv
  <1> QED BY <1>1 DEF CommittedInv, ResultIsTruthful

\* A step of one pending Wait.
LEMMA WaitStep ==
  ASSUME IInv, DataInv', RunsInv', Keeps, UNCHANGED <<exec, committed>>,
         NEW k \in Calls, NEW p, Phase(k) # "absent", WaitOK(p),
         pend' = [pend EXCEPT ![k] = p], p.reqs = pend[k].reqs,
         p.promise = pend[k].promise \/ Backed(p.promise)',
         p.phase = "waiting" => /\ Waiting(k) /\ p.timer = pend[k].timer
                                /\ attention' = attention,
         attention' \in {attention, EndsAttention(k)}
  PROVE  IInv'
  <1>1. \A d \in Calls : pend'[d] = IF d = k THEN p ELSE pend[d]
    BY DEF IInv, PendInv
  <1>2. PendInv'
    BY <1>1 DEF IInv, PendInv
  <1>3. SnapshotInv'
    BY <1>1 DEF IInv, SnapshotInv, Phase, Keeps
  <1>4. HeldInv'
    <2>1. exec \in Execution /\ (exec.stage # "idle" => exec.call \in Calls)
      BY DEF IInv, HeldInv
    <2>2. ASSUME exec.stage \in {"returned", "guarded"}
          PROVE  exec.result.kind # "none" /\ Backed(exec.result)'
      <3>1. PICK x : x = exec.result
        OBVIOUS
      <3>2. x.kind # "none" /\ Backed(x)
        BY <2>2, <3>1 DEF IInv, HeldInv
      <3>3. Backed(x)'
        BY <3>2, BackedStays
      <3>4. x' = exec'.result
        BY <3>1
      <3> QED BY <3>1, <3>2, <3>3, <3>4
    <2>3. ASSUME exec.stage = "parked"
          PROVE  Phase(exec.call)' # "absent" /\ Backed(pend[exec.call].promise)'
      <3>1. exec.call \in Calls /\ Phase(exec.call) # "absent"
            /\ Backed(pend[exec.call].promise)
        BY <2>1, <2>3 DEF IInv, HeldInv
      <3>2. PICK x : x = pend[exec.call].promise
        OBVIOUS
      <3>3. Backed(x)'
        BY <3>1, <3>2, BackedStays
      <3>4. CASE exec.call = k
        <4>1. pend'[exec'.call] = p /\ p.phase # "absent"
          BY <1>1, <3>4, AbsentFacts
        <4>2. Backed(p.promise)'
          BY <3>2, <3>3, <3>4
        <4> QED BY <4>1, <4>2 DEF Phase
      <3>5. CASE exec.call # k
        <4>1. pend'[exec'.call] = pend[exec.call]
          BY <1>1, <3>1, <3>5
        <4> QED BY <3>1, <3>2, <3>3, <4>1 DEF Phase
      <3> QED BY <3>4, <3>5
    <2> QED BY <2>1, <2>2, <2>3 DEF HeldInv
  <1>5. WaitIsRenewed'
    BY <1>1 DEF IInv, WaitIsRenewed, Waiting, Phase, EndsAttention
  <1>6. CommittedInv'
    <2>1. \A r \in Requests : proofs[r] > 0 => proofs'[r] > 0
      BY DEF Keeps
    <2> QED BY <2>1, CommittedStays DEF IInv, Keeps
  <1> QED BY <1>2, <1>3, <1>4, <1>5, <1>6 DEF IInv

\* A step that leaves the Waits and the tool call alone.
LEMMA QuietStep ==
  ASSUME IInv, DataInv', RunsInv', UNCHANGED <<exec, pend, attention, committed>>,
         \A r \in Requests : answer[r] = "canonical" => answer'[r] = "canonical",
         \A r \in Requests : proofs[r] = 1 => proofs'[r] = 1,
         Keeps \/ exec.stage = "idle"
  PROVE  IInv'
  <1>1. PendInv' /\ SnapshotInv' /\ WaitIsRenewed'
    BY DEF IInv, PendInv, SnapshotInv, WaitIsRenewed, Waiting, Phase
  <1>2. HeldInv'
    <2>1. CASE exec.stage = "idle"
      BY <2>1 DEF IInv, HeldInv
    <2>2. CASE Keeps
      <3>1. PICK x : x = exec.result
        OBVIOUS
      <3>2. PICK y : y = pend[exec.call].promise
        OBVIOUS
      <3>3. (Backed(x) => Backed(x)') /\ (Backed(y) => Backed(y)')
        BY <2>2, BackedStays
      <3> QED BY <3>1, <3>2, <3>3 DEF IInv, HeldInv, Phase
    <2> QED BY <2>1, <2>2
  <1>3. \A r \in Requests : proofs[r] > 0 => proofs'[r] > 0
    BY DEF IInv, DataInv
  <1>4. CommittedInv'
    BY <1>3, CommittedStays DEF IInv
  <1> QED BY <1>1, <1>2, <1>4 DEF IInv

LEMMA RunStep ==
  ASSUME IInv, ResumeRun \/ FailRun \/ StartRun \/ UNCHANGED vars
               \/ \E r \in Requests : Receive(r) \/ StopResponder(r) \/ StartResponder(r)
  PROVE  IInv'
  <1>1. UNCHANGED <<exec, pend, attention, committed, answer, proofs, inFlight>>
    BY ZenonT(60) DEF ResumeRun, FailRun, StartRun, Receive, StopResponder, StartResponder, vars
  <1>2. resp \in [Requests -> Responder] /\ caller \in Caller
    BY SMTT(30) DEF IInv, RunsInv
  <1>3. caller' \in Caller
    <2>1. CASE ResumeRun
      BY <1>2, <2>1 DEF ResumeRun, Caller
    <2>2. CASE FailRun
      BY <1>2, <2>2 DEF FailRun, Caller
    <2>3. CASE StartRun
      <3>1. PICK n \in Nat : n = caller.seq + 1
        BY <1>2 DEF Caller
      <3>2. caller' = [caller EXCEPT !.run = n, !.seq = n]
        BY <2>3, <3>1 DEF StartRun
      <3> QED BY <1>2, <3>2 DEF Caller
    <2>4. CASE UNCHANGED caller
      BY <1>2, <2>4
    <2> QED BY <2>1, <2>2, <2>3, <2>4 DEF Receive, StopResponder, StartResponder, vars
  <1>4. resp' \in [Requests -> Responder]
    <2>1. CASE UNCHANGED resp
      BY <1>2, <2>1
    <2>2. ASSUME NEW r \in Requests, Receive(r) \/ StopResponder(r) \/ StartResponder(r)
          PROVE  resp' \in [Requests -> Responder]
      <3>0. resp[r] \in Responder
        BY <1>2
      <3>1. CASE Receive(r)
        BY <1>2, <3>1 DEF Receive, Responder
      <3>2. CASE StopResponder(r)
        <4>1. PICK n \in Nat : n = IF resp[r].failed THEN 0 ELSE resp[r].run
          BY <3>0 DEF Responder
        <4>2. PICK f \in BOOLEAN : f = ~resp[r].failed
          OBVIOUS
        <4>3. PICK y \in {"lost", "queued", "delivered"} :
                y = IF resp[r].failed /\ resp[r].request = "queued" THEN "lost"
                    ELSE resp[r].request
          BY <3>0 DEF Responder
        <4>4. resp' = [resp EXCEPT ![r].run = n, ![r].failed = f, ![r].request = y]
          BY <3>2, <4>1, <4>2, <4>3 DEF StopResponder
        <4> QED BY ZenonT(60), <1>2, <4>4 DEF Responder
      <3>3. CASE StartResponder(r)
        <4>1. PICK n \in Nat : n = resp[r].seq + 1
          BY <3>0 DEF Responder
        <4>2. resp' = [resp EXCEPT ![r].run = n, ![r].seq = n]
          BY <3>3, <4>1 DEF StartResponder
        <4> QED BY <1>2, <4>2 DEF Responder
      <3> QED BY <2>2, <3>1, <3>2, <3>3
    <2> QED BY <2>1, <2>2 DEF ResumeRun, FailRun, StartRun, vars
  <1>5. Keeps /\ DataInv' /\ RunsInv'
    BY <1>1, <1>3, <1>4, SameKeeps DEF RunsInv, IInv
  <1> QED BY SMTT(30), <1>1, <1>5, QuietStep

LEMMA AnswerStep ==
  ASSUME IInv, NEW r \in Requests, Admit(r) \/ BecomeCanonical(r)
  PROVE  IInv'
  <1>1. UNCHANGED <<proofs, inFlight, resp, caller, exec, pend, attention, committed>>
    BY DEF Admit, BecomeCanonical
  <1>2. DataInv
    BY DEF IInv
  <1>3. DataInv'
    BY <1>1, <1>2 DEF Admit, BecomeCanonical, DataInv
  <1>4. \A s \in Requests : answer[s] = "canonical" => answer'[s] = "canonical"
    BY <1>2 DEF Admit, BecomeCanonical, DataInv
  <1>5. Keeps
    BY <1>1, <1>4 DEF Keeps, AllComplete
  <1>6. RunsInv'
    BY <1>1 DEF RunsInv, IInv
  <1> QED BY <1>1, <1>3, <1>4, <1>5, <1>6, QuietStep

LEMMA DirectStep ==
  ASSUME IInv, NEW r \in Requests, Freeze(r) \/ DirectProof(r)
  PROVE  IInv'
  <1>1. /\ UNCHANGED <<answer, resp, caller, exec, pend, attention, committed>>
        /\ exec.stage = "idle"
    BY DEF Freeze, DirectProof
  <1>2. DataInv
    BY DEF IInv
  <1>3. DataInv' /\ \A s \in Requests : proofs[s] = 1 => proofs'[s] = 1
    <2>1. CASE Freeze(r)
      BY <1>2, <2>1 DEF Freeze, DataInv
    <2>2. CASE DirectProof(r)
      <3>1. answer[r] = "canonical" /\ proofs[r] = 0
        BY <1>2, <2>2 DEF DirectProof, DataInv
      <3>2. proofs' = [proofs EXCEPT ![r] = 1] /\ inFlight' = inFlight \ {r}
        BY <2>2, <3>1 DEF DirectProof
      <3> QED BY <1>1, <1>2, <3>1, <3>2 DEF DataInv
    <2> QED BY <2>1, <2>2
  <1>4. RunsInv'
    BY <1>1 DEF RunsInv, IInv
  <1> QED BY <1>1, <1>3, <1>4, QuietStep

-----------------------------------------------------------------------------
(* The steps of a pending Wait. *)

LEMMA RetriedFacts ==
  ASSUME NEW r \in Requests, resp[r] \in Responder
  PROVE  Retried(r) \in Responder /\ (Starts(r) => Retried(r).seq = resp[r].seq + 1)
  <1>1. PICK n \in Nat : n = resp[r].seq + 1
    BY DEF Responder
  <1>2. PICK y \in {"lost", "queued", "delivered"} :
          y = IF resp[r].request = "lost" THEN "queued" ELSE resp[r].request
    BY DEF Responder
  <1>3. CASE Starts(r)
    <2>1. Retried(r) = [resp[r] EXCEPT !.seq = n, !.run = n, !.request = y]
      BY <1>1, <1>2, <1>3 DEF Retried
    <2> QED BY <1>1, <2>1 DEF Responder
  <1>4. CASE ~Starts(r)
    <2>1. Retried(r) = [resp[r] EXCEPT !.seq = resp[r].seq, !.run = resp[r].run,
                                       !.request = y]
      BY <1>2, <1>4 DEF Retried
    <2> QED BY <1>4, <2>1 DEF Responder
  <1> QED BY <1>3, <1>4

LEMMA PassRunsStep ==
  ASSUME IInv, NEW k \in Calls, NEW r \in Requests, PassRuns(k, r)
  PROVE  IInv'
  <1> DEFINE w == pend[k]
             readmits == /\ StillWaiting(k)
                         /\ ~shutdown
                         /\ ~resp[r].failed
                         /\ answer[r] = "none"
                         /\ MayReadmit(w.intent[r], r)
             next == Retried(r)
             h == IF readmits THEN next.run ELSE w.intent[r].handle
             n == IF readmits /\ Starts(r) THEN next.seq ELSE w.starts[r]
             i == [w.intent EXCEPT ![r] = [@ EXCEPT !.handle = h]]
             t == [w.starts EXCEPT ![r] = n]
             y == [w EXCEPT !.passes = @ \ {r}, !.intent = i, !.starts = t]
  <1>1. /\ Phase(k) # "absent" /\ r \in w.passes
        /\ resp' = [resp EXCEPT ![r] = IF readmits THEN next ELSE @]
        /\ pend' = [pend EXCEPT ![k].passes = @ \ {r},
                                ![k].intent[r].handle = h, ![k].starts[r] = n]
        /\ UNCHANGED <<answer, proofs, inFlight, caller, exec, committed, attention>>
    BY Zenon DEF PassRuns, Phase
  <1>2. WaitOK(w) /\ pend = [d \in Calls |-> pend[d]]
    BY <1>1, AbsentFacts DEF IInv, PendInv, Phase
  <1>3. pend' = [pend EXCEPT ![k] = y]
    BY <1>1, <1>2 DEF WaitOK, Wait
  <1>4. resp[r] \in Responder
    BY DEF IInv, RunsInv
  <1>5. next \in Responder /\ (Starts(r) => next.seq = resp[r].seq + 1)
    BY <1>4, RetriedFacts
  <1>6. RunsInv'
    BY <1>1, <1>5 DEF IInv, RunsInv
  <1>7. r \in w.reqs /\ w.intent \in [w.reqs -> [handle : Nat, seq : Nat]]
        /\ w.starts \in [w.reqs -> Nat] /\ w.reqs \in SUBSET Requests
    <2>1. /\ w.intent \in Intents /\ w.starts \in StartsOf /\ w.reqs \in SUBSET Requests
          /\ DOMAIN w.intent = w.reqs /\ DOMAIN w.starts = w.reqs /\ w.passes \subseteq w.reqs
      BY <1>2 DEF WaitOK, Wait
    <2>2. w.intent \in [w.reqs -> [handle : Nat, seq : Nat]]
      BY <2>1 DEF Intents
    <2>3. w.starts \in [w.reqs -> Nat]
      BY <2>1 DEF StartsOf
    <2> QED BY <1>1, <2>1, <2>2, <2>3
  <1>8. h \in Nat /\ n \in Nat
    BY <1>5, <1>7 DEF Responder
  <1>9. readmits /\ Starts(r) => next.seq = w.intent[r].seq + 1
    BY <1>5, <1>7 DEF MayReadmit, Starts
  <1>10. n \in {0, w.intent[r].seq + 1}
    BY <1>2, <1>7, <1>9 DEF WaitOK
  <1> HIDE DEF readmits, next, h, n
  <1>11. /\ i \in [w.reqs -> [handle : Nat, seq : Nat]] /\ t \in [w.reqs -> Nat]
         /\ \A s \in w.reqs : i[s].seq = w.intent[s].seq
         /\ \A s \in w.reqs : t[s] = IF s = r THEN n ELSE w.starts[s]
    BY <1>7, <1>8
  <1>12. i \in Intents /\ t \in StartsOf
    BY <1>7, <1>11 DEF Intents, StartsOf
  <1>13. DOMAIN i = w.reqs /\ DOMAIN t = w.reqs
    BY <1>11
  <1>14. w \in Wait
    BY <1>2 DEF WaitOK
  <1> HIDE DEF i, t, w
  <1>15. /\ y \in Wait /\ y.reqs = w.reqs /\ y.passes = w.passes \ {r} /\ y.intent = i
         /\ y.starts = t /\ y.phase = w.phase /\ y.promise = w.promise /\ y.timer = w.timer
    BY <1>12, <1>14 DEF Wait
  <1> HIDE DEF y
  <1>16. WaitOK(y)
    BY <1>2, <1>10, <1>11, <1>13, <1>15 DEF WaitOK
  <1>17. Keeps /\ DataInv'
    BY <1>1, SameKeeps DEF IInv
  <1>18. PICK z : z = y
    OBVIOUS
  <1>19. /\ pend' = [pend EXCEPT ![k] = z] /\ WaitOK(z) /\ z.reqs = pend[k].reqs
         /\ z.promise = pend[k].promise
         /\ z.phase = "waiting" => Waiting(k) /\ z.timer = pend[k].timer
    BY <1>3, <1>15, <1>16, <1>18 DEF w, Waiting, Phase
  <1> QED BY <1>1, <1>6, <1>17, <1>19, WaitStep

LEMMA PassThrowsStep ==
  ASSUME IInv, NEW k \in Calls, NEW r \in Requests, PassThrows(k, r)
  PROVE  IInv'
  <1>1. /\ Phase(k) # "absent"
        /\ UNCHANGED <<answer, proofs, inFlight, resp, caller, exec, committed, attention>>
    BY DEF PassThrows, Phase
  <1>2. WaitOK(pend[k])
    BY <1>1, AbsentFacts DEF IInv, PendInv, Phase
  <1>3. PICK y : y = [pend[k] EXCEPT !.passes = @ \ {r}]
    OBVIOUS
  <1>4. /\ y \in Wait /\ y.reqs = pend[k].reqs /\ y.passes \subseteq pend[k].passes
        /\ y.intent = pend[k].intent /\ y.starts = pend[k].starts /\ y.phase = pend[k].phase
        /\ y.promise = pend[k].promise /\ y.timer = pend[k].timer
    BY <1>2, <1>3 DEF WaitOK, Wait
  <1>5. WaitOK(y)
    BY <1>2, <1>4 DEF WaitOK
  <1>6. pend' = [pend EXCEPT ![k] = IF Waiting(k) THEN Fence(y) ELSE y]
    BY <1>3 DEF PassThrows
  <1>7. PICK z : z = IF Waiting(k) THEN Fence(y) ELSE y
    OBVIOUS
  <1>8. Keeps /\ DataInv' /\ RunsInv'
    BY <1>1, SameKeeps DEF IInv, RunsInv
  <1>9. Backed(Error)'
    BY ResultFacts DEF Backed, Error
  <1>10. /\ WaitOK(z) /\ z.reqs = pend[k].reqs
         /\ z.promise = pend[k].promise \/ z.promise = Error
         /\ z.phase = "waiting" => Waiting(k) /\ z.timer = pend[k].timer
    <2>1. CASE Waiting(k)
      BY <1>4, <1>5, <1>7, <2>1, FenceFacts
    <2>2. CASE ~Waiting(k)
      BY <1>4, <1>5, <1>7, <2>2 DEF Waiting, Phase
    <2> QED BY <2>1, <2>2
  <1>11. Error' = Error
    BY DEF Error
  <1>12. z.promise = pend[k].promise \/ Backed(z.promise)'
    BY <1>9, <1>10, <1>11
  <1>13. pend' = [pend EXCEPT ![k] = z]
    BY <1>6, <1>7
  <1> QED BY <1>1, <1>8, <1>10, <1>12, <1>13, WaitStep

LEMMA ResumeStep ==
  ASSUME IInv, NEW k \in Calls, Waiting(k), NEW x \in Results, x.kind # "none", Backed(x)',
         ResumeWith(k, x), DataInv', RunsInv', Keeps, UNCHANGED <<exec, committed>>
  PROVE  IInv'
  <1>1. WaitOK(pend[k]) /\ Phase(k) # "absent"
    BY AbsentFacts DEF IInv, PendInv, Waiting, Phase
  <1>2. PICK z : z = Resumed(k, x)
    OBVIOUS
  <1>3. pend' = [pend EXCEPT ![k] = z] /\ attention' = EndsAttention(k)
    BY <1>2 DEF ResumeWith
  <1>4. /\ WaitOK(z) /\ z.reqs = pend[k].reqs /\ z.phase # "waiting"
        /\ z.promise \in {x, pend[k].promise, Error}
    BY <1>1, <1>2, ResumedFacts
  <1>5. Backed(Error)' /\ Error' = Error
    BY ResultFacts DEF Backed, Error
  <1>6. z.promise = pend[k].promise \/ Backed(z.promise)'
    BY <1>4, <1>5
  <1> QED BY <1>1, <1>3, <1>4, <1>6, WaitStep

\* All that a Wait asks for is complete: it resumes with Answers that are backed.
LEMMA ResumesWithAnswers ==
  ASSUME IInv, NEW k \in Calls, Waiting(k), Complete(pend[k].reqs),
         ResumeWith(k, Aggregate(pend[k].reqs)),
         UNCHANGED <<answer, proofs, inFlight, resp, caller, exec, committed>>
  PROVE  IInv'
  <1>1. pend[k].reqs \in SUBSET Requests /\ Phase(k) # "absent"
    BY AbsentFacts DEF IInv, PendInv, Waiting, Phase, WaitOK, Wait
  <1>2. AllComplete
    BY <1>1, CompleteIsAll DEF IInv, SnapshotInv
  <1>3. PICK x : x = Aggregate(pend[k].reqs)
    OBVIOUS
  <1>4. Backed(x) /\ x \in Results /\ x.kind = "answers"
    BY <1>1, <1>2, <1>3, AggregateFacts, AggregateIsBacked DEF IInv
  <1>5. Keeps /\ DataInv' /\ RunsInv'
    BY SameKeeps DEF IInv, RunsInv
  <1>6. Backed(x)'
    BY <1>4, <1>5, BackedStays
  <1> QED BY <1>3, <1>4, <1>5, <1>6, ResumeStep

LEMMA ReconcilesStep ==
  ASSUME IInv, NEW k \in Calls, Waiting(k), Reconciles(k),
         UNCHANGED <<answer, proofs, inFlight, resp, caller, exec, committed>>
  PROVE  IInv'
  <1>1. CASE Complete(pend[k].reqs)
    BY <1>1, ResumesWithAnswers DEF Reconciles
  <1>2. CASE ~Complete(pend[k].reqs)
    <2>1. WaitOK(pend[k]) /\ Phase(k) # "absent"
      BY AbsentFacts DEF IInv, PendInv, Waiting, Phase
    <2>2. PICK z : z = StartsPasses(pend[k])
      OBVIOUS
    <2>3. /\ z \in Wait /\ z.reqs = pend[k].reqs /\ z.passes = pend[k].reqs
          /\ z.intent = pend[k].intent /\ z.starts = pend[k].starts /\ z.phase = pend[k].phase
          /\ z.promise = pend[k].promise /\ z.timer = pend[k].timer
      BY <2>1, <2>2 DEF WaitOK, Wait, StartsPasses
    <2>4. WaitOK(z)
      BY <2>1, <2>3 DEF WaitOK
    <2>5. pend' = [pend EXCEPT ![k] = z] /\ attention' = attention
      BY <1>2, <2>2 DEF Reconciles
    <2>6. Keeps /\ DataInv' /\ RunsInv'
      BY SameKeeps DEF IInv, RunsInv
    <2> QED BY <2>1, <2>3, <2>4, <2>5, <2>6, WaitStep
  <1> QED BY <1>1, <1>2

LEMMA PreemptStep ==
  ASSUME IInv, NEW k \in Calls,
         NEW Q \in SUBSET {r \in Requests : answer[r] = "canonical" /\ proofs[r] = 0},
         Preempt(k, Q)
  PROVE  IInv'
  <1>1. Waiting(k) /\ UNCHANGED <<answer, proofs, resp, caller, exec, committed>>
    BY DEF Preempt
  <1>2. CASE Complete(pend[k].reqs)
    BY <1>1, <1>2, ResumesWithAnswers DEF Preempt
  <1>3. CASE ~Complete(pend[k].reqs) /\ ~Current(k)
    <2>1. UNCHANGED <<exec, pend, attention, committed, answer, proofs, inFlight>>
      BY <1>1, <1>3 DEF Preempt
    <2>2. Keeps /\ DataInv' /\ RunsInv'
      BY <1>1, <2>1, SameKeeps DEF IInv, RunsInv
    <2> QED BY <2>1, <2>2, QuietStep
  <1>4. CASE ~Complete(pend[k].reqs) /\ Current(k)
    <2>1. inFlight' = inFlight \cup Q /\ ResumeWith(k, Preempted)
      BY <1>4 DEF Preempt
    <2>2. pend[k].reqs \in SUBSET Requests
      BY <1>1, AbsentFacts DEF IInv, PendInv, Waiting, Phase, WaitOK, Wait
    <2>3. ~AllComplete
      BY <1>4, <2>2, AllIsComplete DEF IInv
    <2>4. Keeps
      BY <1>1, <2>3 DEF Keeps
    <2>5. DataInv' /\ RunsInv'
      BY <1>1, <2>1 DEF IInv, DataInv, RunsInv
    <2>6. PICK x : x = Preempted
      OBVIOUS
    <2>7. x \in Results /\ x.kind = "preempted"
      BY <2>6, ResultFacts
    <2>8. Backed(x)'
      BY <2>7 DEF Backed
    <2> QED BY <1>1, <2>1, <2>4, <2>5, <2>6, <2>7, <2>8, ResumeStep
  <1> QED BY <1>2, <1>3, <1>4

-----------------------------------------------------------------------------
(* The steps of the tool call. *)

LEMMA CallStep ==
  ASSUME IInv, NEW k \in Calls, Call(k)
  PROVE  IInv'
  <1>1. /\ exec' = [stage |-> "preparing", call |-> k, result |-> NoResult]
        /\ UNCHANGED <<answer, proofs, inFlight, resp, caller, pend, attention, committed>>
    BY DEF Call
  <1>2. DataInv' /\ RunsInv' /\ PendInv' /\ SnapshotInv'
    BY <1>1, SameKeeps DEF IInv, RunsInv, PendInv, SnapshotInv, Phase
  <1>3. exec' \in Execution /\ exec'.stage = "preparing" /\ exec'.call = k
    BY <1>1, ResultFacts DEF Execution
  <1>4. HeldInv' /\ WaitIsRenewed'
    BY <1>3 DEF HeldInv, WaitIsRenewed
  <1>5. CommittedInv'
    BY <1>1, CommittedStays DEF IInv
  <1> QED BY <1>2, <1>4, <1>5 DEF IInv

\* The call returns: what it returns is not "none", and is backed if it has Answers.
LEMMA ReturnsStep ==
  ASSUME IInv, NEW x \in Results, x.kind # "none", Backed(x), exec.stage # "idle", Returns(x),
         UNCHANGED <<answer, proofs, inFlight, resp, caller, pend, attention, committed>>
  PROVE  IInv'
  <1>1. exec \in Execution /\ exec.call \in Calls
    BY DEF IInv, HeldInv
  <1>2. exec' \in Execution /\ exec'.stage = "returned" /\ exec'.call = exec.call
        /\ exec'.result = x
    BY <1>1 DEF Returns, Execution
  <1>3. DataInv' /\ RunsInv' /\ PendInv' /\ SnapshotInv' /\ Keeps
    BY SameKeeps DEF IInv, RunsInv, PendInv, SnapshotInv, Phase
  <1>4. Backed(x)'
    BY <1>3, BackedStays
  <1>5. HeldInv' /\ WaitIsRenewed'
    BY <1>1, <1>2, <1>4 DEF HeldInv, WaitIsRenewed
  <1>6. CommittedInv'
    BY CommittedStays DEF IInv
  <1> QED BY <1>3, <1>5, <1>6 DEF IInv

LEMMA ReturnStep ==
  ASSUME IInv, Return
  PROVE  IInv'
  <1>1. /\ exec.stage = "parked" /\ pend[exec.call].phase # "absent"
        /\ pend[exec.call].promise # NoResult /\ Returns(pend[exec.call].promise)
        /\ UNCHANGED <<answer, proofs, inFlight, resp, caller, pend, attention, committed>>
    BY DEF Return
  <1>2. exec.call \in Calls /\ Backed(pend[exec.call].promise)
    BY <1>1 DEF IInv, HeldInv
  <1>3. pend[exec.call].promise \in Results
    BY <1>1, <1>2, AbsentFacts DEF IInv, PendInv, WaitOK, Wait
  <1>4. pend[exec.call].promise.kind # "none"
    BY <1>1, <1>3, ResultFacts
  <1> QED BY <1>1, <1>2, <1>3, <1>4, ReturnsStep

LEMMA PendingFacts ==
  ASSUME IInv, NEW Q \in SUBSET Requests, caller.run # 0
  PROVE  /\ Pending(Q) \in Wait /\ WaitOK(Pending(Q))
         /\ Pending(Q).reqs = Q /\ Pending(Q).phase = "waiting" /\ Pending(Q).promise = NoResult
  <1>1. \A r \in Q : IntentFor(r) \in [handle : Nat, seq : Nat]
    BY DEF IInv, RunsInv, IntentFor, Responder
  <1>2. PICK i \in Intents : i = [r \in Q |-> IntentFor(r)]
    <2>1. [r \in Q |-> IntentFor(r)] \in [Q -> [handle : Nat, seq : Nat]]
      BY <1>1
    <2>2. [r \in Q |-> IntentFor(r)] \in Intents
      BY <2>1 DEF Intents
    <2> QED BY <2>2
  <1>3. PICK t \in StartsOf : t = [r \in Q |-> 0]
    <2>1. [r \in Q |-> 0] \in [Q -> Nat]
      OBVIOUS
    <2>2. [r \in Q |-> 0] \in StartsOf
      BY <2>1 DEF StartsOf
    <2> QED BY <2>2
  <1>4. DOMAIN i = Q /\ DOMAIN t = Q /\ \A r \in Q : t[r] = 0
    BY <1>2, <1>3
  <1>5. caller.run \in Nat /\ NoResult \in Results
    BY ResultFacts DEF IInv, RunsInv, Caller
  <1>6. Pending(Q) = [phase |-> "waiting", run |-> caller.run, reqs |-> Q, timer |-> FALSE,
                      candidate |-> NoResult, promise |-> NoResult, passes |-> {},
                      intent |-> i, starts |-> t]
    BY <1>2, <1>3 DEF Pending
  <1>7. Pending(Q) \in Wait
    BY <1>5, <1>6 DEF Wait
  <1> QED BY <1>4, <1>6, <1>7 DEF WaitOK

\* A Wait of the call in execution enters the table.
LEMMA EntersStep ==
  ASSUME IInv, NEW p, WaitOK(p), p.reqs = Outstanding, Backed(p.promise),
         exec.stage = "preparing", pend' = [pend EXCEPT ![exec.call] = p],
         UNCHANGED <<answer, proofs, inFlight, resp, caller, committed>>,
         \/ /\ exec' = [exec EXCEPT !.stage = "parked"]
            /\ p.phase = "waiting" => p.timer /\ attention' = exec.call
         \/ Returns(Error)
  PROVE  IInv'
  <1>1. exec \in Execution /\ exec.call \in Calls
    BY DEF IInv, HeldInv
  <1>2. \A d \in Calls : pend'[d] = IF d = exec.call THEN p ELSE pend[d]
    BY <1>1 DEF IInv, PendInv
  <1>3. DataInv' /\ RunsInv' /\ Keeps
    BY SameKeeps DEF IInv, RunsInv
  <1>4. PendInv'
    BY <1>2 DEF IInv, PendInv
  <1>5. \A r \in Requests \ p.reqs : answer[r] = "canonical" /\ proofs[r] = 1
    BY DEF IInv, DataInv, Outstanding
  <1>6. SnapshotInv'
    BY <1>2, <1>5 DEF IInv, SnapshotInv, Phase
  <1>7. Backed(p.promise)'
    BY <1>3, BackedStays
  <1>8. CommittedInv'
    BY CommittedStays DEF IInv
  <1>9. CASE /\ exec' = [exec EXCEPT !.stage = "parked"]
             /\ p.phase = "waiting" => p.timer /\ attention' = exec.call
    <2>1. exec' \in Execution /\ exec'.stage = "parked" /\ exec'.call = exec.call
      BY <1>1, <1>9 DEF Execution
    <2>2. pend'[exec'.call] = p
      BY <1>1, <1>2, <2>1
    <2>3. HeldInv'
      BY <1>1, <1>7, <2>1, <2>2, AbsentFacts DEF HeldInv, Phase
    <2>4. WaitIsRenewed'
      BY <1>1, <1>9, <2>1, <2>2 DEF WaitIsRenewed, Waiting, Phase
    <2> QED BY <1>3, <1>4, <1>6, <1>8, <2>3, <2>4 DEF IInv
  <1>10. CASE Returns(Error)
    <2>1. exec' \in Execution /\ exec'.stage = "returned" /\ exec'.call = exec.call
          /\ exec'.result.kind = "error"
      BY <1>1, <1>10, ResultFacts DEF Execution, Returns
    <2>2. HeldInv' /\ WaitIsRenewed'
      BY <1>1, <2>1 DEF HeldInv, WaitIsRenewed, Backed
    <2> QED BY <1>3, <1>4, <1>6, <1>8, <2>2 DEF IInv
  <1> QED BY <1>9, <1>10

LEMMA PreparedStep ==
  ASSUME IInv, Prepared
  PROVE  IInv'
  <1> DEFINE Q == Outstanding
  <1>1. /\ exec.stage = "preparing"
        /\ UNCHANGED <<answer, proofs, inFlight, resp, caller, committed>>
    BY DEF Prepared
  <1>2. exec \in Execution /\ exec.call \in Calls
    BY <1>1 DEF IInv, HeldInv
  <1>3. Q \in SUBSET Requests
    BY DEF Outstanding
  <1>4. Error \in Results /\ Error.kind = "error" /\ Backed(Error) /\ Backed(NoResult)
    BY ResultFacts DEF Backed
  <1>5. CASE caller.aborted \/ shutdown \/ Q = {} \/ caller.run = 0
    <2>1. Returns(Error) /\ UNCHANGED <<pend, attention>>
      BY <1>5 DEF Prepared
    <2> QED BY <1>1, <1>4, <2>1, ReturnsStep
  <1>6. CASE ~(caller.aborted \/ shutdown \/ Q = {} \/ caller.run = 0) /\ Complete(Q)
    <2>1. PICK x : x = Aggregate(Q)
      OBVIOUS
    <2>2. PICK y : y = [Pending(Q) EXCEPT !.phase = "result_pending", !.candidate = x,
                                          !.promise = x]
      OBVIOUS
    <2>3. pend' = [pend EXCEPT ![exec.call] = y] /\ exec' = [exec EXCEPT !.stage = "parked"]
      BY <1>6, <2>1, <2>2 DEF Prepared
    <2>4. x \in Results /\ x.kind = "answers"
      BY <1>3, <2>1, AggregateFacts
    <2>5. Pending(Q) \in Wait /\ WaitOK(Pending(Q)) /\ Pending(Q).reqs = Q
      BY <1>3, <1>6, PendingFacts
    <2>6. /\ y \in Wait /\ y.reqs = Q /\ y.phase = "result_pending" /\ y.promise = x
          /\ y.intent = Pending(Q).intent /\ y.starts = Pending(Q).starts
          /\ y.passes = Pending(Q).passes
      BY <2>2, <2>4, <2>5 DEF Wait
    <2>7. WaitOK(y)
      BY <2>5, <2>6 DEF WaitOK
    <2>8. \A r \in Requests \ Q : answer[r] = "canonical" /\ proofs[r] = 1
      BY DEF IInv, DataInv, Outstanding
    <2>9. Backed(x)
      BY <1>3, <1>6, <2>1, <2>8, CompleteIsAll, AggregateIsBacked DEF IInv
    <2> QED BY <1>1, <2>3, <2>6, <2>7, <2>9, EntersStep
  <1>7. CASE /\ ~(caller.aborted \/ shutdown \/ Q = {} \/ caller.run = 0) /\ ~Complete(Q)
             /\ caller.failed \/ attention # 0
    <2>1. Returns(Error) /\ UNCHANGED attention
          /\ pend' = IF attention = 0 THEN pend ELSE [pend EXCEPT ![exec.call] = Pending(Q)]
      BY <1>7 DEF Prepared
    <2>2. CASE attention = 0
      BY <1>1, <1>4, <2>1, <2>2, ReturnsStep
    <2>3. CASE attention # 0
      <3>1. PICK y : y = Pending(Q)
        OBVIOUS
      <3>2. WaitOK(y) /\ y.reqs = Q /\ y.promise = NoResult
        BY <1>3, <1>7, <3>1, PendingFacts
      <3>3. Backed(y.promise)
        BY <1>4, <3>2
      <3>4. pend' = [pend EXCEPT ![exec.call] = y]
        BY <2>1, <2>3, <3>1
      <3> QED BY <1>1, <2>1, <3>2, <3>3, <3>4, EntersStep
    <2> QED BY <2>2, <2>3
  <1>8. CASE /\ ~(caller.aborted \/ shutdown \/ Q = {} \/ caller.run = 0) /\ ~Complete(Q)
             /\ ~(caller.failed \/ attention # 0)
    <2>1. PICK y : y = StartsPasses([Pending(Q) EXCEPT !.timer = TRUE])
      OBVIOUS
    <2>2. /\ pend' = [pend EXCEPT ![exec.call] = y] /\ attention' = exec.call
          /\ exec' = [exec EXCEPT !.stage = "parked"]
      BY <1>8, <2>1 DEF Prepared
    <2>3. /\ Pending(Q) \in Wait /\ WaitOK(Pending(Q)) /\ Pending(Q).reqs = Q
          /\ Pending(Q).phase = "waiting" /\ Pending(Q).promise = NoResult
      BY <1>3, <1>8, PendingFacts
    <2>4. /\ y \in Wait /\ y.reqs = Q /\ y.phase = "waiting" /\ y.promise = NoResult
          /\ y.intent = Pending(Q).intent /\ y.starts = Pending(Q).starts
          /\ y.passes = Q /\ y.timer
      BY <2>1, <2>3 DEF Wait, StartsPasses
    <2>5. WaitOK(y)
      BY <2>3, <2>4 DEF WaitOK
    <2>6. Backed(y.promise)
      BY <1>4, <2>4
    <2> QED BY <1>1, <2>2, <2>4, <2>5, <2>6, EntersStep
  <1> QED BY <1>5, <1>6, <1>7, <1>8

\* What the commit guard lets through is backed.
LEMMA GuardedFacts ==
  ASSUME IInv, exec.stage = "returned"
  PROVE  LET g == Guarded(exec.call, exec.result)
         IN  g \in Results /\ g.kind # "none" /\ Backed(g)
  <1> DEFINE k == exec.call  x == exec.result
  <1>1. x \in Results /\ k \in Calls /\ x.kind # "none" /\ Backed(x)
    BY DEF IInv, HeldInv, Execution
  <1>2. Error \in Results /\ Error.kind = "error" /\ Backed(Error)
    BY ResultFacts DEF Backed
  <1>3. x.kind \in {"preempted", "error", "answers"}
    BY <1>1, ResultFacts
  <1>4. CASE Phase(k) # "absent" /\ x.kind = "answers"
    <2>1. pend[k].reqs \in SUBSET Requests
      BY <1>1, <1>4, AbsentFacts DEF IInv, PendInv, Phase, WaitOK, Wait
    <2>2. AllComplete
      BY <1>1, <1>4 DEF Backed
    <2>3. PICK a : a = Aggregate(pend[k].reqs)
      OBVIOUS
    <2>4. a \in Results /\ a.kind = "answers" /\ Backed(a)
      BY <2>1, <2>2, <2>3, AggregateFacts, AggregateIsBacked DEF IInv
    <2>5. Guarded(k, x) \in {Error, a}
      BY <1>4, <2>3 DEF Guarded, Reconfirmed
    <2> QED BY <1>2, <2>4, <2>5
  <1>5. CASE Phase(k) = "absent" \/ x.kind # "answers"
    <2>1. Guarded(k, x) \in {Error, x}
      BY <1>3, <1>5 DEF Guarded
    <2> QED BY <1>1, <1>2, <2>1
  <1> QED BY <1>4, <1>5

LEMMA GuardStep ==
  ASSUME IInv, Guard
  PROVE  IInv'
  <1>1. PICK g : g = Guarded(exec.call, exec.result)
    OBVIOUS
  <1>2. /\ exec.stage = "returned" /\ exec' = [exec EXCEPT !.stage = "guarded", !.result = g]
        /\ UNCHANGED <<answer, proofs, inFlight, resp, caller, attention, committed>>
        /\ pend' = IF exec.result.kind = "error" \/ Phase(exec.call) = "absent" THEN pend
                   ELSE [pend EXCEPT ![exec.call] =
                           IF g = Error THEN Fence(pend[exec.call])
                           ELSE [pend[exec.call] EXCEPT !.candidate = g]]
    BY <1>1 DEF Guard
  <1>3. g \in Results /\ g.kind # "none" /\ Backed(g)
    BY <1>1, <1>2, GuardedFacts
  <1>4. exec \in Execution /\ exec.call \in Calls
    BY <1>2 DEF IInv, HeldInv
  <1>5. exec' \in Execution /\ exec'.stage = "guarded" /\ exec'.call = exec.call
        /\ exec'.result = g
    BY <1>2, <1>3, <1>4 DEF Execution
  <1>6. DataInv' /\ RunsInv' /\ Keeps
    BY <1>2, SameKeeps DEF IInv, RunsInv
  <1>7. Backed(g)'
    BY <1>3, <1>6, BackedStays
  <1>8. HeldInv' /\ WaitIsRenewed'
    BY <1>3, <1>4, <1>5, <1>7 DEF HeldInv, WaitIsRenewed
  <1>9. CommittedInv'
    BY <1>2, CommittedStays DEF IInv
  <1>10. PendInv' /\ SnapshotInv'
    <2>1. CASE UNCHANGED pend
      BY <1>2, <2>1 DEF IInv, PendInv, SnapshotInv, Phase
    <2>2. CASE ~(exec.result.kind = "error" \/ Phase(exec.call) = "absent")
      <3>1. PICK y : y = IF g = Error THEN Fence(pend[exec.call])
                         ELSE [pend[exec.call] EXCEPT !.candidate = g]
        OBVIOUS
      <3>2. WaitOK(pend[exec.call]) /\ Phase(exec.call) # "absent"
        BY <1>4, <2>2, AbsentFacts DEF IInv, PendInv, Phase
      <3>3. WaitOK(y) /\ y.reqs = pend[exec.call].reqs
        <4>1. CASE g = Error
          BY <3>1, <3>2, <4>1, FenceFacts
        <4>2. CASE g # Error
          <5>1. y = [pend[exec.call] EXCEPT !.candidate = g]
            BY <3>1, <4>2
          <5>2. pend[exec.call] \in Wait
            BY <3>2 DEF WaitOK
          <5>3. /\ y \in Wait /\ y.reqs = pend[exec.call].reqs
                /\ y.phase = pend[exec.call].phase /\ y.promise = pend[exec.call].promise
                /\ y.intent = pend[exec.call].intent /\ y.starts = pend[exec.call].starts
                /\ y.passes = pend[exec.call].passes
            BY <1>3, <5>1, <5>2 DEF Wait
          <5> QED BY <3>2, <5>3 DEF WaitOK
        <4> QED BY <4>1, <4>2
      <3>4. \A d \in Calls : pend'[d] = IF d = exec.call THEN y ELSE pend[d]
        BY <1>2, <1>4, <2>2, <3>1 DEF IInv, PendInv
      <3>5. pend' = [d \in Calls |-> pend'[d]]
        BY <1>2, <2>2, <3>4 DEF IInv, PendInv
      <3>6. PendInv'
        BY <3>3, <3>4, <3>5 DEF IInv, PendInv
      <3>7. SnapshotInv'
        BY <1>2, <3>2, <3>3, <3>4 DEF IInv, SnapshotInv, Phase
      <3> QED BY <3>6, <3>7
    <2> QED BY <1>2, <2>1, <2>2
  <1> QED BY <1>6, <1>8, <1>9, <1>10 DEF IInv

\* Which Answers a guarded result proves, and that the Requester lacked them.
Proved == IF exec.result.kind # "answers" THEN {}
          ELSE {r \in DOMAIN exec.result.slots : exec.result.slots[r] = "retrieved"}

LEMMA AppendFacts ==
  ASSUME IInv, AppendResult
  PROVE  /\ Proved \subseteq {r \in Requests : answer[r] = "canonical" /\ proofs[r] = 0}
         /\ Proved \cap inFlight = {}
         /\ proofs' = [r \in Requests |-> IF r \in Proved THEN 1 ELSE proofs[r]]
         /\ exec.stage = "guarded" /\ exec' = Idle
         /\ UNCHANGED <<answer, inFlight, resp, caller, attention, pend>>
         /\ committed' = [committed EXCEPT ![exec.call] = exec.result]
  <1>1. /\ exec.stage = "guarded" /\ exec' = Idle
        /\ UNCHANGED <<answer, inFlight, resp, caller, attention, pend>>
        /\ committed' = [committed EXCEPT ![exec.call] = exec.result]
        /\ proofs' = [r \in Requests |-> IF r \in Proved THEN proofs[r] + 1 ELSE proofs[r]]
    BY DEF AppendResult, Proved
  <1>2. Backed(exec.result)
    BY <1>1 DEF IInv, HeldInv
  <1>3. ASSUME NEW r \in Proved
        PROVE  r \in Requests /\ answer[r] = "canonical" /\ proofs[r] = 0 /\ r \notin inFlight
    <2>1. AllComplete /\ r \in Requests /\ exec.result.slots[r] = "retrieved"
          /\ exec.result.slots[r] = IF proofs[r] = 1 THEN "already" ELSE "retrieved"
      BY <1>2, <1>3 DEF Backed, Proved
    <2>2. proofs[r] # 1
      BY <2>1
    <2>3. proofs[r] \in {0, 1}
      BY <2>1 DEF IInv, DataInv
    <2> QED BY <2>1, <2>2, <2>3 DEF AllComplete
  <1>4. proofs' = [r \in Requests |-> IF r \in Proved THEN 1 ELSE proofs[r]]
    BY <1>1, <1>3
  <1> QED BY <1>1, <1>3, <1>4

LEMMA IdleFacts == Idle \in Execution /\ Idle.stage = "idle"
  BY ResultFacts DEF Idle, Execution

LEMMA AppendStep ==
  ASSUME IInv, AppendResult
  PROVE  IInv'
  <1>1. /\ Proved \subseteq {r \in Requests : answer[r] = "canonical" /\ proofs[r] = 0}
        /\ Proved \cap inFlight = {}
        /\ proofs' = [r \in Requests |-> IF r \in Proved THEN 1 ELSE proofs[r]]
        /\ exec.stage = "guarded" /\ exec' = Idle
        /\ UNCHANGED <<answer, inFlight, resp, caller, attention, pend>>
        /\ committed' = [committed EXCEPT ![exec.call] = exec.result]
    BY AppendFacts
  <1>2. exec.result \in Results /\ exec.call \in Calls /\ Backed(exec.result)
    BY <1>1 DEF IInv, HeldInv, Execution
  <1>3. DataInv'
    BY <1>1 DEF IInv, DataInv
  <1>4. \A r \in Requests : proofs[r] = 1 => proofs'[r] = 1
    BY <1>1
  <1>5. RunsInv' /\ PendInv'
    BY <1>1 DEF IInv, RunsInv, PendInv
  <1>6. SnapshotInv'
    BY <1>1, <1>4 DEF IInv, SnapshotInv, Phase
  <1>7. HeldInv' /\ WaitIsRenewed'
    BY <1>1, IdleFacts DEF HeldInv, WaitIsRenewed
  <1>8. committed' \in [Calls -> Results]
    BY <1>1, <1>2 DEF IInv, CommittedInv
  <1>9. ASSUME NEW k \in Calls, committed'[k].kind = "answers",
               NEW r \in DOMAIN committed'[k].slots
        PROVE  proofs'[r] > 0 /\ answer'[r] = "canonical"
    <2>1. CASE k = exec.call
      <3>1. committed'[k] = exec.result
        BY <1>1, <1>2, <2>1 DEF IInv, CommittedInv
      <3>2. /\ r \in Requests /\ AllComplete
            /\ exec.result.slots[r] = IF proofs[r] = 1 THEN "already" ELSE "retrieved"
        BY <1>2, <1>9, <3>1 DEF Backed
      <3>3. proofs[r] = 1 \/ r \in Proved
        BY <1>9, <3>1, <3>2 DEF Proved
      <3>4. proofs'[r] = 1
        BY <1>1, <3>2, <3>3
      <3> QED BY <1>1, <3>2, <3>4 DEF AllComplete
    <2>2. CASE k # exec.call
      <3>1. committed'[k] = committed[k]
        BY <1>1, <2>2 DEF IInv, CommittedInv
      <3>2. proofs[r] > 0 /\ answer[r] = "canonical"
        BY <1>9, <3>1 DEF IInv, CommittedInv, ResultIsTruthful
      <3>3. r \in Requests
        BY <1>9, <3>1, SlotsFacts DEF IInv, CommittedInv
      <3> QED BY <1>1, <1>4, <3>2, <3>3 DEF IInv, DataInv
    <2> QED BY <2>1, <2>2
  <1>10. CommittedInv'
    BY <1>8, <1>9 DEF CommittedInv, ResultIsTruthful
  <1> QED BY <1>3, <1>5, <1>6, <1>7, <1>10 DEF IInv

-----------------------------------------------------------------------------
(* The steps that end Waits. *)

LEMMA CompletesFacts ==
  ASSUME IInv, NEW Q \in SUBSET Calls, Completes(Q), UNCHANGED <<answer, proofs>>
  PROVE  PendInv' /\ SnapshotInv'
  <1>1. \A k \in Calls : pend'[k] = IF k \in Q THEN NoPending ELSE pend[k]
    BY DEF Completes
  <1>2. PendInv'
    BY <1>1 DEF IInv, PendInv, Completes
  <1>3. SnapshotInv'
    BY <1>1, AbsentFacts DEF IInv, SnapshotInv, Phase
  <1> QED BY <1>2, <1>3

LEMMA BoundaryStep ==
  ASSUME IInv, SafeBoundary
  PROVE  IInv'
  <1>1. /\ exec.stage = "idle"
        /\ UNCHANGED <<answer, proofs, inFlight, resp, caller, exec, committed>>
    BY DEF SafeBoundary
  <1>2. PICK Q \in SUBSET Calls : Completes(Q)
    BY DEF SafeBoundary
  <1>3. PendInv' /\ SnapshotInv'
    BY <1>1, <1>2, CompletesFacts
  <1>4. DataInv' /\ RunsInv' /\ HeldInv' /\ WaitIsRenewed'
    BY <1>1, SameKeeps DEF IInv, RunsInv, HeldInv, WaitIsRenewed
  <1>5. CommittedInv'
    BY <1>1, CommittedStays DEF IInv
  <1> QED BY <1>3, <1>4, <1>5 DEF IInv

LEMMA InterruptStep ==
  ASSUME IInv, Interrupt
  PROVE  IInv'
  <1>1. /\ caller' = [caller EXCEPT !.aborted = TRUE, !.suspended = TRUE]
        /\ pend' = [k \in Calls |-> IF exec.call = k THEN Fence(pend[k]) ELSE pend[k]]
        /\ UNCHANGED <<answer, proofs, inFlight, resp, attention, exec, committed>>
    BY DEF Interrupt
  <1>2. DataInv' /\ RunsInv' /\ Keeps
    BY <1>1, SameKeeps DEF IInv, RunsInv, Caller
  <1>3. \A k \in Calls : pend[k] = NoPending \/ WaitOK(pend[k])
    BY DEF IInv, PendInv
  <1>4. Fence(NoPending) = NoPending
    BY DEF Fence, NoPending
  <1>5. \A k \in Calls : pend'[k] = IF exec.call = k THEN Fence(pend[k]) ELSE pend[k]
    BY <1>1
  <1>6. PendInv'
    BY <1>1, <1>3, <1>4, <1>5, FenceFacts DEF PendInv
  <1>7. SnapshotInv'
    <2>1. ASSUME NEW k \in Calls, pend'[k].phase # "absent"
          PROVE  pend[k].phase # "absent" /\ pend'[k].reqs = pend[k].reqs
      <3>1. WaitOK(pend[k])
        BY <1>3, <1>4, <1>5, <2>1, AbsentFacts
      <3> QED BY <1>5, <3>1, FenceFacts, AbsentFacts
    <2> QED BY <1>1, <2>1 DEF IInv, SnapshotInv, Phase
  <1>8. HeldInv'
    <2>1. CASE exec.stage # "parked"
      <3>1. PICK x : x = exec.result
        OBVIOUS
      <3>2. Backed(x) => Backed(x)'
        BY <1>2, BackedStays
      <3> QED BY <1>1, <2>1, <3>1, <3>2 DEF IInv, HeldInv
    <2>2. CASE exec.stage = "parked"
      <3>1. /\ exec \in Execution /\ exec.call \in Calls /\ Phase(exec.call) # "absent"
            /\ Backed(pend[exec.call].promise)
        BY <2>2 DEF IInv, HeldInv
      <3>2. WaitOK(pend[exec.call])
        BY <1>3, <3>1, AbsentFacts DEF Phase
      <3>3. PICK x : x = pend'[exec.call].promise
        OBVIOUS
      <3>4. /\ pend'[exec.call].phase = "fenced"
            /\ x = pend[exec.call].promise \/ x = Error
        BY <1>5, <3>1, <3>2, <3>3, FenceFacts
      <3>5. Backed(x)
        BY <3>1, <3>4, ResultFacts DEF Backed
      <3>6. Backed(x)'
        BY <1>2, <3>5, BackedStays
      <3> QED BY <1>1, <2>2, <3>1, <3>3, <3>4, <3>6 DEF HeldInv, Phase
    <2> QED BY <2>1, <2>2
  <1>9. WaitIsRenewed'
    BY <1>1, <1>3, <1>4, <1>5, FenceFacts, AbsentFacts DEF WaitIsRenewed, Waiting, Phase
  <1>10. CommittedInv'
    BY <1>1, CommittedStays DEF IInv
  <1> QED BY <1>2, <1>6, <1>7, <1>8, <1>9, <1>10 DEF IInv

LEMMA EndStep ==
  ASSUME IInv, EndRun
  PROVE  IInv'
  <1>1. /\ caller' = [caller EXCEPT !.run = 0, !.failed = FALSE, !.aborted = FALSE,
                                    !.suspended = FALSE]
        /\ committed' = [k \in Calls |-> IF k = exec.call THEN Error ELSE committed[k]]
        /\ exec' = Idle /\ inFlight' = {} /\ UNCHANGED <<answer, proofs, resp>>
    BY DEF EndRun
  <1>2. PICK Q \in SUBSET Calls : Completes(Q)
    BY DEF EndRun
  <1>3. PendInv' /\ SnapshotInv'
    BY <1>1, <1>2, CompletesFacts
  <1>4. DataInv'
    BY <1>1 DEF IInv, DataInv
  <1>5. RunsInv'
    BY <1>1 DEF IInv, RunsInv, Caller
  <1>6. HeldInv' /\ WaitIsRenewed'
    BY <1>1, IdleFacts DEF HeldInv, WaitIsRenewed
  <1>7. CommittedInv'
    BY <1>1, ResultFacts DEF IInv, CommittedInv, ResultIsTruthful
  <1> QED BY <1>3, <1>4, <1>5, <1>6, <1>7 DEF IInv

LEMMA ShutdownStep ==
  ASSUME IInv, Shutdown
  PROVE  IInv'
  <1>1. /\ exec' = IF exec.stage = "parked"
                   THEN [exec EXCEPT !.stage = "returned",
                                     !.result = Fence(pend[exec.call]).promise]
                   ELSE exec
        /\ UNCHANGED <<answer, proofs, inFlight, resp, caller, committed>>
    BY DEF Shutdown
  <1>2. PICK Q \in SUBSET Calls : Completes(Q)
    BY DEF Shutdown
  <1>3. PendInv' /\ SnapshotInv'
    BY <1>1, <1>2, CompletesFacts
  <1>4. DataInv' /\ RunsInv' /\ Keeps
    BY <1>1, SameKeeps DEF IInv, RunsInv
  <1>5. CommittedInv'
    BY <1>1, CommittedStays DEF IInv
  <1>6. HeldInv' /\ WaitIsRenewed'
    <2>1. CASE exec.stage # "parked"
      <3>1. exec' = exec
        BY <1>1, <2>1
      <3>2. PICK x : x = exec.result
        OBVIOUS
      <3>3. Backed(x) => Backed(x)'
        BY <1>4, BackedStays
      <3> QED BY <2>1, <3>1, <3>2, <3>3 DEF IInv, HeldInv, WaitIsRenewed
    <2>2. CASE exec.stage = "parked"
      <3>1. PICK x : x = Fence(pend[exec.call]).promise
        OBVIOUS
      <3>2. /\ exec \in Execution /\ exec.call \in Calls /\ Phase(exec.call) # "absent"
            /\ Backed(pend[exec.call].promise)
        BY <2>2 DEF IInv, HeldInv
      <3>3. WaitOK(pend[exec.call])
        BY <3>2, AbsentFacts DEF IInv, PendInv, Phase
      <3>4. /\ x = pend[exec.call].promise \/ x = Error
            /\ x.kind # "none" /\ x \in Results
        BY <3>1, <3>3, FenceFacts DEF WaitOK, Wait
      <3>5. Backed(x)
        BY <3>2, <3>4, ResultFacts DEF Backed
      <3>6. Backed(x)'
        BY <1>4, <3>5, BackedStays
      <3>7. exec' \in Execution /\ exec'.stage = "returned" /\ exec'.call = exec.call
            /\ exec'.result = x
        BY <1>1, <2>2, <3>1, <3>2, <3>4 DEF Execution
      <3> QED BY <3>2, <3>4, <3>6, <3>7 DEF HeldInv, WaitIsRenewed
    <2> QED BY <2>1, <2>2
  <1> QED BY <1>3, <1>4, <1>5, <1>6 DEF IInv

-----------------------------------------------------------------------------
LEMMA InitHolds == ASSUME Init PROVE IInv
  <1>1. DataInv
    BY DEF Init, DataInv
  <1>2. RunsInv
    <2>1. \A r \in Requests : resp[r] \in Responder
      <3>1. [run |-> 0, seq |-> 0, failed |-> FALSE, request |-> "lost"] \in Responder
        BY DEF Responder
      <3>2. [run |-> 1, seq |-> 1, failed |-> FALSE, request |-> "delivered"] \in Responder
        BY DEF Responder
      <3> QED BY <3>1, <3>2 DEF Init
    <2>2. resp = [r \in Requests |-> resp[r]]
      BY DEF Init
    <2>3. caller \in Caller
      BY DEF Init, Caller
    <2> QED BY <2>1, <2>2, <2>3 DEF RunsInv
  <1>3. PendInv /\ SnapshotInv
    BY AbsentFacts DEF Init, PendInv, SnapshotInv, Phase
  <1>4. HeldInv /\ WaitIsRenewed
    BY IdleFacts DEF Init, HeldInv, WaitIsRenewed
  <1>5. CommittedInv
    BY ResultFacts DEF Init, CommittedInv, ResultIsTruthful
  <1> QED BY <1>1, <1>2, <1>3, <1>4, <1>5 DEF IInv

LEMMA StepHolds == ASSUME IInv, [Next]_vars PROVE IInv'
  <1>1. ASSUME NEW k \in Calls, Tick(k) \/ ReconcileCommittedAnswers(k)
        PROVE  IInv'
    <2>1. /\ Waiting(k) /\ Reconciles(k)
          /\ UNCHANGED <<answer, proofs, inFlight, resp, caller, exec, committed>>
      BY <1>1 DEF Tick, ReconcileCommittedAnswers
    <2> QED BY <2>1, ReconcilesStep
  <1>2. CASE \E k \in Calls : Call(k) \/ Tick(k) \/ ReconcileCommittedAnswers(k)
    BY <1>1, <1>2, CallStep
  <1>3. CASE \E k \in Calls, Q \in SUBSET {r \in Requests :
                  answer[r] = "canonical" /\ proofs[r] = 0} : Preempt(k, Q)
    BY <1>3, PreemptStep
  <1>4. CASE \E k \in Calls, r \in Requests : PassRuns(k, r) \/ PassThrows(k, r)
    BY <1>4, PassRunsStep, PassThrowsStep
  <1>5. CASE Prepared \/ Return \/ Guard \/ AppendResult \/ SafeBoundary
    BY <1>5, PreparedStep, ReturnStep, GuardStep, AppendStep, BoundaryStep
  <1>6. CASE \E r \in Requests : Admit(r) \/ BecomeCanonical(r) \/ Freeze(r) \/ DirectProof(r)
    BY <1>6, AnswerStep, DirectStep
  <1>7. CASE ResumeRun \/ FailRun \/ StartRun \/ UNCHANGED vars
             \/ \E r \in Requests : Receive(r) \/ StopResponder(r) \/ StartResponder(r)
    BY <1>7, RunStep
  <1>8. CASE Interrupt \/ EndRun \/ Shutdown
    BY <1>8, InterruptStep, EndStep, ShutdownStep
  <1> QED BY <1>2, <1>3, <1>4, <1>5, <1>6, <1>7, <1>8 DEF Next

-----------------------------------------------------------------------------
\* The inductive invariant holds for any Requests, calls, Runs and events.
THEOREM InvariantHolds == Spec => []IInv
  <1>1. Init => IInv
    BY InitHolds
  <1>2. IInv /\ [Next]_vars => IInv'
    BY StepHolds
  <1> QED BY <1>1, <1>2, PTL DEF Spec

\* A parked Wait keeps its timer and its Run's attention, a committed result says of each
\* Answer what the transcript holds (guardResultCommit), and a Wait starts no responder
\* but the one that it found Dormant (#retryRequestInLane).
THEOREM WaitsAreSound == Spec => []WaitIsSound
  <1>1. IInv => WaitIsSound
    <2> SUFFICES ASSUME IInv PROVE WaitIsSound
      OBVIOUS
    <2>1. ReadmitsOnce
      BY AbsentFacts DEF IInv, PendInv, Phase, WaitOK, ReadmitsOnce
    <2> QED BY <2>1 DEF WaitIsSound, IInv, CommittedInv
  <1> QED BY <1>1, InvariantHolds, PTL

\* The arbitration implements AnswerOnce: whether a tool result or a direct Delivery brings
\* it, each Answer is proved once, and only when it is canonical (answer-arbitration.ts).
THEOREM AnswersAreProvedOnce == Spec => AnsweredOnce
  <1>1. Init => AO!AInit
    BY DEF Init, AO!AInit
  <1>2. IInv /\ [Next]_vars => [AO!ANext]_(AO!aVars)
    <2> SUFFICES ASSUME IInv, [Next]_vars PROVE AO!ANext \/ UNCHANGED AO!aVars
      OBVIOUS
    <2> DEFINE K == {r \in Requests : answer[r] = "canonical"}
    <2>1. CASE UNCHANGED <<answer, proofs>>
      BY <2>1 DEF AO!aVars
    <2>2. ASSUME NEW r \in Requests, Admit(r) PROVE UNCHANGED AO!aVars
      <3>1. answer' = [answer EXCEPT ![r] = "admitted"] /\ answer[r] = "none" /\ proofs' = proofs
        BY <2>2 DEF Admit
      <3>2. K' = K
        BY <3>1 DEF IInv, DataInv
      <3> QED BY <3>1, <3>2 DEF AO!aVars
    <2>3. ASSUME NEW r \in Requests, BecomeCanonical(r) PROVE AO!ANext
      <3>1. answer' = [answer EXCEPT ![r] = "canonical"] /\ answer[r] = "admitted"
            /\ proofs' = proofs
        BY <2>3 DEF BecomeCanonical
      <3>2. K' = K \cup {r} /\ r \in Requests \ K
        BY <3>1 DEF IInv, DataInv
      <3> QED BY <3>1, <3>2 DEF AO!ANext, AO!Answer
    <2>4. ASSUME NEW r \in Requests, DirectProof(r) PROVE AO!ANext
      <3>0. answer[r] = "canonical" /\ proofs[r] = 0
        BY <2>4 DEF IInv, DataInv, DirectProof
      <3>1. answer[r] = "canonical" /\ proofs[r] = 0 /\ answer' = answer
            /\ proofs' = [proofs EXCEPT ![r] = 1]
        BY <2>4, <3>0 DEF DirectProof
      <3>2. proofs' = [s \in Requests |-> IF s \in {r} THEN 1 ELSE proofs[s]]
        BY <3>1 DEF IInv, DataInv
      <3>3. {r} \in SUBSET {s \in K : proofs[s] = 0} /\ {r} # {}
        BY <3>1
      <3> QED BY <3>1, <3>2, <3>3 DEF AO!ANext, AO!Prove
    <2>5. CASE AppendResult
      <3>1. /\ Proved \in SUBSET {r \in K : proofs[r] = 0} /\ answer' = answer
            /\ proofs' = [r \in Requests |-> IF r \in Proved THEN 1 ELSE proofs[r]]
        BY <2>5, AppendFacts
      <3>2. CASE Proved = {}
        BY <3>1, <3>2 DEF IInv, DataInv, AO!aVars
      <3>3. CASE Proved # {}
        BY <3>1, <3>3 DEF AO!ANext, AO!Prove
      <3> QED BY <3>2, <3>3
    <2>6. UNCHANGED <<answer, proofs>> \/ AppendResult
          \/ \E r \in Requests : Admit(r) \/ BecomeCanonical(r) \/ DirectProof(r)
      <3>1. ASSUME NEW k \in Calls, Call(k) \/ Tick(k) \/ ReconcileCommittedAnswers(k)
                                    \/ \E Q \in SUBSET Requests : Preempt(k, Q)
            PROVE  UNCHANGED <<answer, proofs>>
        BY SMTT(30), <3>1 DEF Call, Tick, ReconcileCommittedAnswers, Preempt
      <3>2. ASSUME NEW r \in Requests, Freeze(r) \/ Receive(r) \/ StopResponder(r)
                     \/ StartResponder(r) \/ \E k \in Calls : PassRuns(k, r) \/ PassThrows(k, r)
            PROVE  UNCHANGED <<answer, proofs>>
        BY <3>2 DEF PassRuns, PassThrows, Freeze, Receive, StopResponder, StartResponder
      <3>3. ASSUME Prepared \/ Return \/ Guard \/ SafeBoundary \/ Interrupt \/ ResumeRun
                     \/ FailRun \/ EndRun \/ StartRun \/ Shutdown \/ UNCHANGED vars
            PROVE  UNCHANGED <<answer, proofs>>
        BY <3>3 DEF vars, Prepared, Return, Guard, SafeBoundary, Interrupt, ResumeRun, FailRun,
                    EndRun, StartRun, Shutdown
      <3>4. \/ \E k \in Calls : Call(k) \/ Tick(k) \/ ReconcileCommittedAnswers(k)
                                 \/ \E Q \in SUBSET Requests : Preempt(k, Q)
            \/ \E r \in Requests :
                  \/ Freeze(r) \/ Receive(r) \/ StopResponder(r) \/ StartResponder(r)
                  \/ \E k \in Calls : PassRuns(k, r) \/ PassThrows(k, r)
                  \/ Admit(r) \/ BecomeCanonical(r) \/ DirectProof(r)
            \/ Prepared \/ Return \/ Guard \/ SafeBoundary \/ Interrupt \/ ResumeRun
            \/ FailRun \/ EndRun \/ StartRun \/ Shutdown \/ UNCHANGED vars \/ AppendResult
        BY Zenon DEF Next
      <3> QED BY <3>1, <3>2, <3>3, <3>4
    <2> QED BY <2>1, <2>2, <2>3, <2>4, <2>5, <2>6
  <1> QED BY <1>1, <1>2, InvariantHolds, PTL DEF Spec, AnsweredOnce, AO!ASpec

-----------------------------------------------------------------------------
(* What a resumed Workflow continues (WorkflowResume)                      *)

Turns == [number : Nat, phase : {"dormant", "live"}, input : BOOLEAN, held : BOOLEAN,
          kept : BOOLEAN]
Jobs  == [number : 0 .. MaxResumes, step : {"none", "activate"}, listed : SUBSET Duties,
          responders : SUBSET Duties, unsent : SUBSET Duties, at : Duties \cup {"none"}, handle : Nat]
Continuations == [agent : Duties, run : Nat, resume : 1 .. MaxResumes]
Views == [ready : BOOLEAN, outstanding : SUBSET Duties]

Asked == {"absent", "unsent", "delivered", "answered"}

\* The list of resume n and its view keep what was known and is unanswered.
Covers(n) ==
  \A d \in known[n] :
    /\ request[d] # "absent"
    /\ request[d] # "answered" =>
         /\ job.step = "activate" /\ job.number = n => d \in job.listed
         /\ views[n].ready => d \in views[n].outstanding

\* The resume on its way has a number as soon as it has a step; what the scheduler took was never
\* delivered; and no view is there before its resume.
ResumeInv ==
  /\ run \in [Duties -> Turns]
  /\ request \in [Duties -> Asked]
  /\ job \in Jobs
  /\ job.step = "activate" => job.number > 0
  /\ job.at # "none" => job.step = "activate"
  /\ responders \subseteq Continuations
  /\ scheduled \subseteq {d \in Duties : request[d] = "unsent"}
  /\ views \in [1 .. MaxResumes -> Views]
  /\ known \in [1 .. MaxResumes -> SUBSET Duties]
  /\ \A n \in 1 .. MaxResumes : n > job.number => ~views[n].ready
  /\ \A n \in 1 .. MaxResumes : Covers(n)

\* It holds when the host begins.
LEMMA ResumeInit == C!Init => ResumeInv
  <1> SUFFICES ASSUME C!Init PROVE ResumeInv
    OBVIOUS
  <1>1. run \in [Duties -> Turns]
    BY DEF C!Init, Turns
  <1>2. job \in Jobs /\ job.step = "none" /\ job.at = "none"
    BY ResumeAssumption DEF C!Init, C!Idle, C!NoAgent, Jobs
  <1>3. views \in [1 .. MaxResumes -> Views] /\ \A n \in 1 .. MaxResumes : ~views[n].ready
    BY DEF C!Init, C!NotReady, Views
  <1>4. request \in [Duties -> Asked]
    BY DEF C!Init, Asked
  <1>5. known \in [1 .. MaxResumes -> SUBSET Duties] /\ \A n \in 1 .. MaxResumes : Covers(n)
    BY DEF C!Init, Covers
  <1> QED BY <1>1, <1>2, <1>3, <1>4, <1>5 DEF ResumeInv, C!Init

\* The operators on turns keep them turns.
LEMMA TurnFacts ==
  ASSUME NEW t \in Turns
  PROVE  /\ C!Started(t) \in Turns /\ C!Ended(t) \in Turns /\ t.number \in Nat
         /\ C!Started(t).number \in Nat
         /\ [t EXCEPT !.input = TRUE] \in Turns /\ [t EXCEPT !.kept = TRUE] \in Turns
         /\ [t EXCEPT !.held = ~@] \in Turns
  <1>0. t.number \in Nat /\ t.number + 1 \in Nat
    BY DEF Turns
  <1>2. C!Started(t) \in Turns /\ C!Started(t).number \in Nat
    BY <1>0 DEF C!Started, Turns
  <1>3. C!Ended(t) \in Turns
    BY DEF C!Ended, Turns
  <1>4. [t EXCEPT !.input = TRUE] \in Turns /\ [t EXCEPT !.kept = TRUE] \in Turns
    BY DEF Turns
  <1>5. [t EXCEPT !.held = TRUE] \in Turns /\ [t EXCEPT !.held = FALSE] \in Turns
    BY DEF Turns
  <1>6. CASE t.held
    <2>1. (~t.held) = FALSE
      BY <1>6
    <2> QED BY <1>0, <1>2, <1>3, <1>4, <1>5, <2>1, Zenon
  <1>7. CASE ~t.held
    <2>1. (~t.held) = TRUE
      BY <1>7
    <2> QED BY <1>0, <1>2, <1>3, <1>4, <1>5, <2>1, Zenon
  <1> QED BY <1>6, <1>7

\* A turn may be replaced by a turn.
LEMMA TurnChanges ==
  ASSUME run \in [Duties -> Turns], NEW d \in Duties, NEW t \in Turns, run' = [run EXCEPT ![d] = t]
  PROVE  run' \in [Duties -> Turns]
  OBVIOUS

\* Steps of the Agents: a Request, an Answer, or none.
LEMMA AgentKeepsResume ==
  ASSUME ResumeInv, NEW d \in Duties,
         C!Input(d) \/ C!Ask(d) \/ C!AnswerCommits(d) \/ C!RunEnds(d) \/ C!Hold(d)
  PROVE  ResumeInv'
  <1>1. CASE C!Input(d)
    <2>1. run[d] \in Turns /\ run \in [Duties -> Turns]
      BY DEF ResumeInv
    <2>2. run' \in [Duties -> Turns]
      <3>1. CASE run[d].phase = "dormant"
        <4>1. [C!Started(run[d]) EXCEPT !.input = TRUE] \in Turns
          BY <2>1, TurnFacts
        <4>2. run' = [run EXCEPT ![d] = [C!Started(run[d]) EXCEPT !.input = TRUE]]
          BY <1>1, <2>1, <3>1 DEF C!Input
        <4> QED BY <2>1, <4>1, <4>2, TurnChanges
      <3>2. CASE run[d].phase # "dormant"
        <4>1. [run[d] EXCEPT !.input = TRUE] \in Turns
          BY <2>1, TurnFacts
        <4>2. run' = [run EXCEPT ![d] = [run[d] EXCEPT !.input = TRUE]]
          BY <1>1, <2>1, <3>2 DEF C!Input
        <4> QED BY <2>1, <4>1, <4>2, TurnChanges
      <3> QED BY <3>1, <3>2
    <2> QED BY <1>1, <2>2 DEF ResumeInv, Covers, C!Input
  <1>2. CASE C!AnswerCommits(d)
    <2>1. /\ request' \in [Duties -> Asked] /\ request[d] = "delivered" /\ request'[d] = "answered"
          /\ \A e \in Duties : e # d => request'[e] = request[e]
          /\ UNCHANGED <<run, job, responders, scheduled, views, known>>
      BY <1>2 DEF ResumeInv, Asked, C!AnswerCommits, C!Unresolved
    <2>2. ASSUME NEW n \in 1 .. MaxResumes PROVE Covers(n)'
      BY <2>1 DEF ResumeInv, Covers
    <2> QED BY <2>1, <2>2 DEF ResumeInv
  <1>5. CASE C!Ask(d)
    <2>1. /\ request' \in [Duties -> Asked] /\ request[d] = "absent" /\ request'[d] = "unsent"
          /\ \A e \in Duties : e # d => request'[e] = request[e]
          /\ scheduled' \subseteq scheduled \cup {d}
          /\ UNCHANGED <<run, job, responders, views, known>>
      BY <1>5 DEF ResumeInv, Asked, C!Ask
    <2>2. ASSUME NEW n \in 1 .. MaxResumes PROVE Covers(n)'
      BY <2>1 DEF ResumeInv, Covers
    <2>3. scheduled' \subseteq {e \in Duties : request'[e] = "unsent"}
      BY <2>1 DEF ResumeInv
    <2> QED BY <2>1, <2>2, <2>3 DEF ResumeInv
  <1>3. CASE C!RunEnds(d)
    <2>2. run' \in [Duties -> Turns]
      BY <1>3, TurnFacts, TurnChanges DEF ResumeInv, C!RunEnds
    <2> QED BY <1>3, <2>2 DEF ResumeInv, Covers, C!RunEnds
  <1>4. CASE C!Hold(d)
    <2>2. run' \in [Duties -> Turns]
      <3>1. run[d] \in Turns /\ run \in [Duties -> Turns]
        BY DEF ResumeInv
      <3>2. run' = [run EXCEPT ![d] = [run[d] EXCEPT !.held = ~@]]
        BY <1>4, <3>1 DEF C!Hold
      <3> QED BY <3>1, <3>2, TurnFacts, TurnChanges
    <2> QED BY <1>4, <2>2 DEF ResumeInv, Covers, C!Hold
  <1> QED BY <1>1, <1>2, <1>3, <1>4, <1>5

\* One lemma per action: a resume begins,
LEMMA ResumeBegins ==
  ASSUME ResumeInv, C!Resume PROVE ResumeInv'
  <1> PICK j : j = job'
    OBVIOUS
  <1> PICK m : m = job.number + 1
    OBVIOUS
  <1>1. /\ job \in Jobs /\ m \in 1 .. MaxResumes /\ job.number \in Nat
        /\ {d \in Duties : C!Unresolved(d)} \in SUBSET Duties
        /\ {d \in Duties : request[d] = "unsent"} \in SUBSET Duties
        /\ {d \in Duties : request[d] \in {"unsent", "delivered"}} \in SUBSET Duties
    BY ResumeAssumption DEF ResumeInv, C!Resume, Jobs
  <1>2. j = [number |-> m, step |-> "activate",
             listed |-> {d \in Duties : request[d] \in {"unsent", "delivered"}},
             responders |-> {d \in Duties : C!Unresolved(d)},
             unsent |-> {d \in Duties : request[d] = "unsent"}, at |-> "none", handle |-> 0]
    BY DEF C!Resume, C!Idle, C!NoAgent
  <1>3. j \in Jobs /\ j.at = "none" /\ j.number = m /\ m > 0
        /\ j.listed = {d \in Duties : request[d] \in {"unsent", "delivered"}}
    BY <1>1, <1>2 DEF Jobs
  <1>4. known' = [known EXCEPT ![m] = {d \in Duties : request[d] # "absent"}]
        /\ UNCHANGED <<run, request, responders, scheduled, views>>
    BY DEF C!Resume
  <1>5. known' \in [1 .. MaxResumes -> SUBSET Duties]
        /\ known'[m] = {d \in Duties : request[d] # "absent"}
        /\ \A n \in 1 .. MaxResumes : n # m => known'[n] = known[n]
    BY <1>1, <1>4 DEF ResumeInv
  <1>6. \A d \in Duties : request[d] \in Asked
    BY DEF ResumeInv
  <1>7. ASSUME NEW n \in 1 .. MaxResumes PROVE Covers(n)'
    <2>1. CASE n = m
      <3>1. ~views[n].ready
        BY <1>1, <2>1 DEF ResumeInv
      <3> QED BY <1>3, <1>4, <1>5, <1>6, <2>1, <3>1 DEF Covers, Asked
    <2>2. CASE n # m
      BY <1>3, <1>4, <1>5, <2>2 DEF ResumeInv, Covers
    <2> QED BY <2>1, <2>2
  <1>8. ASSUME NEW n \in 1 .. MaxResumes, n > j.number PROVE ~views'[n].ready
    BY <1>1, <1>3, <1>4, <1>8 DEF ResumeInv
  <1> QED BY <1>3, <1>4, <1>5, <1>7, <1>8 DEF ResumeInv

\* the Agents that owe an Answer are activated,
LEMMA ActivateKeeps ==
  ASSUME ResumeInv, NEW d \in Duties, C!Activate(d) PROVE ResumeInv'
  <1> PICK j : j = job
    OBVIOUS
  <1>1. j \in Jobs /\ j.step = "activate" /\ j.number > 0 /\ run[d] \in Turns
    BY DEF ResumeInv, C!Activate
  <1> PICK k : k = job'
    OBVIOUS
  <1>2. run' \in [Duties -> Turns]
    <2>1. run \in [Duties -> Turns]
      BY DEF ResumeInv
    <2>2. \/ UNCHANGED run
          \/ run' = [run EXCEPT ![d] = [C!Started(run[d]) EXCEPT !.kept = TRUE]]
      BY <2>1 DEF C!Activate
    <2> QED BY <1>1, <2>1, <2>2, TurnFacts, TurnChanges
  <1>3. run[d].number \in Nat /\ run'[d].number \in Nat
    BY <1>1, <1>2, TurnFacts
  <1>4. \/ k = [j EXCEPT !.responders = j.responders \ {d}]
        \/ k = [j EXCEPT !.at = d, !.handle = run[d].number]
        \/ k = [j EXCEPT !.at = d, !.handle = run'[d].number]
    BY DEF C!Activate
  <1>5. k \in Jobs /\ k.step = "activate" /\ k.number = j.number /\ k.listed = j.listed
    <2>1. CASE k = [j EXCEPT !.responders = j.responders \ {d}]
      BY <1>1, <2>1 DEF Jobs
    <2>2. CASE k = [j EXCEPT !.at = d, !.handle = run[d].number]
      BY <1>1, <1>3, <2>2 DEF Jobs
    <2>3. CASE k = [j EXCEPT !.at = d, !.handle = run'[d].number]
      BY <1>1, <1>3, <2>3 DEF Jobs
    <2> QED BY <1>4, <2>1, <2>2, <2>3
  <1> QED BY <1>1, <1>2, <1>5 DEF ResumeInv, Covers, C!Activate

\* continuations are admitted,
LEMMA AdmitKeeps ==
  ASSUME ResumeInv, NEW d \in Duties, C!Admit(d) PROVE ResumeInv'
  <1>1. job \in Jobs /\ job.step = "activate" /\ job.number > 0 /\ job.handle \in Nat
        /\ job.number \in 1 .. MaxResumes
    BY ResumeAssumption DEF ResumeInv, C!Admit, Jobs
  <1>2. job' \in Jobs /\ job'.step = "activate" /\ job'.number = job.number
        /\ job'.listed = job.listed
    BY <1>1 DEF C!Admit, C!NoAgent, Jobs
  <1>3. run' \in [Duties -> Turns]
    <2>1. run \in [Duties -> Turns]
      BY DEF ResumeInv
    <2>2. UNCHANGED run \/ run' = [run EXCEPT ![d] = C!Ended(run[d])]
      BY <2>1 DEF C!Admit
    <2> QED BY <2>1, <2>2, TurnFacts, TurnChanges
  <1>4. [agent |-> d, run |-> job.handle, resume |-> job.number] \in Continuations
    BY <1>1 DEF Continuations
  <1>5. responders' \subseteq Continuations
    BY <1>4 DEF ResumeInv, C!Admit
  <1> QED BY <1>1, <1>2, <1>3, <1>5 DEF ResumeInv, Covers, C!Admit

\* an undelivered Request is scheduled again,
LEMMA ScheduleAgainKeeps ==
  ASSUME ResumeInv, NEW d \in Duties, C!ScheduleAgain(d) PROVE ResumeInv'
  <1>1. /\ job \in Jobs /\ job.step = "activate" /\ job.number > 0
        /\ UNCHANGED <<run, request, responders, views, known>>
    BY DEF ResumeInv, C!ScheduleAgain
  <1>2. /\ job' \in Jobs /\ job'.step = "activate" /\ job'.number = job.number
        /\ job'.listed = job.listed \/ (request[d] = "answered" /\ job'.listed = job.listed \ {d})
    BY <1>1 DEF C!ScheduleAgain, Jobs
  <1>3. ASSUME NEW n \in 1 .. MaxResumes PROVE Covers(n)'
    BY <1>1, <1>2 DEF ResumeInv, Covers
  <1>4. scheduled' \subseteq {e \in Duties : request[e] = "unsent"}
    BY DEF ResumeInv, C!ScheduleAgain
  <1> QED BY <1>1, <1>2, <1>3, <1>4 DEF ResumeInv

\* the view is drawn up and the resume ends,
LEMMA FinishKeeps ==
  ASSUME ResumeInv, C!Finish PROVE ResumeInv'
  <1> PICK v : v = [ready |-> TRUE, outstanding |-> job.listed]
    OBVIOUS
  <1>1. job \in Jobs /\ job.step = "activate" /\ job.number \in 1 .. MaxResumes
        /\ job.listed \in SUBSET Duties /\ UNCHANGED <<run, request, responders, scheduled, known>>
    BY ResumeAssumption DEF ResumeInv, C!Finish, Jobs
  <1>2. v \in Views /\ v.outstanding = job.listed
    BY <1>1 DEF Views
  <1>3. views' = [views EXCEPT ![job.number] = v]
    BY DEF C!Finish
  <1>4. job' \in Jobs /\ job'.step = "none" /\ job'.at = "none" /\ job'.number = job.number
    BY <1>1 DEF C!Finish, C!Idle, C!NoAgent, Jobs
  <1>5. /\ views' \in [1 .. MaxResumes -> Views] /\ views'[job.number] = v
        /\ \A n \in 1 .. MaxResumes : n # job.number => views'[n] = views[n]
    BY <1>1, <1>2, <1>3 DEF ResumeInv
  <1>6. ASSUME NEW n \in 1 .. MaxResumes PROVE Covers(n)'
    <2>1. Covers(n)
      BY DEF ResumeInv
    <2>2. CASE n = job.number
      BY <1>1, <1>2, <1>4, <1>5, <2>1, <2>2 DEF Covers
    <2>3. CASE n # job.number
      BY <1>1, <1>4, <1>5, <2>1, <2>3 DEF Covers
    <2> QED BY <2>2, <2>3
  <1>7. ASSUME NEW n \in 1 .. MaxResumes, n > job'.number PROVE ~views'[n].ready
    BY <1>1, <1>4, <1>5, <1>7 DEF ResumeInv
  <1> QED BY <1>1, <1>4, <1>5, <1>6, <1>7 DEF ResumeInv

\* a continuation reaches its Agent,
LEMMA DispatchKeeps ==
  ASSUME ResumeInv, C!Dispatch PROVE ResumeInv'
  <1>1. run' \in [Duties -> Turns]
    <2>1. run \in [Duties -> Turns]
      BY DEF ResumeInv
    <2>2. UNCHANGED run \/ \E d \in Duties : run' = [run EXCEPT ![d].input = TRUE]
      BY DEF ResumeInv, Continuations, C!Dispatch
    <2>3. ASSUME NEW d \in Duties, run' = [run EXCEPT ![d].input = TRUE]
          PROVE  run' \in [Duties -> Turns]
      <3>1. run' = [run EXCEPT ![d] = [run[d] EXCEPT !.input = TRUE]]
        BY <2>1, <2>3
      <3> QED BY <2>1, <3>1, TurnFacts, TurnChanges
    <2> QED BY <2>1, <2>2, <2>3
  <1> QED BY <1>1 DEF ResumeInv, Covers, C!Dispatch

\* a scheduled Request reaches its responder.
LEMMA DeliverKeeps ==
  ASSUME ResumeInv, NEW d \in Duties, C!Deliver(d) PROVE ResumeInv'
  <1>1. run[d] \in Turns
    BY DEF ResumeInv
  <1>2. run' \in [Duties -> Turns]
    <2>1. run \in [Duties -> Turns]
      BY DEF ResumeInv
    <2>2. \/ run' = [run EXCEPT ![d] = [run[d] EXCEPT !.input = TRUE]]
          \/ run' = [run EXCEPT ![d] = [C!Started(run[d]) EXCEPT !.input = TRUE]]
      BY <2>1 DEF C!Deliver
    <2>3. [run[d] EXCEPT !.input = TRUE] \in Turns
          /\ [C!Started(run[d]) EXCEPT !.input = TRUE] \in Turns
      BY <1>1, TurnFacts
    <2> QED BY <2>1, <2>2, <2>3, TurnChanges
  <1>3. /\ request' \in [Duties -> Asked] /\ request[d] = "unsent" /\ request'[d] = "delivered"
        /\ \A e \in Duties : e # d => request'[e] = request[e]
        /\ scheduled' = scheduled \ {d} /\ UNCHANGED <<job, responders, views, known>>
    BY DEF ResumeInv, Asked, C!Deliver
  <1>4. ASSUME NEW n \in 1 .. MaxResumes PROVE Covers(n)'
    BY <1>3 DEF ResumeInv, Covers
  <1>5. scheduled' \subseteq {e \in Duties : request'[e] = "unsent"}
    BY <1>3 DEF ResumeInv
  <1> QED BY <1>2, <1>3, <1>4, <1>5 DEF ResumeInv

\* Every step keeps the invariant.
LEMMA ResumeNext == ResumeInv /\ [C!Next]_(C!vars) => ResumeInv'
  <1>1. ASSUME ResumeInv, UNCHANGED C!vars PROVE ResumeInv'
    BY <1>1 DEF ResumeInv, Covers, C!vars
  <1> QED BY <1>1, AgentKeepsResume, ResumeBegins, ActivateKeeps, AdmitKeeps, ScheduleAgainKeeps,
             FinishKeeps, DispatchKeeps, DeliverKeeps DEF C!Next

\* What is resumed is consistent: a number for every resume, nothing scheduled that was
\* delivered, no list and no view that misses a Request of its snapshot that is unanswered.
THEOREM ResumeHolds == C!Spec => []ResumeInv
  BY ResumeInit, ResumeNext, PTL DEF C!Spec

\* A dispatched continuation knows every unanswered Request of its Agent in the snapshot.
LEMMA DispatchTells ==
  ASSUME ResumeInv, [C!Next]_(C!vars) PROVE C!Informed
  <1> SUFFICES ASSUME NEW co \in continued' \ continued, NEW d \in known[co.resume],
                      Giver[d] = co.agent, request[d] # "answered"
               PROVE  d \in co.told
    BY SMTT(30) DEF C!Informed
  <1>1. C!Dispatch
    <2>1. continued' # continued
      OBVIOUS
    <2>2. ASSUME NEW e \in Duties, C!Input(e) \/ C!Ask(e) \/ C!AnswerCommits(e) \/ C!RunEnds(e)
                                   \/ C!Hold(e)
          PROVE  UNCHANGED continued
      BY <2>2 DEF C!Input, C!Ask, C!AnswerCommits, C!RunEnds, C!Hold
    <2>3. ASSUME NEW e \in Duties, C!Activate(e) \/ C!Admit(e) \/ C!ScheduleAgain(e) \/ C!Deliver(e)
          PROVE  UNCHANGED continued
      BY <2>3 DEF C!Activate, C!Admit, C!ScheduleAgain, C!Deliver
    <2>4. ASSUME C!Resume \/ C!Finish \/ UNCHANGED C!vars PROVE UNCHANGED continued
      BY <2>4 DEF C!Resume, C!Finish, C!vars
    <2> QED BY <2>1, <2>2, <2>3, <2>4 DEF C!Next
  <1>2. PICK ca \in responders :
          /\ C!IsReady(ca)
          /\ continued' = continued \cup {[agent |-> ca.agent, run |-> ca.run,
                                           resume |-> ca.resume, told |-> C!Told(ca)]}
    BY <1>1 DEF C!Dispatch
  <1>3. co.agent = ca.agent /\ co.resume = ca.resume /\ co.told = C!Told(ca)
    BY <1>2
  <1>4. ca.resume \in 1 .. MaxResumes /\ views[ca.resume].ready
    BY <1>2 DEF ResumeInv, Continuations, C!IsReady
  <1>5. d \in views[ca.resume].outstanding
    BY <1>3, <1>4 DEF ResumeInv, Covers
  <1> QED BY <1>3, <1>5 DEF C!Told

\* A continuation tells its Agent of every Request that the Agent had authored when the resume
\* began and still waits for.
THEOREM ContinuationsAreInformed == C!Spec => ContinuationKnowsItsRequests
  <1>1. ResumeInv /\ [C!Next]_(C!vars) => [C!Informed]_(C!vars)
    BY DispatchTells
  <1> QED BY <1>1, ResumeHolds, PTL DEF C!Spec, ContinuationKnowsItsRequests, C!ContinuationKnowsItsRequests

-----------------------------------------------------------------------------
(* What a restarted host finds (SpawnRecovery)                             *)
(* First facts of arithmetic: minima, induction over the naturals for a    *)
(* set, the iterates of a function; with them the recursive definitions    *)
(* of SpawnRecovery unfold.                                                *)

\* A non-empty set of naturals has a least element.
LEMMA LeastNatural ==
  ASSUME NEW W, W \subseteq Nat, W # {}
  PROVE  \E n \in W : \A m \in W : n <= m
  <1>1. PICK n \in W : \A m \in W : ~(<<m, n>> \in OpToRel(<, Nat))
    BY NatLessThanWellFounded, WFMin
  <1>2. ASSUME NEW m \in W PROVE n <= m
    <2>1. n \in Nat /\ m \in Nat
      OBVIOUS
    <2>2. ~(m < n)
      <3>1. SUFFICES ASSUME m < n PROVE FALSE
        OBVIOUS
      <3>2. <<m, n>> \in OpToRel(<, Nat)
        BY <2>1, <3>1 DEF OpToRel
      <3> QED BY <1>1, <3>2
    <2> QED BY <2>1, <2>2
  <1> QED BY <1>2

\* Induction, for a set of naturals.
LEMMA EveryNatural ==
  ASSUME NEW W, W \subseteq Nat, 0 \in W, \A n \in W : n + 1 \in W
  PROVE  W = Nat
  <1> SUFFICES ASSUME W # Nat PROVE FALSE
    OBVIOUS
  <1>1. Nat \ W \subseteq Nat /\ Nat \ W # {}
    OBVIOUS
  <1>2. PICK n \in Nat \ W : \A m \in Nat \ W : n <= m
    BY <1>1, LeastNatural
  <1>3. n # 0 /\ n - 1 \in Nat /\ ~(n <= n - 1)
    BY <1>2
  <1>4. n - 1 \in W
    BY <1>2, <1>3
  <1>5. (n - 1) + 1 = n
    BY <1>2
  <1> QED BY <1>2, <1>4, <1>5

\* The iterates of a function exist.
Iterated(f, F, d) == f[0] = d /\ \A n \in Nat : f[n + 1] = F[f[n]]
Begun(g, F, d, n) == g[0] = d /\ \A i \in 0 .. n : i < n => g[i + 1] = F[g[i]]

\* Two beginnings of the iterates agree as far as both go.
LEMMA BegunAgree ==
  ASSUME NEW F, NEW d, NEW n \in Nat, NEW g, NEW h, Begun(g, F, d, n), Begun(h, F, d, n)
  PROVE  \A i \in 0 .. n : g[i] = h[i]
  <1> DEFINE W == {i \in Nat : i <= n => g[i] = h[i]}
  <1>1. W \subseteq Nat /\ 0 \in W
    BY DEF Begun
  <1>2. ASSUME NEW i \in W PROVE i + 1 \in W
    <2> SUFFICES ASSUME i + 1 <= n PROVE g[i + 1] = h[i + 1]
      OBVIOUS
    <2>1. i \in 0 .. n /\ i < n /\ i <= n
      OBVIOUS
    <2>2. g[i] = h[i]
      BY <2>1
    <2> QED BY <2>1, <2>2 DEF Begun
  <1> HIDE DEF W
  <1>3. W = Nat
    BY <1>1, <1>2, EveryNatural
  <1> QED BY <1>3 DEF W

\* and for every function on a set there is a function that holds them all.
LEMMA IteratesExist ==
  ASSUME NEW D, NEW F \in [D -> D], NEW d \in D
  PROVE  \E f \in [Nat -> D] : Iterated(f, F, d)
  <1> DEFINE W == {n \in Nat : \E g \in [Nat -> D] : Begun(g, F, d, n)}
  <1>1. 0 \in W
    <2>1. [i \in Nat |-> d] \in [Nat -> D] /\ Begun([i \in Nat |-> d], F, d, 0)
      BY DEF Begun
    <2> QED BY <2>1
  <1>2. ASSUME NEW n \in W PROVE n + 1 \in W
    <2>1. PICK g \in [Nat -> D] : Begun(g, F, d, n)
      OBVIOUS
    <2>2. PICK h : h = [g EXCEPT ![n + 1] = F[g[n]]]
      OBVIOUS
    <2>3. g[n] \in D /\ F[g[n]] \in D /\ n \in Nat
      OBVIOUS
    <2>4. h \in [Nat -> D] /\ h[n + 1] = F[g[n]] /\ \A i \in 0 .. n : h[i] = g[i]
      BY <2>2, <2>3
    <2>5. Begun(h, F, d, n + 1)
      <3>1. h[0] = d
        BY <2>1, <2>3, <2>4 DEF Begun
      <3>2. ASSUME NEW i \in 0 .. n + 1, i < n + 1 PROVE h[i + 1] = F[h[i]]
        <4>1. i \in 0 .. n
          BY <2>3, <3>2
        <4>2. CASE i = n
          BY <2>4, <4>1, <4>2
        <4>3. CASE i # n
          <5>1. i < n /\ i + 1 \in 0 .. n
            BY <2>3, <4>1, <4>3
          <5> QED BY <2>1, <2>4, <4>1, <5>1 DEF Begun
        <4> QED BY <4>2, <4>3
      <3> QED BY <3>1, <3>2 DEF Begun
    <2> QED BY <2>3, <2>4, <2>5
  <1>3. W = Nat
    <2> HIDE DEF W
    <2>1. W \subseteq Nat
      BY DEF W
    <2> QED BY <1>1, <1>2, <2>1, EveryNatural
  <1> DEFINE G(n) == CHOOSE g \in [Nat -> D] : Begun(g, F, d, n)
  <1>4. ASSUME NEW n \in Nat PROVE G(n) \in [Nat -> D] /\ Begun(G(n), F, d, n)
    BY <1>3
  <1> HIDE DEF G, W
  <1> PICK f : f = [n \in Nat |-> G(n)[n]]
    OBVIOUS
  <1>5. f \in [Nat -> D]
    BY <1>4
  <1>6. f[0] = d
    BY <1>4 DEF Begun
  <1>7. ASSUME NEW n \in Nat PROVE f[n + 1] = F[f[n]]
    <2>1. Begun(G(n + 1), F, d, n) /\ Begun(G(n), F, d, n)
      BY <1>4 DEF Begun
    <2>2. G(n + 1)[n] = G(n)[n]
      BY <2>1, BegunAgree
    <2>3. G(n + 1)[n + 1] = F[G(n + 1)[n]]
      BY <1>4 DEF Begun
    <2> QED BY <2>2, <2>3
  <1> QED BY <1>5, <1>6, <1>7 DEF Iterated

-----------------------------------------------------------------------------
\* The rounds of the search are what their recursive definition says.
LEMMA RootedUnfolds ==
  /\ S!Rooted[0] = {}
  /\ \A n \in Nat : S!Rooted[n + 1] = {x \in S!Candidates : S!Admissible(x, S!Rooted[n])}
  <1> DEFINE Next1(W) == {x \in S!Candidates : S!Admissible(x, W)}
             F == [W \in SUBSET Spawnable |-> Next1(W)]
  <1>1. F \in [SUBSET Spawnable -> SUBSET Spawnable]
    BY DEF S!Candidates
  <1>2. PICK f \in [Nat -> SUBSET Spawnable] : Iterated(f, F, {})
    <2> HIDE DEF F
    <2> QED BY <1>1, IteratesExist
  <1>3. f[0] = {} /\ \A n \in Nat : f[n + 1] = Next1(f[n])
    BY <1>2 DEF Iterated
  <1>4. f = [n \in Nat |-> IF n = 0 THEN {} ELSE Next1(f[n - 1])]
    <2>1. ASSUME NEW n \in Nat PROVE f[n] = IF n = 0 THEN {} ELSE Next1(f[n - 1])
      <3>1. CASE n = 0
        BY <1>3, <3>1
      <3>2. CASE n # 0
        <4>1. n - 1 \in Nat /\ (n - 1) + 1 = n
          BY <3>2
        <4> HIDE DEF Next1
        <4> QED BY <1>3, <3>2, <4>1
      <3> QED BY <3>1, <3>2
    <2> HIDE DEF Next1
    <2> QED BY <2>1
  <1>5. S!Rooted = [n \in Nat |-> IF n = 0 THEN {} ELSE Next1(S!Rooted[n - 1])]
    BY <1>4, Zenon DEF S!Rooted
  <1>6. S!Rooted[0] = {}
    BY <1>5
  <1>7. ASSUME NEW n \in Nat PROVE S!Rooted[n + 1] = Next1(S!Rooted[n])
    <2>1. n + 1 \in Nat /\ n + 1 # 0 /\ (n + 1) - 1 = n
      OBVIOUS
    <2> HIDE DEF Next1
    <2> QED BY <1>5, <2>1
  <1> QED BY <1>6, <1>7

SourcesAre == source \in [Spawnable -> [agent : Spawnable \cup {owner}, entry : Nat,
                                         id : ToolCalls \cup {"none"}]]

\* So are the lines of ancestors.
LEMMA LineIs ==
  ASSUME SourcesAre
  PROVE  \A n \in Nat : \A x \in Spawnable :
           S!Line[n][x] = IF n = 0 \/ source[x].agent = owner THEN {x}
                          ELSE {x} \cup S!Line[n - 1][source[x].agent]
  <1> DEFINE D == [Spawnable -> SUBSET Spawnable]
             Up(L) == [x \in Spawnable |-> IF source[x].agent = owner THEN {x}
                                           ELSE {x} \cup L[source[x].agent]]
             F == [L \in D |-> Up(L)]
             d == [x \in Spawnable |-> {x}]
             One(g, n) == [x \in Spawnable |-> IF n = 0 \/ source[x].agent = owner THEN {x}
                                               ELSE {x} \cup g[n - 1][source[x].agent]]
  <1>0. \A x \in Spawnable : source[x].agent \in Spawnable \cup {owner}
    BY DEF SourcesAre
  <1>1. F \in [D -> D] /\ d \in D
    <2>1. ASSUME NEW L \in D PROVE Up(L) \in D
      <3>1. ASSUME NEW x \in Spawnable
            PROVE  (IF source[x].agent = owner THEN {x} ELSE {x} \cup L[source[x].agent])
                     \in SUBSET Spawnable
        BY <1>0
      <3> QED BY <3>1
    <2>2. d \in D
      OBVIOUS
    <2> HIDE DEF D, Up, d
    <2> QED BY <2>1, <2>2
  <1>2. PICK f \in [Nat -> D] : Iterated(f, F, d)
    <2> HIDE DEF F, D, d
    <2> QED BY <1>1, IteratesExist
  <1>3. f[0] = d /\ \A n \in Nat : f[n + 1] = Up(f[n])
    <2> HIDE DEF D, Up, d
    <2> QED BY <1>2 DEF Iterated
  <1>4. ASSUME NEW n \in Nat PROVE f[n] = One(f, n)
    <2>1. CASE n = 0
      BY <1>3, <2>1
    <2>2. CASE n # 0
      <3>1. n - 1 \in Nat /\ (n - 1) + 1 = n
        BY <2>2
      <3>2. f[n] = Up(f[n - 1])
        <4> HIDE DEF Up
        <4> QED BY <1>3, <3>1
      <3> QED BY <2>2, <3>2
    <2> QED BY <2>1, <2>2
  <1>5. f = [n \in Nat |-> One(f, n)]
    <2> HIDE DEF One
    <2> QED BY <1>4
  <1>6. S!Line = [n \in Nat |-> One(S!Line, n)]
    BY <1>5, Zenon DEF S!Line
  <1>7. ASSUME NEW n \in Nat PROVE S!Line[n] = One(S!Line, n)
    <2> HIDE DEF One
    <2> QED BY <1>6
  <1>8. ASSUME NEW n \in Nat, NEW x \in Spawnable
        PROVE  S!Line[n][x] = IF n = 0 \/ source[x].agent = owner THEN {x}
                              ELSE {x} \cup S!Line[n - 1][source[x].agent]
    <2> PICK L : L = S!Line
      OBVIOUS
    <2>1. L[n] = One(L, n)
      BY <1>7
    <2>2. L[n][x] = IF n = 0 \/ source[x].agent = owner THEN {x}
                    ELSE {x} \cup L[n - 1][source[x].agent]
      BY <2>1
    <2> QED BY <2>2
  <1> QED BY <1>8

\* A child stands in its line, its spawner's line is part of it.
LEMMA LineUnfolds ==
  ASSUME SourcesAre, NEW n \in Nat, NEW x \in Spawnable
  PROVE  /\ x \in S!Line[n][x]
         /\ source[x].agent # owner => S!Line[n + 1][x] = {x} \cup S!Line[n][source[x].agent]
  <1>1. x \in S!Line[n][x]
    BY LineIs
  <1>2. n + 1 \in Nat /\ n + 1 # 0 /\ (n + 1) - 1 = n
    OBVIOUS
  <1>3. S!Line[n + 1][x] = IF n + 1 = 0 \/ source[x].agent = owner THEN {x}
                           ELSE {x} \cup S!Line[(n + 1) - 1][source[x].agent]
    BY <1>2, LineIs
  <1> QED BY <1>1, <1>2, <1>3

Family   == Spawnable \cup {owner}
CallsOf  == Seq([id : ToolCalls, after : Nat])
Going    == {"called", "prepared", "unsure", "written"}
Past     == {"registered", "ended"}
Steps    == {"unborn"} \cup Going \cup Past
Files    == {"none", "torn", "whole", "twice"}
Receipts == {"none", "not_created", "unknown", "created"}
Born     == {x \in Spawnable : step[x] # "unborn"}

RecoveryTypes ==
  /\ spawns \in [Family -> CallsOf] /\ leaf \in [Family -> Nat] /\ SourcesAre
  /\ step \in [Spawnable -> Steps] /\ chain \in [Spawnable -> Files]
  /\ receipt \in [Spawnable -> Receipts] /\ up \in BOOLEAN /\ roster \subseteq Family

Twice(s, id) == \E i, j \in 1 .. Len(s) : i # j /\ s[i].id = id /\ s[j].id = id

\* The spawn's call is in its spawner's transcript, and another child of the same spawner and
\* the same native id has a call of its own there.
SourceInv(x) ==
  /\ source[x].agent = owner \/ step[source[x].agent] \in Past
  /\ source[x].entry \in 1 .. Len(spawns[source[x].agent])
  /\ spawns[source[x].agent][source[x].entry].id = source[x].id
  /\ \A y \in Born \ {x} :
       source[y].agent = source[x].agent /\ source[y].id = source[x].id =>
         Twice(spawns[source[x].agent], source[x].id)

\* A spawn that was given up left no transcript that was read; what the host knows is on disk and
\* so is its spawner known; a child with a whole transcript and an unrepeated call is known if
\* its spawner is, or its spawn was given up and it never spawned itself.
Childless(x) == \A y \in Born : source[y].agent # x

ChildInv(x) ==
  /\ step[x] \in {"unborn", "called"} => chain[x] = "none"
  /\ receipt[x] = "not_created" =>
       step[x] = "ended" /\ (x \in unread \/ chain[x] \notin {"whole", "twice"})
  /\ x \in roster =>
       step[x] \in Past /\ chain[x] \in {"whole", "twice"} /\ source[x].agent \in roster
  /\ step[x] \in Going => source[x].agent \in roster
  /\ (step[x] \in Past /\ chain[x] = "whole" /\ ~S!Repeated(x) /\ source[x].agent \in roster)
       => x \in roster \/ (step[x] = "ended" /\ Childless(x))

\* Spawners are born before their children.
RankOf(rank) ==
  \A x \in Born : /\ rank[x] < Cardinality(Born)
                  /\ source[x].agent # owner => rank[source[x].agent] < rank[x]

RecoveryInv ==
  /\ RecoveryTypes
  /\ \A x \in Spawnable : ChildInv(x)
  /\ \A x \in Born : SourceInv(x)
  /\ up => owner \in roster
  /\ ~up => roster = {}
  /\ \E rank \in [Spawnable -> Nat] : RankOf(rank)

\* Two positions with the id witness that it is repeated.
LEMMA TwiceIs ==
  ASSUME NEW s, NEW id, NEW i \in 1 .. Len(s), NEW j \in 1 .. Len(s), i # j,
         s[i].id = id, s[j].id = id
  PROVE  Twice(s, id)
  BY DEF Twice

\* It holds before the first host starts.
LEMMA RecoveryInit == S!Init => RecoveryInv
  <1> SUFFICES ASSUME S!Init PROVE RecoveryInv
    OBVIOUS
  <1>1. spawns \in [Family -> CallsOf]
    <2>1. <<>> \in CallsOf
      BY DEF CallsOf
    <2> QED BY <2>1 DEF S!Init, S!Agents, Family
  <1>2. SourcesAre
    BY DEF S!Init, S!Nowhere, SourcesAre
  <1>3. RecoveryTypes
    BY <1>1, <1>2 DEF S!Init, S!Agents, Family, RecoveryTypes, Steps, Files, Receipts
  <1>4. Born = {}
    BY DEF S!Init, Born
  <1>5. \A x \in Spawnable : ChildInv(x)
    BY SpawnAssumption DEF S!Init, ChildInv, Past, Going
  <1>6. [x \in Spawnable |-> 0] \in [Spawnable -> Nat] /\ RankOf([x \in Spawnable |-> 0])
    BY <1>4 DEF RankOf
  <1> QED BY <1>3, <1>4, <1>5, <1>6 DEF RecoveryInv, S!Init

\* Nothing about calls, sources and ranks changes while no child is called.
LEMMA SourcesKept ==
  ASSUME RecoveryInv, UNCHANGED <<spawns, source>>, step' \in [Spawnable -> Steps],
         \A x \in Spawnable : /\ step'[x] = "unborn" <=> step[x] = "unborn"
                              /\ step[x] \in Past => step'[x] \in Past
  PROVE  /\ \A x \in Born' : SourceInv(x)'
         /\ (\E rank \in [Spawnable -> Nat] : RankOf(rank))'
         /\ \A x \in Spawnable : S!Repeated(x)' <=> S!Repeated(x)
         /\ \A x \in Spawnable : Childless(x)' <=> Childless(x)
  <1>1. Born' = Born
    BY DEF Born
  <1>6. \A x \in Spawnable : Childless(x)' <=> Childless(x)
    BY <1>1 DEF Childless
  <1>2. \A x \in Spawnable : S!Repeated(x)' <=> S!Repeated(x)
    BY DEF S!Repeated
  <1>3. PICK rank \in [Spawnable -> Nat] : RankOf(rank)
    BY DEF RecoveryInv
  <1>4. RankOf(rank)'
    BY <1>1, <1>3 DEF RankOf
  <1>5. ASSUME NEW x \in Born PROVE SourceInv(x)'
    <2>1. SourceInv(x) /\ x \in Spawnable /\ source[x].agent \in Spawnable \cup {owner}
      BY DEF RecoveryInv, RecoveryTypes, SourcesAre, Born
    <2>2. source[x].agent = owner \/ step'[source[x].agent] \in Past
      BY <2>1 DEF SourceInv
    <2> QED BY <1>1, <2>1, <2>2 DEF SourceInv
  <1> QED BY <1>1, <1>2, <1>3, <1>4, <1>5, <1>6

\* A child moves on its way, or is registered.
LEMMA ChildMoves ==
  ASSUME RecoveryInv, up, NEW x \in Spawnable, step[x] \in Going,
         NEW s \in Going \cup Past, NEW f \in Files, NEW r \in Receipts,
         step' = [step EXCEPT ![x] = s], chain' = [chain EXCEPT ![x] = f],
         receipt' = [receipt EXCEPT ![x] = r], UNCHANGED <<spawns, leaf, source, up>>,
         \/ roster' = roster /\ s \in Going \cup {"ended"}
         \/ roster' = roster \cup {x} /\ s = "registered" /\ f \in {"whole", "twice"},
         s = "called" => f = "none",
         r = "not_created" => s = "ended" /\ (x \in unread' \/ f \notin {"whole", "twice"}),
         unread \subseteq unread'
  PROVE  RecoveryInv'
  <1>1. RecoveryTypes /\ ChildInv(x) /\ source[x].agent \in roster
    BY DEF RecoveryInv, ChildInv
  <1>2. RecoveryTypes'
    BY <1>1 DEF RecoveryTypes, Steps, Family, SourcesAre
  <1>3. \A y \in Spawnable : /\ step'[y] = "unborn" <=> step[y] = "unborn"
                             /\ step[y] \in Past => step'[y] \in Past
    BY <1>1 DEF RecoveryTypes, Going, Past
  <1>4. step' \in [Spawnable -> Steps]
    BY <1>2 DEF RecoveryTypes
  <1>5. /\ \A y \in Born' : SourceInv(y)'
        /\ (\E rank \in [Spawnable -> Nat] : RankOf(rank))'
        /\ \A y \in Spawnable : S!Repeated(y)' <=> S!Repeated(y)
        /\ \A y \in Spawnable : Childless(y)' <=> Childless(y)
    BY <1>3, <1>4, SourcesKept
  <1>8. Childless(x)
    BY SpawnAssumption DEF RecoveryInv, Born, SourceInv, Past, Going, Childless
  <1>6. ChildInv(x)'
    <2>1. step'[x] = s /\ chain'[x] = f /\ receipt'[x] = r /\ s \notin {"unborn"}
      BY <1>1 DEF RecoveryTypes, Going, Past
    <2>2. x \notin roster /\ (x \in roster' => s = "registered" /\ f \in {"whole", "twice"})
      BY <1>1 DEF ChildInv, Going, Past
    <2>3. source[x].agent \in roster'
      BY <1>1
    <2>4. s \in Past => s = "ended" \/ x \in roster'
      BY DEF Past, Going
    <2> QED BY <1>5, <1>8, <2>1, <2>2, <2>3, <2>4 DEF ChildInv, Past
  <1>7. ASSUME NEW y \in Spawnable, y # x PROVE ChildInv(y)'
    <2>1. ChildInv(y) /\ step'[y] = step[y] /\ chain'[y] = chain[y] /\ receipt'[y] = receipt[y]
          /\ (y \in roster' <=> y \in roster)
      BY <1>1, <1>7 DEF RecoveryInv, RecoveryTypes
    <2>2. step[y] \in Past => source[y].agent # x
      BY SpawnAssumption DEF RecoveryInv, Born, SourceInv, Past, Going
    <2> QED BY <1>5, <1>7, <2>1, <2>2 DEF ChildInv
  <1> QED BY <1>2, <1>5, <1>6, <1>7 DEF RecoveryInv

\* The steps of one spawn: it is prepared,
LEMMA PrepareKeeps ==
  ASSUME RecoveryInv, NEW x \in Spawnable, NEW fails \in BOOLEAN, S!Prepare(x, fails)
  PROVE  RecoveryInv'
  <1>1. up /\ step[x] = "called" /\ chain[x] = "none" /\ chain[x] \in Files /\ receipt[x] \in Receipts
        /\ receipt[x] # "not_created"
    BY DEF RecoveryInv, RecoveryTypes, ChildInv, S!Prepare, Files
  <1>2. chain' = [chain EXCEPT ![x] = chain[x]]
    BY DEF RecoveryInv, RecoveryTypes, S!Prepare
  <1>3. CASE fails
    <2>1. step' = [step EXCEPT ![x] = "ended"] /\ receipt' = [receipt EXCEPT ![x] = "not_created"]
          /\ UNCHANGED <<spawns, leaf, source, up, roster, unread>>
      BY <1>3 DEF S!Prepare, S!NotCreated
    <2>2. "ended" \in Past /\ step[x] \in Going /\ "not_created" \in Receipts
      BY <1>1 DEF Past, Going, Receipts
    <2> QED BY <1>1, <1>2, <2>1, <2>2, ChildMoves
  <1>4. CASE ~fails
    <2>1. step' = [step EXCEPT ![x] = "prepared"] /\ receipt' = [receipt EXCEPT ![x] = receipt[x]]
          /\ UNCHANGED <<spawns, leaf, source, up, roster, unread>>
      BY <1>4 DEF RecoveryInv, RecoveryTypes, S!Prepare
    <2>2. "prepared" \in Going /\ step[x] \in Going
      BY <1>1 DEF Going
    <2> QED BY <1>1, <1>2, <2>1, <2>2, ChildMoves
  <1> QED BY <1>3, <1>4

\* its transcript is written,
LEMMA WriteKeeps ==
  ASSUME RecoveryInv, NEW x \in Spawnable, NEW outcome \in {"written", "none", "torn", "whole"},
         S!Write(x, outcome)
  PROVE  RecoveryInv'
  <1>1. up /\ step[x] = "prepared" /\ receipt[x] \in Receipts /\ receipt[x] # "not_created"
    BY DEF RecoveryInv, RecoveryTypes, ChildInv, S!Write
  <1>2. receipt' = [receipt EXCEPT ![x] = receipt[x]]
        /\ UNCHANGED <<spawns, leaf, source, up, roster, unread>>
    BY DEF RecoveryInv, RecoveryTypes, S!Write
  <1>3. PICK s \in {"written", "unsure"}, f \in Files :
          step' = [step EXCEPT ![x] = s] /\ chain' = [chain EXCEPT ![x] = f]
    BY DEF S!Write, Files
  <1>4. step[x] \in Going /\ s \in Going
    BY <1>1, <1>3 DEF Going
  <1> QED BY <1>1, <1>2, <1>3, <1>4, ChildMoves

\* the write is confirmed or not,
LEMMA ConfirmKeeps ==
  ASSUME RecoveryInv, NEW x \in Spawnable, S!Confirm(x)
  PROVE  RecoveryInv'
  <1>1. up /\ step[x] = "unsure" /\ chain[x] \in Files
    BY DEF RecoveryInv, RecoveryTypes, S!Confirm
  <1>2. chain' = [chain EXCEPT ![x] = chain[x]] /\ UNCHANGED <<spawns, leaf, source, up>>
    BY DEF RecoveryInv, RecoveryTypes, S!Confirm
  <1>3. step[x] \in Going /\ "ended" \in Past /\ "registered" \in Past
        /\ "unknown" \in Receipts /\ "not_created" \in Receipts
    BY <1>1 DEF Going, Past, Receipts
  <1>4. CASE S!Evident(x) /\ S!Registers(x) /\ receipt' = [receipt EXCEPT ![x] = "unknown"]
             /\ unread' = unread
    <2>1. step' = [step EXCEPT ![x] = "registered"] /\ roster' = roster \cup {x}
          /\ chain[x] \in {"whole", "twice"}
      BY <1>4 DEF S!Registers, S!Evident
    <2> QED BY <1>1, <1>2, <1>3, <1>4, <2>1, ChildMoves
  <1>5. CASE S!NotCreated(x) /\ roster' = roster
             /\ \/ ~S!Evident(x) /\ unread' = unread
                \/ unread' = unread \cup {x}
    <2>1. step' = [step EXCEPT ![x] = "ended"] /\ receipt' = [receipt EXCEPT ![x] = "not_created"]
          /\ (x \in unread' \/ chain[x] \notin {"whole", "twice"}) /\ unread \subseteq unread'
      BY <1>5 DEF S!NotCreated, S!Evident
    <2> QED BY <1>1, <1>2, <1>3, <1>5, <2>1, ChildMoves
  <1> QED BY <1>4, <1>5 DEF S!Confirm

\* or the second read fails and the call with it,
LEMMA UnconfirmedKeeps ==
  ASSUME RecoveryInv, NEW x \in Spawnable, S!Unconfirmed(x)
  PROVE  RecoveryInv'
  <1>1. up /\ step[x] \in Going /\ chain[x] \in Files /\ receipt[x] \in Receipts
        /\ receipt[x] # "not_created"
    BY DEF RecoveryInv, RecoveryTypes, ChildInv, S!Unconfirmed, Going
  <1>2. /\ chain' = [chain EXCEPT ![x] = chain[x]] /\ receipt' = [receipt EXCEPT ![x] = receipt[x]]
        /\ step' = [step EXCEPT ![x] = "ended"]
        /\ UNCHANGED <<spawns, leaf, source, up, roster, unread>>
    BY DEF RecoveryInv, RecoveryTypes, S!Unconfirmed
  <1>3. "ended" \in Past
    BY DEF Past
  <1> QED BY <1>1, <1>2, <1>3, ChildMoves

\* the child is registered,
LEMMA RegisterKeeps ==
  ASSUME RecoveryInv, NEW x \in Spawnable, S!Register(x)
  PROVE  RecoveryInv'
  <1>1. up /\ step[x] = "written" /\ chain[x] \in Files /\ receipt[x] \in Receipts
        /\ receipt[x] # "not_created" /\ chain[x] \in {"whole", "twice"}
    BY DEF RecoveryInv, RecoveryTypes, ChildInv, S!Register, S!Evident
  <1>2. /\ chain' = [chain EXCEPT ![x] = chain[x]] /\ receipt' = [receipt EXCEPT ![x] = receipt[x]]
        /\ step' = [step EXCEPT ![x] = "registered"] /\ roster' = roster \cup {x}
        /\ UNCHANGED <<spawns, leaf, source, up, unread>>
    BY DEF RecoveryInv, RecoveryTypes, S!Register, S!Registers
  <1>3. step[x] \in Going /\ "registered" \in Past
    BY <1>1 DEF Going, Past
  <1> QED BY <1>1, <1>2, <1>3, ChildMoves

\* and its spawner's receipt is written.
LEMMA ReportKeeps ==
  ASSUME RecoveryInv, NEW x \in Spawnable, S!Report(x)
  PROVE  RecoveryInv'
  <1>1. /\ receipt' = [receipt EXCEPT ![x] = "created"] /\ step[x] = "registered"
        /\ UNCHANGED <<spawns, leaf, source, step, chain, up, roster, unread>>
    BY DEF S!Report
  <1>2. RecoveryTypes'
    BY <1>1 DEF RecoveryInv, RecoveryTypes, Receipts, SourcesAre
  <1>3. /\ \A y \in Born' : SourceInv(y)'
        /\ (\E rank \in [Spawnable -> Nat] : RankOf(rank))'
        /\ \A y \in Spawnable : S!Repeated(y)' <=> S!Repeated(y)
        /\ \A y \in Spawnable : Childless(y)' <=> Childless(y)
    BY <1>1, SourcesKept DEF RecoveryInv, RecoveryTypes
  <1>4. ASSUME NEW y \in Spawnable PROVE ChildInv(y)'
    <2>1. receipt'[y] = "not_created" => receipt[y] = "not_created"
      BY <1>1 DEF RecoveryInv, RecoveryTypes
    <2> QED BY <1>1, <1>3, <2>1 DEF RecoveryInv, ChildInv
  <1> QED BY <1>1, <1>2, <1>3, <1>4 DEF RecoveryInv

\* Transcripts are damaged or copied while no host runs.
LEMMA MeddleKeeps ==
  ASSUME RecoveryInv, NEW x \in Spawnable, NEW becomes \in {"torn", "twice"}, S!Meddle(x, becomes)
  PROVE  RecoveryInv'
  <1>1. /\ chain' = [chain EXCEPT ![x] = becomes] /\ chain[x] = "whole" /\ ~up
        /\ UNCHANGED <<spawns, leaf, source, step, receipt, up, roster, unread>>
    BY DEF S!Meddle
  <1>2. RecoveryTypes'
    BY <1>1 DEF RecoveryInv, RecoveryTypes, Files, SourcesAre
  <1>3. /\ \A y \in Born' : SourceInv(y)'
        /\ (\E rank \in [Spawnable -> Nat] : RankOf(rank))'
        /\ \A y \in Spawnable : S!Repeated(y)' <=> S!Repeated(y)
        /\ \A y \in Spawnable : Childless(y)' <=> Childless(y)
    BY <1>1, SourcesKept DEF RecoveryInv, RecoveryTypes
  <1>4. ASSUME NEW y \in Spawnable PROVE ChildInv(y)'
    <2>1. ChildInv(y) /\ roster = {} /\ roster' = {}
      BY <1>1 DEF RecoveryInv
    <2>2. chain'[y] = chain[y] \/ (y = x /\ chain[y] = "whole")
      BY <1>1 DEF RecoveryInv, RecoveryTypes
    <2> QED BY <1>1, <1>3, <2>1, <2>2 DEF ChildInv
  <1> QED BY <1>1, <1>2, <1>3, <1>4 DEF RecoveryInv

\* A branch is left for another.
LEMMA RewindKeeps ==
  ASSUME RecoveryInv, NEW p \in Family, NEW n \in 0 .. MaxSpawns, S!Rewind(p, n)
  PROVE  RecoveryInv'
  <1>1. /\ leaf' = [leaf EXCEPT ![p] = n] /\ n \in Nat
        /\ UNCHANGED <<spawns, source, step, chain, receipt, up, roster, unread>>
    BY DEF S!Rewind
  <1>2. RecoveryTypes'
    BY <1>1 DEF RecoveryInv, RecoveryTypes, SourcesAre
  <1>3. /\ \A y \in Born' : SourceInv(y)'
        /\ (\E rank \in [Spawnable -> Nat] : RankOf(rank))'
        /\ \A y \in Spawnable : S!Repeated(y)' <=> S!Repeated(y)
        /\ \A y \in Spawnable : Childless(y)' <=> Childless(y)
    BY <1>1, SourcesKept DEF RecoveryInv, RecoveryTypes
  <1> QED BY <1>1, <1>2, <1>3 DEF RecoveryInv, ChildInv

\* The host stops: nothing is known any more.
LEMMA CrashKeeps ==
  ASSUME RecoveryInv, S!Crash
  PROVE  RecoveryInv'
  <1>1. up' = FALSE /\ roster' = {} /\ UNCHANGED <<spawns, source, receipt, unread>>
    BY DEF S!Crash
  <1>2. step' = [x \in Spawnable |-> IF step[x] \in Going THEN "ended" ELSE step[x]]
    BY DEF S!Crash, Going
  <1>3. PICK left \in [Spawnable -> {"none", "torn", "whole"}] :
          chain' = [x \in Spawnable |-> IF step[x] = "prepared" THEN left[x] ELSE chain[x]]
    BY DEF S!Crash
  <1>4. PICK kept : leaf' = [a \in Family |-> IF a \in kept THEN leaf[a] ELSE Len(spawns[a])]
    BY DEF S!Crash, S!Agents, Family
  <1>5. step' \in [Spawnable -> Steps]
    BY <1>2 DEF RecoveryInv, RecoveryTypes, Steps, Past
  <1>6. chain' \in [Spawnable -> Files]
    BY <1>3 DEF RecoveryInv, RecoveryTypes, Files
  <1>7. leaf' \in [Family -> Nat]
    <2>1. \A a \in Family : Len(spawns[a]) \in Nat /\ leaf[a] \in Nat
      BY DEF RecoveryInv, RecoveryTypes, CallsOf
    <2> QED BY <1>4, <2>1
  <1>8. RecoveryTypes'
    BY <1>1, <1>5, <1>6, <1>7 DEF RecoveryInv, RecoveryTypes, SourcesAre
  <1>9. \A x \in Spawnable : /\ step'[x] = "unborn" <=> step[x] = "unborn"
                             /\ step[x] \in Past => step'[x] \in Past
                             /\ step'[x] \notin Going
    BY <1>2 DEF RecoveryInv, RecoveryTypes, Going, Past
  <1>10. /\ \A y \in Born' : SourceInv(y)'
         /\ (\E rank \in [Spawnable -> Nat] : RankOf(rank))'
    BY <1>1, <1>5, <1>9, SourcesKept
  <1>11. ASSUME NEW y \in Spawnable PROVE ChildInv(y)'
    <2>1. ChildInv(y)
      BY DEF RecoveryInv
    <2>2. step[y] # "prepared" => chain'[y] = chain[y]
      BY <1>3
    <2>3. step'[y] \in {"unborn", "called"} => step[y] = "unborn"
      BY <1>9 DEF Going
    <2>4. step[y] = "ended" => step'[y] = "ended"
      BY <1>2 DEF Going
    <2> QED BY <1>1, <1>9, <2>1, <2>2, <2>3, <2>4 DEF ChildInv
  <1> QED BY <1>1, <1>8, <1>10, <1>11 DEF RecoveryInv

-----------------------------------------------------------------------------
\* A bounded set of naturals has a greatest element, Largest is one.
LEMMA GreatestNatural ==
  ASSUME NEW n \in Nat, NEW M, M \subseteq 1 .. n, M # {}
  PROVE  \E m \in M : \A k \in M : k <= m
  <1> DEFINE W == {n - m : m \in M}
  <1>0. \A m \in M : n - m \in Nat
    OBVIOUS
  <1>1. W \subseteq Nat /\ W # {}
    <2>1. PICK m : m \in M
      OBVIOUS
    <2>2. n - m \in W
      BY <2>1
    <2> QED BY <1>0, <2>2
  <1>2. PICK w \in W : \A v \in W : w <= v
    <2> HIDE DEF W
    <2> QED BY <1>1, LeastNatural
  <1>3. PICK m \in M : w = n - m
    OBVIOUS
  <1>4. ASSUME NEW k \in M PROVE k <= m
    <2>1. n - m <= n - k
      BY <1>2, <1>3
    <2> QED BY <2>1
  <1> QED BY <1>4

\* The entry that a call's id resolves to is one that carries it, whatever the branch.
LEMMA EntryFacts ==
  ASSUME NEW s \in CallsOf, NEW end, NEW id, NEW i \in 1 .. Len(s), s[i].id = id,
         NEW e, e = S!CommittedEntry(s, end, id)
  PROVE  /\ e \in 1 .. Len(s) /\ s[e].id = id
         /\ (\A j \in 1 .. Len(s) : s[j].id = id => j = i) => e = i
  <1> DEFINE M == {j \in 1 .. Len(s) : s[j].id = id}
  <1>1. M # {} /\ M \subseteq 1 .. Len(s) /\ Len(s) \in Nat
    BY DEF CallsOf
  <1>2. PICK B : e = S!Largest(IF M \cap B # {} THEN M \cap B ELSE M)
    BY <1>1, Zenon DEF S!CommittedEntry
  <1>3. PICK K : K = IF M \cap B # {} THEN M \cap B ELSE M
    OBVIOUS
  <1>4. K \subseteq M /\ K # {} /\ K \subseteq 1 .. Len(s)
    BY <1>1, <1>3
  <1>5. \E m \in K : \A k \in K : k <= m
    BY <1>1, <1>4, GreatestNatural
  <1>6. e \in K
    BY <1>2, <1>3, <1>5 DEF S!Largest
  <1> QED BY <1>4, <1>6

\* A new call: its entry is its own, and no call that is not repeated resolves otherwise now.
LEMMA CallKeeps ==
  ASSUME RecoveryInv, NEW p \in Family, NEW id \in ToolCalls, S!Call(p, id)
  PROVE  RecoveryInv'
  <1> PICK x : x = CHOOSE y \in S!Fresh : TRUE
    OBVIOUS
  <1> PICK e : e = S!CommittedEntry(spawns'[p], leaf'[p], id)
    OBVIOUS
  <1> PICK call : call = [id |-> id, after |-> leaf[p]]
    OBVIOUS
  <1>0. RecoveryTypes /\ up /\ p \in roster
    BY DEF RecoveryInv, S!Call
  <1>1. x \in Spawnable /\ step[x] = "unborn"
    <2>1. S!Fresh # {}
      BY DEF S!Call
    <2>2. x \in S!Fresh
      BY <2>1
    <2> QED BY <2>2 DEF S!Fresh
  <1>2. /\ spawns' = [spawns EXCEPT ![p] = Append(spawns[p], call)]
        /\ leaf' = [leaf EXCEPT ![p] = Len(spawns'[p])]
        /\ source' = [source EXCEPT ![x] = [agent |-> p, entry |-> e, id |-> id]]
        /\ step' = [step EXCEPT ![x] = "called"]
        /\ UNCHANGED <<chain, receipt, up, roster, unread>>
    BY <1>0 DEF S!Call, RecoveryTypes
  <1>3. spawns[p] \in CallsOf /\ call \in [id : ToolCalls, after : Nat] /\ call.id = id
    BY <1>0 DEF RecoveryTypes
  <1>4. /\ Append(spawns[p], call) \in CallsOf
        /\ Len(Append(spawns[p], call)) = Len(spawns[p]) + 1
        /\ Append(spawns[p], call)[Len(spawns[p]) + 1] = call
        /\ \A i \in 1 .. Len(spawns[p]) : Append(spawns[p], call)[i] = spawns[p][i]
    BY <1>3 DEF CallsOf
  <1>5. spawns'[p] = Append(spawns[p], call) /\ \A a \in Family : a # p => spawns'[a] = spawns[a]
    BY <1>0, <1>2 DEF RecoveryTypes
  <1>6. \A a \in Family : Len(spawns[a]) \in Nat
    BY <1>0 DEF RecoveryTypes, CallsOf
  <1>7. \A a \in Family : \A i \in 1 .. Len(spawns[a]) :
          i \in 1 .. Len(spawns'[a]) /\ spawns'[a][i] = spawns[a][i]
    BY SMTT(30), <1>4, <1>5, <1>6
  <1>8. /\ Len(spawns[p]) + 1 \in 1 .. Len(spawns'[p])
        /\ spawns'[p][Len(spawns[p]) + 1].id = id
        /\ Len(spawns[p]) + 1 \notin 1 .. Len(spawns[p])
    BY <1>3, <1>4, <1>5, <1>6
  <1>9. e \in 1 .. Len(spawns'[p]) /\ spawns'[p][e].id = id
    <2> PICK s : s = spawns'[p]
      OBVIOUS
    <2> PICK i : i = Len(spawns[p]) + 1
      OBVIOUS
    <2> PICK end : end = leaf'[p]
      OBVIOUS
    <2>1. s \in CallsOf /\ i \in 1 .. Len(s) /\ s[i].id = id
          /\ e = S!CommittedEntry(s, end, id)
      BY <1>4, <1>5, <1>8
    <2>2. e \in 1 .. Len(s) /\ s[e].id = id
      BY ONLY <2>1, EntryFacts
    <2> QED BY <2>2
  <1>10. e \in Nat /\ Len(spawns'[p]) \in Nat
    BY <1>4, <1>5, <1>6, <1>9
  <1>11. RecoveryTypes'
    <2>1. spawns' \in [Family -> CallsOf]
      BY <1>0, <1>2, <1>4 DEF RecoveryTypes
    <2>2. leaf' \in [Family -> Nat]
      BY <1>0, <1>2, <1>10 DEF RecoveryTypes
    <2>3. [agent |-> p, entry |-> e, id |-> id]
            \in [agent : Spawnable \cup {owner}, entry : Nat, id : ToolCalls \cup {"none"}]
      BY <1>10 DEF Family
    <2>4. SourcesAre'
      BY <1>0, <1>2, <2>3 DEF RecoveryTypes, SourcesAre
    <2>5. step' \in [Spawnable -> Steps]
      BY <1>0, <1>2 DEF RecoveryTypes, Steps, Going
    <2> QED BY <1>0, <1>2, <2>1, <2>2, <2>4, <2>5 DEF RecoveryTypes
  <1>12. Born' = Born \cup {x} /\ x \notin Born
    BY <1>0, <1>1, <1>2 DEF Born, RecoveryTypes
  <1>13. /\ \A y \in Spawnable : y # x => source'[y] = source[y] /\ step'[y] = step[y]
         /\ source'[x].agent = p /\ source'[x].entry = e /\ source'[x].id = id
         /\ step'[x] = "called"
    BY <1>0, <1>1, <1>2 DEF RecoveryTypes, SourcesAre
  <1>14. \A y \in Born : /\ y \in Spawnable /\ SourceInv(y) /\ source[y].agent \in Family
                         /\ source[y].agent # x
    BY <1>0, <1>1, SpawnAssumption
      DEF RecoveryInv, RecoveryTypes, SourcesAre, Born, SourceInv, Past, Family
  <1>15. p = owner \/ (p \in Born /\ step[p] \in Past)
    BY <1>0 DEF RecoveryInv, ChildInv, Born, Past, Family
  <1>16. p # x
    BY <1>1, <1>15, SpawnAssumption DEF Born
  <1>17. ASSUME NEW y \in Born' PROVE SourceInv(y)'
    <2>1. CASE y = x
      <3>1. p = owner \/ step'[p] \in Past
        BY <1>13, <1>14, <1>15, <1>16
      <3>2. ASSUME NEW z \in Born, source[z].agent = p, source[z].id = id
            PROVE  Twice(spawns'[p], id)
        <4>1. source[z].entry \in 1 .. Len(spawns[p]) /\ spawns[p][source[z].entry].id = id
          BY <1>14, <3>2 DEF SourceInv
        <4>2. /\ source[z].entry \in 1 .. Len(spawns'[p]) /\ spawns'[p][source[z].entry].id = id
              /\ source[z].entry # Len(spawns[p]) + 1
          BY <1>0, <1>7, <1>8, <4>1
        <4> QED BY <1>8, <4>2, TwiceIs
      <3>3. \A z \in Born' \ {x} : z \in Born /\ source'[z] = source[z]
        BY <1>12, <1>13, <1>14
      <3> QED BY <1>9, <1>13, <2>1, <3>1, <3>2, <3>3 DEF SourceInv
    <2>2. CASE y # x
      <3>1. y \in Born /\ SourceInv(y) /\ source'[y] = source[y]
        BY <1>12, <1>13, <1>14, <2>2
      <3> PICK a : a = source[y].agent
        OBVIOUS
      <3> PICK k : k = source[y].entry
        OBVIOUS
      <3>2. a \in Family /\ a # x /\ (a = owner \/ step[a] \in Past)
            /\ k \in 1 .. Len(spawns[a]) /\ spawns[a][k].id = source[y].id
        BY <1>14, <3>1 DEF SourceInv
      <3>3. a = owner \/ step'[a] \in Past
        BY <1>13, <3>2 DEF Family
      <3>4. k \in 1 .. Len(spawns'[a]) /\ spawns'[a][k].id = source[y].id
        BY <1>7, <3>2
      <3>5. ASSUME NEW z \in Born' \ {y}, source'[z].agent = a, source'[z].id = source[y].id
            PROVE  Twice(spawns'[a], source[y].id)
        <4>1. CASE z = x
          <5>1. a = p /\ source[y].id = id
            BY <1>13, <3>5, <4>1
          <5>2. k # Len(spawns[p]) + 1
            BY <1>8, <3>2, <5>1
          <5> QED BY <1>8, <3>4, <5>1, <5>2, TwiceIs
        <4>2. CASE z # x
          <5>1. z \in Born \ {y} /\ source[z].agent = a /\ source[z].id = source[y].id
            BY <1>12, <1>13, <1>14, <3>5, <4>2
          <5>2. Twice(spawns[a], source[y].id)
            BY <3>1, <5>1 DEF SourceInv
          <5>3. PICK i \in 1 .. Len(spawns[a]), j \in 1 .. Len(spawns[a]) :
                  i # j /\ spawns[a][i].id = source[y].id /\ spawns[a][j].id = source[y].id
            BY <5>2 DEF Twice
          <5>4. i \in 1 .. Len(spawns'[a]) /\ spawns'[a][i].id = source[y].id
                /\ j \in 1 .. Len(spawns'[a]) /\ spawns'[a][j].id = source[y].id
            BY <1>7, <3>2, <5>3
          <5> QED BY <5>3, <5>4, TwiceIs
        <4> QED BY <4>1, <4>2
      <3> QED BY <3>1, <3>3, <3>4, <3>5 DEF SourceInv
    <2> QED BY <2>1, <2>2
  <1>18. ASSUME NEW y \in Spawnable PROVE ChildInv(y)'
    <2>1. CASE y = x
      BY <1>0, <1>1, <1>2, <1>13, <2>1 DEF RecoveryInv, ChildInv, Past, Going
    <2>2. CASE y # x
      <3>1. ChildInv(y) /\ source'[y] = source[y] /\ step'[y] = step[y]
        BY <1>13, <2>2 DEF RecoveryInv
      <3>2. ASSUME step[y] \in Past, S!Repeated(y) PROVE S!Repeated(y)'
        <4> PICK a : a = source[y].agent
          OBVIOUS
        <4>1. a \in Family
          BY <1>0 DEF RecoveryTypes, SourcesAre, Family
        <4>2. spawns[a] \in CallsOf /\ spawns'[a] \in CallsOf
          BY <1>0, <1>11, <4>1 DEF RecoveryTypes
        <4>3. DOMAIN spawns[a] = 1 .. Len(spawns[a]) /\ DOMAIN spawns'[a] = 1 .. Len(spawns'[a])
          BY <4>2 DEF CallsOf
        <4> QED BY <1>7, <3>1, <3>2, <4>1, <4>3 DEF S!Repeated
      <3>3. ASSUME Childless(y), y \notin roster PROVE Childless(y)'
        BY <1>0, <1>12, <1>13, <1>14, <3>3 DEF Childless
      <3> QED BY <1>2, <3>1, <3>2, <3>3 DEF ChildInv
    <2> QED BY <2>1, <2>2
  <1>19. (\E rank \in [Spawnable -> Nat] : RankOf(rank))'
    <2>1. PICK rank \in [Spawnable -> Nat] : RankOf(rank)
      BY DEF RecoveryInv
    <2>2. IsFiniteSet(Born) /\ Cardinality(Born) \in Nat /\ Cardinality(Born') = Cardinality(Born) + 1
      BY <1>12, SpawnAssumption, FS_Subset, FS_AddElement, FS_CardinalityType DEF Born
    <2> PICK rank2 : rank2 = [rank EXCEPT ![x] = Cardinality(Born)]
      OBVIOUS
    <2>3. rank2 \in [Spawnable -> Nat] /\ rank2[x] = Cardinality(Born)
          /\ \A y \in Spawnable : y # x => rank2[y] = rank[y]
      BY <1>1, <2>2
    <2>4. ASSUME NEW y \in Born'
          PROVE  /\ rank2[y] < Cardinality(Born')
                 /\ source'[y].agent # owner => rank2[source'[y].agent] < rank2[y]
      <3>1. CASE y = x
        BY <1>13, <1>14, <1>15, <1>16, <2>1, <2>2, <2>3, <3>1 DEF RankOf
      <3>2. CASE y # x
        <4>1. y \in Born /\ source'[y] = source[y]
          BY <1>12, <1>13, <1>14, <3>2
        <4>2. rank[y] < Cardinality(Born) /\ rank2[y] = rank[y] /\ rank[y] \in Nat
          BY <1>14, <2>1, <2>3, <3>2, <4>1 DEF RankOf
        <4>3. source[y].agent # owner => rank2[source[y].agent] = rank[source[y].agent]
          BY <1>14, <2>3, <4>1 DEF Family
        <4> QED BY <2>1, <2>2, <4>1, <4>2, <4>3 DEF RankOf
      <3> QED BY <3>1, <3>2
    <2>5. RankOf(rank2)'
      BY <2>4 DEF RankOf
    <2> QED BY <2>3, <2>5
  <1> QED BY <1>0, <1>2, <1>11, <1>17, <1>18, <1>19 DEF RecoveryInv

Levels == Cardinality(Spawnable)

\* The instance counts as the library does.
LEMMA LevelsIs == S!Cardinality(Spawnable) = Levels
  BY Zenon DEF Levels, Cardinality, S!Cardinality

\* Every round of the search finds what the rounds before it found.
LEMMA RootedGrows ==
  /\ \A n, m \in Nat : n <= m => S!Rooted[n] \subseteq S!Rooted[m]
  /\ \A n \in Nat : S!Rooted[n] \subseteq S!Candidates
  <1> PICK Ro : Ro = S!Rooted
    OBVIOUS
  <1>1. /\ Ro[0] = {}
        /\ \A n \in Nat : Ro[n + 1] = {x \in S!Candidates : S!Admissible(x, Ro[n])}
    BY RootedUnfolds
  <1>2. \A x, K, L : K \subseteq L /\ S!Admissible(x, K) => S!Admissible(x, L)
    BY DEF S!Admissible
  <1> DEFINE W == {n \in Nat : Ro[n] \subseteq Ro[n + 1]}
  <1>3. 0 \in W /\ W \subseteq Nat
    BY <1>1
  <1>4. ASSUME NEW n \in W PROVE n + 1 \in W
    <2>1. n \in Nat /\ n + 1 \in Nat /\ Ro[n] \subseteq Ro[n + 1]
      OBVIOUS
    <2>2. Ro[n + 1] = {x \in S!Candidates : S!Admissible(x, Ro[n])}
          /\ Ro[(n + 1) + 1] = {x \in S!Candidates : S!Admissible(x, Ro[n + 1])}
      BY <1>1, <2>1
    <2>3. Ro[n + 1] \subseteq Ro[(n + 1) + 1]
      BY <1>2, <2>1, <2>2
    <2> QED BY <2>1, <2>3
  <1> HIDE DEF W
  <1>5. W = Nat
    BY <1>3, <1>4, EveryNatural
  <1>6. \A n \in Nat : Ro[n] \subseteq Ro[n + 1]
    BY <1>5 DEF W
  <1>7. ASSUME NEW n \in Nat PROVE \A k \in Nat : Ro[n] \subseteq Ro[n + k]
    <2> DEFINE Ws == {k \in Nat : Ro[n] \subseteq Ro[n + k]}
    <2>1. 0 \in Ws /\ Ws \subseteq Nat
      OBVIOUS
    <2>2. ASSUME NEW k \in Ws PROVE k + 1 \in Ws
      <3>1. n + k \in Nat /\ n + (k + 1) = (n + k) + 1 /\ k \in Nat
        OBVIOUS
      <3>2. Ro[n + k] \subseteq Ro[n + (k + 1)]
        BY <1>6, <3>1
      <3> QED BY <3>1, <3>2
    <2> HIDE DEF Ws
    <2>3. Ws = Nat
      BY <2>1, <2>2, EveryNatural
    <2> QED BY <2>3 DEF Ws
  <1>8. ASSUME NEW n \in Nat, NEW m \in Nat, n <= m PROVE Ro[n] \subseteq Ro[m]
    <2>1. m - n \in Nat /\ n + (m - n) = m
      BY <1>8
    <2> QED BY <1>7, <2>1
  <1>9. ASSUME NEW n \in Nat PROVE Ro[n] \subseteq S!Candidates
    <2>1. CASE n = 0
      BY <1>1, <2>1
    <2>2. CASE n # 0
      <3>1. n - 1 \in Nat /\ (n - 1) + 1 = n
        BY <2>2
      <3>2. Ro[(n - 1) + 1] \subseteq S!Candidates
        BY <1>1, <3>1
      <3> QED BY <3>1, <3>2
    <2> QED BY <2>1, <2>2
  <1> QED BY <1>8, <1>9

\* A child that is admitted at all is admitted at the level its rank allows.
LEMMA RootedByRank ==
  ASSUME RecoveryInv, NEW rank \in [Spawnable -> Nat], RankOf(rank), NEW n \in Nat,
         NEW x \in S!Rooted[n]
  PROVE  x \in S!Rooted[rank[x] + 1]
  <1> PICK Ro : Ro = S!Rooted
    OBVIOUS
  <1>1. /\ Ro[0] = {}
        /\ \A m \in Nat : Ro[m + 1] = {y \in S!Candidates : S!Admissible(y, Ro[m])}
    BY RootedUnfolds
  <1>2. \A m, k \in Nat : m <= k => Ro[m] \subseteq Ro[k]
    BY RootedGrows
  <1>3. \A y \in S!Candidates : y \in Born
    BY DEF S!Candidates, S!Evident, RecoveryInv, ChildInv, Born
  <1> DEFINE W == {m \in Nat : \A y \in Ro[m] : y \in Ro[rank[y] + 1]}
  <1>4. 0 \in W /\ W \subseteq Nat
    BY <1>1
  <1>5. ASSUME NEW m \in W PROVE m + 1 \in W
    <2>1. SUFFICES ASSUME NEW y \in Ro[m + 1] PROVE y \in Ro[rank[y] + 1]
      OBVIOUS
    <2>2. m \in Nat /\ y \in S!Candidates /\ S!Admissible(y, Ro[m])
      BY <1>1
    <2>3. y \in Born /\ y \in Spawnable /\ rank[y] \in Nat
      BY <1>3, <2>2 DEF Born
    <2> PICK a : a = source[y].agent
      OBVIOUS
    <2>4. a \in Ro[m] \cup {owner} /\ S!Unique(y) /\ S!Proven(y)
      BY <2>2 DEF S!Admissible
    <2>5. a \in Ro[rank[y]] \cup {owner}
      <3>1. CASE a = owner
        BY <3>1
      <3>2. CASE a # owner
        <4>1. a \in Ro[m] /\ a \in Ro[rank[a] + 1]
          BY <2>4, <3>2
        <4>2. rank[a] < rank[y]
          BY <2>3, <3>2 DEF RankOf
        <4>3. a \in Spawnable /\ rank[a] \in Nat
          <5>1. a \in S!Candidates
            BY <2>2, <4>1, RootedGrows
          <5> QED BY <5>1 DEF S!Candidates
        <4>4. rank[a] + 1 \in Nat /\ rank[a] + 1 <= rank[y]
          BY <2>3, <4>2, <4>3
        <4> QED BY <1>2, <2>3, <4>1, <4>4
      <3> QED BY <3>1, <3>2
    <2>6. S!Admissible(y, Ro[rank[y]])
      BY <2>4, <2>5 DEF S!Admissible
    <2> QED BY <1>1, <2>2, <2>3, <2>6
  <1> HIDE DEF W
  <1>6. W = Nat
    BY <1>4, <1>5, EveryNatural
  <1> QED BY <1>6 DEF W

\* The levels suffice: whom the last one would admit is admitted.
LEMMA RootedIsClosed ==
  ASSUME RecoveryInv
  PROVE  /\ \A x \in S!Rooted[Levels] : x \in S!Candidates /\ S!Admissible(x, S!Rooted[Levels])
         /\ \A x \in S!Candidates : S!Admissible(x, S!Rooted[Levels]) => x \in S!Rooted[Levels]
  <1> PICK Ro : Ro = S!Rooted
    OBVIOUS
  <1>1. /\ Ro[0] = {}
        /\ \A m \in Nat : Ro[m + 1] = {y \in S!Candidates : S!Admissible(y, Ro[m])}
    BY RootedUnfolds
  <1>2. PICK rank \in [Spawnable -> Nat] : RankOf(rank)
    BY DEF RecoveryInv
  <1>3. Levels \in Nat /\ Cardinality(Born) \in Nat /\ Cardinality(Born) <= Levels
    <2>1. Born \subseteq Spawnable
      BY DEF Born
    <2>2. IsFiniteSet(Born) /\ Cardinality(Born) <= Cardinality(Spawnable)
      BY <2>1, SpawnAssumption, FS_Subset
    <2> QED BY <2>2, SpawnAssumption, FS_CardinalityType DEF Levels
  <1>4. ASSUME NEW x \in Ro[Levels + 1] PROVE x \in Ro[Levels]
    <2>1. Levels + 1 \in Nat
      BY <1>3
    <2>2. x \in Ro[rank[x] + 1]
      BY <1>2, <2>1, RootedByRank
    <2>3. x \in Born /\ x \in Spawnable
      <3>1. x \in S!Candidates
        BY <1>1, <1>3
      <3> QED BY <3>1 DEF S!Candidates, S!Evident, RecoveryInv, ChildInv, Born
    <2>4. rank[x] + 1 \in Nat /\ rank[x] + 1 <= Levels
      BY <1>2, <1>3, <2>3 DEF RankOf
    <2>5. Ro[rank[x] + 1] \subseteq Ro[Levels]
      BY <1>3, <2>4, RootedGrows
    <2> QED BY <2>2, <2>5
  <1>5. Ro[Levels + 1] = Ro[Levels]
    <2>1. Levels + 1 \in Nat /\ Levels <= Levels + 1
      BY <1>3
    <2>2. Ro[Levels] \subseteq Ro[Levels + 1]
      BY <1>3, <2>1, RootedGrows
    <2> QED BY <1>4, <2>2
  <1>6. Ro[Levels] = {y \in S!Candidates : S!Admissible(y, Ro[Levels])}
    BY <1>1, <1>3, <1>5
  <1> QED BY <1>6

\* A host starts and searches.
LEMMA RecoverKeeps ==
  ASSUME RecoveryInv, S!Recover
  PROVE  RecoveryInv'
  <1> PICK Found : Found = S!Rooted[Levels]
    OBVIOUS
  <1>1. /\ ~up /\ up' = TRUE /\ roster' = Found \cup {owner}
        /\ UNCHANGED <<spawns, leaf, source, step, chain, receipt, unread>>
    <2>1. roster' = S!Rooted[Levels] \cup {owner}
      BY LevelsIs DEF S!Recover
    <2> QED BY <2>1 DEF S!Recover
  <1>2. /\ \A x \in Found : x \in S!Candidates /\ S!Admissible(x, Found)
        /\ \A x \in S!Candidates : S!Admissible(x, Found) => x \in Found
    BY RootedIsClosed
  <1>3. RecoveryTypes /\ roster = {} /\ owner \notin Spawnable
    BY <1>1, SpawnAssumption DEF RecoveryInv
  <1>4. Found \subseteq Spawnable
    BY <1>2 DEF S!Candidates
  <1>5. RecoveryTypes'
    BY <1>1, <1>3, <1>4 DEF RecoveryTypes, Family, SourcesAre
  <1>6. /\ \A y \in Born' : SourceInv(y)'
        /\ (\E rank \in [Spawnable -> Nat] : RankOf(rank))'
        /\ \A y \in Spawnable : S!Repeated(y)' <=> S!Repeated(y)
    BY <1>1, <1>3, SourcesKept DEF RecoveryTypes
  <1>7. \A x \in S!Candidates : x \in Spawnable /\ step[x] \in Past /\ x \in Born
    BY <1>3 DEF S!Candidates, S!Evident, RecoveryInv, RecoveryTypes, ChildInv, Born, Steps, Going, Past
  <1>8. ASSUME NEW x \in Spawnable, step[x] \in Past, chain[x] = "whole", ~S!Repeated(x),
               source[x].agent \in Found \cup {owner}
        PROVE  x \in Found
    <2>1. x \in S!Candidates /\ x \in Born /\ SourceInv(x)
      BY <1>7, <1>8 DEF S!Candidates, S!Evident, RecoveryInv
    <2> PICK p : p = source[x].agent
      OBVIOUS
    <2> PICK s : s = spawns[p]
      OBVIOUS
    <2> PICK id : id = source[x].id
      OBVIOUS
    <2> PICK i : i = source[x].entry
      OBVIOUS
    <2>2. p \in Family /\ s \in CallsOf /\ i \in 1 .. Len(s) /\ s[i].id = id
          /\ DOMAIN s = 1 .. Len(s) /\ Len(s) \in Nat
      <3>1. p \in Family /\ i \in 1 .. Len(s) /\ s[i].id = id
        BY <1>3, <2>1 DEF RecoveryTypes, SourcesAre, SourceInv, Family
      <3>2. s \in CallsOf
        BY <1>3, <3>1 DEF RecoveryTypes
      <3> QED BY <3>1, <3>2 DEF CallsOf
    <2>3. \A j \in 1 .. Len(s) : s[j].id = id => j = i
      BY <1>8, <2>2 DEF S!Repeated
    <2>4. ~Twice(s, id)
      BY <2>3 DEF Twice
    <2>5. S!Unique(x)
      <3>1. ASSUME NEW y \in S!Candidates \ {x}, source[y] = source[x] PROVE FALSE
        BY <1>7, <2>1, <2>4, <3>1 DEF SourceInv
      <3> QED BY <1>8, <3>1 DEF S!Unique
    <2>6. S!CommittedEntry(s, leaf[p], id) = i
      <3> PICK end : end = leaf[p]
        OBVIOUS
      <3> PICK e : e = S!CommittedEntry(s, end, id)
        OBVIOUS
      <3>1. e = i
        BY ONLY <2>2, <2>3, e = S!CommittedEntry(s, end, id), EntryFacts
      <3> QED BY <3>1
    <2>7. p = owner \/ (p \in S!Candidates /\ chain[p] = "whole")
      BY <1>2, <1>8 DEF S!Admissible, S!Unique
    <2>8. S!Proven(x)
      BY <2>2, <2>6, <2>7 DEF S!Proven
    <2> QED BY <1>2, <1>8, <2>1, <2>5, <2>8 DEF S!Admissible
  <1>9. ASSUME NEW x \in Spawnable PROVE ChildInv(x)'
    <2>1. ChildInv(x) /\ step[x] \notin Going
      BY <1>3 DEF RecoveryInv, ChildInv
    <2>2. x \in Found => step[x] \in Past /\ chain[x] \in {"whole", "twice"}
                         /\ source[x].agent \in Found \cup {owner}
      BY <1>2, <1>7 DEF S!Candidates, S!Evident, S!Admissible
    <2> QED BY <1>1, <1>3, <1>6, <1>8, <2>1, <2>2 DEF ChildInv
  <1> QED BY <1>1, <1>5, <1>6, <1>9 DEF RecoveryInv

\* Every step keeps the invariant.
LEMMA RecoveryNext == RecoveryInv /\ [S!Next]_(S!vars) => RecoveryInv'
  <1> SUFFICES ASSUME RecoveryInv, [S!Next]_(S!vars) PROVE RecoveryInv'
    OBVIOUS
  <1>1. CASE UNCHANGED S!vars
    <2>1. UNCHANGED <<spawns, leaf, source, step, chain, receipt, up, roster, unread>>
      BY <1>1 DEF S!vars
    <2>2. RecoveryTypes'
      BY <2>1 DEF RecoveryInv, RecoveryTypes, SourcesAre
    <2>3. /\ \A y \in Born' : SourceInv(y)'
          /\ (\E rank \in [Spawnable -> Nat] : RankOf(rank))'
          /\ \A y \in Spawnable : S!Repeated(y)' <=> S!Repeated(y)
          /\ \A y \in Spawnable : Childless(y)' <=> Childless(y)
      BY <2>1, SourcesKept DEF RecoveryInv, RecoveryTypes
    <2> QED BY <2>1, <2>2, <2>3 DEF RecoveryInv, ChildInv
  <1>2. CASE S!Next
    BY <1>2, CallKeeps, PrepareKeeps, WriteKeeps, ConfirmKeeps, UnconfirmedKeeps, RegisterKeeps, ReportKeeps,
       MeddleKeeps, RewindKeeps, CrashKeeps, RecoverKeeps DEF S!Next, S!Agents, Family
  <1> QED BY <1>1, <1>2

\* What a host knows, what is on disk and what the receipts say stay in step with the calls.
THEOREM RecoveryHolds == S!Spec => []RecoveryInv
  BY RecoveryInit, RecoveryNext, PTL DEF S!Spec

\* A child whose lineage is whole and unrepeated is known.
LEMMA LineageIsKnown ==
  ASSUME RecoveryInv, up, NEW x \in Born, step[x] = "registered",
         \A y \in S!Lineage(x) : chain[y] = "whole" /\ ~S!Repeated(y)
  PROVE  x \in roster
  <1> PICK L : L = S!Line
    OBVIOUS
  <1>0. SourcesAre /\ owner \in roster
    BY DEF RecoveryInv, RecoveryTypes
  <1>1. \A n \in Nat : \A y \in Spawnable :
          /\ y \in L[n][y]
          /\ source[y].agent # owner => L[n + 1][y] = {y} \cup L[n][source[y].agent]
    BY <1>0, LineUnfolds
  <1>2. PICK rank \in [Spawnable -> Nat] : RankOf(rank)
    BY DEF RecoveryInv
  <1> DEFINE Settled(y) == step[y] \in Past /\ (step[y] = "registered" \/ ~Childless(y))
             Good(z) == chain[z] = "whole" /\ ~S!Repeated(z)
             W == {n \in Nat : \A y \in Born :
                     Settled(y) /\ rank[y] <= n /\ (\A z \in L[n][y] : Good(z)) => y \in roster}
  <1>3. \A y \in Born : /\ y \in Spawnable /\ rank[y] \in Nat
                        /\ Settled(y) /\ Good(y) /\ source[y].agent \in roster => y \in roster
                        /\ \/ source[y].agent = owner
                           \/ source[y].agent \in Born /\ Settled(source[y].agent)
                              /\ rank[source[y].agent] \in Nat /\ rank[source[y].agent] < rank[y]
    <2> SUFFICES ASSUME NEW y \in Born
                 PROVE  /\ y \in Spawnable /\ rank[y] \in Nat
                        /\ Settled(y) /\ Good(y) /\ source[y].agent \in roster => y \in roster
                        /\ \/ source[y].agent = owner
                           \/ source[y].agent \in Born /\ Settled(source[y].agent)
                              /\ rank[source[y].agent] \in Nat /\ rank[source[y].agent] < rank[y]
      OBVIOUS
    <2>1. y \in Spawnable /\ rank[y] \in Nat /\ ChildInv(y) /\ SourceInv(y)
          /\ source[y].agent \in Spawnable \cup {owner}
      BY <1>0 DEF RecoveryInv, Born, SourcesAre
    <2>2. \/ source[y].agent = owner
          \/ source[y].agent \in Born /\ step[source[y].agent] \in Past
             /\ rank[source[y].agent] \in Nat /\ rank[source[y].agent] < rank[y]
      BY <1>2, <2>1 DEF SourceInv, Born, Past, RankOf
    <2>3. ~Childless(source[y].agent)
      BY DEF Childless
    <2> QED BY <2>1, <2>2, <2>3 DEF ChildInv
  <1>4. 0 \in W /\ W \subseteq Nat
    <2>1. ASSUME NEW y \in Born, Settled(y), rank[y] <= 0, \A z \in L[0][y] : Good(z)
          PROVE  y \in roster
      <3>1. source[y].agent = owner
        BY <1>3, <2>1
      <3>2. Good(y)
        BY <1>1, <1>3, <2>1
      <3> QED BY <1>0, <1>3, <2>1, <3>1, <3>2
    <2> HIDE DEF Good, Settled
    <2> QED BY <2>1
  <1>5. ASSUME NEW n \in W PROVE n + 1 \in W
    <2>1. ASSUME NEW y \in Born, Settled(y), rank[y] <= n + 1,
                 \A z \in L[n + 1][y] : Good(z)
          PROVE  y \in roster
      <3> HIDE DEF Good, Settled
      <3>1. n \in Nat /\ n + 1 \in Nat
        OBVIOUS
      <3>2. Good(y)
        BY <1>1, <1>3, <2>1, <3>1
      <3>3. CASE source[y].agent = owner
        BY <1>0, <1>3, <2>1, <3>2, <3>3
      <3>4. CASE source[y].agent # owner
        <4> PICK a : a = source[y].agent
          OBVIOUS
        <4>1. a \in Born /\ Settled(a) /\ rank[a] \in Nat /\ rank[a] < rank[y] /\ rank[y] \in Nat
          BY <1>3, <3>4
        <4>2. rank[a] <= n
          BY <2>1, <3>1, <4>1
        <4>3. \A z \in L[n][a] : Good(z)
          BY <1>1, <1>3, <2>1, <3>1, <3>4
        <4>4. a \in roster
          BY <4>1, <4>2, <4>3
        <4> QED BY <1>3, <2>1, <3>2, <4>4
      <3> QED BY <3>3, <3>4
    <2> HIDE DEF Good, Settled
    <2>2. n + 1 \in Nat
      OBVIOUS
    <2> QED BY <2>1, <2>2
  <1>6. W = Nat
    <2> HIDE DEF W
    <2> QED BY <1>4, <1>5, EveryNatural
  <1>7. Levels \in Nat /\ rank[x] <= Levels
    <2>1. Born \subseteq Spawnable
      BY DEF Born
    <2>2. IsFiniteSet(Born) /\ Cardinality(Born) <= Cardinality(Spawnable)
      BY <2>1, SpawnAssumption, FS_Subset
    <2>3. Levels \in Nat /\ Cardinality(Born) \in Nat
      BY <2>2, SpawnAssumption, FS_CardinalityType DEF Levels
    <2>4. rank[x] < Cardinality(Born) /\ rank[x] \in Nat
      BY <1>2, <1>3 DEF RankOf
    <2> QED BY <2>2, <2>3, <2>4 DEF Levels
  <1>8. \A z \in L[Levels][x] : Good(z)
    <2>1. S!Lineage(x) = L[Levels][x]
      BY LevelsIs DEF S!Lineage
    <2> QED BY <2>1
  <1> HIDE DEF Good, Settled
  <1>9. Settled(x)
    BY DEF Settled, Past
  <1> QED BY <1>6, <1>7, <1>8, <1>9

\* What a restarted host finds agrees with the receipts and with the transcripts.
THEOREM RecoveryStaysExact == S!Spec => []RecoveryIsExact
  <1>1. RecoveryInv => RecoveryIsExact
    <2> SUFFICES ASSUME RecoveryInv PROVE RecoveryIsExact
      OBVIOUS
    <2>1. S!NotCreatedIsFinal
      BY DEF RecoveryInv, ChildInv, S!NotCreatedIsFinal
    <2>2. S!SubtreesAreIndependent
      <3>1. ASSUME up, NEW x \in Spawnable, step[x] = "registered",
                   \A d \in S!Lineage(x) : chain[d] = "whole" /\ ~S!Repeated(d)
            PROVE  x \in roster
        BY <3>1, LineageIsKnown DEF Born, Past
      <3>2. \A x \in Spawnable : x \in roster => source[x].agent \in roster
        BY DEF RecoveryInv, ChildInv
      <3> QED BY <3>1, <3>2 DEF S!SubtreesAreIndependent
    <2> QED BY <2>1, <2>2 DEF RecoveryIsExact, S!RecoveryIsExact
  <1> QED BY <1>1, RecoveryHolds, PTL

-----------------------------------------------------------------------------
(* What the transcripts show (RequestEvidence)                             *)

Texts    == {"q"} \cup Replies \cup Cancellations
Outcomes == {"accepted", "declined", "error"}
Execs    == [id : Texts \cup {"retry"}, stage : {"start", "admit", "done"},
             outcome : {nothing} \cup Outcomes \cup Replies, alive : BOOLEAN]
Bridges  == [request : {nothing, "q"}, answer : Replies \cup {nothing},
             cancellation : Cancellations \cup {nothing}]

EvidenceTypes ==
  /\ called \subseteq Texts /\ delivered \subseteq Texts /\ retrieved \subseteq Replies
  /\ result \in [Texts -> {"none"} \cup Outcomes] /\ admitted \in Bridges
  /\ queue \in [Texts -> {"none", "pending", "dispatched"}] /\ calls \subseteq Execs
  /\ lost \in BOOLEAN /\ spent \in [retries : Nat, failures : Nat, crashes : Nat]

\* An execution has no result in the transcript yet, one of a retry found an Answer whose call
\* has succeeded.
ExecOK(e) ==
  IF e.id = "retry"
  THEN e.stage = "done" /\ e.outcome \in Replies /\ result[e.outcome] = "accepted"
  ELSE /\ e.id \in called /\ result[e.id] = "none"
       /\ e.stage = "start" => e.outcome = nothing
       /\ e.stage = "admit" => e.outcome = "accepted"
       /\ e.stage = "done" => e.outcome \in Outcomes

ExecInv ==
  /\ \A e \in calls : ExecOK(e)
  /\ \A e, f \in calls : e.id = f.id /\ e.id # "retry" => e = f
  /\ \A m \in Texts : m \notin called => result[m] = "none"

\* What is scheduled or received was authored: no execution of it will deny it.
Touched(m) == queue[m] # "none" \/ E!Proven(m)
Authored(m) == /\ m \in called /\ result[m] \in {"none", "accepted"}
               /\ \A e \in calls : e.id = m => e.stage = "done" /\ e.outcome = "accepted"
TouchInv == \A m \in Texts : Touched(m) => Authored(m)

\* What is on its way has no proof, so that it gets one at most.
ProofInv == /\ \A m \in Texts : queue[m] = "dispatched" => ~E!Proven(m)
            /\ delivered \cap retrieved = {}

\* Without failures one Message of a kind is authored at most; it is canonical, or it is the
\* one the bridge names and its execution goes on.
Accepts(m) == \E e \in calls : e.id = m /\ e.outcome = "accepted"
Alive(m)   == Touched(m) \/ result[m] = "accepted" \/ Accepts(m)
OneInv(K, bridge) ==
  /\ \A m \in K : Alive(m) => E!Canonical(m) \/ bridge = m
  /\ bridge # nothing => Accepts(bridge)
  /\ \A m, n \in K : Alive(m) /\ Alive(n) => m = n
BridgeInv ==
  /\ \A e \in calls : e.alive
  /\ OneInv(Replies, admitted.answer) /\ OneInv(Cancellations, admitted.cancellation)

EvidenceInv ==
  /\ EvidenceTypes /\ ExecInv /\ TouchInv /\ ProofInv
  /\ spent.failures = 0 => BridgeInv

\* It holds before any call.
LEMMA EvidenceInit == E!Init => EvidenceInv
  <1> SUFFICES ASSUME E!Init PROVE EvidenceInv
    OBVIOUS
  <1>1. admitted \in Bridges /\ admitted.answer = nothing /\ admitted.cancellation = nothing
    BY DEF E!Init, E!NoBridge, Bridges
  <1>2. spent \in [retries : Nat, failures : Nat, crashes : Nat]
    BY DEF E!Init
  <1>3. EvidenceTypes
    BY <1>1, <1>2 DEF E!Init, EvidenceTypes, E!Messages, Texts
  <1>4. ExecInv
    BY DEF E!Init, ExecInv, E!Messages, Texts
  <1>5. \A m \in Texts : ~Touched(m) /\ ~E!Proven(m) /\ result[m] = "none" /\ queue[m] = "none"
                         /\ ~Accepts(m)
    BY DEF E!Init, Touched, E!Proven, Accepts, E!Messages, Texts
  <1>6. BridgeInv
    BY <1>1, <1>5 DEF E!Init, BridgeInv, OneInv, Alive, Texts
  <1> QED BY <1>3, <1>4, <1>5, <1>6 DEF EvidenceInv, TouchInv, ProofInv, E!Init

\* When a Message is canonical.
LEMMA CanonicalIs ==
  ASSUME EvidenceTypes, NEW m \in Texts
  PROVE  E!Canonical(m) <=> /\ m \in called
                            /\ result[m] = "accepted" \/ (result[m] = "none" /\ E!Proven(m))
  <1>1. result[m] \in {"none", "accepted", "declined", "error"}
    BY DEF EvidenceTypes, Outcomes
  <1>2. CASE result[m] = "accepted"
    BY <1>2 DEF E!Canonical, E!AuthorResult, E!Denies
  <1>3. CASE result[m] \in {"error", "declined"}
    BY <1>3 DEF E!Canonical, E!AuthorResult, E!Denies
  <1>4. CASE result[m] = "none"
    <2>1. CASE E!Proven(m)
      BY <1>4, <2>1 DEF E!Canonical, E!AuthorResult, E!Denies
    <2>2. CASE ~E!Proven(m)
      BY <1>4, <2>2 DEF E!Canonical, E!AuthorResult, E!Denies
    <2> QED BY <2>1, <2>2
  <1> QED BY <1>1, <1>2, <1>3, <1>4

\* and when it is after a step.
LEMMA CanonicalNext ==
  ASSUME EvidenceTypes', NEW m \in Texts
  PROVE  E!Canonical(m)' <=> /\ m \in called'
                             /\ result'[m] = "accepted" \/ (result'[m] = "none" /\ E!Proven(m)')
  <1>1. result'[m] \in {"none", "accepted", "declined", "error"}
    BY DEF EvidenceTypes, Outcomes
  <1>2. CASE result'[m] = "accepted"
    BY <1>2 DEF E!Canonical, E!AuthorResult, E!Denies
  <1>3. CASE result'[m] \in {"error", "declined"}
    BY <1>3 DEF E!Canonical, E!AuthorResult, E!Denies
  <1>4. CASE result'[m] = "none"
    <2>1. CASE E!Proven(m)'
      BY <1>4, <2>1 DEF E!Canonical, E!AuthorResult, E!Denies
    <2>2. CASE ~E!Proven(m)'
      BY <1>4, <2>2 DEF E!Canonical, E!AuthorResult, E!Denies
    <2> QED BY <2>1, <2>2
  <1> QED BY <1>1, <1>2, <1>3, <1>4

\* A step after which nothing more is alive, and what was canonical is, keeps the one Message.
LEMMA OneKept ==
  ASSUME BridgeInv, \A e \in calls' : e.alive,
         admitted'.answer = admitted.answer, admitted'.cancellation = admitted.cancellation,
         \A m \in Replies \cup Cancellations :
           /\ Alive(m)' => Alive(m)
           /\ E!Canonical(m) => E!Canonical(m)'
           /\ admitted.answer = m \/ admitted.cancellation = m => Accepts(m)',
         admitted \in Bridges
  PROVE  BridgeInv'
  <1>1. OneInv(Replies, admitted.answer)'
    <2>1. admitted.answer # nothing => Accepts(admitted.answer)'
      BY DEF Bridges
    <2> QED BY <2>1 DEF OneInv, BridgeInv
  <1>2. OneInv(Cancellations, admitted.cancellation)'
    <2>1. admitted.cancellation # nothing => Accepts(admitted.cancellation)'
      BY DEF Bridges
    <2> QED BY <2>1 DEF OneInv, BridgeInv
  <1> QED BY <1>1, <1>2 DEF BridgeInv

\* An execution goes on.
LEMMA BecomesFacts ==
  ASSUME EvidenceTypes, ExecInv, NEW e \in calls, e.id # "retry", NEW s \in {"admit", "done"},
         NEW o \in Outcomes, s = "admit" => o = "accepted", E!Becomes(e, s, o),
         UNCHANGED <<called, result>>
  PROVE  /\ calls' \subseteq Execs /\ ExecInv'
         /\ \A m \in Texts : m # e.id => (Accepts(m)' <=> Accepts(m))
         /\ Accepts(e.id)' <=> o = "accepted"
         /\ \A f \in calls' : IF f.id = e.id THEN f.stage = s /\ f.outcome = o ELSE f \in calls
         /\ (\A f \in calls : f.alive) => \A f \in calls' : f.alive
  <1> PICK g : g = [e EXCEPT !.stage = s, !.outcome = o]
    OBVIOUS
  <1>1. calls' = (calls \ {e}) \cup {g}
    BY DEF E!Becomes
  <1>2. e \in Execs /\ calls \subseteq Execs
    BY DEF EvidenceTypes
  <1>3. g \in Execs /\ g.id = e.id /\ g.stage = s /\ g.outcome = o /\ g.alive = e.alive
    BY <1>2 DEF Execs
  <1>4. \A f \in calls : f.id = e.id => f = e
    BY DEF ExecInv
  <1>5. \A f \in calls : ExecOK(f)'
    BY DEF ExecInv, ExecOK
  <1>6. ExecOK(g)'
    BY <1>3 DEF ExecInv, ExecOK
  <1>7. \A f, h \in calls' : f.id = h.id /\ f.id # "retry" => f = h
    <2>1. \A f \in calls \ {e} : f.id # g.id
      BY <1>3, <1>4
    <2>2. \A f, h \in calls : f.id = h.id /\ f.id # "retry" => f = h
      BY DEF ExecInv
    <2> QED BY ZenonT(60), <1>1, <2>1, <2>2
  <1>8. \A f \in calls' : ExecOK(f)'
    BY <1>1, <1>5, <1>6
  <1>9. ExecInv'
    BY <1>7, <1>8 DEF ExecInv
  <1> QED BY <1>1, <1>2, <1>3, <1>4, <1>9 DEF Accepts

\* the same for a step that changes no result.
LEMMA BridgeStays ==
  ASSUME EvidenceInv, EvidenceTypes', called \subseteq called', result' = result,
         spent'.failures = 0 => spent.failures = 0,
         admitted'.answer = admitted.answer, admitted'.cancellation = admitted.cancellation,
         (\A e \in calls : e.alive) => \A e \in calls' : e.alive,
         \A m \in Replies \cup Cancellations : /\ Touched(m)' => Alive(m)
                                               /\ E!Proven(m) => E!Proven(m)'
                                               /\ Accepts(m)' <=> Accepts(m)
  PROVE  spent'.failures = 0 => BridgeInv'
  <1> SUFFICES ASSUME spent'.failures = 0 PROVE BridgeInv'
    OBVIOUS
  <1>1. BridgeInv /\ admitted \in Bridges /\ EvidenceTypes
    BY DEF EvidenceInv, EvidenceTypes
  <1>2. \A m \in Texts : m \in Replies \cup Cancellations => (E!Canonical(m) => E!Canonical(m)')
    BY <1>1, CanonicalIs, CanonicalNext
  <1>3. \A m \in Replies \cup Cancellations : Alive(m)' => Alive(m)
    BY DEF Alive
  <1>4. \A m \in Replies \cup Cancellations :
          admitted.answer = m \/ admitted.cancellation = m => Accepts(m)' /\ m # nothing
    BY <1>1, EvidenceAssumption DEF BridgeInv, OneInv
  <1>5. \A e \in calls' : e.alive
    BY <1>1 DEF BridgeInv
  <1> QED BY <1>1, <1>2, <1>3, <1>4, <1>5, OneKept DEF Texts

\* One lemma per action: a call commits,
LEMMA EvidenceCall ==
  ASSUME EvidenceInv, NEW m \in Texts, E!Call(m)
  PROVE  EvidenceInv'
  <1> PICK g : g = E!Execution(m, "start", nothing)
    OBVIOUS
  <1>0. EvidenceTypes /\ ExecInv /\ TouchInv /\ ProofInv
    BY DEF EvidenceInv
  <1>1. /\ m \notin called /\ called' = called \cup {m} /\ calls' = calls \cup {g}
        /\ UNCHANGED <<result, delivered, retrieved, admitted, queue, lost, spent>>
    BY DEF E!Call
  <1>2. g \in Execs /\ g.id = m /\ g.stage = "start" /\ g.outcome = nothing /\ g.alive = TRUE
    BY DEF E!Execution, Execs
  <1>3. m # "retry" /\ nothing # "accepted"
    BY EvidenceAssumption DEF Texts
  <1>4. EvidenceTypes'
    BY <1>0, <1>1, <1>2 DEF EvidenceTypes
  <1>5. ExecInv'
    BY <1>0, <1>1, <1>2, <1>3 DEF ExecInv, ExecOK
  <1>6. \A n \in Texts : (Touched(n)' <=> Touched(n)) /\ (Accepts(n)' <=> Accepts(n))
                         /\ (E!Proven(n)' <=> E!Proven(n))
    BY <1>1, <1>2, <1>3 DEF Touched, Accepts, E!Proven
  <1>7. TouchInv'
    BY <1>0, <1>1, <1>2, <1>6 DEF TouchInv, Authored
  <1>8. ProofInv'
    BY <1>0, <1>1 DEF ProofInv, E!Proven
  <1>9. spent'.failures = 0 => BridgeInv'
    BY <1>1, <1>2, <1>4, <1>6, BridgeStays DEF Alive, Texts
  <1> QED BY <1>4, <1>5, <1>7, <1>8, <1>9 DEF EvidenceInv

\* the Request is admitted,
LEMMA EvidenceAdmitsRequest ==
  ASSUME EvidenceInv, NEW e \in calls, E!AdmitRequest(e)
  PROVE  EvidenceInv'
  <1>0. EvidenceTypes /\ ExecInv /\ TouchInv /\ ProofInv /\ admitted \in Bridges
    BY DEF EvidenceInv, EvidenceTypes
  <1>1. /\ e.id = "q" /\ e.stage = "start" /\ E!Becomes(e, "admit", "accepted")
        /\ admitted' = [admitted EXCEPT !.request = "q"]
        /\ UNCHANGED <<called, result, delivered, retrieved, queue, lost, spent>>
    BY DEF E!AdmitRequest
  <1>2. /\ calls' \subseteq Execs /\ ExecInv'
        /\ \A m \in Texts : m # "q" => (Accepts(m)' <=> Accepts(m))
        /\ \A f \in calls' : f.id # "q" => f \in calls
        /\ (\A f \in calls : f.alive) => \A f \in calls' : f.alive
    BY <1>0, <1>1, BecomesFacts DEF Outcomes
  <1>3. /\ admitted' \in Bridges /\ admitted'.answer = admitted.answer
        /\ admitted'.cancellation = admitted.cancellation
    BY <1>0, <1>1 DEF Bridges
  <1>4. EvidenceTypes'
    BY <1>0, <1>1, <1>2, <1>3 DEF EvidenceTypes
  <1>5. \A n \in Texts : (Touched(n)' <=> Touched(n)) /\ (E!Proven(n)' <=> E!Proven(n))
    BY <1>1 DEF Touched, E!Proven
  <1>6. ~Touched("q")
    BY <1>0, <1>1 DEF TouchInv, Authored, Texts
  <1>7. TouchInv'
    BY <1>0, <1>1, <1>2, <1>5, <1>6 DEF TouchInv, Authored
  <1>8. ProofInv'
    BY <1>0, <1>1 DEF ProofInv, E!Proven
  <1>9. spent'.failures = 0 => BridgeInv'
    <2>1. \A n \in Replies \cup Cancellations : n # "q" /\ n \in Texts
      BY EvidenceAssumption DEF Texts
    <2> QED BY <1>1, <1>2, <1>3, <1>4, <1>5, <2>1, BridgeStays DEF Alive
  <1> QED BY <1>2, <1>4, <1>7, <1>8, <1>9 DEF EvidenceInv

\* A call is turned down: nothing is authored.
LEMMA TurnedDown ==
  ASSUME EvidenceInv, NEW e \in calls, e.id \in Replies \cup Cancellations, e.stage = "start",
         NEW o \in {"error", "declined"}, E!Becomes(e, "done", o),
         UNCHANGED <<called, result, delivered, retrieved, admitted, queue, lost, spent>>
  PROVE  EvidenceInv'
  <1>0. EvidenceTypes /\ ExecInv /\ TouchInv /\ ProofInv
    BY DEF EvidenceInv
  <1>1. e.id # "retry" /\ e.id \in Texts /\ nothing # "accepted"
    BY EvidenceAssumption DEF Texts
  <1>2. /\ calls' \subseteq Execs /\ ExecInv'
        /\ \A m \in Texts : m # e.id => (Accepts(m)' <=> Accepts(m))
        /\ ~Accepts(e.id)'
        /\ \A f \in calls' : f.id # e.id => f \in calls
        /\ (\A f \in calls : f.alive) => \A f \in calls' : f.alive
    BY <1>0, <1>1, BecomesFacts DEF Outcomes
  <1>3. ~Accepts(e.id)
    BY <1>0, <1>1 DEF Accepts, ExecInv, ExecOK
  <1>4. EvidenceTypes'
    BY <1>0, <1>1, <1>2 DEF EvidenceTypes
  <1>5. \A n \in Texts : (Touched(n)' <=> Touched(n)) /\ (E!Proven(n)' <=> E!Proven(n))
    BY DEF Touched, E!Proven
  <1>6. ~Touched(e.id)
    BY <1>0, <1>1 DEF TouchInv, Authored, Texts
  <1>7. TouchInv'
    BY <1>0, <1>1, <1>2, <1>5, <1>6 DEF TouchInv, Authored
  <1>8. ProofInv'
    BY <1>0, <1>1 DEF ProofInv, E!Proven
  <1>9. spent'.failures = 0 => BridgeInv'
    BY <1>1, <1>2, <1>3, <1>4, <1>5, BridgeStays DEF Alive, Texts
  <1> QED BY <1>2, <1>4, <1>7, <1>8, <1>9 DEF EvidenceInv

\* A call is admitted: nothing changes yet for what is scheduled or proved.
LEMMA TakenUp ==
  ASSUME EvidenceInv, NEW e \in calls, e.id \in Replies \cup Cancellations, e.stage = "start",
         NEW s \in {"admit", "done"}, E!Becomes(e, s, "accepted"), admitted' \in Bridges,
         UNCHANGED <<called, result, delivered, retrieved, queue, lost, spent>>
  PROVE  /\ EvidenceTypes' /\ ExecInv' /\ TouchInv' /\ ProofInv'
         /\ \A m \in Texts : m # e.id => (Alive(m)' <=> Alive(m))
         /\ \A m \in Texts : E!Canonical(m)' <=> E!Canonical(m)
         /\ Accepts(e.id)' /\ e.id \in Texts
         /\ (\A f \in calls : f.alive) => \A f \in calls' : f.alive
  <1>0. EvidenceTypes /\ ExecInv /\ TouchInv /\ ProofInv
    BY DEF EvidenceInv
  <1>1. e.id # "retry" /\ e.id \in Texts /\ nothing # "accepted"
    BY EvidenceAssumption DEF Texts
  <1>2. /\ calls' \subseteq Execs /\ ExecInv'
        /\ \A m \in Texts : m # e.id => (Accepts(m)' <=> Accepts(m))
        /\ Accepts(e.id)'
        /\ \A f \in calls' : f.id # e.id => f \in calls
        /\ (\A f \in calls : f.alive) => \A f \in calls' : f.alive
    BY <1>0, <1>1, BecomesFacts DEF Outcomes
  <1>4. EvidenceTypes'
    BY <1>0, <1>1, <1>2 DEF EvidenceTypes
  <1>5. \A n \in Texts : (Touched(n)' <=> Touched(n)) /\ (E!Proven(n)' <=> E!Proven(n))
    BY DEF Touched, E!Proven
  <1>6. ~Touched(e.id)
    BY <1>0, <1>1 DEF TouchInv, Authored, Texts
  <1>7. TouchInv'
    BY <1>0, <1>1, <1>2, <1>5, <1>6 DEF TouchInv, Authored
  <1>8. ProofInv'
    BY <1>0, <1>1 DEF ProofInv, E!Proven
  <1>9. \A m \in Texts : m # e.id => (Alive(m)' <=> Alive(m))
    BY <1>2, <1>5 DEF Alive
  <1>10. \A m \in Texts : E!Canonical(m)' <=> E!Canonical(m)
    BY <1>0, <1>4, <1>5, CanonicalIs, CanonicalNext
  <1> QED BY <1>1, <1>2, <1>4, <1>7, <1>8, <1>9, <1>10

\* an Answer is admitted if the Request has none,
LEMMA EvidenceAdmitsAnswer ==
  ASSUME EvidenceInv, NEW e \in calls, E!AdmitAnswer(e)
  PROVE  EvidenceInv'
  <1>1. /\ e.id \in Replies /\ e.stage = "start"
        /\ UNCHANGED <<called, result, delivered, retrieved, queue, lost, spent>>
    BY DEF E!AdmitAnswer
  <1>2. CASE E!MayNotAnswer
    BY <1>1, <1>2, TurnedDown DEF E!AdmitAnswer
  <1>3. CASE ~E!MayNotAnswer
    <2>0. EvidenceTypes /\ admitted \in Bridges
      BY DEF EvidenceInv, EvidenceTypes
    <2>1. PICK s \in {"admit", "done"} : E!Becomes(e, s, "accepted")
      BY <1>3 DEF E!AdmitAnswer
    <2>2. admitted' = [admitted EXCEPT !.answer = e.id]
      BY <1>3 DEF E!AdmitAnswer
    <2>3. /\ admitted' \in Bridges /\ admitted'.answer = e.id
          /\ admitted'.cancellation = admitted.cancellation
      BY <1>1, <2>0, <2>2 DEF Bridges
    <2>4. /\ EvidenceTypes' /\ ExecInv' /\ TouchInv' /\ ProofInv'
          /\ \A m \in Texts : m # e.id => (Alive(m)' <=> Alive(m))
          /\ \A m \in Texts : E!Canonical(m)' <=> E!Canonical(m)
          /\ Accepts(e.id)' /\ e.id \in Texts
          /\ (\A f \in calls : f.alive) => \A f \in calls' : f.alive
      BY <1>1, <2>1, <2>3, TakenUp
    <2>5. admitted.answer = nothing /\ \A m \in Replies : ~E!Canonical(m)
      <3>1. E!AnswersFound = {}
        BY <1>3 DEF E!MayNotAnswer
      <3>2. E!CanonicalAnswers = {}
        BY <3>1 DEF E!AnswersFound
      <3> QED BY <3>1, <3>2 DEF E!AnswersFound, E!CanonicalAnswers
    <2>6. ASSUME spent'.failures = 0 PROVE BridgeInv'
      <3>1. BridgeInv
        BY <1>1, <2>6 DEF EvidenceInv
      <3>2. \A m \in Replies : m # nothing /\ m \in Texts /\ m \notin Cancellations
        BY EvidenceAssumption DEF Texts
      <3>3. \A m \in Replies : Alive(m)' => m = e.id
        BY <2>4, <2>5, <3>1, <3>2 DEF BridgeInv, OneInv
      <3>4. OneInv(Replies, admitted.answer)'
        BY <2>3, <2>4, <3>3 DEF OneInv
      <3>5. \A m \in Cancellations : (Alive(m)' <=> Alive(m)) /\ m \in Texts
        BY <1>1, <2>4, <3>2 DEF Texts
      <3>6. admitted.cancellation # nothing => Accepts(admitted.cancellation)'
        <4> SUFFICES ASSUME admitted.cancellation # nothing
                     PROVE  Accepts(admitted.cancellation)'
          OBVIOUS
        <4>1. PICK x \in Cancellations : x = admitted.cancellation
          BY <2>0 DEF Bridges
        <4>2. Accepts(x) /\ x # e.id
          BY <1>1, <3>1, <3>2, <4>1 DEF BridgeInv, OneInv
        <4>3. PICK f \in calls : f.id = x /\ f.outcome = "accepted"
          BY <4>2 DEF Accepts
        <4>4. f \in calls'
          BY <2>1, <4>2, <4>3 DEF E!Becomes
        <4> QED BY <4>1, <4>3, <4>4, <2>3 DEF Accepts
      <3>7. OneInv(Cancellations, admitted.cancellation)'
        BY <2>3, <2>4, <3>1, <3>5, <3>6 DEF OneInv, BridgeInv
      <3> QED BY <2>4, <3>1, <3>4, <3>7 DEF BridgeInv
    <2> QED BY <2>4, <2>6 DEF EvidenceInv
  <1> QED BY <1>2, <1>3
\* and a Cancellation if the Request has neither one nor an Answer that arrived,
LEMMA EvidenceAdmitsCancellation ==
  ASSUME EvidenceInv, NEW e \in calls, E!AdmitCancellation(e)
  PROVE  EvidenceInv'
  <1>1. /\ e.id \in Cancellations /\ e.stage = "start"
        /\ UNCHANGED <<called, result, delivered, retrieved, queue, lost, spent>>
    BY DEF E!AdmitCancellation
  <1>2. CASE E!Fails \/ lost \/ E!AuthorResult("q") = "not_created"
    <2>1. E!Becomes(e, "done", "error") /\ admitted' = admitted
      BY <1>2 DEF E!AdmitCancellation
    <2> QED BY <1>1, <2>1, TurnedDown
  <1>4. CASE /\ ~(E!Fails \/ lost \/ E!AuthorResult("q") = "not_created")
             /\ (\E k \in E!AnswersFound : E!Proven(k)) \/ E!CancellationsFound # {}
    <2>1. E!Becomes(e, "done", "declined") /\ admitted' = admitted
      BY <1>4 DEF E!AdmitCancellation
    <2> QED BY <1>1, <2>1, TurnedDown
  <1>3. CASE /\ ~(E!Fails \/ lost \/ E!AuthorResult("q") = "not_created")
             /\ ~((\E k \in E!AnswersFound : E!Proven(k)) \/ E!CancellationsFound # {})
    <2>0. EvidenceTypes /\ admitted \in Bridges
      BY DEF EvidenceInv, EvidenceTypes
    <2>1. E!Becomes(e, "admit", "accepted")
      BY <1>3 DEF E!AdmitCancellation
    <2>2. admitted' = [admitted EXCEPT !.cancellation = e.id]
      BY <1>3 DEF E!AdmitCancellation
    <2>3. /\ admitted' \in Bridges /\ admitted'.cancellation = e.id
          /\ admitted'.answer = admitted.answer
      BY <1>1, <2>0, <2>2 DEF Bridges
    <2>4. /\ EvidenceTypes' /\ ExecInv' /\ TouchInv' /\ ProofInv'
          /\ \A m \in Texts : m # e.id => (Alive(m)' <=> Alive(m))
          /\ \A m \in Texts : E!Canonical(m)' <=> E!Canonical(m)
          /\ Accepts(e.id)' /\ e.id \in Texts
          /\ (\A f \in calls : f.alive) => \A f \in calls' : f.alive
      BY <1>1, <2>1, <2>3, TakenUp
    <2>5. admitted.cancellation = nothing /\ \A m \in Cancellations : ~E!Canonical(m)
      <3>1. E!CancellationsFound = {}
        BY <1>3
      <3>2. E!CanonicalCancellations = {}
        BY <3>1 DEF E!CancellationsFound
      <3> QED BY <3>1, <3>2 DEF E!CancellationsFound, E!CanonicalCancellations
    <2>6. ASSUME spent'.failures = 0 PROVE BridgeInv'
      <3>1. BridgeInv
        BY <1>1, <2>6 DEF EvidenceInv
      <3>2. \A m \in Cancellations : m # nothing /\ m \in Texts /\ m \notin Replies
        BY EvidenceAssumption DEF Texts
      <3>3. \A m \in Cancellations : Alive(m)' => m = e.id
        BY <2>4, <2>5, <3>1, <3>2 DEF BridgeInv, OneInv
      <3>4. OneInv(Cancellations, admitted.cancellation)'
        BY <2>3, <2>4, <3>3 DEF OneInv
      <3>5. \A m \in Replies : (Alive(m)' <=> Alive(m)) /\ m \in Texts
        BY <1>1, <2>4, <3>2 DEF Texts
      <3>6. admitted.answer # nothing => Accepts(admitted.answer)'
        <4> SUFFICES ASSUME admitted.answer # nothing
                     PROVE  Accepts(admitted.answer)'
          OBVIOUS
        <4>1. PICK x \in Replies : x = admitted.answer
          BY <2>0 DEF Bridges
        <4>2. Accepts(x) /\ x # e.id
          BY <1>1, <3>1, <3>2, <4>1 DEF BridgeInv, OneInv
        <4>3. PICK f \in calls : f.id = x /\ f.outcome = "accepted"
          BY <4>2 DEF Accepts
        <4>4. f \in calls'
          BY <2>1, <4>2, <4>3 DEF E!Becomes
        <4> QED BY <4>1, <4>3, <4>4, <2>3 DEF Accepts
      <3>7. OneInv(Replies, admitted.answer)'
        BY <2>3, <2>4, <3>1, <3>5, <3>6 DEF OneInv, BridgeInv
      <3> QED BY <2>4, <3>1, <3>4, <3>7 DEF BridgeInv
    <2> QED BY <2>4, <2>6 DEF EvidenceInv
  <1> QED BY <1>2, <1>3, <1>4

\* its Delivery is queued or refused,
LEMMA EvidenceAdmitsDelivery ==
  ASSUME EvidenceInv, NEW e \in calls, E!AdmitDelivery(e)
  PROVE  EvidenceInv'
  <1>0. EvidenceTypes /\ ExecInv /\ TouchInv /\ ProofInv /\ admitted \in Bridges
    BY DEF EvidenceInv, EvidenceTypes
  <1>1. e.stage = "admit" /\ UNCHANGED <<called, result, delivered, retrieved, lost, spent>>
    BY DEF E!AdmitDelivery
  <1>2. /\ e.id # "retry" /\ e.id \in Texts /\ e.id \in called /\ result[e.id] = "none"
        /\ e.outcome = "accepted"
    <2>1. e.id # "retry" /\ e.id \in called /\ result[e.id] = "none" /\ e.outcome = "accepted"
      BY <1>0, <1>1 DEF ExecInv, ExecOK
    <2> QED BY <1>0, <2>1 DEF EvidenceTypes
  <1>3. PICK o \in {"accepted", "declined"} :
          /\ E!Becomes(e, "done", o)
          /\ o = "declined" => e.id = "q" /\ queue' = queue
          /\ \/ queue' = queue
             \/ o = "accepted"
                /\ queue' = [queue EXCEPT ![e.id] = IF @ = "none" THEN "pending" ELSE @]
    BY <1>2 DEF E!AdmitDelivery
  <1>4. /\ admitted' \in Bridges /\ admitted'.answer = admitted.answer
        /\ admitted'.cancellation = admitted.cancellation
    BY <1>0 DEF E!AdmitDelivery, Bridges
  <1>5. /\ calls' \subseteq Execs /\ ExecInv'
        /\ \A m \in Texts : m # e.id => (Accepts(m)' <=> Accepts(m))
        /\ Accepts(e.id)' <=> o = "accepted"
        /\ \A f \in calls' : IF f.id = e.id THEN f.stage = "done" /\ f.outcome = o ELSE f \in calls
        /\ (\A f \in calls : f.alive) => \A f \in calls' : f.alive
    <2>1. o \in Outcomes /\ E!Becomes(e, "done", o) /\ UNCHANGED <<called, result>>
      BY <1>1, <1>3 DEF Outcomes
    <2>2. "done" \in {"admit", "done"} /\ ("done" = "admit" => o = "accepted")
      OBVIOUS
    <2> QED BY ONLY <1>0, <1>2, <2>1, <2>2, BecomesFacts
  <1>6. /\ queue' \in [Texts -> {"none", "pending", "dispatched"}]
        /\ \A m \in Texts : /\ m # e.id => queue'[m] = queue[m]
                            /\ queue'[m] = "dispatched" => queue[m] = "dispatched"
    BY <1>0, <1>2, <1>3 DEF EvidenceTypes
  <1>7. EvidenceTypes'
    BY <1>0, <1>1, <1>4, <1>5, <1>6 DEF EvidenceTypes
  <1>8. \A n \in Texts : (E!Proven(n)' <=> E!Proven(n)) /\ (n # e.id => (Touched(n)' <=> Touched(n)))
    BY <1>1, <1>6 DEF Touched, E!Proven
  <1>9. ~Touched(e.id) /\ Accepts(e.id)
    BY <1>0, <1>1, <1>2 DEF TouchInv, Authored, Accepts
  <1>10. Touched(e.id)' => o = "accepted"
    <2>1. CASE o = "declined"
      <3>1. Touched(e.id)' <=> Touched(e.id)
        BY <1>2, <1>3, <1>8, <2>1 DEF Touched
      <3> QED BY <1>9, <3>1
    <2> QED BY <2>1
  <1>11. TouchInv'
    <2> SUFFICES ASSUME NEW m \in Texts, Touched(m)' PROVE Authored(m)'
      BY DEF TouchInv
    <2>1. CASE m = e.id
      BY <2>1, <1>1, <1>2, <1>5, <1>10 DEF Authored
    <2>2. CASE m # e.id
      BY <2>2, <1>0, <1>1, <1>5, <1>8 DEF Authored, TouchInv
    <2> QED BY <2>1, <2>2
  <1>12. ProofInv'
    BY <1>0, <1>1, <1>6 DEF ProofInv, E!Proven
  <1>13. spent'.failures = 0 => BridgeInv'
    <2>1. \A n \in Replies \cup Cancellations : n # "q" /\ n \in Texts
      BY EvidenceAssumption DEF Texts
    <2>2. \A n \in Replies \cup Cancellations : Accepts(n)' <=> Accepts(n)
      <3> SUFFICES ASSUME NEW n \in Replies \cup Cancellations PROVE Accepts(n)' <=> Accepts(n)
        OBVIOUS
      <3>1. CASE n # e.id
        BY <1>5, <2>1, <3>1
      <3>2. CASE n = e.id
        <4>1. o = "accepted"
          BY <1>3, <2>1, <3>2
        <4> QED BY <1>5, <1>9, <3>2, <4>1
      <3> QED BY <3>1, <3>2
    <2>3. \A n \in Replies \cup Cancellations : Touched(n)' => Alive(n)
      BY <1>8, <1>9, <2>1 DEF Alive
    <2> QED BY <1>1, <1>4, <1>5, <1>7, <1>8, <2>1, <2>2, <2>3, BridgeStays
  <1> QED BY <1>5, <1>7, <1>11, <1>12, <1>13 DEF EvidenceInv

\* or its admission throws,
LEMMA EvidenceThrows ==
  ASSUME EvidenceInv, NEW e \in calls, E!AdmissionThrows(e)
  PROVE  EvidenceInv'
  <1>0. EvidenceTypes /\ ExecInv /\ TouchInv /\ ProofInv
    BY DEF EvidenceInv
  <1>1. /\ e.stage = "admit" /\ E!Becomes(e, "done", "error")
        /\ UNCHANGED <<called, result, delivered, retrieved, admitted, lost>>
        /\ spent' = [spent EXCEPT !.failures = @ + 1]
    BY DEF E!AdmissionThrows
  <1>2. e.id # "retry" /\ e.id \in Texts
    <2>1. e.id # "retry" /\ e.id \in called
      BY <1>0, <1>1 DEF ExecInv, ExecOK
    <2> QED BY <1>0, <2>1 DEF EvidenceTypes
  <1>3. /\ calls' \subseteq Execs /\ ExecInv'
        /\ \A f \in calls' : f.id # e.id => f \in calls
    BY <1>0, <1>1, <1>2, BecomesFacts DEF Outcomes
  <1>4. /\ queue' \in [Texts -> {"none", "pending", "dispatched"}]
        /\ \A m \in Texts : queue'[m] \in {queue[m], "none"}
    <2>1. queue' = [m \in Texts |-> IF E!Recipient(m) = E!Recipient(e.id) /\ queue[m] = "pending"
                                    THEN "none" ELSE queue[m]]
      BY DEF E!AdmissionThrows, E!Messages, Texts
    <2> QED BY <1>0, <2>1 DEF EvidenceTypes
  <1>5. spent' \in [retries : Nat, failures : Nat, crashes : Nat] /\ spent'.failures # 0
    BY <1>0, <1>1 DEF EvidenceTypes
  <1>6. EvidenceTypes'
    BY <1>0, <1>1, <1>3, <1>4, <1>5 DEF EvidenceTypes
  <1>7. \A n \in Texts : Touched(n)' => Touched(n)
    BY <1>1, <1>4 DEF Touched, E!Proven
  <1>8. ~Touched(e.id)
    BY <1>0, <1>1, <1>2 DEF TouchInv, Authored
  <1>9. TouchInv'
    BY <1>0, <1>1, <1>3, <1>7, <1>8 DEF TouchInv, Authored
  <1>10. ProofInv'
    BY <1>0, <1>1, <1>4 DEF ProofInv, E!Proven
  <1> QED BY <1>3, <1>5, <1>6, <1>9, <1>10 DEF EvidenceInv

\* Work that was authored moves in the queues, or a retry begins.
LEMMA QueueMoves ==
  ASSUME EvidenceInv, UNCHANGED <<called, result, delivered, retrieved, admitted, lost>>,
         spent' \in [retries : Nat, failures : Nat, crashes : Nat],
         spent'.failures = spent.failures,
         queue' \in [Texts -> {"none", "pending", "dispatched"}],
         \A m \in Texts : queue'[m] # "none" => queue[m] # "none" \/ result[m] = "accepted",
         \A m \in Texts : queue'[m] = "dispatched" => ~E!Proven(m),
         calls \subseteq calls', calls' \subseteq Execs, ExecInv',
         \A f \in calls' \ calls : f.id = "retry" /\ f.alive
  PROVE  EvidenceInv'
  <1>0. EvidenceTypes /\ ExecInv /\ TouchInv /\ ProofInv
    BY DEF EvidenceInv
  <1>1. EvidenceTypes'
    BY <1>0 DEF EvidenceTypes
  <1>2. "retry" \notin Texts
    BY EvidenceAssumption DEF Texts
  <1>3. \A m \in Texts : (Accepts(m)' <=> Accepts(m)) /\ (E!Proven(m)' <=> E!Proven(m))
    BY <1>2 DEF Accepts, E!Proven
  <1>4. \A m \in Texts : Touched(m)' => Touched(m) \/ result[m] = "accepted"
    BY <1>3 DEF Touched
  <1>5. TouchInv'
    <2> SUFFICES ASSUME NEW m \in Texts, Touched(m)' PROVE Authored(m)'
      BY DEF TouchInv
    <2>1. m \in called /\ result[m] \in {"none", "accepted"}
      BY <1>0, <1>4 DEF TouchInv, Authored, ExecInv
    <2>2. ASSUME NEW f \in calls', f.id = m PROVE f.stage = "done" /\ f.outcome = "accepted"
      <3>1. f \in calls
        BY <1>2, <2>2
      <3>2. result[m] # "accepted"
        BY <1>0, <1>2, <2>2, <3>1 DEF ExecInv, ExecOK
      <3> QED BY <1>0, <1>4, <2>2, <3>1, <3>2 DEF TouchInv, Authored
    <2> QED BY <2>1, <2>2 DEF Authored
  <1>6. ProofInv'
    BY <1>0, <1>3 DEF ProofInv
  <1>7. spent'.failures = 0 => BridgeInv'
    <2>1. \A m \in Replies \cup Cancellations : m \in Texts
      BY DEF Texts
    <2>2. (\A f \in calls : f.alive) => \A f \in calls' : f.alive
      OBVIOUS
    <2>3. called \subseteq called' /\ result' = result /\ admitted'.answer = admitted.answer
          /\ admitted'.cancellation = admitted.cancellation
      OBVIOUS
    <2>4. \A m \in Replies \cup Cancellations : /\ Touched(m)' => Alive(m)
                                                /\ E!Proven(m) => E!Proven(m)'
                                                /\ Accepts(m)' <=> Accepts(m)
      BY <1>3, <1>4, <2>1 DEF Alive
    <2> QED BY <1>1, <2>2, <2>3, <2>4, BridgeStays
  <1> QED BY <1>1, <1>5, <1>6, <1>7 DEF EvidenceInv

\* A Message without a proof is canonical only if its call succeeded.
LEMMA UnprovenIs ==
  ASSUME EvidenceTypes, NEW m \in Texts, E!Canonical(m), ~E!Proven(m)
  PROVE  result[m] = "accepted"
  BY CanonicalIs

\* the Request is retried,
LEMMA EvidenceRetries ==
  ASSUME EvidenceInv, E!Retry
  PROVE  EvidenceInv'
  <1>0. EvidenceTypes /\ ExecInv /\ TouchInv /\ ProofInv
    BY DEF EvidenceInv
  <1>1. /\ UNCHANGED <<called, result, delivered, retrieved, admitted, lost>>
        /\ spent' = [spent EXCEPT !.retries = @ + 1]
    BY DEF E!Retry
  <1>2. /\ spent' \in [retries : Nat, failures : Nat, crashes : Nat]
        /\ spent'.failures = spent.failures
    BY <1>0, <1>1 DEF EvidenceTypes
  <1>3. /\ queue \in [Texts -> {"none", "pending", "dispatched"}] /\ calls \subseteq Execs
        /\ \A m \in Texts : queue[m] = "dispatched" => ~E!Proven(m)
    BY <1>0 DEF EvidenceTypes, ProofInv
  <1>4. CASE \E k \in E!CanonicalAnswers :
               /\ ~E!Proven(k) /\ calls' = calls \cup {E!Execution("retry", "done", k)}
               /\ queue' = queue
    <2>1. PICK k \in E!CanonicalAnswers :
            /\ ~E!Proven(k) /\ calls' = calls \cup {E!Execution("retry", "done", k)}
            /\ queue' = queue
      BY <1>4
    <2>2. k \in Replies /\ k \in Texts /\ result[k] = "accepted"
      BY <1>0, <2>1, UnprovenIs DEF E!CanonicalAnswers, Texts
    <2> PICK g : g = E!Execution("retry", "done", k)
      OBVIOUS
    <2>3. /\ g \in Execs /\ g.id = "retry" /\ g.stage = "done" /\ g.outcome = k
          /\ g.alive = TRUE
      BY <2>2 DEF E!Execution, Execs
    <2>4. calls' = calls \cup {g}
      BY <2>1
    <2>5. ExecInv'
      BY <1>0, <1>1, <2>2, <2>3, <2>4 DEF ExecInv, ExecOK
    <2>6. calls \subseteq calls' /\ calls' \subseteq Execs
          /\ \A f \in calls' \ calls : f.id = "retry" /\ f.alive
      BY <1>3, <2>3, <2>4
    <2>7. /\ queue' \in [Texts -> {"none", "pending", "dispatched"}]
          /\ \A m \in Texts : queue'[m] = "dispatched" => ~E!Proven(m)
          /\ \A m \in Texts : queue'[m] # "none" => queue[m] # "none" \/ result[m] = "accepted"
      BY <1>3, <2>1
    <2> QED BY <1>1, <1>2, <2>5, <2>6, <2>7, QueueMoves
  <1>5. CASE /\ calls' = calls
             /\ queue' = IF ~E!Fails /\ E!CancellationsFound = {} /\ E!Canonical("q")
                            /\ E!AnswersFound = {} /\ "q" \notin delivered /\ queue["q"] = "none"
                         THEN [queue EXCEPT !["q"] = "pending"] ELSE queue
    <2>1. "q" \in Texts /\ "q" \notin Replies
      BY EvidenceAssumption DEF Texts
    <2>2. \/ queue' = queue
          \/ queue' = [queue EXCEPT !["q"] = "pending"] /\ result["q"] = "accepted"
      <3>1. ASSUME E!Canonical("q"), "q" \notin delivered PROVE result["q"] = "accepted"
        <4>1. ~E!Proven("q")
          BY <1>0, <2>1, <3>1 DEF EvidenceTypes, E!Proven
        <4> QED BY <1>0, <2>1, <3>1, <4>1, UnprovenIs
      <3> QED BY <1>5, <3>1
    <2>3. /\ queue' \in [Texts -> {"none", "pending", "dispatched"}]
          /\ \A m \in Texts : queue'[m] = "dispatched" => ~E!Proven(m)
          /\ \A m \in Texts : queue'[m] # "none" => queue[m] # "none" \/ result[m] = "accepted"
      BY <1>3, <2>1, <2>2
    <2>4. ExecInv'
      BY <1>0, <1>1, <1>5 DEF ExecInv, ExecOK
    <2> QED BY <1>1, <1>2, <1>3, <1>5, <2>3, <2>4, QueueMoves
  <1> QED BY <1>4, <1>5 DEF E!Retry

\* work is handed over or leaves the queue,
LEMMA EvidenceDispatches ==
  ASSUME EvidenceInv, NEW m \in Texts, E!Dispatch(m)
  PROVE  EvidenceInv'
  <1>0. EvidenceTypes /\ ExecInv /\ TouchInv /\ ProofInv
    BY DEF EvidenceInv
  <1>1. /\ queue[m] = "pending"
        /\ UNCHANGED <<called, result, delivered, retrieved, admitted, calls, lost, spent>>
        /\ queue' = [queue EXCEPT ![m] = IF E!Proven(m) \/ E!Suppressed(m) THEN "none"
                                         ELSE "dispatched"]
    BY DEF E!Dispatch
  <1>2. /\ queue' \in [Texts -> {"none", "pending", "dispatched"}]
        /\ \A n \in Texts : queue'[n] = "dispatched" => ~E!Proven(n)
        /\ \A n \in Texts : queue'[n] # "none" => queue[n] # "none" \/ result[n] = "accepted"
    BY <1>0, <1>1 DEF EvidenceTypes, ProofInv
  <1>3. ExecInv'
    BY <1>0, <1>1 DEF ExecInv, ExecOK
  <1>4. calls \subseteq Execs /\ spent \in [retries : Nat, failures : Nat, crashes : Nat]
    BY <1>0 DEF EvidenceTypes
  <1> QED BY <1>1, <1>2, <1>3, <1>4, QueueMoves

\* or is scheduled again by a resumed Workflow,
LEMMA EvidenceResumes ==
  ASSUME EvidenceInv, NEW m \in Texts, E!Resume(m)
  PROVE  EvidenceInv'
  <1>0. EvidenceTypes /\ ExecInv /\ TouchInv /\ ProofInv
    BY DEF EvidenceInv
  <1>1. /\ UNCHANGED <<called, result, delivered, retrieved, admitted, calls, lost, spent>>
        /\ queue' = [queue EXCEPT ![m] = "pending"]
    BY DEF E!Resume
  <1>2. result[m] = "accepted"
    BY <1>0, UnprovenIs DEF E!Resume
  <1>3. /\ queue' \in [Texts -> {"none", "pending", "dispatched"}]
        /\ \A n \in Texts : queue'[n] = "dispatched" => ~E!Proven(n)
        /\ \A n \in Texts : queue'[n] # "none" => queue[n] # "none" \/ result[n] = "accepted"
    BY <1>0, <1>1, <1>2 DEF EvidenceTypes, ProofInv
  <1>4. ExecInv'
    BY <1>0, <1>1 DEF ExecInv, ExecOK
  <1>5. calls \subseteq Execs /\ spent \in [retries : Nat, failures : Nat, crashes : Nat]
    BY <1>0 DEF EvidenceTypes
  <1> QED BY <1>1, <1>3, <1>4, <1>5, QueueMoves

\* a Delivery commits,
LEMMA EvidenceDelivers ==
  ASSUME EvidenceInv, NEW m \in Texts, E!CommitDelivery(m)
  PROVE  EvidenceInv'
  <1>0. EvidenceTypes /\ ExecInv /\ TouchInv /\ ProofInv
    BY DEF EvidenceInv
  <1>1. /\ queue[m] = "dispatched" /\ delivered' = delivered \cup {m}
        /\ UNCHANGED <<called, result, retrieved, admitted, calls, lost, spent>>
    BY DEF E!CommitDelivery
  <1>2. queue' = [n \in Texts |->
                    IF n = m \/ (m \in Cancellations /\ n = "q" /\ queue[n] = "pending")
                    THEN "none" ELSE queue[n]]
    BY DEF E!CommitDelivery, E!Messages, Texts
  <1>3. /\ queue' \in [Texts -> {"none", "pending", "dispatched"}] /\ queue'[m] = "none"
        /\ \A n \in Texts : queue'[n] \in {"none", queue[n]}
    BY <1>0, <1>2 DEF EvidenceTypes
  <1>4. EvidenceTypes'
    BY <1>0, <1>1, <1>3 DEF EvidenceTypes
  <1>5. ExecInv'
    BY <1>0, <1>1 DEF ExecInv, ExecOK
  <1>6. \A n \in Texts : /\ E!Proven(n) => E!Proven(n)'
                         /\ E!Proven(n)' => E!Proven(n) \/ n = m
                         /\ Accepts(n)' <=> Accepts(n)
    BY <1>1 DEF E!Proven, Accepts
  <1>7. Touched(m) /\ \A n \in Texts : Touched(n)' => Touched(n)
    BY <1>1, <1>3, <1>6 DEF Touched
  <1>8. TouchInv'
    BY <1>0, <1>1, <1>7 DEF TouchInv, Authored
  <1>9. ProofInv'
    BY <1>0, <1>1, <1>3, <1>6 DEF ProofInv, E!Proven
  <1>10. spent'.failures = 0 => BridgeInv'
    <2>1. \A n \in Replies \cup Cancellations : n \in Texts
      BY DEF Texts
    <2>2. \A n \in Replies \cup Cancellations : /\ Touched(n)' => Alive(n)
                                                /\ E!Proven(n) => E!Proven(n)'
                                                /\ Accepts(n)' <=> Accepts(n)
      BY <1>6, <1>7, <2>1 DEF Alive
    <2>3. /\ (\A f \in calls : f.alive) => \A f \in calls' : f.alive
          /\ called \subseteq called' /\ result' = result
          /\ admitted'.answer = admitted.answer /\ admitted'.cancellation = admitted.cancellation
          /\ spent'.failures = 0 => spent.failures = 0
      BY <1>1
    <2> QED BY <1>4, <2>2, <2>3, BridgeStays
  <1> QED BY <1>4, <1>5, <1>8, <1>9, <1>10 DEF EvidenceInv

\* an execution whose Run has ended returns, which happens only after a failure,
LEMMA EvidenceReturns ==
  ASSUME EvidenceInv, NEW e \in calls, E!Returns(e)
  PROVE  EvidenceInv'
  <1>0. EvidenceTypes /\ ExecInv /\ TouchInv /\ ProofInv
    BY DEF EvidenceInv
  <1>1. /\ calls' = calls \ {e} /\ ~e.alive
        /\ UNCHANGED <<called, result, delivered, retrieved, admitted, queue, lost, spent>>
    BY DEF E!Returns
  <1>2. EvidenceTypes'
    BY <1>0, <1>1 DEF EvidenceTypes
  <1>3. ExecInv'
    BY <1>0, <1>1 DEF ExecInv, ExecOK
  <1>4. TouchInv' /\ ProofInv'
    BY <1>0, <1>1 DEF TouchInv, ProofInv, Touched, Authored, E!Proven
  <1>5. spent'.failures = 0 => BridgeInv'
    BY <1>1 DEF EvidenceInv, BridgeInv
  <1> QED BY <1>2, <1>3, <1>4, <1>5 DEF EvidenceInv

\* an Agent Run fails,
LEMMA EvidenceSurvivesRuns ==
  ASSUME EvidenceInv, NEW a \in {"R", "A"}, E!RunFails(a)
  PROVE  EvidenceInv'
  <1>0. EvidenceTypes /\ ExecInv /\ TouchInv /\ ProofInv
    BY DEF EvidenceInv
  <1>1. /\ spent' = [spent EXCEPT !.failures = @ + 1]
        /\ calls' = {[e EXCEPT !.alive = @ /\ e \notin E!Living(a)] : e \in calls}
        /\ UNCHANGED <<called, result, delivered, retrieved, lost>>
    BY DEF E!RunFails
  <1>2. spent' \in [retries : Nat, failures : Nat, crashes : Nat] /\ spent'.failures # 0
    BY <1>0, <1>1 DEF EvidenceTypes
  <1>3. admitted' \in Bridges
    BY <1>0 DEF E!RunFails, E!BridgesWithout, EvidenceTypes, Bridges
  <1>4. /\ queue' \in [Texts -> {"none", "pending", "dispatched"}]
        /\ \A m \in Texts : queue'[m] \in {queue[m], "none"}
    <2>1. queue' = [m \in Texts |-> IF E!Recipient(m) = a THEN "none" ELSE queue[m]]
      BY DEF E!RunFails, E!Messages, Texts
    <2> QED BY <1>0, <2>1 DEF EvidenceTypes
  <1>5. \A f \in calls' : \E e \in calls : /\ f \in Execs /\ f.id = e.id /\ f.stage = e.stage
                                           /\ f.outcome = e.outcome
                                           /\ f = [e EXCEPT !.alive = @ /\ e \notin E!Living(a)]
    <2> SUFFICES ASSUME NEW e \in calls,
                        NEW f, f = [e EXCEPT !.alive = @ /\ e \notin E!Living(a)]
                 PROVE  /\ f \in Execs /\ f.id = e.id /\ f.stage = e.stage
                        /\ f.outcome = e.outcome
      BY <1>1
    <2>1. e \in Execs
      BY <1>0 DEF EvidenceTypes
    <2>2. (e.alive /\ e \notin E!Living(a)) \in BOOLEAN
      OBVIOUS
    <2> QED BY <2>1, <2>2 DEF Execs
  <1>6. EvidenceTypes'
    BY <1>0, <1>1, <1>2, <1>3, <1>4, <1>5 DEF EvidenceTypes
  <1>7. ExecInv'
    <2>1. \A f \in calls' : ExecOK(f)'
      BY <1>0, <1>1, <1>5 DEF ExecInv, ExecOK
    <2>2. \A f, h \in calls' : f.id = h.id /\ f.id # "retry" => f = h
      BY <1>0, <1>5 DEF ExecInv
    <2> QED BY <1>0, <1>1, <2>1, <2>2 DEF ExecInv
  <1>8. \A n \in Texts : Touched(n)' => Touched(n)
    BY <1>1, <1>4 DEF Touched, E!Proven
  <1>9. TouchInv'
    <2> SUFFICES ASSUME NEW m \in Texts, Touched(m)' PROVE Authored(m)'
      BY DEF TouchInv
    <2>1. Authored(m)
      BY <1>0, <1>8 DEF TouchInv
    <2> QED BY <1>1, <1>5, <2>1 DEF Authored
  <1>10. ProofInv'
    BY <1>0, <1>1, <1>4 DEF ProofInv, E!Proven
  <1> QED BY <1>2, <1>6, <1>7, <1>9, <1>10 DEF EvidenceInv

\* and the Host stops.
LEMMA EvidenceSurvivesCrashes ==
  ASSUME EvidenceInv, E!Crash
  PROVE  EvidenceInv'
  <1>0. EvidenceTypes /\ ExecInv /\ TouchInv /\ ProofInv
    BY DEF EvidenceInv
  <1>1. /\ spent' = [spent EXCEPT !.crashes = @ + 1] /\ admitted' = E!NoBridge /\ calls' = {}
        /\ queue' = [m \in Texts |-> "none"] /\ lost' \in {lost, TRUE}
        /\ UNCHANGED <<called, result, delivered, retrieved>>
    BY DEF E!Crash, E!Messages, Texts
  <1>2. spent' \in [retries : Nat, failures : Nat, crashes : Nat]
        /\ spent'.failures = spent.failures
    BY <1>0, <1>1 DEF EvidenceTypes
  <1>3. admitted' \in Bridges /\ admitted'.answer = nothing /\ admitted'.cancellation = nothing
    BY <1>1 DEF E!NoBridge, Bridges
  <1>4. EvidenceTypes'
    BY <1>0, <1>1, <1>2, <1>3 DEF EvidenceTypes
  <1>5. ExecInv'
    BY <1>0, <1>1 DEF ExecInv, ExecOK
  <1>6. \A n \in Texts : ~Accepts(n)' /\ (Touched(n)' => E!Proven(n))
                         /\ (E!Proven(n)' <=> E!Proven(n))
    BY <1>1 DEF Touched, E!Proven, Accepts
  <1>7. TouchInv'
    BY <1>0, <1>1, <1>6 DEF TouchInv, Authored, Touched
  <1>8. ProofInv'
    BY <1>0, <1>1 DEF ProofInv, E!Proven
  <1>9. ASSUME spent'.failures = 0 PROVE BridgeInv'
    <2>1. BridgeInv
      BY <1>2, <1>9 DEF EvidenceInv
    <2>2. \A n \in Texts : Alive(n)' => Alive(n) /\ E!Canonical(n)'
      <3> SUFFICES ASSUME NEW n \in Texts, Alive(n)' PROVE Alive(n) /\ E!Canonical(n)'
        OBVIOUS
      <3>1. E!Proven(n) \/ result[n] = "accepted"
        BY <1>1, <1>6 DEF Alive
      <3>2. n \in called /\ result[n] \in {"none", "accepted"}
        BY <1>0, <3>1 DEF TouchInv, Touched, Authored, ExecInv
      <3>3. E!Canonical(n)'
        BY <1>1, <1>4, <1>6, <3>1, <3>2, CanonicalNext
      <3> QED BY <3>1, <3>3 DEF Alive, Touched
    <2>3. \A n \in Replies \cup Cancellations : n \in Texts
      BY DEF Texts
    <2>4. OneInv(Replies, admitted.answer)' /\ OneInv(Cancellations, admitted.cancellation)'
      BY <1>3, <2>1, <2>2, <2>3 DEF BridgeInv, OneInv
    <2> QED BY <1>1, <2>4 DEF BridgeInv
  <1> QED BY <1>4, <1>5, <1>7, <1>8, <1>9 DEF EvidenceInv

\* The result of a retry commits, and retrieves the Answer it found if it still may.
LEMMA EvidenceRetrieves ==
  ASSUME EvidenceInv, NEW e \in calls, e.id = "retry", E!CommitResult(e)
  PROVE  EvidenceInv'
  <1>0. EvidenceTypes /\ ExecInv /\ TouchInv /\ ProofInv /\ admitted \in Bridges
    BY DEF EvidenceInv, EvidenceTypes
  <1> PICK k : k = e.outcome
    OBVIOUS
  <1>1. k \in Replies /\ k \in Texts /\ result[k] = "accepted"
    BY <1>0 DEF ExecInv, ExecOK, Texts
  <1>2. /\ calls' = calls \ {e}
        /\ UNCHANGED <<called, result, delivered, queue, lost, spent>>
        /\ \/ retrieved' = retrieved
           \/ retrieved' = retrieved \cup {k} /\ ~E!Proven(k) /\ queue[k] # "dispatched"
    BY DEF E!CommitResult, E!Reconfirmed
  <1>3. /\ admitted' \in Bridges /\ admitted'.answer = admitted.answer
        /\ admitted'.cancellation = admitted.cancellation
    <2>1. "retry" \notin Replies \cup Cancellations
      BY EvidenceAssumption
    <2>2. admitted' = [request |-> admitted.request,
                       answer |-> IF e.id = admitted.answer /\ e.outcome = "accepted"
                                  THEN nothing ELSE admitted.answer,
                       cancellation |-> IF e.id = admitted.cancellation /\ e.outcome = "accepted"
                                        THEN nothing ELSE admitted.cancellation]
      BY DEF E!CommitResult
    <2> QED BY <1>0, <2>1, <2>2 DEF Bridges
  <1>4. EvidenceTypes'
    BY <1>0, <1>1, <1>2, <1>3 DEF EvidenceTypes
  <1>5. ExecInv'
    BY <1>0, <1>2 DEF ExecInv, ExecOK
  <1>6. \A n \in Texts : /\ E!Proven(n) => E!Proven(n)'
                         /\ E!Proven(n)' => E!Proven(n) \/ n = k
    BY <1>2 DEF E!Proven
  <1>7. TouchInv'
    <2> SUFFICES ASSUME NEW m \in Texts, Touched(m)' PROVE Authored(m)'
      BY DEF TouchInv
    <2>1. CASE Touched(m)
      BY <1>0, <1>2, <2>1 DEF TouchInv, Authored
    <2>2. CASE m = k
      <3>1. m \in called /\ result[m] = "accepted"
        BY <1>0, <1>1, <2>2 DEF ExecInv
      <3>2. \A f \in calls : f.id # m
        BY <1>0, <3>1, EvidenceAssumption DEF ExecInv, ExecOK, Texts
      <3> QED BY <1>2, <3>1, <3>2 DEF Authored
    <2> QED BY <1>2, <1>6, <2>1, <2>2 DEF Touched
  <1>8. ProofInv'
    BY <1>0, <1>2, <1>6 DEF ProofInv, E!Proven
  <1>9. spent'.failures = 0 => BridgeInv'
    <2>1. \A n \in Replies \cup Cancellations : n \in Texts /\ n # "retry"
      BY EvidenceAssumption DEF Texts
    <2>2. \A n \in Replies \cup Cancellations : /\ Touched(n)' => Alive(n)
                                                /\ E!Proven(n) => E!Proven(n)'
                                                /\ Accepts(n)' <=> Accepts(n)
      BY <1>1, <1>2, <1>6, <2>1 DEF Alive, Touched, Accepts
    <2>3. /\ (\A f \in calls : f.alive) => \A f \in calls' : f.alive
          /\ called \subseteq called' /\ result' = result
          /\ spent'.failures = 0 => spent.failures = 0
      BY <1>2
    <2> QED BY <1>3, <1>4, <2>2, <2>3, BridgeStays
  <1> QED BY <1>4, <1>5, <1>7, <1>8, <1>9 DEF EvidenceInv

\* The result of a Message commits: the Message is proved by it, or denied, and its bridge
\* goes.
LEMMA EvidenceCommits ==
  ASSUME EvidenceInv, NEW e \in calls, e.id # "retry", E!CommitResult(e)
  PROVE  EvidenceInv'
  <1>0. EvidenceTypes /\ ExecInv /\ TouchInv /\ ProofInv /\ admitted \in Bridges
    BY DEF EvidenceInv, EvidenceTypes
  <1> PICK k : k = e.id
    OBVIOUS
  <1> PICK o : o = e.outcome
    OBVIOUS
  <1>1. /\ k \in called /\ k \in Texts /\ result[k] = "none" /\ o \in Outcomes /\ e.stage = "done"
        /\ k # "retry"
    BY <1>0 DEF ExecInv, ExecOK, EvidenceTypes, E!CommitResult
  <1>2. /\ calls' = calls \ {e} /\ result' = [result EXCEPT ![k] = o]
        /\ UNCHANGED <<called, delivered, retrieved, queue, lost, spent>>
        /\ admitted' = [request |-> IF k = "q" THEN nothing ELSE admitted.request,
                        answer |-> IF k = admitted.answer /\ o = "accepted"
                                   THEN nothing ELSE admitted.answer,
                        cancellation |-> IF k = admitted.cancellation /\ o = "accepted"
                                         THEN nothing ELSE admitted.cancellation]
    BY DEF E!CommitResult
  <1>3. admitted' \in Bridges
    BY <1>0, <1>2 DEF Bridges
  <1>4. /\ result' \in [Texts -> {"none"} \cup Outcomes] /\ result'[k] = o
        /\ \A m \in Texts : m # k => result'[m] = result[m]
    BY <1>0, <1>1, <1>2 DEF EvidenceTypes
  <1>5. EvidenceTypes'
    BY <1>0, <1>2, <1>3, <1>4 DEF EvidenceTypes
  <1>6. \A f \in calls' : f.id # k /\ f \in calls
    BY <1>0, <1>1, <1>2 DEF ExecInv
  <1>7. ExecInv'
    <2>1. ASSUME NEW f \in calls' PROVE ExecOK(f)'
      <3>1. f \in calls /\ f.id # k /\ ExecOK(f)
        BY <1>0, <1>6, <2>1 DEF ExecInv
      <3>2. CASE f.id = "retry"
        <4>1. f.outcome \in Replies /\ f.outcome \in Texts /\ result[f.outcome] = "accepted"
          BY <3>1, <3>2 DEF ExecOK, Texts
        <4> QED BY <1>1, <1>4, <3>1, <3>2, <4>1 DEF ExecOK
      <3>3. CASE f.id # "retry"
        <4>1. f.id \in Texts
          BY <1>0, <3>1, <3>3 DEF ExecOK, EvidenceTypes
        <4> QED BY <1>2, <1>4, <3>1, <3>3, <4>1 DEF ExecOK
      <3> QED BY <3>2, <3>3
    <2>2. \A m \in Texts : m \notin called' => result'[m] = "none"
      BY <1>0, <1>1, <1>2, <1>4 DEF ExecInv
    <2> QED BY <1>0, <1>2, <2>1, <2>2 DEF ExecInv
  <1>8. \A n \in Texts : (Touched(n)' <=> Touched(n)) /\ (E!Proven(n)' <=> E!Proven(n))
    BY <1>2 DEF Touched, E!Proven
  <1>9. Touched(k) => o = "accepted"
    BY <1>0, <1>1 DEF TouchInv, Authored
  <1>10. TouchInv'
    <2> SUFFICES ASSUME NEW m \in Texts, Touched(m)' PROVE Authored(m)'
      BY DEF TouchInv
    <2>1. Authored(m)
      BY <1>0, <1>8 DEF TouchInv
    <2>2. result'[m] \in {"none", "accepted"}
      BY <1>4, <1>8, <1>9, <2>1 DEF Authored
    <2> QED BY <1>2, <1>6, <2>1, <2>2 DEF Authored
  <1>11. ProofInv'
    BY <1>0, <1>2, <1>8 DEF ProofInv
  <1>12. ASSUME spent'.failures = 0 PROVE BridgeInv'
    <2>1. BridgeInv
      BY <1>2, <1>12 DEF EvidenceInv
    <2>2. \A n \in Replies \cup Cancellations : n \in Texts /\ n # nothing
      BY EvidenceAssumption DEF Texts
    <2>3. \A n \in Texts : n # k => (Accepts(n)' <=> Accepts(n))
      BY <1>1, <1>2 DEF Accepts
    <2>4. ~Accepts(k)' /\ (Accepts(k) <=> o = "accepted")
      <3>1. \A f \in calls : f.id = k => f = e
        BY <1>0, <1>1 DEF ExecInv
      <3> QED BY <1>6, <3>1 DEF Accepts
    <2>5. \A n \in Texts : Alive(n)' => Alive(n)
      BY <1>4, <1>8, <2>3, <2>4 DEF Alive
    <2>6. \A n \in Texts : n # k /\ E!Canonical(n) => E!Canonical(n)'
      BY <1>0, <1>2, <1>4, <1>5, <1>8, CanonicalIs, CanonicalNext
    <2>7. Alive(k)' => o = "accepted" /\ E!Canonical(k)'
      <3>1. Alive(k)' => o = "accepted"
        BY <1>1, <1>4, <1>8, <1>9, <2>4 DEF Alive
      <3>2. o = "accepted" => E!Canonical(k)'
        BY <1>1, <1>2, <1>4, <1>5, CanonicalNext
      <3> QED BY <3>1, <3>2
    <2>8. ASSUME NEW K \in {Replies, Cancellations}, NEW b, NEW d,
                 OneInv(K, b), b \in K \cup {nothing}, d = IF k = b /\ o = "accepted" THEN nothing ELSE b
          PROVE  /\ \A m \in K : Alive(m)' => E!Canonical(m)' \/ d = m
                 /\ d # nothing => Accepts(d)'
                 /\ \A m, n \in K : Alive(m)' /\ Alive(n)' => m = n
      <3>1. \A m \in K : m \in Texts /\ m # nothing
        BY <2>2
      <3>2. ASSUME NEW m \in K, Alive(m)' PROVE E!Canonical(m)' \/ d = m
        <4>1. CASE m = k
          BY <2>7, <3>2, <4>1
        <4>2. CASE m # k
          <5>1. E!Canonical(m) \/ b = m
            BY <2>5, <2>8, <3>1, <3>2 DEF OneInv
          <5> QED BY <2>6, <2>8, <3>1, <4>2, <5>1
        <4> QED BY <4>1, <4>2
      <3>3. ASSUME d # nothing PROVE Accepts(d)'
        <4>1. d = b /\ b \in K /\ ~(k = b /\ o = "accepted")
          BY <2>8, <3>3
        <4>2. Accepts(b)
          BY <2>8, <3>3, <4>1 DEF OneInv
        <4> QED BY <2>3, <2>4, <3>1, <4>1, <4>2
      <3>4. \A m, n \in K : Alive(m)' /\ Alive(n)' => m = n
        BY <2>5, <2>8, <3>1 DEF OneInv
      <3> QED BY <3>2, <3>3, <3>4
    <2>9. /\ admitted.answer \in Replies \cup {nothing}
          /\ admitted.cancellation \in Cancellations \cup {nothing}
          /\ admitted'.answer = IF k = admitted.answer /\ o = "accepted"
                                THEN nothing ELSE admitted.answer
          /\ admitted'.cancellation = IF k = admitted.cancellation /\ o = "accepted"
                                      THEN nothing ELSE admitted.cancellation
      BY <1>0, <1>2 DEF Bridges
    <2>10. OneInv(Replies, admitted.answer)'
      <3>1. OneInv(Replies, admitted.answer)
        BY <2>1 DEF BridgeInv
      <3> QED BY <2>8, <2>9, <3>1 DEF OneInv
    <2>11. OneInv(Cancellations, admitted.cancellation)'
      <3>1. OneInv(Cancellations, admitted.cancellation)
        BY <2>1 DEF BridgeInv
      <3> QED BY <2>8, <2>9, <3>1 DEF OneInv
    <2> QED BY <1>2, <2>1, <2>10, <2>11 DEF BridgeInv
  <1> QED BY <1>5, <1>7, <1>10, <1>11, <1>12 DEF EvidenceInv

\* Every step keeps the invariant.
LEMMA EvidenceNext == EvidenceInv /\ [E!Next]_(E!vars) => EvidenceInv'
  <1>1. ASSUME EvidenceInv, UNCHANGED E!vars PROVE EvidenceInv'
    <2>1. UNCHANGED <<called, result, delivered, retrieved, admitted, queue, calls, lost, spent>>
      BY <1>1 DEF E!vars
    <2>2. EvidenceTypes' /\ ExecInv' /\ TouchInv' /\ ProofInv'
      BY <1>1, <2>1 DEF EvidenceInv, EvidenceTypes, ExecInv, ExecOK, TouchInv, ProofInv, Touched,
                        Authored, E!Proven
    <2>3. \A m \in Texts : (Touched(m)' <=> Touched(m)) /\ (Accepts(m)' <=> Accepts(m))
                           /\ (E!Proven(m)' <=> E!Proven(m))
      BY <2>1 DEF Touched, Accepts, E!Proven
    <2>4. \A m \in Replies \cup Cancellations : m \in Texts
      BY DEF Texts
    <2>5. \A m \in Replies \cup Cancellations : /\ Touched(m)' => Alive(m)
                                                /\ E!Proven(m) => E!Proven(m)'
                                                /\ Accepts(m)' <=> Accepts(m)
      BY <2>3, <2>4 DEF Alive
    <2>6. spent'.failures = 0 => BridgeInv'
      BY <1>1, <2>1, <2>2, <2>5, BridgeStays
    <2> QED BY <2>2, <2>6 DEF EvidenceInv
  <1>2. ASSUME EvidenceInv, E!Next PROVE EvidenceInv'
    <2>1. CASE \E m \in Texts : E!Call(m) \/ E!Dispatch(m) \/ E!CommitDelivery(m) \/ E!Resume(m)
      BY <1>2, <2>1, EvidenceCall, EvidenceDispatches, EvidenceDelivers, EvidenceResumes
    <2>2. CASE \E e \in calls : \/ E!AdmitRequest(e) \/ E!AdmitAnswer(e) \/ E!AdmitCancellation(e)
                                \/ E!AdmitDelivery(e) \/ E!AdmissionThrows(e)
                                \/ E!CommitResult(e) \/ E!Returns(e)
      BY <1>2, <2>2, EvidenceAdmitsRequest, EvidenceAdmitsAnswer, EvidenceAdmitsCancellation,
         EvidenceAdmitsDelivery, EvidenceThrows, EvidenceRetrieves, EvidenceCommits, EvidenceReturns
    <2>3. CASE E!Retry \/ E!Crash \/ \E a \in {"R", "A"} : E!RunFails(a)
      BY <1>2, <2>3, EvidenceRetries, EvidenceSurvivesRuns, EvidenceSurvivesCrashes
    <2> QED BY <1>2, <2>1, <2>2, <2>3 DEF E!Next, E!Messages, Texts
  <1> QED BY <1>1, <1>2

\* The transcripts, the executions and the bridges fit together, whatever fails.
THEOREM EvidenceHolds == E!Spec => []EvidenceInv
  BY EvidenceInit, EvidenceNext, PTL DEF E!Spec

\* A set with one member at most has a cardinality of one at most.
LEMMA AtMostOne ==
  ASSUME NEW W, \A m, n \in W : m = n PROVE E!Cardinality(W) <= 1
  <1>1. E!Cardinality(W) = Cardinality(W)
    BY Zenon DEF Cardinality, E!Cardinality
  <1>2. CASE W = {}
    BY <1>1, <1>2, FS_EmptySet
  <1>3. CASE W # {}
    <2>1. PICK x : W = {x}
      BY <1>3
    <2>2. Cardinality({x}) = 1
      BY FS_Singleton
    <2>3. Cardinality(W) = 1
      BY <2>1, <2>2
    <2>4. E!Cardinality(W) = 1
      BY ONLY <1>1, <2>3
    <2> QED BY ONLY <2>4, SMT
  <1> QED BY <1>2, <1>3

\* No Message is denied and received, no Answer is received twice; while nothing has failed a
\* Request has one canonical Answer and one canonical Cancellation at most, and an Agent that
\* owes the Answer and executes nothing may give it.
THEOREM EvidenceStaysSound == E!Spec => []EvidenceIsSound
  <1>1. EvidenceInv => EvidenceIsSound
    <2> SUFFICES ASSUME EvidenceInv PROVE EvidenceIsSound
      OBVIOUS
    <2>0. EvidenceTypes /\ TouchInv /\ ProofInv
      BY DEF EvidenceInv
    <2>1. E!EvidenceAgrees
      BY <2>0 DEF E!EvidenceAgrees, TouchInv, Touched, Authored, ProofInv, E!Denies, E!Messages, Texts
    <2>2. \A m \in Texts : E!Canonical(m) => Alive(m)
      BY <2>0, CanonicalIs DEF Alive, Touched
    <2>3. E!OneAnswerUnlessSomethingFails
      <3> SUFFICES ASSUME spent.failures = 0
                   PROVE  /\ E!Cardinality(E!CanonicalAnswers) <= 1
                          /\ E!Cardinality(E!CanonicalCancellations) <= 1
        BY DEF E!OneAnswerUnlessSomethingFails, E!OneCanonicalAnswer
      <3>1. BridgeInv
        BY DEF EvidenceInv
      <3>2. \A m, n \in E!CanonicalAnswers : m = n
        BY <2>2, <3>1 DEF E!CanonicalAnswers, BridgeInv, OneInv, Texts
      <3>3. \A m, n \in E!CanonicalCancellations : m = n
        BY <2>2, <3>1 DEF E!CanonicalCancellations, BridgeInv, OneInv, Texts
      <3> QED BY <3>2, <3>3, AtMostOne
    <2>4. E!DutiesCanBeMetUnlessSomethingFails
      <3> SUFFICES ASSUME spent.failures = 0, E!Owed, calls = {}, ~E!Fails
                   PROVE  ~E!MayNotAnswer
        BY DEF E!DutiesCanBeMetUnlessSomethingFails, E!DutiesCanBeMet
      <3>1. admitted.answer = nothing /\ admitted.cancellation = nothing
        BY DEF EvidenceInv, BridgeInv, OneInv, Accepts
      <3>2. "q" \in delivered /\ E!CanonicalAnswers = {}
            /\ IF lost THEN ~E!CancellationDelivered
               ELSE E!CanonicalCancellations \cap delivered = {}
        BY DEF E!Owed
      <3>3. E!Canonical("q")
        <4>1. "q" \in Texts /\ Touched("q") /\ E!Proven("q")
          BY <3>2 DEF Texts, Touched, E!Proven
        <4> QED BY <2>0, <4>1, CanonicalIs DEF TouchInv, Authored
      <3>4. E!AnswersFound = {}
        BY <3>1, <3>2 DEF E!AnswersFound
      <3>5. E!CancellationsFound \subseteq E!CanonicalCancellations
        BY <3>1 DEF E!CancellationsFound
      <3> QED BY <3>2, <3>3, <3>4, <3>5 DEF E!MayNotAnswer
    <2> QED BY <2>1, <2>3, <2>4 DEF EvidenceIsSound, E!EvidenceIsSound
  <1> QED BY <1>1, EvidenceHolds, PTL
=============================================================================
