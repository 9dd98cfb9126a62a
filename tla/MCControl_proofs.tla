-------------------------- MODULE MCControl_proofs --------------------------
(***************************************************************************)
(* The Control between the Owner and a child, proved for any numbers of    *)
(* Agents, connections, requests, events and failures, one part after the  *)
(* other: the view of the Agent that is selected (InteractiveSelection),   *)
(* the channel (ControlChannel), the child's screen (ChildScreen), the     *)
(* admission of a connection (ControlAdmission), the keys a human types    *)
(* (NativeInput) and the child's Runs as its Owner follows them            *)
(* (HostedRuntime).                                                        *)
(*                                                                         *)
(* Selection: that a retention reason does not stay behind rests on every  *)
(* operation of the view lane still finding, when it comes to remove the   *)
(* reason, the Runtime for which it was set.  The lanes of the Agents go   *)
(* on meanwhile: a Runtime may be discarded, which takes the reason with   *)
(* it, and another may take its place, which must not get one.             *)
(*                                                                         *)
(* The other parts are about two ends that learn from each other in time.  *)
(* What may arrive is decided when it is sent, so each invariant is about  *)
(* the frames on their way: it relates every frame to both ends, and the   *)
(* order of two frames to what they say.                                   *)
(***************************************************************************)
EXTENDS MCControl, Integers, FiniteSetTheorems, SequenceTheorems, TLAPS

-----------------------------------------------------------------------------
(* The selection.                                                          *)

Runtime == [phase : {"dormant", "starting", "preparing", "live"}, projection : Nat,
            next : Nat \ {0}, admitted : BOOLEAN, retained : BOOLEAN,
            lane : {"free", "start", "prepare"}]
View == [agent : Watched \cup {Nobody}, projection : Nat, failed : BOOLEAN]
Job == [step : {"none", "acquire", "prepared", "show", "leave", "close"},
        target : Watched \cup {Nobody}, projection : Nat, prior : View]

TypeInv ==
  /\ rt \in [Watched -> Runtime]
  /\ shown \in View
  /\ job \in Job
  /\ \A c \in closes : c[1] \in Watched

\* The fields of job that a step does not use are empty.  A view that is switched or
\* closed is still shown, unless its Runtime was discarded meanwhile.
JobInv ==
  /\ job.step \in {"none", "close"} <=> job.target = Nobody
  /\ job.step = "none" => job.prior = NoView
  /\ job.step \in {"leave", "close"} => job.prior.agent # Nobody
  /\ job.step \in {"acquire", "prepared", "show"} =>
       /\ job.target # job.prior.agent
       /\ shown = NoView \/ Views(job.prior.agent, job.prior.projection)
  /\ job.step = "leave" => /\ job.target # job.prior.agent
                           /\ shown.agent \in {job.target, Nobody}
  /\ job.step = "close" => shown = NoView \/ Views(job.prior.agent, job.prior.projection)
  /\ shown.agent = Nobody => shown = NoView
  /\ job.prior.agent = Nobody => job.prior = NoView
  /\ shown.agent # Nobody => shown.projection # 0
  /\ job.prior.agent # Nobody => job.prior.projection # 0
  /\ job.step = "show" => job.projection # 0

\* A Runtime is kept only for the view that it belongs to, and one that is not there yet
\* only while it is prepared.  The Runtime that an operation leaves is still the one it
\* captured, or it is not kept.
KeptForItsView ==
  /\ \A a \in Watched : rt[a].retained /\ rt[a].projection = 0 => rt[a].lane = "prepare"
  /\ job.step = "acquire" /\ rt[job.target].retained => job.target \in stranded
  /\ \A a \in Watched : shown.agent = a /\ rt[a].retained => rt[a].projection = shown.projection
  /\ job.step = "show" /\ rt[job.target].retained
       => rt[job.target].projection = job.projection
  /\ job.step = "leave" /\ rt[job.target].retained
       => shown.agent = job.target \/ job.target \in stranded
  /\ job.step # "none" /\ job.prior.agent # Nobody /\ rt[job.prior.agent].retained
       => /\ rt[job.prior.agent].projection = job.prior.projection
          /\ job.step # "leave" => Views(job.prior.agent, job.prior.projection)

\* The inductive invariant.
IInv == TypeInv /\ JobInv /\ KeptForItsView /\ NoSelectionLingers

\* No Agent is called Nobody.
NobodyIsNoAgent == Nobody \notin Watched

LEMMA InitHolds == ASSUME NobodyIsNoAgent, Init PROVE IInv
  BY DEF NobodyIsNoAgent, Init, IInv, TypeInv, JobInv, KeptForItsView, NoSelectionLingers,
         Runtime, View, Job, NoView, NoJob

-----------------------------------------------------------------------------
(* The records.                                                            *)

LEMMA ViewFacts ==
  ASSUME NobodyIsNoAgent
  PROVE  /\ NoView \in View /\ NoView.agent = Nobody
         /\ \A v \in View, f \in BOOLEAN :
              /\ [v EXCEPT !.failed = f] \in View
              /\ [v EXCEPT !.failed = f].agent = v.agent
              /\ [v EXCEPT !.failed = f].projection = v.projection
         /\ \A a \in Watched, p \in Nat :
              /\ [agent |-> a, projection |-> p, failed |-> FALSE] \in View
              /\ [agent |-> a, projection |-> p, failed |-> FALSE] # NoView
  BY DEF View, NoView, NobodyIsNoAgent

LEMMA RuntimeFacts ==
  ASSUME NEW r \in Runtime
  PROVE  /\ Dormant(r) \in Runtime /\ ~Dormant(r).retained
         /\ \A x \in BOOLEAN :
              /\ [r EXCEPT !.retained = x] \in Runtime
              /\ [r EXCEPT !.retained = x].retained = x
              /\ [r EXCEPT !.retained = x].projection = r.projection
              /\ [r EXCEPT !.retained = x].lane = r.lane
         /\ r.projection \in Nat /\ r.retained \in BOOLEAN
  BY DEF Dormant, Runtime

\* What the Agents' own steps make of a Runtime, a discarded one apart.
Advances(r, s) ==
  \/ r.lane = "free" /\ s = [r EXCEPT !.phase = "starting", !.lane = "start"]
  \/ r.projection # 0 /\ s = [r EXCEPT !.phase = "live", !.lane = "free"]
  \/ s = [r EXCEPT !.phase = "live"]
  \/ s = [r EXCEPT !.admitted = FALSE]
  \/ s = [r EXCEPT !.admitted = TRUE]
  \/ /\ r.projection = 0
     /\ \/ s = [r EXCEPT !.projection = r.next, !.next = r.next + 1, !.admitted = TRUE]
        \/ s = [r EXCEPT !.projection = r.next, !.next = r.next + 1, !.phase = "preparing",
                         !.lane = "free"]

Placed(r) == r.retained /\ r.projection = 0 => r.lane = "prepare"

LEMMA AdvanceFacts ==
  ASSUME NEW r \in Runtime, NEW s, Advances(r, s)
  PROVE  /\ s \in Runtime /\ s.retained = r.retained
         /\ r.projection \in {0, s.projection}
         /\ Placed(r) => Placed(s)
<1>. r.next \in Nat \ {0} /\ r.next \in Nat /\ r.next + 1 \in Nat \ {0}
  BY DEF Runtime
<1>1. CASE r.lane = "free" /\ s = [r EXCEPT !.phase = "starting", !.lane = "start"]
  BY <1>1 DEF Runtime, Placed
<1>2. CASE r.projection # 0 /\ s = [r EXCEPT !.phase = "live", !.lane = "free"]
  BY <1>2 DEF Runtime, Placed
<1>3. CASE s = [r EXCEPT !.phase = "live"]
  BY <1>3 DEF Runtime, Placed
<1>4. CASE s = [r EXCEPT !.admitted = FALSE]
  BY <1>4 DEF Runtime, Placed
<1>5. CASE s = [r EXCEPT !.admitted = TRUE]
  BY <1>5 DEF Runtime, Placed
<1>6. CASE /\ r.projection = 0
             /\ s = [r EXCEPT !.projection = r.next, !.next = r.next + 1, !.admitted = TRUE]
  BY <1>6 DEF Runtime, Placed
<1>7. CASE /\ r.projection = 0
             /\ s = [r EXCEPT !.projection = r.next, !.next = r.next + 1,
                              !.phase = "preparing", !.lane = "free"]
  BY <1>7 DEF Runtime, Placed
<1> QED
  BY <1>1, <1>2, <1>3, <1>4, <1>5, <1>6, <1>7 DEF Advances

-----------------------------------------------------------------------------
(* The lanes of the Agents.                                                *)

\* Every step keeps the history of stranded targets.
StrandedHolds == stranded' = {a \in stranded \cup Strands : rt'[a].retained}

LEMMA StrandedStay == ASSUME StrandedHolds
                      PROVE  \A a \in stranded \cup Strands : rt'[a].retained => a \in stranded'
  BY DEF StrandedHolds

\* A view that is shown before a step of an Agent, and the one shown after it.
StaysShown(v, w) ==
  w \in View /\ w.agent = v.agent /\ w.projection = v.projection /\ (v = NoView => w = NoView)

\* What may happen to the Runtime of one Agent while the view lane goes on: it is kept
\* on for what it was kept for, or for the view that shows it, and a view that is
\* closed with it does not leave it kept.
LEMMA RuntimeStep ==
  ASSUME NobodyIsNoAgent, IInv, StrandedHolds,
         NEW a \in Watched, NEW r \in Runtime,
         rt' = [rt EXCEPT ![a] = r], job' = job, Placed(r),
         \A c \in closes' : c \in closes \/ c[1] = a,
         r.retained => \/ /\ rt[a].retained
                          /\ rt[a].projection \in {0, r.projection}
                       \/ Views(a, r.projection),
         \/ StaysShown(shown, shown')
         \/ shown.agent = a /\ shown' = NoView /\ ~r.retained
  PROVE  IInv'
<1> USE DEF IInv, TypeInv
<1>1. /\ rt' \in [Watched -> Runtime] /\ rt'[a] = r
      /\ \A b \in Watched : b # a => rt'[b] = rt[b]
  OBVIOUS
<1>2. TypeInv'
  BY <1>1, ViewFacts DEF StaysShown
<1>3. JobInv'
  BY <1>1, ViewFacts DEF JobInv, View, Job, Views, StaysShown
<1>4. KeptForItsView'
  BY <1>1, ViewFacts, StrandedStay DEF KeptForItsView, Placed, JobInv, View, Job, NoView, Views, NobodyIsNoAgent, StaysShown
<1>5. NoSelectionLingers'
  BY <1>1, ViewFacts, StrandedStay DEF NoSelectionLingers, View, Job, NoView, Views, NobodyIsNoAgent, StaysShown
<1> QED
  BY <1>2, <1>3, <1>4, <1>5

\* An admission keeps the Runtime if its view is shown.
LEMMA BindStep ==
  ASSUME NobodyIsNoAgent, IInv, StrandedHolds, NEW a \in Watched, NEW r, Advances(rt[a], r), Bind(a, r)
  PROVE  IInv'
<1>1. /\ r \in Runtime /\ r.retained = rt[a].retained
      /\ rt[a].projection \in {0, r.projection}
      /\ shown \in View
      /\ Placed(r) /\ closes' = closes
  BY AdvanceFacts DEF IInv, TypeInv, KeptForItsView, Placed, Bind
<1>2. CASE shown.agent = a /\ ~Views(a, r.projection)
  <2>1. rt' = [rt EXCEPT ![a] = Dormant(r)] /\ shown' = shown /\ job' = job
    BY <1>2 DEF Bind, Views
  <2>2. /\ Dormant(r) \in Runtime /\ ~Dormant(r).retained /\ Placed(Dormant(r))
        /\ StaysShown(shown, shown')
    BY <1>1, <2>1, RuntimeFacts DEF StaysShown, Placed
  <2> QED
    BY <1>1, <2>1, <2>2, RuntimeStep
<1>3. CASE ~(shown.agent = a /\ ~Views(a, r.projection))
  <2> DEFINE x == r.retained \/ Views(a, r.projection)
             k == [r EXCEPT !.retained = x]
  <2>1. rt' = [rt EXCEPT ![a] = k] /\ job' = job
    BY <1>3 DEF Bind, Views
  <2>2. k \in Runtime /\ k.projection = r.projection /\ k.retained = x /\ k.lane = r.lane
    <3>1. x \in BOOLEAN
      BY Zenon
    <3> HIDE DEF x
    <3> QED
      BY <1>1, <3>1, RuntimeFacts
  <2>3. Views(a, r.projection) => shown # NoView
    BY ViewFacts DEF Views, NobodyIsNoAgent
  <2>4. shown' = IF Views(a, r.projection) THEN [shown EXCEPT !.failed = FALSE] ELSE shown
    BY DEF Bind
  <2>5. StaysShown(shown, shown')
    BY <1>1, <2>3, <2>4, ViewFacts DEF StaysShown
  <2>6. Placed(k)
    BY <1>1, <2>2 DEF Placed, Views, IInv, JobInv, NobodyIsNoAgent
  <2> HIDE DEF k
  <2> QED
    BY <1>1, <2>1, <2>2, <2>5, <2>6, RuntimeStep
<1> QED
  BY <1>2, <1>3

\* The Runtime of an Agent is discarded, and a view of it may be closed.
LEMMA DiscardStep ==
  ASSUME NobodyIsNoAgent, IInv, StrandedHolds, NEW a \in Watched,
         rt' = [rt EXCEPT ![a] = Dormant(rt[a])], job' = job,
         \A c \in closes' : c \in closes \/ c[1] = a,
         StaysShown(shown, shown') \/ (shown.agent = a /\ shown' = NoView)
  PROVE  IInv'
<1>1. rt[a] \in Runtime
  BY DEF IInv, TypeInv
<1>2. Dormant(rt[a]) \in Runtime /\ ~Dormant(rt[a]).retained /\ Placed(Dormant(rt[a]))
  BY <1>1, RuntimeFacts DEF Placed
<1> QED
  BY <1>2, RuntimeStep

LEMMA AgentStep ==
  ASSUME NobodyIsNoAgent, IInv, StrandedHolds, NEW a \in Watched,
         \/ Start(a) \/ StartPublishes(a) \/ StartReady(a) \/ StartFails(a)
         \/ Admit(a) \/ RunEnds(a) \/ Release(a)
         \/ PreparePublishes(a) \/ PrepareReady(a) \/ PrepareFails(a)
  PROVE  IInv'
<1>1. rt[a] \in Runtime /\ rt \in [Watched -> Runtime] /\ shown \in View /\ Placed(rt[a])
  BY DEF IInv, TypeInv, KeptForItsView, Placed
<1>2. StaysShown(shown, shown)
  BY <1>1 DEF StaysShown
<1>3. ASSUME NEW r, Advances(rt[a], r), rt' = [rt EXCEPT ![a] = r], job' = job,
             closes' = closes, StaysShown(shown, shown')
      PROVE  IInv'
  BY <1>1, <1>3, AdvanceFacts, RuntimeStep
<1>4. CASE Start(a)
  <2> DEFINE r == [rt[a] EXCEPT !.phase = "starting", !.lane = "start"]
  <2>1. Advances(rt[a], r)
    BY <1>4 DEF Advances, Free, Start
  <2>2. rt' = [rt EXCEPT ![a] = r] /\ UNCHANGED <<shown, job, closes>>
    BY <1>1, <1>4 DEF Start
  <2> HIDE DEF r
  <2> QED
    BY <1>2, <1>3, <2>1, <2>2
<1>5. CASE StartPublishes(a)
  <2> DEFINE r == [rt[a] EXCEPT !.projection = rt[a].next, !.next = @ + 1, !.admitted = TRUE]
  <2>1. Advances(rt[a], r)
    BY <1>5 DEF Advances, Free, StartPublishes
  <2>2. Bind(a, r)
    BY <1>5 DEF StartPublishes
  <2> QED
    BY <2>1, <2>2, BindStep
<1>6. CASE StartReady(a)
  <2> DEFINE r == [rt[a] EXCEPT !.phase = "live", !.lane = "free"]
  <2>1. Advances(rt[a], r)
    BY <1>6 DEF Advances, Free, StartReady
  <2>2. rt' = [rt EXCEPT ![a] = r] /\ UNCHANGED <<shown, job, closes>>
    BY <1>1, <1>6 DEF StartReady
  <2> HIDE DEF r
  <2> QED
    BY <1>2, <1>3, <2>1, <2>2
<1>7. CASE StartFails(a)
  BY <1>1, <1>2, <1>7, DiscardStep DEF StartFails, Views
<1>8. CASE Admit(a)
  <2> DEFINE r == [rt[a] EXCEPT !.admitted = TRUE]
  <2>1. Advances(rt[a], r)
    BY DEF Advances, Free
  <2>2. Bind(a, r)
    BY <1>8 DEF Admit
  <2> QED
    BY <2>1, <2>2, BindStep
<1>9. CASE RunEnds(a)
  <2>1. PICK failed \in BOOLEAN :
          shown' = IF failed /\ Views(a, rt[a].projection) THEN [shown EXCEPT !.failed = TRUE]
                   ELSE shown
    BY <1>9 DEF RunEnds
  <2>2. StaysShown(shown, shown')
    BY <1>1, <1>2, <2>1, ViewFacts DEF StaysShown, Views, NobodyIsNoAgent
  <2>3. CASE ~rt[a].retained
    BY <2>2, <2>3, <1>9, DiscardStep DEF RunEnds
  <2>4. CASE rt[a].retained
    <3> DEFINE r == [rt[a] EXCEPT !.admitted = FALSE]
    <3>1. Advances(rt[a], r)
      BY DEF Advances
    <3>2. rt' = [rt EXCEPT ![a] = r] /\ UNCHANGED <<job, closes>>
      BY <1>9, <2>4 DEF RunEnds
    <3> HIDE DEF r
    <3> QED
      BY <1>3, <2>2, <3>1, <3>2
  <2> QED
    BY <2>3, <2>4
<1>10. CASE Release(a)
  BY <1>1, <1>2, <1>10, DiscardStep DEF Release
<1>11. CASE PreparePublishes(a)
  <2> DEFINE r == [rt[a] EXCEPT !.projection = rt[a].next, !.next = rt[a].next + 1,
                                !.phase = "preparing", !.lane = "free"]
  <2>1. Advances(rt[a], r)
    BY <1>11 DEF Advances, Free, PreparePublishes
  <2>2. rt' = [rt EXCEPT ![a] = r] /\ UNCHANGED <<shown, job, closes>>
    BY <1>1, <1>11 DEF PreparePublishes
  <2> HIDE DEF r
  <2> QED
    BY <1>2, <1>3, <2>1, <2>2
<1>12. CASE PrepareReady(a)
  <2> DEFINE r == [rt[a] EXCEPT !.phase = "live"]
  <2>1. Advances(rt[a], r)
    BY DEF Advances, Free
  <2>2. rt' = [rt EXCEPT ![a] = r] /\ UNCHANGED <<shown, job, closes>>
    BY <1>1, <1>12 DEF PrepareReady
  <2> HIDE DEF r
  <2> QED
    BY <1>2, <1>3, <2>1, <2>2
<1>13. CASE PrepareFails(a)
  <2>1. \A c \in closes' : c \in closes \/ c[1] = a
    <3>1. closes' \subseteq closes \cup {<<a, rt[a].projection>>}
      BY <1>13 DEF PrepareFails
    <3> QED
      BY <3>1
  <2> QED
    BY <2>1, <1>1, <1>2, <1>13, DiscardStep DEF PrepareFails, Views
<1> QED
  BY <1>4, <1>5, <1>6, <1>7, <1>8, <1>9, <1>10, <1>11, <1>12, <1>13

-----------------------------------------------------------------------------
(* The view lane.                                                          *)

\* A job by its fields.
Is(j, s, a, n, v) == j \in Job /\ j.step = s /\ j.target = a /\ j.projection = n /\ j.prior = v

LEMMA JobFacts ==
  ASSUME NEW j \in Job
  PROVE  /\ Is(NoJob, "none", Nobody, 0, NoView)
         /\ Is(j, j.step, j.target, j.projection, j.prior)
         /\ \A a \in Watched, v \in View :
              Is([NoJob EXCEPT !.step = "acquire", !.target = a, !.prior = v], "acquire", a, 0, v)
         /\ \A n \in Nat : Is([j EXCEPT !.step = "show", !.projection = n],
                              "show", j.target, n, j.prior)
         /\ \A s \in {"acquire", "prepared"} :
              Is([j EXCEPT !.step = s], s, j.target, j.projection, j.prior)
         /\ Is([j EXCEPT !.step = "leave"], "leave", j.target, j.projection, j.prior)
         /\ \A v \in View : Is([NoJob EXCEPT !.step = "close", !.prior = v],
                               "close", Nobody, 0, v)
  BY DEF Is, Job, View, NoJob, NoView

\* The reason of one Agent is set or removed.
LEMMA RetentionFacts ==
  ASSUME IInv, NEW a \in Watched, NEW x \in BOOLEAN, rt' = [rt EXCEPT ![a].retained = x]
  PROVE  /\ rt' \in [Watched -> Runtime]
         /\ rt'[a].retained = x
         /\ \A b \in Watched : /\ rt'[b].projection = rt[b].projection
                               /\ rt'[b].lane = rt[b].lane
                               /\ b # a => rt'[b] = rt[b]
<1>1. rt \in [Watched -> Runtime] /\ rt[a] \in Runtime
  BY DEF IInv, TypeInv
<1>2. /\ [rt[a] EXCEPT !.retained = x] \in Runtime
      /\ [rt[a] EXCEPT !.retained = x].retained = x
      /\ [rt[a] EXCEPT !.retained = x].projection = rt[a].projection
      /\ [rt[a] EXCEPT !.retained = x].lane = rt[a].lane
  BY <1>1, RuntimeFacts
<1> DEFINE r == [rt[a] EXCEPT !.retained = x]
<1>3. rt' = [rt EXCEPT ![a] = r]
  BY <1>1
<1> HIDE DEF r
<1> QED
  BY <1>1, <1>2, <1>3 DEF r

LEMMA NowFacts ==
  ASSUME NobodyIsNoAgent, IInv
  PROVE  /\ rt \in [Watched -> Runtime] /\ shown \in View /\ job \in Job
         /\ \A a \in Watched : /\ a # Nobody /\ rt[a].projection \in Nat /\ rt[a].retained \in BOOLEAN
         /\ shown.agent \in Watched \cup {Nobody} /\ shown.projection \in Nat
         /\ job.target \in Watched \cup {Nobody} /\ job.prior.agent \in Watched \cup {Nobody}
         /\ NoView \in View /\ NoView.agent = Nobody
  BY SMTT(30), RuntimeFacts, ViewFacts DEF IInv, TypeInv, NobodyIsNoAgent, View, Job, Runtime

LEMMA ViewStep ==
  ASSUME NobodyIsNoAgent, IInv, StrandedHolds,
         \/ \E a \in Watched : Open(a)
         \/ AcquireStarting \/ AcquireLive \/ Prepare \/ Prepared \/ Show \/ Switch \/ Leave
         \/ Close \/ CloseFailed \/ Closed
  PROVE  IInv'
<1>1. /\ JobInv /\ KeptForItsView /\ NoSelectionLingers
  BY DEF IInv
<1>2. job.step \in {"none", "acquire", "prepared", "show", "leave", "close"}
  BY NowFacts DEF Job
<1>3. ASSUME NEW a \in Watched, Open(a) PROVE IInv'
  <2>1. Is(job', "acquire", a, 0, shown) /\ job = NoJob /\ shown.agent # a
    BY <1>3, JobFacts, NowFacts DEF Open
  <2>2. Is(job, "none", Nobody, 0, NoView)
    BY <2>1, JobFacts, NowFacts
  <2>3. UNCHANGED <<rt, shown, closes>>
    BY <1>3 DEF Open
  <2>4. TypeInv'
    BY <2>1, <2>2, <2>3, NowFacts DEF TypeInv, Is, IInv
  <2>5. JobInv'
    BY <2>1, <2>2, <2>3, <1>1, NowFacts, ViewFacts DEF JobInv, Is, Views
  <2>6. KeptForItsView'
    BY <2>1, <2>2, <2>3, <1>1, NowFacts, StrandedStay DEF KeptForItsView, NoSelectionLingers, JobInv, Is, Views
  <2>7. NoSelectionLingers'
    BY <2>1, <2>2, <2>3, <1>1, NowFacts, StrandedStay DEF KeptForItsView, NoSelectionLingers, JobInv, Is, Views
  <2> QED
    BY <2>4, <2>5, <2>6, <2>7 DEF IInv
<1>4. CASE AcquireStarting
  <2>1. job.step = "acquire" /\ job.target \in Watched
    BY <1>4, <1>1, NowFacts DEF AcquireStarting, JobInv
  <2>2. /\ rt' = [rt EXCEPT ![job.target].retained = TRUE]
        /\ job' = [job EXCEPT !.step = "show", !.projection = rt[job.target].projection]
        /\ rt[job.target].projection # 0 /\ UNCHANGED <<shown, closes>>
    BY SMTT(30), <1>4 DEF AcquireStarting, Retain, Target
  <2>3. Is(job', "show", job.target, rt[job.target].projection, job.prior)
    BY <2>1, <2>2, JobFacts, NowFacts
  <2>4. /\ rt' \in [Watched -> Runtime]
        /\ rt'[job.target].retained
        /\ \A b \in Watched : /\ rt'[b].projection = rt[b].projection
                              /\ rt'[b].lane = rt[b].lane
                              /\ b # job.target => rt'[b] = rt[b]
    BY <2>1, <2>2, RetentionFacts
  <2>5. TypeInv'
    BY <2>1, <2>2, <2>3, <2>4, NowFacts DEF TypeInv, Is, IInv
  <2>6. JobInv'
    BY <2>1, <2>2, <2>3, <2>4, <1>1, NowFacts, ViewFacts DEF JobInv, Is, Views
  <2>7. KeptForItsView'
    BY <2>1, <2>2, <2>3, <2>4, <1>1, NowFacts, StrandedStay DEF KeptForItsView, NoSelectionLingers, JobInv, Is, Views
  <2>8. NoSelectionLingers'
    BY <2>1, <2>2, <2>3, <2>4, <1>1, NowFacts, StrandedStay DEF KeptForItsView, NoSelectionLingers, JobInv, Is, Views
  <2> QED
    BY <2>5, <2>6, <2>7, <2>8 DEF IInv
<1>5. CASE AcquireLive
  <2>1. job.step = "acquire" /\ job.target \in Watched
    BY <1>5, <1>1, NowFacts DEF AcquireLive, JobInv
  <2>2. /\ rt' = [rt EXCEPT ![job.target].retained = TRUE]
        /\ job' = [job EXCEPT !.step = "show", !.projection = rt[job.target].projection]
        /\ rt[job.target].projection # 0 /\ UNCHANGED <<shown, closes>>
    BY <1>5 DEF AcquireLive, Retain, Target
  <2>3. Is(job', "show", job.target, rt[job.target].projection, job.prior)
    BY <2>1, <2>2, JobFacts, NowFacts
  <2>4. /\ rt' \in [Watched -> Runtime]
        /\ rt'[job.target].retained
        /\ \A b \in Watched : /\ rt'[b].projection = rt[b].projection
                              /\ rt'[b].lane = rt[b].lane
                              /\ b # job.target => rt'[b] = rt[b]
    BY <2>1, <2>2, RetentionFacts
  <2>5. TypeInv'
    BY <2>1, <2>2, <2>3, <2>4, NowFacts DEF TypeInv, Is, IInv
  <2>6. JobInv'
    BY <2>1, <2>2, <2>3, <2>4, <1>1, NowFacts, ViewFacts DEF JobInv, Is, Views
  <2>7. KeptForItsView'
    BY <2>1, <2>2, <2>3, <2>4, <1>1, NowFacts, StrandedStay DEF KeptForItsView, NoSelectionLingers, JobInv, Is, Views
  <2>8. NoSelectionLingers'
    BY <2>1, <2>2, <2>3, <2>4, <1>1, NowFacts, StrandedStay DEF KeptForItsView, NoSelectionLingers, JobInv, Is, Views
  <2> QED
    BY <2>5, <2>6, <2>7, <2>8 DEF IInv
<1>6. CASE Prepare
  <2>1. job.step = "acquire" /\ job.target \in Watched
    BY <1>6, <1>1, NowFacts DEF Prepare, JobInv
  <2>2. UNCHANGED <<shown, closes>>
    BY <1>6 DEF Prepare
  <2>3. CASE job' = NoJob /\ UNCHANGED rt
    <3>1. Is(job', "none", Nobody, 0, NoView)
      BY <2>3, JobFacts, NowFacts
    <3> QED
      <4>1. TypeInv'
        BY <2>2, <2>3, <3>1, NowFacts, <1>1 DEF TypeInv, Is, IInv
      <4>2. JobInv'
        BY <2>1, <2>2, <2>3, <3>1, <1>1, NowFacts, ViewFacts DEF JobInv, Is, Views
      <4>3. KeptForItsView'
        BY <2>1, <2>2, <2>3, <3>1, <1>1, NowFacts DEF KeptForItsView, JobInv, Is, Views
      <4>4. NoSelectionLingers'
        BY <2>1, <2>2, <2>3, <3>1, <1>1, NowFacts, StrandedStay DEF KeptForItsView, NoSelectionLingers, JobInv, Is
      <4> QED
        BY <4>1, <4>2, <4>3, <4>4 DEF IInv
  <2>4. CASE ~(job' = NoJob /\ UNCHANGED rt)
    <3>1. /\ rt' = [rt EXCEPT ![job.target].lane = "prepare", ![job.target].retained = TRUE]
          /\ job' = [job EXCEPT !.step = "prepared"]
      BY <1>6, <2>4 DEF Prepare
    <3>2. Is(job', "prepared", job.target, job.projection, job.prior)
      BY <3>1, JobFacts, NowFacts
    <3>3. /\ rt' \in [Watched -> Runtime]
          /\ rt'[job.target].lane = "prepare"
          /\ \A b \in Watched : /\ rt'[b].projection = rt[b].projection
                                /\ b # job.target => rt'[b] = rt[b]
      <4> DEFINE r == [rt[job.target] EXCEPT !.lane = "prepare", !.retained = TRUE]
      <4>1. r \in Runtime /\ r.lane = "prepare" /\ r.projection = rt[job.target].projection
        <5>1. rt[job.target] \in Runtime
          BY <2>1, NowFacts
        <5> QED
          BY <5>1 DEF Runtime
      <4>2. rt' = [rt EXCEPT ![job.target] = r]
        BY <2>1, <3>1, NowFacts
      <4> HIDE DEF r
      <4> QED
        BY <2>1, <4>1, <4>2, NowFacts
    <3> QED
      <4>1. TypeInv'
        BY <2>2, <3>2, <3>3, NowFacts DEF TypeInv, Is, IInv
      <4>2. JobInv'
        BY <2>1, <2>2, <3>2, <1>1, NowFacts, ViewFacts DEF JobInv, Is, Views
      <4>3. KeptForItsView'
        BY <2>1, <2>2, <3>2, <3>3, <1>1, NowFacts DEF KeptForItsView, JobInv, Is, Views
      <4>4. NoSelectionLingers'
        BY <2>1, <2>2, <3>2, <3>3, <1>1, NowFacts, StrandedStay DEF KeptForItsView, NoSelectionLingers, JobInv, Is
      <4> QED
        BY <4>1, <4>2, <4>3, <4>4 DEF IInv
  <2> QED
    BY <2>3, <2>4
<1>7. CASE Prepared
  <2>1. job.step = "prepared" /\ job.target \in Watched
    BY <1>7, <1>1, NowFacts DEF Prepared, JobInv
  <2>2. UNCHANGED <<shown, closes>>
    BY <1>7 DEF Prepared
  <2>3. CASE rt[job.target].projection = 0
    <3>1. job' = NoJob /\ UNCHANGED rt /\ rt[job.target].lane # "prepare"
      BY <1>7, <2>3 DEF Prepared
    <3>2. Is(job', "none", Nobody, 0, NoView)
      BY <3>1, JobFacts, NowFacts
    <3> QED
      <4>1. TypeInv'
        BY <2>2, <3>1, <3>2, NowFacts DEF TypeInv, Is, IInv
      <4>2. JobInv'
        BY <2>1, <2>2, <3>1, <3>2, <1>1, NowFacts, ViewFacts DEF JobInv, Is, Views
      <4>3. KeptForItsView'
        BY <2>1, <2>2, <3>1, <3>2, <1>1, NowFacts DEF KeptForItsView, JobInv, Is, Views
      <4>4. NoSelectionLingers'
        BY <2>1, <2>2, <2>3, <3>1, <3>2, <1>1, NowFacts, StrandedStay DEF KeptForItsView, NoSelectionLingers, JobInv, Is
      <4> QED
        BY <4>1, <4>2, <4>3, <4>4 DEF IInv
  <2>4. CASE rt[job.target].projection # 0
    <3>1. /\ rt' = [rt EXCEPT ![job.target].retained = TRUE]
          /\ job' = [job EXCEPT !.step = "show", !.projection = rt[job.target].projection]
      BY SMTT(30), <1>7, <2>4 DEF Prepared, Retain, Target
    <3>2. Is(job', "show", job.target, rt[job.target].projection, job.prior)
      BY <2>1, <3>1, JobFacts, NowFacts
    <3>3. /\ rt' \in [Watched -> Runtime]
          /\ \A b \in Watched : /\ rt'[b].projection = rt[b].projection
                                /\ rt'[b].lane = rt[b].lane
                                /\ b # job.target => rt'[b] = rt[b]
      BY <2>1, <3>1, RetentionFacts
    <3> QED
      <4>1. TypeInv'
        BY <2>2, <3>2, <3>3, NowFacts DEF TypeInv, Is, IInv
      <4>2. JobInv'
        BY <2>1, <2>2, <2>4, <3>2, <1>1, NowFacts, ViewFacts DEF JobInv, Is, Views
      <4>3. KeptForItsView'
        BY <2>1, <2>2, <2>4, <3>2, <3>3, <1>1, NowFacts DEF KeptForItsView, JobInv, Is, Views
      <4>4. NoSelectionLingers'
        BY <2>1, <2>2, <3>2, <3>3, <1>1, NowFacts, StrandedStay DEF KeptForItsView, NoSelectionLingers, JobInv, Is
      <4> QED
        BY <4>1, <4>2, <4>3, <4>4 DEF IInv
  <2> QED
    BY <2>3, <2>4
<1>8. CASE Show
  <2>1. /\ job.step = "show" /\ job.target \in Watched /\ shown = NoView /\ job.projection \in Nat
        /\ shown.agent = Nobody
    BY <1>8, <1>1, NowFacts DEF Show, JobInv, Job, Views
  <2>2. Is(job', "none", Nobody, 0, NoView) /\ UNCHANGED <<rt, closes>>
    BY <1>8, JobFacts, NowFacts DEF Show
  <2>3. /\ shown' \in View /\ shown' # NoView /\ shown'.agent = job.target
        /\ shown'.projection = job.projection
    BY <1>8, <2>1, ViewFacts DEF Show
  <2>4. TypeInv'
    BY <2>1, <2>2, <2>3, NowFacts DEF TypeInv, Is, IInv
  <2>5. JobInv'
    BY <2>1, <2>2, <2>3, <1>1, NowFacts, ViewFacts DEF JobInv, Is, Views
  <2>6. KeptForItsView'
    BY <2>1, <2>2, <2>3, <1>1, NowFacts, StrandedStay DEF KeptForItsView, NoSelectionLingers, JobInv, Is, Views
  <2>7. NoSelectionLingers'
    BY <2>1, <2>2, <2>3, <1>1, NowFacts, StrandedStay DEF KeptForItsView, NoSelectionLingers, JobInv, Is, Views
  <2> QED
    BY <2>4, <2>5, <2>6, <2>7 DEF IInv
<1>9. CASE Switch
  <2>1. /\ job.step = "show" /\ job.target \in Watched /\ job.projection \in Nat
        /\ job.prior.agent \in Watched /\ closes' = closes
    BY <1>9, <1>1, NowFacts DEF Switch, JobInv, Job
  <2>2. CASE Changed
    <3>1. /\ rt' = [rt EXCEPT ![job.target].retained = FALSE] /\ shown' = shown
          /\ job' = NoJob \/ job' = [job EXCEPT !.step = "acquire"]
      BY SMTT(30), <1>9, <2>2 DEF Switch, Unpublished
    <3>2. \/ Is(job', "none", Nobody, 0, NoView)
          \/ Is(job', "acquire", job.target, job.projection, job.prior)
      BY <3>1, JobFacts, NowFacts
    <3>3. /\ rt' \in [Watched -> Runtime] /\ ~rt'[job.target].retained
          /\ \A b \in Watched : /\ rt'[b].projection = rt[b].projection
                                /\ rt'[b].lane = rt[b].lane
                                /\ b # job.target => rt'[b] = rt[b]
      BY <2>1, <3>1, RetentionFacts
    <3> QED
      <4>1. TypeInv'
        BY <2>1, <3>1, <3>2, <3>3, NowFacts, ViewFacts DEF TypeInv, Is, IInv
      <4>2. JobInv'
        BY <2>1, <3>1, <3>2, <3>3, <1>1, NowFacts, ViewFacts DEF JobInv, Is, Views
      <4>3. KeptForItsView'
        BY <2>1, <3>1, <3>2, <3>3, <1>1, NowFacts, StrandedStay DEF KeptForItsView, NoSelectionLingers, JobInv, Is, Views
      <4>4. NoSelectionLingers'
        BY <2>1, <3>1, <3>2, <3>3, <1>1, NowFacts, StrandedStay DEF KeptForItsView, NoSelectionLingers, JobInv, Is, Views
      <4> QED
        BY <4>1, <4>2, <4>3, <4>4 DEF IInv
  <2>3. CASE ~Changed
    <3>1. /\ job' = [job EXCEPT !.step = "leave"] /\ rt' = rt
          /\ shown' = IF shown = NoView THEN NoView
                      ELSE [agent |-> job.target, projection |-> job.projection, failed |-> FALSE]
      BY SMTT(30), <1>9, <2>3 DEF Switch
    <3>2. Is(job', "leave", job.target, job.projection, job.prior)
      BY <3>1, JobFacts, NowFacts
    <3>3. \/ /\ shown' \in View /\ shown' # NoView /\ shown'.agent = job.target
             /\ shown'.projection = job.projection
          \/ shown' = NoView /\ shown' \in View /\ job.target \in Strands
      BY <2>1, <3>1, <3>2, ViewFacts DEF Strands, Is
    <3> QED
      <4>1. TypeInv'
        BY <2>1, <3>1, <3>2, <3>3, NowFacts, ViewFacts DEF TypeInv, Is, IInv
      <4>2. JobInv'
        BY <2>1, <3>1, <3>2, <3>3, <1>1, NowFacts, ViewFacts DEF JobInv, Is, Views
      <4>3. KeptForItsView'
        BY <2>1, <3>1, <3>2, <3>3, <1>1, NowFacts, StrandedStay DEF KeptForItsView, NoSelectionLingers, JobInv, Is, Views
      <4>4. NoSelectionLingers'
        BY <2>1, <3>1, <3>2, <3>3, <1>1, NowFacts, StrandedStay DEF KeptForItsView, NoSelectionLingers, JobInv, Is, Views
      <4> QED
        BY <4>1, <4>2, <4>3, <4>4 DEF IInv
  <2> QED
    BY <2>2, <2>3
<1>10. CASE Leave
  <2> DEFINE a == job.prior.agent
  <2>1. /\ job.step = "leave" /\ a \in Watched /\ UNCHANGED <<shown, closes>>
        /\ Is(job', "none", Nobody, 0, NoView)
    BY <1>10, <1>1, JobFacts, NowFacts DEF Leave, JobInv
  <2>2. /\ rt' \in [Watched -> Runtime] /\ ~rt'[a].retained
        /\ \A b \in Watched : /\ rt'[b].projection = rt[b].projection
                              /\ rt'[b].lane = rt[b].lane
                              /\ b # a => rt'[b] = rt[b]
    <3>1. CASE Left(a, job.prior.projection)
      <4>1. rt' = [rt EXCEPT ![a].retained = FALSE]
        BY <1>10, <3>1 DEF Leave
      <4> QED
        BY <2>1, <4>1, RetentionFacts
    <3>2. CASE ~Left(a, job.prior.projection)
      <4>1. rt' = rt
        BY <1>10, <3>2 DEF Leave
      <4>2. ~rt[a].retained
        BY <1>1, <2>1, <3>2, NowFacts DEF KeptForItsView, Left
      <4> QED
        BY <2>1, <4>1, <4>2, NowFacts
    <3> QED
      BY <3>1, <3>2
  <2> QED
    <3>1. TypeInv'
      BY <2>1, <2>2, NowFacts, ViewFacts DEF TypeInv, Is, IInv
    <3>2. JobInv'
      BY <2>1, <2>2, <1>1, NowFacts, ViewFacts DEF JobInv, Is, Views
    <3>3. KeptForItsView'
      BY <2>1, <2>2, <1>1, NowFacts, StrandedStay DEF KeptForItsView, NoSelectionLingers, JobInv, Is, Views
    <3>4. NoSelectionLingers'
      BY SMTT(30), <2>1, <2>2, <1>1, NowFacts, StrandedStay DEF KeptForItsView, NoSelectionLingers, JobInv, Is, Views
    <3> QED
      BY <3>1, <3>2, <3>3, <3>4 DEF IInv
<1>11. CASE Close
  <2>1. job = NoJob /\ shown # NoView /\ UNCHANGED <<rt, shown, closes>>
    BY <1>11 DEF Close
  <2>2. Is(job, "none", Nobody, 0, NoView)
    BY <2>1, JobFacts, NowFacts
  <2>3. Is(job', "close", Nobody, 0, shown)
    BY <1>11, JobFacts, NowFacts DEF Close
  <2>4. TypeInv'
    BY <2>1, <2>2, <2>3, NowFacts DEF TypeInv, Is, IInv
  <2>5. JobInv'
    BY <2>1, <2>2, <2>3, <1>1, NowFacts, ViewFacts DEF JobInv, Is, Views
  <2>6. KeptForItsView'
    BY <2>1, <2>2, <2>3, <1>1, NowFacts, StrandedStay DEF KeptForItsView, NoSelectionLingers, JobInv, Is, Views
  <2>7. NoSelectionLingers'
    BY <2>1, <2>2, <2>3, <1>1, NowFacts, StrandedStay DEF KeptForItsView, NoSelectionLingers, JobInv, Is, Views
  <2> QED
    BY <2>4, <2>5, <2>6, <2>7 DEF IInv
<1>12. CASE CloseFailed
  <2>1. PICK c \in closes :
          /\ closes' = closes \ {c}
          /\ job' = IF Views(c[1], c[2]) THEN [NoJob EXCEPT !.step = "close", !.prior = shown]
                    ELSE job
    BY <1>12 DEF CloseFailed
  <2>2. c[1] \in Watched /\ job = NoJob /\ UNCHANGED <<rt, shown>>
    BY <1>12, <2>1 DEF CloseFailed, IInv, TypeInv
  <2>3. Is(job, "none", Nobody, 0, NoView)
    BY <2>2, JobFacts, NowFacts
  <2>4. \/ job' = job
        \/ Is(job', "close", Nobody, 0, shown) /\ shown.agent \in Watched
    BY <2>1, <2>2, JobFacts, NowFacts DEF Views
  <2> QED
    <3>1. TypeInv'
      BY <2>1, <2>2, <2>3, <2>4, NowFacts, ViewFacts DEF TypeInv, Is, IInv
    <3>2. JobInv'
      BY <2>1, <2>2, <2>3, <2>4, <1>1, NowFacts, ViewFacts DEF JobInv, Is, Views
    <3>3. KeptForItsView'
      BY <2>1, <2>2, <2>3, <2>4, <1>1, NowFacts, StrandedStay DEF KeptForItsView, NoSelectionLingers, JobInv, Is, Views
    <3>4. NoSelectionLingers'
      BY <2>1, <2>2, <2>3, <2>4, <1>1, NowFacts, StrandedStay DEF KeptForItsView, NoSelectionLingers, JobInv, Is, Views
    <3> QED
      BY <3>1, <3>2, <3>3, <3>4 DEF IInv
<1>13. CASE Closed
  <2> DEFINE a == job.prior.agent
  <2>1. /\ job.step = "close" /\ a \in Watched /\ closes' = closes
        /\ Is(job', "none", Nobody, 0, NoView)
    BY <1>13, <1>1, JobFacts, NowFacts DEF Closed, JobInv
  <2>2. CASE shown = job.prior \/ Views(a, job.prior.projection)
    <3>1. shown' = NoView /\ rt' = [rt EXCEPT ![a].retained = FALSE]
      BY <1>13, <2>2 DEF Closed
    <3>2. /\ rt' \in [Watched -> Runtime] /\ ~rt'[a].retained
          /\ \A b \in Watched : /\ rt'[b].projection = rt[b].projection
                                /\ rt'[b].lane = rt[b].lane
                                /\ b # a => rt'[b] = rt[b]
      BY <2>1, <3>1, RetentionFacts
    <3>3. shown.agent = a
      BY <2>2 DEF Views
    <3> QED
      <4>1. TypeInv'
        BY <2>1, <3>1, <3>2, <3>3, NowFacts, ViewFacts DEF TypeInv, Is, IInv
      <4>2. JobInv'
        BY <2>1, <3>1, <3>2, <3>3, <1>1, NowFacts, ViewFacts DEF JobInv, Is, Views
      <4>3. KeptForItsView'
        BY <2>1, <3>1, <3>2, <3>3, <1>1, NowFacts, StrandedStay DEF KeptForItsView, NoSelectionLingers, JobInv, Is, Views
      <4>4. NoSelectionLingers'
        BY <2>1, <3>1, <3>2, <3>3, <1>1, NowFacts, StrandedStay DEF KeptForItsView, NoSelectionLingers, JobInv, Is, Views
      <4> QED
        BY <4>1, <4>2, <4>3, <4>4 DEF IInv
  <2>3. CASE ~(shown = job.prior \/ Views(a, job.prior.projection))
    <3>1. UNCHANGED <<rt, shown>>
      BY <1>13, <2>3 DEF Closed
    <3> QED
      <4>1. TypeInv'
        BY <2>1, <2>3, <3>1, NowFacts, ViewFacts DEF TypeInv, Is, IInv
      <4>2. JobInv'
        BY <2>1, <2>3, <3>1, <1>1, NowFacts, ViewFacts DEF JobInv, Is, Views
      <4>3. KeptForItsView'
        BY <2>1, <2>3, <3>1, <1>1, NowFacts, StrandedStay DEF KeptForItsView, NoSelectionLingers, JobInv, Is, Views
      <4>4. NoSelectionLingers'
        BY <2>1, <2>3, <3>1, <1>1, NowFacts, StrandedStay DEF KeptForItsView, NoSelectionLingers, JobInv, Is, Views
      <4> QED
        BY <4>1, <4>2, <4>3, <4>4 DEF IInv
  <2> QED
    BY SMTT(30), <2>2, <2>3
<1> QED
  BY <1>3, <1>4, <1>5, <1>6, <1>7, <1>8, <1>9, <1>10, <1>11, <1>12, <1>13

LEMMA StepHolds == ASSUME NobodyIsNoAgent, IInv, [Next]_vars PROVE IInv'
<1>1. CASE UNCHANGED vars
  BY <1>1 DEF vars, IInv, TypeInv, JobInv, KeptForItsView, NoSelectionLingers, Views
<1>2. CASE CloseCancels /\ StrandedHolds
  <2> DEFINE a == job.prior.agent
  <2>1. a \in Watched
    BY <1>2, NowFacts DEF CloseCancels, IInv, JobInv
  <2>2. PrepareFails(a) \/ StartFails(a)
    BY <1>2 DEF CloseCancels
  <2> HIDE DEF a
  <2> QED
    BY <1>2, <2>1, <2>2, AgentStep
<1>3. CASE ViewNext /\ ~CloseCancels /\ StrandedHolds
  BY <1>3, AgentStep, ViewStep DEF ViewNext
<1> QED
  BY <1>1, <1>2, <1>3 DEF Next, StrandedHolds

-----------------------------------------------------------------------------
\* The inductive invariant of the selection holds for any Agents and any number of Runtimes and views.
THEOREM InvariantHolds == ASSUME NobodyIsNoAgent PROVE Spec => []IInv
<1>1. Init => IInv
  BY InitHolds
<1>2. IInv /\ [Next]_vars => IInv'
  BY StepHolds
<1> QED
  BY <1>1, <1>2, PTL DEF Spec

\* No Agent stays exempt from release and from inspection for a view that is over
\* (#closeActiveInLane, #switchActiveToTargetInLane), whatever became of its Runtime between
\* the steps of the view lane, but the target of a switch whose view closed by itself.
THEOREM NoReasonStaysBehind == ASSUME NobodyIsNoAgent PROVE Spec => []NoSelectionLingers
<1>1. IInv => NoSelectionLingers
  BY DEF IInv
<1> QED
  BY <1>1, InvariantHolds, PTL

-----------------------------------------------------------------------------
(* The channel. *)

ChannelSide ==
  [open : BOOLEAN, next : 0..MaxRequests, pending : SUBSET C!Ids, outHigh : Nat,
   incoming : SUBSET C!Ids, inHigh : Nat, nextEvent : Nat, expected : Nat, handling : BOOLEAN]
Frame == [type : {"request", "cancel", "event"}, id : Nat]
           \union [type : {"response"}, id : Nat, after : Nat]

\* The sender settled request i or still waits for it.
Issued(snd, i) == i \in snd.pending \/ i <= snd.outHigh
\* A request the receiver has not seen.
Fresh(rcv, i) == i > rcv.inHigh /\ \A j \in rcv.incoming : j < i

IsFrame(f, type, i) == f.type = type /\ f.id = i
Has(W, type, i) == \E k \in 1..Len(W) : IsFrame(W[k], type, i)

\* The frames on the wire W from snd to rcv: what each says, and the order of any two.
FrameHolds(W, k, snd, rcv) ==
  /\ W[k].type = "request" => /\ W[k].id \in 1..snd.next
                              /\ snd.open => Issued(snd, W[k].id)
                              /\ rcv.open => Fresh(rcv, W[k].id)
  /\ W[k].type = "cancel" => /\ W[k].id \in 1..snd.next /\ W[k].id \notin snd.pending
                             /\ rcv.open => \/ C!Known(rcv, W[k].id)
                                          \/ \E j \in 1..(k - 1) : IsFrame(W[j], "request", W[k].id)
  /\ W[k].type = "response" => /\ W[k].after <= snd.nextEvent /\ W[k].id <= snd.inHigh
                               /\ rcv.open => Issued(rcv, W[k].id)
  /\ W[k].type = "event" => rcv.expected <= W[k].id /\ W[k].id <= snd.nextEvent
InOrder(f, g) ==
  /\ f.type = "request" /\ g.type = "request" => f.id < g.id
  /\ f.type = "event" /\ g.type = "event" => f.id < g.id
  /\ f.type = "response" /\ g.type = "event" => f.after < g.id

Flow(W, snd, rcv) ==
  /\ \A k \in 1..Len(W) : FrameHolds(W, k, snd, rcv)
  /\ \A j, k \in 1..Len(W) : j < k => InOrder(W[j], W[k])
  /\ \A n \in rcv.expected..snd.nextEvent : Has(W, "event", n)

\* The requests of snd at rcv: an open end has lost none.
Served(W, V, snd, rcv) ==
  /\ rcv.inHigh <= snd.next
  /\ \A i \in rcv.incoming : i \in 1..snd.next /\ (snd.open => Issued(snd, i))
  /\ rcv.open => \A i \in snd.pending : Has(W, "request", i) \/ i \in rcv.incoming \/ Has(V, "response", i)

\* The receiver expects no event beyond the next one.
UpToDate(snd, rcv) == rcv.expected <= snd.nextEvent + 1

SideHolds(x, isDown) ==
  /\ x.pending \subseteq 1..x.next /\ x.outHigh <= x.next
  /\ ~x.open => x.pending = {} /\ x.incoming = {} /\ isDown

ChannelTypes ==
  /\ side \in [C!Sides -> ChannelSide] /\ wire \in [C!Sides -> Seq(Frame)]
  /\ running \in [C!Sides -> SUBSET C!Ids]
  /\ settled \in [C!Sides -> [C!Ids -> Nat]]
  /\ down \in BOOLEAN /\ excused \in BOOLEAN /\ overtook = FALSE
  /\ down => excused

OneWay(s) ==
  /\ SideHolds(side[s], down)
  /\ Flow(wire[s], side[s], side[C!Peer(s)])
  /\ Served(wire[s], wire[C!Peer(s)], side[s], side[C!Peer(s)])
  /\ UpToDate(side[s], side[C!Peer(s)])

ChannelInv == ChannelTypes /\ C!EachSettlesOnce /\ \A s \in C!Sides : OneWay(s)

LEMMA AppendFacts ==
  ASSUME NEW T, NEW W \in Seq(T), NEW f \in T
  PROVE  /\ Append(W, f) \in Seq(T) /\ Len(Append(W, f)) = Len(W) + 1 /\ Len(W) \in Nat
         /\ Append(W, f)[Len(W) + 1] = f /\ \A k \in 1..Len(W) : Append(W, f)[k] = W[k]
  OBVIOUS

LEMMA TailFacts ==
  ASSUME NEW T, NEW W \in Seq(T), W # <<>>
  PROVE  /\ Tail(W) \in Seq(T) /\ Len(Tail(W)) = Len(W) - 1 /\ Len(W) \in Nat /\ Len(W) >= 1
         /\ Head(W) = W[1] /\ Head(W) \in T /\ \A k \in 1..Len(Tail(W)) : Tail(W)[k] = W[k + 1]
  OBVIOUS

LEMMA FrameFacts ==
  ASSUME NEW f \in Frame
  PROVE  f.type \in {"request", "cancel", "event", "response"} /\ f.id \in Nat
         /\ (f.type = "response" => f.after \in Nat)
  BY DEF Frame

\* A frame is put on the wire.
LEMMA FlowGrows ==
  ASSUME NEW W \in Seq(Frame), NEW f \in Frame, NEW snd, NEW rcv,
         \A k \in 1..Len(W) : FrameHolds(W, k, snd, rcv),
         \A j, k \in 1..Len(W) : j < k => InOrder(W[j], W[k]),
         FrameHolds(Append(W, f), Len(W) + 1, snd, rcv),
         \A k \in 1..Len(W) : InOrder(W[k], f),
         \A n \in rcv.expected..snd.nextEvent : Has(W, "event", n) \/ IsFrame(f, "event", n)
  PROVE  Flow(Append(W, f), snd, rcv)
  <1> PICK V : V = Append(W, f)
    OBVIOUS
  <1>1. /\ V \in Seq(Frame) /\ Len(V) = Len(W) + 1 /\ Len(W) \in Nat
        /\ V[Len(W) + 1] = f /\ \A k \in 1..Len(W) : V[k] = W[k]
    BY AppendFacts
  <1>2. ASSUME NEW k \in 1..Len(V) PROVE FrameHolds(V, k, snd, rcv)
    <2>1. CASE k = Len(W) + 1
      BY <2>1
    <2>2. CASE k # Len(W) + 1
      <3>1. k \in 1..Len(W) /\ V[k] = W[k] /\ \A j \in 1..(k - 1) : V[j] = W[j]
        BY <1>1, <2>2
      <3>2. FrameHolds(W, k, snd, rcv)
        BY <3>1
      <3> QED BY <3>1, <3>2 DEF FrameHolds
    <2> QED BY <2>1, <2>2
  <1>3. ASSUME NEW j \in 1..Len(V), NEW k \in 1..Len(V), j < k PROVE InOrder(V[j], V[k])
    BY <1>1, <1>3
  <1>4. ASSUME NEW n \in rcv.expected..snd.nextEvent PROVE Has(V, "event", n)
    <2>1. CASE Has(W, "event", n)
      BY <1>1, <2>1 DEF Has
    <2>2. CASE IsFrame(f, "event", n)
      BY <1>1, <2>2 DEF Has
    <2> QED BY <2>1, <2>2
  <1> QED BY <1>2, <1>3, <1>4 DEF Flow

\* The sender goes on without a frame.
SenderGoesOn(snd, to) ==
  /\ snd.next <= to.next /\ to.nextEvent >= snd.nextEvent /\ to.next \in Nat /\ snd.next \in Nat
  /\ snd.nextEvent \in Nat /\ to.nextEvent \in Nat
  /\ to.open => snd.open
  /\ snd.inHigh \in Nat /\ to.inHigh \in Nat /\ snd.inHigh <= to.inHigh
  /\ \A i \in 1..snd.next : /\ i \in to.pending => i \in snd.pending
                            /\ to.open /\ Issued(snd, i) => Issued(to, i)

LEMMA SenderKeepsFrames ==
  ASSUME NEW W \in Seq(Frame), NEW snd, NEW to, NEW rcv, SenderGoesOn(snd, to),
         NEW k \in 1..Len(W), FrameHolds(W, k, snd, rcv)
  PROVE  FrameHolds(W, k, to, rcv)
  <1>1. W[k] \in Frame
    OBVIOUS
  <1>2. /\ W[k].type \in {"request", "cancel"} => W[k].id \in 1..snd.next
        /\ W[k].id \in Nat /\ (W[k].type = "response" => W[k].after \in Nat)
    BY <1>1, FrameFacts DEF FrameHolds
  <1>3. W[k].type = "response" => W[k].after <= to.nextEvent /\ W[k].id <= to.inHigh
    BY <1>2 DEF FrameHolds, SenderGoesOn
  <1>4. W[k].type = "event" => W[k].id <= to.nextEvent
    BY <1>2 DEF FrameHolds, SenderGoesOn
  <1>5. W[k].type = "request" => W[k].id \in 1..to.next /\ (to.open => Issued(to, W[k].id))
    BY <1>2 DEF FrameHolds, SenderGoesOn
  <1>6. W[k].type = "cancel" => W[k].id \in 1..to.next /\ W[k].id \notin to.pending
    BY <1>2 DEF FrameHolds, SenderGoesOn
  <1> QED BY <1>3, <1>4, <1>5, <1>6 DEF FrameHolds

\* What the receiver is after it goes on, perhaps after the frame h.
ReceiverGoesOn(rcv, to, seen) ==
  to.open =>
    /\ rcv.open
    /\ \A i \in Nat : /\ C!Known(rcv, i) => C!Known(to, i)
                      /\ Issued(rcv, i) => Issued(to, i)
                      /\ Fresh(rcv, i) /\ (\A j \in seen : i > j) => Fresh(to, i)
    /\ \A j \in seen : C!Known(to, j)

LEMMA FlowStays ==
  ASSUME NEW W \in Seq(Frame), NEW snd, NEW rcv, NEW to, Flow(W, snd, rcv),
         ReceiverGoesOn(rcv, to, {}), to.expected = rcv.expected
  PROVE  Flow(W, snd, to)
  <1>1. ASSUME NEW k \in 1..Len(W) PROVE FrameHolds(W, k, snd, to)
    <2>1. FrameHolds(W, k, snd, rcv) /\ W[k].id \in Nat
      BY FrameFacts DEF Flow
    <2> QED BY <2>1 DEF FrameHolds, ReceiverGoesOn
  <1> QED BY <1>1 DEF Flow

\* The first frame of a wire.
LEMMA HeadHolds ==
  ASSUME NEW W \in Seq(Frame), W # <<>>, NEW snd, NEW rcv, Flow(W, snd, rcv), rcv.open,
         rcv.expected \in Nat, snd.nextEvent \in Nat
  PROVE  LET h == Head(W)
         IN  /\ h \in Frame
             /\ h.type = "request" => h.id \in 1..snd.next /\ Fresh(rcv, h.id)
                                      /\ (snd.open => Issued(snd, h.id))
             /\ h.type = "cancel" => C!Known(rcv, h.id) /\ h.id \notin snd.pending
             /\ h.type = "response" => Issued(rcv, h.id) /\ rcv.expected > h.after
             /\ h.type = "event" => h.id = rcv.expected
  <1> PICK h : h = Head(W)
    OBVIOUS
  <1>1. h = W[1] /\ h \in Frame /\ 1 \in 1..Len(W) /\ Len(W) \in Nat /\ h.id \in Nat
        /\ (h.type = "response" => h.after \in Nat)
    BY TailFacts, FrameFacts
  <1>2. FrameHolds(W, 1, snd, rcv)
    BY <1>1 DEF Flow
  <1>3. ASSUME h.type = "event", h.id # rcv.expected PROVE FALSE
    <2>1. rcv.expected < h.id /\ h.id <= snd.nextEvent
      BY <1>1, <1>2, <1>3 DEF FrameHolds
    <2>2. PICK k \in 1..Len(W) : IsFrame(W[k], "event", rcv.expected)
      BY SMTT(30), <1>1, <2>1 DEF Flow, Has
    <2>3. k # 1
      BY <1>1, <1>3, <2>2 DEF IsFrame
    <2>4. InOrder(W[1], W[k])
      BY <1>1, <2>3 DEF Flow
    <2> QED BY <1>1, <1>3, <2>1, <2>2, <2>4 DEF InOrder, IsFrame
  <1>4. ASSUME h.type = "response", ~(rcv.expected > h.after) PROVE FALSE
    <2>1. rcv.expected <= h.after /\ h.after <= snd.nextEvent
      BY <1>1, <1>2, <1>4 DEF FrameHolds
    <2>2. PICK k \in 1..Len(W) : IsFrame(W[k], "event", h.after)
      BY <1>1, <1>4, <2>1 DEF Flow, Has
    <2>3. k # 1
      BY <1>1, <1>4, <2>2 DEF IsFrame
    <2>4. InOrder(W[1], W[k])
      BY <1>1, <2>3 DEF Flow
    <2> QED BY <1>1, <1>4, <2>2, <2>4 DEF InOrder, IsFrame
  <1> QED BY <1>1, <1>2, <1>3, <1>4 DEF FrameHolds

\* The receiver takes the first frame.
LEMMA FlowShrinks ==
  ASSUME NEW W \in Seq(Frame), W # <<>>, NEW snd, NEW rcv, NEW to, Flow(W, snd, rcv), rcv.open, to.open,
         rcv.expected \in Nat, snd.nextEvent \in Nat,
         ReceiverGoesOn(rcv, to, IF Head(W).type = "request" THEN {Head(W).id} ELSE {}),
         to.expected = (IF Head(W).type = "event" THEN rcv.expected + 1 ELSE rcv.expected)
  PROVE  Flow(Tail(W), snd, to)
  <1> PICK V, h : V = Tail(W) /\ h = Head(W)
    OBVIOUS
  <1>1. /\ V \in Seq(Frame) /\ Len(V) = Len(W) - 1 /\ Len(W) \in Nat /\ Len(W) >= 1
        /\ h = W[1] /\ h \in Frame /\ \A k \in 1..Len(V) : V[k] = W[k + 1] /\ k + 1 \in 1..Len(W)
    BY TailFacts
  <1>2. ASSUME NEW k \in 1..Len(V) PROVE FrameHolds(V, k, snd, to)
    <2> PICK f : f = V[k]
      OBVIOUS
    <2>1. FrameHolds(W, k + 1, snd, rcv) /\ f = W[k + 1] /\ f \in Frame /\ InOrder(h, f) /\ f.id \in Nat
          /\ h.id \in Nat
      BY <1>1, FrameFacts DEF Flow
    <2>2. f.type = "request" => f.id \in 1..snd.next /\ (snd.open => Issued(snd, f.id)) /\ Fresh(to, f.id)
      BY <2>1 DEF FrameHolds, InOrder, ReceiverGoesOn
    <2>3. ASSUME f.type = "cancel", ~C!Known(to, f.id)
          PROVE  \E j \in 1..(k - 1) : IsFrame(V[j], "request", f.id)
      <3>1. PICK j \in 1..k : IsFrame(W[j], "request", f.id)
        BY <2>1, <2>3 DEF FrameHolds, ReceiverGoesOn
      <3>2. j # 1
        BY <1>1, <2>3, <3>1 DEF IsFrame, ReceiverGoesOn
      <3>3. j - 1 \in 1..(k - 1) /\ V[j - 1] = W[j]
        BY <1>1, <3>2
      <3> QED BY <3>1, <3>3
    <2>4. f.type = "response" => f.after <= snd.nextEvent /\ Issued(to, f.id)
      BY <2>1 DEF FrameHolds, ReceiverGoesOn
    <2>5. f.type = "event" => to.expected <= f.id /\ f.id <= snd.nextEvent
      <3>1. h.type = "event" => h.id = rcv.expected
        BY HeadHolds
      <3> QED BY <2>1, <3>1 DEF FrameHolds, InOrder
    <2> QED BY <2>1, <2>2, <2>3, <2>4, <2>5 DEF FrameHolds
  <1>3. ASSUME NEW j \in 1..Len(V), NEW k \in 1..Len(V), j < k PROVE InOrder(V[j], V[k])
    BY <1>1, <1>3 DEF Flow
  <1>4. ASSUME NEW n \in to.expected..snd.nextEvent PROVE Has(V, "event", n)
    <2>1. PICK k \in 1..Len(W) : IsFrame(W[k], "event", n)
      BY <1>4 DEF Flow, Has
    <2>2. k # 1
      <3>1. h.type = "event" => h.id = rcv.expected
        BY HeadHolds
      <3> QED BY <1>1, <2>1, <3>1 DEF IsFrame
    <2>3. k - 1 \in 1..Len(V) /\ V[k - 1] = W[k]
      BY <1>1, <2>2
    <2> QED BY <2>1, <2>3 DEF Has
  <1> QED BY <1>2, <1>3, <1>4 DEF Flow

\* The two ends a and b, the wire of each, and whether the transport is down.
Pair(a, b, Wa, Wb, isDown) ==
  /\ SideHolds(a, isDown) /\ SideHolds(b, isDown)
  /\ Flow(Wa, a, b) /\ Flow(Wb, b, a)
  /\ Served(Wa, Wb, a, b) /\ Served(Wb, Wa, b, a)
  /\ UpToDate(a, b) /\ UpToDate(b, a)

LEMMA SideFacts ==
  ASSUME NEW a \in ChannelSide
  PROVE  /\ a.open \in BOOLEAN /\ a.next \in 0..MaxRequests /\ a.pending \in SUBSET C!Ids
         /\ a.outHigh \in Nat /\ a.incoming \in SUBSET C!Ids /\ a.inHigh \in Nat
         /\ a.nextEvent \in Nat /\ a.expected \in Nat /\ a.handling \in BOOLEAN
         /\ C!Ids \subseteq Nat /\ 0..MaxRequests \subseteq Nat
  BY ChannelAssumption DEF ChannelSide, C!Ids

LEMMA GreaterFacts ==
  ASSUME NEW m \in Nat, NEW i \in Nat
  PROVE  /\ C!Greater(m, i) \in Nat /\ C!Greater(m, i) >= m /\ C!Greater(m, i) >= i
         /\ C!Greater(m, i) \in {m, i}
  BY DEF C!Greater

LEMMA SettlesFacts ==
  ASSUME NEW a \in ChannelSide, NEW i \in Nat
  PROVE  /\ C!Settles(a, i) \in ChannelSide /\ C!Settles(a, i).open = a.open
         /\ C!Settles(a, i).next = a.next /\ C!Settles(a, i).pending = a.pending \ {i}
         /\ C!Settles(a, i).incoming = a.incoming /\ C!Settles(a, i).inHigh = a.inHigh
         /\ C!Settles(a, i).nextEvent = a.nextEvent /\ C!Settles(a, i).expected = a.expected
         /\ C!Settles(a, i).outHigh = C!Greater(a.outHigh, i)
  <1> PICK g, to : g = C!Greater(a.outHigh, i) /\ to = C!Settles(a, i)
    OBVIOUS
  <1>1. g \in Nat
    BY SideFacts, GreaterFacts
  <1>2. to = [a EXCEPT !.pending = @ \ {i}, !.outHigh = g]
    BY DEF C!Settles
  <1>3. /\ to \in ChannelSide /\ to.open = a.open /\ to.next = a.next
        /\ to.pending = a.pending \ {i} /\ to.incoming = a.incoming /\ to.inHigh = a.inHigh
        /\ to.nextEvent = a.nextEvent /\ to.expected = a.expected /\ to.outHigh = g
    BY <1>1, <1>2 DEF ChannelSide
  <1> QED BY <1>3

LEMMA TerminatesFacts ==
  ASSUME NEW a \in ChannelSide, NEW i \in Nat
  PROVE  /\ C!Terminates(a, i) \in ChannelSide /\ C!Terminates(a, i).open = a.open
         /\ C!Terminates(a, i).next = a.next /\ C!Terminates(a, i).pending = a.pending
         /\ C!Terminates(a, i).incoming = a.incoming \ {i}
         /\ C!Terminates(a, i).nextEvent = a.nextEvent /\ C!Terminates(a, i).expected = a.expected
         /\ C!Terminates(a, i).outHigh = a.outHigh
         /\ C!Terminates(a, i).inHigh = C!Greater(a.inHigh, i)
  <1> PICK g, to : g = C!Greater(a.inHigh, i) /\ to = C!Terminates(a, i)
    OBVIOUS
  <1>1. g \in Nat
    BY SideFacts, GreaterFacts
  <1>2. to = [a EXCEPT !.incoming = @ \ {i}, !.inHigh = g]
    BY DEF C!Terminates
  <1>3. /\ to \in ChannelSide /\ to.open = a.open /\ to.next = a.next
        /\ to.pending = a.pending /\ to.incoming = a.incoming \ {i}
        /\ to.nextEvent = a.nextEvent /\ to.expected = a.expected
        /\ to.outHigh = a.outHigh /\ to.inHigh = g
    BY <1>1, <1>2 DEF ChannelSide
  <1> QED BY <1>3

\* A side after the response to request i, after the cancellation of i, and the
\* response it sends.
Answered(a, i) == IF i \in a.pending THEN C!Settles(a, i) ELSE a
Cancelled(a, i) == IF i \in a.incoming THEN C!Terminates(a, i) ELSE a
Response(a, i) == [type |-> "response", id |-> i, after |-> a.nextEvent]

LEMMA AnsweredFacts ==
  ASSUME NEW a \in ChannelSide, NEW i \in Nat, i \in a.pending \/ i <= a.outHigh
  PROVE  /\ Answered(a, i) \in ChannelSide /\ Answered(a, i).open = a.open
         /\ Answered(a, i).next = a.next /\ Answered(a, i).pending = a.pending \ {i}
         /\ Answered(a, i).incoming = a.incoming /\ Answered(a, i).inHigh = a.inHigh
         /\ Answered(a, i).nextEvent = a.nextEvent /\ Answered(a, i).expected = a.expected
         /\ i <= Answered(a, i).outHigh /\ a.outHigh <= Answered(a, i).outHigh
         /\ \/ Answered(a, i).outHigh = a.outHigh
            \/ Answered(a, i).outHigh = i /\ i \in a.pending
  <1> PICK to : to = Answered(a, i)
    OBVIOUS
  <1>1. CASE i \in a.pending
    <2> PICK g : g = C!Greater(a.outHigh, i)
      OBVIOUS
    <2>1. g \in Nat /\ g >= a.outHigh /\ g >= i /\ g \in {a.outHigh, i} /\ a.outHigh \in Nat
      BY SideFacts, GreaterFacts
    <2>2. to = C!Settles(a, i)
      BY <1>1 DEF Answered
    <2>3. /\ to \in ChannelSide /\ to.open = a.open /\ to.next = a.next
          /\ to.pending = a.pending \ {i} /\ to.incoming = a.incoming /\ to.inHigh = a.inHigh
          /\ to.nextEvent = a.nextEvent /\ to.expected = a.expected /\ to.outHigh = g
      BY <2>2, SettlesFacts
    <2> QED BY <1>1, <2>1, <2>3
  <1>2. CASE i \notin a.pending
    <2>1. to = a /\ a.outHigh \in Nat /\ a.pending = a.pending \ {i}
      BY <1>2, SideFacts DEF Answered
    <2> QED BY <1>2, <2>1
  <1> QED BY <1>1, <1>2

LEMMA CancelledFacts ==
  ASSUME NEW a \in ChannelSide, NEW i \in Nat, i \in a.incoming \/ i <= a.inHigh
  PROVE  /\ Cancelled(a, i) \in ChannelSide /\ Cancelled(a, i).open = a.open
         /\ Cancelled(a, i).next = a.next /\ Cancelled(a, i).pending = a.pending
         /\ Cancelled(a, i).outHigh = a.outHigh /\ Cancelled(a, i).incoming = a.incoming \ {i}
         /\ Cancelled(a, i).nextEvent = a.nextEvent /\ Cancelled(a, i).expected = a.expected
         /\ i <= Cancelled(a, i).inHigh /\ a.inHigh <= Cancelled(a, i).inHigh
         /\ \/ Cancelled(a, i).inHigh = a.inHigh
            \/ Cancelled(a, i).inHigh = i /\ i \in a.incoming
  <1> PICK to : to = Cancelled(a, i)
    OBVIOUS
  <1>1. CASE i \in a.incoming
    <2> PICK g : g = C!Greater(a.inHigh, i)
      OBVIOUS
    <2>1. g \in Nat /\ g >= a.inHigh /\ g >= i /\ g \in {a.inHigh, i} /\ a.inHigh \in Nat
      BY SideFacts, GreaterFacts
    <2>2. to = C!Terminates(a, i)
      BY <1>1 DEF Cancelled
    <2>3. /\ to \in ChannelSide /\ to.open = a.open /\ to.next = a.next
          /\ to.pending = a.pending /\ to.incoming = a.incoming \ {i} /\ to.inHigh = g
          /\ to.nextEvent = a.nextEvent /\ to.expected = a.expected /\ to.outHigh = a.outHigh
      BY <2>2, TerminatesFacts
    <2> QED BY <1>1, <2>1, <2>3
  <1>2. CASE i \notin a.incoming
    <2>1. to = a /\ a.inHigh \in Nat /\ a.incoming = a.incoming \ {i}
      BY <1>2, SideFacts DEF Cancelled
    <2> QED BY <1>2, <2>1
  <1> QED BY <1>1, <1>2

LEMMA HasGrows ==
  ASSUME NEW W \in Seq(Frame), NEW f \in Frame
  PROVE  /\ \A type, i : Has(W, type, i) => Has(Append(W, f), type, i)
         /\ Has(Append(W, f), f.type, f.id)
  <1> PICK V : V = Append(W, f)
    OBVIOUS
  <1>1. /\ Len(V) = Len(W) + 1 /\ Len(W) \in Nat
        /\ V[Len(W) + 1] = f /\ \A k \in 1..Len(W) : V[k] = W[k] /\ k \in 1..Len(V)
    BY AppendFacts
  <1>2. Len(W) + 1 \in 1..Len(V)
    BY <1>1
  <1> QED BY <1>1, <1>2 DEF Has, IsFrame

LEMMA HasShrinks ==
  ASSUME NEW W \in Seq(Frame), W # <<>>, NEW type, NEW i, Has(W, type, i)
  PROVE  IsFrame(Head(W), type, i) \/ Has(Tail(W), type, i)
  <1> PICK V, h : V = Tail(W) /\ h = Head(W)
    OBVIOUS
  <1>1. /\ Len(V) = Len(W) - 1 /\ Len(W) \in Nat /\ Len(W) >= 1
        /\ h = W[1] /\ \A k \in 1..Len(V) : V[k] = W[k + 1]
    BY TailFacts
  <1>2. PICK k \in 1..Len(W) : IsFrame(W[k], type, i)
    BY DEF Has
  <1>3. k # 1 => k - 1 \in 1..Len(V) /\ V[k - 1] = W[k]
    BY <1>1
  <1> QED BY <1>1, <1>2, <1>3 DEF Has

\* A side goes on and puts a frame on its wire.
LEMMA FlowSends ==
  ASSUME NEW W \in Seq(Frame), NEW f \in Frame, NEW snd, NEW to, NEW rcv, Flow(W, snd, rcv),
         SenderGoesOn(snd, to),
         FrameHolds(Append(W, f), Len(W) + 1, to, rcv),
         \A k \in 1..Len(W) : FrameHolds(W, k, snd, rcv) => InOrder(W[k], f),
         rcv.expected \in Nat,
         to.nextEvent # snd.nextEvent => /\ to.nextEvent = snd.nextEvent + 1
                                         /\ IsFrame(f, "event", to.nextEvent)
  PROVE  Flow(Append(W, f), to, rcv)
  <1>1. \A k \in 1..Len(W) : FrameHolds(W, k, snd, rcv)
    BY DEF Flow
  <1>2. \A k \in 1..Len(W) : FrameHolds(W, k, to, rcv)
    BY <1>1, SenderKeepsFrames
  <1>3. \A n \in rcv.expected..to.nextEvent : Has(W, "event", n) \/ IsFrame(f, "event", n)
    BY DEF Flow, SenderGoesOn
  <1>4. \A j, k \in 1..Len(W) : j < k => InOrder(W[j], W[k])
    BY DEF Flow
  <1> QED BY <1>1, <1>2, <1>3, <1>4, FlowGrows

\* A side goes on and puts nothing on its wire.
LEMMA FlowSendsNothing ==
  ASSUME NEW W \in Seq(Frame), NEW snd, NEW to, NEW rcv, Flow(W, snd, rcv),
         SenderGoesOn(snd, to), to.nextEvent = snd.nextEvent
  PROVE  Flow(W, to, rcv)
  BY SenderKeepsFrames DEF Flow

-----------------------------------------------------------------------------
(* Each operation of a side a, whose peer is b. *)

\* A side after it sent a request or an event, and the frames it sends.
Asks(a) == [a EXCEPT !.next = a.next + 1, !.pending = @ \cup {a.next + 1}]
Reports(a) == [a EXCEPT !.nextEvent = @ + 1]
Request(i) == [type |-> "request", id |-> i]
Cancel(i) == [type |-> "cancel", id |-> i]
Event(i) == [type |-> "event", id |-> i]

LEMMA RequestKeeps ==
  ASSUME NEW a \in ChannelSide, NEW b \in ChannelSide, NEW Wa \in Seq(Frame), NEW Wb \in Seq(Frame),
         NEW isDown \in BOOLEAN, Pair(a, b, Wa, Wb, isDown), a.open, a.next < MaxRequests
  PROVE  /\ Asks(a) \in ChannelSide /\ Request(a.next + 1) \in Frame
         /\ Pair(Asks(a), b, Append(Wa, Request(a.next + 1)), Wb, isDown)
  <1> PICK i, to, f : i = a.next + 1 /\ to = Asks(a) /\ f = Request(i)
    OBVIOUS
  <1>0. to = [a EXCEPT !.next = i, !.pending = @ \cup {i}] /\ f = [type |-> "request", id |-> i]
    BY DEF Asks, Request
  <1>1. i \in C!Ids /\ i \in Nat /\ a.next \in Nat /\ i \in 0..MaxRequests
    BY SideFacts, ChannelAssumption DEF C!Ids
  <1>2. /\ to \in ChannelSide /\ to.open = a.open /\ to.next = i /\ to.pending = a.pending \cup {i}
        /\ to.outHigh = a.outHigh /\ to.incoming = a.incoming /\ to.inHigh = a.inHigh
        /\ to.nextEvent = a.nextEvent /\ to.expected = a.expected
    <2>1. a \in ChannelSide
      OBVIOUS
    <2> QED BY ONLY <1>0, <1>1, <2>1 DEF ChannelSide
  <1>3. f \in Frame /\ f.type = "request" /\ f.id = i
    BY <1>0, <1>1 DEF Frame
  <1>4. SideHolds(to, isDown) /\ SideHolds(b, isDown)
    BY SMTT(30), <1>1, <1>2, SideFacts DEF Pair, SideHolds
  <1>5. SenderGoesOn(a, to)
    BY <1>1, <1>2, SideFacts DEF SenderGoesOn, Issued
  <1>6. FrameHolds(Append(Wa, f), Len(Wa) + 1, to, b)
    <2>1. Append(Wa, f)[Len(Wa) + 1] = f
      BY <1>3, AppendFacts
    <2>2. b.inHigh <= a.next /\ \A j \in b.incoming : j \in 1..a.next
      BY DEF Pair, Served
    <2>3. Fresh(b, i)
      BY <1>1, <2>2, SideFacts DEF Fresh
    <2> QED BY <1>1, <1>2, <1>3, <2>1, <2>3 DEF FrameHolds, Issued
  <1>7. Flow(Append(Wa, f), to, b)
    <2>1. \A k \in 1..Len(Wa) : FrameHolds(Wa, k, a, b) => InOrder(Wa[k], f)
      BY <1>1, <1>3 DEF FrameHolds, InOrder
    <2> QED BY <1>2, <1>3, <1>5, <1>6, <2>1, FlowSends, SideFacts DEF Pair
  <1>8. Flow(Wb, b, to)
    <2>1. ReceiverGoesOn(a, to, {})
      BY <1>2 DEF ReceiverGoesOn, C!Known, Issued, Fresh
    <2> QED BY <1>2, <2>1, FlowStays DEF Pair
  <1>9. Served(Append(Wa, f), Wb, to, b)
    BY SMTT(30), <1>1, <1>2, <1>3, HasGrows, SideFacts DEF Pair, Served, Issued
  <1>10. Served(Wb, Append(Wa, f), b, to)
    BY <1>2, <1>3, HasGrows DEF Pair, Served
  <1> QED BY <1>2, <1>3, <1>4, <1>7, <1>8, <1>9, <1>10 DEF Pair, UpToDate

LEMMA RequestTooLargeKeeps ==
  ASSUME NEW a \in ChannelSide, NEW b \in ChannelSide, NEW Wa \in Seq(Frame), NEW Wb \in Seq(Frame),
         NEW isDown \in BOOLEAN, Pair(a, b, Wa, Wb, isDown), a.next < MaxRequests,
         NEW to, to = [a EXCEPT !.next = @ + 1]
  PROVE  to \in ChannelSide /\ Pair(to, b, Wa, Wb, isDown)
  <1>1. a.next \in Nat /\ a.next + 1 \in 0..MaxRequests
    BY SideFacts, ChannelAssumption
  <1>2. /\ to \in ChannelSide /\ to.open = a.open /\ to.next = a.next + 1 /\ to.pending = a.pending
        /\ to.outHigh = a.outHigh /\ to.incoming = a.incoming /\ to.inHigh = a.inHigh
        /\ to.nextEvent = a.nextEvent /\ to.expected = a.expected
    BY <1>1 DEF ChannelSide
  <1>3. SideHolds(to, isDown) /\ SideHolds(b, isDown)
    BY <1>1, <1>2, SideFacts DEF Pair, SideHolds
  <1>4. SenderGoesOn(a, to)
    BY SMTT(30), <1>1, <1>2, SideFacts DEF SenderGoesOn, Issued
  <1>5. ReceiverGoesOn(a, to, {})
    BY <1>2 DEF ReceiverGoesOn, C!Known, Issued, Fresh
  <1>6. Flow(Wa, to, b) /\ Flow(Wb, b, to)
    BY <1>2, <1>4, <1>5, FlowSendsNothing, FlowStays DEF Pair
  <1>7. Served(Wa, Wb, to, b) /\ Served(Wb, Wa, b, to)
    BY <1>1, <1>2, SideFacts DEF Pair, Served, Issued
  <1> QED BY <1>2, <1>3, <1>6, <1>7 DEF Pair, UpToDate

LEMMA AbortKeeps ==
  ASSUME NEW a \in ChannelSide, NEW b \in ChannelSide, NEW Wa \in Seq(Frame), NEW Wb \in Seq(Frame),
         NEW isDown \in BOOLEAN, Pair(a, b, Wa, Wb, isDown), NEW i \in a.pending
  PROVE  /\ C!Settles(a, i) \in ChannelSide /\ Cancel(i) \in Frame
         /\ Pair(C!Settles(a, i), b, Append(Wa, Cancel(i)), Wb, isDown)
  <1> PICK to, f : to = C!Settles(a, i) /\ f = Cancel(i)
    OBVIOUS
  <1>1. i \in C!Ids /\ i \in Nat /\ i \in 1..a.next /\ a.next \in Nat /\ a.open
    BY SideFacts, ChannelAssumption DEF C!Ids, Pair, SideHolds
  <1>2. /\ to \in ChannelSide /\ to.open = a.open /\ to.next = a.next /\ to.pending = a.pending \ {i}
        /\ to.outHigh = C!Greater(a.outHigh, i) /\ to.incoming = a.incoming /\ to.inHigh = a.inHigh
        /\ to.nextEvent = a.nextEvent /\ to.expected = a.expected
    BY <1>1 DEF ChannelSide, C!Settles, C!Greater
  <1>3. f \in Frame /\ f.type = "cancel" /\ f.id = i
    BY <1>1 DEF Frame, Cancel
  <1>4. SideHolds(to, isDown) /\ SideHolds(b, isDown)
    BY SMTT(30), <1>1, <1>2, SideFacts DEF Pair, SideHolds, C!Greater
  <1>5. \A j \in Nat : Issued(a, j) => Issued(to, j)
    BY <1>1, <1>2, SideFacts DEF Issued, C!Greater
  <1>6. SenderGoesOn(a, to)
    BY <1>1, <1>2, <1>5, SideFacts DEF SenderGoesOn
  <1>7. FrameHolds(Append(Wa, f), Len(Wa) + 1, to, b)
    <2>1. Append(Wa, f)[Len(Wa) + 1] = f /\ Len(Wa) \in Nat /\ \A k \in 1..Len(Wa) : Append(Wa, f)[k] = Wa[k]
      BY <1>3, AppendFacts
    <2>2. Has(Wb, "response", i) => i <= b.inHigh
      BY DEF Pair, Flow, FrameHolds, Has, IsFrame
    <2>3. b.open => C!Known(b, i) \/ Has(Wa, "request", i)
      BY <2>2 DEF Pair, Served, C!Known
    <2> QED BY <1>1, <1>2, <1>3, <2>1, <2>3 DEF FrameHolds, Has
  <1>8. Flow(Append(Wa, f), to, b)
    <2>1. \A k \in 1..Len(Wa) : FrameHolds(Wa, k, a, b) => InOrder(Wa[k], f)
      BY <1>1, <1>3 DEF FrameHolds, InOrder
    <2> QED BY <1>2, <1>3, <1>6, <1>7, <2>1, FlowSends, SideFacts DEF Pair
  <1>9. Flow(Wb, b, to)
    <2>1. ReceiverGoesOn(a, to, {})
      BY <1>2, <1>5 DEF ReceiverGoesOn, C!Known, Fresh
    <2> QED BY <1>2, <2>1, FlowStays DEF Pair
  <1>10. Served(Append(Wa, f), Wb, to, b)
    BY <1>1, <1>2, <1>3, <1>5, HasGrows, SideFacts DEF Pair, Served
  <1>11. Served(Wb, Append(Wa, f), b, to)
    BY <1>2, <1>3, HasGrows DEF Pair, Served
  <1> QED BY <1>2, <1>3, <1>4, <1>8, <1>9, <1>10, <1>11 DEF Pair, UpToDate

LEMMA SendEventKeeps ==
  ASSUME NEW a \in ChannelSide, NEW b \in ChannelSide, NEW Wa \in Seq(Frame), NEW Wb \in Seq(Frame),
         NEW isDown \in BOOLEAN, Pair(a, b, Wa, Wb, isDown), a.open
  PROVE  /\ Reports(a) \in ChannelSide /\ Event(a.nextEvent + 1) \in Frame
         /\ Pair(Reports(a), b, Append(Wa, Event(a.nextEvent + 1)), Wb, isDown)
  <1> PICK to, f : to = Reports(a) /\ f = Event(a.nextEvent + 1)
    OBVIOUS
  <1>1. a.nextEvent \in Nat /\ a.nextEvent + 1 \in Nat /\ a.next \in Nat /\ b.expected \in Nat
    BY SideFacts
  <1>2. /\ to \in ChannelSide /\ to.open = a.open /\ to.next = a.next /\ to.pending = a.pending
        /\ to.outHigh = a.outHigh /\ to.incoming = a.incoming /\ to.inHigh = a.inHigh
        /\ to.nextEvent = a.nextEvent + 1 /\ to.expected = a.expected
    BY <1>1 DEF ChannelSide, Reports
  <1>3. f \in Frame /\ f.type = "event" /\ f.id = a.nextEvent + 1
    BY <1>1 DEF Frame, Event
  <1>4. SideHolds(to, isDown) /\ SideHolds(b, isDown)
    BY <1>2 DEF Pair, SideHolds
  <1>5. SenderGoesOn(a, to)
    BY <1>1, <1>2, SideFacts DEF SenderGoesOn, Issued
  <1>6. FrameHolds(Append(Wa, f), Len(Wa) + 1, to, b)
    <2>1. Append(Wa, f)[Len(Wa) + 1] = f
      BY <1>3, AppendFacts
    <2>2. b.expected <= a.nextEvent + 1
      BY DEF Pair, UpToDate
    <2> QED BY <1>1, <1>2, <1>3, <2>1, <2>2 DEF FrameHolds
  <1>7. Flow(Append(Wa, f), to, b)
    <2>1. ASSUME NEW k \in 1..Len(Wa), FrameHolds(Wa, k, a, b) PROVE InOrder(Wa[k], f)
      <3>1. Wa[k].id \in Nat /\ (Wa[k].type = "response" => Wa[k].after \in Nat)
        BY FrameFacts
      <3> QED BY <1>1, <1>3, <2>1, <3>1 DEF FrameHolds, InOrder
    <2> QED BY <1>1, <1>2, <1>3, <1>5, <1>6, <2>1, FlowSends DEF Pair, IsFrame
  <1>8. Flow(Wb, b, to)
    <2>1. ReceiverGoesOn(a, to, {})
      BY <1>2 DEF ReceiverGoesOn, C!Known, Issued, Fresh
    <2> QED BY <1>2, <2>1, FlowStays DEF Pair
  <1>9. Served(Append(Wa, f), Wb, to, b)
    BY <1>2, <1>3, HasGrows DEF Pair, Served, Issued
  <1>10. Served(Wb, Append(Wa, f), b, to)
    BY <1>2, <1>3, HasGrows DEF Pair, Served
  <1> QED BY <1>1, <1>2, <1>3, <1>4, <1>7, <1>8, <1>9, <1>10 DEF Pair, UpToDate

LEMMA CompleteKeeps ==
  ASSUME NEW a \in ChannelSide, NEW b \in ChannelSide, NEW Wa \in Seq(Frame), NEW Wb \in Seq(Frame),
         NEW isDown \in BOOLEAN, Pair(a, b, Wa, Wb, isDown), NEW i \in a.incoming
  PROVE  /\ C!Terminates(a, i) \in ChannelSide /\ Response(a, i) \in Frame
         /\ Pair(C!Terminates(a, i), b, Append(Wa, Response(a, i)), Wb, isDown)
  <1> PICK to, f : to = C!Terminates(a, i) /\ f = Response(a, i)
    OBVIOUS
  <1>1. /\ i \in C!Ids /\ i \in Nat /\ a.open /\ i \in 1..b.next /\ b.next \in Nat /\ (b.open => Issued(b, i))
        /\ a.nextEvent \in Nat
    BY SideFacts DEF Pair, SideHolds, Served
  <1>2. /\ to \in ChannelSide /\ to.open = a.open /\ to.next = a.next /\ to.pending = a.pending
        /\ to.outHigh = a.outHigh /\ to.incoming = a.incoming \ {i} /\ to.inHigh = C!Greater(a.inHigh, i)
        /\ to.nextEvent = a.nextEvent /\ to.expected = a.expected
    BY <1>1, TerminatesFacts
  <1>3. f \in Frame /\ f.type = "response" /\ f.id = i /\ f.after = a.nextEvent
    BY <1>1 DEF Frame, Response
  <1>4. SideHolds(to, isDown) /\ SideHolds(b, isDown)
    BY <1>1, <1>2 DEF Pair, SideHolds
  <1>5. SenderGoesOn(a, to)
    BY <1>1, <1>2, SideFacts DEF SenderGoesOn, Issued, C!Greater
  <1>6. FrameHolds(Append(Wa, f), Len(Wa) + 1, to, b)
    <2>1. Append(Wa, f)[Len(Wa) + 1] = f
      BY <1>3, AppendFacts
    <2> QED BY <1>1, <1>2, <1>3, <2>1, SideFacts DEF FrameHolds, C!Greater
  <1>7. Flow(Append(Wa, f), to, b)
    <2>1. \A k \in 1..Len(Wa) : InOrder(Wa[k], f)
      BY <1>3 DEF InOrder
    <2> QED BY <1>2, <1>3, <1>5, <1>6, <2>1, FlowSends, SideFacts DEF Pair
  <1>8. ReceiverGoesOn(a, to, {})
    BY <1>1, <1>2, SideFacts DEF ReceiverGoesOn, C!Known, Issued, Fresh, C!Greater
  <1>9. Flow(Wb, b, to)
    BY <1>2, <1>8, FlowStays DEF Pair
  <1>10. Served(Append(Wa, f), Wb, to, b)
    BY <1>2, <1>3, HasGrows DEF Pair, Served, Issued
  <1>11. Served(Wb, Append(Wa, f), b, to)
    <2>1. to.inHigh <= b.next
      BY <1>1, <1>2, SideFacts DEF Pair, Served, C!Greater
    <2>2. \A j : Has(Wa, "response", j) => Has(Append(Wa, f), "response", j)
      BY <1>3, HasGrows
    <2>3. Has(Append(Wa, f), "response", i)
      BY <1>3, HasGrows
    <2> QED BY <1>2, <2>1, <2>2, <2>3 DEF Pair, Served
  <1> QED BY <1>2, <1>3, <1>4, <1>7, <1>9, <1>10, <1>11 DEF Pair, UpToDate

\* The reader of a takes the first frame of b's wire.
Starts(a, i) == [a EXCEPT !.incoming = @ \cup {i}]
Handles(a) == [a EXCEPT !.expected = @ + 1, !.handling = TRUE]

LEMMA StartsKeeps ==
  ASSUME NEW a \in ChannelSide, NEW b \in ChannelSide, NEW Wa \in Seq(Frame), NEW Wb \in Seq(Frame),
         NEW isDown \in BOOLEAN, Pair(a, b, Wa, Wb, isDown), a.open, Wb # <<>>,
         Head(Wb).type = "request"
  PROVE  /\ Starts(a, Head(Wb).id) \in ChannelSide /\ ~C!Known(a, Head(Wb).id) /\ Head(Wb).id \in C!Ids
         /\ Pair(Starts(a, Head(Wb).id), b, Wa, Tail(Wb), isDown)
  <1> PICK h : h = Head(Wb)
    OBVIOUS
  <1> PICK i, to : i = h.id /\ to = Starts(a, i)
    OBVIOUS
  <1>1. /\ h \in Frame /\ i \in 1..b.next /\ Fresh(a, i) /\ (b.open => Issued(b, i)) /\ i = h.id
        /\ h.type = "request"
    BY HeadHolds, SideFacts DEF Pair
  <1>2. i \in C!Ids /\ i \in Nat /\ b.next \in Nat
    BY <1>1, SideFacts, ChannelAssumption DEF C!Ids
  <1>3. /\ to \in ChannelSide /\ to.open = a.open /\ to.next = a.next /\ to.pending = a.pending
        /\ to.outHigh = a.outHigh /\ to.incoming = a.incoming \cup {i} /\ to.inHigh = a.inHigh
        /\ to.nextEvent = a.nextEvent /\ to.expected = a.expected
    BY <1>2 DEF ChannelSide, Starts
  <1>4. SideHolds(to, isDown) /\ SideHolds(b, isDown)
    BY <1>3 DEF Pair, SideHolds
  <1>5. Flow(Wa, to, b)
    <2>1. SenderGoesOn(a, to)
      BY <1>3, SideFacts DEF SenderGoesOn, Issued
    <2> QED BY <1>3, <2>1, FlowSendsNothing DEF Pair
  <1>6. Flow(Tail(Wb), b, to)
    <2>1. ReceiverGoesOn(a, to, {i})
      BY <1>1, <1>2, <1>3, SideFacts DEF ReceiverGoesOn, C!Known, Issued, Fresh
    <2>2. ReceiverGoesOn(a, to, IF Head(Wb).type = "request" THEN {Head(Wb).id} ELSE {})
      BY <2>1
    <2> QED BY <1>1, <1>3, <2>2, FlowShrinks, SideFacts DEF Pair
  <1>7. Served(Wa, Tail(Wb), to, b)
    <2>1. \A j : Has(Wb, "response", j) => Has(Tail(Wb), "response", j)
      BY <1>1, HasShrinks DEF IsFrame
    <2> QED BY <1>3, <2>1 DEF Pair, Served, Issued
  <1>8. Served(Tail(Wb), Wa, b, to)
    <2>1. \A j : Has(Wb, "request", j) => j = i \/ Has(Tail(Wb), "request", j)
      BY <1>1, HasShrinks DEF IsFrame
    <2> QED BY <1>1, <1>3, <2>1 DEF Pair, Served
  <1>9. ~C!Known(a, i)
    BY <1>1, <1>2, SideFacts DEF Fresh, C!Known
  <1> QED BY <1>2, <1>3, <1>4, <1>5, <1>6, <1>7, <1>8, <1>9 DEF Pair, UpToDate

LEMMA RefusesKeeps ==
  ASSUME NEW a \in ChannelSide, NEW b \in ChannelSide, NEW Wa \in Seq(Frame), NEW Wb \in Seq(Frame),
         NEW isDown \in BOOLEAN, Pair(a, b, Wa, Wb, isDown), a.open, Wb # <<>>,
         Head(Wb).type = "request"
  PROVE  /\ C!Terminates(a, Head(Wb).id) \in ChannelSide /\ Response(a, Head(Wb).id) \in Frame
         /\ Pair(C!Terminates(a, Head(Wb).id), b, Append(Wa, Response(a, Head(Wb).id)), Tail(Wb), isDown)
  <1> PICK i : i = Head(Wb).id
    OBVIOUS
  <1> PICK mid, to, f : mid = Starts(a, i) /\ to = C!Terminates(a, i) /\ f = Response(a, i)
    OBVIOUS
  <1>1. mid \in ChannelSide /\ ~C!Known(a, i) /\ Pair(mid, b, Wa, Tail(Wb), isDown)
    BY StartsKeeps
  <1>2. i \in mid.incoming /\ mid.nextEvent = a.nextEvent
    BY DEF ChannelSide, Starts
  <1>3. C!Terminates(mid, i) = C!Terminates(a, i)
    <2>1. i \notin a.incoming
      BY <1>1 DEF C!Known
    <2> QED BY <2>1 DEF C!Terminates, ChannelSide, Starts
  <1>4. PICK V : V = Tail(Wb)
    OBVIOUS
  <1>8. V \in Seq(Frame)
    BY <1>4, TailFacts
  <1>5. to = C!Terminates(mid, i) /\ f = Response(mid, i)
    BY <1>2, <1>3 DEF Response
  <1>6. i \in mid.incoming
    BY <1>2
  <1>7. to \in ChannelSide /\ f \in Frame /\ Pair(to, b, Append(Wa, f), V, isDown)
    <2>1. mid \in ChannelSide /\ Pair(mid, b, Wa, V, isDown)
      BY <1>1, <1>4
    <2>2. /\ C!Terminates(mid, i) \in ChannelSide /\ Response(mid, i) \in Frame
          /\ Pair(C!Terminates(mid, i), b, Append(Wa, Response(mid, i)), V, isDown)
      <3>1. b \in ChannelSide /\ Wa \in Seq(Frame) /\ isDown \in BOOLEAN
        OBVIOUS
      <3> QED BY ONLY <3>1, <1>8, <1>6, <2>1, CompleteKeeps, Zenon
    <2> QED BY <1>5, <2>2
  <1> QED BY <1>4, <1>7

LEMMA ResponseKeeps ==
  ASSUME NEW a \in ChannelSide, NEW b \in ChannelSide, NEW Wa \in Seq(Frame), NEW Wb \in Seq(Frame),
         NEW isDown \in BOOLEAN, Pair(a, b, Wa, Wb, isDown), a.open, Wb # <<>>,
         Head(Wb).type = "response"
  PROVE  /\ Answered(a, Head(Wb).id) \in ChannelSide /\ Head(Wb).id \in Nat
         /\ Pair(Answered(a, Head(Wb).id), b, Wa, Tail(Wb), isDown)
         /\ Head(Wb).id \in a.pending \/ Head(Wb).id <= a.outHigh
         /\ ~(a.expected <= Head(Wb).after)
  <1> PICK h : h = Head(Wb)
    OBVIOUS
  <1> PICK i, to : i = h.id /\ to = Answered(a, i)
    OBVIOUS
  <1>1. h \in Frame /\ Issued(a, i) /\ i = h.id /\ h.type = "response" /\ a.expected > h.after
    BY HeadHolds, SideFacts DEF Pair
  <1>2. i \in Nat /\ h.after \in Nat
    BY <1>1, FrameFacts
  <1>3. /\ to \in ChannelSide /\ to.open = a.open /\ to.next = a.next /\ to.pending = a.pending \ {i}
        /\ to.incoming = a.incoming /\ to.inHigh = a.inHigh
        /\ to.nextEvent = a.nextEvent /\ to.expected = a.expected
        /\ to.outHigh \in Nat /\ i <= to.outHigh /\ a.outHigh <= to.outHigh
        /\ a.next \in Nat /\ to.outHigh <= a.next
    <2>0. a.outHigh <= a.next /\ a.outHigh \in Nat /\ a.next \in Nat /\ (i \in a.pending => i <= a.next)
      BY SideFacts DEF Pair, SideHolds
    <2>2. i \in a.pending \/ i <= a.outHigh
      BY <1>1 DEF Issued
    <2>3. /\ to \in ChannelSide /\ to.open = a.open /\ to.next = a.next /\ to.pending = a.pending \ {i}
          /\ to.incoming = a.incoming /\ to.inHigh = a.inHigh
          /\ to.nextEvent = a.nextEvent /\ to.expected = a.expected
          /\ to.outHigh \in Nat /\ i <= to.outHigh /\ a.outHigh <= to.outHigh
          /\ to.outHigh = a.outHigh \/ (to.outHigh = i /\ i \in a.pending)
      <3>1. /\ Answered(a, i) \in ChannelSide /\ Answered(a, i).open = a.open
            /\ Answered(a, i).next = a.next /\ Answered(a, i).pending = a.pending \ {i}
            /\ Answered(a, i).incoming = a.incoming /\ Answered(a, i).inHigh = a.inHigh
            /\ Answered(a, i).nextEvent = a.nextEvent /\ Answered(a, i).expected = a.expected
            /\ i <= Answered(a, i).outHigh /\ a.outHigh <= Answered(a, i).outHigh
            /\ \/ Answered(a, i).outHigh = a.outHigh
               \/ Answered(a, i).outHigh = i /\ i \in a.pending
        <4>1. a \in ChannelSide /\ i \in Nat
          BY <1>2
        <4> QED BY ONLY <4>1, <2>2, AnsweredFacts, Zenon
      <3> QED BY <3>1, SideFacts
    <2> QED BY <2>0, <2>3
  <1>4. SideHolds(to, isDown) /\ SideHolds(b, isDown)
    BY <1>3 DEF Pair, SideHolds
  <1>5. \A j \in Nat : Issued(a, j) => Issued(to, j)
    BY SMTT(30), <1>2, <1>3, SideFacts DEF Issued
  <1>6. Flow(Wa, to, b)
    <2>1. SenderGoesOn(a, to)
      BY <1>3, <1>5, SideFacts DEF SenderGoesOn
    <2> QED BY <1>3, <2>1, FlowSendsNothing DEF Pair
  <1>7. Flow(Tail(Wb), b, to)
    <2>1. ReceiverGoesOn(a, to, {})
      BY <1>3, <1>5 DEF ReceiverGoesOn, C!Known, Fresh
    <2>2. ReceiverGoesOn(a, to, IF Head(Wb).type = "request" THEN {Head(Wb).id} ELSE {})
      BY <2>1
    <2> QED BY <1>1, <1>3, <2>2, FlowShrinks, SideFacts DEF Pair
  <1>8. Served(Wa, Tail(Wb), to, b)
    <2>1. \A j : Has(Wb, "response", j) => j = i \/ Has(Tail(Wb), "response", j)
      BY <1>1, HasShrinks DEF IsFrame
    <2>2. \A j \in b.incoming : j \in 1..a.next /\ (a.open => Issued(a, j))
      BY DEF Pair, Served
    <2>3. \A j \in b.incoming : j \in 1..to.next /\ (to.open => Issued(to, j))
      BY <1>3, <1>5, <2>2
    <2> QED BY <1>3, <2>1, <2>3 DEF Pair, Served
  <1>9. Served(Tail(Wb), Wa, b, to)
    <2>1. \A j : Has(Wb, "request", j) => Has(Tail(Wb), "request", j)
      BY <1>1, HasShrinks DEF IsFrame
    <2> QED BY <1>3, <2>1 DEF Pair, Served
  <1>10. Pair(to, b, Wa, Tail(Wb), isDown)
    BY <1>3, <1>4, <1>6, <1>7, <1>8, <1>9 DEF Pair, UpToDate
  <1> QED BY <1>1, <1>2, <1>3, <1>10, SideFacts DEF Issued

LEMMA CancelKeeps ==
  ASSUME NEW a \in ChannelSide, NEW b \in ChannelSide, NEW Wa \in Seq(Frame), NEW Wb \in Seq(Frame),
         NEW isDown \in BOOLEAN, Pair(a, b, Wa, Wb, isDown), a.open, Wb # <<>>,
         Head(Wb).type = "cancel"
  PROVE  /\ Cancelled(a, Head(Wb).id) \in ChannelSide /\ Head(Wb).id \in Nat
         /\ Pair(Cancelled(a, Head(Wb).id), b, Wa, Tail(Wb), isDown)
         /\ Head(Wb).id \in a.incoming \/ Head(Wb).id <= a.inHigh
  <1> PICK h : h = Head(Wb)
    OBVIOUS
  <1> PICK i, to : i = h.id /\ to = Cancelled(a, i)
    OBVIOUS
  <1>1. h \in Frame /\ C!Known(a, i) /\ i \notin b.pending /\ i = h.id /\ h.type = "cancel"
    BY HeadHolds, SideFacts DEF Pair
  <1>2. i \in Nat
    BY <1>1, FrameFacts
  <1>3. /\ to \in ChannelSide /\ to.open = a.open /\ to.next = a.next /\ to.pending = a.pending
        /\ to.outHigh = a.outHigh /\ to.incoming = a.incoming \ {i}
        /\ to.nextEvent = a.nextEvent /\ to.expected = a.expected
        /\ to.inHigh \in Nat /\ i <= to.inHigh /\ a.inHigh <= to.inHigh
        /\ b.next \in Nat /\ to.inHigh <= b.next /\ a.inHigh \in Nat
        /\ to.inHigh = a.inHigh \/ (to.inHigh = i /\ i \in a.incoming)
    <2>0. a.inHigh <= b.next /\ a.inHigh \in Nat /\ b.next \in Nat /\ (i \in a.incoming => i <= b.next)
      BY SideFacts DEF Pair, Served
    <2>2. i \in a.incoming \/ i <= a.inHigh
      BY <1>1 DEF C!Known
    <2>3. /\ to \in ChannelSide /\ to.open = a.open /\ to.next = a.next /\ to.pending = a.pending
          /\ to.outHigh = a.outHigh /\ to.incoming = a.incoming \ {i}
          /\ to.nextEvent = a.nextEvent /\ to.expected = a.expected
          /\ to.inHigh \in Nat /\ i <= to.inHigh /\ a.inHigh <= to.inHigh
          /\ to.inHigh = a.inHigh \/ (to.inHigh = i /\ i \in a.incoming)
      <3>1. /\ Cancelled(a, i) \in ChannelSide /\ Cancelled(a, i).open = a.open
            /\ Cancelled(a, i).next = a.next /\ Cancelled(a, i).pending = a.pending
            /\ Cancelled(a, i).outHigh = a.outHigh /\ Cancelled(a, i).incoming = a.incoming \ {i}
            /\ Cancelled(a, i).nextEvent = a.nextEvent /\ Cancelled(a, i).expected = a.expected
            /\ i <= Cancelled(a, i).inHigh /\ a.inHigh <= Cancelled(a, i).inHigh
            /\ \/ Cancelled(a, i).inHigh = a.inHigh
               \/ Cancelled(a, i).inHigh = i /\ i \in a.incoming
        <4>1. a \in ChannelSide /\ i \in Nat
          BY <1>2
        <4> QED BY ONLY <4>1, <2>2, CancelledFacts, Zenon
      <3> QED BY <3>1, SideFacts
    <2> QED BY <2>0, <2>3
  <1>4. SideHolds(to, isDown) /\ SideHolds(b, isDown)
    BY <1>3 DEF Pair, SideHolds
  <1>5. Flow(Wa, to, b)
    <2>1. SenderGoesOn(a, to)
      BY <1>3, SideFacts DEF SenderGoesOn, Issued
    <2> QED BY <1>3, <2>1, FlowSendsNothing DEF Pair
  <1>6. Flow(Tail(Wb), b, to)
    <2>1. ReceiverGoesOn(a, to, {})
      BY SMTT(30), <1>2, <1>3, SideFacts DEF ReceiverGoesOn, C!Known, Fresh, Issued
    <2>2. ReceiverGoesOn(a, to, IF Head(Wb).type = "request" THEN {Head(Wb).id} ELSE {})
      BY <2>1
    <2> QED BY <1>1, <1>3, <2>2, FlowShrinks, SideFacts DEF Pair
  <1>7. Served(Wa, Tail(Wb), to, b)
    <2>1. \A j : Has(Wb, "response", j) => Has(Tail(Wb), "response", j)
      BY <1>1, HasShrinks DEF IsFrame
    <2> QED BY <1>3, <2>1 DEF Pair, Served, Issued
  <1>8. Served(Tail(Wb), Wa, b, to)
    <2>1. \A j : Has(Wb, "request", j) => Has(Tail(Wb), "request", j)
      BY <1>1, HasShrinks DEF IsFrame
    <2> QED BY <1>1, <1>3, <2>1 DEF Pair, Served
  <1> QED BY <1>1, <1>2, <1>3, <1>4, <1>5, <1>6, <1>7, <1>8 DEF Pair, UpToDate, C!Known

LEMMA EventKeeps ==
  ASSUME NEW a \in ChannelSide, NEW b \in ChannelSide, NEW Wa \in Seq(Frame), NEW Wb \in Seq(Frame),
         NEW isDown \in BOOLEAN, Pair(a, b, Wa, Wb, isDown), a.open, Wb # <<>>,
         Head(Wb).type = "event"
  PROVE  /\ Handles(a) \in ChannelSide /\ Pair(Handles(a), b, Wa, Tail(Wb), isDown)
         /\ Head(Wb).id = a.expected
  <1> PICK h, to : h = Head(Wb) /\ to = Handles(a)
    OBVIOUS
  <1>1. h \in Frame /\ h.id = a.expected /\ h.type = "event"
    BY HeadHolds, SideFacts DEF Pair
  <1>2. a.expected <= b.nextEvent
    <2>1. FrameHolds(Wb, 1, b, a) /\ Wb[1] = h
      BY TailFacts DEF Pair, Flow
    <2> QED BY <1>1, <2>1 DEF FrameHolds
  <1>3. /\ to \in ChannelSide /\ to.open = a.open /\ to.next = a.next /\ to.pending = a.pending
        /\ to.outHigh = a.outHigh /\ to.incoming = a.incoming /\ to.inHigh = a.inHigh
        /\ to.nextEvent = a.nextEvent /\ to.expected = a.expected + 1
    <2>1. PICK e : e = a.expected + 1 /\ e \in Nat
      BY SideFacts
    <2>2. to = [a EXCEPT !.expected = e, !.handling = TRUE]
      BY <2>1 DEF Handles
    <2> QED BY <2>1, <2>2 DEF ChannelSide
  <1>4. SideHolds(to, isDown) /\ SideHolds(b, isDown)
    BY <1>3 DEF Pair, SideHolds
  <1>5. Flow(Wa, to, b)
    <2>1. SenderGoesOn(a, to)
      BY <1>3, SideFacts DEF SenderGoesOn, Issued
    <2> QED BY <1>3, <2>1, FlowSendsNothing DEF Pair
  <1>6. Flow(Tail(Wb), b, to)
    <2>1. ReceiverGoesOn(a, to, {})
      BY <1>3 DEF ReceiverGoesOn, C!Known, Fresh, Issued
    <2>2. ReceiverGoesOn(a, to, IF Head(Wb).type = "request" THEN {Head(Wb).id} ELSE {})
      BY <1>1, <2>1
    <2> QED BY <1>1, <1>3, <2>2, FlowShrinks, SideFacts DEF Pair
  <1>7. Served(Wa, Tail(Wb), to, b)
    <2>1. \A j : Has(Wb, "response", j) => Has(Tail(Wb), "response", j)
      BY <1>1, HasShrinks DEF IsFrame
    <2> QED BY <1>3, <2>1 DEF Pair, Served, Issued
  <1>8. Served(Tail(Wb), Wa, b, to)
    <2>1. \A j : Has(Wb, "request", j) => Has(Tail(Wb), "request", j)
      BY <1>1, HasShrinks DEF IsFrame
    <2> QED BY <1>3, <2>1 DEF Pair, Served
  <1>9. UpToDate(b, to) /\ UpToDate(to, b)
    BY <1>2, <1>3, SideFacts DEF Pair, UpToDate
  <1> QED BY <1>1, <1>3, <1>4, <1>5, <1>6, <1>7, <1>8, <1>9 DEF Pair

\* A side closes, or its event handler returns.
Ended(a) == [a EXCEPT !.open = FALSE, !.pending = {}, !.incoming = {}]

LEMMA CloseKeeps ==
  ASSUME NEW a \in ChannelSide, NEW b \in ChannelSide, NEW Wa \in Seq(Frame), NEW Wb \in Seq(Frame),
         NEW isDown \in BOOLEAN, Pair(a, b, Wa, Wb, isDown)
  PROVE  Ended(a) \in ChannelSide /\ Pair(Ended(a), b, Wa, Wb, TRUE)
  <1> PICK to : to = Ended(a)
    OBVIOUS
  <1>1. /\ to \in ChannelSide /\ to.open = FALSE /\ to.next = a.next /\ to.pending = {}
        /\ to.outHigh = a.outHigh /\ to.incoming = {} /\ to.inHigh = a.inHigh
        /\ to.nextEvent = a.nextEvent /\ to.expected = a.expected
    BY DEF ChannelSide, Ended
  <1>2. SideHolds(to, TRUE) /\ SideHolds(b, TRUE)
    BY <1>1 DEF Pair, SideHolds
  <1>3. Flow(Wa, to, b)
    <2>1. SenderGoesOn(a, to)
      BY <1>1, SideFacts DEF SenderGoesOn, Issued
    <2> QED BY <1>1, <2>1, FlowSendsNothing DEF Pair
  <1>4. Flow(Wb, b, to)
    <2>1. ReceiverGoesOn(a, to, {})
      BY <1>1 DEF ReceiverGoesOn
    <2> QED BY <1>1, <2>1, FlowStays DEF Pair
  <1>5. Served(Wa, Wb, to, b) /\ Served(Wb, Wa, b, to)
    BY <1>1 DEF Pair, Served
  <1> QED BY <1>1, <1>2, <1>3, <1>4, <1>5 DEF Pair, UpToDate

LEMMA EventHandledKeeps ==
  ASSUME NEW a \in ChannelSide, NEW b \in ChannelSide, NEW Wa \in Seq(Frame), NEW Wb \in Seq(Frame),
         NEW isDown \in BOOLEAN, Pair(a, b, Wa, Wb, isDown),
         NEW to, to = [a EXCEPT !.handling = FALSE]
  PROVE  to \in ChannelSide /\ Pair(to, b, Wa, Wb, isDown)
  <1>1. /\ to \in ChannelSide /\ to.open = a.open /\ to.next = a.next /\ to.pending = a.pending
        /\ to.outHigh = a.outHigh /\ to.incoming = a.incoming /\ to.inHigh = a.inHigh
        /\ to.nextEvent = a.nextEvent /\ to.expected = a.expected
    BY DEF ChannelSide
  <1>2. SenderGoesOn(a, to) /\ ReceiverGoesOn(a, to, {})
    BY <1>1, SideFacts DEF SenderGoesOn, ReceiverGoesOn, C!Known, Issued, Fresh
  <1>3. Flow(Wa, to, b) /\ Flow(Wb, b, to)
    BY <1>1, <1>2, FlowSendsNothing, FlowStays DEF Pair
  <1>4. SideHolds(to, isDown) /\ Served(Wa, Wb, to, b) /\ Served(Wb, Wa, b, to)
    BY <1>1 DEF Pair, SideHolds, Served, Issued
  <1> QED BY <1>1, <1>3, <1>4 DEF Pair, UpToDate

-----------------------------------------------------------------------------
(* The steps of the channel. *)

LEMMA Ends ==
  ASSUME NEW s \in C!Sides
  PROVE  /\ C!Peer(s) \in C!Sides /\ C!Peer(s) # s /\ C!Peer(C!Peer(s)) = s
         /\ \A x \in C!Sides : x = s \/ x = C!Peer(s)
  BY DEF C!Sides, C!Peer

\* The two ends in one state are a pair.
LEMMA InvIsPair ==
  ASSUME NEW s \in C!Sides
  PROVE  (\A x \in C!Sides : OneWay(x))
           <=> Pair(side[s], side[C!Peer(s)], wire[s], wire[C!Peer(s)], down)
  <1> PICK p : p = C!Peer(s)
    OBVIOUS
  <1>1. p \in C!Sides /\ C!Peer(p) = s /\ \A x \in C!Sides : x = s \/ x = p
    BY Ends
  <1>2. (\A x \in C!Sides : OneWay(x)) <=> OneWay(s) /\ OneWay(p)
    BY <1>1
  <1> QED BY <1>1, <1>2 DEF OneWay, Pair

\* What a step of side s on the two ends and their wires leaves.
Moves(s, to, Va, Vb, isDown) ==
  /\ side' = [side EXCEPT ![s] = to]
  /\ wire' \in [C!Sides -> Seq(Frame)] /\ wire'[s] = Va /\ wire'[C!Peer(s)] = Vb
  /\ down' = isDown

LEMMA MoveKeeps ==
  ASSUME ChannelTypes, NEW s \in C!Sides, NEW to \in ChannelSide, NEW Va \in Seq(Frame), NEW Vb \in Seq(Frame),
         NEW isDown \in BOOLEAN, Moves(s, to, Va, Vb, isDown),
         Pair(to, side[C!Peer(s)], Va, Vb, isDown)
  PROVE  /\ side' \in [C!Sides -> ChannelSide] /\ wire' \in [C!Sides -> Seq(Frame)] /\ down' \in BOOLEAN
         /\ \A x \in C!Sides : OneWay(x)'
  <1> PICK p : p = C!Peer(s)
    OBVIOUS
  <1>1. p \in C!Sides /\ p # s /\ C!Peer(p) = s /\ C!Peer(s) = p /\ \A x \in C!Sides : x = s \/ x = p
    BY Ends
  <1>2. /\ side' \in [C!Sides -> ChannelSide] /\ wire' \in [C!Sides -> Seq(Frame)] /\ down' = isDown
        /\ side'[s] = to /\ side'[p] = side[p] /\ wire'[s] = Va /\ wire'[p] = Vb
    BY <1>1 DEF Moves, ChannelTypes
  <1>3. OneWay(s)' /\ OneWay(p)'
    BY <1>1, <1>2 DEF Pair, OneWay
  <1> QED BY <1>1, <1>2, <1>3

\* Settlements: the requests in gone settle once.
Settled(x, count) ==
  \A i \in C!Ids : count[i] = IF i <= x.next /\ i \notin x.pending THEN 1 ELSE 0

LEMMA SettlesOnce ==
  ASSUME ChannelTypes, C!EachSettlesOnce, NEW s \in C!Sides, NEW to \in ChannelSide,
         side' = [side EXCEPT ![s] = to], settled' \in [C!Sides -> [C!Ids -> Nat]],
         settled'[C!Peer(s)] = settled[C!Peer(s)],
         Settled(to, settled'[s])
  PROVE  C!EachSettlesOnce'
  <1> PICK p : p = C!Peer(s)
    OBVIOUS
  <1>1. p \in C!Sides /\ p # s /\ \A x \in C!Sides : x = s \/ x = p
    BY Ends
  <1>2. side'[s] = to /\ side'[p] = side[p] /\ settled'[p] = settled[p]
    BY <1>1 DEF ChannelTypes
  <1>3. \A i \in C!Ids : settled[p][i] = IF i <= side[p].next /\ i \notin side[p].pending THEN 1 ELSE 0
    BY <1>1 DEF C!EachSettlesOnce
  <1>4. \A i \in C!Ids : settled'[p][i] = IF i <= side'[p].next /\ i \notin side'[p].pending THEN 1 ELSE 0
    BY <1>2, <1>3
  <1>5. \A i \in C!Ids : settled'[s][i] = IF i <= side'[s].next /\ i \notin side'[s].pending THEN 1 ELSE 0
    BY <1>2 DEF Settled
  <1> QED BY <1>1, <1>4, <1>5 DEF C!EachSettlesOnce

LEMMA CountFacts ==
  ASSUME ChannelTypes, NEW s \in C!Sides, NEW gone, C!Count(s, gone)
  PROVE  /\ settled' \in [C!Sides -> [C!Ids -> Nat]] /\ settled'[C!Peer(s)] = settled[C!Peer(s)]
         /\ \A i \in C!Ids : settled'[s][i] = IF i \in gone THEN settled[s][i] + 1 ELSE settled[s][i]
  <1> PICK g : g = [i \in C!Ids |-> IF i \in gone THEN settled[s][i] + 1 ELSE settled[s][i]]
    OBVIOUS
  <1>1. settled[s] \in [C!Ids -> Nat]
    BY DEF ChannelTypes
  <1>2. g \in [C!Ids -> Nat]
    BY <1>1
  <1>3. settled' = [settled EXCEPT ![s] = g]
    BY DEF C!Count
  <1> QED BY <1>2, <1>3, Ends DEF ChannelTypes

LEMMA EndFacts ==
  ASSUME ChannelInv, NEW s \in C!Sides
  PROVE  /\ side[s] \in ChannelSide /\ wire[s] \in Seq(Frame) /\ running[s] \subseteq C!Ids
         /\ side[C!Peer(s)] \in ChannelSide /\ wire[C!Peer(s)] \in Seq(Frame)
         /\ down \in BOOLEAN /\ C!Peer(s) \in C!Sides
         /\ Pair(side[s], side[C!Peer(s)], wire[s], wire[C!Peer(s)], down)
         /\ Settled(side[s], settled[s])
  <1>1. C!Peer(s) \in C!Sides
    BY Ends
  <1>2. Pair(side[s], side[C!Peer(s)], wire[s], wire[C!Peer(s)], down)
    BY InvIsPair DEF ChannelInv
  <1>3. Settled(side[s], settled[s])
    BY DEF ChannelInv, C!EachSettlesOnce, Settled
  <1> QED BY <1>1, <1>2, <1>3 DEF ChannelInv, ChannelTypes

LEMMA ChannelStep ==
  ASSUME ChannelInv, NEW s \in C!Sides, NEW to \in ChannelSide, NEW Va \in Seq(Frame), NEW Vb \in Seq(Frame),
         NEW isDown \in BOOLEAN, Moves(s, to, Va, Vb, isDown),
         Pair(to, side[C!Peer(s)], Va, Vb, isDown),
         running' \in [C!Sides -> SUBSET C!Ids],
         settled' \in [C!Sides -> [C!Ids -> Nat]], settled'[C!Peer(s)] = settled[C!Peer(s)],
         Settled(to, settled'[s]),
         excused' \in BOOLEAN, isDown => excused', overtook' = FALSE
  PROVE  ChannelInv'
  <1>1. ChannelTypes /\ C!EachSettlesOnce
    BY DEF ChannelInv
  <1>2. /\ side' \in [C!Sides -> ChannelSide] /\ wire' \in [C!Sides -> Seq(Frame)] /\ down' \in BOOLEAN
        /\ \A x \in C!Sides : OneWay(x)'
    BY <1>1, MoveKeeps
  <1>3. side' = [side EXCEPT ![s] = to] /\ down' = isDown
    BY DEF Moves
  <1>4. C!EachSettlesOnce'
    BY <1>1, <1>3, SettlesOnce
  <1> QED BY <1>2, <1>3, <1>4 DEF ChannelInv, ChannelTypes

\* The promises when nothing settles.
LEMMA NothingSettles ==
  ASSUME ChannelInv, NEW s \in C!Sides, NEW to \in ChannelSide, UNCHANGED settled,
         to.pending = side[s].pending, to.next = side[s].next
  PROVE  /\ settled' \in [C!Sides -> [C!Ids -> Nat]] /\ settled'[C!Peer(s)] = settled[C!Peer(s)]
         /\ Settled(to, settled'[s])
  BY EndFacts DEF Settled, ChannelInv, ChannelTypes

\* The promises when those of gone settle.
LEMMA SomeSettle ==
  ASSUME ChannelInv, NEW s \in C!Sides, NEW to \in ChannelSide, NEW gone, C!Count(s, gone),
         \A i \in C!Ids : i \in gone => /\ i > side[s].next \/ i \in side[s].pending
                                        /\ i <= to.next /\ i \notin to.pending,
         \A i \in C!Ids : i \notin gone => /\ i <= to.next <=> i <= side[s].next
                                           /\ i \in to.pending <=> i \in side[s].pending
  PROVE  /\ settled' \in [C!Sides -> [C!Ids -> Nat]] /\ settled'[C!Peer(s)] = settled[C!Peer(s)]
         /\ Settled(to, settled'[s])
  <1>1. /\ settled' \in [C!Sides -> [C!Ids -> Nat]] /\ settled'[C!Peer(s)] = settled[C!Peer(s)]
        /\ \A i \in C!Ids : settled'[s][i] = IF i \in gone THEN settled[s][i] + 1 ELSE settled[s][i]
    BY CountFacts DEF ChannelInv
  <1>2. \A i \in C!Ids : settled[s][i] = IF i <= side[s].next /\ i \notin side[s].pending THEN 1 ELSE 0
    BY EndFacts DEF Settled
  <1>3. C!Ids \subseteq Nat /\ side[s].next \in Nat
    BY SideFacts, EndFacts
  <1>4. ASSUME NEW i \in C!Ids
        PROVE  settled'[s][i] = IF i <= to.next /\ i \notin to.pending THEN 1 ELSE 0
    <2>1. settled[s][i] = IF i <= side[s].next /\ i \notin side[s].pending THEN 1 ELSE 0
      BY <1>2
    <2>2. settled'[s][i] = IF i \in gone THEN settled[s][i] + 1 ELSE settled[s][i]
      BY <1>1
    <2>3. i \in Nat
      BY <1>3
    <2>4. CASE i \in gone
      <3>1. (i > side[s].next \/ i \in side[s].pending) /\ i <= to.next /\ i \notin to.pending
        BY <2>4
      <3>2. settled[s][i] = 0
        BY <1>3, <2>1, <2>3, <3>1
      <3> QED BY <2>2, <2>4, <3>1, <3>2
    <2>5. CASE i \notin gone
      <3>1. (i <= to.next <=> i <= side[s].next) /\ (i \in to.pending <=> i \in side[s].pending)
        BY <2>5
      <3> QED BY <2>1, <2>2, <2>5, <3>1
    <2> QED BY <2>4, <2>5
  <1> QED BY <1>1, <1>4 DEF Settled

LEMMA WireSends ==
  ASSUME ChannelInv, NEW s \in C!Sides, NEW f \in Frame, C!Sends(s, f)
  PROVE  /\ wire' \in [C!Sides -> Seq(Frame)] /\ wire'[s] = Append(wire[s], f)
         /\ wire'[C!Peer(s)] = wire[C!Peer(s)]
         /\ Append(wire[s], f) \in Seq(Frame)
  <1>1. wire[s] \in Seq(Frame)
    BY EndFacts
  <1>2. Append(wire[s], f) \in Seq(Frame)
    BY <1>1, AppendFacts
  <1> QED BY <1>2, Ends DEF C!Sends, ChannelInv, ChannelTypes

LEMMA RequestStep ==
  ASSUME ChannelInv, NEW s \in C!Sides, C!Request(s)
  PROVE  ChannelInv'
  <1> PICK a, b, to, f : /\ a = side[s] /\ b = side[C!Peer(s)]
                         /\ to = Asks(side[s]) /\ f = Request(side[s].next + 1)
    OBVIOUS
  <1>1. /\ a.open /\ a.next < MaxRequests /\ side' = [side EXCEPT ![s] = to] /\ C!Sends(s, f)
        /\ UNCHANGED <<running, settled, down, excused, overtook>>
    BY DEF C!Request, Asks, Request
  <1>2. /\ a \in ChannelSide /\ b \in ChannelSide /\ wire[s] \in Seq(Frame) /\ wire[C!Peer(s)] \in Seq(Frame)
        /\ Pair(a, b, wire[s], wire[C!Peer(s)], down) /\ down \in BOOLEAN
    BY EndFacts
  <1>3. to \in ChannelSide /\ f \in Frame /\ Pair(to, b, Append(wire[s], f), wire[C!Peer(s)], down)
    BY <1>1, <1>2, RequestKeeps
  <1>4. Moves(s, to, Append(wire[s], f), wire[C!Peer(s)], down) /\ Append(wire[s], f) \in Seq(Frame)
    BY <1>1, <1>3, WireSends DEF Moves
  <1>5. /\ settled' \in [C!Sides -> [C!Ids -> Nat]] /\ settled'[C!Peer(s)] = settled[C!Peer(s)]
        /\ Settled(to, settled'[s])
    <2>1. Settled(a, settled[s])
      BY EndFacts
    <2>2. /\ to.next = a.next + 1 /\ to.pending = a.pending \cup {a.next + 1} /\ a.next \in Nat
          /\ a.pending \subseteq 1..a.next
      BY <1>2, SideFacts DEF ChannelSide, Pair, SideHolds, Asks
    <2>3. C!Ids \subseteq Nat
      BY DEF C!Ids
    <2>4. Settled(to, settled[s])
      BY <1>1, <2>1, <2>2, <2>3 DEF Settled
    <2> QED BY <1>1, <2>4 DEF ChannelInv, ChannelTypes
  <1>6. /\ running' \in [C!Sides -> SUBSET C!Ids] /\ excused' \in BOOLEAN /\ (down => excused')
        /\ overtook' = FALSE
    BY <1>1 DEF ChannelInv, ChannelTypes
  <1> QED BY <1>2, <1>3, <1>4, <1>5, <1>6, ChannelStep

LEMMA RequestTooLargeStep ==
  ASSUME ChannelInv, NEW s \in C!Sides, C!RequestTooLarge(s)
  PROVE  ChannelInv'
  <1> PICK a, b : a = side[s] /\ b = side[C!Peer(s)]
    OBVIOUS
  <1> PICK to : to = [a EXCEPT !.next = @ + 1]
    OBVIOUS
  <1>1. /\ a.next < MaxRequests /\ side' = [side EXCEPT ![s] = to] /\ C!Count(s, {a.next + 1})
        /\ UNCHANGED <<wire, running, down, excused, overtook>>
    BY DEF C!RequestTooLarge
  <1>2. /\ a \in ChannelSide /\ b \in ChannelSide /\ wire[s] \in Seq(Frame) /\ wire[C!Peer(s)] \in Seq(Frame)
        /\ Pair(a, b, wire[s], wire[C!Peer(s)], down) /\ down \in BOOLEAN
    BY EndFacts
  <1>3. to \in ChannelSide /\ Pair(to, b, wire[s], wire[C!Peer(s)], down)
    BY <1>1, <1>2, RequestTooLargeKeeps
  <1>4. Moves(s, to, wire[s], wire[C!Peer(s)], down)
    BY <1>1 DEF Moves, ChannelInv, ChannelTypes
  <1>5. /\ settled' \in [C!Sides -> [C!Ids -> Nat]] /\ settled'[C!Peer(s)] = settled[C!Peer(s)]
        /\ Settled(to, settled'[s])
    <2>1. to.next = a.next + 1 /\ to.pending = a.pending /\ a.next \in Nat /\ a.pending \subseteq 1..a.next
      BY <1>2, SideFacts DEF ChannelSide, Pair, SideHolds
    <2>2. C!Ids \subseteq Nat
      BY DEF C!Ids
    <2>3. \A i \in C!Ids : i \in {a.next + 1} => /\ i > side[s].next \/ i \in side[s].pending
                                                 /\ i <= to.next /\ i \notin to.pending
      BY <2>1, <2>2
    <2>4. \A i \in C!Ids : i \notin {a.next + 1} => /\ i <= to.next <=> i <= side[s].next
                                                    /\ i \in to.pending <=> i \in side[s].pending
      BY <2>1, <2>2
    <2> QED BY <1>1, <1>3, <2>3, <2>4, SomeSettle
  <1>6. /\ running' \in [C!Sides -> SUBSET C!Ids] /\ excused' \in BOOLEAN /\ (down => excused')
        /\ overtook' = FALSE
    BY <1>1 DEF ChannelInv, ChannelTypes
  <1> QED BY <1>2, <1>3, <1>4, <1>5, <1>6, ChannelStep

LEMMA AbortStep ==
  ASSUME ChannelInv, NEW s \in C!Sides, NEW i \in C!Ids, C!Abort(s, i)
  PROVE  ChannelInv'
  <1> PICK a, b, to, f : /\ a = side[s] /\ b = side[C!Peer(s)]
                         /\ to = C!Settles(side[s], i) /\ f = Cancel(i)
    OBVIOUS
  <1>1. /\ i \in a.pending /\ side' = [side EXCEPT ![s] = to] /\ C!Sends(s, f) /\ C!Count(s, {i})
        /\ UNCHANGED <<running, down, excused, overtook>>
    BY DEF C!Abort, Cancel
  <1>2. /\ a \in ChannelSide /\ b \in ChannelSide /\ wire[s] \in Seq(Frame) /\ wire[C!Peer(s)] \in Seq(Frame)
        /\ Pair(a, b, wire[s], wire[C!Peer(s)], down) /\ down \in BOOLEAN
    BY EndFacts
  <1>3. to \in ChannelSide /\ f \in Frame /\ Pair(to, b, Append(wire[s], f), wire[C!Peer(s)], down)
    BY <1>1, <1>2, AbortKeeps
  <1>4. Moves(s, to, Append(wire[s], f), wire[C!Peer(s)], down) /\ Append(wire[s], f) \in Seq(Frame)
    BY <1>1, <1>3, WireSends DEF Moves
  <1>5. /\ settled' \in [C!Sides -> [C!Ids -> Nat]] /\ settled'[C!Peer(s)] = settled[C!Peer(s)]
        /\ Settled(to, settled'[s])
    <2>1. i \in Nat /\ C!Ids \subseteq Nat
      BY DEF C!Ids
    <2>2. to.next = a.next /\ to.pending = a.pending \ {i} /\ a.next \in Nat /\ a.pending \subseteq 1..a.next
      BY <1>2, <2>1, SettlesFacts, SideFacts DEF Pair, SideHolds
    <2>3. /\ \A j \in C!Ids : j \in {i} => /\ j > side[s].next \/ j \in side[s].pending
                                           /\ j <= to.next /\ j \notin to.pending
          /\ \A j \in C!Ids : j \notin {i} => /\ j <= to.next <=> j <= side[s].next
                                              /\ j \in to.pending <=> j \in side[s].pending
      BY <1>1, <2>1, <2>2
    <2> QED BY <1>1, <1>3, <2>3, SomeSettle
  <1>6. /\ running' \in [C!Sides -> SUBSET C!Ids] /\ excused' \in BOOLEAN /\ (down => excused')
        /\ overtook' = FALSE
    BY <1>1 DEF ChannelInv, ChannelTypes
  <1> QED BY <1>2, <1>3, <1>4, <1>5, <1>6, ChannelStep

LEMMA SendEventStep ==
  ASSUME ChannelInv, NEW s \in C!Sides, C!SendEvent(s)
  PROVE  ChannelInv'
  <1> PICK a, b, to, f : /\ a = side[s] /\ b = side[C!Peer(s)]
                         /\ to = Reports(side[s]) /\ f = Event(side[s].nextEvent + 1)
    OBVIOUS
  <1>1. /\ a.open /\ side' = [side EXCEPT ![s] = to] /\ C!Sends(s, f)
        /\ UNCHANGED <<running, settled, down, excused, overtook>>
    BY DEF C!SendEvent, Reports, Event
  <1>2. /\ a \in ChannelSide /\ b \in ChannelSide /\ wire[s] \in Seq(Frame) /\ wire[C!Peer(s)] \in Seq(Frame)
        /\ Pair(a, b, wire[s], wire[C!Peer(s)], down) /\ down \in BOOLEAN
    BY EndFacts
  <1>3. to \in ChannelSide /\ f \in Frame /\ Pair(to, b, Append(wire[s], f), wire[C!Peer(s)], down)
    BY <1>1, <1>2, SendEventKeeps
  <1>4. Moves(s, to, Append(wire[s], f), wire[C!Peer(s)], down) /\ Append(wire[s], f) \in Seq(Frame)
    BY <1>1, <1>3, WireSends DEF Moves
  <1>5. to.pending = a.pending /\ to.next = a.next
    BY <1>2 DEF Reports, ChannelSide
  <1>6. /\ settled' \in [C!Sides -> [C!Ids -> Nat]] /\ settled'[C!Peer(s)] = settled[C!Peer(s)]
        /\ Settled(to, settled'[s])
    BY <1>1, <1>3, <1>5, NothingSettles
  <1>7. /\ running' \in [C!Sides -> SUBSET C!Ids] /\ excused' \in BOOLEAN /\ (down => excused')
        /\ overtook' = FALSE
    BY <1>1 DEF ChannelInv, ChannelTypes
  <1> QED BY <1>2, <1>3, <1>4, <1>6, <1>7, ChannelStep

LEMMA CompleteStep ==
  ASSUME ChannelInv, NEW s \in C!Sides, NEW i \in C!Ids, C!Complete(s, i)
  PROVE  ChannelInv'
  <1> PICK a, b, to, f : /\ a = side[s] /\ b = side[C!Peer(s)]
                         /\ to = C!Terminates(side[s], i) /\ f = Response(side[s], i)
    OBVIOUS
  <1>1. /\ running' = [running EXCEPT ![s] = @ \ {i}]
        /\ UNCHANGED <<settled, down, excused, overtook>>
    BY DEF C!Complete
  <1>2. /\ a \in ChannelSide /\ b \in ChannelSide /\ wire[s] \in Seq(Frame) /\ wire[C!Peer(s)] \in Seq(Frame)
        /\ Pair(a, b, wire[s], wire[C!Peer(s)], down) /\ down \in BOOLEAN
    BY EndFacts
  <1>3. /\ running' \in [C!Sides -> SUBSET C!Ids] /\ excused' \in BOOLEAN /\ (down => excused')
        /\ overtook' = FALSE
    BY <1>1 DEF ChannelInv, ChannelTypes
  <1>4. CASE i \in a.incoming
    <2>1. side' = [side EXCEPT ![s] = to] /\ C!Sends(s, f)
      BY <1>4 DEF C!Complete, Response
    <2>2. to \in ChannelSide /\ f \in Frame /\ Pair(to, b, Append(wire[s], f), wire[C!Peer(s)], down)
      BY <1>2, <1>4, CompleteKeeps
    <2>3. Moves(s, to, Append(wire[s], f), wire[C!Peer(s)], down) /\ Append(wire[s], f) \in Seq(Frame)
      BY <1>1, <2>1, <2>2, WireSends DEF Moves
    <2>4. to.pending = a.pending /\ to.next = a.next
      <3>1. i \in Nat
        BY DEF C!Ids
      <3> QED BY <1>2, <3>1, TerminatesFacts
    <2>5. /\ settled' \in [C!Sides -> [C!Ids -> Nat]] /\ settled'[C!Peer(s)] = settled[C!Peer(s)]
          /\ Settled(to, settled'[s])
      BY <1>1, <2>2, <2>4, NothingSettles
    <2> QED BY <1>2, <1>3, <2>2, <2>3, <2>5, ChannelStep
  <1>5. CASE i \notin a.incoming
    <2>1. UNCHANGED <<side, wire>>
      BY <1>5 DEF C!Complete
    <2> QED BY <1>1, <1>3, <2>1 DEF ChannelInv, ChannelTypes, C!EachSettlesOnce, OneWay
  <1> QED BY <1>4, <1>5

\* A side closes, over an incident.
LEMMA ClosedStep ==
  ASSUME ChannelInv, NEW s \in C!Sides, C!Closed(s), down' = TRUE, excused' = TRUE,
         UNCHANGED <<wire, running, overtook>>
  PROVE  ChannelInv'
  <1> PICK a, b : a = side[s] /\ b = side[C!Peer(s)]
    OBVIOUS
  <1> PICK to : to = Ended(a)
    OBVIOUS
  <1>1. side' = [side EXCEPT ![s] = to] /\ C!Count(s, a.pending)
    BY DEF Ended, C!Closed, ChannelInv, ChannelTypes
  <1>2. /\ a \in ChannelSide /\ b \in ChannelSide /\ wire[s] \in Seq(Frame) /\ wire[C!Peer(s)] \in Seq(Frame)
        /\ Pair(a, b, wire[s], wire[C!Peer(s)], down) /\ down \in BOOLEAN
    BY EndFacts
  <1>3. to \in ChannelSide /\ Pair(to, b, wire[s], wire[C!Peer(s)], TRUE)
    <2>1. Ended(a) \in ChannelSide /\ Pair(Ended(a), b, wire[s], wire[C!Peer(s)], TRUE)
      BY ONLY <1>2, CloseKeeps, Zenon
    <2> QED BY <2>1
  <1>4. Moves(s, to, wire[s], wire[C!Peer(s)], TRUE)
    BY <1>1 DEF Moves, ChannelInv, ChannelTypes
  <1>5. /\ settled' \in [C!Sides -> [C!Ids -> Nat]] /\ settled'[C!Peer(s)] = settled[C!Peer(s)]
        /\ Settled(to, settled'[s])
    <2>1. to.next = a.next /\ to.pending = {} /\ a.next \in Nat /\ a.pending \subseteq 1..a.next
      BY <1>2, SideFacts DEF ChannelSide, Pair, SideHolds, Ended
    <2>2. C!Ids \subseteq Nat
      BY DEF C!Ids
    <2>3. /\ \A j \in C!Ids : j \in a.pending => /\ j > side[s].next \/ j \in side[s].pending
                                                 /\ j <= to.next /\ j \notin to.pending
          /\ \A j \in C!Ids : j \notin a.pending => /\ j <= to.next <=> j <= side[s].next
                                                    /\ j \in to.pending <=> j \in side[s].pending
      BY <2>1, <2>2
    <2> QED BY <1>1, <1>3, <2>3, SomeSettle
  <1>6. running' \in [C!Sides -> SUBSET C!Ids] /\ excused' \in BOOLEAN /\ excused' /\ overtook' = FALSE
    BY DEF ChannelInv, ChannelTypes
  <1> QED BY <1>2, <1>3, <1>4, <1>5, <1>6, ChannelStep

LEMMA EventHandledStep ==
  ASSUME ChannelInv, NEW s \in C!Sides, C!EventHandled(s)
  PROVE  ChannelInv'
  <1> PICK a, b : a = side[s] /\ b = side[C!Peer(s)]
    OBVIOUS
  <1> PICK to : to = [a EXCEPT !.handling = FALSE]
    OBVIOUS
  <1>1. side' = [side EXCEPT ![s] = to] /\ UNCHANGED <<wire, running, settled, down, excused, overtook>>
    BY DEF C!EventHandled, ChannelInv, ChannelTypes
  <1>2. /\ a \in ChannelSide /\ b \in ChannelSide /\ wire[s] \in Seq(Frame) /\ wire[C!Peer(s)] \in Seq(Frame)
        /\ Pair(a, b, wire[s], wire[C!Peer(s)], down) /\ down \in BOOLEAN
    BY EndFacts
  <1>3. to \in ChannelSide /\ Pair(to, b, wire[s], wire[C!Peer(s)], down)
    BY <1>2, EventHandledKeeps
  <1>4. Moves(s, to, wire[s], wire[C!Peer(s)], down)
    BY <1>1 DEF Moves, ChannelInv, ChannelTypes
  <1>5. to.pending = a.pending /\ to.next = a.next
    BY <1>2 DEF ChannelSide
  <1>6. /\ settled' \in [C!Sides -> [C!Ids -> Nat]] /\ settled'[C!Peer(s)] = settled[C!Peer(s)]
        /\ Settled(to, settled'[s])
    BY <1>1, <1>3, <1>5, NothingSettles
  <1>7. /\ running' \in [C!Sides -> SUBSET C!Ids] /\ excused' \in BOOLEAN /\ (down => excused')
        /\ overtook' = FALSE
    BY <1>1 DEF ChannelInv, ChannelTypes
  <1> QED BY <1>2, <1>3, <1>4, <1>6, <1>7, ChannelStep

LEMMA TransportStep ==
  ASSUME ChannelInv, C!TransportFails
  PROVE  ChannelInv'
  <1>1. down' = TRUE /\ excused' = TRUE /\ UNCHANGED <<side, wire, running, settled, overtook>>
    BY DEF C!TransportFails
  <1>2. \A s \in C!Sides : SideHolds(side[s], down) => SideHolds(side[s], TRUE)
    BY DEF SideHolds
  <1>3. \A s \in C!Sides : OneWay(s)'
    BY <1>1, <1>2 DEF ChannelInv, OneWay
  <1>4. ChannelTypes' /\ C!EachSettlesOnce'
    BY <1>1 DEF ChannelInv, ChannelTypes, C!EachSettlesOnce
  <1> QED BY <1>3, <1>4 DEF ChannelInv

\* The reader of s takes the first frame of its peer: what every such step has in common.
LEMMA Takes ==
  ASSUME ChannelInv, NEW s \in C!Sides, C!MayRead(s),
         wire' = [wire EXCEPT ![C!Peer(s)] = Tail(@)]
  PROVE  /\ wire' \in [C!Sides -> Seq(Frame)] /\ wire'[s] = wire[s]
         /\ wire'[C!Peer(s)] = Tail(wire[C!Peer(s)]) /\ Tail(wire[C!Peer(s)]) \in Seq(Frame)
  <1>1. wire[C!Peer(s)] \in Seq(Frame) /\ wire[C!Peer(s)] # <<>>
    BY EndFacts DEF C!MayRead
  <1>2. Tail(wire[C!Peer(s)]) \in Seq(Frame)
    BY <1>1, TailFacts
  <1> QED BY <1>2, Ends DEF ChannelInv, ChannelTypes

LEMMA RequestReceived ==
  ASSUME ChannelInv, NEW s \in C!Sides, C!MayRead(s), Head(wire[C!Peer(s)]).type = "request",
         C!HandleRequest(s, Head(wire[C!Peer(s)]).id), UNCHANGED <<excused, overtook>>
  PROVE  ChannelInv'
  <1> PICK a, b, V, h, i : /\ a = side[s] /\ b = side[C!Peer(s)] /\ V = wire[C!Peer(s)]
                           /\ h = Head(wire[C!Peer(s)]) /\ i = Head(wire[C!Peer(s)]).id
    OBVIOUS
  <1>1. /\ a \in ChannelSide /\ b \in ChannelSide /\ wire[s] \in Seq(Frame) /\ V \in Seq(Frame)
        /\ Pair(a, b, wire[s], V, down) /\ down \in BOOLEAN /\ running[s] \subseteq C!Ids
    BY EndFacts
  <1>2. a.open /\ V # <<>>
    BY DEF C!MayRead
  <1> PICK in : in = Starts(a, i)
    OBVIOUS
  <1>3. in \in ChannelSide /\ ~C!Known(a, i) /\ Pair(in, b, wire[s], Tail(V), down) /\ i \in C!Ids
    BY <1>1, <1>2, StartsKeeps
  <1>4. in.pending = a.pending /\ in.next = a.next
    BY <1>1 DEF ChannelSide, Starts
  <1>5. Tail(V) \in Seq(Frame)
    BY <1>1, <1>2, TailFacts
  <1>6. excused' \in BOOLEAN /\ (down => excused') /\ overtook' = FALSE
    BY DEF ChannelInv, ChannelTypes
  <1>7. CASE /\ side' = [side EXCEPT ![s].incoming = @ \cup {i}]
             /\ running' = [running EXCEPT ![s] = @ \cup {i}]
             /\ wire' = [wire EXCEPT ![C!Peer(s)] = Tail(@)]
             /\ UNCHANGED <<settled, down>>
    <2>1. side' = [side EXCEPT ![s] = in]
      BY <1>7 DEF Starts, ChannelInv, ChannelTypes
    <2>2. Moves(s, in, wire[s], Tail(V), down)
      BY <1>7, <2>1, Takes DEF Moves
    <2>3. running' \in [C!Sides -> SUBSET C!Ids]
      BY <1>3, <1>7 DEF ChannelInv, ChannelTypes
    <2>4. /\ settled' \in [C!Sides -> [C!Ids -> Nat]] /\ settled'[C!Peer(s)] = settled[C!Peer(s)]
          /\ Settled(in, settled'[s])
      BY <1>3, <1>4, <1>7, NothingSettles
    <2> QED BY <1>1, <1>3, <1>5, <1>6, <2>2, <2>3, <2>4, ChannelStep
  <1>8. CASE /\ side' = [side EXCEPT ![s] = C!Terminates(@, i)]
             /\ wire' = [wire EXCEPT ![C!Peer(s)] = Tail(@),
                  ![s] = Append(@, [type |-> "response", id |-> i, after |-> side[s].nextEvent])]
             /\ UNCHANGED <<running, settled, down>>
    <2> PICK to, f : to = C!Terminates(a, i) /\ f = Response(a, i)
      OBVIOUS
    <2>1. side' = [side EXCEPT ![s] = to]
      BY <1>8 DEF ChannelInv, ChannelTypes
    <2>2. to \in ChannelSide /\ f \in Frame /\ Pair(to, b, Append(wire[s], f), Tail(V), down)
      BY <1>1, <1>2, RefusesKeeps
    <2>3. Append(wire[s], f) \in Seq(Frame)
      BY <1>1, <2>2, AppendFacts
    <2>4. wire' = [wire EXCEPT ![C!Peer(s)] = Tail(V), ![s] = Append(wire[s], f)]
      BY <1>8, Ends DEF Response, ChannelInv, ChannelTypes
    <2>5. Moves(s, to, Append(wire[s], f), Tail(V), down)
      <3>1. PICK Va, Vb : Va = Append(wire[s], f) /\ Vb = Tail(V)
        OBVIOUS
      <3>2. wire' = [wire EXCEPT ![C!Peer(s)] = Vb, ![s] = Va] /\ Va \in Seq(Frame) /\ Vb \in Seq(Frame)
        BY <1>5, <2>3, <2>4, <3>1
      <3>3. wire' \in [C!Sides -> Seq(Frame)] /\ wire'[s] = Va /\ wire'[C!Peer(s)] = Vb
        BY <3>2, Ends DEF ChannelInv, ChannelTypes
      <3> QED BY <1>8, <2>1, <3>1, <3>3 DEF Moves
    <2>6. to.pending = a.pending /\ to.next = a.next
      <3>1. i \in Nat
        BY <1>3 DEF C!Ids
      <3>2. C!Terminates(a, i).pending = a.pending /\ C!Terminates(a, i).next = a.next
        BY <1>1, <3>1, TerminatesFacts, Zenon
      <3> QED BY <3>2
    <2>7. /\ settled' \in [C!Sides -> [C!Ids -> Nat]] /\ settled'[C!Peer(s)] = settled[C!Peer(s)]
          /\ Settled(to, settled'[s])
      BY <1>8, <2>2, <2>6, NothingSettles
    <2>8. running' \in [C!Sides -> SUBSET C!Ids]
      BY <1>8 DEF ChannelInv, ChannelTypes
    <2> QED BY <1>1, <1>5, <1>6, <2>2, <2>3, <2>5, <2>7, <2>8, ChannelStep
  <1> QED BY <1>3, <1>7, <1>8 DEF C!HandleRequest

LEMMA ResponseReceived ==
  ASSUME ChannelInv, NEW s \in C!Sides, C!MayRead(s), Head(wire[C!Peer(s)]).type = "response",
         C!HandleResponse(s, Head(wire[C!Peer(s)]).id), UNCHANGED excused,
         overtook' = (overtook \/ (side[s].handling
                                   \/ side[s].expected <= Head(wire[C!Peer(s)]).after))
  PROVE  ChannelInv'
  <1> PICK a, b, V, i : /\ a = side[s] /\ b = side[C!Peer(s)] /\ V = wire[C!Peer(s)]
                        /\ i = Head(wire[C!Peer(s)]).id
    OBVIOUS
  <1>1. /\ a \in ChannelSide /\ b \in ChannelSide /\ wire[s] \in Seq(Frame) /\ V \in Seq(Frame)
        /\ Pair(a, b, wire[s], V, down) /\ down \in BOOLEAN
    BY EndFacts
  <1>2. a.open /\ V # <<>> /\ ~a.handling
    BY DEF C!MayRead
  <1> PICK to : to = Answered(a, i)
    OBVIOUS
  <1>3. /\ to \in ChannelSide /\ Pair(to, b, wire[s], Tail(V), down) /\ i \in Nat
        /\ i \in a.pending \/ i <= a.outHigh
        /\ ~(a.expected <= Head(V).after)
    BY <1>1, <1>2, ResponseKeeps
  <1>4. Tail(V) \in Seq(Frame)
    BY <1>1, <1>2, TailFacts
  <1>5. /\ excused' \in BOOLEAN /\ (down => excused') /\ overtook' = FALSE
        /\ running' \in [C!Sides -> SUBSET C!Ids]
    BY <1>2, <1>3 DEF ChannelInv, ChannelTypes, C!HandleResponse
  <1>6. wire' = [wire EXCEPT ![C!Peer(s)] = Tail(@)]
    BY DEF C!HandleResponse
  <1>7. side' = [side EXCEPT ![s] = to] /\ UNCHANGED down
    BY <1>3 DEF C!HandleResponse, Answered, ChannelInv, ChannelTypes
  <1>8. Moves(s, to, wire[s], Tail(V), down)
    BY <1>6, <1>7, Takes DEF Moves
  <1>9. /\ settled' \in [C!Sides -> [C!Ids -> Nat]] /\ settled'[C!Peer(s)] = settled[C!Peer(s)]
        /\ Settled(to, settled'[s])
    <2>1. CASE i \in a.pending
      <3>1. C!Count(s, {i})
        BY <2>1 DEF C!HandleResponse
      <3>2. to.next = a.next /\ to.pending = a.pending \ {i} /\ a.next \in Nat /\ a.pending \subseteq 1..a.next
        <4>1. a.next \in Nat /\ a.pending \subseteq 1..a.next
          BY <1>1, SideFacts DEF Pair, SideHolds
        <4>2. to = C!Settles(a, i)
          BY <2>1 DEF Answered
        <4>3. C!Settles(a, i).pending = a.pending \ {i} /\ C!Settles(a, i).next = a.next
          BY <1>1, <1>3, SettlesFacts, Zenon
        <4> QED BY <4>1, <4>2, <4>3
      <3>3. C!Ids \subseteq Nat
        BY DEF C!Ids
      <3>4. /\ \A j \in C!Ids : j \in {i} => /\ j > side[s].next \/ j \in side[s].pending
                                             /\ j <= to.next /\ j \notin to.pending
            /\ \A j \in C!Ids : j \notin {i} => /\ j <= to.next <=> j <= side[s].next
                                                /\ j \in to.pending <=> j \in side[s].pending
        BY <2>1, <3>2, <3>3
      <3> QED BY <1>3, <3>1, <3>4, SomeSettle
    <2>2. CASE i \notin a.pending
      <3>1. UNCHANGED settled
        BY <1>3, <2>2 DEF C!HandleResponse
      <3>2. to = a
        BY <2>2 DEF Answered
      <3> QED BY <1>3, <3>1, <3>2, NothingSettles
    <2> QED BY <2>1, <2>2
  <1> QED BY <1>1, <1>3, <1>4, <1>5, <1>8, <1>9, ChannelStep

LEMMA CancelReceived ==
  ASSUME ChannelInv, NEW s \in C!Sides, C!MayRead(s), Head(wire[C!Peer(s)]).type = "cancel",
         C!HandleCancel(s, Head(wire[C!Peer(s)]).id), UNCHANGED <<excused, overtook>>
  PROVE  ChannelInv'
  <1> PICK a, b, V, i : /\ a = side[s] /\ b = side[C!Peer(s)] /\ V = wire[C!Peer(s)]
                        /\ i = Head(wire[C!Peer(s)]).id
    OBVIOUS
  <1>1. /\ a \in ChannelSide /\ b \in ChannelSide /\ wire[s] \in Seq(Frame) /\ V \in Seq(Frame)
        /\ Pair(a, b, wire[s], V, down) /\ down \in BOOLEAN
    BY EndFacts
  <1>2. a.open /\ V # <<>>
    BY DEF C!MayRead
  <1> PICK to : to = Cancelled(a, i)
    OBVIOUS
  <1>3. /\ to \in ChannelSide /\ Pair(to, b, wire[s], Tail(V), down) /\ i \in Nat
        /\ i \in a.incoming \/ i <= a.inHigh
    BY <1>1, <1>2, CancelKeeps
  <1>4. Tail(V) \in Seq(Frame)
    BY <1>1, <1>2, TailFacts
  <1>5. /\ excused' \in BOOLEAN /\ (down => excused') /\ overtook' = FALSE
        /\ running' \in [C!Sides -> SUBSET C!Ids]
    BY DEF ChannelInv, ChannelTypes, C!HandleCancel
  <1>6. wire' = [wire EXCEPT ![C!Peer(s)] = Tail(@)]
    BY DEF C!HandleCancel
  <1>7. side' = [side EXCEPT ![s] = to] /\ UNCHANGED <<down, settled>>
    BY <1>3 DEF C!HandleCancel, Cancelled, ChannelInv, ChannelTypes
  <1>8. Moves(s, to, wire[s], Tail(V), down)
    BY <1>6, <1>7, Takes DEF Moves
  <1>9. to.next = a.next /\ to.pending = a.pending
    BY ZenonT(60), <1>1, <1>3, TerminatesFacts DEF Cancelled
  <1>10. /\ settled' \in [C!Sides -> [C!Ids -> Nat]] /\ settled'[C!Peer(s)] = settled[C!Peer(s)]
         /\ Settled(to, settled'[s])
    BY <1>3, <1>7, <1>9, NothingSettles
  <1> QED BY <1>1, <1>3, <1>4, <1>5, <1>8, <1>10, ChannelStep

LEMMA EventReceived ==
  ASSUME ChannelInv, NEW s \in C!Sides, C!MayRead(s), Head(wire[C!Peer(s)]).type = "event",
         C!HandleEvent(s, Head(wire[C!Peer(s)]).id), UNCHANGED <<excused, overtook>>
  PROVE  ChannelInv'
  <1> PICK a, b, V : a = side[s] /\ b = side[C!Peer(s)] /\ V = wire[C!Peer(s)]
    OBVIOUS
  <1>1. /\ a \in ChannelSide /\ b \in ChannelSide /\ wire[s] \in Seq(Frame) /\ V \in Seq(Frame)
        /\ Pair(a, b, wire[s], V, down) /\ down \in BOOLEAN
    BY EndFacts
  <1>2. a.open /\ V # <<>>
    BY DEF C!MayRead
  <1> PICK to : to = Handles(a)
    OBVIOUS
  <1>3. to \in ChannelSide /\ Pair(to, b, wire[s], Tail(V), down) /\ Head(V).id = a.expected
    BY <1>1, <1>2, EventKeeps
  <1>4. Tail(V) \in Seq(Frame)
    BY <1>1, <1>2, TailFacts
  <1>5. /\ excused' \in BOOLEAN /\ (down => excused') /\ overtook' = FALSE
        /\ running' \in [C!Sides -> SUBSET C!Ids]
    BY DEF ChannelInv, ChannelTypes, C!HandleEvent
  <1>6. wire' = [wire EXCEPT ![C!Peer(s)] = Tail(@)]
    BY DEF C!HandleEvent
  <1>7. side' = [side EXCEPT ![s] = to] /\ UNCHANGED <<down, settled>>
    BY <1>3 DEF C!HandleEvent, Handles, ChannelInv, ChannelTypes
  <1>8. Moves(s, to, wire[s], Tail(V), down)
    BY <1>6, <1>7, Takes DEF Moves
  <1>9. to.next = a.next /\ to.pending = a.pending
    BY <1>1 DEF ChannelSide, Handles
  <1>10. /\ settled' \in [C!Sides -> [C!Ids -> Nat]] /\ settled'[C!Peer(s)] = settled[C!Peer(s)]
         /\ Settled(to, settled'[s])
    BY <1>3, <1>7, <1>9, NothingSettles
  <1> QED BY <1>1, <1>3, <1>4, <1>5, <1>8, <1>10, ChannelStep

LEMMA ReceiveStep ==
  ASSUME ChannelInv, NEW s \in C!Sides, C!Receive(s)
  PROVE  ChannelInv'
  <1> PICK frame : frame = Head(wire[C!Peer(s)])
    OBVIOUS
  <1>1. /\ C!MayRead(s) /\ UNCHANGED excused
        /\ overtook' = (overtook \/ (frame.type = "response"
                          /\ (side[s].handling \/ side[s].expected <= frame.after)))
    BY DEF C!Receive
  <1>2. overtook = FALSE
    BY DEF ChannelInv, ChannelTypes
  <1>3. CASE frame.type = "request" /\ C!HandleRequest(s, frame.id)
    BY <1>1, <1>2, <1>3, RequestReceived
  <1>4. CASE frame.type = "response" /\ C!HandleResponse(s, frame.id)
    BY <1>1, <1>2, <1>4, ResponseReceived
  <1>5. CASE frame.type = "cancel" /\ C!HandleCancel(s, frame.id)
    BY <1>1, <1>2, <1>5, CancelReceived
  <1>6. CASE frame.type = "event" /\ C!HandleEvent(s, frame.id)
    BY <1>1, <1>2, <1>6, EventReceived
  <1> QED BY <1>3, <1>4, <1>5, <1>6 DEF C!Receive

LEMMA ChannelInitHolds == C!Init => ChannelInv
<1> SUFFICES ASSUME C!Init PROVE ChannelInv
  OBVIOUS
<1> PICK x : x = [open |-> TRUE, next |-> 0, pending |-> {}, outHigh |-> 0, incoming |-> {}, inHigh |-> 0,
                  nextEvent |-> 0, expected |-> 1, handling |-> FALSE]
  OBVIOUS
<1>1. /\ x \in ChannelSide /\ x.open = TRUE /\ x.next = 0 /\ x.pending = {} /\ x.outHigh = 0 /\ x.incoming = {}
      /\ x.inHigh = 0 /\ x.nextEvent = 0 /\ x.expected = 1
  BY ChannelAssumption DEF ChannelSide
<1>2. side = [s \in C!Sides |-> x] /\ wire = [s \in C!Sides |-> <<>>] /\ running = [s \in C!Sides |-> {}]
  BY DEF C!Init
<1>3. /\ settled = [s \in C!Sides |-> [i \in C!Ids |-> 0]] /\ down = FALSE /\ excused = FALSE /\ overtook = FALSE
  BY DEF C!Init
<1>4. ChannelTypes
  <2>1. side \in [C!Sides -> ChannelSide] /\ running \in [C!Sides -> SUBSET C!Ids]
    BY <1>1, <1>2
  <2>2. wire \in [C!Sides -> Seq(Frame)]
    <3>1. <<>> \in Seq(Frame)
      OBVIOUS
    <3> QED BY <1>2, <3>1
  <2>3. settled \in [C!Sides -> [C!Ids -> Nat]]
    <3>1. [i \in C!Ids |-> 0] \in [C!Ids -> Nat]
      OBVIOUS
    <3> QED BY <1>3, <3>1
  <2> QED BY <1>3, <2>1, <2>2, <2>3 DEF ChannelTypes
<1>5. C!EachSettlesOnce
  <2>1. C!Ids \subseteq Nat /\ \A i \in C!Ids : i > 0
    BY ChannelAssumption DEF C!Ids
  <2> QED BY <1>1, <1>2, <1>3, <2>1 DEF C!EachSettlesOnce
<1>6. ASSUME NEW s \in C!Sides PROVE OneWay(s)
  <2>1. side[s] = x /\ side[C!Peer(s)] = x /\ wire[s] = <<>> /\ wire[C!Peer(s)] = <<>>
    BY <1>2, <1>6, Ends
  <2>2. Flow(<<>>, x, x)
    BY <1>1 DEF Flow
  <2>3. SideHolds(x, down) /\ Served(<<>>, <<>>, x, x) /\ UpToDate(x, x)
    BY <1>1 DEF SideHolds, Served, UpToDate
  <2> QED BY <2>1, <2>2, <2>3 DEF OneWay
<1> QED BY <1>4, <1>5, <1>6 DEF ChannelInv

LEMMA ChannelKeeps == ChannelInv /\ [C!Next]_channelVars => ChannelInv'
<1> SUFFICES ASSUME ChannelInv, [C!Next]_channelVars PROVE ChannelInv'
  OBVIOUS
<1>1. CASE UNCHANGED channelVars
  BY <1>1 DEF channelVars, ChannelInv, ChannelTypes, C!EachSettlesOnce, OneWay
<1>2. CASE C!Next
  <2>1. PICK s \in C!Sides :
          \/ C!Request(s) \/ C!RequestTooLarge(s) \/ C!SendEvent(s) \/ C!Receive(s)
          \/ C!EventHandled(s) \/ C!EventHandlerThrows(s) \/ C!Close(s) \/ C!CloseObserved(s)
          \/ C!TransportFails
          \/ \E i \in C!Ids : C!Abort(s, i) \/ C!Complete(s, i)
    BY <1>2 DEF C!Next
  <2>2. CASE C!Request(s)
    BY <2>2, RequestStep
  <2>3. CASE C!RequestTooLarge(s)
    BY <2>3, RequestTooLargeStep
  <2>4. CASE C!SendEvent(s)
    BY <2>4, SendEventStep
  <2>5. CASE C!Receive(s)
    BY <2>5, ReceiveStep
  <2>6. CASE C!EventHandled(s)
    BY <2>6, EventHandledStep
  <2>7. CASE C!EventHandlerThrows(s)
    <3>1. C!Closed(s) /\ down' = TRUE /\ excused' = TRUE /\ UNCHANGED <<wire, running, overtook>>
      BY <2>7 DEF C!EventHandlerThrows, C!Violated
    <3> QED BY <3>1, ClosedStep
  <2>8. CASE C!Close(s)
    <3>1. C!Closed(s) /\ down' = TRUE /\ excused' = TRUE /\ UNCHANGED <<wire, running, overtook>>
      BY <2>8 DEF C!Close
    <3> QED BY <3>1, ClosedStep
  <2>9. CASE C!CloseObserved(s)
    <3>1. C!Closed(s) /\ down' = TRUE /\ excused' = TRUE /\ UNCHANGED <<wire, running, overtook>>
      BY <2>9 DEF C!CloseObserved, ChannelInv, ChannelTypes
    <3> QED BY <3>1, ClosedStep
  <2>10. CASE C!TransportFails
    BY <2>10, TransportStep
  <2>11. CASE \E i \in C!Ids : C!Abort(s, i) \/ C!Complete(s, i)
    BY <2>11, AbortStep, CompleteStep
  <2> QED BY <2>1, <2>2, <2>3, <2>4, <2>5, <2>6, <2>7, <2>8, <2>9, <2>10, <2>11
<1> QED BY <1>1, <1>2

LEMMA ChannelInvIsSound == ChannelInv => ChannelIsSound
<1> SUFFICES ASSUME ChannelInv PROVE ChannelIsSound
  OBVIOUS
<1>1. C!NoSpuriousClose
  BY DEF C!NoSpuriousClose, ChannelInv, ChannelTypes, OneWay, SideHolds
<1>2. C!RequestIsSomewhere
  <2> SUFFICES ASSUME ~down, NEW s \in C!Sides, NEW i \in side[s].pending
               PROVE  \/ C!InWire(s, "request", i) \/ i \in side[C!Peer(s)].incoming
                      \/ C!InWire(C!Peer(s), "response", i)
    BY DEF C!RequestIsSomewhere
  <2>1. side[C!Peer(s)].open
    BY Ends DEF ChannelInv, ChannelTypes, OneWay, SideHolds, ChannelSide
  <2>2. \/ Has(wire[s], "request", i) \/ i \in side[C!Peer(s)].incoming
        \/ Has(wire[C!Peer(s)], "response", i)
    BY <2>1 DEF ChannelInv, OneWay, Served
  <2> QED BY <2>2 DEF Has, IsFrame, C!InWire
<1>3. C!EachSettlesOnce /\ C!ResponsesFollowEvents
  BY DEF ChannelInv, ChannelTypes, C!ResponsesFollowEvents
<1> QED BY <1>1, <1>2, <1>3 DEF ChannelIsSound, C!ChannelIsSound

\* What the channel (control/agent-control-channel.ts) keeps at every step: the frames of
\* either wire, in the order of their identities, each say something its receiver still
\* has to learn, and no open end has lost a request.
THEOREM ChannelHolds == C!Spec => []ChannelInv
<1>1. ChannelInv /\ [C!Next]_C!vars => ChannelInv'
  BY ChannelKeeps DEF channelVars, C!vars
<1> QED
  BY <1>1, ChannelInitHolds, PTL DEF C!Spec

\* The channel settles every request once, in the order of what its sender reported, and
\* closes only over an incident, however requests, responses, aborts and events of the two
\* ends cross (#handleRequest, #handleResponse, #handleCancel, #handleEvent).
THEOREM ChannelSettlesEverything == C!Spec => []ChannelIsSound
<1> QED
  BY ChannelHolds, ChannelInvIsSound, PTL

-----------------------------------------------------------------------------
(* The screen. *)

\* A call that has the screen reads it; what was parsed completely since a call reads it
\* is still there.
CallType == [at : {"none", "open", "frame", "held", "over", "failed"}, revision : Nat]
OwnType == [revision : Nat, held : Calls \cup {S!None}, complete : BOOLEAN]
GridType == [consumers : SUBSET Calls, suspended : BOOLEAN, waiter : Calls \cup {S!None},
             complete : [Calls -> BOOLEAN], stale : BOOLEAN]
ScreenTypes ==
  /\ calls \in [Calls -> CallType] /\ own \in OwnType /\ grid \in GridType
  /\ asks \in Seq(Calls \cup {S!None})

CallsHold ==
  \A i \in Calls : /\ calls[i].at \in {"open", "frame", "held"} => i \in grid.consumers
                   /\ grid.complete[i] \/ grid.waiter = i => calls[i].at # "none"
                   /\ grid.complete[i] /\ i \in grid.consumers => ~grid.stale
OwnHolds ==
  own.held # S!None => calls[own.held].at = "held" /\ (own.complete => grid.complete[own.held])

\* A call that the child has still to serve is asked for once.
AsksHold ==
  \A k \in 1..Len(asks) : asks[k] # S!None =>
    /\ calls[asks[k]].at = "open"
    /\ \A j \in 1..Len(asks) : asks[j] = asks[k] => j = k

ScreenInv == ScreenTypes /\ CallsHold /\ OwnHolds /\ AsksHold

LEMMA ScreenFacts ==
  ASSUME ScreenTypes
  PROVE  /\ own.revision \in Nat /\ own.held \in Calls \cup {S!None} /\ own.complete \in BOOLEAN
         /\ grid.consumers \subseteq Calls /\ grid.suspended \in BOOLEAN
         /\ grid.waiter \in Calls \cup {S!None} /\ grid.stale \in BOOLEAN
         /\ grid.complete \in [Calls -> BOOLEAN]
         /\ asks \in Seq(Calls \cup {S!None}) /\ Len(asks) \in Nat
         /\ \A i \in Calls : i # S!None
         /\ \A k \in 1..Len(asks) : asks[k] # S!None => asks[k] \in Calls
<1>1. own \in OwnType /\ grid \in GridType /\ asks \in Seq(Calls \cup {S!None})
  BY DEF ScreenTypes
<1>2. \A i \in Calls : i # S!None
  BY CallsAssumption DEF S!None
<1>3. \A k \in 1..Len(asks) : asks[k] \in Calls \cup {S!None}
  BY <1>1
<1> QED BY <1>1, <1>2, <1>3 DEF OwnType, GridType

\* A call moves on.
LEMMA GoesTo ==
  ASSUME ScreenTypes, NEW i \in Calls,
         NEW v \in {"none", "open", "frame", "held", "over", "failed"},
         calls' = [calls EXCEPT ![i].at = v]
  PROVE  /\ calls' \in [Calls -> CallType] /\ calls'[i].at = v
         /\ \A j \in Calls : j # i => calls'[j] = calls[j]
<1>1. calls \in [Calls -> CallType]
  BY DEF ScreenTypes
<1>2. PICK e : e = [calls[i] EXCEPT !.at = v]
  OBVIOUS
<1>3. e \in CallType /\ e.at = v
  BY <1>1, <1>2 DEF CallType
<1>4. calls' = [calls EXCEPT ![i] = e]
  BY <1>1, <1>2
<1> QED BY <1>1, <1>3, <1>4

LEMMA ScreenArrives ==
  ASSUME ScreenInv, S!Arrive
  PROVE  ScreenInv'
<1> USE ScreenFacts DEF ScreenInv
<1>1. UNCHANGED <<calls, own, asks>>
  BY DEF S!Arrive
<1>2. PICK frame : frame = Head(tui.output)
  OBVIOUS
<1>0. grid \in GridType
  BY DEF ScreenTypes
<1>3. CASE ~S!Parsing(grid)
  <2>1. grid' = [grid EXCEPT !.stale = TRUE] /\ grid.consumers = {}
    BY <1>3 DEF S!Arrive, S!Parsing
  <2>2. /\ grid'.consumers = {} /\ grid'.complete = grid.complete /\ grid'.waiter = grid.waiter
        /\ grid' \in GridType
    BY <1>0, <2>1 DEF GridType
  <2> QED BY <1>1, <2>1, <2>2 DEF ScreenTypes, CallsHold, OwnHolds, AsksHold
<1>4. CASE S!Parsing(grid) /\ grid.waiter # S!None /\ frame = "full"
  <2>1. PICK d : d = [grid.complete EXCEPT ![grid.waiter] = TRUE]
    OBVIOUS
  <2>2. grid' = [grid EXCEPT !.stale = FALSE, !.complete = d, !.waiter = S!None]
    BY <1>2, <1>4, <2>1 DEF S!Arrive, S!Completes
  <2>3. d \in [Calls -> BOOLEAN] /\ \A i \in Calls : d[i] <=> grid.complete[i] \/ i = grid.waiter
    BY <1>4, <2>1
  <2>4. /\ grid'.consumers = grid.consumers /\ grid'.complete = d /\ grid'.waiter = S!None
        /\ grid'.stale = FALSE /\ grid' \in GridType
    BY <1>0, <2>2, <2>3 DEF GridType
  <2> QED BY <1>1, <2>3, <2>4 DEF ScreenTypes, CallsHold, OwnHolds, AsksHold
<1>5. CASE S!Parsing(grid) /\ ~(grid.waiter # S!None /\ frame = "full")
  <2>1. PICK b \in BOOLEAN : b = (grid.stale /\ frame # "full")
    OBVIOUS
  <2>2. grid' = [grid EXCEPT !.stale = b, !.complete = grid.complete, !.waiter = grid.waiter]
    BY <1>2, <1>5, <2>1 DEF S!Arrive, S!Completes
  <2>3. /\ grid'.consumers = grid.consumers /\ grid'.complete = grid.complete
        /\ grid'.waiter = grid.waiter /\ grid'.stale = b /\ grid' \in GridType
    BY <1>0, <2>2 DEF GridType
  <2> QED BY <1>1, <2>1, <2>3 DEF ScreenTypes, CallsHold, OwnHolds, AsksHold
<1> QED BY <1>3, <1>4, <1>5

LEMMA ScreenWaits ==
  ASSUME ScreenInv, S!Suspend \/ S!Bounded \/ S!Require \/ S!Paint
  PROVE  ScreenInv'
<1> USE ScreenFacts DEF ScreenInv
<1>1. UNCHANGED <<calls, own, asks>>
  BY DEF S!Suspend, S!Bounded, S!Require, S!Paint
<1>2. \/ grid' = grid \/ grid' = [grid EXCEPT !.suspended = TRUE]
      \/ grid' = [grid EXCEPT !.waiter = S!None]
  BY DEF S!Suspend, S!Bounded, S!Require, S!Paint
<1>3. /\ grid'.consumers = grid.consumers /\ grid'.complete = grid.complete
      /\ grid'.stale = grid.stale /\ grid'.waiter \in {S!None, grid.waiter} /\ grid' \in GridType
  <2>1. grid \in GridType
    BY DEF ScreenTypes
  <2> QED BY <1>2, <2>1 DEF GridType
<1> QED BY <1>1, <1>3 DEF ScreenTypes, CallsHold, OwnHolds, AsksHold

LEMMA ScreenBegins ==
  ASSUME ScreenInv, NEW i \in Calls, S!Begin(i)
  PROVE  ScreenInv'
<1> USE ScreenFacts
<1>1. calls[i].at = "none" /\ ~grid.complete[i] /\ grid.waiter # i /\ ScreenTypes
  BY DEF S!Begin, S!At, ScreenInv, CallsHold
<1>2. \A k \in 1..Len(asks) : asks[k] # i
  BY <1>1 DEF ScreenInv, AsksHold
<1>3. own \in OwnType /\ grid \in GridType /\ calls \in [Calls -> CallType]
  BY <1>1 DEF ScreenTypes
<1>4. CASE own.held # S!None
  <2>1. calls' = [calls EXCEPT ![i].at = "over"] /\ UNCHANGED <<own, grid, asks>>
    BY <1>4 DEF S!Begin, S!Goto
  <2>2. /\ calls' \in [Calls -> CallType] /\ calls'[i].at = "over"
        /\ \A j \in Calls : j # i => calls'[j] = calls[j]
    BY <1>1, <2>1, GoesTo
  <2> QED BY <1>1, <1>2, <2>1, <2>2 DEF ScreenInv, ScreenTypes, CallsHold, OwnHolds, AsksHold
<1>5. CASE own.held = S!None /\ grid.waiter # S!None
  <2>1. /\ calls' = [calls EXCEPT ![i].at = "failed"] /\ own' = [own EXCEPT !.revision = @ + 1]
        /\ grid' = [grid EXCEPT !.consumers = @ \cup {i}, !.suspended = FALSE] /\ asks' = asks
    BY <1>5 DEF S!Begin, S!Goto, S!Consume
  <2>2. /\ calls' \in [Calls -> CallType] /\ calls'[i].at = "failed"
        /\ \A j \in Calls : j # i => calls'[j] = calls[j]
    BY <1>1, <2>1, GoesTo
  <2>3. /\ grid'.consumers = grid.consumers \cup {i} /\ grid'.complete = grid.complete
        /\ grid'.waiter = grid.waiter /\ grid'.stale = grid.stale /\ grid' \in GridType
    BY <1>3, <2>1 DEF GridType
  <2>4. own'.held = own.held /\ own' \in OwnType
    BY <1>3, <2>1 DEF OwnType
  <2> QED BY <1>1, <1>2, <1>5, <2>1, <2>2, <2>3, <2>4
          DEF ScreenInv, ScreenTypes, CallsHold, OwnHolds, AsksHold
<1>6. CASE own.held = S!None /\ grid.waiter = S!None
  <2>1. PICK e : e = [at |-> "open", revision |-> own.revision + 1]
    OBVIOUS
  <2>2. /\ calls' = [calls EXCEPT ![i] = e] /\ own' = [own EXCEPT !.revision = @ + 1]
        /\ grid' = [[grid EXCEPT !.consumers = @ \cup {i}, !.suspended = FALSE] EXCEPT !.waiter = i]
        /\ asks' = Append(asks, i)
    BY <1>6, <2>1 DEF S!Begin, S!Consume
  <2>3. e \in CallType /\ e.at = "open"
    BY <2>1, <1>1 DEF CallType
  <2>4. /\ calls' \in [Calls -> CallType] /\ calls'[i].at = "open"
        /\ \A j \in Calls : j # i => calls'[j] = calls[j]
    BY <1>3, <2>2, <2>3
  <2>5. /\ grid'.consumers = grid.consumers \cup {i} /\ grid'.complete = grid.complete
        /\ grid'.waiter = i /\ grid'.stale = grid.stale /\ grid' \in GridType
    BY <1>3, <2>2 DEF GridType
  <2>6. own'.held = own.held /\ own' \in OwnType
    BY <1>3, <2>2 DEF OwnType
  <2>7. /\ asks' \in Seq(Calls \cup {S!None}) /\ Len(asks') = Len(asks) + 1 /\ Len(asks) \in Nat
        /\ asks'[Len(asks) + 1] = i /\ \A k \in 1..Len(asks) : asks'[k] = asks[k]
    BY <1>1, <2>2, AppendFacts
  <2>8. CallsHold'
    BY <1>1, <2>4, <2>5 DEF ScreenInv, CallsHold
  <2>9. AsksHold'
    <3> SUFFICES ASSUME NEW k \in 1..Len(asks'), asks'[k] # S!None
                 PROVE  /\ calls'[asks'[k]].at = "open"
                        /\ \A j \in 1..Len(asks') : asks'[j] = asks'[k] => j = k
      BY DEF AsksHold
    <3>1. CASE k = Len(asks) + 1
      BY <1>2, <2>4, <2>7, <3>1
    <3>2. CASE k # Len(asks) + 1
      <4>1. k \in 1..Len(asks)
        BY <2>7, <3>2
      <4>2. asks'[k] = asks[k] /\ asks[k] # i /\ asks[k] \in Calls
        BY <1>1, <1>2, <2>7, <4>1
      <4>3. calls[asks[k]].at = "open" /\ \A j \in 1..Len(asks) : asks[j] = asks[k] => j = k
        BY <4>1, <4>2 DEF ScreenInv, AsksHold
      <4> QED BY <2>4, <2>7, <4>2, <4>3
    <3> QED BY <3>1, <3>2
  <2> QED BY <1>6, <2>4, <2>5, <2>6, <2>7, <2>8, <2>9 DEF ScreenInv, ScreenTypes, OwnHolds
<1> QED BY <1>4, <1>5, <1>6

LEMMA Hides ==
  ASSUME own \in OwnType,
         own' = [own EXCEPT !.revision = @ + 1, !.held = S!None, !.complete = FALSE]
  PROVE  own' \in OwnType /\ own'.held = S!None
<1>1. PICK N0 : N0 = S!None
  OBVIOUS
<1>2. PICK Held : Held = Calls \cup {S!None}
  OBVIOUS
<1>3. N0 \in Held /\ OwnType = [revision : Nat, held : Held, complete : BOOLEAN]
  BY <1>1, <1>2 DEF OwnType
<1>4. own' = [own EXCEPT !.revision = @ + 1, !.held = N0, !.complete = FALSE]
  BY <1>1
<1>5. own' \in OwnType
  <2>1. PICK r \in Nat : r = own.revision + 1
    BY <1>3
  <2>2. PICK e : e = [own EXCEPT !.revision = r, !.held = N0]
    OBVIOUS
  <2>3. e \in OwnType
    BY <1>3, <2>1, <2>2
  <2>4. own' = [e EXCEPT !.complete = FALSE]
    BY <1>3, <1>4, <2>1, <2>2
  <2> QED BY <1>3, <2>3, <2>4
<1>6. own'.held = N0
  BY <1>3, <1>4
<1> QED BY <1>1, <1>5, <1>6

\* A view that has the screen gives it back.
LEMMA Releases ==
  ASSUME ScreenInv, NEW i \in Calls, calls[i].at \in {"frame", "held"},
         grid' = S!Released(grid, i), calls' = [calls EXCEPT ![i].at = "over"],
         UNCHANGED own \/ own' = [own EXCEPT !.revision = @ + 1, !.held = S!None, !.complete = FALSE],
         own'.held # i,
         asks' = asks \/ asks' = Append(asks, S!None)
  PROVE  ScreenInv'
<1> USE ScreenFacts
<1>1. ScreenTypes /\ own \in OwnType /\ grid \in GridType
  BY DEF ScreenInv, ScreenTypes
<1>2. /\ calls' \in [Calls -> CallType] /\ calls'[i].at = "over"
      /\ \A j \in Calls : j # i => calls'[j] = calls[j]
  BY <1>1, GoesTo
<1>3. /\ grid'.consumers = grid.consumers \ {i} /\ grid'.complete = grid.complete
      /\ grid'.waiter = grid.waiter /\ grid'.stale = grid.stale /\ grid' \in GridType
  BY <1>1 DEF S!Released, GridType
<1>4. own' \in OwnType /\ (own'.held = S!None \/ own' = own)
  BY <1>1, Hides
<1>5. CallsHold'
  BY <1>2, <1>3 DEF ScreenInv, CallsHold
<1>6. OwnHolds'
  BY <1>1, <1>2, <1>3, <1>4 DEF ScreenInv, OwnHolds
<1>7. /\ asks' \in Seq(Calls \cup {S!None}) /\ Len(asks) \in Nat /\ Len(asks') \in {Len(asks), Len(asks) + 1}
      /\ \A k \in 1..Len(asks) : asks'[k] = asks[k]
      /\ \A k \in 1..Len(asks') : asks'[k] # S!None => k \in 1..Len(asks)
  <2>1. CASE asks' = asks
    BY <1>1, <2>1
  <2>2. CASE asks' = Append(asks, S!None)
    <3>1. S!None \in Calls \cup {S!None}
      OBVIOUS
    <3>2. /\ asks' \in Seq(Calls \cup {S!None}) /\ Len(asks') = Len(asks) + 1 /\ Len(asks) \in Nat
          /\ asks'[Len(asks) + 1] = S!None /\ \A k \in 1..Len(asks) : asks'[k] = asks[k]
      BY <1>1, <2>2, <3>1, AppendFacts
    <3> QED BY <3>2
  <2> QED BY <2>1, <2>2
<1>8. AsksHold'
  <2> SUFFICES ASSUME NEW k \in 1..Len(asks'), asks'[k] # S!None
               PROVE  /\ calls'[asks'[k]].at = "open"
                      /\ \A j \in 1..Len(asks') : asks'[j] = asks'[k] => j = k
    BY DEF AsksHold
  <2>1. k \in 1..Len(asks) /\ asks'[k] = asks[k] /\ asks[k] \in Calls
    BY <1>1, <1>7
  <2>2. calls[asks[k]].at = "open" /\ \A j \in 1..Len(asks) : asks[j] = asks[k] => j = k
    BY <1>7, <2>1 DEF ScreenInv, AsksHold
  <2>3. asks[k] # i
    BY <2>2
  <2>4. \A j \in 1..Len(asks') : asks'[j] = asks'[k] => j = k
    BY <1>7, <2>1, <2>2
  <2> QED BY <1>2, <2>1, <2>2, <2>3, <2>4
<1> QED BY <1>2, <1>3, <1>4, <1>5, <1>6, <1>7, <1>8 DEF ScreenInv, ScreenTypes

LEMMA ScreenFinishes ==
  ASSUME ScreenInv, NEW i \in Calls, S!Finish(i)
  PROVE  ScreenInv'
<1> USE ScreenFacts
<1>1. /\ calls[i].at = "frame" /\ ScreenTypes /\ own \in OwnType /\ own.held # i /\ asks' = asks
      /\ Len(asks) \in Nat
  BY DEF S!Finish, S!At, ScreenInv, ScreenTypes, OwnHolds
<1>2. CASE calls[i].revision # own.revision
  <2>1. grid' = S!Released(grid, i) /\ calls' = [calls EXCEPT ![i].at = "over"] /\ UNCHANGED own
    BY <1>2 DEF S!Finish, S!Goto
  <2> QED BY <1>1, <2>1, Releases
<1>3. CASE calls[i].revision = own.revision
  <2>1. /\ own' = [own EXCEPT !.held = i, !.complete = grid.complete[i]] /\ grid' = grid
        /\ calls' = [calls EXCEPT ![i].at = "held"]
    BY <1>3 DEF S!Finish, S!Goto
  <2>2. /\ calls' \in [Calls -> CallType] /\ calls'[i].at = "held"
        /\ \A j \in Calls : j # i => calls'[j] = calls[j]
    BY <1>1, <2>1, GoesTo
  <2>3. own' \in OwnType /\ own'.held = i /\ own'.complete = grid.complete[i]
    <3>1. grid.complete[i] \in BOOLEAN
      BY <1>1
    <3> QED BY <1>1, <2>1, <3>1 DEF OwnType
  <2>4. CallsHold' /\ OwnHolds'
    BY <1>1, <2>1, <2>2, <2>3 DEF ScreenInv, CallsHold, OwnHolds
  <2>5. AsksHold'
    <3> SUFFICES ASSUME NEW k \in 1..Len(asks), asks[k] # S!None
                 PROVE  /\ calls'[asks[k]].at = "open"
                        /\ \A j \in 1..Len(asks) : asks[j] = asks[k] => j = k
      BY <1>1 DEF AsksHold
    <3>1. /\ calls[asks[k]].at = "open" /\ asks[k] \in Calls
          /\ \A j \in 1..Len(asks) : asks[j] = asks[k] => j = k
      BY <1>1 DEF ScreenInv, AsksHold
    <3>2. asks[k] # i
      BY <1>1, <3>1
    <3> QED BY <2>2, <3>1, <3>2
  <2> QED BY <1>1, <2>1, <2>2, <2>3, <2>4, <2>5 DEF ScreenInv, ScreenTypes
<1> QED BY <1>2, <1>3

LEMMA ScreenHides ==
  ASSUME ScreenInv, S!Hide
  PROVE  ScreenInv'
<1> USE ScreenFacts
<1>1. /\ own' = [own EXCEPT !.revision = @ + 1, !.held = S!None, !.complete = FALSE]
      /\ asks' = Append(asks, S!None) /\ ScreenTypes /\ own \in OwnType
  BY DEF S!Hide, ScreenInv, ScreenTypes
<1>2. own' \in OwnType /\ own'.held = S!None
  BY <1>1, Hides
<1>3. CASE own.held # S!None
  <2>1. PICK i \in Calls : i = own.held
    BY <1>1, <1>3
  <2>2. grid' = S!Released(grid, i) /\ calls' = [calls EXCEPT ![i].at = "over"]
    BY <1>3, <2>1 DEF S!Hide, S!Goto
  <2>3. calls[i].at = "held" /\ i # S!None
    BY <1>1, <1>3, <2>1 DEF ScreenInv, OwnHolds
  <2> QED BY <1>1, <1>2, <2>2, <2>3, Releases
<1>4. CASE own.held = S!None
  <2>1. UNCHANGED <<grid, calls>>
    BY <1>4 DEF S!Hide
  <2>2. S!None \in Calls \cup {S!None}
    OBVIOUS
  <2>3. /\ asks' \in Seq(Calls \cup {S!None}) /\ Len(asks') = Len(asks) + 1 /\ Len(asks) \in Nat
        /\ asks'[Len(asks) + 1] = S!None /\ \A k \in 1..Len(asks) : asks'[k] = asks[k]
    BY <1>1, <2>2, AppendFacts
  <2>4. AsksHold'
    <3> SUFFICES ASSUME NEW k \in 1..Len(asks'), asks'[k] # S!None
                 PROVE  /\ calls'[asks'[k]].at = "open"
                        /\ \A j \in 1..Len(asks') : asks'[j] = asks'[k] => j = k
      BY DEF AsksHold
    <3>1. k \in 1..Len(asks) /\ asks'[k] = asks[k]
      BY <2>3
    <3>2. calls[asks[k]].at = "open" /\ \A j \in 1..Len(asks) : asks[j] = asks[k] => j = k
      BY <3>1 DEF ScreenInv, AsksHold
    <3> QED BY <2>1, <2>3, <3>1, <3>2
  <2> QED BY <1>1, <1>2, <2>1, <2>3, <2>4 DEF ScreenInv, ScreenTypes, CallsHold, OwnHolds
<1> QED BY <1>3, <1>4

LEMMA ScreenServes ==
  ASSUME ScreenInv, S!Serve
  PROVE  ScreenInv'
<1> USE ScreenFacts
<1>1. /\ asks # <<>> /\ asks' = Tail(asks) /\ UNCHANGED <<own, grid>> /\ ScreenTypes
  BY DEF S!Serve, ScreenInv
<1>2. /\ asks' \in Seq(Calls \cup {S!None}) /\ Len(asks') = Len(asks) - 1 /\ Len(asks) \in Nat
      /\ Len(asks) >= 1 /\ Head(asks) = asks[1] /\ \A k \in 1..Len(asks') : asks'[k] = asks[k + 1]
  BY <1>1, TailFacts
<1>3. ASSUME NEW k \in 1..Len(asks'), asks'[k] # S!None
      PROVE  /\ asks'[k] \in Calls /\ calls[asks'[k]].at = "open" /\ asks'[k] # asks[1]
             /\ \A j \in 1..Len(asks') : asks'[j] = asks'[k] => j = k
  <2>1. k \in Nat /\ k + 1 \in 1..Len(asks) /\ 1 \in 1..Len(asks) /\ k + 1 # 1 /\ asks'[k] = asks[k + 1]
    BY <1>2
  <2>2. /\ calls[asks[k + 1]].at = "open" /\ asks[k + 1] \in Calls
        /\ \A j \in 1..Len(asks) : asks[j] = asks[k + 1] => j = k + 1
    BY <1>1, <1>3, <2>1 DEF ScreenInv, AsksHold
  <2>3. ASSUME NEW j \in 1..Len(asks'), asks'[j] = asks'[k] PROVE j = k
    <3>1. j \in Nat /\ j + 1 \in 1..Len(asks) /\ asks'[j] = asks[j + 1]
      BY <1>2
    <3>2. j + 1 = k + 1
      BY <2>1, <2>2, <2>3, <3>1
    <3> QED BY <2>1, <3>1, <3>2
  <2> QED BY <2>1, <2>2, <2>3
<1>4. CASE asks[1] = S!None
  <2>1. calls' = calls
    BY <1>2, <1>4 DEF S!Serve
  <2>2. AsksHold'
    BY <1>3, <2>1 DEF AsksHold
  <2> QED BY <1>1, <1>2, <2>1, <2>2 DEF ScreenInv, ScreenTypes, CallsHold, OwnHolds
<1>5. CASE asks[1] # S!None
  <2>1. PICK i \in Calls : i = asks[1]
    BY <1>1, <1>2, <1>5
  <2>2. calls[i].at = "open"
    BY <1>2, <1>5, <2>1 DEF ScreenInv, AsksHold
  <2>3. calls' = [calls EXCEPT ![i].at = "frame"]
    BY <1>2, <1>5, <2>1 DEF S!Serve, S!Goto
  <2>4. /\ calls' \in [Calls -> CallType] /\ calls'[i].at = "frame"
        /\ \A j \in Calls : j # i => calls'[j] = calls[j]
    BY <1>1, <2>3, GoesTo
  <2>5. CallsHold' /\ OwnHolds'
    BY <1>1, <2>2, <2>4 DEF ScreenInv, CallsHold, OwnHolds
  <2>6. AsksHold'
    BY <1>3, <2>1, <2>4 DEF AsksHold
  <2> QED BY <1>1, <1>2, <2>4, <2>5, <2>6 DEF ScreenInv, ScreenTypes
<1> QED BY <1>4, <1>5

LEMMA ScreenInitHolds == S!Init => ScreenInv
<1> SUFFICES ASSUME S!Init PROVE ScreenInv
  OBVIOUS
<1>1. PICK e : e = [at |-> "none", revision |-> 0]
  OBVIOUS
<1>2. PICK d : d = [i \in Calls |-> FALSE]
  OBVIOUS
<1>3. e \in CallType /\ e.at = "none" /\ d \in [Calls -> BOOLEAN] /\ \A i \in Calls : d[i] = FALSE
  BY <1>1, <1>2 DEF CallType
<1>4. calls = [i \in Calls |-> e] /\ own = [revision |-> 0, held |-> S!None, complete |-> FALSE]
  BY <1>1 DEF S!Init
<1>5. asks = <<>> /\ grid = [consumers |-> {}, suspended |-> TRUE, waiter |-> S!None,
                              complete |-> d, stale |-> TRUE]
  BY <1>2 DEF S!Init
<1>6. calls \in [Calls -> CallType]
  BY <1>3, <1>4
<1>7. own \in OwnType /\ own.held = S!None
  BY <1>4 DEF OwnType
<1>8. grid \in GridType /\ grid.complete = d /\ grid.waiter = S!None
  BY <1>3, <1>5 DEF GridType
<1>9. asks \in Seq(Calls \cup {S!None}) /\ Len(asks) = 0
  BY <1>5
<1>10. \A i \in Calls : i # S!None
  BY CallsAssumption DEF S!None
<1>11. CallsHold
  BY <1>3, <1>4, <1>8, <1>10 DEF CallsHold
<1> QED BY <1>6, <1>7, <1>8, <1>9, <1>11 DEF ScreenInv, ScreenTypes, OwnHolds, AsksHold

LEMMA ScreenKeeps == ScreenInv /\ [S!Next]_screenVars => ScreenInv'
<1> SUFFICES ASSUME ScreenInv, [S!Next]_screenVars PROVE ScreenInv'
  OBVIOUS
<1>1. CASE UNCHANGED screenVars
  BY <1>1 DEF screenVars, ScreenInv, ScreenTypes, CallsHold, OwnHolds, AsksHold
<1>2. CASE S!Next
  BY <1>2, ScreenBegins, ScreenFinishes, ScreenHides, ScreenServes, ScreenArrives, ScreenWaits DEF S!Next
<1> QED BY <1>1, <1>2

LEMMA ScreenInvIsCurrent == ScreenInv => HeldScreenIsCurrent
<1> SUFFICES ASSUME ScreenInv, own.held # S!None, own.complete
             PROVE  ~grid.stale /\ S!Parsing(grid)
  BY DEF HeldScreenIsCurrent, S!HeldScreenIsCurrent
<1>1. own.held \in Calls /\ calls[own.held].at = "held" /\ grid.complete[own.held]
  BY ScreenFacts DEF ScreenInv, OwnHolds
<1>2. own.held \in grid.consumers
  BY <1>1 DEF ScreenInv, CallsHold
<1> QED BY <1>1, <1>2 DEF ScreenInv, CallsHold, S!Parsing

\* What the Owner keeps of a child's screen (process-runtime/pi-child-process-runtime.ts,
\* pty-terminal-projection.ts): a call that has the screen reads it, and what a complete
\* frame began is not stale while its call still reads.
THEOREM ScreenHolds == S!Spec => []ScreenInv
<1>1. ScreenInv /\ [S!Next]_S!vars => ScreenInv'
  BY ScreenKeeps DEF screenVars, S!vars
<1> QED
  BY <1>1, ScreenInitHolds, PTL DEF S!Spec

\* However many views are opened and closed, and whatever the child paints meanwhile: a view
\* whose handoff completed shows the current screen (beginScreenView, hidePresentation).
THEOREM HeldScreenStaysCurrent == S!Spec => []HeldScreenIsCurrent
<1> QED
  BY ScreenHolds, ScreenInvIsCurrent, PTL

-----------------------------------------------------------------------------
(* The admission. *)

PeerType == [state : {"none", "connected", "gone"}, token : Tokens \cup {Strange}, honest : BOOLEAN,
             written : {"none", "half", "whole"}, sent : Nat]
ConnType == [state : {"none", "queued", "inspecting", "admitted", "closed"}, active : BOOLEAN,
             inbox : Seq(Int), read : Seq(Int)]
TokType == [state : {"none", "pending", "rejected", "resolved", "aborted"}, chan : SUBSET Conns]

\* What a peer wrote, kept in W, and what it said after its Hello, read as R.
Kept(p, W) ==
  /\ p.written = "none" => Len(W) = 0 /\ p.sent = 0
  /\ p.written = "half" => Len(W) = 1 /\ W[1] = A!Half /\ p.sent = 0
  /\ p.written = "whole" => /\ Len(W) = p.sent + 2 /\ W[1] = A!Half /\ W[2] = A!Rest
                            /\ \A i \in 1..p.sent : W[i + 2] = i
Said(n, R) == Len(R) = n /\ \A i \in 1..n : R[i] = i

\* A connection k whose peer is p.
ConnHolds(p, k) ==
  /\ p.state = "none" => k.state = "none"
  /\ k.state = "none" => ~k.active /\ k.inbox = <<>>
  /\ k.state \in {"queued", "inspecting"} => ~k.active /\ Kept(p, k.inbox)
  /\ k.state = "admitted" => k.active /\ p.written = "whole" /\ Said(p.sent, k.read)

\* The channel of connection c is that of the admission its Hello named, and of no other.
ActiveIsAdmitted(c) == conn[c].active => peer[c].token \in Tokens /\ tok[peer[c].token].chan = {c}
TokHolds(t) ==
  /\ tok[t].state # "resolved" => tok[t].chan = {}
  /\ tok[t].state = "resolved" => \E c \in Conns : tok[t].chan = {c}
  /\ \A c \in tok[t].chan : peer[c].token = t /\ peer[c].honest /\ conn[c].active

QueueHolds ==
  /\ \A k \in 1..Len(queued) : conn[queued[k]].state = "queued"
  /\ \A j, k \in 1..Len(queued) : queued[j] = queued[k] => j = k
  /\ listener # "open" => queued = <<>>
Shut ==
  /\ closing # {} => listener # "open"
  /\ listener = "closing" => \A c \in Conns : A!Open(c) => c \in closing
  /\ listener = "closed" => \A c \in Conns : ~A!Open(c)
  /\ broker = "closed" => listener = "closed"
  /\ broker # "open" => \A t \in Tokens : tok[t].state # "pending"

AdmissionTypes ==
  /\ peer \in [Conns -> PeerType] /\ conn \in [Conns -> ConnType] /\ queued \in Seq(Conns)
  /\ accepting \in BOOLEAN /\ tok \in [Tokens -> TokType] /\ closing \subseteq Conns
  /\ listener \in {"open", "closing", "closed"} /\ broker \in {"open", "closing", "closed", "failed"}

AdmissionInv ==
  /\ AdmissionTypes /\ QueueHolds /\ Shut
  /\ \A c \in Conns : ConnHolds(peer[c], conn[c]) /\ ActiveIsAdmitted(c)
  /\ \A t \in Tokens : TokHolds(t)

LEMMA WritesKeep ==
  ASSUME NEW W \in Seq(Int), NEW p \in PeerType, NEW q \in PeerType, Kept(p, W), q.state # "none",
         NEW I \in Seq(Int),
         \/ p.written = "none" /\ q.written = "half" /\ q.sent = 0 /\ I = <<A!Half>>
         \/ p.written = "none" /\ q.written = "whole" /\ q.sent = 0 /\ I = <<A!Half, A!Rest>>
         \/ p.written = "none" /\ q.written = "whole" /\ q.sent = 1 /\ I = <<A!Half, A!Rest, 1>>
         \/ p.written = "half" /\ q.written = "whole" /\ q.sent = 0 /\ I = <<A!Rest>>
         \/ p.written = "half" /\ q.written = "whole" /\ q.sent = 1 /\ I = <<A!Rest, 1>>
         \/ p.written = "whole" /\ q.written = "whole" /\ q.sent = p.sent + 1 /\ I = <<p.sent + 1>>
  PROVE  Kept(q, W \o I)
<1>1. /\ W \o I \in Seq(Int) /\ Len(W) \in Nat /\ Len(I) \in Nat /\ Len(W \o I) = Len(W) + Len(I)
      /\ \A i \in 1..(Len(W) + Len(I)) : (W \o I)[i] = IF i <= Len(W) THEN W[i] ELSE I[i - Len(W)]
  BY ConcatProperties, LenProperties
<1>2. p.sent \in Nat /\ q.sent \in Nat
  BY DEF PeerType
<1>3. CASE p.written = "none"
  <2>1. Len(W) = 0 /\ p.sent = 0
    BY <1>3 DEF Kept
  <2>2. CASE q.written = "half"
    <3>1. I = <<A!Half>> /\ q.sent = 0
      BY <1>3, <2>2
    <3>2. Len(I) = 1 /\ I[1] = A!Half
      BY <3>1
    <3> QED BY ONLY <1>1, <2>1, <2>2, <3>1, <3>2 DEF Kept
  <2>3. CASE q.written = "whole"
    <3>1. \/ q.sent = 0 /\ I = <<A!Half, A!Rest>>
          \/ q.sent = 1 /\ I = <<A!Half, A!Rest, 1>>
      BY <1>3, <2>3
    <3>2. Len(I) = q.sent + 2 /\ I[1] = A!Half /\ I[2] = A!Rest /\ (q.sent = 1 => I[3] = 1)
      <4>1. CASE q.sent = 0
        BY ONLY <3>1, <4>1
      <4>2. CASE q.sent = 1
        BY ONLY <3>1, <4>2
      <4> QED BY <3>1, <4>1, <4>2
    <3> QED BY ONLY <1>1, <2>1, <2>3, <3>1, <3>2 DEF Kept
  <2> QED BY <1>3, <2>2, <2>3
<1>4. CASE p.written = "half"
  <2>1. Len(W) = 1 /\ W[1] = A!Half /\ q.written = "whole"
    BY <1>4 DEF Kept
  <2>2. \/ q.sent = 0 /\ I = <<A!Rest>>
        \/ q.sent = 1 /\ I = <<A!Rest, 1>>
    BY <1>4
  <2>3. Len(I) = q.sent + 1 /\ I[1] = A!Rest /\ (q.sent = 1 => I[2] = 1)
    <3>1. CASE q.sent = 0
      BY ONLY <2>2, <3>1
    <3>2. CASE q.sent = 1
      BY ONLY <2>2, <3>2
    <3> QED BY <2>2, <3>1, <3>2
  <2> QED BY ONLY <1>1, <2>1, <2>2, <2>3 DEF Kept
<1>5. CASE p.written = "whole"
  <2>1. /\ Len(W) = p.sent + 2 /\ W[1] = A!Half /\ W[2] = A!Rest
        /\ \A i \in 1..p.sent : W[i + 2] = i
    BY <1>5 DEF Kept
  <2>2. q.sent = p.sent + 1 /\ Len(I) = 1 /\ I[1] = p.sent + 1 /\ q.written = "whole"
    BY <1>5
  <2>3. (W \o I)[1] = A!Half /\ (W \o I)[2] = A!Rest /\ Len(W \o I) = q.sent + 2
    BY ONLY SMTT(30), <1>1, <1>2, <2>1, <2>2
  <2>4. ASSUME NEW i \in 1..q.sent PROVE (W \o I)[i + 2] = i
    <3>1. i \in Nat /\ i >= 1 /\ i <= p.sent + 1
      BY ONLY <1>2, <2>2, <2>4
    <3>2. CASE i <= p.sent
      BY ONLY <1>1, <1>2, <2>1, <2>2, <3>1, <3>2
    <3>3. CASE i = p.sent + 1
      <4>1. i + 2 \in 1..(Len(W) + Len(I)) /\ ~(i + 2 <= Len(W)) /\ (i + 2) - Len(W) = 1
        <5>1. Len(W) = p.sent + 2 /\ Len(I) = 1 /\ p.sent \in Nat /\ i = p.sent + 1
          BY <1>2, <2>1, <2>2, <3>3
        <5> QED BY ONLY SMTT(30), <5>1
      <4>2. (W \o I)[i + 2] = I[(i + 2) - Len(W)]
        BY ONLY <1>1, <4>1
      <4> QED BY ONLY <2>2, <3>3, <4>1, <4>2
    <3>4. i <= p.sent \/ i = p.sent + 1
      BY <1>2, <3>1
    <3> QED BY <3>2, <3>3, <3>4
  <2> QED BY ONLY <2>2, <2>3, <2>4 DEF Kept
<1> QED BY <1>3, <1>4, <1>5

LEMMA SaidGrows ==
  ASSUME NEW n \in Nat, NEW R \in Seq(Int), Said(n, R)
  PROVE  Said(n + 1, R \o <<n + 1>>) /\ R \o <<n + 1>> \in Seq(Int)
  BY DEF Said

LEMMA SaidFirst ==
  ASSUME NEW p \in PeerType, NEW W \in Seq(Int), Kept(p, W), p.written = "whole"
  PROVE  Said(p.sent, SubSeq(W, 3, Len(W))) /\ SubSeq(W, 3, Len(W)) \in Seq(Int)
<1>1. p.sent \in Nat /\ Len(W) = p.sent + 2 /\ \A i \in 3..Len(W) : W[i] \in Int
  BY DEF Kept, PeerType
<1>2. /\ SubSeq(W, 3, Len(W)) \in Seq(Int)
      /\ Len(SubSeq(W, 3, Len(W))) = IF 3 <= Len(W) THEN Len(W) - 3 + 1 ELSE 0
      /\ \A i \in 1 .. Len(W) - 3 + 1 : SubSeq(W, 3, Len(W))[i] = W[3 + i - 1]
  <2>1. 3 \in 1..(Len(W) + 1) /\ Len(W) \in 2..Len(W)
    BY <1>1
  <2> QED BY SMTT(30), <2>1, SubSeqProperties
<1>3. \A i \in 1..p.sent : W[i + 2] = i
  BY DEF Kept
<1> QED BY <1>1, <1>2, <1>3 DEF Said

\* One connection moves.
LEMMA PeersMove ==
  ASSUME AdmissionInv, NEW c \in Conns, NEW p \in PeerType, NEW k \in ConnType,
         peer' = [peer EXCEPT ![c] = p], conn' = [conn EXCEPT ![c] = k], ConnHolds(p, k)
  PROVE  /\ peer' \in [Conns -> PeerType] /\ conn' \in [Conns -> ConnType]
         /\ \A d \in Conns : ConnHolds(peer'[d], conn'[d])
         /\ peer'[c] = p /\ conn'[c] = k
         /\ \A d \in Conns : d # c => peer'[d] = peer[d] /\ conn'[d] = conn[d]
<1>1. peer \in [Conns -> PeerType] /\ conn \in [Conns -> ConnType]
      /\ \A d \in Conns : ConnHolds(peer[d], conn[d])
  BY DEF AdmissionInv, AdmissionTypes
<1>2. peer'[c] = p /\ conn'[c] = k
      /\ \A d \in Conns : d # c => peer'[d] = peer[d] /\ conn'[d] = conn[d]
  BY <1>1
<1>3. peer' \in [Conns -> PeerType] /\ conn' \in [Conns -> ConnType]
  BY <1>1
<1>4. ASSUME NEW d \in Conns PROVE ConnHolds(peer'[d], conn'[d])
  <2>1. CASE d = c
    BY <1>2, <2>1
  <2>2. CASE d # c
    <3>1. peer'[d] = peer[d] /\ conn'[d] = conn[d] /\ ConnHolds(peer[d], conn[d])
      BY <1>1, <1>2, <2>2
    <3> QED BY <3>1, Zenon
  <2> QED BY <2>1, <2>2
<1> QED BY <1>2, <1>3, <1>4

\* It moves without a token.
LEMMA TokensStay ==
  ASSUME AdmissionInv, NEW c \in Conns, UNCHANGED <<tok, closing, listener, broker>>,
         \A d \in Conns : d # c => peer'[d] = peer[d] /\ conn'[d] = conn[d],
         conn'[c].active <=> conn[c].active,
         conn[c].active => peer'[c].token = peer[c].token /\ peer'[c].honest = peer[c].honest,
         A!Open(c)' => A!Open(c) \/ listener = "open"
  PROVE  /\ \A d \in Conns : ActiveIsAdmitted(d)'
         /\ \A t \in Tokens : TokHolds(t)'
         /\ Shut' /\ tok' \in [Tokens -> TokType] /\ closing' \subseteq Conns
         /\ listener' \in {"open", "closing", "closed"}
         /\ broker' \in {"open", "closing", "closed", "failed"}
<1>0. tok \in [Tokens -> TokType]
  BY DEF AdmissionInv, AdmissionTypes
<1>1. ASSUME NEW d \in Conns PROVE ActiveIsAdmitted(d)'
  <2>1. ActiveIsAdmitted(d)
    BY DEF AdmissionInv
  <2> QED BY <2>1 DEF ActiveIsAdmitted
<1>2. ASSUME NEW t \in Tokens PROVE TokHolds(t)'
  <2>1. TokHolds(t) /\ tok[t].chan \subseteq Conns
    BY <1>0 DEF AdmissionInv, TokType
  <2>2. ASSUME NEW d \in tok[t].chan PROVE peer'[d].token = t /\ peer'[d].honest /\ conn'[d].active
    BY <2>1, <2>2 DEF TokHolds
  <2> QED BY <2>1, <2>2 DEF TokHolds
<1>3. Shut'
  BY DEF AdmissionInv, Shut, A!Open
<1> QED BY <1>1, <1>2, <1>3 DEF AdmissionInv, AdmissionTypes

\* No connection is put in the queue.
LEMMA QueueStays ==
  ASSUME AdmissionInv, NEW c \in Conns, UNCHANGED <<queued, listener>>,
         \A d \in Conns : d # c => conn'[d] = conn[d],
         conn[c].state = "queued" => conn'[c].state = "queued"
  PROVE  QueueHolds' /\ queued' \in Seq(Conns)
<1>1. queued \in Seq(Conns) /\ QueueHolds /\ \A j \in 1..Len(queued) : queued[j] \in Conns
  BY DEF AdmissionInv, AdmissionTypes
<1>2. ASSUME NEW j \in 1..Len(queued) PROVE conn'[queued[j]].state = "queued"
  <2>1. queued[j] \in Conns /\ conn[queued[j]].state = "queued"
    BY <1>1 DEF QueueHolds
  <2> QED BY <2>1
<1> QED BY <1>1, <1>2 DEF QueueHolds

LEMMA ConnFacts ==
  ASSUME AdmissionInv, NEW c \in Conns
  PROVE  /\ peer[c] \in PeerType /\ conn[c] \in ConnType /\ ConnHolds(peer[c], conn[c])
         /\ conn[c].inbox \in Seq(Int) /\ conn[c].read \in Seq(Int) /\ peer[c].sent \in Nat
         /\ conn[c].active \in BOOLEAN
  BY DEF AdmissionInv, AdmissionTypes, ConnType, PeerType

\* A peer writes the chunk I, and is then as q says.
LEMMA WriteStep ==
  ASSUME AdmissionInv, NEW c \in Conns, NEW q \in PeerType, NEW I \in Seq(Int),
         A!Open(c), peer' = [peer EXCEPT ![c] = q], conn' = A!Arrives(c, I),
         q.state = "connected", q.token = peer[c].token, q.honest = peer[c].honest,
         UNCHANGED <<queued, accepting, tok, closing, listener, broker>>,
         ~conn[c].active => Kept(q, conn[c].inbox \o I),
         conn[c].active => peer[c].written = "whole" /\ q.written = "whole"
                           /\ q.sent = peer[c].sent + 1 /\ I = <<q.sent>>
  PROVE  AdmissionInv'
<1> USE ConnFacts
<1>1. PICK k : k = [conn[c] EXCEPT !.inbox = IF conn[c].active THEN @ ELSE @ \o I,
                                   !.read = IF conn[c].active THEN @ \o I ELSE @]
  OBVIOUS
<1>2. conn \in [Conns -> ConnType]
  BY DEF AdmissionInv, AdmissionTypes
<1>3. conn' = [conn EXCEPT ![c] = k]
  BY <1>1, <1>2 DEF A!Arrives
<1>4. /\ k.state = conn[c].state /\ k.active = conn[c].active
      /\ (conn[c].active => k.inbox = conn[c].inbox /\ k.read = conn[c].read \o I)
      /\ (~conn[c].active => k.inbox = conn[c].inbox \o I /\ k.read = conn[c].read)
  BY <1>1 DEF ConnType
<1>5. k \in ConnType
  <2>1. conn[c].inbox \o I \in Seq(Int) /\ conn[c].read \o I \in Seq(Int)
    BY ConcatProperties
  <2> QED BY <1>1, <2>1 DEF ConnType
<1>6. ConnHolds(q, k)
  <2>1. CASE conn[c].active
    <3>1. k.state = "admitted" /\ Said(peer[c].sent, conn[c].read)
      BY <1>4, <2>1 DEF ConnHolds, A!Open
    <3>2. Said(q.sent, k.read)
      BY ZenonT(60), <1>4, <2>1, <3>1, SaidGrows
    <3> QED BY <1>4, <2>1, <3>1, <3>2 DEF ConnHolds
  <2>2. CASE ~conn[c].active
    BY <1>4, <2>2 DEF ConnHolds, A!Open
  <2> QED BY <2>1, <2>2
<1>7. /\ peer' \in [Conns -> PeerType] /\ conn' \in [Conns -> ConnType]
      /\ \A d \in Conns : ConnHolds(peer'[d], conn'[d])
      /\ peer'[c] = q /\ conn'[c] = k
      /\ \A d \in Conns : d # c => peer'[d] = peer[d] /\ conn'[d] = conn[d]
  BY <1>3, <1>5, <1>6, PeersMove
<1>8. QueueHolds' /\ queued' \in Seq(Conns)
  BY <1>4, <1>7, QueueStays
<1>9. /\ \A d \in Conns : ActiveIsAdmitted(d)'
      /\ \A t \in Tokens : TokHolds(t)'
      /\ Shut' /\ tok' \in [Tokens -> TokType] /\ closing' \subseteq Conns
      /\ listener' \in {"open", "closing", "closed"}
      /\ broker' \in {"open", "closing", "closed", "failed"}
  BY <1>4, <1>7, TokensStay DEF A!Open
<1> QED BY <1>7, <1>8, <1>9 DEF AdmissionInv, AdmissionTypes

LEMMA WriteHelloStep ==
  ASSUME AdmissionInv, NEW c \in Conns, NEW whole \in BOOLEAN, NEW more \in BOOLEAN,
         A!WriteHello(c, whole, more)
  PROVE  AdmissionInv'
<1>1. PICK q : q = [peer[c] EXCEPT !.written = IF whole THEN "whole" ELSE "half",
                                   !.sent = IF more THEN 1 ELSE 0]
  OBVIOUS
<1>2. PICK I : I = IF ~whole THEN <<A!Half>>
                   ELSE IF more THEN <<A!Half, A!Rest, 1>> ELSE <<A!Half, A!Rest>>
  OBVIOUS
<1>3. /\ A!Open(c) /\ peer[c].state = "connected" /\ peer[c].written = "none" /\ (more => whole)
      /\ peer' = [peer EXCEPT ![c] = q] /\ conn' = A!Arrives(c, I)
      /\ UNCHANGED <<queued, accepting, tok, closing, listener, broker>>
  <2>1. peer \in [Conns -> PeerType]
    BY DEF AdmissionInv, AdmissionTypes
  <2> QED BY <1>1, <1>2, <2>1 DEF A!WriteHello
<1>4. /\ q \in PeerType /\ q.state = "connected" /\ q.token = peer[c].token
      /\ q.honest = peer[c].honest
      /\ q.written = (IF whole THEN "whole" ELSE "half") /\ q.sent = (IF more THEN 1 ELSE 0)
  BY <1>1, <1>3, ConnFacts DEF PeerType
<1>5. I \in Seq(Int)
  BY <1>2 DEF A!Half, A!Rest
<1>6. ~conn[c].active
  BY <1>3, ConnFacts DEF ConnHolds, A!Open
<1>7. Kept(q, conn[c].inbox \o I)
  <2>1. Kept(peer[c], conn[c].inbox)
    BY <1>3, <1>6, ConnFacts DEF ConnHolds, A!Open
  <2> QED BY <1>2, <1>3, <1>4, <1>5, <2>1, ConnFacts, WritesKeep
<1> QED BY <1>3, <1>4, <1>5, <1>6, <1>7, WriteStep

LEMMA WriteRestStep ==
  ASSUME AdmissionInv, NEW c \in Conns, NEW more \in BOOLEAN, A!WriteRest(c, more)
  PROVE  AdmissionInv'
<1>1. PICK q : q = [peer[c] EXCEPT !.written = "whole", !.sent = IF more THEN 1 ELSE 0]
  OBVIOUS
<1>2. PICK I : I = IF more THEN <<A!Rest, 1>> ELSE <<A!Rest>>
  OBVIOUS
<1>3. /\ A!Open(c) /\ peer[c].state = "connected" /\ peer[c].written = "half"
      /\ peer' = [peer EXCEPT ![c] = q] /\ conn' = A!Arrives(c, I)
      /\ UNCHANGED <<queued, accepting, tok, closing, listener, broker>>
  <2>1. peer \in [Conns -> PeerType]
    BY DEF AdmissionInv, AdmissionTypes
  <2> QED BY <1>1, <1>2, <2>1 DEF A!WriteRest
<1>4. /\ q \in PeerType /\ q.state = "connected" /\ q.token = peer[c].token
      /\ q.honest = peer[c].honest /\ q.written = "whole" /\ q.sent = (IF more THEN 1 ELSE 0)
  BY <1>1, <1>3, ConnFacts DEF PeerType
<1>5. I \in Seq(Int)
  BY <1>2 DEF A!Rest
<1>6. ~conn[c].active
  BY <1>3, ConnFacts DEF ConnHolds, A!Open
<1>7. Kept(q, conn[c].inbox \o I)
  <2>1. Kept(peer[c], conn[c].inbox)
    BY <1>3, <1>6, ConnFacts DEF ConnHolds, A!Open
  <2> QED BY <1>2, <1>3, <1>4, <1>5, <2>1, ConnFacts, WritesKeep
<1> QED BY <1>3, <1>4, <1>5, <1>6, <1>7, WriteStep

LEMMA WriteFrameStep ==
  ASSUME AdmissionInv, NEW c \in Conns, A!WriteFrame(c)
  PROVE  AdmissionInv'
<1>1. PICK q : q = [peer[c] EXCEPT !.sent = @ + 1]
  OBVIOUS
<1>2. PICK I : I = <<peer[c].sent + 1>>
  OBVIOUS
<1>3. /\ A!Open(c) /\ peer[c].state = "connected" /\ peer[c].written = "whole"
      /\ peer' = [peer EXCEPT ![c] = q] /\ conn' = A!Arrives(c, I)
      /\ UNCHANGED <<queued, accepting, tok, closing, listener, broker>>
  <2>1. peer \in [Conns -> PeerType]
    BY DEF AdmissionInv, AdmissionTypes
  <2> QED BY <1>1, <1>2, <2>1 DEF A!WriteFrame
<1>4. /\ q \in PeerType /\ q.state = "connected" /\ q.token = peer[c].token
      /\ q.honest = peer[c].honest /\ q.written = "whole" /\ q.sent = peer[c].sent + 1
  BY <1>1, <1>3, ConnFacts DEF PeerType
<1>5. I \in Seq(Int) /\ I = <<q.sent>>
  BY <1>2, <1>4, ConnFacts
<1>6. ASSUME ~conn[c].active PROVE Kept(q, conn[c].inbox \o I)
  <2>1. Kept(peer[c], conn[c].inbox)
    BY <1>3, <1>6, ConnFacts DEF ConnHolds, A!Open
  <2> QED BY <1>2, <1>3, <1>4, <1>5, <2>1, ConnFacts, WritesKeep
<1> QED BY <1>3, <1>4, <1>5, <1>6, WriteStep

\* A process connects.
LEMMA ConnectStep ==
  ASSUME AdmissionInv, NEW c \in Conns, NEW t \in Tokens \cup {Strange}, NEW h \in BOOLEAN,
         A!Connect(c, t, h)
  PROVE  AdmissionInv'
<1> USE ConnFacts
<1>1. PICK q : q = [state |-> "connected", token |-> t, honest |-> h, written |-> "none", sent |-> 0]
  OBVIOUS
<1>2. PICK k : k = [conn[c] EXCEPT !.state = IF listener = "closing" THEN "closed"
                                             ELSE IF accepting THEN "inspecting" ELSE "queued"]
  OBVIOUS
<1>3. /\ q \in PeerType /\ k \in ConnType /\ peer[c].state = "none" /\ conn[c].state = "none"
      /\ ~conn[c].active /\ conn[c].inbox = <<>>
      /\ k.active = conn[c].active /\ k.inbox = <<>>
      /\ k.state = (IF listener = "closing" THEN "closed"
                    ELSE IF accepting THEN "inspecting" ELSE "queued")
  BY <1>1, <1>2 DEF A!Connect, ConnHolds, PeerType, ConnType
<1>4. peer' = [peer EXCEPT ![c] = q] /\ conn' = [conn EXCEPT ![c] = k]
  <2>1. conn \in [Conns -> ConnType]
    BY DEF AdmissionInv, AdmissionTypes
  <2> QED BY <1>1, <1>2, <2>1 DEF A!Connect
<1>5. ConnHolds(q, k)
  BY <1>1, <1>3 DEF ConnHolds, Kept
<1>6. /\ peer' \in [Conns -> PeerType] /\ conn' \in [Conns -> ConnType]
      /\ \A d \in Conns : ConnHolds(peer'[d], conn'[d])
      /\ peer'[c] = q /\ conn'[c] = k
      /\ \A d \in Conns : d # c => peer'[d] = peer[d] /\ conn'[d] = conn[d]
  BY <1>3, <1>4, <1>5, PeersMove
<1>7. UNCHANGED <<tok, closing, listener, broker>> /\ accepting' \in BOOLEAN
  BY DEF A!Connect, AdmissionInv, AdmissionTypes
<1>8. QueueHolds' /\ queued' \in Seq(Conns)
  <2>1. CASE queued' = queued
    BY <1>3, <1>6, <1>7, <2>1, QueueStays
  <2>2. CASE queued' # queued
    <3>1. queued' = Append(queued, c) /\ listener = "open" /\ k.state = "queued"
      BY <1>3, <2>2 DEF A!Connect, AdmissionInv, AdmissionTypes
    <3>2. queued \in Seq(Conns) /\ QueueHolds /\ \A j \in 1..Len(queued) : queued[j] \in Conns
      BY DEF AdmissionInv, AdmissionTypes
    <3>3. \A j \in 1..Len(queued) : queued[j] # c /\ conn'[queued[j]].state = "queued"
      BY <1>3, <1>6, <3>2 DEF QueueHolds
    <3>4. /\ queued' \in Seq(Conns) /\ Len(queued') = Len(queued) + 1 /\ Len(queued) \in Nat
          /\ queued'[Len(queued) + 1] = c /\ \A j \in 1..Len(queued) : queued'[j] = queued[j]
      BY <3>1, <3>2, AppendFacts
    <3> QED BY <1>3, <1>6, <1>7, <3>1, <3>2, <3>3, <3>4 DEF QueueHolds
  <2> QED BY <2>1, <2>2
<1>9. /\ \A d \in Conns : ActiveIsAdmitted(d)'
      /\ \A x \in Tokens : TokHolds(x)'
      /\ Shut' /\ tok' \in [Tokens -> TokType] /\ closing' \subseteq Conns
      /\ listener' \in {"open", "closing", "closed"}
      /\ broker' \in {"open", "closing", "closed", "failed"}
  <2>1. listener # "closed" /\ listener \in {"open", "closing", "closed"}
    BY DEF A!Connect, AdmissionInv, AdmissionTypes
  <2>2. A!Open(c)' => listener = "open"
    BY <1>3, <1>6, <2>1 DEF A!Open
  <2> QED BY <1>3, <1>6, <1>7, <2>2, TokensStay
<1> QED BY <1>6, <1>7, <1>8, <1>9 DEF AdmissionInv, AdmissionTypes

\* A connection closes, and with it perhaps its place in the queue.
LEMMA CloseStep ==
  ASSUME AdmissionInv, NEW c \in Conns, NEW q \in PeerType,
         q.state = "gone" \/ q = peer[c], conn[c].state # "none",
         q.token = peer[c].token, q.honest = peer[c].honest,
         peer' = [peer EXCEPT ![c] = q],
         conn' = [conn EXCEPT ![c].state = "closed", ![c].inbox = <<>>]
  PROVE  /\ peer' \in [Conns -> PeerType] /\ conn' \in [Conns -> ConnType]
         /\ \A d \in Conns : ConnHolds(peer'[d], conn'[d])
         /\ \A d \in Conns : d # c => peer'[d] = peer[d] /\ conn'[d] = conn[d]
         /\ peer'[c] = q /\ conn'[c].state = "closed" /\ conn'[c].active = conn[c].active
<1>1. PICK k : k = [conn[c] EXCEPT !.state = "closed", !.inbox = <<>>]
  OBVIOUS
<1>2. conn \in [Conns -> ConnType]
  BY DEF AdmissionInv, AdmissionTypes
<1>3. conn' = [conn EXCEPT ![c] = k]
  BY <1>1, <1>2
<1>4. k \in ConnType /\ k.state = "closed" /\ k.active = conn[c].active
  <2>1. <<>> \in Seq(Int)
    OBVIOUS
  <2>2. conn[c] \in ConnType
    BY ConnFacts
  <2> QED BY <1>1, <2>1, <2>2 DEF ConnType
<1>5. ConnHolds(q, k)
  BY <1>4, ConnFacts DEF ConnHolds
<1> QED BY <1>3, <1>4, <1>5, PeersMove

LEMMA SocketClosesStep ==
  ASSUME AdmissionInv, NEW c \in Conns, A!SocketCloses(c)
  PROVE  AdmissionInv'
<1> USE ConnFacts
<1>1. PICK q : q = [peer[c] EXCEPT !.state = "gone"]
  OBVIOUS
<1>2. q \in PeerType /\ q.state = "gone" /\ q.token = peer[c].token /\ q.honest = peer[c].honest
  BY <1>1 DEF PeerType
<1>3. /\ A!Open(c) /\ UNCHANGED <<accepting, tok, closing, listener, broker>>
      /\ peer' = [peer EXCEPT ![c] = q]
      /\ conn' = [conn EXCEPT ![c].state = "closed", ![c].inbox = <<>>]
  <2>1. peer \in [Conns -> PeerType]
    BY DEF AdmissionInv, AdmissionTypes
  <2> QED BY <1>1, <2>1 DEF A!SocketCloses
<1>4. /\ peer' \in [Conns -> PeerType] /\ conn' \in [Conns -> ConnType]
      /\ \A d \in Conns : ConnHolds(peer'[d], conn'[d])
      /\ \A d \in Conns : d # c => peer'[d] = peer[d] /\ conn'[d] = conn[d]
      /\ peer'[c] = q /\ conn'[c].state = "closed" /\ conn'[c].active = conn[c].active
  BY <1>2, <1>3, CloseStep DEF A!Open
<1>5. /\ \A d \in Conns : ActiveIsAdmitted(d)'
      /\ \A t \in Tokens : TokHolds(t)'
      /\ Shut' /\ tok' \in [Tokens -> TokType] /\ closing' \subseteq Conns
      /\ listener' \in {"open", "closing", "closed"}
      /\ broker' \in {"open", "closing", "closed", "failed"}
  BY <1>2, <1>3, <1>4, TokensStay DEF A!Open
<1>6. QueueHolds' /\ queued' \in Seq(Conns)
  <2>1. queued \in Seq(Conns) /\ QueueHolds /\ Len(queued) \in Nat
    BY DEF AdmissionInv, AdmissionTypes
  <2>2. CASE \E j \in 1..Len(queued) : queued[j] = c
    <3>1. PICK j \in 1..Len(queued) :
            queued[j] = c /\ queued' = SubSeq(queued, 1, j - 1) \o SubSeq(queued, j + 1, Len(queued))
      BY <2>2 DEF A!SocketCloses
    <3>2. /\ SubSeq(queued, 1, j - 1) \in Seq(Conns) /\ Len(SubSeq(queued, 1, j - 1)) = j - 1
          /\ \A i \in 1..(j - 1) : SubSeq(queued, 1, j - 1)[i] = queued[i]
      <4>1. \A i \in 1..(j - 1) : queued[i] \in Conns
        BY <2>1
      <4>2. /\ SubSeq(queued, 1, j - 1) \in Seq(Conns)
            /\ Len(SubSeq(queued, 1, j - 1)) = IF 1 <= j - 1 THEN (j - 1) - 1 + 1 ELSE 0
            /\ \A i \in 1..((j - 1) - 1 + 1) : SubSeq(queued, 1, j - 1)[i] = queued[1 + i - 1]
        BY <2>1, <4>1, SubSeqProperties
      <4> QED BY <2>1, <4>2
    <3>3. /\ SubSeq(queued, j + 1, Len(queued)) \in Seq(Conns)
          /\ Len(SubSeq(queued, j + 1, Len(queued))) = Len(queued) - j
          /\ \A i \in 1..(Len(queued) - j) : SubSeq(queued, j + 1, Len(queued))[i] = queued[j + i]
      <4>1. \A i \in (j + 1)..Len(queued) : queued[i] \in Conns
        BY <2>1
      <4>2. /\ SubSeq(queued, j + 1, Len(queued)) \in Seq(Conns)
            /\ Len(SubSeq(queued, j + 1, Len(queued)))
                 = IF j + 1 <= Len(queued) THEN Len(queued) - (j + 1) + 1 ELSE 0
            /\ \A i \in 1..(Len(queued) - (j + 1) + 1) :
                 SubSeq(queued, j + 1, Len(queued))[i] = queued[(j + 1) + i - 1]
        BY <2>1, <4>1, SubSeqProperties
      <4> QED BY <2>1, <4>2
    <3>4. /\ queued' \in Seq(Conns) /\ Len(queued') = Len(queued) - 1
          /\ \A i \in 1..(Len(queued) - 1) : queued'[i] = IF i <= j - 1 THEN queued[i] ELSE queued[i + 1]
      <4>1. PICK U : U = SubSeq(queued, 1, j - 1)
        OBVIOUS
      <4>2. PICK V : V = SubSeq(queued, j + 1, Len(queued))
        OBVIOUS
      <4>3. /\ U \in Seq(Conns) /\ Len(U) = j - 1 /\ \A i \in 1..(j - 1) : U[i] = queued[i]
            /\ V \in Seq(Conns) /\ Len(V) = Len(queued) - j
            /\ \A i \in 1..(Len(queued) - j) : V[i] = queued[j + i]
        BY <3>2, <3>3, <4>1, <4>2
      <4>4. /\ U \o V \in Seq(Conns) /\ Len(U \o V) = Len(U) + Len(V)
            /\ \A i \in 1..(Len(U) + Len(V)) : (U \o V)[i] = IF i <= Len(U) THEN U[i] ELSE V[i - Len(U)]
        BY <4>3, ConcatProperties
      <4>5. queued' = U \o V
        BY <3>1, <4>1, <4>2
      <4>6. ASSUME NEW i \in 1..(Len(queued) - 1)
            PROVE  (U \o V)[i] = IF i <= j - 1 THEN queued[i] ELSE queued[i + 1]
        <5>1. CASE i <= j - 1
          BY <2>1, <4>3, <4>4, <5>1
        <5>2. CASE ~(i <= j - 1)
          <6>1. (U \o V)[i] = V[i - (j - 1)]
            BY SMTT(30), <2>1, <4>3, <4>4, <5>2
          <6>2. V[i - (j - 1)] = queued[j + (i - (j - 1))]
            BY <2>1, <4>3, <5>2
          <6>3. j + (i - (j - 1)) = i + 1
            BY <2>1
          <6> QED BY <5>2, <6>1, <6>2, <6>3
        <5> QED BY <5>1, <5>2
      <4>7. Len(U \o V) = Len(queued) - 1
        BY <2>1, <4>3, <4>4
      <4> QED BY ONLY <4>4, <4>5, <4>6, <4>7
    <3>5. ASSUME NEW i \in 1..Len(queued')
          PROVE  \E l \in 1..Len(queued) : l # j /\ queued'[i] = queued[l]
                                           /\ (i <= j - 1 => l = i) /\ (~(i <= j - 1) => l = i + 1)
      BY <2>1, <3>4
    <3>6. ASSUME NEW i \in 1..Len(queued') PROVE conn'[queued'[i]].state = "queued"
      <4>1. PICK l \in 1..Len(queued) : l # j /\ queued'[i] = queued[l]
        BY <3>5
      <4>2. queued[l] # c /\ conn[queued[l]].state = "queued" /\ queued[l] \in Conns
        BY <2>1, <3>1, <4>1 DEF QueueHolds
      <4> QED BY <1>4, <4>1, <4>2
    <3>7. ASSUME NEW i \in 1..Len(queued'), NEW m \in 1..Len(queued'), queued'[i] = queued'[m]
          PROVE  i = m
      <4>1. PICK l \in 1..Len(queued) : /\ l # j /\ queued'[i] = queued[l]
                                        /\ (i <= j - 1 => l = i) /\ (~(i <= j - 1) => l = i + 1)
        BY <3>5
      <4>2. PICK n \in 1..Len(queued) : /\ n # j /\ queued'[m] = queued[n]
                                        /\ (m <= j - 1 => n = m) /\ (~(m <= j - 1) => n = m + 1)
        BY <3>5
      <4>3. l = n
        BY <2>1, <3>7, <4>1, <4>2 DEF QueueHolds
      <4>4. i \in Nat /\ m \in Nat /\ j \in Nat
        BY <2>1, <3>4
      <4> QED BY <4>1, <4>2, <4>3, <4>4
    <3>8. listener' # "open" => FALSE
      BY <1>3, <2>1, <2>2 DEF QueueHolds
    <3> QED BY <3>4, <3>6, <3>7, <3>8 DEF QueueHolds
  <2>3. CASE ~\E j \in 1..Len(queued) : queued[j] = c
    <3>1. queued' = queued
      BY <2>3 DEF A!SocketCloses
    <3>2. \A j \in 1..Len(queued) : queued[j] # c /\ queued[j] \in Conns
      BY <2>1, <2>3
    <3>3. \A j \in 1..Len(queued) : conn'[queued[j]].state = "queued"
      BY <1>4, <2>1, <3>2 DEF QueueHolds
    <3> QED BY ZenonT(60), <1>3, <2>1, <3>1, <3>3 DEF QueueHolds
  <2> QED BY <2>2, <2>3
<1> QED BY <1>3, <1>4, <1>5, <1>6 DEF AdmissionInv, AdmissionTypes

LEMMA ClosesConnectionStep ==
  ASSUME AdmissionInv, NEW c \in Conns, A!ClosesConnection(c)
  PROVE  AdmissionInv'
<1> USE ConnFacts
<1>1. PICK q : q = [peer[c] EXCEPT !.state = "gone"]
  OBVIOUS
<1>2. q \in PeerType /\ q.state = "gone" /\ q.token = peer[c].token /\ q.honest = peer[c].honest
  BY <1>1 DEF PeerType
<1>3. /\ A!Open(c) /\ c \in closing /\ UNCHANGED <<queued, accepting, tok, closing, listener, broker>>
      /\ peer' = [peer EXCEPT ![c] = q]
      /\ conn' = [conn EXCEPT ![c].state = "closed", ![c].inbox = <<>>]
  <2>1. peer \in [Conns -> PeerType]
    BY DEF AdmissionInv, AdmissionTypes
  <2> QED BY <1>1, <2>1 DEF A!ClosesConnection
<1>4. /\ peer' \in [Conns -> PeerType] /\ conn' \in [Conns -> ConnType]
      /\ \A d \in Conns : ConnHolds(peer'[d], conn'[d])
      /\ \A d \in Conns : d # c => peer'[d] = peer[d] /\ conn'[d] = conn[d]
      /\ peer'[c] = q /\ conn'[c].state = "closed" /\ conn'[c].active = conn[c].active
  BY <1>2, <1>3, CloseStep DEF A!Open
<1>5. /\ \A d \in Conns : ActiveIsAdmitted(d)'
      /\ \A t \in Tokens : TokHolds(t)'
      /\ Shut' /\ tok' \in [Tokens -> TokType] /\ closing' \subseteq Conns
      /\ listener' \in {"open", "closing", "closed"}
      /\ broker' \in {"open", "closing", "closed", "failed"}
  BY <1>2, <1>3, <1>4, TokensStay DEF A!Open
<1>6. QueueHolds' /\ queued' \in Seq(Conns)
  \* A listener that closes connections has emptied its queue.
  <2>1. queued = <<>> /\ listener # "open"
    BY <1>3 DEF AdmissionInv, Shut, QueueHolds
  <2> QED BY <1>3, <2>1 DEF QueueHolds
<1> QED BY <1>3, <1>4, <1>5, <1>6 DEF AdmissionInv, AdmissionTypes

\* The admission of t, which has no channel yet, gets the entry e.
LEMMA TokensChange ==
  ASSUME AdmissionInv, NEW t \in Tokens, NEW e \in TokType, tok[t].chan = {},
         tok' = [tok EXCEPT ![t] = e],
         e.state # "resolved" => e.chan = {},
         e.state = "resolved" => \E c \in Conns : e.chan = {c},
         \A d \in e.chan : peer[d].token = t /\ peer[d].honest,
         peer' = peer, \A d \in Conns : conn'[d].active <=> conn[d].active \/ d \in e.chan
  PROVE  /\ tok' \in [Tokens -> TokType] /\ tok'[t] = e
         /\ \A u \in Tokens : u # t => tok'[u] = tok[u]
         /\ \A d \in Conns : ActiveIsAdmitted(d)'
         /\ \A u \in Tokens : TokHolds(u)'
<1>1. tok \in [Tokens -> TokType]
  BY DEF AdmissionInv, AdmissionTypes
<1>2. tok' \in [Tokens -> TokType] /\ tok'[t] = e /\ \A u \in Tokens : u # t => tok'[u] = tok[u]
  BY <1>1
<1>3. e.chan \subseteq Conns
  BY DEF TokType
<1>4. ASSUME NEW d \in Conns, conn'[d].active
      PROVE  peer'[d].token \in Tokens /\ tok'[peer'[d].token].chan = {d}
  <2>1. CASE d \in e.chan
    BY <1>2, <1>3, <2>1
  <2>2. CASE d \notin e.chan
    <3>1. peer[d].token \in Tokens /\ tok[peer[d].token].chan = {d}
      BY <1>4, <2>2 DEF AdmissionInv, ActiveIsAdmitted
    <3>2. peer[d].token # t
      BY <3>1
    <3> QED BY <1>2, <3>1, <3>2
  <2> QED BY <2>1, <2>2
<1>5. ASSUME NEW u \in Tokens PROVE TokHolds(u)'
  <2>1. CASE u = t
    BY <1>2, <1>3, <2>1 DEF TokHolds
  <2>2. CASE u # t
    <3>1. TokHolds(u) /\ tok[u].chan \subseteq Conns /\ tok'[u] = tok[u]
      BY <1>1, <1>2, <2>2 DEF AdmissionInv, TokType
    <3> QED BY <3>1 DEF TokHolds
  <2> QED BY <2>1, <2>2
<1> QED BY <1>2, <1>4, <1>5 DEF ActiveIsAdmitted

\* The broker refuses a connection, and perhaps rejects the admission it names.
LEMMA RefusedStep ==
  ASSUME AdmissionInv, NEW c \in Conns, conn[c].state = "inspecting", A!Refused(c),
         UNCHANGED <<peer, queued, accepting, closing, listener, broker>>,
         \/ tok' = tok
         \/ /\ peer[c].token \in Tokens /\ tok[peer[c].token].state = "pending"
            /\ A!Consumes(peer[c].token, {})
  PROVE  AdmissionInv'
<1> USE ConnFacts
<1>1. peer' = [peer EXCEPT ![c] = peer[c]]
  <2>1. peer \in [Conns -> PeerType]
    BY DEF AdmissionInv, AdmissionTypes
  <2> QED BY <2>1
<1>2. /\ peer' \in [Conns -> PeerType] /\ conn' \in [Conns -> ConnType]
      /\ \A d \in Conns : ConnHolds(peer'[d], conn'[d])
      /\ \A d \in Conns : d # c => peer'[d] = peer[d] /\ conn'[d] = conn[d]
      /\ conn'[c].state = "closed" /\ conn'[c].active = conn[c].active
  BY ZenonT(60), <1>1, CloseStep DEF A!Refused
<1>3. QueueHolds' /\ queued' \in Seq(Conns)
  BY <1>2, QueueStays
<1>4. /\ \A d \in Conns : ActiveIsAdmitted(d)'
      /\ \A t \in Tokens : TokHolds(t)'
      /\ Shut' /\ tok' \in [Tokens -> TokType] /\ closing' \subseteq Conns
      /\ listener' \in {"open", "closing", "closed"}
      /\ broker' \in {"open", "closing", "closed", "failed"}
  <2>1. CASE tok' = tok
    BY <1>2, <2>1, TokensStay DEF A!Open
  <2>2. CASE tok' # tok
    <3>1. PICK t \in Tokens : t = peer[c].token
      BY <2>2
    <3>2. PICK e : e = [state |-> "rejected", chan |-> {}]
      OBVIOUS
    <3>3. e \in TokType /\ e.state = "rejected" /\ e.chan = {}
      BY <3>2 DEF TokType
    <3>4. tok[t].state = "pending" /\ tok[t].chan = {} /\ tok' = [tok EXCEPT ![t] = e]
      BY <2>2, <3>1, <3>2 DEF A!Consumes, AdmissionInv, TokHolds
    <3>5. \A d \in Conns : conn'[d].active <=> conn[d].active \/ d \in e.chan
      BY <1>2, <3>3
    <3>6. /\ tok' \in [Tokens -> TokType] /\ tok'[t] = e
          /\ \A u \in Tokens : u # t => tok'[u] = tok[u]
          /\ \A d \in Conns : ActiveIsAdmitted(d)'
          /\ \A u \in Tokens : TokHolds(u)'
      BY <3>3, <3>4, <3>5, TokensChange
    <3>7. Shut'
      <4>1. \A u \in Tokens : tok'[u].state = "pending" => tok[u].state = "pending"
        BY <3>3, <3>4, <3>6
      <4> QED BY <1>2, <4>1 DEF AdmissionInv, Shut, A!Open
    <3> QED BY <3>6, <3>7 DEF AdmissionInv, AdmissionTypes
  <2> QED BY <2>1, <2>2
<1> QED BY <1>2, <1>3, <1>4 DEF AdmissionInv, AdmissionTypes

\* The broker hands a connection, with what came after its Hello, to its admission.
LEMMA AdmittedStep ==
  ASSUME AdmissionInv, NEW c \in Conns, A!HelloComplete(c), NEW t \in Tokens, t = peer[c].token,
         tok[t].state = "pending", peer[c].honest,
         conn' = [conn EXCEPT ![c].state = "admitted", ![c].active = TRUE,
                              ![c].read = A!AfterHello(c), ![c].inbox = <<>>],
         A!Consumes(t, {c}), UNCHANGED <<peer, queued, accepting, closing, listener, broker>>
  PROVE  AdmissionInv'
<1> USE ConnFacts
<1>1. PICK k : k = [conn[c] EXCEPT !.state = "admitted", !.active = TRUE,
                                   !.read = A!AfterHello(c), !.inbox = <<>>]
  OBVIOUS
<1>2. conn \in [Conns -> ConnType] /\ peer \in [Conns -> PeerType]
  BY DEF AdmissionInv, AdmissionTypes
<1>3. conn' = [conn EXCEPT ![c] = k] /\ peer' = [peer EXCEPT ![c] = peer[c]]
  BY <1>1, <1>2
<1>4. conn[c].state = "inspecting" /\ ~conn[c].active /\ Kept(peer[c], conn[c].inbox)
  BY DEF A!HelloComplete, ConnHolds
<1>5. peer[c].written = "whole"
  <2>1. peer[c].written \in {"none", "half", "whole"}
    BY DEF PeerType
  <2>2. Len(conn[c].inbox) >= 2
    BY DEF A!HelloComplete
  <2>3. /\ peer[c].written = "none" => Len(conn[c].inbox) = 0
        /\ peer[c].written = "half" => Len(conn[c].inbox) = 1
    BY <1>4, Zenon DEF Kept
  <2>4. ~(0 >= 2) /\ ~(1 >= 2)
    OBVIOUS
  <2> QED BY <2>1, <2>2, <2>3, <2>4
<1>6. Said(peer[c].sent, A!AfterHello(c)) /\ A!AfterHello(c) \in Seq(Int)
  BY <1>4, <1>5, SaidFirst DEF A!AfterHello
<1>7. /\ k \in ConnType /\ k.state = "admitted" /\ k.active = TRUE /\ k.read = A!AfterHello(c)
  <2>1. <<>> \in Seq(Int)
    OBVIOUS
  <2> QED BY <1>1, <1>6, <2>1 DEF ConnType
<1>8. ConnHolds(peer[c], k)
  BY <1>5, <1>6, <1>7, <1>4 DEF ConnHolds
<1>9. /\ peer' \in [Conns -> PeerType] /\ conn' \in [Conns -> ConnType]
      /\ \A d \in Conns : ConnHolds(peer'[d], conn'[d])
      /\ conn'[c] = k /\ \A d \in Conns : d # c => conn'[d] = conn[d]
  BY ZenonT(60), <1>3, <1>7, <1>8, PeersMove
<1>10. QueueHolds' /\ queued' \in Seq(Conns)
  BY <1>4, <1>9, QueueStays
<1>11. PICK e : e = [state |-> "resolved", chan |-> {c}]
  OBVIOUS
<1>12. e \in TokType /\ e.state = "resolved" /\ e.chan = {c}
  BY <1>11 DEF TokType
<1>13. tok[t].chan = {} /\ tok' = [tok EXCEPT ![t] = e]
  <2>1. {c} # {}
    OBVIOUS
  <2> QED BY <1>11, <2>1 DEF A!Consumes, AdmissionInv, TokHolds
<1>14. \A d \in Conns : conn'[d].active <=> conn[d].active \/ d \in e.chan
  BY <1>7, <1>9, <1>12
<1>15. /\ tok' \in [Tokens -> TokType] /\ tok'[t] = e
       /\ \A u \in Tokens : u # t => tok'[u] = tok[u]
       /\ \A d \in Conns : ActiveIsAdmitted(d)'
       /\ \A u \in Tokens : TokHolds(u)'
  BY <1>12, <1>13, <1>14, TokensChange
<1>16. Shut'
  <2>1. \A u \in Tokens : tok'[u].state = "pending" => tok[u].state = "pending"
    BY <1>12, <1>15
  <2>2. \A d \in Conns : A!Open(d)' => A!Open(d)
    BY <1>4, <1>9 DEF A!Open
  <2> QED BY <2>1, <2>2 DEF AdmissionInv, Shut
<1> QED BY <1>9, <1>10, <1>15, <1>16 DEF AdmissionInv, AdmissionTypes

LEMMA InspectStep ==
  ASSUME AdmissionInv, NEW c \in Conns, A!Inspect(c)
  PROVE  AdmissionInv'
<1>1. conn[c].state = "inspecting" /\ UNCHANGED <<peer, queued, accepting, closing, listener, broker>>
  BY DEF A!Inspect, A!HelloComplete
<1>2. CASE peer[c].token \notin Tokens \/ tok[peer[c].token].state # "pending"
  <2>1. A!Refused(c) /\ tok' = tok
    BY <1>2 DEF A!Inspect
  <2> QED BY <1>1, <2>1, RefusedStep
<1>3. CASE ~(peer[c].token \notin Tokens \/ tok[peer[c].token].state # "pending")
  <2>1. CASE A!Refused(c) /\ A!Consumes(peer[c].token, {})
    BY <1>1, <1>3, <2>1, RefusedStep
  <2>2. CASE /\ peer[c].honest
             /\ conn' = [conn EXCEPT ![c].state = "admitted", ![c].active = TRUE,
                                     ![c].read = A!AfterHello(c), ![c].inbox = <<>>]
             /\ A!Consumes(peer[c].token, {c})
    <3>1. PICK t \in Tokens : t = peer[c].token
      BY <1>3
    <3>2. A!HelloComplete(c) /\ tok[t].state = "pending" /\ A!Consumes(t, {c})
      BY <1>3, <2>2, <3>1 DEF A!Inspect
    <3> QED BY <1>1, <2>2, <3>1, <3>2, AdmittedStep
  <2> QED BY <1>3, <2>1, <2>2 DEF A!Inspect
<1> QED BY <1>2, <1>3

LEMMA AcceptStep ==
  ASSUME AdmissionInv, A!Accept
  PROVE  AdmissionInv'
<1>1. /\ listener = "open" /\ UNCHANGED <<peer, tok, closing, listener, broker>>
      /\ peer \in [Conns -> PeerType] /\ conn \in [Conns -> ConnType] /\ queued \in Seq(Conns)
      /\ accepting \in BOOLEAN /\ QueueHolds
  BY DEF A!Accept, AdmissionInv, AdmissionTypes
<1>2. CASE queued # <<>>
  <2>1. PICK c \in Conns : c = Head(queued)
    BY <1>1, <1>2, TailFacts
  <2>2. /\ Tail(queued) \in Seq(Conns) /\ Len(Tail(queued)) = Len(queued) - 1 /\ Len(queued) \in Nat
        /\ Len(queued) >= 1 /\ c = queued[1]
        /\ \A j \in 1..Len(Tail(queued)) : Tail(queued)[j] = queued[j + 1]
    BY <1>1, <1>2, <2>1, TailFacts
  <2>3. /\ conn' = [conn EXCEPT ![c].state = "inspecting"] /\ queued' = Tail(queued)
        /\ accepting' = accepting
    BY <1>2, <2>1 DEF A!Accept
  <2>4. conn[c].state = "queued"
    BY <1>1, <2>2 DEF QueueHolds
  <2>5. PICK k : k = [conn[c] EXCEPT !.state = "inspecting"]
    OBVIOUS
  <2>6. /\ k \in ConnType /\ k.state = "inspecting" /\ k.active = conn[c].active
        /\ k.inbox = conn[c].inbox
    BY <2>5, ConnFacts DEF ConnType
  <2>7. conn' = [conn EXCEPT ![c] = k] /\ peer' = [peer EXCEPT ![c] = peer[c]]
    BY <1>1, <2>3, <2>5
  <2>8. ConnHolds(peer[c], k)
    BY <2>4, <2>6, ConnFacts DEF ConnHolds
  <2>9. /\ conn' \in [Conns -> ConnType] /\ \A d \in Conns : ConnHolds(peer'[d], conn'[d])
        /\ conn'[c] = k /\ \A d \in Conns : d # c => conn'[d] = conn[d]
    BY <2>6, <2>7, <2>8, ConnFacts, PeersMove
  <2>10. QueueHolds' /\ queued' \in Seq(Conns)
    <3>1. ASSUME NEW j \in 1..Len(queued') PROVE conn'[queued'[j]].state = "queued"
      <4>1. j + 1 \in 1..Len(queued) /\ queued'[j] = queued[j + 1] /\ j + 1 # 1 /\ 1 \in 1..Len(queued)
        BY <2>2, <2>3
      <4>2. queued[j + 1] # c
        BY <1>1, <2>2, <4>1 DEF QueueHolds
      <4>3. queued[j + 1] \in Conns /\ conn[queued[j + 1]].state = "queued"
        BY <1>1, <4>1 DEF QueueHolds
      <4> QED BY <2>9, <4>1, <4>2, <4>3
    <3>2. ASSUME NEW i \in 1..Len(queued'), NEW j \in 1..Len(queued'), queued'[i] = queued'[j]
          PROVE  i = j
      <4>1. /\ i \in Nat /\ j \in Nat /\ i + 1 \in 1..Len(queued) /\ j + 1 \in 1..Len(queued)
            /\ queued'[i] = queued[i + 1] /\ queued'[j] = queued[j + 1]
        BY <2>2, <2>3
      <4>2. i + 1 = j + 1
        BY <1>1, <3>2, <4>1 DEF QueueHolds
      <4> QED BY <4>1, <4>2
    <3> QED BY <1>1, <2>2, <2>3, <3>1, <3>2 DEF QueueHolds
  <2>11. /\ \A d \in Conns : ActiveIsAdmitted(d)'
         /\ \A t \in Tokens : TokHolds(t)'
         /\ Shut' /\ tok' \in [Tokens -> TokType] /\ closing' \subseteq Conns
         /\ listener' \in {"open", "closing", "closed"}
         /\ broker' \in {"open", "closing", "closed", "failed"}
    BY <1>1, <2>6, <2>9, ConnFacts, TokensStay
  <2> QED BY <1>1, <2>3, <2>9, <2>10, <2>11 DEF AdmissionInv, AdmissionTypes
<1>3. CASE queued = <<>>
  <2>1. UNCHANGED <<conn, queued>> /\ accepting' = TRUE
    BY <1>3 DEF A!Accept
  <2> QED BY <1>1, <2>1 DEF AdmissionInv, AdmissionTypes, QueueHolds, Shut, A!Open, ActiveIsAdmitted, TokHolds
<1> QED BY <1>2, <1>3

\* An admission begins, or is cancelled.
LEMMA TokenStep ==
  ASSUME AdmissionInv, NEW t \in Tokens, A!Admit(t) \/ A!AbortAdmission(t)
  PROVE  AdmissionInv'
<1>1. PICK e : e = IF A!Admit(t) /\ broker = "open" THEN A!Waiting
                   ELSE IF A!Admit(t) THEN [state |-> "rejected", chan |-> {}]
                   ELSE [state |-> "aborted", chan |-> {}]
  OBVIOUS
<1>2. /\ e \in TokType /\ e.chan = {} /\ e.state # "resolved"
      /\ (e.state = "pending" => broker = "open")
  <2>1. CASE A!Admit(t) /\ broker = "open"
    BY <1>1, <2>1 DEF A!Waiting, TokType
  <2>2. CASE A!Admit(t) /\ broker # "open"
    BY <1>1, <2>2 DEF TokType
  <2>3. CASE ~A!Admit(t)
    BY <1>1, <2>3 DEF TokType
  <2> QED BY <2>1, <2>2, <2>3
<1>3. /\ tok' = [tok EXCEPT ![t] = e] /\ tok[t].state # "resolved"
      /\ UNCHANGED <<peer, conn, queued, accepting, closing, listener, broker>>
  <2>1. CASE A!Admit(t)
    BY <1>1, <2>1 DEF A!Admit
  <2>2. CASE ~A!Admit(t)
    BY <1>1, <2>2 DEF A!AbortAdmission
  <2> QED BY <2>1, <2>2
<1>4. tok[t].chan = {}
  BY <1>3 DEF AdmissionInv, TokHolds
<1>5. /\ tok' \in [Tokens -> TokType] /\ tok'[t] = e
      /\ \A u \in Tokens : u # t => tok'[u] = tok[u]
      /\ \A d \in Conns : ActiveIsAdmitted(d)'
      /\ \A u \in Tokens : TokHolds(u)'
  BY <1>2, <1>3, <1>4, TokensChange
<1>6. Shut'
  BY <1>2, <1>3, <1>5 DEF AdmissionInv, Shut, A!Open
<1> QED BY <1>3, <1>5, <1>6 DEF AdmissionInv, AdmissionTypes, QueueHolds

\* Every admission that waits is rejected.
LEMMA RejectsStep ==
  ASSUME AdmissionInv, A!RejectsPending, UNCHANGED <<peer, conn>>
  PROVE  /\ tok' \in [Tokens -> TokType]
         /\ \A t \in Tokens : tok'[t].state # "pending"
         /\ \A d \in Conns : ActiveIsAdmitted(d)'
         /\ \A t \in Tokens : TokHolds(t)'
<1>1. PICK e : e = [state |-> "rejected", chan |-> {}]
  OBVIOUS
<1>2. e \in TokType /\ e.state = "rejected" /\ e.chan = {}
  BY <1>1 DEF TokType
<1>3. tok \in [Tokens -> TokType]
  BY DEF AdmissionInv, AdmissionTypes
<1>4. tok' = [t \in Tokens |-> IF tok[t].state = "pending" THEN e ELSE tok[t]]
  BY <1>1 DEF A!RejectsPending
<1>5. /\ tok' \in [Tokens -> TokType]
      /\ \A t \in Tokens : tok'[t] = IF tok[t].state = "pending" THEN e ELSE tok[t]
  BY <1>2, <1>3, <1>4
<1>6. ASSUME NEW t \in Tokens
      PROVE  tok'[t].chan = tok[t].chan /\ (tok'[t].state = "resolved" <=> tok[t].state = "resolved")
  <2>1. tok[t].state = "pending" => tok[t].chan = {}
    BY DEF AdmissionInv, TokHolds
  <2> QED BY <1>2, <1>5, <2>1
<1>7. ASSUME NEW d \in Conns PROVE ActiveIsAdmitted(d)'
  <2>1. ActiveIsAdmitted(d)
    BY DEF AdmissionInv
  <2> QED BY <1>6, <2>1 DEF ActiveIsAdmitted
<1>8. ASSUME NEW t \in Tokens PROVE TokHolds(t)'
  <2>1. TokHolds(t)
    BY DEF AdmissionInv
  <2> QED BY <1>6, <2>1 DEF TokHolds
<1> QED BY <1>2, <1>5, <1>7, <1>8

\* The broker or the listener fails or closes; no connection changes.
LEMMA ShutStep ==
  ASSUME AdmissionInv,
         A!BrokerCloses \/ A!ListenerFails \/ A!AcceptThrows \/ A!CloseCompletes
  PROVE  AdmissionInv'
<1>1. UNCHANGED <<peer, conn>>
  BY DEF A!BrokerCloses, A!ListenerFails, A!AcceptThrows, A!CloseCompletes
<1>2. A!RejectsPending \/ tok' = tok
  BY DEF A!BrokerCloses, A!ListenerFails, A!AcceptThrows, A!CloseCompletes
<1>3. /\ tok' \in [Tokens -> TokType]
      /\ A!RejectsPending => \A t \in Tokens : tok'[t].state # "pending"
      /\ \A d \in Conns : ActiveIsAdmitted(d)'
      /\ \A t \in Tokens : TokHolds(t)'
  <2>1. CASE A!RejectsPending
    BY <1>1, <2>1, RejectsStep
  <2>2. CASE tok' = tok /\ ~A!RejectsPending
    BY <1>1, <2>2 DEF AdmissionInv, AdmissionTypes, ActiveIsAdmitted, TokHolds
  <2> QED BY <1>2, <2>1, <2>2
<1>4. /\ listener' \in {"open", "closing", "closed"} /\ closing' \subseteq Conns
      /\ broker' \in {"open", "closing", "closed", "failed"} /\ accepting' \in BOOLEAN
  BY DEF A!BrokerCloses, A!ListenerFails, A!AcceptThrows, A!CloseCompletes, A!ShutsDown,
         AdmissionInv, AdmissionTypes
<1>5. QueueHolds' /\ queued' \in Seq(Conns)
  <2>1. CASE queued' = <<>>
    BY <2>1 DEF QueueHolds
  <2>2. CASE queued' # <<>>
    <3>1. queued' = queued /\ (listener' # "open" => listener # "open")
      BY <2>2 DEF A!BrokerCloses, A!ListenerFails, A!AcceptThrows, A!CloseCompletes
    <3> QED BY <1>1, <3>1 DEF AdmissionInv, AdmissionTypes, QueueHolds
  <2> QED BY <2>1, <2>2
<1>6. Shut'
  <2>1. \A d \in Conns : A!Open(d)' <=> A!Open(d)
    BY <1>1 DEF A!Open
  <2>2. Shut /\ listener \in {"open", "closing", "closed"}
    BY DEF AdmissionInv, AdmissionTypes
  <2>3. CASE A!BrokerCloses
    BY <1>3, <2>1, <2>2, <2>3 DEF Shut, A!BrokerCloses, A!ShutsDown
  <2>4. CASE A!ListenerFails
    BY <1>3, <2>1, <2>2, <2>4 DEF Shut, A!ListenerFails, A!ShutsDown
  <2>5. CASE A!AcceptThrows
    BY <1>3, <2>1, <2>2, <2>5 DEF Shut, A!AcceptThrows
  <2>6. CASE A!CloseCompletes
    BY <2>1, <2>2, <2>6 DEF Shut, A!CloseCompletes
  <2> QED BY <2>3, <2>4, <2>5, <2>6
<1> QED BY <1>1, <1>3, <1>4, <1>5, <1>6 DEF AdmissionInv, AdmissionTypes

LEMMA AdmissionInitHolds == A!Init => AdmissionInv
<1> SUFFICES ASSUME A!Init PROVE AdmissionInv
  OBVIOUS
<1>1. PICK p : p = [state |-> "none", token |-> Strange, honest |-> FALSE, written |-> "none", sent |-> 0]
  OBVIOUS
<1>2. PICK k : k = [state |-> "none", active |-> FALSE, inbox |-> <<>>, read |-> <<>>]
  OBVIOUS
<1>3. PICK e : e = [state |-> "none", chan |-> {}]
  OBVIOUS
<1>4. p \in PeerType /\ p.state = "none"
  BY <1>1 DEF PeerType
<1>5. k \in ConnType /\ k.state = "none" /\ ~k.active /\ k.inbox = <<>>
  <2>1. <<>> \in Seq(Int)
    OBVIOUS
  <2> QED BY <1>2, <2>1 DEF ConnType
<1>6. e \in TokType /\ e.state = "none" /\ e.chan = {}
  BY <1>3 DEF TokType
<1>7. /\ peer = [c \in Conns |-> p] /\ conn = [c \in Conns |-> k] /\ tok = [t \in Tokens |-> e]
      /\ queued = <<>> /\ accepting = FALSE /\ closing = {} /\ listener = "open" /\ broker = "open"
  BY <1>1, <1>2, <1>3 DEF A!Init
<1>8. AdmissionTypes
  <2>1. peer \in [Conns -> PeerType]
    BY <1>4, <1>7
  <2>2. conn \in [Conns -> ConnType]
    BY <1>5, <1>7
  <2>3. tok \in [Tokens -> TokType]
    BY <1>6, <1>7
  <2>4. queued \in Seq(Conns)
    BY <1>7
  <2> QED BY <1>7, <2>1, <2>2, <2>3, <2>4 DEF AdmissionTypes
<1>9. QueueHolds /\ Shut
  BY <1>7 DEF QueueHolds, Shut
<1>10. \A c \in Conns : ConnHolds(peer[c], conn[c]) /\ ActiveIsAdmitted(c)
  BY <1>4, <1>5, <1>7 DEF ConnHolds, ActiveIsAdmitted
<1>11. \A t \in Tokens : TokHolds(t)
  BY <1>6, <1>7 DEF TokHolds
<1> QED BY <1>8, <1>9, <1>10, <1>11 DEF AdmissionInv

LEMMA AdmissionKeeps == AdmissionInv /\ [A!Next]_admissionVars => AdmissionInv'
<1> SUFFICES ASSUME AdmissionInv, [A!Next]_admissionVars PROVE AdmissionInv'
  OBVIOUS
<1>1. CASE UNCHANGED admissionVars
  BY <1>1 DEF admissionVars, AdmissionInv, AdmissionTypes, QueueHolds, Shut, A!Open, ActiveIsAdmitted,
     TokHolds
<1>2. CASE A!Next
  <2>1. CASE \E c \in Conns, t \in Tokens \cup {Strange}, h \in BOOLEAN : A!Connect(c, t, h)
    BY <2>1, ConnectStep
  <2>2. CASE \E c \in Conns, whole \in BOOLEAN, more \in BOOLEAN : A!WriteHello(c, whole, more)
    BY <2>2, WriteHelloStep
  <2>3. CASE \E c \in Conns, more \in BOOLEAN : A!WriteRest(c, more)
    BY <2>3, WriteRestStep
  <2>4. CASE \E c \in Conns : A!WriteFrame(c)
    BY <2>4, WriteFrameStep
  <2>5. CASE \E c \in Conns : A!SocketCloses(c)
    BY <2>5, SocketClosesStep
  <2>6. CASE \E c \in Conns : A!Inspect(c)
    BY <2>6, InspectStep
  <2>7. CASE \E c \in Conns : A!HelloMalformed(c)
    <3>1. PICK c \in Conns : A!HelloMalformed(c)
      BY <2>7
    <3>2. /\ conn[c].state = "inspecting" /\ A!Refused(c) /\ tok' = tok
          /\ UNCHANGED <<peer, queued, accepting, closing, listener, broker>>
      BY <3>1 DEF A!HelloMalformed
    <3> QED BY <3>2, RefusedStep
  <2>8. CASE \E c \in Conns : A!ClosesConnection(c)
    BY <2>8, ClosesConnectionStep
  <2>9. CASE A!Accept
    BY <2>9, AcceptStep
  <2>10. CASE A!BrokerCloses \/ A!ListenerFails \/ A!AcceptThrows \/ A!CloseCompletes
    BY <2>10, ShutStep
  <2>11. CASE \E t \in Tokens : A!Admit(t) \/ A!AbortAdmission(t)
    BY <2>11, TokenStep
  <2> QED BY <1>2, <2>1, <2>2, <2>3, <2>4, <2>5, <2>6, <2>7, <2>8, <2>9, <2>10, <2>11 DEF A!Next
<1> QED BY <1>1, <1>2

LEMMA SameCardinality == \A T : A!Cardinality(T) = Cardinality(T)
  BY DEF A!Cardinality, Cardinality

LEMMA AdmissionInvIsSound == AdmissionInv => AdmissionIsSound
<1> SUFFICES ASSUME AdmissionInv PROVE AdmissionIsSound
  OBVIOUS
<1>1. A!AdmissionIsExact
  <2>1. ASSUME NEW t \in Tokens
        PROVE  /\ Cardinality(tok[t].chan) = (IF tok[t].state = "resolved" THEN 1 ELSE 0)
               /\ \A c \in tok[t].chan : peer[c].token = t /\ peer[c].honest
    <3>1. TokHolds(t)
      BY DEF AdmissionInv
    <3>2. CASE tok[t].state = "resolved"
      <4>1. PICK c \in Conns : tok[t].chan = {c}
        BY <3>1, <3>2 DEF TokHolds
      <4>2. Cardinality(tok[t].chan) = 1
        BY <4>1, FS_Singleton
      <4> QED BY <3>1, <3>2, <4>2 DEF TokHolds
    <3>3. CASE tok[t].state # "resolved"
      <4>1. Cardinality(tok[t].chan) = 0
        BY <3>1, <3>3, FS_EmptySet DEF TokHolds
      <4> QED BY <3>1, <3>3, <4>1 DEF TokHolds
    <3> QED BY <3>2, <3>3
  <2>2. ASSUME NEW c \in Conns, conn[c].active PROVE \E t \in Tokens : tok[t].chan = {c}
    BY <2>2 DEF AdmissionInv, ActiveIsAdmitted
  <2>3. \A t \in Tokens : /\ Cardinality(tok[t].chan) = (IF tok[t].state = "resolved" THEN 1 ELSE 0)
                          /\ \A c \in tok[t].chan : peer[c].token = t /\ peer[c].honest
    BY <2>1, Zenon
  <2>4. \A c \in Conns : conn[c].active => \E t \in Tokens : tok[t].chan = {c}
    BY <2>2, Zenon
  <2> QED BY <2>3, <2>4, SameCardinality, Zenon DEF A!AdmissionIsExact
<1>2. A!NoByteIsLost
  <2>1. ASSUME NEW c \in Conns, conn[c].state = "admitted" PROVE conn[c].read = A!Frames(c)
    <3>1. Said(peer[c].sent, conn[c].read) /\ conn[c].read \in Seq(Int) /\ peer[c].sent \in Nat
      BY <2>1, ConnFacts DEF ConnHolds
    <3>2. conn[c].read = [i \in 1..Len(conn[c].read) |-> conn[c].read[i]]
      BY <3>1
    <3>3. Len(conn[c].read) = peer[c].sent /\ \A i \in 1..peer[c].sent : conn[c].read[i] = i
      BY <3>1 DEF Said
    <3> QED BY <3>2, <3>3 DEF A!Frames
  <2> QED BY <2>1 DEF A!NoByteIsLost
<1>3. A!ClosedBrokerHoldsNothing
  BY DEF A!ClosedBrokerHoldsNothing, AdmissionInv, Shut
<1> QED BY <1>1, <1>2, <1>3 DEF AdmissionIsSound, A!AdmissionIsSound

\* What admission (control/agent-control-admission.ts, control/node-ipc-control-transport.ts)
\* keeps at every step: a connection that is not a channel yet keeps every byte since the
\* first of its Hello, a channel has read every frame after it, and a token has either no
\* channel or the one connection that named it.
THEOREM AdmissionHolds == A!Spec => []AdmissionInv
<1>1. AdmissionInv /\ [A!Next]_A!vars => AdmissionInv'
  BY AdmissionKeeps DEF admissionVars, A!vars
<1> QED
  BY <1>1, AdmissionInitHolds, PTL DEF A!Spec

\* However many children connect, in whatever chunks they write and whenever the listener
\* or the broker fails or closes: no child speaks for another Agent, nothing it wrote after
\* its Hello is lost, and a closed broker keeps neither a socket nor a start (#inspect,
\* #receive, #shutdown).
THEOREM AdmissionStaysSound == A!Spec => []AdmissionIsSound
<1> QED
  BY AdmissionHolds, AdmissionInvIsSound, PTL

-----------------------------------------------------------------------------
(* The keys. *)

TypedType == [latest : Nat, acked : Nat, active : Nat, busy : BOOLEAN, processing : BOOLEAN]
GateType == [live : BOOLEAN, activating : BOOLEAN, pending : Nat]
EditorType == [visible : BOOLEAN, read : Nat, current : Nat, input : {"none", "preflight"},
               started : BOOLEAN]
ReportType == [event : {"acknowledged", "started", "completed", "agent.start"}, sequence : Nat]
InputTypes ==
  /\ typed \in TypedType /\ gate \in GateType /\ tty \in Nat /\ editor \in EditorType
  /\ reports \in Seq(ReportType)

\* Every submission the Owner counted is read, in the terminal, held back or lost; and
\* nothing is reported or acknowledged that was not read.
Counted ==
  /\ editor.read + tty + gate.pending <= typed.latest
  /\ typed.acked <= editor.read
  /\ \A k \in 1..Len(reports) : reports[k].sequence <= editor.read
  /\ ~typed.processing => typed.latest <= typed.acked

\* The input that the editor prepares, and which no Run has overtaken.
Prepares(e) == e.input = "preflight" /\ ~e.started
CurrentHolds ==
  /\ Prepares(editor) => editor.current \in 1..editor.read
  /\ ~Prepares(editor) => editor.current = 0

\* The Owner knows of it, and nothing that is reported will make it forget.
Noticed ==
  /\ typed.busy /\ typed.active = editor.current /\ typed.processing
  /\ \A k \in 1..Len(reports) : reports[k].event = "acknowledged"

\* It is told of it before the submission is acknowledged.
AnnouncedAt(k) ==
  /\ reports[k].event = "started" /\ reports[k].sequence = editor.current
  /\ \A j \in 1..Len(reports) :
       /\ j < k /\ reports[j].event = "acknowledged" => reports[j].sequence < editor.current
       /\ j > k => reports[j].event = "acknowledged"
  /\ typed.acked < editor.current
Announced == \E k \in 1..Len(reports) : AnnouncedAt(k)

InputInv ==
  /\ InputTypes /\ Counted /\ CurrentHolds
  /\ Prepares(editor) => Noticed \/ Announced


LEMMA InputFacts ==
  ASSUME InputTypes
  PROVE  /\ typed.latest \in Nat /\ typed.acked \in Nat /\ typed.active \in Nat
         /\ typed.busy \in BOOLEAN /\ typed.processing \in BOOLEAN
         /\ gate.pending \in Nat /\ tty \in Nat
         /\ editor.read \in Nat /\ editor.current \in Nat /\ editor.started \in BOOLEAN
         /\ editor.input \in {"none", "preflight"}
         /\ reports \in Seq(ReportType) /\ Len(reports) \in Nat
         /\ \A k \in 1..Len(reports) : reports[k] \in ReportType /\ reports[k].sequence \in Nat
<1>1. \A k \in 1..Len(reports) : reports[k] \in ReportType
  BY DEF InputTypes
<1>2. \A r \in ReportType : r.sequence \in Nat
  BY DEF ReportType
<1> QED BY <1>1, <1>2 DEF InputTypes, TypedType, GateType, EditorType

\* Nothing is reported, and the editor prepares what it prepared before.
LEMMA InputStays ==
  ASSUME InputInv, InputTypes', reports' = reports,
         typed'.acked = typed.acked, typed'.busy = typed.busy, typed'.active = typed.active,
         typed.processing => typed'.processing,
         editor'.read = editor.read, editor'.current = editor.current,
         Prepares(editor)' <=> Prepares(editor),
         typed'.latest - (tty' + gate'.pending) >= typed.latest - (tty + gate.pending),
         ~typed'.processing => typed'.latest = typed.latest
  PROVE  InputInv'
<1> USE InputFacts
<1>1. InputTypes
  BY DEF InputInv
<1>2. /\ typed'.latest \in Nat /\ tty' \in Nat /\ gate'.pending \in Nat
      /\ typed'.processing \in BOOLEAN /\ typed.processing \in BOOLEAN
  BY DEF InputTypes, TypedType, GateType, InputInv
<1>3. Counted'
  <2>1. /\ typed.latest \in Nat /\ tty \in Nat /\ gate.pending \in Nat /\ editor.read \in Nat
        /\ editor.read + tty + gate.pending <= typed.latest
    BY <1>1 DEF InputInv, Counted
  <2>2. editor.read + tty' + gate'.pending <= typed'.latest
    BY ONLY <1>2, <2>1, typed'.latest - (tty' + gate'.pending) >= typed.latest - (tty + gate.pending)
  <2>3. /\ typed.acked <= editor.read /\ (~typed.processing => typed.latest <= typed.acked)
        /\ \A k \in 1..Len(reports) : reports[k].sequence <= editor.read
    BY DEF InputInv, Counted
  <2>4. ~typed'.processing => ~typed.processing /\ typed'.latest = typed.latest
    OBVIOUS
  <2> QED BY <2>2, <2>3, <2>4 DEF Counted
<1>4. CurrentHolds'
  BY DEF InputInv, CurrentHolds
<1>5. Prepares(editor)' => Noticed' \/ Announced'
  <2>1. ASSUME NEW k, AnnouncedAt(k) PROVE AnnouncedAt(k)'
    BY <2>1 DEF AnnouncedAt
  <2>2. Announced => Announced'
    BY <2>1 DEF Announced
  <2>3. Noticed => Noticed'
    BY DEF Noticed
  <2> QED BY <2>2, <2>3 DEF InputInv
<1> QED BY <1>3, <1>4, <1>5 DEF InputInv

LEMMA InputMoves ==
  ASSUME InputInv, N!View \/ N!Hide \/ N!Type \/ N!Serve
  PROVE  InputInv'
<1> USE InputFacts
<1>1. InputTypes /\ typed \in TypedType /\ gate \in GateType /\ editor \in EditorType /\ reports' = reports
  BY DEF InputInv, InputTypes, N!View, N!Hide, N!Type, N!Serve
<1>2. CASE N!View
  <2>1. UNCHANGED <<typed, gate, tty, editor>>
    BY <1>2 DEF N!View
  <2> QED BY <1>1, <2>1, InputStays DEF InputTypes
<1>3. CASE N!Hide
  <2>1. gate' = [gate EXCEPT !.live = FALSE, !.pending = 0] /\ UNCHANGED <<typed, tty, editor>>
    BY <1>3 DEF N!Hide
  <2>2. gate' \in GateType /\ gate'.pending = 0
    BY <1>1, <2>1 DEF GateType
  <2>3. InputTypes'
    BY <1>1, <2>1, <2>2 DEF InputTypes
  <2> QED BY <1>1, <2>1, <2>2, <2>3, InputStays
<1>4. CASE N!Type
  <2>1. PICK n \in Nat : n = typed.latest + 1
    BY <1>1
  <2>2. typed' = [typed EXCEPT !.latest = n, !.processing = TRUE] /\ editor' = editor
    BY <1>4, <2>1 DEF N!Type
  <2>3. /\ typed' \in TypedType /\ typed'.latest = n /\ typed'.processing = TRUE
        /\ typed'.acked = typed.acked /\ typed'.busy = typed.busy /\ typed'.active = typed.active
    BY <1>1, <2>2 DEF TypedType
  <2>4. \/ gate' = gate /\ tty' \in {tty, tty + 1}
        \/ gate' = [gate EXCEPT !.pending = @ + 1, !.activating = TRUE] /\ tty' = tty
    BY <1>4 DEF N!Type
  <2>5. gate' \in GateType /\ tty' \in Nat /\ tty' + gate'.pending <= tty + gate.pending + 1
    <3>1. CASE gate' = gate /\ tty' \in {tty, tty + 1}
      BY <1>1, <3>1
    <3>2. CASE gate' = [gate EXCEPT !.pending = @ + 1, !.activating = TRUE] /\ tty' = tty
      <4>1. PICK m \in Nat : m = gate.pending + 1
        BY <1>1
      <4>2. gate' = [gate EXCEPT !.pending = m, !.activating = TRUE]
        BY <3>2, <4>1
      <4>3. gate' \in GateType /\ gate'.pending = m
        BY <1>1, <4>2 DEF GateType
      <4> QED BY <1>1, <3>2, <4>1, <4>3
    <3> QED BY <2>4, <3>1, <3>2
  <2>6. InputTypes'
    BY <1>1, <2>2, <2>3, <2>5 DEF InputTypes
  <2>7. gate'.pending \in Nat
    BY <2>5 DEF GateType
  <2>8. typed'.latest - (tty' + gate'.pending) >= typed.latest - (tty + gate.pending)
    <3>1. /\ typed.latest \in Nat /\ tty \in Nat /\ gate.pending \in Nat /\ tty' \in Nat
          /\ typed'.latest = typed.latest + 1
      BY <1>1, <2>1, <2>3, <2>5
    <3> QED BY ONLY <2>5, <2>7, <3>1
  <2> QED BY <1>1, <2>2, <2>3, <2>6, <2>8, InputStays
<1>5. CASE N!Serve
  <2>1. typed' = typed /\ \E b \in BOOLEAN : editor' = [editor EXCEPT !.visible = b]
    BY <1>5 DEF N!Serve
  <2>2. /\ editor' \in EditorType /\ editor'.read = editor.read /\ editor'.current = editor.current
        /\ (Prepares(editor)' <=> Prepares(editor))
    BY <1>1, <2>1 DEF EditorType, Prepares
  <2>3. \/ gate' = gate /\ tty' = tty
        \/ gate' = [live |-> TRUE, activating |-> FALSE, pending |-> 0] /\ tty' = tty + gate.pending
    BY <1>5 DEF N!Serve
  <2>4. gate' \in GateType /\ tty' \in Nat /\ gate'.pending \in Nat /\ tty' + gate'.pending = tty + gate.pending
    <3>1. CASE gate' = gate /\ tty' = tty
      BY <1>1, <3>1
    <3>2. CASE gate' = [live |-> TRUE, activating |-> FALSE, pending |-> 0] /\ tty' = tty + gate.pending
      <4>1. gate' \in GateType /\ gate'.pending = 0
        BY <3>2 DEF GateType
      <4> QED BY <1>1, <3>2, <4>1
    <3> QED BY <2>3, <3>1, <3>2
  <2>5. InputTypes'
    BY <1>1, <2>1, <2>2, <2>4 DEF InputTypes
  <2>6. typed'.latest - (tty' + gate'.pending) >= typed.latest - (tty + gate.pending)
    BY <1>1, <2>1, <2>4
  <2> QED BY <1>1, <2>1, <2>2, <2>5, <2>6, InputStays
<1> QED BY <1>2, <1>3, <1>4, <1>5

\* The input of the editor is over, or a Run overtakes it.
LEMMA EditorEnds ==
  ASSUME InputInv, UNCHANGED <<typed, gate, tty>>, editor' \in EditorType,
         editor'.read = editor.read, editor'.current = 0, ~Prepares(editor'),
         \/ reports' = reports
         \/ \E r \in ReportType : r.sequence <= editor.read /\ reports' = Append(reports, r)
  PROVE  InputInv'
<1> USE InputFacts
<1>1. InputTypes /\ Counted
  BY DEF InputInv
<1>2. /\ reports' \in Seq(ReportType) /\ Len(reports') \in Nat
      /\ \A k \in 1..Len(reports') : reports'[k].sequence <= editor.read
  <2>1. \A k \in 1..Len(reports) : reports[k].sequence <= editor.read
    BY <1>1 DEF Counted
  <2>2. CASE reports' = reports
    BY <1>1, <2>1, <2>2
  <2>3. CASE reports' # reports
    <3>1. PICK r \in ReportType : r.sequence <= editor.read /\ reports' = Append(reports, r)
      BY <2>3
    <3>2. /\ Append(reports, r) \in Seq(ReportType) /\ Len(Append(reports, r)) = Len(reports) + 1
          /\ Len(reports) \in Nat /\ Append(reports, r)[Len(reports) + 1] = r
          /\ \A k \in 1..Len(reports) : Append(reports, r)[k] = reports[k]
      BY <1>1, AppendFacts
    <3>3. ASSUME NEW k \in 1..(Len(reports) + 1) PROVE Append(reports, r)[k].sequence <= editor.read
      <4>1. CASE k = Len(reports) + 1
        BY <3>1, <3>2, <4>1
      <4>2. CASE k # Len(reports) + 1
        <5>1. k \in 1..Len(reports)
          BY <3>2, <4>2
        <5> QED BY <2>1, <3>2, <5>1
      <4> QED BY <4>1, <4>2
    <3> QED BY <3>1, <3>2, <3>3
  <2> QED BY <2>2, <2>3
<1>3. InputTypes'
  BY <1>1, <1>2 DEF InputTypes
<1>4. Counted'
  BY <1>1, <1>2 DEF Counted
<1> QED BY <1>3, <1>4 DEF InputInv, CurrentHolds

LEMMA EditorMoves ==
  ASSUME InputInv, N!Complete \/ N!StartRun \/ N!EndRun
  PROVE  InputInv'
<1> USE InputFacts
<1>1. InputTypes /\ editor \in EditorType /\ UNCHANGED <<typed, gate, tty>> /\ CurrentHolds
  BY DEF InputInv, InputTypes, N!Complete, N!StartRun, N!EndRun
<1>2. editor.current <= editor.read
  BY <1>1 DEF CurrentHolds
<1>3. CASE N!Complete
  <2>1. editor' = [editor EXCEPT !.input = "none", !.current = 0]
    BY <1>3 DEF N!Complete, N!NoSequence
  <2>2. /\ editor' \in EditorType /\ editor'.read = editor.read /\ editor'.current = 0
        /\ editor'.input = "none"
    BY <1>1, <2>1 DEF EditorType
  <2>3. PICK r : r = N!Report("completed", editor.current)
    OBVIOUS
  <2>4. r \in ReportType /\ r.sequence <= editor.read
    BY <1>1, <1>2, <2>3 DEF ReportType, N!Report
  <2>5. reports' = reports \/ reports' = Append(reports, r)
    BY <1>3, <2>3 DEF N!Complete
  <2> QED BY <1>1, <2>2, <2>4, <2>5, EditorEnds DEF Prepares
<1>4. CASE N!StartRun
  <2>1. editor' = [editor EXCEPT !.started = TRUE, !.current = 0]
    BY <1>4 DEF N!StartRun, N!NoSequence
  <2>2. /\ editor' \in EditorType /\ editor'.read = editor.read /\ editor'.current = 0
        /\ editor'.started = TRUE
    BY <1>1, <2>1 DEF EditorType
  <2>3. PICK r : r = N!Report("agent.start", 0)
    OBVIOUS
  <2>4. r \in ReportType /\ r.sequence <= editor.read
    BY <1>1, <2>3 DEF ReportType, N!Report
  <2>5. reports' = Append(reports, r)
    BY <1>4, <2>3 DEF N!StartRun, N!NoSequence
  <2> QED BY <1>1, <2>2, <2>4, <2>5, EditorEnds DEF Prepares
<1>5. CASE N!EndRun
  <2>1. editor' = [editor EXCEPT !.started = FALSE, !.input = "none"] /\ editor.started /\ reports' = reports
    BY <1>5 DEF N!EndRun
  <2>2. /\ editor' \in EditorType /\ editor'.read = editor.read /\ editor'.current = editor.current
        /\ editor'.input = "none"
    BY <1>1, <2>1 DEF EditorType
  <2>3. editor.current = 0
    BY <1>1, <2>1 DEF CurrentHolds, Prepares
  <2> QED BY <1>1, <2>1, <2>2, <2>3, EditorEnds DEF Prepares
<1> QED BY <1>3, <1>4, <1>5

\* The child reports submissions up to n, of which n is acknowledged last.
LEMMA ReportsFacts ==
  ASSUME NEW n \in Nat, NEW start \in {0, n}
  PROVE  /\ N!Reports(start, n) \in Seq(ReportType)
         /\ start = 0 => /\ Len(N!Reports(start, n)) = 1
                         /\ N!Reports(start, n)[1] = N!Report("acknowledged", n)
         /\ start # 0 => /\ Len(N!Reports(start, n)) = 2
                         /\ N!Reports(start, n)[1] = N!Report("started", start)
                         /\ N!Reports(start, n)[2] = N!Report("acknowledged", n)
<1>1. PICK r : r = N!Report("started", start)
  OBVIOUS
<1>2. PICK a : a = N!Report("acknowledged", n)
  OBVIOUS
<1>3. r \in ReportType /\ a \in ReportType
  BY <1>1, <1>2 DEF N!Report, ReportType
<1>4. CASE start = 0
  <2>1. N!Reports(start, n) = <<>> \o <<a>>
    BY <1>2, <1>4 DEF N!Reports, N!NoSequence
  <2>2. <<a>> \in Seq(ReportType) /\ <<>> \o <<a>> = <<a>>
    BY <1>3, ConcatEmptySeq
  <2>3. N!Reports(start, n) = <<a>>
    BY <2>1, <2>2
  <2>4. Len(<<a>>) = 1 /\ <<a>>[1] = a
    OBVIOUS
  <2> QED BY ONLY <1>2, <1>4, <2>2, <2>3, <2>4
<1>5. CASE start # 0
  <2>1. N!Reports(start, n) = <<r>> \o <<a>>
    BY <1>1, <1>2, <1>5 DEF N!Reports, N!NoSequence
  <2>2. PICK U : U = <<r>>
    OBVIOUS
  <2>2a. U \in Seq(ReportType) /\ Len(U) = 1 /\ U[1] = r
    BY <1>3, <2>2
  <2>3. PICK V : V = <<a>>
    OBVIOUS
  <2>3a. V \in Seq(ReportType) /\ Len(V) = 1 /\ V[1] = a
    BY <1>3, <2>3
  <2>4. /\ U \o V \in Seq(ReportType) /\ Len(U \o V) = Len(U) + Len(V)
        /\ \A i \in 1..(Len(U) + Len(V)) : (U \o V)[i] = IF i <= Len(U) THEN U[i] ELSE V[i - Len(U)]
    BY <2>2a, <2>3a, ConcatProperties
  <2>5. Len(U \o V) = 2 /\ (U \o V)[1] = r /\ (U \o V)[2] = a
    BY <2>2a, <2>3a, <2>4
  <2>6. N!Reports(start, n) = U \o V
    BY <2>1, <2>2, <2>3
  <2> QED BY ONLY <1>1, <1>2, <1>5, <2>4, <2>5, <2>6
<1> QED BY <1>4, <1>5

\* A submission is read.
LEMMA ReadStep ==
  ASSUME InputInv, NEW taken \in BOOLEAN, N!Read(taken)
  PROVE  InputInv'
<1> USE InputFacts
<1>1. InputTypes /\ editor \in EditorType /\ UNCHANGED <<typed, gate>> /\ CurrentHolds /\ Counted
  BY DEF InputInv, InputTypes, N!Read
<1>2. PICK n \in Nat : n = editor.read + 1
  BY <1>1
<1>3. tty > 0 /\ tty' = tty - 1 /\ tty' \in Nat
  BY SMTT(30), <1>1 DEF N!Read
<1>4. taken => ~Prepares(editor) /\ editor.current = 0
  BY <1>1 DEF N!Read, Prepares, CurrentHolds
<1>5. PICK start \in {0, n} : start = IF taken THEN n ELSE 0
  OBVIOUS
<1>6. PICK R : R = N!Reports(start, n)
  OBVIOUS
<1>7. /\ reports' = reports \o R
      /\ editor' = IF taken THEN [editor EXCEPT !.read = n, !.current = n, !.input = "preflight",
                                                !.started = FALSE]
                   ELSE [editor EXCEPT !.read = n]
  BY <1>2, <1>4, <1>5, <1>6 DEF N!Read, N!NoSequence
<1>8. /\ editor' \in EditorType /\ editor'.read = n
      /\ (taken => Prepares(editor') /\ editor'.current = n)
      /\ (~taken => (Prepares(editor') <=> Prepares(editor)) /\ editor'.current = editor.current)
  <2>1. CASE taken
    BY <1>1, <1>7, <2>1 DEF EditorType, Prepares
  <2>2. CASE ~taken
    BY <1>1, <1>7, <2>2 DEF EditorType, Prepares
  <2> QED BY <2>1, <2>2
<1>9. /\ R \in Seq(ReportType) /\ Len(R) \in Nat /\ Len(R) = (IF taken THEN 2 ELSE 1)
      /\ \A i \in 1..Len(R) : R[i].sequence = n
      /\ (taken => R[1].event = "started") /\ R[Len(R)].event = "acknowledged"
  <2>1. CASE taken
    <3>1. /\ R \in Seq(ReportType) /\ Len(R) = 2 /\ R[1] = N!Report("started", n)
          /\ R[2] = N!Report("acknowledged", n)
      <4>1. start = n /\ start # 0 /\ start \in {0, n}
        BY <1>1, <1>2, <1>5, <2>1
      <4> QED BY <1>6, <4>1, ReportsFacts
    <3> QED BY <2>1, <3>1 DEF N!Report
  <2>2. CASE ~taken
    <3>1. /\ R \in Seq(ReportType) /\ Len(R) = 1 /\ R[1] = N!Report("acknowledged", n)
      BY <1>2, <1>5, <1>6, <2>2, ReportsFacts
    <3> QED BY <2>2, <3>1 DEF N!Report
  <2> QED BY <2>1, <2>2
<1>10. /\ reports' \in Seq(ReportType) /\ Len(reports') = Len(reports) + Len(R) /\ Len(reports) \in Nat
       /\ \A k \in 1..Len(reports) : reports'[k] = reports[k]
       /\ \A k \in 1..Len(reports') : k > Len(reports) => k - Len(reports) \in 1..Len(R)
                                                           /\ reports'[k] = R[k - Len(reports)]
  <2>1. /\ reports \o R \in Seq(ReportType) /\ Len(reports \o R) = Len(reports) + Len(R)
        /\ \A i \in 1..(Len(reports) + Len(R)) :
             (reports \o R)[i] = IF i <= Len(reports) THEN reports[i] ELSE R[i - Len(reports)]
    BY <1>1, <1>9, ConcatProperties
  <2>2. reports' = reports \o R /\ Len(reports) \in Nat /\ Len(R) \in Nat
    BY <1>1, <1>7, <1>9
  <2>3. \A k \in 1..Len(reports) : reports'[k] = reports[k]
    BY <2>1, <2>2
  <2>4. \A k \in 1..Len(reports') : k > Len(reports) => k - Len(reports) \in 1..Len(R)
                                                       /\ reports'[k] = R[k - Len(reports)]
    BY <2>1, <2>2
  <2> QED BY <2>1, <2>2, <2>3, <2>4
<1>11. InputTypes'
  BY <1>1, <1>3, <1>8, <1>10 DEF InputTypes
<1>12. \A k \in 1..Len(reports') : /\ reports'[k].sequence <= n
                                   /\ k > Len(reports) => reports'[k].sequence = n
  <2> SUFFICES ASSUME NEW k \in 1..Len(reports')
               PROVE  /\ reports'[k].sequence <= n
                      /\ k > Len(reports) => reports'[k].sequence = n
    OBVIOUS
  <2>1. CASE k > Len(reports)
    BY <1>2, <1>9, <1>10, <2>1
  <2>2. CASE ~(k > Len(reports))
    <3>1. k \in 1..Len(reports) /\ reports'[k] = reports[k]
      BY <1>1, <1>10, <2>2
    <3> QED BY SMTT(30), <1>1, <1>2, <2>2, <3>1 DEF Counted
  <2> QED BY <2>1, <2>2
<1>13. Counted'
  <2>1. /\ editor.read + tty + gate.pending <= typed.latest /\ typed.acked <= editor.read
        /\ (~typed.processing => typed.latest <= typed.acked)
    BY <1>1 DEF Counted
  <2>2. n + tty' + gate.pending <= typed.latest /\ typed.acked <= n
    <3>1. /\ editor.read \in Nat /\ tty \in Nat /\ gate.pending \in Nat /\ typed.latest \in Nat
          /\ typed.acked \in Nat
      BY <1>1
    <3> QED BY ONLY <1>2, <1>3, <2>1, <3>1
  <2> QED BY <1>1, <1>8, <1>12, <2>1, <2>2 DEF Counted
<1>14. CurrentHolds'
  BY <1>1, <1>2, <1>4, <1>8 DEF CurrentHolds
<1>15. ASSUME Prepares(editor') PROVE Noticed' \/ Announced'
  <2>1. CASE taken
    <3>1. PICK k \in 1..Len(reports') : k = Len(reports) + 1
      BY <1>9, <1>10, <2>1
    <3>2. reports'[k].event = "started" /\ reports'[k].sequence = n
      BY <1>9, <1>10, <1>12, <2>1, <3>1
    <3>3. ASSUME NEW j \in 1..Len(reports')
          PROVE  /\ j < k /\ reports'[j].event = "acknowledged" => reports'[j].sequence < n
                 /\ j > k => reports'[j].event = "acknowledged"
      <4>1. CASE j < k
        <5>1. j \in 1..Len(reports) /\ reports'[j] = reports[j] /\ ~(j > k)
          BY <1>10, <3>1, <4>1
        <5>2. reports[j].sequence <= editor.read /\ reports[j].sequence \in Nat
          BY <1>1, <5>1 DEF Counted
        <5> QED BY <1>1, <1>2, <5>1, <5>2
      <4>2. CASE ~(j < k)
        <5>1. j > k => j = Len(reports) + 2 /\ reports'[j] = R[2] /\ Len(R) = 2
          BY <1>9, <1>10, <2>1, <3>1, <4>2
        <5> QED BY <1>9, <4>2, <5>1
      <4> QED BY <4>1, <4>2
    <3>4. typed'.acked < n
      BY SMTT(30), <1>1, <1>2 DEF Counted
    <3>5. AnnouncedAt(k)'
      BY <1>8, <2>1, <3>2, <3>3, <3>4 DEF AnnouncedAt
    <3> QED BY <3>1, <3>5 DEF Announced
  <2>2. CASE ~taken
    <3>1. Prepares(editor) /\ editor'.current = editor.current
      BY <1>8, <1>15, <2>2
    <3>2. \A k \in 1..Len(reports') : k > Len(reports) => reports'[k].event = "acknowledged"
      BY <1>9, <1>10, <2>2
    <3>3. CASE Noticed
      <4>1. \A k \in 1..Len(reports') : reports'[k].event = "acknowledged"
        <5> SUFFICES ASSUME NEW k \in 1..Len(reports') PROVE reports'[k].event = "acknowledged"
          OBVIOUS
        <5>1. k > Len(reports) \/ k \in 1..Len(reports)
          BY <1>10
        <5> QED BY <1>10, <3>2, <3>3, <5>1 DEF Noticed
      <4> QED BY <1>1, <3>1, <3>3, <4>1 DEF Noticed
    <3>4. CASE Announced
      <4>1. PICK k \in 1..Len(reports) : AnnouncedAt(k)
        BY <3>4 DEF Announced
      <4>2. k \in 1..Len(reports') /\ reports'[k] = reports[k]
        BY <1>9, <1>10
      <4>3. ASSUME NEW j \in 1..Len(reports')
            PROVE  /\ j < k /\ reports'[j].event = "acknowledged" => reports'[j].sequence < editor.current
                   /\ j > k => reports'[j].event = "acknowledged"
        <5>1. CASE j > Len(reports)
          BY <1>10, <3>2, <5>1
        <5>2. CASE ~(j > Len(reports))
          <6>1. j \in 1..Len(reports) /\ reports'[j] = reports[j]
            BY <1>10, <5>2
          <6> QED BY <4>1, <6>1 DEF AnnouncedAt
        <5> QED BY <5>1, <5>2
      <4>4. AnnouncedAt(k)'
        BY <1>1, <3>1, <4>1, <4>2, <4>3 DEF AnnouncedAt
      <4> QED BY <4>2, <4>4 DEF Announced
    <3> QED BY <3>1, <3>3, <3>4 DEF InputInv
  <2> QED BY <2>1, <2>2
<1> QED BY <1>11, <1>13, <1>14, <1>15 DEF InputInv

LEMMA FinishFacts ==
  ASSUME NEW o \in TypedType, NEW n \in Nat, ~o.processing => o.latest <= o.acked
  PROVE  /\ N!Finish(o, n) \in TypedType /\ N!Finish(o, n).latest = o.latest
         /\ N!Finish(o, n).acked = o.acked
         /\ ~N!Finish(o, n).processing => o.latest <= o.acked
<1>1. o.latest \in Nat /\ o.acked \in Nat
  BY DEF TypedType
<1>2. CASE n # 0 /\ o.active # n
  BY <1>2 DEF N!Finish, N!NoSequence
<1>3. CASE ~(n # 0 /\ o.active # n)
  <2>0. N!Pending(o) \in BOOLEAN
    BY <1>1 DEF N!Pending
  <2>1. PICK p : p = N!Pending(o)
    OBVIOUS
  <2>2. PICK e : e = [o EXCEPT !.busy = FALSE, !.active = 0]
    OBVIOUS
  <2>3. e \in TypedType /\ e.latest = o.latest /\ e.acked = o.acked
    BY <2>2 DEF TypedType
  <2>4. N!Finish(o, n) = [e EXCEPT !.processing = p]
    BY <1>3, <2>1, <2>2 DEF N!Finish, N!NoSequence, TypedType
  <2>5. N!Finish(o, n) \in TypedType
    BY <2>0, <2>1, <2>3, <2>4 DEF TypedType
  <2>6. /\ N!Finish(o, n).latest = o.latest /\ N!Finish(o, n).acked = o.acked
        /\ N!Finish(o, n).processing = p
    BY <2>3, <2>4 DEF TypedType
  <2>7. ~p => o.latest <= o.acked
    <3>1. ~N!Pending(o) => o.latest <= o.acked
      BY <1>1 DEF N!Pending
    <3> QED BY <2>1, <3>1
  <2> QED BY ONLY <2>5, <2>6, <2>7
<1> QED BY <1>2, <1>3

\* What a report leaves of what the Owner knows of the keys.
LEMMA HandledFacts ==
  ASSUME NEW o \in TypedType, NEW r \in ReportType, ~o.processing => o.latest <= o.acked
  PROVE  /\ N!Handled(o, r) \in TypedType
         /\ ~N!Handled(o, r).processing => N!Handled(o, r).latest <= N!Handled(o, r).acked
         /\ r.event = "acknowledged" =>
              /\ N!Handled(o, r).latest = o.latest
              /\ N!Handled(o, r).acked = (IF o.acked < r.sequence THEN r.sequence ELSE o.acked)
              /\ o.busy => /\ N!Handled(o, r).busy /\ N!Handled(o, r).active = o.active
                           /\ N!Handled(o, r).processing = o.processing
         /\ r.event = "started" =>
              /\ N!Handled(o, r).latest = (IF o.latest < r.sequence THEN r.sequence ELSE o.latest)
              /\ N!Handled(o, r).acked = o.acked
              /\ N!Handled(o, r).busy /\ N!Handled(o, r).active = r.sequence
              /\ N!Handled(o, r).processing
         /\ r.event \in {"completed", "agent.start"} =>
              /\ N!Handled(o, r).latest = o.latest /\ N!Handled(o, r).acked = o.acked
<1>1. /\ o.latest \in Nat /\ o.acked \in Nat /\ o.active \in Nat /\ r.sequence \in Nat
      /\ r.event \in {"acknowledged", "started", "completed", "agent.start"}
  BY DEF TypedType, ReportType
<1>2. CASE r.event = "acknowledged"
  <2>1. PICK m \in Nat : m = IF o.acked < r.sequence THEN r.sequence ELSE o.acked
    BY <1>1
  <2>2. PICK a : a = [o EXCEPT !.acked = m]
    OBVIOUS
  <2>3. /\ a \in TypedType /\ a.acked = m /\ a.latest = o.latest /\ a.busy = o.busy
        /\ a.active = o.active /\ a.processing = o.processing
    BY <2>2 DEF TypedType
  <2>4. N!Handled(o, r) = IF a.busy \/ N!Pending(a) THEN a ELSE N!Finish(a, a.active)
    BY <1>2, <2>1, <2>2 DEF N!Handled, N!Higher
  <2>5. ~a.processing => a.latest <= a.acked
    BY <1>1, <2>1, <2>3
  <2>6. CASE a.busy \/ N!Pending(a)
    BY <1>2, <2>1, <2>3, <2>4, <2>5, <2>6
  <2>7. CASE ~(a.busy \/ N!Pending(a))
    <3>1. /\ N!Finish(a, a.active) \in TypedType /\ N!Finish(a, a.active).latest = a.latest
          /\ N!Finish(a, a.active).acked = a.acked
          /\ ~N!Finish(a, a.active).processing => a.latest <= a.acked
      BY <1>1, <2>3, <2>5, FinishFacts
    <3> QED BY <1>2, <2>1, <2>3, <2>4, <2>7, <3>1
  <2> QED BY <2>6, <2>7
<1>3. CASE r.event = "started"
  <2>1. PICK m \in Nat : m = IF o.latest < r.sequence THEN r.sequence ELSE o.latest
    BY <1>1
  <2>2. PICK e : e = [o EXCEPT !.busy = TRUE, !.active = r.sequence]
    OBVIOUS
  <2>3. e \in TypedType /\ e.busy /\ e.active = r.sequence /\ e.acked = o.acked
    BY <1>1, <2>2 DEF TypedType
  <2>4. N!Handled(o, r) = [e EXCEPT !.processing = TRUE, !.latest = m]
    BY <1>3, <2>1, <2>2 DEF N!Handled, N!Higher, TypedType
  <2>5. /\ N!Handled(o, r) \in TypedType /\ N!Handled(o, r).busy = e.busy
        /\ N!Handled(o, r).active = e.active /\ N!Handled(o, r).processing = TRUE
        /\ N!Handled(o, r).latest = m /\ N!Handled(o, r).acked = e.acked
    BY <2>3, <2>4 DEF TypedType
  <2> QED BY <1>3, <2>1, <2>3, <2>5
<1>4. CASE r.event = "completed"
  <2>1. N!Handled(o, r) = N!Finish(o, r.sequence)
    BY <1>4 DEF N!Handled
  <2>2. /\ N!Finish(o, r.sequence) \in TypedType /\ N!Finish(o, r.sequence).latest = o.latest
        /\ N!Finish(o, r.sequence).acked = o.acked
        /\ (~N!Finish(o, r.sequence).processing => o.latest <= o.acked)
    BY <1>1, FinishFacts
  <2> QED BY <1>4, <2>1, <2>2
<1>5. CASE r.event = "agent.start"
  <2>1. N!Handled(o, r) = IF o.busy THEN N!Finish(o, 0) ELSE o
    BY <1>5 DEF N!Handled, N!NoSequence
  <2>2. /\ N!Finish(o, 0) \in TypedType /\ N!Finish(o, 0).latest = o.latest
        /\ N!Finish(o, 0).acked = o.acked /\ (~N!Finish(o, 0).processing => o.latest <= o.acked)
    BY FinishFacts
  <2> QED BY <1>5, <2>1, <2>2
<1> QED BY <1>1, <1>2, <1>3, <1>4, <1>5

\* A report is handled.
LEMMA HandleStep ==
  ASSUME InputInv, N!Handle
  PROVE  InputInv'
<1> USE InputFacts
<1>1. /\ InputTypes /\ typed \in TypedType /\ UNCHANGED <<gate, tty, editor>> /\ CurrentHolds /\ Counted
      /\ reports # <<>> /\ reports' = Tail(reports)
  BY DEF InputInv, InputTypes, N!Handle
<1>2. PICK r \in ReportType : r = Head(reports)
  BY <1>1, TailFacts
<1>3. /\ reports' \in Seq(ReportType) /\ Len(reports') = Len(reports) - 1 /\ Len(reports) \in Nat
      /\ Len(reports) >= 1 /\ r = reports[1]
      /\ \A k \in 1..Len(reports') : reports'[k] = reports[k + 1]
  BY <1>1, <1>2, TailFacts
<1>4. PICK h : h = N!Handled(typed, r)
  OBVIOUS
<1>5. typed' = h
  BY <1>2, <1>4 DEF N!Handle
<1>6. ~typed.processing => typed.latest <= typed.acked
  BY <1>1 DEF Counted
<1>7. /\ h \in TypedType /\ (~h.processing => h.latest <= h.acked)
      /\ r.event = "acknowledged" =>
           /\ h.latest = typed.latest
           /\ h.acked = (IF typed.acked < r.sequence THEN r.sequence ELSE typed.acked)
           /\ typed.busy => h.busy /\ h.active = typed.active /\ h.processing = typed.processing
      /\ r.event = "started" =>
           /\ h.latest = (IF typed.latest < r.sequence THEN r.sequence ELSE typed.latest)
           /\ h.acked = typed.acked /\ h.busy /\ h.active = r.sequence /\ h.processing
      /\ r.event \in {"completed", "agent.start"} => h.latest = typed.latest /\ h.acked = typed.acked
  BY <1>1, <1>4, <1>6, HandledFacts
<1>8. r.sequence \in Nat /\ r.sequence <= editor.read
      /\ r.event \in {"acknowledged", "started", "completed", "agent.start"}
  BY <1>1, <1>3 DEF Counted, ReportType
<1>9. InputTypes'
  BY <1>1, <1>3, <1>5, <1>7 DEF InputTypes
<1>10. \A k \in 1..Len(reports') : k \in Nat /\ k + 1 \in 1..Len(reports) /\ reports'[k] = reports[k + 1]
  BY <1>3
<1>11. Counted'
  <2>1. /\ editor.read + tty + gate.pending <= typed.latest /\ typed.acked <= editor.read
        /\ \A k \in 1..Len(reports) : reports[k].sequence <= editor.read
    BY <1>1 DEF Counted
  <2>2. /\ editor.read \in Nat /\ tty \in Nat /\ gate.pending \in Nat /\ typed.latest \in Nat
        /\ typed.acked \in Nat
    BY <1>1
  <2>3. h.latest = typed.latest /\ h.acked <= editor.read
    BY ONLY <1>7, <1>8, <2>1, <2>2
  <2>4. \A k \in 1..Len(reports') : reports'[k].sequence <= editor.read
    BY <1>10, <2>1
  <2> QED BY <1>1, <1>5, <1>7, <2>1, <2>3, <2>4 DEF Counted
<1>12. CurrentHolds'
  BY <1>1 DEF CurrentHolds
<1>13. ASSUME Prepares(editor) PROVE Noticed' \/ Announced'
  <2>1. CASE Noticed
    <3>1. r.event = "acknowledged"
      BY <1>3, <2>1 DEF Noticed
    <3>2. \A k \in 1..Len(reports') : reports'[k].event = "acknowledged"
      BY <1>10, <2>1 DEF Noticed
    <3> QED BY <1>1, <1>5, <1>7, <2>1, <3>1, <3>2 DEF Noticed
  <2>2. CASE Announced
    <3>1. PICK k \in 1..Len(reports) : AnnouncedAt(k)
      BY <2>2 DEF Announced
    <3>2. CASE k = 1
      <4>1. r.event = "started" /\ r.sequence = editor.current
        BY <1>3, <3>1, <3>2 DEF AnnouncedAt
      <4>2. \A j \in 1..Len(reports') : reports'[j].event = "acknowledged"
        <5> SUFFICES ASSUME NEW j \in 1..Len(reports') PROVE reports'[j].event = "acknowledged"
          OBVIOUS
        <5>1. j + 1 \in 1..Len(reports) /\ j + 1 > 1 /\ reports'[j] = reports[j + 1]
          BY <1>3
        <5> QED BY <3>1, <3>2, <5>1 DEF AnnouncedAt
      <4> QED BY <1>1, <1>5, <1>7, <4>1, <4>2 DEF Noticed
    <3>3. CASE k # 1
      <4>1. PICK i \in 1..Len(reports') : i = k - 1
        BY <1>3, <3>3
      <4>2. reports'[i] = reports[k]
        BY <1>10, <4>1
      <4>3. r.event = "acknowledged" => r.sequence < editor.current
        BY <1>3, <3>1, <3>3 DEF AnnouncedAt
      <4>4. r.event # "started" \/ h.acked = typed.acked
        BY <1>7
      <4>5. h.acked < editor.current
        <5>1. typed.acked < editor.current
          BY <3>1 DEF AnnouncedAt
        <5> QED BY <1>7, <1>8, <4>3, <5>1
      <4>6. ASSUME NEW j \in 1..Len(reports')
            PROVE  /\ j < i /\ reports'[j].event = "acknowledged" => reports'[j].sequence < editor.current
                   /\ j > i => reports'[j].event = "acknowledged"
        <5>1. /\ j + 1 \in 1..Len(reports) /\ reports'[j] = reports[j + 1]
              /\ (j < i => j + 1 < k) /\ (j > i => j + 1 > k)
          BY <1>3, <1>10, <4>1
        <5> QED BY <3>1, <5>1 DEF AnnouncedAt
      <4>7. AnnouncedAt(i)'
        BY <1>1, <1>5, <3>1, <4>2, <4>5, <4>6 DEF AnnouncedAt
      <4> QED BY <4>1, <4>7 DEF Announced
    <3> QED BY <3>2, <3>3
  <2> QED BY <1>13, <2>1, <2>2 DEF InputInv
<1> QED BY <1>1, <1>9, <1>11, <1>12, <1>13 DEF InputInv

LEMMA InputInitHolds == N!Init => InputInv
<1> SUFFICES ASSUME N!Init PROVE InputInv
  OBVIOUS
<1>1. tty = 0 /\ reports = <<>>
  BY DEF N!Init
<1>2. /\ typed \in TypedType /\ typed.latest = 0 /\ typed.acked = 0 /\ typed.processing = FALSE
  BY DEF N!Init, TypedType, N!NoSequence
<1>3. gate \in GateType /\ gate.pending = 0
  BY DEF N!Init, GateType
<1>4. editor \in EditorType /\ editor.read = 0 /\ editor.current = 0 /\ editor.input = "none"
  BY DEF N!Init, EditorType, N!NoSequence
<1>5. InputTypes
  BY <1>1, <1>2, <1>3, <1>4 DEF InputTypes
<1>6. Counted
  BY <1>1, <1>2, <1>3, <1>4 DEF Counted
<1> QED BY <1>4, <1>5, <1>6 DEF InputInv, CurrentHolds, Prepares

LEMMA InputKeeps == InputInv /\ [N!Next]_inputVars => InputInv'
<1> SUFFICES ASSUME InputInv, [N!Next]_inputVars PROVE InputInv'
  OBVIOUS
<1>1. CASE UNCHANGED inputVars
  BY <1>1 DEF inputVars, InputInv, InputTypes, Counted, CurrentHolds, Noticed, Announced, AnnouncedAt
<1>2. CASE N!Next
  BY <1>2, InputMoves, EditorMoves, ReadStep, HandleStep DEF N!Next
<1> QED BY <1>1, <1>2

LEMMA InputInvIsIdle == InputInv => IdleIsTrue
<1> SUFFICES ASSUME InputInv, ~typed.processing
             PROVE  gate.pending = 0 /\ tty = 0 /\ (editor.input = "preflight" => editor.started)
  BY DEF IdleIsTrue, N!IdleIsTrue
<1>1. InputTypes /\ Counted /\ CurrentHolds
  BY DEF InputInv
<1>2. /\ editor.read \in Nat /\ tty \in Nat /\ gate.pending \in Nat /\ typed.latest \in Nat
      /\ typed.acked \in Nat /\ editor.current \in Nat
  BY <1>1, InputFacts
<1>3. /\ editor.read + tty + gate.pending <= typed.latest /\ typed.acked <= editor.read
      /\ typed.latest <= typed.acked
  BY <1>1 DEF Counted
<1>4. tty = 0 /\ gate.pending = 0 /\ typed.acked = editor.read
  BY ONLY <1>2, <1>3
<1>5. ASSUME Prepares(editor) PROVE FALSE
  <2>1. editor.current \in 1..editor.read
    BY <1>1, <1>5 DEF CurrentHolds
  <2>2. ~Noticed
    BY DEF Noticed
  <2>3. ~Announced
    <3>1. ~(typed.acked < editor.current)
      BY <1>2, <1>4, <2>1
    <3> QED BY <3>1 DEF Announced, AnnouncedAt
  <2> QED BY <1>5, <2>2, <2>3 DEF InputInv
<1> QED BY <1>4, <1>5 DEF Prepares

\* What the Owner counts of the keys a human submits (process-runtime/
\* pi-child-process-projection.ts): the submissions acknowledged, read, in the terminal and
\* held back are among those it counted, and an input that the child prepares is known to
\* it, or announced before the acknowledgment that would let the count come out even.
THEOREM InputHolds == N!Spec => []InputInv
<1>1. InputInv /\ [N!Next]_N!vars => InputInv'
  BY InputKeeps DEF inputVars, N!vars
<1> QED
  BY <1>1, InputInitHolds, PTL DEF N!Spec

\* However often the child is shown and hidden and whatever is typed: when the projection
\* says that no input is on its way, none is (dispatchInput, #finishInput).
THEOREM IdleStaysTrue == N!Spec => []IdleIsTrue
<1> QED
  BY InputHolds, InputInvIsIdle, PTL

-----------------------------------------------------------------------------
(* The Runtime. *)

Kinds == {"agent.start", "agent.end", "agent.settled", "snapshot.changed", "startupComplete",
          "session.shutdown", "answer", "refusal", "runtime.snapshot", "run.interrupt"}
HostFrame == {f \in [kind : Kinds, n : Nat, with : {"", "completed", "aborted", "reload", "quit"}] :
               f.with = "quit" => f.kind = "session.shutdown"}
ChildType == [session : {"idle", "streaming", "ended"}, started : Nat, current : Nat, latest : Nat,
              sequence : Nat, writing : Seq(Nat \X Nat), edge : BOOLEAN, bound : BOOLEAN,
              generation : Nat, version : Nat, complete : BOOLEAN, quit : BOOLEAN, closed : BOOLEAN]
OwnerType == [admission : {"pending", "checked", "admitted", "refused"}, launch : Nat,
              snapshot : Nat, revision : Nat, work : {"settled", "active", "unavailable"},
              current : Nat, latest : Nat, observed : BOOLEAN, aborted : BOOLEAN,
              lost : {"no", "stale_run", "shutdown", "launch", "failure"}, ended : Nat,
              disposed : BOOLEAN,
              reading : [step : {"no", "asked", "answered"}, revision : Nat, answer : Nat]]
HostTypes ==
  /\ child \in ChildType /\ owner \in OwnerType /\ sent \in Seq(HostFrame) /\ asked \in Seq(HostFrame)
  /\ overlapped \in BOOLEAN

\* Only the child numbers Runs.
Numbered ==
  /\ ~refused
  /\ child.current <= child.sequence /\ owner.current <= child.sequence
  /\ owner.latest <= child.sequence
  /\ \A k \in 1..Len(sent) : sent[k].kind \in {"agent.start", "agent.end", "agent.settled"} =>
       sent[k].n <= child.sequence
  /\ \A k \in 1..Len(asked) : asked[k].kind = "run.interrupt" => asked[k].n <= child.sequence

\* The report f takes an Owner that follows Run m to one that follows Run n; 0 is no Run.
Steps(m, f, n) ==
  CASE f.kind = "agent.start"   -> f.n # 0 /\ m \in {0, f.n} /\ n = f.n
    [] f.kind = "agent.end"     -> f.n # 0 /\ m = f.n /\ n = f.n
    [] f.kind = "agent.settled" -> f.n # 0 /\ m = f.n /\ n = 0
    [] OTHER -> n = m
\* The reports W, one after the other, do so.
Follows(m, W, n) ==
  \E at \in [0..Len(W) -> Nat] : /\ at[0] = m /\ at[Len(W)] = n
                                 /\ \A k \in 1..Len(W) : Steps(at[k - 1], W[k], at[k])

\* The Run that the child is in, as it has reported it.
RunOf(c) == IF c.session = "idle" THEN 0 ELSE c.current
Followed == \E n \in Nat : Follows(owner.current, sent, n) /\ (~child.closed => n = RunOf(child))
KeepsUp ==
  /\ owner.lost # "stale_run"
  /\ child.session # "idle" => child.writing = <<>> /\ child.current # 0
  /\ owner.work = "active" <=> owner.current # 0
  /\ owner.lost = "no" => Followed

HostInv == HostTypes /\ Numbered /\ (~overlapped => KeepsUp)

LEMMA StepsTo == ASSUME NEW m \in Nat, NEW f \in HostFrame, NEW n, Steps(m, f, n) PROVE n \in Nat
<1>1. f.n \in Nat
  BY DEF HostFrame
<1>2. n \in {m, f.n, 0}
  BY DEF Steps
<1> QED BY <1>1, <1>2

LEMMA NothingFollows == ASSUME NEW m \in Nat PROVE Follows(m, <<>>, m)
<1>1. PICK at : at = [k \in 0..0 |-> m]
  OBVIOUS
<1>2. at \in [0..Len(<<>>) -> Nat] /\ at[0] = m /\ at[Len(<<>>)] = m /\ 1..Len(<<>>) = {}
  BY <1>1
<1> QED BY <1>2 DEF Follows

LEMMA NothingLeft == ASSUME NEW m, NEW n, Follows(m, <<>>, n) PROVE n = m
<1> QED BY DEF Follows

LEMMA FollowAppend ==
  ASSUME NEW W \in Seq(HostFrame), NEW f \in HostFrame, NEW l, NEW m \in Nat, NEW n \in Nat,
         Follows(l, W, m), Steps(m, f, n)
  PROVE  Follows(l, Append(W, f), n)
<1>1. PICK at \in [0..Len(W) -> Nat] : /\ at[0] = l /\ at[Len(W)] = m
                                       /\ \A k \in 1..Len(W) : Steps(at[k - 1], W[k], at[k])
  BY DEF Follows
<1>2. Len(W) \in Nat /\ Len(Append(W, f)) = Len(W) + 1
  OBVIOUS
<1>3. PICK to : to = [k \in 0..(Len(W) + 1) |-> IF k = Len(W) + 1 THEN n ELSE at[k]]
  OBVIOUS
<1>4. to \in [0..Len(Append(W, f)) -> Nat]
  BY <1>1, <1>2, <1>3
<1>5. to[0] = l /\ to[Len(Append(W, f))] = n
  BY <1>1, <1>2, <1>3
<1>6. ASSUME NEW k \in 1..Len(Append(W, f)) PROVE Steps(to[k - 1], Append(W, f)[k], to[k])
  <2>1. CASE k = Len(W) + 1
    <3>1. to[k - 1] = m /\ to[k] = n /\ Append(W, f)[k] = f
      BY <1>1, <1>2, <1>3, <2>1
    <3> QED BY <3>1
  <2>2. CASE k # Len(W) + 1
    <3>1. /\ k \in 1..Len(W) /\ to[k - 1] = at[k - 1] /\ to[k] = at[k]
          /\ Append(W, f)[k] = W[k]
      BY <1>2, <1>3, <1>6, <2>2
    <3> QED BY <1>1, <3>1
  <2> QED BY <2>1, <2>2
<1> QED BY <1>4, <1>5, <1>6 DEF Follows

LEMMA FollowTail ==
  ASSUME NEW W \in Seq(HostFrame), W # <<>>, NEW l \in Nat, NEW n, Follows(l, W, n)
  PROVE  \E m \in Nat : Steps(l, Head(W), m) /\ Follows(m, Tail(W), n)
<1>1. PICK at \in [0..Len(W) -> Nat] : /\ at[0] = l /\ at[Len(W)] = n
                                       /\ \A k \in 1..Len(W) : Steps(at[k - 1], W[k], at[k])
  BY DEF Follows
<1>2. /\ Len(W) \in Nat /\ Len(W) >= 1 /\ Len(Tail(W)) = Len(W) - 1 /\ Head(W) = W[1]
      /\ \A k \in 1..Len(Tail(W)) : Tail(W)[k] = W[k + 1]
  BY EmptySeq, HeadTailProperties
<1>3. PICK to : to = [k \in 0..(Len(W) - 1) |-> at[k + 1]]
  OBVIOUS
<1>4. to \in [0..Len(Tail(W)) -> Nat]
  BY <1>1, <1>2, <1>3
<1>5. to[0] = at[1] /\ to[Len(Tail(W))] = n
  BY <1>1, <1>2, <1>3
<1>6. ASSUME NEW k \in 1..Len(Tail(W)) PROVE Steps(to[k - 1], Tail(W)[k], to[k])
  <2>1. /\ k + 1 \in 1..Len(W) /\ to[k - 1] = at[k + 1 - 1] /\ to[k] = at[k + 1]
        /\ Tail(W)[k] = W[k + 1]
    BY <1>2, <1>3, <1>6
  <2> QED BY <1>1, <2>1
<1>7. Follows(at[1], Tail(W), n)
  BY <1>4, <1>5, <1>6 DEF Follows
<1>8. at[1] \in Nat /\ Steps(l, Head(W), at[1])
  <2>1. 1 \in 1..Len(W) /\ 1 - 1 = 0
    BY <1>2
  <2>2. Steps(at[1 - 1], W[1], at[1])
    BY <1>1, <2>1
  <2> QED BY <1>1, <1>2, <2>1, <2>2
<1> QED BY <1>7, <1>8

LEMMA FollowPrefix ==
  ASSUME NEW W \in Seq(HostFrame), NEW i \in 0..Len(W), NEW l, NEW n, Follows(l, W, n)
  PROVE  \E m \in Nat : Follows(l, SubSeq(W, 1, i), m)
<1>1. PICK at \in [0..Len(W) -> Nat] : /\ at[0] = l /\ at[Len(W)] = n
                                       /\ \A k \in 1..Len(W) : Steps(at[k - 1], W[k], at[k])
  BY DEF Follows
<1>2. Len(W) \in Nat /\ Len(SubSeq(W, 1, i)) = i /\ \A k \in 1..i : SubSeq(W, 1, i)[k] = W[k]
  BY SubSeqProperties
<1>3. PICK to : to = [k \in 0..i |-> at[k]]
  OBVIOUS
<1>4. to \in [0..Len(SubSeq(W, 1, i)) -> Nat]
  <2>1. \A k \in 0..i : at[k] \in Nat
    BY <1>1, <1>2
  <2>2. to \in [0..i -> Nat]
    BY <1>3, <2>1
  <2> QED BY <1>2, <2>2
<1>5. to[0] = l /\ to[Len(SubSeq(W, 1, i))] = at[i] /\ at[i] \in Nat
  BY <1>1, <1>2, <1>3
<1>6. ASSUME NEW k \in 1..Len(SubSeq(W, 1, i)) PROVE Steps(to[k - 1], SubSeq(W, 1, i)[k], to[k])
  <2>1. /\ k \in 1..Len(W) /\ to[k - 1] = at[k - 1] /\ to[k] = at[k]
        /\ SubSeq(W, 1, i)[k] = W[k]
    BY <1>2, <1>3, <1>6
  <2> QED BY <1>1, <2>1
<1> QED BY <1>4, <1>5, <1>6 DEF Follows

hostVars == <<child, sent, asked, owner, refused, overlapped, events>>
Lifecycles == {"agent.start", "agent.end", "agent.settled"}

LEMMA SentFacts == ASSUME NEW f \in HostFrame
                    PROVE  f.n \in Nat /\ f.kind \in Kinds /\ (f.with = "quit" => f.kind = "session.shutdown")
<1>1. f \in [kind : Kinds, n : Nat, with : {"", "completed", "aborted", "reload", "quit"}]
  BY DEF HostFrame
<1>2. f.n \in Nat /\ f.kind \in Kinds
  BY <1>1
<1>3. f.with = "quit" => f.kind = "session.shutdown"
  BY DEF HostFrame
<1> QED BY <1>2, <1>3

LEMMA ChildFacts ==
  ASSUME NEW c \in ChildType
  PROVE  /\ c.session \in {"idle", "streaming", "ended"} /\ c.current \in Nat /\ c.sequence \in Nat
         /\ c.latest \in Nat /\ c.started \in Nat /\ c.version \in Nat /\ c.generation \in Nat
         /\ c.writing \in Seq(Nat \X Nat) /\ c.closed \in BOOLEAN /\ c.bound \in BOOLEAN
         /\ c.edge \in BOOLEAN /\ c.quit \in BOOLEAN /\ c.complete \in BOOLEAN /\ RunOf(c) \in Nat
<1> QED BY DEF ChildType, RunOf

LEMMA FramesAre ==
  ASSUME NEW n \in Nat
  PROVE  /\ \A kind \in Kinds : H!Frame(kind, n, "") \in HostFrame
         /\ \A with \in {"completed", "aborted"} : H!Frame("agent.end", n, with) \in HostFrame
         /\ \A with \in {"reload", "quit"} : H!Frame("session.shutdown", n, with) \in HostFrame
<1> QED BY DEF H!Frame, HostFrame, Kinds

\* What a step of the child that writes the frame f leaves as it was.
Writes(f) == H!Report(f) /\ child'.closed = child.closed

LEMMA ReportFacts ==
  ASSUME NEW f \in HostFrame, Writes(f), child \in ChildType, sent \in Seq(HostFrame)
  PROVE  /\ sent' \in Seq(HostFrame)
         /\ child.closed => sent' = sent
         /\ ~child.closed => sent' = Append(sent, f)
         /\ \A k \in 1..Len(sent') : (k \in 1..Len(sent) /\ sent'[k] = sent[k]) \/ sent'[k] = f
<1>1. CASE child.closed
  BY <1>1 DEF Writes, H!Report
<1>2. CASE ~child.closed
  <2>1. sent' = Append(sent, f)
    BY <1>2 DEF Writes, H!Report
  <2>2. /\ sent' \in Seq(HostFrame) /\ Len(sent') = Len(sent) + 1 /\ Len(sent) \in Nat
        /\ \A k \in 1..Len(sent) : sent'[k] = sent[k]
    BY <2>1
  <2>3. sent'[Len(sent) + 1] = f
    BY <2>1
  <2>4. ASSUME NEW k \in 1..Len(sent') PROVE (k \in 1..Len(sent) /\ sent'[k] = sent[k]) \/ sent'[k] = f
    BY <2>2, <2>3, <2>4
  <2> QED BY <1>2, <2>1, <2>2, <2>4
<1> QED BY <1>1, <1>2

LEMMA ReportNumbers ==
  ASSUME HostTypes, Numbered, NEW f \in HostFrame, Writes(f), child' \in ChildType,
         asked' = asked, owner' = owner, refused' = refused,
         child.sequence <= child'.sequence, child'.current <= child'.sequence,
         f.kind \in Lifecycles => f.n <= child'.sequence
  PROVE  Numbered' /\ sent' \in Seq(HostFrame)
<1>1. /\ sent' \in Seq(HostFrame)
      /\ \A k \in 1..Len(sent') : (k \in 1..Len(sent) /\ sent'[k] = sent[k]) \/ sent'[k] = f
  BY ReportFacts DEF HostTypes
<1>2. child.sequence \in Nat /\ child'.sequence \in Nat /\ owner.current \in Nat /\ owner.latest \in Nat
  BY ChildFacts DEF HostTypes, OwnerType
<1>3. ASSUME NEW k \in 1..Len(sent'), sent'[k].kind \in Lifecycles PROVE sent'[k].n <= child'.sequence
  <2>1. CASE k \in 1..Len(sent) /\ sent'[k] = sent[k]
    <3>1. sent[k] \in HostFrame
      BY <2>1 DEF HostTypes
    <3>2. sent[k].n \in Nat /\ sent[k].n <= child.sequence
      BY <1>3, <2>1, <3>1, SentFacts DEF Numbered, Lifecycles
    <3> QED BY <1>2, <2>1, <3>2
  <2>2. CASE sent'[k] = f
    BY <1>3, <2>2
  <2> QED BY <1>1, <2>1, <2>2
<1>4. ASSUME NEW k \in 1..Len(asked'), asked'[k].kind = "run.interrupt" PROVE asked'[k].n <= child'.sequence
  <2>1. asked[k] \in HostFrame /\ asked'[k] = asked[k] /\ k \in 1..Len(asked)
    BY <1>4 DEF HostTypes
  <2>2. asked[k].n \in Nat /\ asked[k].n <= child.sequence
    BY <1>4, <2>1, SentFacts DEF Numbered
  <2> QED BY <1>2, <2>1, <2>2
<1>5. ~refused' /\ owner'.current <= child'.sequence /\ owner'.latest <= child'.sequence
  BY <1>2 DEF Numbered
<1> QED BY <1>1, <1>3, <1>4, <1>5 DEF Numbered, Lifecycles

LEMMA ReportFollows ==
  ASSUME HostTypes, Followed, NEW f \in HostFrame, Writes(f), child' \in ChildType, owner' = owner,
         ~child.closed => Steps(RunOf(child), f, RunOf(child'))
  PROVE  Followed'
<1>1. /\ child.closed => sent' = sent
      /\ ~child.closed => sent' = Append(sent, f)
  BY ReportFacts DEF HostTypes
<1>2. PICK n \in Nat : Follows(owner.current, sent, n) /\ (~child.closed => n = RunOf(child))
  BY DEF Followed
<1>3. CASE child.closed
  <2>1. child'.closed /\ Follows(owner'.current, sent', n)
    BY <1>1, <1>2, <1>3 DEF Writes
  <2> QED BY <2>1 DEF Followed
<1>4. CASE ~child.closed
  <2>1. sent \in Seq(HostFrame) /\ RunOf(child') \in Nat
    BY ChildFacts DEF HostTypes
  <2>2. Follows(owner.current, Append(sent, f), RunOf(child'))
    BY <1>2, <1>4, <2>1, FollowAppend
  <2>3. Follows(owner'.current, sent', RunOf(child'))
    BY <1>1, <1>4, <2>2
  <2> QED BY <2>1, <2>3 DEF Followed
<1> QED BY <1>3, <1>4

\* A step of the child that writes nothing and stays in its Run.
LEMMA SilenceFollows ==
  ASSUME HostTypes, Followed, child' \in ChildType, owner' = owner, sent' = sent,
         child'.closed = child.closed, ~child.closed => RunOf(child') = RunOf(child)
  PROVE  Followed'
<1>1. PICK n \in Nat : Follows(owner.current, sent, n) /\ (~child.closed => n = RunOf(child))
  BY DEF Followed
<1>2. Follows(owner'.current, sent', n) /\ (~child'.closed => n = RunOf(child'))
  BY <1>1
<1> QED BY <1>2 DEF Followed

LEMMA SilenceNumbers ==
  ASSUME HostTypes, Numbered, child' \in ChildType, sent' = sent, asked' = asked,
         owner'.current <= child.sequence, owner'.latest <= child.sequence, refused' = refused,
         child.sequence = child'.sequence, child'.current <= child'.sequence
  PROVE  Numbered'
<1> QED BY DEF Numbered

InItsRun(c) == c.session # "idle" => c.writing = <<>> /\ c.current # 0

LEMMA ChildWrites ==
  ASSUME HostInv, NEW f \in HostFrame, Writes(f), child' \in ChildType,
         asked' = asked, owner' = owner, refused' = refused,
         overlapped' \in BOOLEAN, overlapped => overlapped',
         child.sequence <= child'.sequence, child'.current <= child'.sequence,
         f.kind \in Lifecycles => f.n <= child'.sequence,
         ~overlapped' /\ InItsRun(child)
           => InItsRun(child') /\ Steps(RunOf(child), f, RunOf(child'))
  PROVE  HostInv'
<1>1. HostTypes /\ Numbered
  BY DEF HostInv
<1>2. Numbered' /\ sent' \in Seq(HostFrame)
  BY <1>1, ReportNumbers
<1>3. HostTypes'
  BY <1>1, <1>2 DEF HostTypes
<1>4. ASSUME ~overlapped' PROVE KeepsUp'
  <2>1. KeepsUp /\ InItsRun(child)
    BY <1>4 DEF HostInv, KeepsUp, InItsRun
  <2>2. InItsRun(child') /\ Steps(RunOf(child), f, RunOf(child'))
    BY <1>4, <2>1
  <2>3. owner.lost = "no" => Followed'
    BY <1>1, <2>1, <2>2, ReportFollows DEF KeepsUp
  <2> QED BY <2>1, <2>2, <2>3 DEF KeepsUp, InItsRun
<1> QED BY <1>2, <1>3, <1>4 DEF HostInv

LEMMA ChildIsSilent ==
  ASSUME HostInv, child' \in ChildType, sent' = sent, child'.closed = child.closed,
         asked' = asked, owner' = owner, refused' = refused, overlapped' = overlapped,
         child.sequence = child'.sequence, child'.current <= child'.sequence,
         ~overlapped /\ InItsRun(child) => InItsRun(child') /\ RunOf(child') = RunOf(child)
  PROVE  HostInv'
<1>1. HostTypes /\ Numbered
  BY DEF HostInv
<1>2. Numbered'
  BY <1>1, SilenceNumbers DEF Numbered
<1>3. HostTypes'
  BY <1>1 DEF HostTypes
<1>4. ASSUME ~overlapped' PROVE KeepsUp'
  <2>1. KeepsUp /\ InItsRun(child)
    BY <1>4 DEF HostInv, KeepsUp, InItsRun
  <2>2. InItsRun(child') /\ RunOf(child') = RunOf(child)
    BY <1>4, <2>1
  <2>3. owner.lost = "no" => Followed'
    BY <1>1, <2>1, <2>2, SilenceFollows DEF KeepsUp
  <2> QED BY <2>1, <2>2, <2>3 DEF KeepsUp, InItsRun
<1> QED BY <1>2, <1>3, <1>4 DEF HostInv

LEMMA RunStartsKeeps == HostInv /\ H!RunStarts => HostInv'
<1> SUFFICES ASSUME HostInv, H!RunStarts PROVE HostInv'
  OBVIOUS
<1>1. child \in ChildType /\ overlapped \in BOOLEAN /\ child.current <= child.sequence
  BY DEF HostInv, HostTypes, Numbered
<1>2. /\ child.session \in {"idle", "streaming", "ended"} /\ child.current \in Nat
      /\ child.sequence \in Nat /\ child.started \in Nat /\ child.closed \in BOOLEAN
  BY <1>1, ChildFacts
<1>3. PICK id : id = IF child.current # 0 THEN child.current ELSE child.sequence + 1
  OBVIOUS
<1>4. id \in Nat /\ id # 0
  BY <1>2, <1>3
<1>5. PICK i : i = [child EXCEPT !.current = id, !.latest = id,
                                 !.sequence = IF @ < id THEN id ELSE @]
  OBVIOUS
<1>6. H!Identified(child) = i
  BY <1>3, <1>5 DEF H!Identified
<1>7. /\ i \in ChildType /\ i.current = id /\ id <= i.sequence /\ child.sequence <= i.sequence
      /\ i.writing = child.writing /\ i.closed = child.closed
  <2>1. (IF child.sequence < id THEN id ELSE child.sequence) \in Nat
    BY <1>2, <1>4
  <2>2. i \in ChildType
    BY <1>1, <1>4, <1>5, <2>1 DEF ChildType
  <2>3. /\ i.current = id /\ i.sequence = (IF child.sequence < id THEN id ELSE child.sequence)
        /\ i.writing = child.writing /\ i.closed = child.closed
    BY <1>1, <1>5 DEF ChildType
  <2> QED BY <1>2, <1>4, <2>2, <2>3
<1>8. PICK hook \in BOOLEAN : child' = [i EXCEPT !.session = "streaming", !.edge = hook, !.started = @ + 1]
  BY <1>6 DEF H!RunStarts
<1>9. PICK k : k = [i EXCEPT !.session = "streaming", !.edge = hook, !.started = @ + 1]
  OBVIOUS
<1>10. i.started \in Nat
  BY <1>7, ChildFacts
<1>11. k \in ChildType
  <2>1. PICK j : j = [i EXCEPT !.session = "streaming", !.started = i.started + 1]
    OBVIOUS
  <2>2. i \in ChildType /\ i.started + 1 \in Nat
    BY <1>7, <1>10
  <2>4. j \in ChildType
    BY <2>1, <2>2 DEF ChildType
  <2>3. k = [j EXCEPT !.edge = hook]
    BY <1>7, <1>9, <2>1 DEF ChildType
  <2> QED BY <2>3, <2>4 DEF ChildType
<1>12. /\ k.session = "streaming" /\ k.current = id /\ k.sequence = i.sequence
       /\ k.writing = child.writing /\ k.closed = child.closed
  BY <1>7, <1>9 DEF ChildType
<1>13. child' = k
  BY <1>8, <1>9
<1>14. PICK f : f = H!Frame("agent.start", id, "")
  OBVIOUS
<1>15. f \in HostFrame /\ f.kind = "agent.start" /\ f.n = id
  BY <1>4, <1>14, FramesAre DEF H!Frame, Kinds
<1>16. Writes(f)
  BY <1>12, <1>13, <1>14 DEF Writes, H!RunStarts
<1>17. /\ asked' = asked /\ owner' = owner /\ refused' = refused
       /\ overlapped' = (overlapped \/ child.writing # <<>>)
       /\ child.session \in {"idle", "ended"}
  BY DEF H!RunStarts
<1>18. ASSUME ~overlapped', InItsRun(child)
       PROVE  InItsRun(child') /\ Steps(RunOf(child), f, RunOf(child'))
  <2>1. InItsRun(k)
    BY <1>4, <1>12, <1>17, <1>18 DEF InItsRun
  <2>2. RunOf(k) = id /\ RunOf(child) \in {0, id}
    BY <1>3, <1>12, <1>18 DEF RunOf, InItsRun
  <2> QED BY <1>4, <1>13, <1>15, <2>1, <2>2 DEF Steps
<1> QED
  <2>1. child'.current <= child'.sequence /\ child.sequence <= child'.sequence /\ f.n <= child'.sequence
    BY <1>7, <1>12, <1>13, <1>15
  <2>2. child' \in ChildType /\ overlapped' \in BOOLEAN /\ (overlapped => overlapped')
    BY <1>1, <1>11, <1>13, <1>17
  <2> QED BY <1>15, <1>16, <1>17, <1>18, <2>1, <2>2, ChildWrites

LEMMA RunEndsKeeps ==
  ASSUME HostInv, NEW outcome \in {"completed", "aborted"}, H!RunEnds(outcome) PROVE HostInv'
<1>1. child \in ChildType /\ child.current <= child.sequence
  BY DEF HostInv, HostTypes, Numbered
<1>2. child.current \in Nat /\ child.sequence \in Nat
  BY <1>1, ChildFacts
<1>3. PICK k : k = [child EXCEPT !.session = "ended"]
  OBVIOUS
<1>4. k \in ChildType
  BY <1>1, <1>3 DEF ChildType
<1>5. /\ k.session = "ended" /\ k.current = child.current /\ k.sequence = child.sequence
      /\ k.writing = child.writing /\ k.closed = child.closed
  BY <1>1, <1>3 DEF ChildType
<1>6. /\ child' = k /\ asked' = asked /\ owner' = owner /\ refused' = refused
      /\ overlapped' = overlapped /\ child.session = "streaming" /\ overlapped \in BOOLEAN
  BY <1>3 DEF H!RunEnds, HostInv, HostTypes
<1>7. InItsRun(child) => InItsRun(child') /\ RunOf(child) = child.current /\ RunOf(child') = child.current
                         /\ child.current # 0
  BY <1>5, <1>6 DEF InItsRun, RunOf
<1>8. child' \in ChildType /\ child'.current <= child'.sequence /\ child.sequence = child'.sequence
      /\ child.sequence <= child'.sequence /\ child'.closed = child.closed
  BY <1>1, <1>2, <1>4, <1>5, <1>6
<1>9. CASE child.current = 0
  <2>1. sent' = sent
    BY <1>9 DEF H!RunEnds
  <2> QED BY <1>6, <1>7, <1>8, <2>1, ChildIsSilent
<1>10. CASE child.current # 0
  <2>1. PICK f : f = H!Frame("agent.end", child.current, outcome)
    OBVIOUS
  <2>2. f \in HostFrame /\ f.kind = "agent.end" /\ f.n = child.current
    BY <1>2, <2>1, FramesAre DEF H!Frame
  <2>3. Writes(f)
    BY <1>8, <1>10, <2>1 DEF Writes, H!RunEnds
  <2>4. InItsRun(child) => InItsRun(child') /\ Steps(RunOf(child), f, RunOf(child'))
    BY <1>7, <2>2 DEF Steps
  <2> QED BY <1>1, <1>5, <1>6, <1>8, <2>2, <2>3, <2>4, ChildWrites
<1> QED BY <1>9, <1>10

LEMMA RunSettlesKeeps == HostInv /\ H!RunSettles => HostInv'
<1> SUFFICES ASSUME HostInv, H!RunSettles PROVE HostInv'
  OBVIOUS
<1>1. child \in ChildType /\ child.current <= child.sequence /\ overlapped \in BOOLEAN
  BY DEF HostInv, HostTypes, Numbered
<1>2. /\ child.current \in Nat /\ child.sequence \in Nat /\ child.generation \in Nat
      /\ child.writing \in Seq(Nat \X Nat)
  BY <1>1, ChildFacts
<1>3. /\ asked' = asked /\ owner' = owner /\ refused' = refused /\ overlapped' = overlapped
      /\ child.session = "ended"
  BY DEF H!RunSettles
<1>4. CASE child.current = 0
  <2>1. sent' = sent /\ child' = [child EXCEPT !.session = "idle"]
    BY <1>4 DEF H!RunSettles
  <2>2. PICK k : k = [child EXCEPT !.session = "idle"]
    OBVIOUS
  <2>3. k \in ChildType
    BY <1>1, <2>2 DEF ChildType
  <2>4. /\ k.session = "idle" /\ k.current = child.current /\ k.sequence = child.sequence
        /\ k.closed = child.closed
    BY <1>1, <2>2 DEF ChildType
  <2>5. ~InItsRun(child)
    BY <1>3, <1>4 DEF InItsRun
  <2>6. /\ child' \in ChildType /\ child'.current <= child'.sequence /\ child.sequence = child'.sequence
        /\ child'.closed = child.closed
    BY <1>1, <2>1, <2>2, <2>3, <2>4
  <2> QED BY <1>3, <2>1, <2>5, <2>6, ChildIsSilent
<1>5. CASE child.current # 0
  <2>1. PICK w : w = IF child.closed THEN child.writing
                     ELSE Append(child.writing, <<child.current, child.generation>>)
    OBVIOUS
  <2>2. w \in Seq(Nat \X Nat)
    BY <1>2, <2>1
  <2>3. PICK s : s = [child EXCEPT !.writing = w]
    OBVIOUS
  <2>4. H!Settled(child) = s
    BY <2>1, <2>3, Zenon DEF H!Settled
  <2>5. s \in ChildType
    BY <1>1, <2>2, <2>3 DEF ChildType
  <2>6. s.current = child.current /\ s.sequence = child.sequence /\ s.closed = child.closed
    BY <1>1, <2>3 DEF ChildType
  <2>7. PICK k : k = [s EXCEPT !.session = "idle"]
    OBVIOUS
  <2>8. k \in ChildType
    BY <2>5, <2>7 DEF ChildType
  <2>9. /\ k.session = "idle" /\ k.current = child.current /\ k.sequence = child.sequence
        /\ k.closed = child.closed
    BY <2>5, <2>6, <2>7 DEF ChildType
  <2>10. child' = k
    BY <1>5, <2>4, <2>7 DEF H!RunSettles
  <2>11. PICK f : f = H!Frame("agent.settled", child.current, "")
    OBVIOUS
  <2>12. f \in HostFrame /\ f.kind = "agent.settled" /\ f.n = child.current
    BY <1>2, <2>11, FramesAre DEF H!Frame, Kinds
  <2>13. Writes(f)
    BY <1>5, <2>9, <2>10, <2>11 DEF Writes, H!RunSettles
  <2>14. InItsRun(child) => InItsRun(child') /\ Steps(RunOf(child), f, RunOf(child'))
    BY <1>3, <1>5, <2>9, <2>10, <2>12 DEF InItsRun, RunOf, Steps
  <2>15. child' \in ChildType /\ child.sequence <= child'.sequence /\ child'.current <= child'.sequence
         /\ f.n <= child'.sequence
    BY <1>1, <1>2, <2>8, <2>9, <2>10, <2>12
  <2> QED BY <1>1, <1>3, <2>12, <2>13, <2>14, <2>15, ChildWrites
<1> QED BY <1>4, <1>5

LEMMA OldEdgeKeeps == HostInv /\ H!OldEdge => HostInv'
<1> SUFFICES ASSUME HostInv, H!OldEdge PROVE HostInv'
  OBVIOUS
<1>1. child \in ChildType /\ child.current <= child.sequence
  BY DEF HostInv, HostTypes, Numbered
<1>2. PICK k : k = [child EXCEPT !.edge = FALSE]
  OBVIOUS
<1>3. k \in ChildType
  BY <1>1, <1>2 DEF ChildType
<1>4. /\ k.session = child.session /\ k.current = child.current /\ k.sequence = child.sequence
      /\ k.writing = child.writing /\ k.closed = child.closed
  BY <1>1, <1>2 DEF ChildType
<1>5. /\ child' = k /\ asked' = asked /\ owner' = owner /\ refused' = refused
      /\ overlapped' = overlapped /\ sent' = sent
  BY <1>2 DEF H!OldEdge
<1>6. InItsRun(child) => InItsRun(child') /\ RunOf(child') = RunOf(child)
  BY <1>4, <1>5 DEF InItsRun, RunOf
<1> QED BY <1>1, <1>3, <1>4, <1>5, <1>6, ChildIsSilent

LEMMA SettlementWrittenKeeps == HostInv /\ H!SettlementWritten => HostInv'
<1> SUFFICES ASSUME HostInv, H!SettlementWritten PROVE HostInv'
  OBVIOUS
<1>1. child \in ChildType /\ child.current <= child.sequence /\ child.writing # <<>>
  BY DEF HostInv, HostTypes, Numbered, H!SettlementWritten
<1>2. child.writing \in Seq(Nat \X Nat) /\ child.current \in Nat /\ child.sequence \in Nat
  BY <1>1, ChildFacts
<1>3. PICK n : n = IF child.bound /\ Head(child.writing) = <<child.current, child.generation>>
                   THEN 0 ELSE child.current
  OBVIOUS
<1>4. n \in Nat /\ n <= child.sequence
  BY <1>1, <1>2, <1>3
<1>5. Tail(child.writing) \in Seq(Nat \X Nat)
  BY <1>1, <1>2
<1>6. PICK k : k = [child EXCEPT !.writing = Tail(@), !.current = n]
  OBVIOUS
<1>7. k \in ChildType
  <2>1. PICK j : j = [child EXCEPT !.writing = Tail(@)]
    OBVIOUS
  <2>2. j \in ChildType
    BY <1>1, <1>5, <2>1 DEF ChildType
  <2>3. k = [j EXCEPT !.current = n]
    BY <1>1, <1>6, <2>1 DEF ChildType
  <2> QED BY <1>4, <2>2, <2>3 DEF ChildType
<1>8. /\ k.session = child.session /\ k.current = n /\ k.sequence = child.sequence
      /\ k.closed = child.closed
  BY <1>1, <1>6 DEF ChildType
<1>9. child' = k
  BY <1>3, <1>6 DEF H!SettlementWritten
<1>10. /\ asked' = asked /\ owner' = owner /\ refused' = refused
       /\ overlapped' = overlapped /\ sent' = sent
  BY DEF H!SettlementWritten
<1>11. InItsRun(child) => InItsRun(child') /\ RunOf(child') = RunOf(child)
  BY <1>1, <1>8, <1>9 DEF InItsRun, RunOf
<1>12. /\ child' \in ChildType /\ child'.current <= child'.sequence /\ child.sequence = child'.sequence
       /\ child'.closed = child.closed
  BY <1>4, <1>7, <1>8, <1>9
<1> QED BY <1>10, <1>11, <1>12, ChildIsSilent

\* A step of the child that touches neither its Run nor what it has to write.
SameRun == /\ child' \in ChildType /\ child'.session = child.session /\ child'.closed = child.closed
           /\ child'.current = child.current /\ child'.sequence = child.sequence
           /\ child'.writing = child.writing
           /\ asked' = asked /\ owner' = owner /\ refused' = refused /\ overlapped' = overlapped

LEMMA SameRunKeeps == ASSUME HostInv, SameRun, sent' = sent PROVE HostInv'
<1>1. child \in ChildType /\ child.current <= child.sequence
  BY DEF HostInv, HostTypes, Numbered
<1>2. InItsRun(child) => InItsRun(child') /\ RunOf(child') = RunOf(child)
  BY DEF SameRun, InItsRun, RunOf
<1> QED BY <1>1, <1>2, ChildIsSilent DEF SameRun

LEMMA SameRunReports ==
  ASSUME HostInv, SameRun, NEW f \in HostFrame, f.kind \notin Lifecycles, Writes(f)
  PROVE  HostInv'
<1>1. child \in ChildType /\ child.current <= child.sequence /\ overlapped \in BOOLEAN
  BY DEF HostInv, HostTypes, Numbered
<1>2. child.sequence \in Nat
  BY <1>1, ChildFacts
<1>3. InItsRun(child) => InItsRun(child') /\ Steps(RunOf(child), f, RunOf(child'))
  BY DEF SameRun, InItsRun, RunOf, Steps, Lifecycles
<1> QED BY <1>1, <1>2, <1>3, ChildWrites DEF SameRun

LEMMA SelectModelKeeps == HostInv /\ H!SelectModel => HostInv'
<1> SUFFICES ASSUME HostInv, H!SelectModel PROVE HostInv'
  OBVIOUS
<1>1. child \in ChildType
  BY DEF HostInv, HostTypes
<1>2. child.version + 1 \in Nat
  BY <1>1, ChildFacts
<1>3. PICK k : k = [child EXCEPT !.version = @ + 1]
  OBVIOUS
<1>4. k \in ChildType /\ k.version = child.version + 1 /\ k.closed = child.closed
  BY <1>1, <1>2, <1>3 DEF ChildType
<1>5. child' = k
  BY <1>3 DEF H!SelectModel
<1>6. SameRun
  BY <1>1, <1>3, <1>4, <1>5 DEF SameRun, H!SelectModel, ChildType
<1>7. CASE child.bound
  <2>1. PICK f : f = H!Frame("snapshot.changed", child.version + 1, "")
    OBVIOUS
  <2>2. f \in HostFrame /\ f.kind \notin Lifecycles
    BY <1>2, <2>1, FramesAre DEF H!Frame, Kinds, Lifecycles
  <2>3. Writes(f)
    BY <1>4, <1>5, <1>7, <2>1 DEF Writes, H!SelectModel
  <2> QED BY <1>6, <2>2, <2>3, SameRunReports
<1>8. CASE ~child.bound
  BY <1>6, <1>8, SameRunKeeps DEF H!SelectModel
<1> QED BY <1>7, <1>8

LEMMA EndGenerationKeeps ==
  ASSUME HostInv, NEW reason \in {"reload", "quit"}, H!EndGeneration(reason) PROVE HostInv'
<1>1. child \in ChildType
  BY DEF HostInv, HostTypes
<1>2. PICK q : q = (child.quit \/ reason = "quit")
  OBVIOUS
<1>3. q \in BOOLEAN
  BY <1>1, <1>2, ChildFacts
<1>4. PICK k : k = [child EXCEPT !.bound = FALSE, !.quit = q]
  OBVIOUS
<1>5. k \in ChildType
  <2>1. PICK j : j = [child EXCEPT !.bound = FALSE]
    OBVIOUS
  <2>2. j \in ChildType
    BY <1>1, <2>1 DEF ChildType
  <2>3. k = [j EXCEPT !.quit = q]
    BY <1>1, <1>4, <2>1 DEF ChildType
  <2> QED BY <1>3, <2>2, <2>3 DEF ChildType
<1>6. child' = k
  BY <1>2, <1>4 DEF H!EndGeneration
<1>7. SameRun
  BY <1>1, <1>4, <1>5, <1>6 DEF SameRun, H!EndGeneration, ChildType
<1>8. PICK f : f = H!Frame("session.shutdown", 0, reason)
  OBVIOUS
<1>9. f \in HostFrame /\ f.kind \notin Lifecycles
  <2>1. 0 \in Nat
    OBVIOUS
  <2> QED BY <1>8, <2>1, FramesAre DEF H!Frame, Lifecycles
<1>10. Writes(f)
  BY <1>7, <1>8 DEF Writes, SameRun, H!EndGeneration
<1> QED BY <1>7, <1>9, <1>10, SameRunReports

LEMMA BindKeeps == HostInv /\ H!Bind => HostInv'
<1> SUFFICES ASSUME HostInv, H!Bind PROVE HostInv'
  OBVIOUS
<1>1. child \in ChildType
  BY DEF HostInv, HostTypes
<1>2. child.generation + 1 \in Nat /\ child.version \in Nat
  BY <1>1, ChildFacts
<1>3. PICK k : k = [child EXCEPT !.bound = TRUE, !.generation = @ + 1]
  OBVIOUS
<1>4. k \in ChildType
  BY <1>1, <1>2, <1>3 DEF ChildType
<1>5. child' = k
  BY <1>3 DEF H!Bind
<1>6. SameRun
  BY <1>1, <1>3, <1>4, <1>5 DEF SameRun, H!Bind, ChildType
<1>7. PICK f : f = H!Frame("snapshot.changed", child.version, "")
  OBVIOUS
<1>8. f \in HostFrame /\ f.kind \notin Lifecycles
  BY <1>2, <1>7, FramesAre DEF H!Frame, Kinds, Lifecycles
<1>9. Writes(f)
  BY <1>6, <1>7 DEF Writes, SameRun, H!Bind
<1> QED BY <1>6, <1>8, <1>9, SameRunReports

LEMMA WireNumbers ==
  ASSUME HostTypes, Numbered,
         \A k \in 1..Len(sent') : sent'[k].kind \in Lifecycles => \E i \in 1..Len(sent) : sent'[k] = sent[i],
         \A k \in 1..Len(asked') : asked'[k].kind = "run.interrupt" => asked'[k].n <= child.sequence,
         ~refused', child'.sequence = child.sequence, child'.current = child.current,
         owner'.current <= child.sequence, owner'.latest <= child.sequence
  PROVE  Numbered'
<1>1. ASSUME NEW k \in 1..Len(sent'), sent'[k].kind \in Lifecycles PROVE sent'[k].n <= child.sequence
  <2>1. PICK i \in 1..Len(sent) : sent'[k] = sent[i]
    BY <1>1
  <2> QED BY <1>1, <2>1 DEF Numbered, Lifecycles
<1> QED BY <1>1 DEF Numbered, Lifecycles

LEMMA TailFrames ==
  ASSUME NEW W \in Seq(HostFrame), W # <<>>
  PROVE  /\ Tail(W) \in Seq(HostFrame) /\ Head(W) = W[1] /\ 1 \in 1..Len(W) /\ Head(W) \in HostFrame
         /\ \A k \in 1..Len(Tail(W)) : k + 1 \in 1..Len(W) /\ Tail(W)[k] = W[k + 1]
<1>1. /\ Len(W) \in Nat /\ Len(W) >= 1 /\ Len(Tail(W)) = Len(W) - 1 /\ Head(W) = W[1]
      /\ Tail(W) \in Seq(HostFrame)
      /\ \A k \in 1..Len(Tail(W)) : Tail(W)[k] = W[k + 1]
  BY EmptySeq, HeadTailProperties
<1>2. 1 \in 1..Len(W)
  BY <1>1
<1>3. \A k \in 1..Len(Tail(W)) : k + 1 \in 1..Len(W)
  BY <1>1
<1> QED BY <1>1, <1>2, <1>3

LEMMA CompleteStartupKeeps == HostInv /\ H!CompleteStartup => HostInv'
<1> SUFFICES ASSUME HostInv, H!CompleteStartup PROVE HostInv'
  OBVIOUS
<1>1. HostTypes /\ Numbered /\ child \in ChildType /\ sent \in Seq(HostFrame)
  BY DEF HostInv, HostTypes
<1>2. child.version \in Nat /\ RunOf(child) \in Nat
  BY <1>1, ChildFacts
<1>3. PICK k : k = [child EXCEPT !.complete = TRUE]
  OBVIOUS
<1>4. /\ k \in ChildType /\ k.session = child.session /\ k.current = child.current
      /\ k.sequence = child.sequence /\ k.writing = child.writing /\ k.closed = child.closed
  BY <1>1, <1>3 DEF ChildType
<1>5. /\ child' = k /\ asked' = asked /\ owner' = owner /\ refused' = refused
      /\ overlapped' = overlapped /\ ~child.closed
  BY <1>3 DEF H!CompleteStartup
<1>6. PICK f : f = H!Frame("snapshot.changed", child.version, "")
  OBVIOUS
<1>7. PICK g : g = H!Frame("startupComplete", child.version, "")
  OBVIOUS
<1>8. /\ f \in HostFrame /\ f.kind \notin Lifecycles
      /\ g \in HostFrame /\ g.kind \notin Lifecycles
  BY <1>2, <1>6, <1>7, FramesAre DEF H!Frame, Kinds, Lifecycles
<1>9. PICK W : W = Append(sent, f)
  OBVIOUS
<1>10. W \in Seq(HostFrame) /\ Len(W) = Len(sent) + 1 /\ Len(sent) \in Nat
  BY <1>1, <1>8, <1>9
<1>11. sent' = Append(W, g)
  <2>1. sent' = sent \o <<f, g>>
    BY <1>6, <1>7 DEF H!CompleteStartup
  <2>2. sent \o <<f, g>> = Append(Append(sent, f), g)
    BY <1>1, <1>8
  <2> QED BY <1>9, <2>1, <2>2
<1>12. sent' \in Seq(HostFrame)
  BY <1>8, <1>10, <1>11
<1>13. ASSUME NEW i \in 1..Len(sent'), sent'[i].kind \in Lifecycles
       PROVE  \E j \in 1..Len(sent) : sent'[i] = sent[j]
  <2>1. i \in 1..(Len(W) + 1)
    BY <1>8, <1>10, <1>11, <1>13
  <2>2. i # Len(W) + 1
    BY <1>8, <1>10, <1>11, <1>13
  <2>3. i \in 1..Len(W) /\ sent'[i] = W[i]
    BY <1>8, <1>10, <1>11, <2>1, <2>2
  <2>4. i # Len(sent) + 1
    BY <1>1, <1>8, <1>9, <1>13, <2>3
  <2>5. i \in 1..Len(sent) /\ W[i] = sent[i]
    BY <1>1, <1>8, <1>9, <1>10, <2>3, <2>4
  <2> QED BY <2>3, <2>5
<1>14. Numbered'
  BY <1>1, <1>4, <1>5, <1>13, WireNumbers DEF Numbered
<1>15. HostTypes'
  BY <1>1, <1>4, <1>5, <1>12 DEF HostTypes
<1>16. ASSUME ~overlapped' PROVE KeepsUp'
  <2>1. KeepsUp
    BY <1>5, <1>16 DEF HostInv
  <2>2. ASSUME owner.lost = "no" PROVE Followed'
    <3>1. Followed
      BY <2>1, <2>2 DEF KeepsUp
    <3>2. PICK n \in Nat : Follows(owner.current, sent, n) /\ n = RunOf(child)
      BY <1>5, <3>1 DEF Followed
    <3>3. Steps(n, f, n) /\ Steps(n, g, n)
      BY <1>8 DEF Steps, Lifecycles
    <3>4. Follows(owner.current, W, n)
      BY <1>1, <1>8, <1>9, <3>2, <3>3, FollowAppend
    <3>5. Follows(owner.current, sent', n)
      BY <1>8, <1>10, <1>11, <3>3, <3>4, FollowAppend
    <3>6. RunOf(child') = n
      BY <1>4, <1>5, <3>2 DEF RunOf
    <3> QED BY <1>5, <3>5, <3>6 DEF Followed
  <2> QED BY <1>4, <1>5, <2>1, <2>2 DEF KeepsUp
<1> QED BY <1>14, <1>15, <1>16 DEF HostInv

LEMMA ServeKeeps == HostInv /\ H!Serve => HostInv'
<1> SUFFICES ASSUME HostInv, H!Serve PROVE HostInv'
  OBVIOUS
<1>1. HostTypes /\ Numbered /\ child \in ChildType /\ sent \in Seq(HostFrame) /\ asked \in Seq(HostFrame)
  BY DEF HostInv, HostTypes
<1>2. /\ child' = child /\ owner' = owner /\ overlapped' = overlapped /\ ~child.closed
      /\ asked # <<>> /\ asked' = Tail(asked)
  BY DEF H!Serve
<1>3. PICK r : r = Head(asked)
  OBVIOUS
<1>4. /\ asked' \in Seq(HostFrame) /\ r = asked[1] /\ 1 \in 1..Len(asked)
      /\ \A k \in 1..Len(asked') : k + 1 \in 1..Len(asked) /\ asked'[k] = asked[k + 1]
  BY <1>1, <1>2, <1>3, TailFrames
<1>5. r.kind = "run.interrupt" => r.n <= child.sequence
  BY <1>1, <1>4 DEF Numbered
<1>6. ~refused'
  <2>1. refused' = (refused \/ (r.kind = "run.interrupt" /\ child.bound /\ ~H!Reported(r.n)))
    BY <1>3 DEF H!Serve
  <2> QED BY <1>1, <1>5, <2>1 DEF H!Reported, Numbered
<1>7. child.version \in Nat /\ 0 \in Nat
  BY <1>1, ChildFacts
<1>8. PICK f : f = IF child.bound THEN H!Frame("answer", child.version, "") ELSE H!Frame("refusal", 0, "")
  OBVIOUS
<1>9. f \in HostFrame /\ f.kind \notin Lifecycles
  BY <1>7, <1>8, FramesAre DEF H!Frame, Kinds, Lifecycles
<1>10. sent' = sent \/ Writes(f)
  BY <1>2, <1>3, <1>8 DEF H!Serve, Writes
<1>11. sent' \in Seq(HostFrame)
  BY <1>1, <1>9, <1>10, ReportFacts
<1>12. ASSUME NEW i \in 1..Len(sent'), sent'[i].kind \in Lifecycles
       PROVE  \E j \in 1..Len(sent) : sent'[i] = sent[j]
  <2>1. i \in 1..Len(sent) /\ sent'[i] = sent[i]
    BY <1>1, <1>9, <1>10, <1>12, ReportFacts
  <2> QED BY <2>1
<1>13. \A k \in 1..Len(asked') : asked'[k].kind = "run.interrupt" => asked'[k].n <= child.sequence
  BY <1>1, <1>4 DEF Numbered
<1>14. Numbered'
  BY <1>1, <1>2, <1>6, <1>12, <1>13, WireNumbers DEF Numbered
<1>15. HostTypes'
  BY <1>1, <1>2, <1>4, <1>11 DEF HostTypes
<1>16. ASSUME ~overlapped' PROVE KeepsUp'
  <2>1. KeepsUp
    BY <1>2, <1>16 DEF HostInv
  <2>2. ASSUME owner.lost = "no" PROVE Followed'
    <3>1. Followed
      BY <2>1, <2>2 DEF KeepsUp
    <3>2. Steps(RunOf(child), f, RunOf(child'))
      BY <1>2, <1>9 DEF Steps, Lifecycles
    <3>3. CASE sent' = sent
      BY <1>2, <3>1, <3>3 DEF Followed
    <3>4. CASE Writes(f)
      BY <1>1, <1>2, <1>9, <3>1, <3>2, <3>4, ReportFollows
    <3> QED BY <1>10, <3>3, <3>4
  <2> QED BY <1>2, <2>1, <2>2 DEF KeepsUp
<1> QED BY <1>14, <1>15, <1>16 DEF HostInv

LEMMA ExitKeeps == HostInv /\ H!Exit => HostInv'
<1> SUFFICES ASSUME HostInv, H!Exit PROVE HostInv'
  OBVIOUS
<1>1. HostTypes /\ Numbered /\ child \in ChildType /\ sent \in Seq(HostFrame)
  BY DEF HostInv, HostTypes
<1>2. PICK k : k = [child EXCEPT !.closed = TRUE, !.writing = <<>>]
  OBVIOUS
<1>3. k \in ChildType
  <2>1. PICK j : j = [child EXCEPT !.closed = TRUE]
    OBVIOUS
  <2>2. j \in ChildType
    BY <1>1, <2>1 DEF ChildType
  <2>3. k = [j EXCEPT !.writing = <<>>]
    BY <1>1, <1>2, <2>1 DEF ChildType
  <2>4. <<>> \in Seq(Nat \X Nat)
    OBVIOUS
  <2> QED BY <2>2, <2>3, <2>4 DEF ChildType
<1>4. /\ k.session = child.session /\ k.current = child.current /\ k.sequence = child.sequence
      /\ k.writing = <<>> /\ k.closed = TRUE
  BY <1>1, <1>2 DEF ChildType
<1>5. /\ child' = k /\ owner' = owner /\ refused' = refused /\ overlapped' = overlapped
      /\ asked' = <<>>
  BY <1>2 DEF H!Exit
<1>6. PICK n \in 0..Len(sent) : sent' = SubSeq(sent, 1, n)
  BY DEF H!Exit
<1>7. /\ sent' \in Seq(HostFrame) /\ Len(sent') = n /\ Len(sent) \in Nat
      /\ \A i \in 1..n : sent'[i] = sent[i]
  BY <1>1, <1>6, SubSeqProperties
<1>8. ASSUME NEW i \in 1..Len(sent') PROVE \E j \in 1..Len(sent) : sent'[i] = sent[j]
  BY <1>6, <1>7, <1>8
<1>9. asked' \in Seq(HostFrame) /\ 1..Len(asked') = {}
  BY <1>5
<1>10. Numbered'
  BY <1>1, <1>4, <1>5, <1>8, <1>9, WireNumbers DEF Numbered
<1>11. HostTypes'
  BY <1>1, <1>3, <1>5, <1>7, <1>9 DEF HostTypes
<1>12. ASSUME ~overlapped' PROVE KeepsUp'
  <2>1. KeepsUp
    BY <1>5, <1>12 DEF HostInv
  <2>2. ASSUME owner.lost = "no" PROVE Followed'
    <3>1. PICK m \in Nat : Follows(owner.current, sent, m)
      BY <2>1, <2>2 DEF KeepsUp, Followed
    <3>2. PICK l \in Nat : Follows(owner.current, SubSeq(sent, 1, n), l)
      BY <1>1, <3>1, FollowPrefix
    <3>3. Follows(owner'.current, sent', l) /\ child'.closed
      BY <1>4, <1>5, <1>6, <3>2
    <3> QED BY <3>3 DEF Followed
  <2> QED BY <1>4, <1>5, <2>1, <2>2 DEF KeepsUp
<1> QED BY <1>10, <1>11, <1>12 DEF HostInv

Reasons == {"stale_run", "shutdown", "launch", "failure"}

LEMMA OwnerFacts ==
  ASSUME NEW o \in OwnerType
  PROVE  /\ o.current \in Nat /\ o.latest \in Nat /\ o.launch \in Nat /\ o.snapshot \in Nat
         /\ o.revision \in Nat /\ o.ended \in Nat /\ o.aborted \in BOOLEAN
         /\ o.lost \in {"no"} \cup Reasons
         /\ o.reading.answer \in Nat /\ o.reading.revision \in Nat
<1> QED BY DEF OwnerType, Reasons

\* The Owner is active exactly while it follows a Run.
Works(o) == o.work = "active" <=> o.current # 0

LEMMA LostFacts ==
  ASSUME NEW o \in OwnerType, NEW why \in Reasons, NEW l, l = H!Lost(o, why)
  PROVE  /\ l \in OwnerType /\ l.current \in {0, o.current} /\ l.latest = o.latest
         /\ l.lost \in {o.lost, why} /\ l.lost # "no" /\ (Works(o) => Works(l))
<1>1. CASE o.lost # "no"
  BY <1>1 DEF H!Lost
<1>2. CASE o.lost = "no"
  <2>1. PICK e : e = IF why # "shutdown" /\ (o.observed \/ o.snapshot # 0) THEN o.ended + 1 ELSE o.ended
    OBVIOUS
  <2>2. e \in Nat
    BY <2>1, OwnerFacts
  <2>3. PICK j : j = [o EXCEPT !.lost = why, !.work = "unavailable"]
    OBVIOUS
  <2>4. j \in OwnerType
    BY <2>3 DEF OwnerType, Reasons
  <2>5. PICK i : i = [j EXCEPT !.current = 0, !.aborted = TRUE]
    OBVIOUS
  <2>6. i \in OwnerType
    BY <2>4, <2>5 DEF OwnerType
  <2>7. PICK k : k = [i EXCEPT !.ended = e]
    OBVIOUS
  <2>8. k \in OwnerType
    BY <2>2, <2>6, <2>7 DEF OwnerType
  <2>9. l = [o EXCEPT !.lost = why, !.work = "unavailable", !.current = 0, !.aborted = TRUE,
                      !.ended = e]
    BY <1>2, <2>1 DEF H!Lost
  <2>10. l = k
    BY <2>3, <2>5, <2>7, <2>9 DEF OwnerType
  <2>11. /\ l.current = 0 /\ l.latest = o.latest /\ l.lost = why /\ l.work = "unavailable"
    BY <2>9 DEF OwnerType
  <2> QED BY <2>8, <2>10, <2>11 DEF Works, Reasons
<1> QED BY <1>1, <1>2

\* What handling the report f makes of the Owner o: it is told of Runs by the reports of
\* Runs only, and follows what they say.
Learns(o, f, h) ==
  /\ h \in OwnerType
  /\ h.current \in {0, o.current} \/ (f.kind \in Lifecycles /\ h.current = f.n)
  /\ h.latest = o.latest \/ (f.kind \in Lifecycles /\ h.latest = f.n)
  /\ o.lost # "no" => h.lost = o.lost /\ h.work = o.work /\ h.current = o.current
  /\ \A n \in Nat : Steps(o.current, f, n) =>
       /\ Works(o) => Works(h)
       /\ o.lost # "stale_run" => h.lost # "stale_run"
       /\ h.lost = "no" => h.current = n

LEMMA SameLearns ==
  ASSUME NEW o \in OwnerType, NEW f \in HostFrame, f.kind \notin Lifecycles, NEW h \in OwnerType,
         h.current = o.current, h.latest = o.latest, h.lost = o.lost, h.work = o.work
  PROVE  Learns(o, f, h)
<1> QED BY DEF Learns, Works, Steps, Lifecycles

LEMMA LifecycleTeaches ==
  ASSUME NEW o \in OwnerType, o.lost = "no", NEW f \in HostFrame, f.kind \in Lifecycles
  PROVE  Learns(o, f, H!Lifecycle(o, f))
<1>1. f.n \in Nat
  BY SentFacts
<1>2. PICK h : h = H!Lifecycle(o, f)
  OBVIOUS
<1>3. CASE ~H!Accepts(o, f)
  <2>1. h = H!Lost(o, "stale_run")
    BY <1>2, <1>3 DEF H!Lifecycle
  <2>2. /\ h \in OwnerType /\ h.current \in {0, o.current} /\ h.latest = o.latest
        /\ h.lost # "no" /\ (Works(o) => Works(h))
    BY <2>1, LostFacts DEF Reasons
  <2>3. \A n \in Nat : ~Steps(o.current, f, n)
    BY <1>3 DEF H!Accepts, Steps, Lifecycles
  <2> QED BY <1>2, <2>2, <2>3 DEF Learns
<1>4. CASE H!Accepts(o, f) /\ f.kind = "agent.start"
  <2>1. PICK j : j = [o EXCEPT !.current = f.n, !.latest = f.n, !.observed = TRUE]
    OBVIOUS
  <2>2. j \in OwnerType /\ j.current = f.n /\ j.latest = f.n /\ j.lost = "no"
    BY <1>1, <2>1 DEF OwnerType
  <2>3. h = [j EXCEPT !.work = "active", !.aborted = FALSE]
    BY <1>2, <1>4, <2>1 DEF H!Lifecycle
  <2>4. h \in OwnerType /\ h.current = f.n /\ h.latest = f.n /\ h.lost = "no" /\ h.work = "active"
    BY <2>2, <2>3 DEF OwnerType
  <2> QED BY <1>2, <1>4, <2>4 DEF Works, Learns, Steps, Lifecycles
<1>5. CASE H!Accepts(o, f) /\ f.kind = "agent.end"
  <2>1. PICK b : b = (o.aborted \/ f.with = "aborted")
    OBVIOUS
  <2>2. b \in BOOLEAN
    BY <2>1, OwnerFacts
  <2>3. h = [o EXCEPT !.aborted = b]
    BY <1>2, <1>5, <2>1 DEF H!Lifecycle
  <2>4. h \in OwnerType
    BY <2>2, <2>3 DEF OwnerType
  <2>5. h.current = o.current /\ h.latest = o.latest /\ h.lost = "no" /\ h.work = o.work
    BY <2>3 DEF OwnerType
  <2> QED BY <1>2, <1>5, <2>4, <2>5 DEF Learns, Works, Steps, Lifecycles
<1>6. CASE H!Accepts(o, f) /\ f.kind = "agent.settled"
  <2>1. h = [o EXCEPT !.work = "settled", !.current = 0]
    BY <1>2, <1>6 DEF H!Lifecycle
  <2>2. h \in OwnerType /\ h.current = 0 /\ h.latest = o.latest /\ h.lost = "no" /\ h.work = "settled"
    BY <2>1 DEF OwnerType
  <2> QED BY <1>2, <1>6, <2>2 DEF Learns, Works, Steps, Lifecycles
<1> QED BY <1>3, <1>4, <1>5, <1>6 DEF Lifecycles

LEMMA ReportTeaches ==
  ASSUME NEW o \in OwnerType, NEW f \in HostFrame
  PROVE  Learns(o, f, H!Handled(o, f))
<1>1. f.n \in Nat /\ f.kind \in Kinds
  BY SentFacts
<1>2. PICK h : h = H!Handled(o, f)
  OBVIOUS
<1>3. PICK r : r = o.reading
  OBVIOUS
<1>4. r \in [step : {"no", "asked", "answered"}, revision : Nat, answer : Nat]
  BY <1>3 DEF OwnerType
<1>5. CASE f.kind = "answer"
  <2>1. PICK s : s = [r EXCEPT !.answer = f.n, !.step = "answered"]
    OBVIOUS
  <2>2. s \in [step : {"no", "asked", "answered"}, revision : Nat, answer : Nat]
    BY <1>1, <1>4, <2>1
  <2>3. h = [o EXCEPT !.reading = s]
    BY <1>2, <1>3, <1>5, <2>1 DEF H!Handled, OwnerType
  <2>4. h \in OwnerType /\ h.current = o.current /\ h.latest = o.latest /\ h.lost = o.lost /\ h.work = o.work
    BY <2>2, <2>3 DEF OwnerType
  <2> QED BY <1>2, <1>5, <2>4, SameLearns DEF Lifecycles
<1>6. CASE f.kind = "refusal"
  <2>1. PICK s : s = [r EXCEPT !.step = "no"]
    OBVIOUS
  <2>2. s \in [step : {"no", "asked", "answered"}, revision : Nat, answer : Nat]
    BY <1>4, <2>1
  <2>3. h = [o EXCEPT !.reading = s]
    BY <1>2, <1>3, <1>6, <2>1 DEF H!Handled, OwnerType
  <2>4. h \in OwnerType /\ h.current = o.current /\ h.latest = o.latest /\ h.lost = o.lost /\ h.work = o.work
    BY <2>2, <2>3 DEF OwnerType
  <2> QED BY <1>2, <1>6, <2>4, SameLearns DEF Lifecycles
<1>7. CASE f.kind = "startupComplete"
  <2>1. h \in {[o EXCEPT !.admission = "checked", !.launch = f.n], o}
    BY <1>2, <1>7 DEF H!Handled
  <2>2. h \in OwnerType /\ h.current = o.current /\ h.latest = o.latest /\ h.lost = o.lost /\ h.work = o.work
    <3>1. CASE h = o
      BY <3>1
    <3>2. CASE h = [o EXCEPT !.admission = "checked", !.launch = f.n]
      BY <1>1, <3>2 DEF OwnerType
    <3> QED BY <2>1, <3>1, <3>2
  <2> QED BY <1>2, <1>7, <2>2, SameLearns DEF Lifecycles
<1>8. CASE f.kind \notin {"answer", "refusal", "startupComplete"} /\ o.lost # "no"
  <2>1. h = o
    BY <1>2, <1>8 DEF H!Handled
  <2> QED BY <1>2, <1>8, <2>1 DEF Learns
<1>9. CASE f.kind = "snapshot.changed" /\ o.lost = "no"
  <2>1. o.revision + 1 \in Nat
    BY OwnerFacts
  <2>2. h = [o EXCEPT !.revision = o.revision + 1, !.snapshot = f.n]
    BY <1>2, <1>9 DEF H!Handled
  <2>3. h \in OwnerType /\ h.current = o.current /\ h.latest = o.latest /\ h.lost = o.lost /\ h.work = o.work
    BY <1>1, <2>1, <2>2 DEF OwnerType
  <2> QED BY <1>2, <1>9, <2>3, SameLearns DEF Lifecycles
<1>10. CASE f.kind \in Lifecycles /\ o.lost = "no"
  <2>1. h = H!Lifecycle(o, f)
    BY <1>2, <1>10 DEF H!Handled, Lifecycles
  <2> QED BY <1>2, <1>10, <2>1, LifecycleTeaches
<1>11. CASE /\ f.kind \notin {"answer", "refusal", "startupComplete", "snapshot.changed"} \cup Lifecycles
            /\ o.lost = "no"
  <2>1. h = o
    BY <1>2, <1>11 DEF H!Handled, Lifecycles
  <2> QED BY <1>2, <1>11, <2>1, SameLearns
<1> QED BY <1>5, <1>6, <1>7, <1>8, <1>9, <1>10, <1>11

\* A step of the Owner that handles no report: it may lose the child, and ask it something.
OwnerStays ==
  /\ owner' \in OwnerType
  /\ owner'.current \in {0, owner.current} /\ owner'.latest = owner.latest
  /\ owner'.lost = "no" => owner.lost = "no" /\ owner'.current = owner.current
  /\ owner.lost # "stale_run" => owner'.lost # "stale_run"
  /\ Works(owner) => Works(owner')
  /\ child' = child /\ sent' = sent /\ refused' = refused /\ overlapped' = overlapped

LEMMA OwnerAsks ==
  ASSUME HostInv, OwnerStays, NEW f \in HostFrame, asked' = Append(asked, f),
         f.kind = "run.interrupt" => f.n <= child.sequence
  PROVE  HostInv'
<1>1. HostTypes /\ Numbered /\ asked \in Seq(HostFrame) /\ child \in ChildType /\ owner \in OwnerType
  BY DEF HostInv, HostTypes
<1>2. /\ asked' \in Seq(HostFrame) /\ Len(asked') = Len(asked) + 1 /\ Len(asked) \in Nat
      /\ asked'[Len(asked) + 1] = f /\ \A k \in 1..Len(asked) : asked'[k] = asked[k]
  BY <1>1
<1>3. ASSUME NEW k \in 1..Len(asked'), asked'[k].kind = "run.interrupt" PROVE asked'[k].n <= child.sequence
  <2>1. CASE k = Len(asked) + 1
    BY <1>2, <1>3, <2>1
  <2>2. CASE k # Len(asked) + 1
    <3>1. k \in 1..Len(asked) /\ asked'[k] = asked[k]
      BY <1>2, <1>3, <2>2
    <3> QED BY <1>1, <1>3, <3>1 DEF Numbered
  <2> QED BY <2>1, <2>2
<1>4. owner'.current <= child.sequence /\ owner'.latest <= child.sequence
  BY <1>1, ChildFacts DEF OwnerStays, Numbered
<1>5. Numbered'
  BY <1>1, <1>3, <1>4, WireNumbers DEF Numbered, OwnerStays
<1>6. HostTypes'
  BY <1>1, <1>2 DEF HostTypes, OwnerStays
<1>7. ASSUME ~overlapped' PROVE KeepsUp'
  <2>1. KeepsUp
    BY <1>7 DEF HostInv, OwnerStays
  <2>2. owner'.lost = "no" => Followed'
    BY <2>1 DEF KeepsUp, Followed, OwnerStays
  <2> QED BY <2>1, <2>2 DEF KeepsUp, OwnerStays, Works
<1> QED BY <1>5, <1>6, <1>7 DEF HostInv

LEMMA OwnerRests == ASSUME HostInv, OwnerStays, asked' = asked PROVE HostInv'
<1>1. HostTypes /\ Numbered /\ child \in ChildType /\ owner \in OwnerType
  BY DEF HostInv, HostTypes
<1>2. owner'.current <= child.sequence /\ owner'.latest <= child.sequence
  BY <1>1, ChildFacts DEF OwnerStays, Numbered
<1>3. Numbered'
  BY <1>1, <1>2, WireNumbers DEF Numbered, OwnerStays
<1>4. HostTypes'
  BY <1>1 DEF HostTypes, OwnerStays
<1>5. ASSUME ~overlapped' PROVE KeepsUp'
  <2>1. KeepsUp
    BY <1>5 DEF HostInv, OwnerStays
  <2>2. owner'.lost = "no" => Followed'
    BY <2>1 DEF KeepsUp, Followed, OwnerStays
  <2> QED BY <2>1, <2>2 DEF KeepsUp, OwnerStays, Works
<1> QED BY <1>3, <1>4, <1>5 DEF HostInv

\* A step of the Owner that handles the first report.
LEMMA ReportKeeps ==
  ASSUME HostInv, sent # <<>>, sent' = Tail(sent), Learns(owner, Head(sent), owner'),
         child' = child, asked' = asked, refused' = refused, overlapped' = overlapped
  PROVE  HostInv'
<1>1. /\ HostTypes /\ Numbered /\ child \in ChildType /\ owner \in OwnerType
      /\ sent \in Seq(HostFrame)
  BY DEF HostInv, HostTypes
<1>2. PICK f : f = Head(sent)
  OBVIOUS
<1>3. /\ sent' \in Seq(HostFrame) /\ f = sent[1] /\ 1 \in 1..Len(sent) /\ f \in HostFrame
      /\ \A k \in 1..Len(sent') : k + 1 \in 1..Len(sent) /\ sent'[k] = sent[k + 1]
  BY <1>1, <1>2, TailFrames
<1>4. f.n \in Nat /\ child.sequence \in Nat /\ owner.current \in Nat
  BY <1>1, <1>3, SentFacts, ChildFacts, OwnerFacts
<1>5. f.kind \in Lifecycles => f.n <= child.sequence
  BY <1>1, <1>3 DEF Numbered, Lifecycles
<1>6. owner'.current <= child.sequence /\ owner'.latest <= child.sequence
  BY <1>1, <1>2, <1>4, <1>5 DEF Learns, Numbered
<1>7. \A k \in 1..Len(sent') : \E i \in 1..Len(sent) : sent'[k] = sent[i]
  BY <1>3
<1>8. Numbered'
  BY <1>1, <1>6, <1>7, WireNumbers DEF Numbered
<1>9. HostTypes'
  BY <1>1, <1>3 DEF HostTypes, Learns
<1>10. ASSUME ~overlapped' PROVE KeepsUp'
  <2>1. KeepsUp
    BY <1>10 DEF HostInv
  <2>2. CASE owner.lost = "no"
    <3>1. PICK n \in Nat : Follows(owner.current, sent, n) /\ (~child.closed => n = RunOf(child))
      BY <2>1, <2>2 DEF KeepsUp, Followed
    <3>2. PICK m \in Nat : Steps(owner.current, f, m) /\ Follows(m, sent', n)
      BY <1>1, <1>2, <1>4, <3>1, FollowTail
    <3>3. /\ Works(owner) => Works(owner')
          /\ owner'.lost # "stale_run" /\ (owner'.lost = "no" => owner'.current = m)
      BY <1>2, <2>2, <3>2 DEF Learns
    <3>4. owner'.lost = "no" => Followed'
      BY <3>1, <3>2, <3>3 DEF Followed
    <3> QED BY <2>1, <3>3, <3>4 DEF KeepsUp, Works
  <2>3. CASE owner.lost # "no"
    <3>1. owner'.lost = owner.lost /\ owner'.work = owner.work /\ owner'.current = owner.current
      BY <2>3 DEF Learns
    <3> QED BY <2>1, <2>3, <3>1 DEF KeepsUp
  <2> QED BY <2>2, <2>3
<1> QED BY <1>8, <1>9, <1>10 DEF HostInv

LEMMA HandleEventKeeps == HostInv /\ H!HandleEvent => HostInv'
<1> SUFFICES ASSUME HostInv, H!HandleEvent PROVE HostInv'
  OBVIOUS
<1>1. owner \in OwnerType /\ sent \in Seq(HostFrame)
  BY DEF HostInv, HostTypes
<1>2. PICK f : f = Head(sent)
  OBVIOUS
<1>3. f \in HostFrame
  BY <1>1, <1>2, TailFrames DEF H!HandleEvent
<1>4. CASE f.with = "quit" /\ ~owner.disposed /\ owner.lost = "no"
  <2>1. f.kind \notin Lifecycles
    BY <1>3, <1>4, SentFacts DEF Lifecycles
  <2>2. ASSUME owner' = owner PROVE Learns(owner, f, owner')
    BY <1>1, <1>3, <2>1, <2>2, SameLearns
  <2>3. ASSUME owner' = [H!Lost(owner, "shutdown") EXCEPT !.disposed = TRUE]
        PROVE  Learns(owner, f, owner')
    <3>1. PICK l : l = H!Lost(owner, "shutdown")
      OBVIOUS
    <3>2. /\ l \in OwnerType /\ l.current \in {0, owner.current} /\ l.latest = owner.latest
          /\ l.lost \in {owner.lost, "shutdown"} /\ l.lost # "no" /\ (Works(owner) => Works(l))
      BY <1>1, <3>1, LostFacts DEF Reasons
    <3>3. PICK h : h = [l EXCEPT !.disposed = TRUE]
      OBVIOUS
    <3>4. /\ h \in OwnerType /\ h.current = l.current /\ h.latest = l.latest /\ h.lost = l.lost
          /\ h.work = l.work
      BY <3>2, <3>3 DEF OwnerType
    <3>5. Learns(owner, f, h)
      BY <1>4, <3>2, <3>4 DEF Learns, Works
    <3>6. owner' = h
      BY <2>3, <3>1, <3>3
    <3> QED BY <3>5, <3>6
  <2>4. \/ owner' = owner
        \/ owner' = [H!Lost(owner, "shutdown") EXCEPT !.disposed = TRUE]
    BY <1>2, <1>4 DEF H!HandleEvent
  <2>5. Learns(owner, f, owner')
    BY <2>2, <2>3, <2>4
  <2> QED BY <1>2, <2>5, ReportKeeps DEF H!HandleEvent
<1>5. CASE ~(f.with = "quit" /\ ~owner.disposed /\ owner.lost = "no")
  <2>1. owner' = H!Handled(owner, f)
    BY <1>2, <1>5 DEF H!HandleEvent
  <2>2. Learns(owner, f, owner')
    BY <1>1, <1>3, <2>1, ReportTeaches
  <2> QED BY <1>2, <2>2, ReportKeeps DEF H!HandleEvent
<1> QED BY <1>4, <1>5

LEMMA OwnerLoses ==
  ASSUME HostInv, owner.lost = "no", NEW why \in Reasons \ {"stale_run"}, NEW l \in OwnerType,
         l.current = H!Lost(owner, why).current, l.latest = H!Lost(owner, why).latest,
         l.lost = H!Lost(owner, why).lost, l.work = H!Lost(owner, why).work,
         owner' = l, child' = child, sent' = sent, asked' = asked, refused' = refused,
         overlapped' = overlapped
  PROVE  HostInv'
<1>1. owner \in OwnerType
  BY DEF HostInv, HostTypes
<1>2. PICK h : h = H!Lost(owner, why)
  OBVIOUS
<1>3. /\ h.current \in {0, owner.current} /\ h.latest = owner.latest
      /\ h.lost \in {owner.lost, why} /\ h.lost # "no" /\ (Works(owner) => Works(h))
  BY <1>1, <1>2, LostFacts
<1>4. OwnerStays
  BY <1>2, <1>3 DEF OwnerStays, Works, Reasons
<1> QED BY <1>4, OwnerRests

LEMMA OwnerActs ==
  ASSUME HostInv,
         H!Admit \/ H!RefuseAdmission \/ H!Read \/ H!AdoptAnswer \/ H!Interrupt \/ H!Dispose \/ H!ObserveClose
  PROVE  HostInv'
<1>1. owner \in OwnerType /\ Numbered
  BY DEF HostInv, HostTypes
<1>2. PICK r : r = owner.reading
  OBVIOUS
<1>3. r \in [step : {"no", "asked", "answered"}, revision : Nat, answer : Nat]
  BY <1>1, <1>2 DEF OwnerType
<1>4. CASE H!Admit
  <2>1. owner' = [owner EXCEPT !.admission = "admitted", !.snapshot = owner.launch]
    BY <1>4 DEF H!Admit
  <2>2. owner.launch \in Nat
    BY <1>1, OwnerFacts
  <2>3. /\ owner' \in OwnerType /\ owner'.current = owner.current /\ owner'.latest = owner.latest
        /\ owner'.lost = owner.lost /\ owner'.work = owner.work
    BY <1>1, <2>1, <2>2 DEF OwnerType
  <2>4. OwnerStays /\ asked' = asked
    BY <1>4, <2>3 DEF OwnerStays, Works, H!Admit
  <2> QED BY <2>4, OwnerRests
<1>5. CASE H!RefuseAdmission
  <2>1. PICK l : l = H!Lost(owner, "launch")
    OBVIOUS
  <2>2. l \in OwnerType
    BY <1>1, <2>1, LostFacts DEF Reasons
  <2>3. PICK k : k = [l EXCEPT !.admission = "refused"]
    OBVIOUS
  <2>4. k \in OwnerType /\ k.current = l.current /\ k.latest = l.latest /\ k.lost = l.lost /\ k.work = l.work
    BY <2>2, <2>3 DEF OwnerType
  <2>5. owner' = k
    BY <1>5, <2>1, <2>3 DEF H!RefuseAdmission
  <2> QED BY <1>5, <2>1, <2>4, <2>5, OwnerLoses DEF H!RefuseAdmission, Reasons
<1>6. CASE H!Read
  <2>1. PICK q : q = [step |-> "asked", revision |-> owner.revision, answer |-> 0]
    OBVIOUS
  <2>2. q \in [step : {"no", "asked", "answered"}, revision : Nat, answer : Nat]
    BY <1>1, <2>1, OwnerFacts
  <2>3. owner' = [owner EXCEPT !.reading = q]
    BY <1>6, <2>1 DEF H!Read
  <2>4. /\ owner' \in OwnerType /\ owner'.current = owner.current /\ owner'.latest = owner.latest
        /\ owner'.lost = owner.lost /\ owner'.work = owner.work
    BY <1>1, <2>2, <2>3 DEF OwnerType
  <2>5. OwnerStays
    BY <1>6, <2>4 DEF OwnerStays, Works, H!Read
  <2>6. PICK f : f = H!Frame("runtime.snapshot", 0, "")
    OBVIOUS
  <2>7. f \in HostFrame /\ f.kind = "runtime.snapshot"
    <3>1. 0 \in Nat
      OBVIOUS
    <3> QED BY <2>6, <3>1, FramesAre DEF H!Frame, Kinds
  <2>8. asked' = Append(asked, f)
    BY <1>6, <2>6 DEF H!Read
  <2> QED BY <2>5, <2>7, <2>8, OwnerAsks
<1>7. CASE H!AdoptAnswer
  <2>1. PICK q : q = [r EXCEPT !.step = "no"]
    OBVIOUS
  <2>2. q \in [step : {"no", "asked", "answered"}, revision : Nat, answer : Nat]
    BY <1>3, <2>1
  <2>3. PICK n : n = IF H!Current(owner.reading) THEN owner.reading.answer ELSE owner.snapshot
    OBVIOUS
  <2>4. n \in Nat
    BY <1>1, <2>3, OwnerFacts
  <2>5. owner' = [owner EXCEPT !.reading = q, !.snapshot = n]
    BY <1>1, <1>2, <1>7, <2>1, <2>3 DEF H!AdoptAnswer, OwnerType
  <2>6. /\ owner' \in OwnerType /\ owner'.current = owner.current /\ owner'.latest = owner.latest
        /\ owner'.lost = owner.lost /\ owner'.work = owner.work
    BY <1>1, <2>2, <2>4, <2>5 DEF OwnerType
  <2>7. OwnerStays /\ asked' = asked
    BY <1>7, <2>6 DEF OwnerStays, Works, H!AdoptAnswer
  <2> QED BY <2>7, OwnerRests
<1>8. CASE H!Interrupt
  <2>1. PICK run : run = IF owner.current # 0 THEN owner.current ELSE owner.latest
    OBVIOUS
  <2>2. run \in Nat /\ run <= child.sequence
    BY <1>1, <2>1, OwnerFacts DEF Numbered
  <2>3. PICK f : f = H!Frame("run.interrupt", run, "")
    OBVIOUS
  <2>4. f \in HostFrame /\ f.n = run
    BY <2>2, <2>3, FramesAre DEF H!Frame, Kinds
  <2>5. asked' = Append(asked, f)
    BY <1>8, <2>1, <2>3 DEF H!Interrupt
  <2>6. OwnerStays
    BY <1>1, <1>8 DEF OwnerStays, H!Interrupt
  <2> QED BY <2>2, <2>4, <2>5, <2>6, OwnerAsks
<1>9. CASE H!Dispose
  <2>1. owner' = [owner EXCEPT !.disposed = TRUE]
    BY <1>9 DEF H!Dispose
  <2>2. /\ owner' \in OwnerType /\ owner'.current = owner.current /\ owner'.latest = owner.latest
        /\ owner'.lost = owner.lost /\ owner'.work = owner.work
    BY <1>1, <2>1 DEF OwnerType
  <2>3. OwnerStays /\ asked' = asked
    BY <1>9, <2>2 DEF OwnerStays, Works, H!Dispose
  <2> QED BY <2>3, OwnerRests
<1>10. CASE H!ObserveClose
  <2>1. PICK l : l = H!Lost(owner, "failure")
    OBVIOUS
  <2>2. l \in OwnerType
    BY <1>1, <2>1, LostFacts DEF Reasons
  <2> QED BY <1>10, <2>1, <2>2, OwnerLoses DEF H!ObserveClose, Reasons
<1> QED BY <1>4, <1>5, <1>6, <1>7, <1>8, <1>9, <1>10

LEMMA HostInitHolds == H!Init => HostInv
<1> SUFFICES ASSUME H!Init PROVE HostInv
  OBVIOUS
<1>1. <<>> \in Seq(HostFrame) /\ <<>> \in Seq(Nat \X Nat)
  OBVIOUS
<1>2. /\ child \in ChildType /\ child.session = "idle" /\ child.current = 0 /\ child.sequence = 0
  BY <1>1 DEF H!Init, ChildType
<1>3. /\ owner \in OwnerType /\ owner.work = "settled" /\ owner.current = 0 /\ owner.latest = 0
      /\ owner.lost = "no"
  BY DEF H!Init, OwnerType
<1>4. sent = <<>> /\ asked = <<>> /\ refused = FALSE /\ overlapped = FALSE
  BY DEF H!Init
<1>5. HostTypes /\ Numbered
  <2>1. HostTypes
    BY <1>1, <1>2, <1>3, <1>4 DEF HostTypes
  <2>2. 1..Len(sent) = {} /\ 1..Len(asked) = {}
    BY <1>4
  <2>3. Numbered
    BY <1>2, <1>3, <1>4, <2>2 DEF Numbered
  <2> QED BY <2>1, <2>3
<1>6. Followed
  <2>1. Follows(0, <<>>, 0)
    BY NothingFollows
  <2>2. Follows(owner.current, sent, 0) /\ 0 = RunOf(child) /\ 0 \in Nat
    BY <1>2, <1>3, <1>4, <2>1 DEF RunOf
  <2> QED BY <2>2 DEF Followed
<1>7. KeepsUp
  BY <1>2, <1>3, <1>6 DEF KeepsUp
<1> QED BY <1>5, <1>7 DEF HostInv

LEMMA HostKeeps == HostInv /\ [H!Next]_hostVars => HostInv'
<1> SUFFICES ASSUME HostInv, [H!Next]_hostVars PROVE HostInv'
  OBVIOUS
<1>1. CASE UNCHANGED hostVars
  BY <1>1 DEF hostVars, HostInv, HostTypes, Numbered, KeepsUp, Followed
<1>2. CASE H!Next
  BY <1>2, RunStartsKeeps, RunEndsKeeps, RunSettlesKeeps, OldEdgeKeeps, SettlementWrittenKeeps,
     SelectModelKeeps, CompleteStartupKeeps, BindKeeps, ServeKeeps, ExitKeeps, EndGenerationKeeps,
     HandleEventKeeps, OwnerActs DEF H!Next
<1> QED BY <1>1, <1>2

LEMMA HostInvKeepsUp == HostInv => OwnerKeepsUp
<1> SUFFICES ASSUME HostInv PROVE OwnerKeepsUp
  OBVIOUS
<1>1. H!InterruptsAreRecognised
  BY DEF HostInv, Numbered, H!InterruptsAreRecognised
<1>2. ASSUME ~overlapped PROVE H!OwnerFollowsTheChild
  <2>1. KeepsUp /\ HostTypes
    BY <1>2 DEF HostInv
  <2>2. ASSUME H!Quiet PROVE owner.work = "active" <=> child.session # "idle"
    <3>1. sent = <<>> /\ ~child.closed /\ owner.lost = "no"
      BY <2>2 DEF H!Quiet
    <3>2. PICK n \in Nat : Follows(owner.current, sent, n) /\ n = RunOf(child)
      BY <2>1, <3>1 DEF KeepsUp, Followed
    <3>3. owner.current = RunOf(child)
      BY <3>1, <3>2, NothingLeft
    <3>4. RunOf(child) # 0 <=> child.session # "idle"
      BY <2>1 DEF RunOf, KeepsUp
    <3> QED BY <2>1, <3>3, <3>4 DEF KeepsUp
  <2> QED BY <2>1, <2>2 DEF KeepsUp, H!OwnerFollowsTheChild
<1> QED BY <1>1, <1>2 DEF OwnerKeepsUp, H!OwnerKeepsUp, H!OwnerFollowsUnlessOverlapped

\* What the Owner follows of a child's Runs (process-runtime/pi-child-process-runtime.ts,
\* ChildControlConnection): as long as no Run starts under a settlement that is still
\* being written, the reports on their way lead from the Run that the Owner follows to the
\* one that the child is in, and whatever the Owner asks names a Run the child has numbered.
THEOREM HostHolds == H!Spec => []HostInv
<1>1. HostInv /\ [H!Next]_H!vars => HostInv'
  BY HostKeeps DEF hostVars, H!vars
<1> QED
  BY <1>1, HostInitHolds, PTL DEF H!Spec

\* Through reloads, continuations, lost processes and late requests: no native Run is taken
\* for a stale one, the Owner that has handled every report shows the child active exactly
\* while it is, and no interrupt is refused as drift (#handleEvent, requireReportedRun).
THEOREM OwnerAlwaysKeepsUp == H!Spec => []OwnerKeepsUp
<1> QED
  BY HostHolds, HostInvKeepsUp, PTL
=============================================================================
