------------------------ MODULE DeferredBoots_proofs ------------------------
(***************************************************************************)
(* No slot of the soft concurrency bound is handed out twice, for every    *)
(* finite set of children and every bound.  Whoever was handed one is      *)
(* counted from then on: as a boot in flight until its dispatch, which     *)
(* makes its Run work in the same step, and as working until it stops.  So *)
(* what startDeferredBoots hands out is free beside all that were granted. *)
(***************************************************************************)
EXTENDS DeferredBoots, FiniteSetTheorems, FunctionTheorems, TLAPS

Bounds == IsFiniteSet(Agents) /\ MaxRuns \in Nat

TypeInv == working \in [Agents -> BOOLEAN] /\ IsFiniteSet(inFlight)

\* A child that was granted a slot occupies it.
GrantedIsCounted == \A a \in granted : a \in inFlight \/ (a \in Agents /\ working[a])

IInv == TypeInv /\ GrantedIsCounted /\ SlotsAreHandedOutOnce

-----------------------------------------------------------------------------
\* What is listed at n positions are at most n things.
LEMMA ListedAreBounded ==
  ASSUME NEW seq, NEW n \in Nat
  PROVE  LET listed == {seq[i] : i \in 1 .. n}
         IN  IsFiniteSet(listed) /\ Cardinality(listed) \in Nat /\ Cardinality(listed) <= n
  <1> DEFINE listed == {seq[i] : i \in 1 .. n}
             f == [i \in 1 .. n |-> seq[i]]
  <1>1. f \in [1 .. n -> listed]
    OBVIOUS
  <1>2. \A t \in listed : \E i \in 1 .. n : f[i] = t
    OBVIOUS
  <1>3. f \in Surjection(1 .. n, listed)
    BY <1>1, <1>2 DEF Surjection
  <1>4. IsFiniteSet(1 .. n) /\ Cardinality(1 .. n) = n
    BY FS_Interval
  <1>5. IsFiniteSet(listed) /\ Cardinality(listed) <= n
    BY <1>3, <1>4, FS_Surjection
  <1>6. Cardinality(listed) \in Nat
    BY <1>5, FS_CardinalityType
  <1> QED BY <1>5, <1>6

\* What counts against the bound includes what was granted.
LEMMA GrantedFitsCounted ==
  ASSUME Bounds, IInv
  PROVE  /\ IsFiniteSet(Counted) /\ IsFiniteSet(granted) /\ granted \subseteq Counted
         /\ Cardinality(granted) \in Nat /\ Cardinality(Counted) \in Nat
         /\ Cardinality(granted) <= Cardinality(Counted)
  <1>1. IsFiniteSet({a \in Agents : Working(a)})
    BY FS_Subset DEF Bounds
  <1>2. IsFiniteSet(Counted)
    BY <1>1, FS_Union DEF Counted, IInv, TypeInv
  <1>3. granted \subseteq Counted
    BY DEF IInv, GrantedIsCounted, Counted, Working
  <1>4. IsFiniteSet(granted) /\ Cardinality(granted) <= Cardinality(Counted)
    BY <1>2, <1>3, FS_Subset
  <1> QED BY <1>2, <1>3, <1>4, FS_CardinalityType

\* A step that grants nothing and after which whoever keeps its slot occupies it.
LEMMA GrantsNothing ==
  ASSUME Bounds, IInv, TypeInv', GrantedIsCounted', granted' \subseteq granted
  PROVE  IInv'
  <1>1. IsFiniteSet(granted) /\ Cardinality(granted) \in Nat
    BY GrantedFitsCounted
  <1>2. IsFiniteSet(granted') /\ Cardinality(granted') <= Cardinality(granted)
    BY <1>1, FS_Subset
  <1>3. Cardinality(granted') \in Nat
    BY <1>2, FS_CardinalityType
  <1>4. Cardinality(granted') <= MaxRuns
    BY <1>1, <1>2, <1>3 DEF IInv, SlotsAreHandedOutOnce, Bounds
  <1> QED BY <1>4 DEF IInv, SlotsAreHandedOutOnce

\* startDeferredBoots starts at most as many boots as slots are free.
LEMMA StartKeepsBound ==
  ASSUME Bounds, IInv, StartDeferredBoots, UNCHANGED working
  PROVE  IInv'
  <1> DEFINE awaiting == SelectSeq(deferred, AwaitsBoot)
             n == IF Len(awaiting) <= FreeSlots THEN Len(awaiting) ELSE FreeSlots
  <1>1. PICK boots : /\ boots = {awaiting[i] : i \in 1 .. n}
                     /\ inFlight' = inFlight \union boots
                     /\ granted' = granted \union boots
    BY Zenon DEF StartDeferredBoots
  <1>2. /\ IsFiniteSet(Counted) /\ IsFiniteSet(granted)
        /\ Cardinality(granted) \in Nat /\ Cardinality(Counted) \in Nat
        /\ Cardinality(granted) <= Cardinality(Counted)
    BY GrantedFitsCounted
  <1>3. FreeSlots \in Nat /\ (FreeSlots = 0 \/ FreeSlots = MaxRuns - Cardinality(Counted))
    BY <1>2 DEF FreeSlots, Bounds
  <1>4. n \in Nat /\ n <= FreeSlots
    <2>1. Len(awaiting) \in Nat
      OBVIOUS
    <2> QED BY <1>3, <2>1
  <1>5. IsFiniteSet(boots) /\ Cardinality(boots) \in Nat /\ Cardinality(boots) <= n
    <2> HIDE DEF n, awaiting
    <2> QED BY <1>1, <1>4, ListedAreBounded
  <1> HIDE DEF n
  <1>6. IsFiniteSet(inFlight')
    BY <1>1, <1>5, FS_Union DEF IInv, TypeInv
  <1>7. /\ IsFiniteSet(granted') /\ Cardinality(granted') \in Nat
        /\ Cardinality(granted') <= Cardinality(granted) + Cardinality(boots)
    <2>1. /\ IsFiniteSet(granted \union boots)
          /\ Cardinality(granted \union boots)
               = Cardinality(granted) + Cardinality(boots) - Cardinality(granted \cap boots)
      BY <1>2, <1>5, FS_Union
    <2>2. Cardinality(granted \cap boots) \in Nat
      BY <1>2, FS_Subset, FS_CardinalityType
    <2>3. Cardinality(granted \union boots) \in Nat
      BY <2>1, FS_CardinalityType
    <2> QED BY <1>1, <1>2, <1>5, <2>1, <2>2, <2>3
  <1>8. Cardinality(granted') <= MaxRuns
    <2>1. Cardinality(granted) <= MaxRuns /\ MaxRuns \in Nat
      BY DEF IInv, SlotsAreHandedOutOnce, Bounds
    <2> QED BY <1>2, <1>3, <1>4, <1>5, <1>7, <2>1
  <1>9. GrantedIsCounted'
    BY <1>1 DEF IInv, GrantedIsCounted
  <1> QED BY <1>6, <1>8, <1>9 DEF IInv, TypeInv, SlotsAreHandedOutOnce

-----------------------------------------------------------------------------
\* A boot that ends releases its own slot and no other.
LEMMA BootEndsReleases ==
  ASSUME IInv, NEW a, NEW throws, BootEnds(a, throws)
  PROVE  inFlight' = inFlight \ {a} /\ IsFiniteSet(inFlight')
  <1>1. inFlight' = inFlight \ {a}
    BY DEF BootEnds
  <1> QED BY <1>1, FS_Subset DEF IInv, TypeInv

\* Whoever is dispatched works from then on.
LEMMA DispatchedWorks ==
  ASSUME IInv, NEW a \in Agents, Dispatched(a)
  PROVE  /\ working' \in [Agents -> BOOLEAN]
         /\ \A b \in Agents : working'[b] <=> working[b] \/ b = a
  <1>1. working' = [working EXCEPT ![a] = TRUE] /\ working \in [Agents -> BOOLEAN]
    BY DEF Dispatched, IInv, TypeInv
  <1>2. working' \in [Agents -> BOOLEAN]
    BY <1>1
  <1>3. ASSUME NEW b \in Agents
        PROVE  working'[b] <=> working[b] \/ b = a
    <2>1. CASE b = a
      BY <1>1, <2>1
    <2>2. CASE b # a
      <3>1. working'[b] = working[b]
        BY <1>1, <2>2
      <3> QED BY <3>1, <2>2
    <2> QED BY <2>1, <2>2
  <1> QED BY <1>2, <1>3

\* A dispatch of a boot moves its slot from what is in flight to what works.
LEMMA DispatchKeeps ==
  ASSUME Bounds, IInv, NEW a \in Agents, Dispatched(a), granted' = granted,
         inFlight' = inFlight \/ inFlight' = inFlight \ {a}
  PROVE  IInv'
  <1>1. /\ working' \in [Agents -> BOOLEAN]
        /\ \A b \in Agents : working'[b] <=> working[b] \/ b = a
    BY DispatchedWorks
  <1>2. IsFiniteSet(inFlight')
    BY FS_Subset DEF IInv, TypeInv
  <1>3. GrantedIsCounted'
    BY <1>1 DEF IInv, GrantedIsCounted
  <1> QED BY <1>1, <1>2, <1>3, GrantsNothing DEF TypeInv

\* A boot that ends without a dispatch gives its slot up.
LEMMA ReleaseKeeps ==
  ASSUME Bounds, IInv, NEW a, inFlight' = inFlight \ {a}, working' = working,
         granted' \subseteq granted,
         a \in granted' => a \in Agents /\ working[a]
  PROVE  IInv'
  <1>1. IsFiniteSet(inFlight')
    BY FS_Subset DEF IInv, TypeInv
  <1>2. GrantedIsCounted'
    BY DEF IInv, GrantedIsCounted
  <1> QED BY <1>1, <1>2, GrantsNothing DEF IInv, TypeInv

\* A step that leaves slots, boots and work alone.
LEMMA QuietStep ==
  ASSUME Bounds, IInv, UNCHANGED <<working, inFlight, granted>>
  PROVE  IInv'
  BY DEF IInv, TypeInv, GrantedIsCounted, SlotsAreHandedOutOnce

\* A child that begins to work on its own occupies no slot that was granted.
LEMMA WorksKeeps ==
  ASSUME Bounds, IInv, NEW a \in Agents, working' = [working EXCEPT ![a] = TRUE],
         UNCHANGED <<inFlight, granted>>
  PROVE  IInv'
  <1>1. working \in [Agents -> BOOLEAN]
    BY DEF IInv, TypeInv
  <1>2. working' \in [Agents -> BOOLEAN] /\ \A b \in Agents : working[b] => working'[b]
    BY <1>1
  <1>3. GrantedIsCounted'
    BY <1>2 DEF IInv, GrantedIsCounted
  <1> QED BY <1>2, <1>3, GrantsNothing DEF IInv, TypeInv

-----------------------------------------------------------------------------
\* Each operation of a child's lane keeps the invariant.
LEMMA AdmitKeeps ==
  ASSUME Bounds, IInv, NEW a \in Agents, Admit(a)
  PROVE  IInv'
  <1>1. UNCHANGED <<inFlight, granted>> /\ (Dispatched(a) \/ UNCHANGED working)
    BY Zenon DEF Admit
  <1>2. CASE Dispatched(a)
    BY <1>1, <1>2, DispatchKeeps
  <1>3. CASE UNCHANGED working
    BY <1>1, <1>3, QuietStep
  <1> QED BY <1>1, <1>2, <1>3

LEMMA BootKeeps ==
  ASSUME Bounds, IInv, NEW a \in Agents, Boot(a)
  PROVE  IInv'
  <1>1. CASE /\ BootEnds(a, FALSE) /\ UNCHANGED working
             /\ granted' = granted \ (IF working[a] THEN {} ELSE {a})
    <2>1. inFlight' = inFlight \ {a}
      BY <1>1, BootEndsReleases
    <2> QED BY <1>1, <2>1, ReleaseKeeps
  <1>2. CASE Dispatched(a) /\ BootEnds(a, FALSE) /\ UNCHANGED granted
    <2>1. inFlight' = inFlight \ {a}
      BY <1>2, BootEndsReleases
    <2> QED BY <1>2, <2>1, DispatchKeeps
  <1>3. CASE UNCHANGED <<working, inFlight, granted>>
    BY <1>3, QuietStep
  <1> QED BY <1>1, <1>2, <1>3 DEF Boot

LEMMA StartedKeeps ==
  ASSUME Bounds, IInv, NEW a \in Agents, Started(a)
  PROVE  IInv'
  <1>1. /\ UNCHANGED <<inFlight, granted>>
        /\ UNCHANGED working \/ working' = [working EXCEPT ![a] = TRUE]
    BY DEF Started
  <1>2. CASE UNCHANGED working
    BY <1>1, <1>2, QuietStep
  <1>3. CASE working' = [working EXCEPT ![a] = TRUE]
    BY <1>1, <1>3, WorksKeeps
  <1> QED BY <1>1, <1>2, <1>3

LEMMA DrainsKeeps ==
  ASSUME Bounds, IInv, NEW a \in Agents, Drains(a)
  PROVE  IInv'
  <1>1. CASE Dispatched(a) /\ UNCHANGED <<inFlight, granted>>
    BY <1>1, DispatchKeeps
  <1>2. CASE BootEnds(a, FALSE) /\ Dispatched(a) /\ UNCHANGED granted
    <2>1. inFlight' = inFlight \ {a}
      BY <1>2, BootEndsReleases
    <2> QED BY <1>2, <2>1, DispatchKeeps
  <1>3. CASE BootEnds(a, FALSE) /\ granted' = granted \ {a} /\ UNCHANGED working
    <2>1. inFlight' = inFlight \ {a}
      BY <1>3, BootEndsReleases
    <2> QED BY <1>3, <2>1, ReleaseKeeps
  <1> QED BY <1>1, <1>2, <1>3 DEF Drains

LEMMA FailsKeeps ==
  ASSUME Bounds, IInv, NEW a \in Agents, NEW throws \in BOOLEAN, Fails(a, throws)
  PROVE  IInv'
  <1>1. CASE BootEnds(a, throws) /\ granted' = granted \ {a}
    <2>1. inFlight' = inFlight \ {a} /\ UNCHANGED working
      BY <1>1, BootEndsReleases DEF Fails
    <2> QED BY <1>1, <2>1, ReleaseKeeps
  <1>2. CASE UNCHANGED <<inFlight, granted>>
    BY <1>2, QuietStep DEF Fails
  <1> QED BY <1>1, <1>2 DEF Fails

LEMMA StopsWorkKeeps ==
  ASSUME Bounds, IInv, NEW a \in Agents, StopsWork(a)
  PROVE  IInv'
  <1>1. working \in [Agents -> BOOLEAN]
    BY DEF IInv, TypeInv
  <1>2. /\ working' = working \/ working' = [working EXCEPT ![a] = FALSE]
        /\ granted' = granted \ {a} /\ UNCHANGED inFlight
    BY DEF StopsWork
  <1>3. /\ working' \in [Agents -> BOOLEAN]
        /\ \A b \in Agents \ {a} : working'[b] = working[b]
    BY <1>1, <1>2
  <1>4. GrantedIsCounted'
    BY <1>2, <1>3 DEF IInv, GrantedIsCounted
  <1> QED BY <1>2, <1>3, <1>4, GrantsNothing DEF IInv, TypeInv

LEMMA NextKeeps ==
  ASSUME Bounds, IInv, [Next]_vars
  PROVE  IInv'
  <1>1. CASE Check
    <2>1. CASE down
      BY <1>1, <2>1, QuietStep DEF Check
    <2>2. CASE ~down
      BY <1>1, <2>2, StartKeepsBound DEF Check
    <2> QED BY <2>1, <2>2
  <1>2. CASE HandOn
    <2>1. CASE deferred = <<>>
      BY <1>2, <2>1, QuietStep DEF HandOn
    <2>2. CASE deferred # <<>>
      BY <1>2, <2>2, StartKeepsBound DEF HandOn
    <2> QED BY <2>1, <2>2
  <1>3. CASE ShutDown
    BY <1>3, QuietStep DEF ShutDown
  <1>4. ASSUME NEW a \in Agents, InLane(a)
        PROVE  IInv'
    <2>1. CASE Discard(a)
      BY <2>1, QuietStep DEF Discard
    <2>2. ASSUME NEW kind, Start(a, kind)
          PROVE  IInv'
      BY <2>2, QuietStep DEF Start
    <2> QED BY <1>4, <2>1, <2>2, AdmitKeeps, BootKeeps, StartedKeeps, DrainsKeeps DEF InLane
  <1>5. ASSUME NEW a \in Agents, Resumes(a)
        PROVE  IInv'
    BY <1>5, WorksKeeps DEF Resumes
  <1>6. ASSUME NEW a \in Agents, EndsRun(a) \/ TimesOut(a) \/ Spawn(a) \/ Withdraw(a)
        PROVE  IInv'
    BY <1>6, QuietStep DEF EndsRun, TimesOut, Spawn, Withdraw
  <1>7. ASSUME NEW a \in Agents, NEW kind, Ask(a, kind)
        PROVE  IInv'
    BY <1>7, QuietStep DEF Ask
  <1>8. CASE UNCHANGED vars
    BY <1>8, QuietStep DEF vars
  <1> QED
    BY <1>1, <1>2, <1>3, <1>4, <1>5, <1>6, <1>7, <1>8, StopsWorkKeeps, FailsKeeps DEF Next

LEMMA InitHolds ==
  ASSUME Bounds, Init
  PROVE  IInv
  <1>1. IsFiniteSet({}) /\ Cardinality({}) = 0
    BY FS_EmptySet
  <1> QED BY <1>1 DEF Init, IInv, TypeInv, GrantedIsCounted, SlotsAreHandedOutOnce, Bounds

-----------------------------------------------------------------------------
\* Whoever was granted a slot by a deferred boot is counted, and there are at most as many
\* of them as the bound has slots, in every reachable state.
THEOREM InvariantHolds == ASSUME Bounds PROVE Spec => []IInv
  <1>1. Init => IInv
    BY InitHolds
  <1>2. IInv /\ [Next]_vars => IInv'
    BY NextKeeps
  <1> QED BY <1>1, <1>2, PTL DEF Spec

\* MessageDeliveryScheduler hands out no slot of maxConcurrentAgentRuns twice, for every
\* bound, number of children and order of boots, dispatches, failures and settlements.
THEOREM SlotsAreNeverHandedOutTwice == ASSUME Bounds PROVE Spec => []SlotsAreHandedOutOnce
  <1>1. IInv => SlotsAreHandedOutOnce
    BY DEF IInv
  <1> QED BY <1>1, InvariantHolds, PTL
=============================================================================
