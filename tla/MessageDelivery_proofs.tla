------------------------ MODULE MessageDelivery_proofs ------------------------
(***************************************************************************)
(* Proofs about MessageDelivery, for any Messages, kinds, modes, bounds:   *)
(* its types; that scheduled work retains a live Run; that a withdrawn     *)
(* Request is not dispatched; that a Run under a stop takes only Resumes.  *)
(*                                                                         *)
(* The scheduler's methods are operators from states to states.  Each has  *)
(* one lemma that says whether it is Quiet (it schedules and dispatches    *)
(* nothing) or Advances (it may dispatch one batch that SafeDispatch       *)
(* allows).  Closures compose them, and each action has one lemma that     *)
(* says what it leaves (Left) and what the transcripts record (Recorded).  *)
(***************************************************************************)
EXTENDS MessageDelivery, FiniteSetTheorems, TLAPS

\* Finitely many ordinals have a largest one.
LEMMA LargestExists ==
  ASSUME NEW f \in [Delivery -> Nat], NEW S \in SUBSET Delivery, S # {}
  PROVE  \E m \in S : \A n \in S : f[n] <= f[m]
<1> DEFINE HasLargest(T) == \E m \in T : \A n \in T : f[n] <= f[m]
           Bad == {T \in SUBSET Delivery : T # {} /\ ~HasLargest(T)}
<1>1. SUFFICES ASSUME Bad # {} PROVE FALSE
  OBVIOUS
<1>2. FiniteSubsetsOf(Delivery) = SUBSET Delivery
  BY FS_FiniteSubsetsOfFinite, KindAssumption
<1>3. Bad \subseteq SUBSET Delivery
  OBVIOUS
<1>4. PICK T \in Bad : \A U \in Bad : <<U, T>> \notin StrictSubsetOrdering(Delivery)
  <2>1. IsWellFoundedOn(StrictSubsetOrdering(Delivery), SUBSET Delivery)
    BY <1>2, FS_StrictSubsetOrderingWellFounded
  <2> HIDE DEF Bad
  <2> QED BY <2>1, <1>1, <1>3, WFMin
<1>5. PICK x \in T : TRUE
  OBVIOUS
<1>6. T \ {x} \notin Bad
  <2>1. <<T \ {x}, T>> \in StrictSubsetOrdering(Delivery)
    BY <1>5 DEF StrictSubsetOrdering
  <2> QED BY <1>4, <2>1
<1>7. CASE T \ {x} = {}
  BY <1>4, <1>5, <1>7
<1>8. CASE T \ {x} # {}
  <2>1. PICK m \in T \ {x} : \A n \in T \ {x} : f[n] <= f[m]
    BY <1>6, <1>8
  <2>2. f[m] \in Nat /\ f[x] \in Nat /\ \A n \in T : f[n] \in Nat
    OBVIOUS
  <2>3. CASE f[x] <= f[m]
    BY <2>1, <2>2, <2>3
  <2>4. CASE ~(f[x] <= f[m])
    <3>1. \A n \in T : f[n] <= f[x]
      BY <2>1, <2>2, <2>4
    <3> QED BY <3>1, <1>5
  <2> QED BY <2>3, <2>4
<1> QED BY <1>7, <1>8

\* Front returns a member: the queue order has a first element.
LEMMA FrontIsMember ==
  ASSUME NEW s \in Sched, NEW S \in SUBSET Delivery, S # {}
  PROVE  Front(s, S) \in S
<1>1. s.since \in [Delivery -> Nat]
  BY DEF Sched
<1>2. PICK top \in Delivery : \A n \in Delivery : s.since[n] <= s.since[top]
  BY <1>1, LargestExists
<1> DEFINE g == [m \in Delivery |-> s.since[top] - s.since[m]]
<1>3. g \in [Delivery -> Nat]
  <2>1. \A m \in Delivery : s.since[top] \in Nat /\ s.since[m] \in Nat /\ s.since[m] <= s.since[top]
    BY <1>1, <1>2
  <2> QED BY <2>1
<1>4. PICK m \in S : \A n \in S : g[n] <= g[m]
  <2> HIDE DEF g
  <2> QED BY <1>3, LargestExists
<1>5. \A n \in S : s.since[m] <= s.since[n]
  <2> TAKE n \in S
  <2>1. g[n] <= g[m]
    BY <1>4
  <2>2. m \in Delivery /\ n \in Delivery /\ s.since[top] \in Nat /\ s.since[m] \in Nat /\ s.since[n] \in Nat
    BY <1>1, <1>2
  <2> QED BY <2>1, <2>2
<1> QED BY <1>4, <1>5 DEF Front

-----------------------------------------------------------------------------
\* Reservations name dispatches, whose committed members have proof.
Consistent(s) ==
  /\ \A k \in Slot : s.slot[k] <= Len(s.batch)
  /\ \A b \in 1..Len(s.batch) : \A m \in s.batch[b].committed : Proven(m)

\* What a synchronous method that dispatches nothing does to the scheduler: it adds
\* no work, gives up the Run only when no work is left, and keeps the batches.
Quiet(s, t) ==
  /\ t \in Sched
  /\ HasPendingScheduling(t) => HasPendingScheduling(s) /\ t.retained = s.retained
  /\ Len(t.batch) = Len(s.batch)
  /\ \A b \in 1..Len(s.batch) : t.batch[b].msgs = s.batch[b].msgs
  /\ Consistent(s) => Consistent(t)

\* A frozen batch keeps a Run only through the queued Deliveries it holds.
LEMMA PendingScheduling ==
  ASSUME NEW s \in Sched
  PROVE  HasPendingScheduling(s) <=>
           \/ \E k \in Slot \ {"frozen"} : s.slot[k] # 0
           \/ s.reserved # None
           \/ s.pending # {}
BY DEF HasPendingScheduling, UnprovenFrozen

\* Quiet steps compose.
LEMMA QuietTransitive ==
  ASSUME NEW s \in Sched, NEW t, NEW u, Quiet(s, t), Quiet(t, u)
  PROVE  Quiet(s, u)
BY DEF Quiet

\* Enqueued changes the queue and the order only.
LEMMA EnqueuedType ==
  ASSUME NEW s \in Sched, NEW m \in Delivery
  PROVE  /\ Enqueued(s, m) \in Sched
         /\ Enqueued(s, m).pending = s.pending \cup {m}
         /\ Enqueued(s, m).slot = s.slot /\ Enqueued(s, m).batch = s.batch
         /\ Enqueued(s, m).retained = s.retained
         /\ Enqueued(s, m).reserved = s.reserved
<1> DEFINE ords == {s.since[n] : n \in Delivery}
<1>1. Max(ords) \in Nat
  <2>1. s.since \in [Delivery -> Nat]
    BY DEF Sched
  <2>2. PICK top \in Delivery : \A n \in Delivery : s.since[n] <= s.since[top]
    BY <2>1, LargestExists
  <2>3. s.since[top] \in ords /\ \A y \in ords : s.since[top] >= y
    BY <2>1, <2>2
  <2>4. Max(ords) \in ords
    <3> HIDE DEF ords
    <3> QED BY <2>3 DEF Max
  <2> QED BY <2>1, <2>4
<1>2. 1 + Max(ords) \in Nat
  <2> HIDE DEF ords
  <2> QED BY <1>1
<1> HIDE DEF ords
<1>3. Enqueued(s, m) = [s EXCEPT !.pending = @ \cup {m}, !.since[m] = 1 + Max(ords)]
  BY DEF Enqueued, ords
<1> DEFINE order == [s.since EXCEPT ![m] = 1 + Max(ords)]
<1>4. order \in [Delivery -> Nat]
  <2>1. s.since \in [Delivery -> Nat]
    BY DEF Sched
  <2> QED BY <1>2, <2>1
<1>5. Enqueued(s, m) = [s EXCEPT !.pending = s.pending \cup {m}, !.since = order]
  BY <1>3 DEF Sched
<1> HIDE DEF order
<1>6. s.pending \cup {m} \in SUBSET Delivery
  BY DEF Sched
<1> QED BY <1>4, <1>5, <1>6 DEF Sched

\* Dequeued changes the queue, the order and afterCommit only.
LEMMA DequeuedQuiet ==
  ASSUME NEW s \in Sched, NEW S, NEW C
  PROVE  /\ Quiet(s, Dequeued(s, S, C))
         /\ Dequeued(s, S, C).pending = s.pending \ S
         /\ Dequeued(s, S, C).slot = s.slot /\ Dequeued(s, S, C).batch = s.batch
         /\ Dequeued(s, S, C).retained = s.retained
         /\ Dequeued(s, S, C).reserved = s.reserved
<1> DEFINE t == Dequeued(s, S, C)
<1>1. /\ t.pending = s.pending \ S /\ t.slot = s.slot /\ t.batch = s.batch
      /\ t.retained = s.retained /\ t.reserved = s.reserved
  BY SMTT(30) DEF Dequeued, Sched
<1>2. t \in Sched
  <2>1. [m \in Delivery |-> IF m \in S THEN 0 ELSE s.since[m]] \in [Delivery -> Nat]
    BY DEF Sched
  <2>2. [m \in Delivery |-> s.afterCommit[m] + IF m \in C THEN 1 ELSE 0] \in [Delivery -> Nat]
    BY DEF Sched
  <2> QED BY <2>1, <2>2 DEF Dequeued, Sched
<1> HIDE DEF t
<1>3. Quiet(s, t)
  BY <1>1, <1>2, PendingScheduling DEF Quiet, Consistent
<1> QED BY <1>1, <1>3 DEF t

\* Progress that fails or advances leaves scheduling alone.
LEMMA FailedQuiet ==
  ASSUME NEW s \in Sched, NEW S \in SUBSET Delivery
  PROVE  /\ Quiet(s, Failed(s, S)) /\ Quiet(s, Advanced(s, S))
         /\ Failed(s, S).slot = s.slot /\ Failed(s, S).batch = s.batch
         /\ Failed(s, S).pending = s.pending /\ Failed(s, S).reserved = s.reserved
         /\ Failed(s, S).retained = s.retained
         /\ Advanced(s, S).slot = s.slot /\ Advanced(s, S).batch = s.batch
         /\ Advanced(s, S).pending = s.pending /\ Advanced(s, S).reserved = s.reserved
         /\ Advanced(s, S).retained = s.retained
<1> DEFINE f == s.failed \cup (S \cap s.tracked)
           a == s.failed \ S
<1>1. f \in SUBSET Delivery /\ a \in SUBSET Delivery
  BY DEF Sched
<1>2. Failed(s, S) = [s EXCEPT !.failed = f] /\ Advanced(s, S) = [s EXCEPT !.failed = a]
  BY DEF Failed, Advanced, Sched
<1> HIDE DEF f, a
<1>3. Failed(s, S) \in Sched /\ Advanced(s, S) \in Sched
  BY <1>1, <1>2 DEF Sched
<1>4. /\ Failed(s, S).slot = s.slot /\ Failed(s, S).batch = s.batch
      /\ Failed(s, S).pending = s.pending /\ Failed(s, S).reserved = s.reserved
      /\ Failed(s, S).retained = s.retained
      /\ Advanced(s, S).slot = s.slot /\ Advanced(s, S).batch = s.batch
      /\ Advanced(s, S).pending = s.pending /\ Advanced(s, S).reserved = s.reserved
      /\ Advanced(s, S).retained = s.retained
  BY <1>2 DEF Sched
<1> QED BY <1>3, <1>4, PendingScheduling DEF Quiet, Consistent

\* The reason pending_delivery is given up only when no work is left.
LEMMA DropReasonQuiet ==
  ASSUME NEW s \in Sched
  PROVE  /\ Quiet(s, DropReason(s))
         /\ DropReason(s).slot = s.slot /\ DropReason(s).batch = s.batch
         /\ DropReason(s).pending = s.pending /\ DropReason(s).reserved = s.reserved
<1>1. CASE HasPendingScheduling(s)
  BY <1>1 DEF DropReason, Quiet
<1>2. CASE ~HasPendingScheduling(s)
  <2> DEFINE t == [s EXCEPT !.retained = FALSE]
  <2>1. /\ t \in Sched /\ t.slot = s.slot /\ t.batch = s.batch
        /\ t.pending = s.pending /\ t.reserved = s.reserved
    BY DEF Sched
  <2>2. DropReason(s) = t
    BY <1>2 DEF DropReason
  <2> HIDE DEF t
  <2> QED BY <1>2, <2>1, <2>2, PendingScheduling DEF Quiet, Consistent
<1> QED BY <1>1, <1>2

\* Giving up the reservations in Z.
LEMMA SlotsFreedQuiet ==
  ASSUME NEW s \in Sched, NEW Z
  PROVE  LET t == [s EXCEPT !.slot = [k \in Slot |-> IF k \in Z THEN 0 ELSE s.slot[k]]]
         IN  /\ Quiet(s, t)
             /\ t.slot = [k \in Slot |-> IF k \in Z THEN 0 ELSE s.slot[k]]
             /\ t.batch = s.batch
             /\ t.pending = s.pending /\ t.reserved = s.reserved /\ t.retained = s.retained
<1> DEFINE f == [k \in Slot |-> IF k \in Z THEN 0 ELSE s.slot[k]]
           t == [s EXCEPT !.slot = f]
<1>1. /\ f \in [Slot -> Nat] /\ Len(s.batch) \in Nat
      /\ \A k \in Slot : s.slot[k] \in Nat /\ f[k] \in {0, s.slot[k]}
  BY DEF Sched
<1> HIDE DEF f
<1>2. /\ t \in Sched /\ t.slot = f /\ t.batch = s.batch
      /\ t.pending = s.pending /\ t.reserved = s.reserved /\ t.retained = s.retained
  BY <1>1 DEF Sched
<1>3. Quiet(s, t)
  <2> HIDE DEF t
  <2> QED BY <1>1, <1>2, PendingScheduling DEF Quiet, Consistent
<1> QED BY <1>2, <1>3 DEF f

\* A function over 1..n is a sequence.
LEMMA FunctionIsSeq ==
  ASSUME NEW n \in Nat, NEW S, NEW q, q = [i \in 1..n |-> q[i]], \A i \in 1..n : q[i] \in S
  PROVE  q \in Seq(S) /\ Len(q) = n
<1>1. q \in [1..n -> S]
  <2>1. [i \in 1..n |-> q[i]] \in [1..n -> S]
    OBVIOUS
  <2> QED BY <2>1
<1> QED BY <1>1

\* Rewriting each batch without touching its members.
LEMMA BatchesQuiet ==
  ASSUME NEW s \in Sched, NEW q \in Seq(Batch), Len(q) = Len(s.batch),
         \A b \in 1..Len(q) : q[b].msgs = s.batch[b].msgs
  PROVE  LET t == [s EXCEPT !.batch = q]
         IN  /\ t \in Sched
             /\ (Consistent(s) => Consistent(t)) => Quiet(s, t)
             /\ (\A b \in 1..Len(q) : q[b].committed = s.batch[b].committed) => Quiet(s, t)
             /\ t.batch = q /\ t.slot = s.slot
             /\ t.pending = s.pending /\ t.reserved = s.reserved /\ t.retained = s.retained
<1> DEFINE t == [s EXCEPT !.batch = q]
<1>1. /\ t \in Sched /\ t.batch = q /\ t.slot = s.slot
      /\ t.pending = s.pending /\ t.reserved = s.reserved /\ t.retained = s.retained
  BY DEF Sched
<1> HIDE DEF t
<1>2. (Consistent(s) => Consistent(t)) => Quiet(s, t)
  BY <1>1, PendingScheduling DEF Quiet
<1>3. (\A b \in 1..Len(q) : q[b].committed = s.batch[b].committed) => Quiet(s, t)
  BY <1>1, PendingScheduling DEF Quiet, Consistent
<1> QED BY <1>1, <1>2, <1>3 DEF t

\* After a sweep only a prompt that was dispatched still holds a withdrawn Request.
Clean(s) == \A m \in s.pending \cap withdrawn :
              m \in Members(s, "deferred") \cup Members(s, "preemption")

\* Removed keeps committed members proven: what it marks in a prompt left the queue
\* with proof, since a dispatched prompt is never suppressed.
LEMMA RemovedQuiet ==
  ASSUME NEW s \in Sched
  PROVE  LET t == Removed(s, Gone(s))
         IN  /\ Quiet(s, t) /\ t \in Sched
             /\ t.pending = s.pending \ Gone(s) /\ t.slot = s.slot /\ t.reserved = s.reserved
             /\ Len(t.batch) = Len(s.batch)
             /\ \A b \in 1..Len(s.batch) : t.batch[b].msgs = s.batch[b].msgs
             /\ Consistent(s) => Consistent(t)
<1> DEFINE gone == Gone(s)
           s1 == Dequeued(s, gone, {m \in gone : Proven(m)})
           q == [b \in DOMAIN s.batch |->
                   IF \E k \in Prompt : s.slot[k] = b
                   THEN [s.batch[b] EXCEPT !.committed = @ \cup (gone \cap s.batch[b].msgs)]
                   ELSE s.batch[b]]
           t == [s1 EXCEPT !.batch = q]
<1>1. Removed(s, Gone(s)) = t
  BY DEF Removed
<1>2. /\ Quiet(s, s1) /\ s1.pending = s.pending \ gone /\ s1.slot = s.slot
      /\ s1.batch = s.batch /\ s1.reserved = s.reserved
  BY DequeuedQuiet
<1>3. /\ DOMAIN s.batch = 1..Len(s.batch) /\ s.batch \in Seq(Batch)
      /\ \A b \in 1..Len(s.batch) : s.batch[b] \in Batch
      /\ Len(s.batch) \in Nat /\ \A k \in Slot : s.slot[k] \in Nat
  BY DEF Sched
<1> HIDE DEF gone
<1>4. /\ q \in Seq(Batch) /\ Len(q) = Len(s.batch)
      /\ \A b \in 1..Len(q) : q[b].msgs = s.batch[b].msgs
      /\ \A b \in 1..Len(q) : q[b].committed =
           IF \E k \in Prompt : s.slot[k] = b
           THEN s.batch[b].committed \cup (gone \cap s.batch[b].msgs)
           ELSE s.batch[b].committed
  <2>1. \A b \in 1..Len(s.batch) :
          [s.batch[b] EXCEPT !.committed = @ \cup (gone \cap s.batch[b].msgs)] \in Batch
    BY <1>3 DEF Batch
  <2>2. \A b \in 1..Len(s.batch) : q[b] \in Batch
    BY <1>3, <2>1
  <2>3. q = [b \in 1..Len(s.batch) |-> q[b]]
    BY <1>3
  <2>4. q \in Seq(Batch) /\ Len(q) = Len(s.batch)
    <3> HIDE DEF q
    <3> QED BY <1>3, <2>2, <2>3, FunctionIsSeq
  <2>5. \A b \in 1..Len(s.batch) : q[b].msgs = s.batch[b].msgs
    BY <1>3 DEF Batch
  <2>6. \A b \in 1..Len(s.batch) : q[b].committed =
          IF \E k \in Prompt : s.slot[k] = b
          THEN s.batch[b].committed \cup (gone \cap s.batch[b].msgs)
          ELSE s.batch[b].committed
    BY <1>3 DEF Batch
  <2> QED BY <2>4, <2>5, <2>6
<1>5. Consistent(s) => Consistent(t)
  <2> SUFFICES ASSUME Consistent(s) PROVE Consistent(t)
    OBVIOUS
  <2>1. t.batch = q /\ t.slot = s.slot
    BY <1>2 DEF Dequeued, Sched
  <2>2. \A b \in 1..Len(q) : \A m \in q[b].committed : Proven(m)
    <3> HIDE DEF q
    <3> SUFFICES ASSUME NEW b \in 1..Len(q), NEW m \in q[b].committed PROVE Proven(m)
      OBVIOUS
    <3>1. CASE m \in s.batch[b].committed
      BY <1>4, <3>1 DEF Consistent
    <3>2. CASE m \notin s.batch[b].committed
      <4>1. PICK k \in Prompt : s.slot[k] = b /\ m \in gone \cap s.batch[b].msgs
        BY <1>4, <3>2
      <4>2. b # 0 /\ s.slot[k] = b /\ m \in s.batch[b].msgs
        BY <1>3, <1>4, <4>1
      <4>3. m \in Members(s, "deferred") \cup Members(s, "preemption")
        BY <4>1, <4>2 DEF Members, Prompt
      <4> QED BY <4>1, <4>3 DEF gone, Gone
    <3> QED BY <3>1, <3>2
  <2> HIDE DEF q, t
  <2> QED BY <1>4, <2>1, <2>2 DEF Consistent
<1>6. s1 \in Sched /\ (Consistent(s1) => Consistent(s))
  BY <1>2 DEF Quiet, Consistent
<1>7. /\ t \in Sched /\ Quiet(s1, t) /\ t.batch = q /\ t.slot = s.slot
      /\ t.pending = s.pending \ gone /\ t.reserved = s.reserved
  <2> HIDE DEF q, s1
  <2> QED BY SMTT(30), <1>2, <1>4, <1>5, <1>6, BatchesQuiet
<1> HIDE DEF q, s1, t
<1>8. Quiet(s, t)
  BY <1>2, <1>7, QuietTransitive
<1> QED BY <1>1, <1>4, <1>5, <1>7, <1>8 DEF gone

\* Yielded frees exactly the slots that yield.
LEMMA YieldedQuiet ==
  ASSUME NEW s \in Sched
  PROVE  /\ Quiet(s, Yielded(s)) /\ Yielded(s).batch = s.batch
         /\ Yielded(s).pending = s.pending /\ Yielded(s).reserved = s.reserved
         /\ \A k \in Slot : Yielded(s).slot[k] = IF Yields(s, k) THEN 0 ELSE s.slot[k]
<1> DEFINE Z == {k \in Slot : Yields(s, k)}
           t == [s EXCEPT !.slot = [k \in Slot |-> IF k \in Z THEN 0 ELSE s.slot[k]]]
<1>1. Yielded(s) = t
  BY DEF Yielded
<1>2. /\ Quiet(s, t) /\ t.slot = [k \in Slot |-> IF k \in Z THEN 0 ELSE s.slot[k]]
      /\ t.batch = s.batch /\ t.pending = s.pending /\ t.reserved = s.reserved
  <2> HIDE DEF Z
  <2> QED BY SlotsFreedQuiet
<1> QED BY <1>1, <1>2

\* A sweep dispatches nothing and leaves a clean queue.
LEMMA SweptQuiet ==
  ASSUME NEW s \in Sched, withdrawn \in SUBSET Request
  PROVE  /\ Quiet(s, Swept(s))
         /\ Swept(s).reserved = s.reserved /\ Swept(s).pending \subseteq s.pending
         /\ \A k \in Slot : Swept(s).slot[k] \in {0, s.slot[k]}
         /\ Consistent(s) => Clean(Swept(s))
<1> DEFINE s2 == Removed(s, Gone(s))
           s3 == Yielded(s2)
<1>1. Swept(s) = DropReason(s3)
  BY DEF Swept
<1>2. /\ Quiet(s, s2) /\ s2 \in Sched
      /\ s2.pending = s.pending \ Gone(s) /\ s2.slot = s.slot /\ s2.reserved = s.reserved
      /\ Len(s2.batch) = Len(s.batch)
      /\ \A b \in 1..Len(s.batch) : s2.batch[b].msgs = s.batch[b].msgs
      /\ Consistent(s) => Consistent(s2)
  BY RemovedQuiet
<1> HIDE DEF s2
<1>3. /\ Quiet(s2, s3) /\ s3.batch = s2.batch
      /\ s3.pending = s2.pending /\ s3.reserved = s2.reserved
      /\ \A k \in Slot : s3.slot[k] = IF Yields(s2, k) THEN 0 ELSE s2.slot[k]
  BY <1>2, YieldedQuiet
<1> HIDE DEF s3
<1>4. s3 \in Sched
  BY <1>3 DEF Quiet
<1>5. Consistent(s) => Clean(s3)
  <2> SUFFICES ASSUME Consistent(s), NEW m \in s3.pending \cap withdrawn
               PROVE  m \in Members(s3, "deferred") \cup Members(s3, "preemption")
    BY DEF Clean
  <2>1. ~Proven(m) /\ m \in Members(s, "deferred") \cup Members(s, "preemption")
    BY <1>2, <1>3 DEF Suppressed, Gone
  <2>2. ASSUME NEW k \in Prompt, m \in Members(s, k)
        PROVE  m \in Members(s3, k)
    <3>1. k \in Slot /\ s.slot[k] # 0 /\ m \in s.batch[s.slot[k]].msgs
      BY <2>2 DEF Members, Prompt, Slot
    <3>2. s.slot[k] \in Nat /\ Len(s.batch) \in Nat
      BY <3>1 DEF Sched
    <3>3. s.slot[k] \in 1..Len(s.batch)
      BY <3>1, <3>2 DEF Consistent
    <3>4. ~Yields(s2, k)
      <4>1. m \in Members(s2, k)
        BY <1>2, <3>1, <3>3 DEF Members
      <4>2. m \notin s2.batch[s2.slot[k]].committed
        BY <1>2, <2>1, <3>3 DEF Consistent
      <4> QED BY <4>1, <4>2, <2>2 DEF Yields, Prompt
    <3> QED BY <1>2, <1>3, <3>1, <3>3, <3>4 DEF Members
  <2> QED BY <2>1, <2>2 DEF Prompt
<1>6. Quiet(s, s3)
  BY <1>2, <1>3, QuietTransitive
<1>7. /\ Quiet(s3, Swept(s)) /\ Swept(s).slot = s3.slot /\ Swept(s).batch = s3.batch
      /\ Swept(s).pending = s3.pending /\ Swept(s).reserved = s3.reserved
  BY <1>1, <1>4, DropReasonQuiet
<1>8. Clean(s3) => Clean(Swept(s))
  BY <1>7 DEF Clean, Members
<1> QED BY <1>2, <1>3, <1>5, <1>6, <1>7, <1>8, QuietTransitive

-----------------------------------------------------------------------------
\* What a method that hands one batch to the Runtime does, where r is the Run after it:
\* ordinary input goes to no Run that blocks it, and holds no withdrawn Request.
Sends(s, t, r) ==
  /\ t \in Sched
  /\ HasPendingScheduling(t) => HasPendingScheduling(s) /\ t.retained = s.retained
  /\ Consistent(t)
  /\ Len(t.batch) = Len(s.batch) + 1
  /\ \/ t.batch[Len(t.batch)].msgs \subseteq Resume
     \/ ~Blocks(r) /\ t.batch[Len(t.batch)].msgs \cap withdrawn = {}

Advances(s, t, r) == Quiet(s, t) \/ Sends(s, t, r)

\* The fields of a Run that a drain leaves alone.
SameRun(r, r2) == r2 \in Run /\ r2.phase = r.phase /\ r2.stop = r.stop

\* A quiet step before an advance is part of it.
LEMMA QuietThenAdvances ==
  ASSUME NEW s \in Sched, NEW t, NEW u, NEW r, Quiet(s, t), Advances(t, u, r)
  PROVE  Advances(s, u, r)
BY DEF Advances, Quiet, Sends

\* A quiet step after an advance is part of it.
LEMMA AdvancesThenQuiet ==
  ASSUME NEW s \in Sched, NEW t, NEW u, NEW r, Advances(s, t, r), Quiet(t, u)
  PROVE  Advances(s, u, r)
<1>1. CASE Quiet(s, t)
  BY <1>1, QuietTransitive DEF Advances
<1>2. CASE Sends(s, t, r)
  <2>1. Len(t.batch) \in 1..Len(t.batch)
    BY <1>2 DEF Sends, Sched
  <2>2. u.batch[Len(u.batch)].msgs = t.batch[Len(t.batch)].msgs
    BY <2>1 DEF Quiet
  <2> QED BY <1>2, <2>2 DEF Advances, Quiet, Sends
<1> QED BY <1>1, <1>2 DEF Advances

\* Only queued Deliveries are eligible.
LEMMA EligibleAreQueued ==
  ASSUME NEW s \in Sched, NEW r
  PROVE  /\ Eligible(s, r) \subseteq s.pending
         /\ EligibleSteer(s, r) \subseteq s.pending
         /\ \A m \in EligibleSteer(s, r) : ~HasReservation(s, m)
<1>1. Eligible(s, r) \subseteq s.pending
  BY DEF Eligible, OrElse, Foreground
<1>2. EligibleSteer(s, r) \subseteq Eligible(s, r) /\ \A m \in EligibleSteer(s, r) : ~HasReservation(s, m)
  BY DEF EligibleSteer, Standing
<1> QED BY <1>1, <1>2

\* A dispatch adds one batch, which one slot owns.
LEMMA DispatchedSends ==
  ASSUME NEW s \in Sched, NEW r \in Run, NEW r2, NEW k \in Slot, NEW ms \in SUBSET Delivery,
         Consistent(s), HasPendingScheduling(s),
         ms \subseteq Resume \/ (~Blocks(r2) /\ ms \cap withdrawn = {})
  PROVE  /\ Sends(s, Dispatched(s, r, k, ms), r2)
         /\ Dispatched(s, r, k, ms).reserved = s.reserved
         /\ Dispatched(s, r, k, ms).pending = s.pending
<1> DEFINE new == [msgs |-> ms, committed |-> {}, run |-> r.seq, comp |-> "open",
                   place |-> "submitted"]
           q == Append(s.batch, new)
           f == [s.slot EXCEPT ![k] = Len(s.batch) + 1]
           a == Advanced(s, ms)
           t == Dispatched(s, r, k, ms)
<1>1. new \in Batch
  BY DEF Batch, Run
<1>2. /\ q \in Seq(Batch) /\ Len(q) = Len(s.batch) + 1 /\ q[Len(s.batch) + 1] = new
      /\ \A b \in 1..Len(s.batch) : q[b] = s.batch[b]
  <2>1. s.batch \in Seq(Batch)
    BY DEF Sched
  <2> HIDE DEF new
  <2> QED BY <1>1, <2>1
<1>3. f \in [Slot -> Nat] /\ \A j \in Slot : f[j] = IF j = k THEN Len(s.batch) + 1 ELSE s.slot[j]
  BY DEF Sched
<1>4. /\ a \in Sched /\ a.batch = s.batch /\ a.slot = s.slot /\ a.pending = s.pending
      /\ a.reserved = s.reserved /\ a.retained = s.retained
  BY FailedQuiet DEF Quiet
<1>5. t = [a EXCEPT !.slot = f, !.batch = q]
  BY <1>4 DEF Dispatched, Sched
<1> HIDE DEF f, q, a, new, t
<1>6. /\ t \in Sched /\ t.slot = f /\ t.batch = q /\ t.pending = s.pending
      /\ t.reserved = s.reserved /\ t.retained = s.retained
  BY <1>2, <1>3, <1>4, <1>5 DEF Sched
<1>7. Consistent(t)
  <2>1. Len(s.batch) \in Nat /\ \A j \in Slot : s.slot[j] \in Nat
    BY DEF Sched
  <2>2. \A j \in Slot : t.slot[j] <= Len(t.batch)
    BY <1>2, <1>3, <1>6, <2>1 DEF Consistent
  <2>3. \A b \in 1..Len(t.batch) : \A m \in t.batch[b].committed : Proven(m)
    <3>1. new.committed = {}
      BY DEF new
    <3> QED BY <1>2, <1>6, <2>1, <3>1 DEF Consistent
  <2> QED BY <2>2, <2>3 DEF Consistent
<1>8. t.batch[Len(t.batch)].msgs = ms
  BY <1>2, <1>6 DEF new
<1> QED BY <1>2, <1>6, <1>7, <1>8 DEF Sends, t

\* What is queued and unreserved after a sweep was not withdrawn.
LEMMA UnreservedIsClean ==
  ASSUME NEW s, Clean(s), NEW ms, ms \subseteq s.pending, \A m \in ms : ~HasReservation(s, m)
  PROVE  ms \cap withdrawn = {}
BY DEF Clean, HasReservation, Slot

\* The preemption of a Wait, of a Run that takes ordinary input.
LEMMA PreemptedAdvances ==
  ASSUME NEW s \in Sched, NEW r \in Run, Consistent(s), Clean(s), ~Blocks(r)
  PROVE  /\ Advances(s, Preempted(s, r).s, Preempted(s, r).r)
         /\ SameRun(r, Preempted(s, r).r) /\ Preempted(s, r).r.isolated = r.isolated
<1> DEFINE triggers == {m \in Eligible(s, r) : Preempting(m)}
           choice == OrElse({m \in triggers : Mode[m] = "steer"}, triggers)
           trigger == Front(s, choice)
           ms == IF Mode[trigger] = "steer" THEN EligibleSteer(s, r) \ Answer ELSE {trigger}
           ended == [r EXCEPT !.wait = FALSE]
           p == Preempted(s, r)
<1>1. p = IF triggers = {} THEN [s |-> s, r |-> r]
          ELSE IF HasReservation(s, trigger) THEN [s |-> s, r |-> ended]
          ELSE IF \A m \in ms : ~Preempting(m) THEN [s |-> s, r |-> r]
          ELSE [s |-> Dispatched(s, r, "preemption", ms), r |-> ended]
  BY DEF Preempted, Acquired
<1>2. /\ SameRun(r, r) /\ SameRun(r, ended) /\ ended.isolated = r.isolated /\ ~Blocks(ended)
  BY DEF SameRun, Run, Blocks
<1>3. Quiet(s, s)
  BY DEF Quiet
<1>4. s.pending \in SUBSET Delivery
  BY DEF Sched
<1>5. triggers \subseteq s.pending
  BY EligibleAreQueued
<1>6. choice \subseteq triggers /\ (triggers # {} => choice # {})
  BY DEF OrElse
<1> HIDE DEF triggers, choice
<1>7. triggers # {} => trigger \in s.pending
  BY <1>4, <1>5, <1>6, FrontIsMember
<1> HIDE DEF trigger
<1>8. ASSUME triggers # {}, ~HasReservation(s, trigger)
      PROVE  ms \subseteq s.pending /\ \A m \in ms : ~HasReservation(s, m)
  BY <1>7, <1>8, EligibleAreQueued
<1> HIDE DEF ms, ended, p
<1>9. ASSUME triggers # {}, ~HasReservation(s, trigger)
      PROVE  Sends(s, Dispatched(s, r, "preemption", ms), ended)
  <2>1. ms \cap withdrawn = {}
    BY <1>8, <1>9, UnreservedIsClean
  <2>2. HasPendingScheduling(s)
    BY <1>7, <1>9, PendingScheduling
  <2>3. "preemption" \in Slot /\ ms \in SUBSET Delivery
    BY <1>4, <1>8, <1>9 DEF Slot
  <2> QED BY <1>2, <2>1, <2>2, <2>3, DispatchedSends
<1>10. Advances(s, p.s, p.r) /\ SameRun(r, p.r) /\ p.r.isolated = r.isolated
  BY <1>1, <1>2, <1>3, <1>9 DEF Advances
<1> QED BY <1>10 DEF p

\* Ordinary input goes only to a Run that takes it.
LEMMA OrdinaryAdvances ==
  ASSUME NEW s \in Sched, NEW r \in Run, Consistent(s), Clean(s)
  PROVE  /\ Advances(s, AdvancedOrdinary(s, r).s, AdvancedOrdinary(s, r).r)
         /\ SameRun(r, AdvancedOrdinary(s, r).r)
         /\ AdvancedOrdinary(s, r).r.isolated = r.isolated
<1> DEFINE p == AdvancedOrdinary(s, r)
           steer == EligibleSteer(s, r)
           first == Front(s, Eligible(s, r))
<1>1. Quiet(s, s) /\ SameRun(r, r) /\ s.pending \in SUBSET Delivery
  BY DEF Quiet, SameRun, Sched
<1>2. CASE Blocks(r) \/ s.slot["preemption"] # 0 \/ s.pending = {}
  BY <1>1, <1>2 DEF AdvancedOrdinary, Advances
<1>3. CASE ~(Blocks(r) \/ s.slot["preemption"] # 0 \/ s.pending = {})
  <2>1. HasPendingScheduling(s)
    BY <1>3, PendingScheduling
  <2>2. CASE r.wait
    <3>1. p = Preempted(s, r)
      BY <1>3, <2>2 DEF AdvancedOrdinary
    <3> QED BY <1>3, <3>1, PreemptedAdvances
  <2>3. CASE ~r.wait /\ (\/ s.slot["deferred"] # 0 \/ UnprovenFrozen(s) \/ ~AtBoundary(r)
                        \/ Eligible(s, r) = {})
    <3>1. p = [s |-> s, r |-> r]
      BY <1>3, <2>3 DEF AdvancedOrdinary
    <3> QED BY <1>1, <3>1 DEF Advances
  <2>4. CASE ~r.wait /\ ~(\/ s.slot["deferred"] # 0 \/ UnprovenFrozen(s) \/ ~AtBoundary(r)
                         \/ Eligible(s, r) = {})
    <3>1. s.pending \cap withdrawn = {}
      BY <1>3, <2>4 DEF Clean, Members
    <3>2. CASE steer # {}
      <4>1. p = [s |-> Dispatched(s, r, "frozen", steer), r |-> r]
        BY <1>3, <2>4, <3>2 DEF AdvancedOrdinary
      <4>2. steer \in SUBSET Delivery /\ steer \cap withdrawn = {} /\ "frozen" \in Slot
        BY <1>1, <3>1, EligibleAreQueued DEF Slot
      <4>3. Sends(s, Dispatched(s, r, "frozen", steer), r)
        <5> HIDE DEF steer
        <5> QED BY <1>3, <2>1, <4>2, DispatchedSends
      <4> QED BY <1>1, <4>1, <4>3 DEF Advances
    <3>3. CASE steer = {}
      <4>1. p = [s |-> Dispatched(s, r, "deferred", {first}), r |-> r]
        BY <1>3, <2>4, <3>3 DEF AdvancedOrdinary
      <4>2. first \in s.pending
        <5>1. Eligible(s, r) \in SUBSET Delivery /\ Eligible(s, r) # {}
              /\ Eligible(s, r) \subseteq s.pending
          BY <1>1, <2>4, EligibleAreQueued
        <5> QED BY <5>1, FrontIsMember
      <4> HIDE DEF first
      <4>3. {first} \in SUBSET Delivery /\ {first} \cap withdrawn = {} /\ "deferred" \in Slot
        BY <1>1, <3>1, <4>2 DEF Slot
      <4>4. Sends(s, Dispatched(s, r, "deferred", {first}), r)
        BY <1>3, <2>1, <4>3, DispatchedSends
      <4> QED BY <1>1, <4>1, <4>4 DEF Advances
    <3> QED BY <3>2, <3>3
  <2> QED BY <2>2, <2>3, <2>4
<1> QED BY <1>2, <1>3

\* The sweep that a drain starts with.
LEMMA RemoveProvenQuiet ==
  ASSUME NEW s \in Sched, withdrawn \in SUBSET Request
  PROVE  /\ Quiet(s, RemoveProven(s)) /\ RemoveProven(s).reserved = s.reserved
         /\ Consistent(s) => Clean(RemoveProven(s))
<1>1. CASE s.pending = {}
  BY <1>1 DEF RemoveProven, Quiet, Clean
<1>2. CASE s.pending # {}
  BY <1>2, SweptQuiet DEF RemoveProven
<1> QED BY <1>1, <1>2

\* A Resume goes to the Run whose Hold it was admitted for, alone; without that Hold
\* it queues with the ordinary input.
LEMMA DeliveryAdvances ==
  ASSUME NEW s \in Sched, NEW r \in Run, Consistent(s), Clean(s), withdrawn \in SUBSET Request
  PROVE  /\ Advances(s, AdvancedDelivery(s, r).s, AdvancedDelivery(s, r).r)
         /\ SameRun(r, AdvancedDelivery(s, r).r)
         /\ AdvancedDelivery(s, r).r.isolated # r.isolated => r.phase = "live"
<1> DEFINE p == AdvancedDelivery(s, r)
           e == Enqueued(s, s.reserved)
           requeued == [e EXCEPT !.reserved = None]
           ordinary == IF s.reserved = None THEN s ELSE requeued
<1>1. Quiet(s, s) /\ SameRun(r, r)
  BY DEF Quiet, SameRun
<1>2. s.reserved \in Resume \cup {None}
  BY DEF Sched
<1>3. CASE s.slot["resume"] # 0
  BY <1>1, <1>3 DEF AdvancedDelivery, Advances
<1>4. CASE s.slot["resume"] = 0 /\ (s.reserved = None \/ ~HoldIs(r, s.reservedHold))
  <2>1. p = AdvancedOrdinary(ordinary, r)
    BY <1>4 DEF AdvancedDelivery
  <2>2. Quiet(s, ordinary) /\ Clean(ordinary)
    <3>1. CASE s.reserved = None
      BY <1>1, <3>1
    <3>2. CASE s.reserved # None
      <4>1. s.reserved \in Delivery /\ s.reserved \notin withdrawn
        BY <1>2, <3>2, KindAssumption DEF Delivery
      <4>2. /\ e \in Sched /\ e.pending = s.pending \cup {s.reserved} /\ e.slot = s.slot
            /\ e.batch = s.batch /\ e.retained = s.retained
        BY <4>1, EnqueuedType
      <4> HIDE DEF e
      <4>3. /\ requeued \in Sched /\ requeued.pending = s.pending \cup {s.reserved}
            /\ requeued.slot = s.slot /\ requeued.batch = s.batch /\ requeued.retained = s.retained
        BY <4>2 DEF Sched
      <4> HIDE DEF requeued
      <4>4. Quiet(s, requeued)
        BY <3>2, <4>3, PendingScheduling DEF Quiet, Consistent
      <4>5. Clean(requeued)
        BY <4>1, <4>3 DEF Clean, Members
      <4> QED BY <3>2, <4>4, <4>5
    <3> QED BY <3>1, <3>2
  <2> HIDE DEF ordinary, p
  <2>3. ordinary \in Sched /\ Consistent(ordinary)
    BY <2>2 DEF Quiet
  <2>4. Advances(ordinary, p.s, p.r) /\ SameRun(r, p.r) /\ p.r.isolated = r.isolated
    BY <2>1, <2>2, <2>3, OrdinaryAdvances
  <2> QED BY <2>2, <2>4, QuietThenAdvances DEF p
<1>5. CASE s.slot["resume"] = 0 /\ s.reserved # None /\ HoldIs(r, s.reservedHold)
  <2> r.phase = "live"
    BY <1>5 DEF HoldIs
  <2>1. CASE WorkState(r) = "settled" /\ r.isolated = "none"
    <3> DEFINE begun == [r EXCEPT !.isolated = "begun"]
    <3>1. p = [s |-> Dispatched(s, r, "resume", {s.reserved}), r |-> begun]
      BY <1>5, <2>1 DEF AdvancedDelivery, Resumed
    <3>2. SameRun(r, begun)
      BY DEF SameRun, Run
    <3>3. {s.reserved} \in SUBSET Delivery /\ {s.reserved} \subseteq Resume /\ "resume" \in Slot
      BY <1>2, <1>5 DEF Delivery, Slot
    <3>4. HasPendingScheduling(s)
      BY <1>5, PendingScheduling
    <3> HIDE DEF begun
    <3>5. Sends(s, Dispatched(s, r, "resume", {s.reserved}), begun)
      BY <3>3, <3>4, DispatchedSends
    <3> QED BY <3>1, <3>2, <3>5 DEF Advances
  <2>2. CASE ~(WorkState(r) = "settled" /\ r.isolated = "none")
    <3>1. p = [s |-> s, r |-> r]
      BY <1>5, <2>2 DEF AdvancedDelivery, Resumed
    <3> QED BY <1>1, <3>1 DEF Advances
  <2> QED BY <2>1, <2>2
<1> QED BY <1>3, <1>4, <1>5

\* A drain advances from a swept scheduler.
LEMMA DrainedAdvances ==
  ASSUME NEW s \in Sched, NEW r \in Run, Consistent(s), withdrawn \in SUBSET Request
  PROVE  /\ Advances(s, Drained(s, r).s, Drained(s, r).r)
         /\ SameRun(r, Drained(s, r).r)
         /\ Drained(s, r).r.isolated # r.isolated => r.phase = "live"
<1> DEFINE t == RemoveProven(s)
<1>1. Quiet(s, t) /\ Clean(t)
  BY RemoveProvenQuiet
<1> HIDE DEF t
<1>2. t \in Sched /\ Consistent(t)
  BY <1>1 DEF Quiet
<1>3. Drained(s, r) = AdvancedDelivery(t, r)
  BY DEF Drained, t
<1>4. /\ Advances(t, Drained(s, r).s, Drained(s, r).r) /\ SameRun(r, Drained(s, r).r)
      /\ Drained(s, r).r.isolated # r.isolated => r.phase = "live"
  BY <1>1, <1>2, <1>3, DeliveryAdvances
<1> QED BY <1>1, <1>4, QuietThenAdvances

\* The freeze at a safe boundary advances a Run that takes ordinary input.
LEMMA FrozenAdvances ==
  ASSUME NEW s \in Sched, NEW r \in Run, NEW r2, Consistent(s), Clean(s), ~Blocks(r2)
  PROVE  Advances(s, Frozen(s, r), r2)
<1> DEFINE steer == EligibleSteer(s, r)
<1>1. Quiet(s, s) /\ s.pending \in SUBSET Delivery
  BY DEF Quiet, Sched
<1>2. CASE UnprovenFrozen(s) \/ steer = {}
  BY <1>1, <1>2 DEF Frozen, Advances
<1>3. CASE ~(UnprovenFrozen(s) \/ steer = {})
  <2>1. Frozen(s, r) = Dispatched(s, r, "frozen", steer)
    BY <1>3 DEF Frozen
  <2>2. steer \subseteq s.pending /\ steer \cap withdrawn = {}
    BY EligibleAreQueued, UnreservedIsClean
  <2>3. HasPendingScheduling(s)
    BY <1>3, <2>2, PendingScheduling
  <2>4. "frozen" \in Slot
    BY DEF Slot
  <2> HIDE DEF steer
  <2>5. Sends(s, Dispatched(s, r, "frozen", steer), r2)
    BY <1>1, <2>2, <2>3, <2>4, DispatchedSends
  <2> QED BY <2>1, <2>5 DEF Advances
<1> QED BY <1>2, <1>3

\* A rejection reports progress and marks batches; it schedules nothing.
LEMMA RejectsQuiet ==
  ASSUME NEW s \in Sched, NEW B \in SUBSET (1..Len(s.batch)), NEW place \in {"dropped", "cancelled"}
  PROVE  Quiet(s, Rejects(s, B, place))
<1> DEFINE lost == UNION {s.batch[b].msgs : b \in B}
           f == Failed(s, lost)
           q == [b \in DOMAIN s.batch |->
                   IF b \in B THEN [s.batch[b] EXCEPT !.comp = "failed",
                                     !.place = IF @ = "committed" THEN @ ELSE place]
                   ELSE s.batch[b]]
<1>1. /\ DOMAIN s.batch = 1..Len(s.batch) /\ Len(s.batch) \in Nat
      /\ \A b \in 1..Len(s.batch) : s.batch[b] \in Batch
  BY DEF Sched
<1>2. lost \in SUBSET Delivery
  BY <1>1 DEF Batch
<1> HIDE DEF lost
<1>3. /\ Quiet(s, f) /\ f.batch = s.batch
  BY <1>2, FailedQuiet
<1>4. \A b \in 1..Len(s.batch) :
        /\ q[b] \in Batch /\ q[b].msgs = s.batch[b].msgs
        /\ q[b].committed = s.batch[b].committed
  BY ZenonT(60), <1>1 DEF Batch
<1>5. q = [b \in 1..Len(s.batch) |-> q[b]]
  BY <1>1
<1>6. Rejects(s, B, place) = [f EXCEPT !.batch = q]
  BY <1>3 DEF Rejects, lost
<1> HIDE DEF f, q
<1>7. q \in Seq(Batch) /\ Len(q) = Len(s.batch)
  BY <1>1, <1>4, <1>5, FunctionIsSeq
<1>8. f \in Sched
  BY <1>3 DEF Quiet
<1>9. Quiet(f, [f EXCEPT !.batch = q])
  BY SMTT(30), <1>3, <1>4, <1>7, <1>8, BatchesQuiet
<1> QED BY <1>3, <1>6, <1>9, QuietTransitive

\* A discard leaves nothing scheduled.
LEMMA DiscardedQuiet ==
  ASSUME NEW s \in Sched
  PROVE  Quiet(s, Discarded(s)) /\ ~HasPendingScheduling(Discarded(s))
<1> DEFINE d == Dequeued(s, s.pending, {})
           t == [d EXCEPT !.slot = NoIds, !.reserved = None, !.retained = FALSE]
<1>1. Quiet(s, d) /\ d.pending = {} /\ d.batch = s.batch
  BY DequeuedQuiet
<1>2. d \in Sched
  BY <1>1 DEF Quiet
<1>3. NoIds \in [Slot -> Nat] /\ \A k \in Slot : NoIds[k] = 0
  BY DEF NoIds
<1> HIDE DEF d
<1>4. /\ t \in Sched /\ t.slot = NoIds /\ t.reserved = None /\ t.pending = {}
      /\ t.batch = s.batch
  BY <1>1, <1>2, <1>3 DEF Sched
<1>5. Discarded(s) = t
  BY DEF Discarded, d
<1> HIDE DEF t
<1>6. ~HasPendingScheduling(t)
  BY <1>3, <1>4, PendingScheduling
<1>7. Len(s.batch) \in Nat
  BY DEF Sched
<1>8. Consistent(s) => Consistent(t)
  BY <1>3, <1>4, <1>7 DEF Consistent
<1> QED BY <1>4, <1>5, <1>6, <1>8 DEF Quiet

\* One reservation is given up.
LEMMA SlotFreedQuiet ==
  ASSUME NEW s \in Sched, NEW k \in Slot
  PROVE  Quiet(s, [s EXCEPT !.slot[k] = 0])
<1>1. s.slot \in [Slot -> Nat]
  BY DEF Sched
<1>2. [s.slot EXCEPT ![k] = 0] = [j \in Slot |-> IF j \in {k} THEN 0 ELSE s.slot[j]]
  BY <1>1
<1>3. [s EXCEPT !.slot[k] = 0] = [s EXCEPT !.slot = [j \in Slot |-> IF j \in {k} THEN 0 ELSE s.slot[j]]]
  BY <1>2 DEF Sched
<1> QED BY ZenonT(60), <1>3, SlotsFreedQuiet

\* A reservation that is reconciled is given up with its queued members.
LEMMA ConsumedQuiet ==
  ASSUME NEW s \in Sched, NEW k \in Slot
  PROVE  Quiet(s, Consumed(s, k))
<1> DEFINE b == s.slot[k]
           C == {m \in Members(s, k) \ s.batch[b].committed : Proven(m)}
           d == Dequeued(s, Members(s, k), C)
<1>1. CASE b = 0
  BY <1>1 DEF Consumed, Quiet
<1>2. CASE b # 0
  <2>1. Consumed(s, k) = [d EXCEPT !.slot[k] = 0]
    BY <1>2 DEF Consumed
  <2>2. Quiet(s, d)
    BY DequeuedQuiet
  <2> HIDE DEF d
  <2>3. d \in Sched
    BY <2>2 DEF Quiet
  <2> QED BY <2>1, <2>2, <2>3, SlotFreedQuiet, QuietTransitive
<1> QED BY <1>1, <1>2
-----------------------------------------------------------------------------
\* The dispatches that the property about Holds and the one about withdrawals allow.
SafeDispatch(t, r) ==
  Len(t.batch) > Len(sched.batch) =>
    \/ t.batch[Len(t.batch)].msgs \subseteq Resume
    \/ ~Blocks(r) /\ t.batch[Len(t.batch)].msgs \cap withdrawn = {}

\* The inductive invariant, but for the types of the other variables.
Sound(s, r) ==
  /\ s \in Sched /\ r \in Run
  /\ Consistent(s)
  /\ HasPendingScheduling(s) => r.phase = "live" /\ s.retained
  /\ r.phase = "dormant" => r.stop = "none"

\* Inside a closure that has dispatched nothing yet.
Base(s, r) == Sound(s, r) /\ Len(s.batch) = Len(sched.batch)

\* A quiet call keeps the invariant inside a closure.
LEMMA QuietKeepsBase ==
  ASSUME NEW s, NEW r, Base(s, r), NEW t, NEW r2 \in Run, Quiet(s, t),
         r2.phase = r.phase, r2.phase = "dormant" => r2.stop = "none"
  PROVE  Base(t, r2)
BY DEF Base, Sound, Quiet

\* A closure that dispatched nothing is safe.
LEMMA BaseIsSafe ==
  ASSUME NEW s, NEW r, Base(s, r)
  PROVE  Sound(s, r) /\ SafeDispatch(s, r)
BY DEF Base, Sound, SafeDispatch, Sched

\* An advance that keeps the phase and the stop of its Run keeps the invariant.
LEMMA AdvanceIsSound ==
  ASSUME NEW s, NEW r, Base(s, r), NEW t, NEW r2, Advances(s, t, r2), SameRun(r, r2)
  PROVE  Sound(t, r2) /\ SafeDispatch(t, r2)
<1>1. r2 \in Run /\ r2.phase = r.phase /\ r2.stop = r.stop
  BY DEF SameRun
<1>2. CASE Quiet(s, t)
  <2>1. Base(t, r2)
    BY <1>1, <1>2, QuietKeepsBase DEF Base, Sound
  <2> QED BY <2>1, BaseIsSafe
<1>3. CASE Sends(s, t, r2)
  BY <1>1, <1>3 DEF Base, Sound, Sends, SafeDispatch
<1> QED BY <1>2, <1>3 DEF Advances

\* A drain keeps the invariant, and takes the lane only for the Resume of a live Run.
LEMMA DrainIsSound ==
  ASSUME NEW s, NEW r, Base(s, r), withdrawn \in SUBSET Request,
         NEW d, d = Drained(s, r), Becomes(d, r)
  PROVE  /\ Sound(sched', run') /\ SafeDispatch(sched', run')
         /\ busy' \in {"free", "resume"}
         /\ busy' # "free" => run'.phase = "live"
<1>1. s \in Sched /\ r \in Run /\ Consistent(s)
  BY DEF Base, Sound
<1>2. /\ Advances(s, d.s, d.r) /\ SameRun(r, d.r)
      /\ d.r.isolated # r.isolated => r.phase = "live"
  BY <1>1, DrainedAdvances
<1>3. /\ sched' = d.s /\ run' = d.r
      /\ busy' = IF d.r.isolated = "begun" /\ r.isolated # "begun" THEN "resume" ELSE "free"
  BY DEF Becomes
<1>4. Sound(sched', run') /\ SafeDispatch(sched', run')
  BY <1>2, <1>3, AdvanceIsSound
<1> QED BY <1>2, <1>3, <1>4 DEF SameRun

\* Abandoned boundaries are tasks.
LEMMA AbandonedType ==
  ASSUME NEW q \in Seq(Task)
  PROVE  Abandoned(q) \in Seq(Task)
<1>1. NewTask("abandoned") \in Task
  BY DEF NewTask, Task, TaskKind, Verdict, NoIds
<1>2. Len(q) \in Nat /\ \A i \in 1..Len(q) : q[i] \in Task
  OBVIOUS
<1> HIDE DEF Task
<1> QED BY <1>1, <1>2 DEF Abandoned

\* A released boundary changes the work of a Run only.
LEMMA ReleasedType ==
  ASSUME NEW r \in Run
  PROVE  /\ Released(r) \in Run
         /\ Released(r).phase = r.phase /\ Released(r).stop = r.stop
BY DEF Released, Run, TurnPhase

\* What a closure that settles, reconciles or ends a Run leaves behind.
Left ==
  /\ Sound(sched', run') /\ SafeDispatch(sched', run')
  /\ lane' \in Seq(Task)
  /\ busy' \in {"free", "resume", "interrupt", "end", "await"}
  /\ busy' # "free" => run'.phase = "live"
  /\ busy' = "end" => ~HasPendingScheduling(sched')

\* The start of the end of a live Run.
LEMMA EndIsSound ==
  ASSUME NEW s, NEW r, Base(s, r), r.phase = "live", NEW q \in Seq(Task), EndRun(s, r, q)
  PROVE  Left
<1>1. s \in Sched /\ r \in Run
  BY DEF Base, Sound
<1>2. sched' = Discarded(s) /\ run' = Released(r) /\ busy' = "end" /\ lane' = Abandoned(q)
  BY DEF EndRun
<1>3. Quiet(s, sched') /\ ~HasPendingScheduling(sched')
  BY <1>1, <1>2, DiscardedQuiet
<1>4. run' \in Run /\ run'.phase = r.phase
  BY <1>1, <1>2, ReleasedType
<1>5. Base(sched', run')
  BY <1>3, <1>4, QuietKeepsBase
<1>6. lane' \in Seq(Task)
  BY <1>2, AbandonedType
<1> QED BY <1>2, <1>3, <1>4, <1>5, <1>6, BaseIsSafe DEF Left

\* The release evaluation is a task.
LEMMA EvaluationType ==
  ASSUME NEW r \in Run
  PROVE  [NewTask("evaluate") EXCEPT !.run = r.seq] \in Task
BY DEF NewTask, Task, TaskKind, Verdict, NoIds, Run

\* The drain at the end of a reconciliation.
LEMMA DrainedAndEvaluatedIsSound ==
  ASSUME NEW s, NEW r, Base(s, r), withdrawn \in SUBSET Request, NEW q \in Seq(Task),
         DrainedAndEvaluated(Drained(s, r), r, q)
  PROVE  Left
<1> DEFINE d == Drained(s, r)
           e == [d EXCEPT !.s = DropReason(d.s)]
<1>1. s \in Sched /\ r \in Run /\ Consistent(s)
  BY DEF Base, Sound
<1>2. /\ Advances(s, d.s, d.r) /\ SameRun(r, d.r)
      /\ d.r.isolated # r.isolated => r.phase = "live"
  BY <1>1, DrainedAdvances
<1>3. d.s \in Sched
  BY <1>2 DEF Advances, Quiet, Sends
<1>4. Advances(s, DropReason(d.s), d.r)
  BY SMTT(30), <1>1, <1>2, <1>3, DropReasonQuiet, AdvancesThenQuiet
<1>5. d = [s |-> d.s, r |-> d.r]
  BY DEF Drained, AdvancedDelivery, AdvancedOrdinary, Preempted, Acquired, Resumed
<1> HIDE DEF d
<1>6. e = [s |-> DropReason(d.s), r |-> d.r]
  BY <1>5
<1> HIDE DEF e
<1>7. /\ sched' = DropReason(d.s) /\ run' = d.r
      /\ busy' = IF d.r.isolated = "begun" /\ r.isolated # "begun" THEN "resume" ELSE "free"
      /\ lane' = IF HasPendingScheduling(d.s) THEN q
                 ELSE Append(q, [NewTask("evaluate") EXCEPT !.run = r.seq])
  BY <1>6 DEF DrainedAndEvaluated, Becomes, d, e
<1>8. Sound(sched', run') /\ SafeDispatch(sched', run')
  BY <1>2, <1>4, <1>7, AdvanceIsSound
<1>9. lane' \in Seq(Task)
  <2>1. [NewTask("evaluate") EXCEPT !.run = r.seq] \in Task
    BY <1>1, EvaluationType
  <2> QED BY <1>7, <2>1
<1> QED BY <1>2, <1>7, <1>8, <1>9 DEF Left, SameRun
\* A sweep keeps the invariant inside a closure.
LEMMA SweptKeepsBase ==
  ASSUME NEW s, NEW r, Base(s, r), withdrawn \in SUBSET Request
  PROVE  Base(Swept(s), r)
BY SweptQuiet, QuietKeepsBase DEF Base, Sound

\* So does a reconciled reservation.
LEMMA ConsumedKeepsBase ==
  ASSUME NEW s, NEW r, Base(s, r), NEW k \in Slot
  PROVE  Base(Consumed(s, k), r)
BY ZenonT(60), ConsumedQuiet, QuietKeepsBase DEF Base, Sound

\* A reconciliation keeps the invariant at each of its three awaits and at its ends.
LEMMA ReconciledIsSound ==
  ASSUME NEW s0, NEW r0, Base(s0, r0), r0.phase = "live", withdrawn \in SUBSET Request,
         NEW v, NEW q \in Seq(Task), Reconciled(s0, r0, v, q)
  PROVE  Left
<1> DEFINE s1 == [s0 EXCEPT !.slot["resume"] = 0]
           r1 == [r0 EXCEPT !.isolated = IF s0.slot["resume"] # 0 THEN "none" ELSE @]
           settled == [r0 EXCEPT !.isolated = "none"]
           s2 == Consumed(s1, "deferred")
           s3 == Swept(Consumed(s2, "preemption"))
           Await(s, r) == /\ sched' = s /\ run' = r /\ busy' = "await" /\ lane' = q
<1>1. s0 \in Sched /\ r0 \in Run
  BY DEF Base, Sound
<1>2. /\ r1 \in Run /\ r1.phase = "live" /\ r1.stop = r0.stop
      /\ settled \in Run /\ settled.phase = "live" /\ settled.stop = r0.stop
  BY <1>1 DEF Run
<1>3. "resume" \in Slot /\ "deferred" \in Slot /\ "preemption" \in Slot
  BY DEF Slot
<1>4. Base(s1, r1) /\ Base(s1, settled)
  <2>1. Quiet(s0, s1)
    BY <1>1, <1>3, SlotFreedQuiet
  <2> HIDE DEF s1, r1, settled
  <2> QED BY <1>2, <2>1, QuietKeepsBase
<1> HIDE DEF s1, r1, settled
<1>5. Base(s2, r1) /\ Base(s2, settled)
  BY <1>3, <1>4, ConsumedKeepsBase
<1> HIDE DEF s2
<1>6. Base(s3, r1) /\ Base(s3, settled)
  BY <1>3, <1>5, ConsumedKeepsBase, SweptKeepsBase
<1> HIDE DEF s3
<1>7. \/ Await(s0, r0) \/ Await(s1, r1) \/ Await(s2, r1)
      \/ EndRun(s0, r1, q) \/ EndRun(s2, r1, q) \/ EndRun(s3, r1, q)
      \/ DrainedAndEvaluated(Drained(s3, settled), settled, q)
  BY DEF Reconciled, s1, r1, settled, s2, s3
<1>8. ASSUME NEW s, NEW r, Base(s, r), r.phase = "live", Await(s, r)
      PROVE  Left
  BY <1>8, BaseIsSafe DEF Left
<1>9. CASE Await(s0, r0) \/ Await(s1, r1) \/ Await(s2, r1)
  <2> HIDE DEF Await
  <2> QED BY <1>2, <1>4, <1>5, <1>8, <1>9
<1>10. CASE EndRun(s0, r1, q) \/ EndRun(s2, r1, q) \/ EndRun(s3, r1, q)
  <2>1. Base(s0, r1)
    <3>1. Quiet(s0, s0)
      BY <1>1 DEF Quiet
    <3> QED BY <1>2, <3>1, QuietKeepsBase
  <2> QED BY <1>2, <1>5, <1>6, <1>10, <2>1, EndIsSound
<1>11. CASE DrainedAndEvaluated(Drained(s3, settled), settled, q)
  BY <1>6, <1>11, DrainedAndEvaluatedIsSound
<1> QED BY <1>7, <1>9, <1>10, <1>11

\* A settlement keeps the invariant, under a Hold and without one.
LEMMA FinishSettledIsSound ==
  ASSUME NEW s, NEW r, Base(s, r), r.phase = "live", withdrawn \in SUBSET Request,
         NEW v, NEW q \in Seq(Task), FinishSettled(s, r, v, q)
  PROVE  Left
<1>1. CASE r.stop = "none"
  <2>1. Reconciled(s, r, v, q)
    BY <1>1 DEF FinishSettled
  <2> QED BY <2>1, ReconciledIsSound
<1>2. CASE r.stop # "none"
  <2> DEFINE t == RemoveProven(s)
  <2>1. /\ sched' = [t EXCEPT !.slot = NoIds] /\ run' = [r EXCEPT !.isolated = "none"]
        /\ busy' = "free" /\ lane' = q
    BY <1>2 DEF FinishSettled
  <2>2. s \in Sched /\ r \in Run
    BY DEF Base, Sound
  <2>3. Quiet(s, t) /\ t \in Sched
    BY <2>2, RemoveProvenQuiet DEF Quiet
  <2> HIDE DEF t
  <2>4. NoIds = [k \in Slot |-> IF k \in Slot THEN 0 ELSE t.slot[k]]
    BY DEF NoIds
  <2>5. Quiet(t, [t EXCEPT !.slot = NoIds])
    BY <2>3, <2>4, SlotsFreedQuiet
  <2>6. run' \in Run /\ run'.phase = "live"
    BY <2>1, <2>2 DEF Run
  <2>7. Base(sched', run')
    BY <2>1, <2>2, <2>3, <2>5, <2>6, QuietTransitive, QuietKeepsBase
  <2> QED BY <2>1, <2>6, <2>7, BaseIsSafe DEF Left
<1> QED BY <1>1, <1>2
-----------------------------------------------------------------------------
\* The inductive invariant.  A Run whose work is scheduled cannot be released, so that
\* invariant needs that nothing is scheduled while a Run ends, that only a live Run
\* holds the lane, and, for what a sweep leaves in the queue, that committed members
\* of a batch have proof.
IInv ==
  /\ TypeOK
  /\ Consistent(sched)
  /\ ScheduledWorkRetainsItsRun
  /\ busy # "free" => Live
  /\ run.phase = "dormant" => run.stop = "none"
  /\ busy = "end" => ~HasPendingScheduling(sched)

\* Every closure starts inside the invariant.
LEMMA InvariantIsBase ==
  ASSUME IInv
  PROVE  /\ Base(sched, run) /\ sched \in Sched /\ run \in Run
         /\ withdrawn \in SUBSET Request /\ lane \in Seq(Task)
BY DEF IInv, TypeOK, Base, Sound, ScheduledWorkRetainsItsRun, Live

\* What the transcripts and the bounds keep.
Recorded ==
  /\ copies' \in [Delivery -> Nat] /\ retrieved' \in SUBSET Message
  /\ withdrawn' \in SUBSET Request /\ answered' \in SUBSET Request
  /\ joins' \in SUBSET Join /\ spent' \in [arrivals : Nat, controls : Nat, faults : Nat]
  /\ \A m \in Delivery : Proven(m) => Proven(m)'

\* What a step leaves is the inductive invariant of the next state.
LEMMA LeftKeepsInvariant ==
  ASSUME IInv, Left, Recorded
  PROVE  IInv' /\ SafeDispatch(sched', run')
<1>1. /\ sched' \in Sched /\ run' \in Run /\ Consistent(sched')
      /\ HasPendingScheduling(sched') => run'.phase = "live" /\ sched'.retained
      /\ run'.phase = "dormant" => run'.stop = "none"
      /\ SafeDispatch(sched', run')
  BY DEF Left, Sound
<1>2. HasPendingScheduling(sched)' <=> HasPendingScheduling(sched')
  BY DEF HasPendingScheduling, UnprovenFrozen, Members
<1>3. TypeOK'
  BY <1>1 DEF Left, Recorded, TypeOK
<1>4. Consistent(sched)'
  <2>1. \A b \in 1..Len(sched'.batch) : sched'.batch[b].committed \subseteq Delivery
    <3>1. \A b \in 1..Len(sched'.batch) : sched'.batch[b] \in Batch
      BY <1>1 DEF Sched
    <3> QED BY <3>1 DEF Batch
  <2>2. \A b \in 1..Len(sched'.batch) : \A m \in sched'.batch[b].committed : Proven(m)
    BY <1>1 DEF Consistent
  <2>3. \A b \in 1..Len(sched'.batch) : \A m \in sched'.batch[b].committed : Proven(m)'
    BY <2>1, <2>2 DEF Recorded
  <2>4. \A k \in Slot : sched'.slot[k] <= Len(sched'.batch)
    BY <1>1 DEF Consistent
  <2> QED BY <2>3, <2>4 DEF Consistent
<1>5. (busy # "free" => Live)' /\ (busy = "end" => ~HasPendingScheduling(sched))'
  BY <1>2 DEF Left, Live
<1>6. ScheduledWorkRetainsItsRun'
  BY <1>1, <1>2 DEF ScheduledWorkRetainsItsRun, Live
<1> QED BY <1>1, <1>3, <1>4, <1>5, <1>6 DEF IInv

\* The bounds stay natural numbers.
LEMMA SpendType ==
  ASSUME IInv, NEW w \in {"arrivals", "controls", "faults"}, Spend(w)
  PROVE  spent' \in [arrivals : Nat, controls : Nat, faults : Nat]
BY DEF IInv, TypeOK, Spend

\* A step that leaves the transcripts alone.
LEMMA TranscriptKept ==
  ASSUME IInv, UNCHANGED transcript, joins' \in SUBSET Join,
         spent' \in [arrivals : Nat, controls : Nat, faults : Nat]
  PROVE  Recorded
BY DEF IInv, TypeOK, transcript, Recorded, Proven

\* A closure leaves transcripts and joins alone.
LEMMA ClosureRecorded ==
  ASSUME IInv, UNCHANGED <<transcript, joins>>,
         \/ UNCHANGED spent
         \/ \E w \in {"arrivals", "controls", "faults"} : Spend(w)
  PROVE  Recorded
BY TranscriptKept, SpendType DEF IInv, TypeOK

\* A step of the Runtime, or of a closure that schedules nothing.
LEMMA QuietStep ==
  ASSUME IInv, Quiet(sched, sched'), run' \in Run, run'.phase = run.phase,
         run'.phase = "dormant" => run'.stop = "none",
         lane' \in Seq(Task), busy' \in {"free", "resume", "interrupt", "end", "await"},
         busy' # "free" => Live, busy' = "end" => busy = "end"
  PROVE  Left
<1>1. Base(sched, run)
  BY InvariantIsBase
<1>2. Base(sched', run')
  BY <1>1, QuietKeepsBase
<1>3. busy' = "end" => ~HasPendingScheduling(sched')
  BY DEF IInv, Quiet
<1> QED BY <1>2, <1>3, BaseIsSafe DEF Left, Live

\* Doing nothing is quiet.
LEMMA Idle ==
  ASSUME IInv
  PROVE  Quiet(sched, sched)
BY InvariantIsBase DEF Quiet

\* A step of the lane alone.
LEMMA LaneGrows ==
  ASSUME IInv, UNCHANGED <<sched, run, busy>>, lane' \in Seq(Task)
  PROVE  Left
BY Idle, QuietStep DEF IInv, TypeOK

\* The head of the lane is a task, and the rest is a lane.
LEMMA HeadType ==
  ASSUME IInv, lane # <<>>
  PROVE  Head(lane) \in Task /\ Tail(lane) \in Seq(Task)
<1>1. lane \in Seq(Task)
  BY InvariantIsBase
<1> HIDE DEF Task
<1> QED BY <1>1

\* A closure that returns early.
LEMMA SkipIsSound ==
  ASSUME IInv, lane # <<>>, Skip
  PROVE  Left
BY HeadType, LaneGrows DEF Skip, Rest

-----------------------------------------------------------------------------
(* Operations of others. *)

\* An operation that queues in the lane, with the withdrawal of a Cancellation.
LEMMA ArriveStep ==
  ASSUME IInv, NEW m \in Message, Arrive(m)
  PROVE  Left /\ Recorded
<1>1. Operation("admit", m) \in Task
  BY DEF Operation, NewTask, Task, TaskKind, Verdict, NoIds, Delivery
<1>2. lane' \in Seq(Task)
  <2> HIDE DEF Task
  <2> QED BY <1>1, InvariantIsBase DEF Arrive
<1>3. Left
  BY <1>2, LaneGrows DEF Arrive
<1>4. withdrawn' \in SUBSET Request
  BY DEF Arrive, IInv, TypeOK
<1>5. spent' \in [arrivals : Nat, controls : Nat, faults : Nat]
  BY SpendType DEF Arrive
<1>6. Recorded
  BY <1>4, <1>5 DEF Arrive, IInv, TypeOK, Recorded, Proven
<1> QED BY <1>3, <1>6

\* An interruption or an abort queues.
LEMMA ControlStep ==
  ASSUME IInv, NEW kind \in {"interrupt", "abort"}, Control(kind)
  PROVE  Left /\ Recorded
<1>1. NewTask(kind) \in Task
  BY DEF NewTask, Task, TaskKind, Verdict, NoIds
<1>2. lane' \in Seq(Task)
  <2> HIDE DEF Task
  <2> QED BY <1>1, InvariantIsBase DEF Control
<1> QED BY <1>2, LaneGrows, ClosureRecorded DEF Control

\* A Resume queues.
LEMMA ControlResumeStep ==
  ASSUME IInv, NEW m \in Resume, ControlResume(m)
  PROVE  Left /\ Recorded
<1>1. Operation("resume", m) \in Task
  BY DEF Operation, NewTask, Task, TaskKind, Verdict, NoIds, Delivery
<1>2. lane' \in Seq(Task)
  <2> HIDE DEF Task
  <2> QED BY <1>1, InvariantIsBase DEF ControlResume
<1> QED BY <1>2, LaneGrows, ClosureRecorded DEF ControlResume

\* A settlement goes on in the lane with what it captured.
LEMMA JoinSettlesStep ==
  ASSUME IInv, NEW j \in joins, JoinSettles(j)
  PROVE  Left /\ Recorded
<1>1. joins \in SUBSET Join
  BY DEF IInv, TypeOK
<1>2. [NewTask("reconcile") EXCEPT !.run = j.run, !.verdict = j.verdict, !.ids = j.ids] \in Task
  BY <1>1 DEF NewTask, Task, TaskKind, Verdict, NoIds, Join
<1>3. lane' \in Seq(Task)
  <2> HIDE DEF Task
  <2> QED BY <1>2, InvariantIsBase DEF JoinSettles
<1>4. joins' \in SUBSET Join
  BY <1>1 DEF JoinSettles
<1> QED BY <1>3, <1>4, LaneGrows, TranscriptKept DEF JoinSettles, IInv, TypeOK
-----------------------------------------------------------------------------
(* Closures of the lane. *)

\* The head of the lane is a closure that drains.
LEMMA DrainStep ==
  ASSUME IInv, lane # <<>>, lane' = Rest, NEW s, NEW r, Base(s, r), Becomes(Drained(s, r), r)
  PROVE  Left
<1>1. lane' \in Seq(Task)
  BY HeadType DEF Rest
<1>2. withdrawn \in SUBSET Request
  BY InvariantIsBase
<1>3. /\ Sound(sched', run') /\ SafeDispatch(sched', run')
      /\ busy' \in {"free", "resume"} /\ (busy' # "free" => run'.phase = "live")
  BY <1>2, DrainIsSound
<1> QED BY <1>1, <1>3 DEF Left

\* The progress of a Delivery is the scheduler's memory of it, not its scheduling.
LEMMA ProgressQuiet ==
  ASSUME NEW s \in Sched, NEW T \in SUBSET Delivery, NEW F \in SUBSET Delivery
  PROVE  LET t == [s EXCEPT !.tracked = T, !.failed = F]
         IN  /\ Quiet(s, t) /\ t \in Sched
             /\ t.pending = s.pending /\ t.slot = s.slot /\ t.batch = s.batch
             /\ t.reserved = s.reserved /\ t.retained = s.retained
<1> DEFINE t == [s EXCEPT !.tracked = T, !.failed = F]
<1>1. /\ t \in Sched /\ t.pending = s.pending /\ t.slot = s.slot /\ t.batch = s.batch
      /\ t.reserved = s.reserved /\ t.retained = s.retained
  BY DEF Sched
<1> HIDE DEF t
<1>2. Quiet(s, t)
  BY <1>1, PendingScheduling DEF Quiet, Consistent
<1> QED BY <1>1, <1>2 DEF t

\* A Delivery that is rejected at admission is tracked as failed.
LEMMA TrackedAndFailed ==
  ASSUME NEW s \in Sched, NEW m \in Delivery
  PROVE  Quiet(s, Failed([s EXCEPT !.tracked = @ \cup {m}], {m}))
<1> DEFINE t == [s EXCEPT !.tracked = s.tracked \cup {m}, !.failed = s.failed]
<1>1. s.tracked \cup {m} \in SUBSET Delivery /\ s.failed \in SUBSET Delivery
  BY DEF Sched
<1>2. t = [s EXCEPT !.tracked = @ \cup {m}]
  BY DEF Sched
<1>3. Quiet(s, t) /\ t \in Sched
  BY <1>1, ProgressQuiet
<1> HIDE DEF t
<1>4. Quiet(t, Failed(t, {m}))
  BY <1>3, FailedQuiet
<1> QED BY <1>2, <1>3, <1>4, QuietTransitive

\* The head of the lane admits an ordinary Message.
LEMMA AdmittedMessage ==
  ASSUME IInv, Head1("admit")
  PROVE  /\ lane # <<>> /\ busy = "free"
         /\ Head(lane).msg \in Message /\ Head(lane).msg \in Delivery
BY HeadType DEF Head1, Task, Delivery

\* A repeated admission drains.
LEMMA AdmitAgainStep ==
  ASSUME IInv, AdmitAgain
  PROVE  Left /\ Recorded
<1>1. lane # <<>>
  BY AdmittedMessage DEF AdmitAgain
<1>2. Skip \/ (Becomes(Drained(sched, run), run) /\ lane' = Rest)
  BY DEF AdmitAgain
<1>3. Left
  BY <1>1, <1>2, SkipIsSound, DrainStep, InvariantIsBase
<1> QED BY <1>3, ClosureRecorded DEF AdmitAgain

\* A full queue rejects.
LEMMA AdmitFullStep ==
  ASSUME IInv, AdmitFull
  PROVE  Left /\ Recorded
<1>1. lane # <<>> /\ Head(lane).msg \in Delivery
  BY AdmittedMessage DEF AdmitFull
<1>2. Quiet(sched, sched')
  BY <1>1, TrackedAndFailed, InvariantIsBase DEF AdmitFull
<1>3. lane' \in Seq(Task)
  BY <1>1, HeadType DEF AdmitFull, Rest
<1>4. Left
  BY <1>2, <1>3, QuietStep DEF AdmitFull, IInv, TypeOK
<1> QED BY <1>4, ClosureRecorded DEF AdmitFull

\* A failed boot rejects.
LEMMA AdmitUnavailableStep ==
  ASSUME IInv, AdmitUnavailable
  PROVE  Left /\ Recorded
<1>1. lane # <<>> /\ Head(lane).msg \in Delivery
  BY AdmittedMessage DEF AdmitUnavailable
<1>2. Quiet(sched, sched')
  BY <1>1, TrackedAndFailed, InvariantIsBase DEF AdmitUnavailable
<1>3. lane' \in Seq(Task)
  BY <1>1, HeadType DEF AdmitUnavailable, Rest
<1>4. Left
  BY <1>2, <1>3, QuietStep DEF AdmitUnavailable, IInv, TypeOK
<1> QED BY <1>4, ClosureRecorded DEF AdmitUnavailable

\* Admission boots a dormant recipient, so that the Delivery it queues has a live Run.
LEMMA AdmitStep ==
  ASSUME IInv, Admit
  PROVE  Left /\ Recorded
<1> DEFINE m == Head(lane).msg
           fresh == [sched EXCEPT !.tracked = @ \cup {m}, !.failed = @ \ {m}]
           live == IF run.phase = "live" THEN run
                   ELSE [run EXCEPT !.phase = "live", !.seq = @ + 1]
           queued == [Enqueued(fresh, m) EXCEPT !.retained = TRUE]
<1>1. lane # <<>> /\ m \in Delivery /\ lane' = Rest
  BY AdmittedMessage DEF Admit
<1>2. /\ sched \in Sched /\ run \in Run /\ Consistent(sched)
      /\ sched.tracked \in SUBSET Delivery /\ sched.failed \in SUBSET Delivery
  BY InvariantIsBase DEF IInv, Sched
<1>3. CASE Suppressed(sched, m)
  <2> DEFINE t == [sched EXCEPT !.tracked = sched.tracked \ {m}, !.failed = sched.failed \ {m}]
  <2>1. sched' = t /\ run' = run /\ busy' = busy
    <3>1. sched' = [sched EXCEPT !.tracked = @ \ {m}, !.failed = @ \ {m}] /\ UNCHANGED <<run, busy>>
      BY <1>3 DEF Admit
    <3>2. t = [sched EXCEPT !.tracked = @ \ {m}, !.failed = @ \ {m}]
      BY <1>2 DEF Sched
    <3> QED BY <3>1, <3>2
  <2>2. Quiet(sched, t)
    BY <1>2, ProgressQuiet
  <2> HIDE DEF t
  <2>3. lane' \in Seq(Task)
    BY <1>1, HeadType DEF Rest
  <2> QED BY <2>1, <2>2, <2>3, QuietStep, ClosureRecorded DEF Admit, IInv, TypeOK
<1>4. CASE ~Suppressed(sched, m)
  <2>1. Becomes(Drained(queued, live), live)
    BY <1>4 DEF Admit
  <2>2. live \in Run /\ live.phase = "live"
    <3>1. run \in Run
      BY <1>2
    <3>2. CASE run.phase = "live"
      BY <3>1, <3>2
    <3>3. CASE run.phase # "live"
      <4>1. live = [run EXCEPT !.phase = "live", !.seq = run.seq + 1]
        BY <3>1, <3>3 DEF Run
      <4>2. run.seq + 1 \in Nat
        BY <3>1 DEF Run
      <4> HIDE DEF live
      <4> QED BY <3>1, <4>1, <4>2 DEF Run
    <3> QED BY <3>2, <3>3
  <2>3. fresh = [sched EXCEPT !.tracked = sched.tracked \cup {m}, !.failed = sched.failed \ {m}]
    BY <1>2 DEF Sched
  <2> HIDE DEF m, live, fresh
  <2>4. sched.tracked \cup {m} \in SUBSET Delivery /\ sched.failed \ {m} \in SUBSET Delivery
    BY <1>1, <1>2
  <2>5. fresh \in Sched /\ fresh.slot = sched.slot /\ fresh.batch = sched.batch
    <3> DEFINE T == sched.tracked \cup {m}
               F == sched.failed \ {m}
    <3>1. T \in SUBSET Delivery /\ F \in SUBSET Delivery /\ sched \in Sched
      BY <1>2, <2>4
    <3>2. fresh = [sched EXCEPT !.tracked = T, !.failed = F]
      BY <2>3
    <3> HIDE DEF T, F
    <3> QED BY ZenonT(60), <3>1, <3>2, ProgressQuiet
  <2>6. /\ Enqueued(fresh, m) \in Sched /\ Enqueued(fresh, m).slot = sched.slot
        /\ Enqueued(fresh, m).batch = sched.batch
    BY <1>1, <2>5, EnqueuedType
  <2>7. /\ queued \in Sched /\ queued.slot = sched.slot /\ queued.batch = sched.batch
        /\ queued.retained
    BY <2>6 DEF Sched
  <2> HIDE DEF queued
  <2>8. Base(queued, live)
    BY <1>2, <2>2, <2>7 DEF Base, Sound, Consistent
  <2>9. Left
    BY <1>1, <2>1, <2>8, DrainStep
  <2> QED BY <2>9, ClosureRecorded DEF Admit
<1> QED BY <1>3, <1>4

\* A Resume is admitted only to a Run that is held, which is live.
LEMMA AdmitResumeStep ==
  ASSUME IInv, AdmitResume
  PROVE  Left /\ Recorded
<1> DEFINE t == [sched EXCEPT !.reserved = Head(lane).msg, !.reservedHold = run.hold,
                              !.retained = TRUE]
<1>1. lane # <<>> /\ Head(lane).kind = "resume"
  BY DEF AdmitResume, Head1
<1>2. Head(lane).msg \in Resume
  BY <1>1, HeadType DEF Task
<1>3. sched \in Sched /\ run \in Run /\ Consistent(sched)
  BY InvariantIsBase DEF IInv
<1>4. CASE run.stop = "none" \/ sched.reserved # None \/ sched.slot["resume"] # 0
  BY <1>1, <1>4, SkipIsSound, ClosureRecorded DEF AdmitResume
<1>5. CASE ~(run.stop = "none" \/ sched.reserved # None \/ sched.slot["resume"] # 0)
  <2>1. Becomes(Drained(t, run), run) /\ lane' = Rest
    BY <1>5 DEF AdmitResume
  <2>2. run.phase = "live"
    BY <1>3, <1>5 DEF IInv, Run
  <2>3. /\ t \in Sched /\ t.slot = sched.slot /\ t.batch = sched.batch /\ t.retained
    BY <1>2, <1>3 DEF Sched, Run
  <2> HIDE DEF t
  <2>4. Base(t, run)
    BY <1>3, <2>2, <2>3 DEF Base, Sound, Consistent
  <2>5. Left
    BY <1>1, <2>1, <2>4, DrainStep
  <2> QED BY <2>5, ClosureRecorded DEF AdmitResume
<1> QED BY <1>4, <1>5

\* A settlement is a task.
LEMMA SettledType ==
  ASSUME NEW r \in Run, NEW v \in Verdict
  PROVE  Settled(r.seq, v) \in Task
BY DEF Settled, NewTask, Task, TaskKind, NoIds, Run, Verdict

\* A committed Resume gives up its reservation; its Run stays live.
LEMMA CommitResumeStep ==
  ASSUME IInv, CommitResume
  PROVE  Left /\ Recorded
<1>1. sched \in Sched /\ run \in Run /\ lane \in Seq(Task) /\ run.phase = "live"
  BY InvariantIsBase DEF IInv, Live, CommitResume
<1>2. Quiet(sched, sched')
  <2> DEFINE after == [sched.afterCommit EXCEPT ![sched.reserved] = @ + 1]
             t == [sched EXCEPT !.reserved = None, !.afterCommit = after]
  <2>1. sched' = t
    <3>1. sched' = [sched EXCEPT !.reserved = None, !.afterCommit[sched.reserved] = @ + 1]
      BY DEF CommitResume
    <3>2. t = [sched EXCEPT !.reserved = None, !.afterCommit[sched.reserved] = @ + 1]
      OBVIOUS
    <3> QED BY <3>1, <3>2
  <2>2. after \in [Delivery -> Nat]
    <3>1. sched.afterCommit \in [Delivery -> Nat]
      BY <1>1 DEF Sched
    <3>2. after = [m \in Delivery |-> IF m = sched.reserved THEN sched.afterCommit[m] + 1
                                     ELSE sched.afterCommit[m]]
      BY <3>1
    <3>3. \A m \in Delivery : sched.afterCommit[m] \in Nat /\ sched.afterCommit[m] + 1 \in Nat
      BY <3>1
    <3> HIDE DEF after
    <3> QED BY <3>2, <3>3
  <2> HIDE DEF after
  <2>3. /\ t \in Sched /\ t.pending = sched.pending /\ t.slot = sched.slot
        /\ t.batch = sched.batch /\ t.retained = sched.retained /\ t.reserved = None
    BY <1>1, <2>2 DEF Sched
  <2> HIDE DEF t
  <2> QED BY <1>1, <2>1, <2>3, PendingScheduling DEF Quiet, Consistent
<1>3. run' \in Run /\ run'.phase = "live"
  <2> DEFINE kept == run.stop = "suspension" /\ run.ended = "aborted"
             again == run.ended = "error"
             i == IF kept THEN "none" ELSE "committed"
             st == IF kept THEN run.stop
                   ELSE IF again /\ run.work # "unavailable" /\ ~run.failed
                        THEN "suspension" ELSE "none"
             h == IF ~kept /\ again THEN run.holds + 1 ELSE run.hold
             n == IF ~kept /\ again THEN run.holds + 1 ELSE run.holds
             f == (run.failed \/ (~kept /\ again /\ run.work = "unavailable"))
  <2>1. run' = [run EXCEPT !.isolated = i, !.stop = st, !.hold = h, !.holds = n, !.failed = f,
                           !.ended = "none", !.settledEarly = FALSE]
    BY DEF CommitResume
  <2>2. /\ i \in {"none", "committed"} /\ st \in {"none", "interruption", "suspension"}
        /\ h \in Nat /\ n \in Nat /\ f \in BOOLEAN
    BY <1>1 DEF Run
  <2> HIDE DEF i, st, h, n, f
  <2> QED BY ZenonT(60), <1>1, <2>1, <2>2 DEF Run
<1>4. lane' \in Seq(Task)
  <2> DEFINE v == IF run'.failed THEN "failed" ELSE "settled"
  <2>1. lane' = lane \/ lane' = Append(lane, Settled(run.seq, v))
    BY DEF CommitResume
  <2>2. Settled(run.seq, v) \in Task
    BY <1>1, SettledType DEF Verdict
  <2> HIDE DEF Task, v
  <2> QED BY <1>1, <2>1, <2>2
<1>5. Left
  BY <1>1, <1>2, <1>3, <1>4, QuietStep DEF CommitResume
<1> QED BY <1>5, ClosureRecorded DEF CommitResume

\* A failed Resume gives up its reservation, and the Run when nothing else is left.
LEMMA FailResumeStep ==
  ASSUME IInv, FailResume
  PROVE  Left /\ Recorded
<1>1. sched \in Sched /\ run \in Run /\ lane \in Seq(Task) /\ run.phase = "live"
  BY InvariantIsBase DEF IInv, Live, FailResume
<1> DEFINE freed == [sched EXCEPT !.slot["resume"] = 0]
           t == [freed EXCEPT !.reserved = None]
<1>2. "resume" \in Slot
  BY DEF Slot
<1>3. Quiet(sched, freed)
  BY <1>1, <1>2, SlotFreedQuiet
<1>4. sched' = DropReason(t)
  BY <1>1 DEF FailResume, Sched
<1> HIDE DEF freed
<1>5. freed \in Sched
  BY <1>3 DEF Quiet
<1>6. /\ t \in Sched /\ t.pending = freed.pending /\ t.slot = freed.slot
      /\ t.batch = freed.batch /\ t.retained = freed.retained /\ t.reserved = None
  BY <1>5 DEF Sched
<1> HIDE DEF t
<1>7. Quiet(freed, t)
  BY <1>5, <1>6, PendingScheduling DEF Quiet, Consistent
<1>8. Quiet(sched, sched')
  BY <1>1, <1>3, <1>4, <1>5, <1>6, <1>7, DropReasonQuiet, QuietTransitive
<1>9. run' \in Run /\ run'.phase = "live"
  BY <1>1 DEF FailResume, Run
<1>10. Left
  BY <1>1, <1>8, <1>9, QuietStep DEF FailResume
<1> QED BY <1>10, ClosureRecorded DEF FailResume
\* An interruption of a live Run takes the lane.
LEMMA InterruptStep ==
  ASSUME IInv, Interrupt
  PROVE  Left /\ Recorded
<1>1. sched \in Sched /\ run \in Run /\ lane # <<>> /\ busy = "free"
  BY InvariantIsBase DEF Interrupt, Head1
<1>2. Quiet(sched, sched')
  <2>1. "frozen" \in Slot
    BY DEF Slot
  <2> QED BY <1>1, <2>1, SlotFreedQuiet DEF Interrupt
<1>3. Tail(lane) \in Seq(Task) /\ Abandoned(Tail(lane)) \in Seq(Task)
  BY <1>1, HeadType, AbandonedType
<1>4. CASE run.phase = "dormant" \/ run.failed \/ run.stop # "none"
  <2>1. lane' = Tail(lane) /\ run' = run /\ busy' = busy
    BY <1>4 DEF Interrupt, Rest
  <2> QED BY <1>1, <1>2, <1>3, <2>1, QuietStep, ClosureRecorded DEF Interrupt, IInv
<1>5. CASE ~(run.phase = "dormant" \/ run.failed \/ run.stop # "none")
  <2> DEFINE clear == [run EXCEPT !.isolated = "none"]
  <2>1. run' = Released(clear) /\ busy' = "interrupt" /\ lane' = Abandoned(Tail(lane))
    BY <1>5 DEF Interrupt, Rest
  <2>2. clear \in Run /\ clear.phase = run.phase /\ run.phase = "live"
    BY <1>1, <1>5 DEF Run
  <2> HIDE DEF clear
  <2>3. run' \in Run /\ run'.phase = "live"
    BY <2>1, <2>2, ReleasedType
  <2>4. Left
    BY <1>2, <1>3, <2>1, <2>2, <2>3, QuietStep DEF Live
  <2> QED BY <2>4, ClosureRecorded DEF Interrupt
<1> QED BY <1>4, <1>5

\* The interrupted Run is held.
LEMMA FinishInterruptStep ==
  ASSUME IInv, FinishInterrupt
  PROVE  Left /\ Recorded
<1>1. sched \in Sched /\ run \in Run /\ lane \in Seq(Task) /\ run.phase = "live"
  BY InvariantIsBase DEF IInv, Live, FinishInterrupt
<1>2. run' \in Run /\ run'.phase = "live"
  <2>1. run.holds + 1 \in Nat
    BY <1>1 DEF Run
  <2>2. run' = run \/ run' = [run EXCEPT !.stop = "interruption", !.hold = run.holds + 1,
                                         !.holds = run.holds + 1]
    BY DEF FinishInterrupt
  <2> QED BY ZenonT(60), <1>1, <2>1, <2>2 DEF Run
<1>3. Left
  BY <1>1, <1>2, Idle, QuietStep DEF FinishInterrupt
<1> QED BY <1>3, ClosureRecorded DEF FinishInterrupt

\* An abort ends a live Run.
LEMMA AbortStep ==
  ASSUME IInv, Abort
  PROVE  Left /\ Recorded
<1>1. lane # <<>>
  BY DEF Abort, Head1
<1>2. CASE run.phase = "dormant"
  BY <1>1, <1>2, SkipIsSound, ClosureRecorded DEF Abort
<1>3. CASE run.phase # "dormant"
  <2>1. Base(sched, run) /\ run.phase = "live"
    BY <1>3, InvariantIsBase DEF Run
  <2>2. EndRun(sched, run, Tail(lane))
    BY <1>3 DEF Abort, Rest
  <2>3. Left
    BY <1>1, <2>1, <2>2, HeadType, EndIsSound
  <2> QED BY <2>3, ClosureRecorded DEF Abort
<1> QED BY <1>2, <1>3

\* A dormant Run has no stop.
LEMMA DormantType ==
  ASSUME IInv
  PROVE  DormantRun \in Run /\ DormantRun.phase = "dormant" /\ DormantRun.stop = "none"
BY InvariantIsBase DEF DormantRun, Run

\* Open dispatches are batches.
LEMMA IncompleteType ==
  ASSUME IInv
  PROVE  Incomplete \in SUBSET (1..Len(sched.batch)) /\ Uncommitted \in SUBSET (1..Len(sched.batch))
BY InvariantIsBase DEF Incomplete, Uncommitted, Sched

\* A Run becomes dormant only when nothing is scheduled.
LEMMA DormantIsSound ==
  ASSUME IInv, Quiet(sched, sched'), ~HasPendingScheduling(sched), run' = DormantRun,
         lane' \in Seq(Task), busy' = "free"
  PROVE  Left
<1>1. Base(sched, run) /\ sched \in Sched
  BY InvariantIsBase
<1>2. /\ sched' \in Sched /\ Consistent(sched') /\ Len(sched'.batch) = Len(sched.batch)
      /\ ~HasPendingScheduling(sched')
  BY <1>1 DEF Quiet, Base, Sound
<1>3. Base(sched', run')
  BY <1>2, DormantType DEF Base, Sound
<1> QED BY <1>3, BaseIsSafe DEF Left

\* An ended Run had nothing scheduled any more.
LEMMA FinishEndStep ==
  ASSUME IInv, FinishEnd
  PROVE  Left /\ Recorded
<1> DEFINE t == Failed(sched, Delivery)
<1>1. sched \in Sched /\ lane' \in Seq(Task) /\ ~HasPendingScheduling(sched)
  BY InvariantIsBase DEF FinishEnd, IInv
<1>2. sched' = Rejects(t, Incomplete, "dropped") /\ run' = DormantRun /\ busy' = "free"
  BY DEF FinishEnd
<1>3. Quiet(sched, t) /\ t.batch = sched.batch
  BY <1>1, FailedQuiet
<1> HIDE DEF t
<1>4. t \in Sched /\ Incomplete \in SUBSET (1..Len(t.batch))
  BY <1>3, IncompleteType DEF Quiet
<1>5. Quiet(t, sched')
  BY <1>2, <1>4, RejectsQuiet
<1>6. Quiet(sched, sched')
  BY <1>1, <1>3, <1>5, QuietTransitive
<1>7. Left
  BY <1>1, <1>2, <1>6, DormantIsSound
<1> QED BY <1>7, ClosureRecorded DEF FinishEnd

\* A release finds nothing scheduled, since scheduled work retains its Run.
LEMMA EvaluateReleaseStep ==
  ASSUME IInv, EvaluateRelease
  PROVE  Left /\ Recorded
<1>1. lane # <<>> /\ busy' = "free" /\ lane' = Tail(lane) /\ busy = "free"
  BY DEF EvaluateRelease, Head1, Rest
<1>2. lane' \in Seq(Task)
  BY <1>1, HeadType
<1>3. CASE IsCurrent(run, Head(lane).run) /\ run.work = "settled" /\ ~Retained
  <2>1. run' = DormantRun /\ sched' = Rejects(sched, Incomplete, "dropped")
    BY <1>3 DEF EvaluateRelease
  <2>2. ~HasPendingScheduling(sched)
    BY <1>3 DEF IInv, ScheduledWorkRetainsItsRun, Retained
  <2>3. Quiet(sched, sched')
    BY <2>1, InvariantIsBase, IncompleteType, RejectsQuiet
  <2>4. Left
    BY <1>1, <1>2, <2>1, <2>2, <2>3, DormantIsSound
  <2> QED BY <2>4, ClosureRecorded DEF EvaluateRelease
<1>4. CASE ~(IsCurrent(run, Head(lane).run) /\ run.work = "settled" /\ ~Retained)
  <2>1. UNCHANGED <<run, sched>>
    BY <1>4 DEF EvaluateRelease
  <2>2. Left
    BY <1>1, <1>2, <2>1, LaneGrows
  <2> QED BY <2>2, ClosureRecorded DEF EvaluateRelease
<1> QED BY <1>3, <1>4

\* A settlement is reconciled at once or joined.
LEMMA SettledInLaneStep ==
  ASSUME IInv, SettledInLane
  PROVE  Left /\ Recorded
<1> DEFINE t == Head(lane)
<1>1. lane # <<>> /\ t \in Task /\ Rest \in Seq(Task) /\ UNCHANGED <<transcript, spent>>
  BY HeadType DEF SettledInLane, Head1, Rest
<1>2. CASE ~IsCurrent(run, t.run)
  BY <1>1, <1>2, SkipIsSound, ClosureRecorded DEF SettledInLane
<1>3. CASE IsCurrent(run, t.run) /\ sched.slot = NoIds
  <2>1. FinishSettled(sched, run, t.verdict, Rest) /\ UNCHANGED joins
    BY <1>3 DEF SettledInLane
  <2>2. Base(sched, run) /\ run.phase = "live" /\ withdrawn \in SUBSET Request
    BY <1>3, InvariantIsBase DEF IsCurrent
  <2>3. Left
    BY <1>1, <2>1, <2>2, FinishSettledIsSound
  <2> QED BY <1>1, <2>1, <2>3, ClosureRecorded
<1>4. CASE IsCurrent(run, t.run) /\ sched.slot # NoIds
  <2>1. /\ joins' = joins \cup {[run |-> t.run, verdict |-> t.verdict, ids |-> sched.slot]}
        /\ lane' = Rest /\ UNCHANGED <<sched, run, busy>>
    BY <1>4 DEF SettledInLane
  <2>2. [run |-> t.run, verdict |-> t.verdict, ids |-> sched.slot] \in Join
    BY <1>1, InvariantIsBase DEF Task, Join, Sched
  <2>3. joins' \in SUBSET Join
    BY <2>1, <2>2 DEF IInv, TypeOK
  <2>4. Left
    BY <1>1, <2>1, LaneGrows
  <2> QED BY <1>1, <2>3, <2>4, TranscriptKept DEF IInv, TypeOK
<1> QED BY <1>2, <1>3, <1>4

\* A joined settlement is reconciled, fenced or dropped.
LEMMA ReconcileInLaneStep ==
  ASSUME IInv, ReconcileInLane
  PROVE  Left /\ Recorded
<1> DEFINE t == Head(lane)
<1>1. lane # <<>> /\ Rest \in Seq(Task)
  BY HeadType DEF ReconcileInLane, Head1, Rest
<1>2. \/ Skip
      \/ IsCurrent(run, t.run) /\ FinishSettled(sched, run, t.verdict, Rest)
      \/ IsCurrent(run, t.run) /\ EndRun(sched, run, Rest)
  BY DEF ReconcileInLane
<1>3. Base(sched, run) /\ withdrawn \in SUBSET Request
  BY InvariantIsBase
<1>4. IsCurrent(run, t.run) => run.phase = "live"
  BY DEF IsCurrent
<1>5. Left
  <2> HIDE DEF t
  <2> QED BY <1>1, <1>2, <1>3, <1>4, SkipIsSound, FinishSettledIsSound, EndIsSound
<1> QED BY <1>5, ClosureRecorded DEF ReconcileInLane

\* A rejection is reconciled or dropped.
LEMMA RejectedInLaneStep ==
  ASSUME IInv, RejectedInLane
  PROVE  Left /\ Recorded
<1> DEFINE t == Head(lane)
<1>1. lane # <<>> /\ Rest \in Seq(Task)
  BY HeadType DEF RejectedInLane, Head1, Rest
<1>2. \/ Skip
      \/ IsCurrent(run, t.run) /\ FinishSettled(sched, run, "failed", Rest)
  BY DEF RejectedInLane
<1>3. Base(sched, run) /\ withdrawn \in SUBSET Request
  BY InvariantIsBase
<1>4. IsCurrent(run, t.run) => run.phase = "live"
  BY DEF IsCurrent
<1>5. Left
  <2> HIDE DEF t
  <2> QED BY <1>1, <1>2, <1>3, <1>4, SkipIsSound, FinishSettledIsSound
<1> QED BY <1>5, ClosureRecorded DEF RejectedInLane

\* A reconciliation goes on after its await.
LEMMA FinishAwaitStep ==
  ASSUME IInv, FinishAwait
  PROVE  Left /\ Recorded
<1>1. Base(sched, run) /\ withdrawn \in SUBSET Request /\ lane \in Seq(Task) /\ run.phase = "live"
  BY InvariantIsBase DEF IInv, Live, FinishAwait
<1>2. Left
  BY <1>1, ReconciledIsSound DEF FinishAwait
<1> QED BY <1>2, ClosureRecorded DEF FinishAwait

\* A safe boundary freezes Steer input for a Run that no stop blocks.
LEMMA BoundaryInLaneStep ==
  ASSUME IInv, BoundaryInLane
  PROVE  Left /\ Recorded
<1> DEFINE s == RemoveProven(sched)
<1>1. /\ lane # <<>> /\ busy' = "free" /\ lane' = Tail(lane) /\ run' = Released(run)
      /\ sched' = IF Blocks(run) THEN s
                  ELSE IF run.work = "unavailable" THEN Failed(s, EligibleSteer(s, run))
                  ELSE Frozen(s, run)
  BY DEF BoundaryInLane, Head1, Rest
<1>2. Base(sched, run) /\ withdrawn \in SUBSET Request /\ sched \in Sched /\ run \in Run
  BY InvariantIsBase
<1>3. Quiet(sched, s) /\ Clean(s)
  BY <1>2, RemoveProvenQuiet DEF Base, Sound
<1> HIDE DEF s
<1>4. s \in Sched /\ Consistent(s)
  BY <1>2, <1>3 DEF Quiet, Base, Sound
<1>5. SameRun(run, run') /\ (~Blocks(run) => ~Blocks(run'))
  <2>1. run' \in Run /\ run'.phase = run.phase /\ run'.stop = run.stop
    BY <1>1, <1>2, ReleasedType
  <2>2. run'.isolated = run.isolated
    BY <1>1, <1>2 DEF Released, Run
  <2> QED BY <2>1, <2>2 DEF SameRun, Blocks
<1>6. Advances(s, sched', run')
  <2>1. CASE Blocks(run)
    BY <1>1, <1>4, <2>1 DEF Advances, Quiet
  <2>2. CASE ~Blocks(run) /\ run.work = "unavailable"
    <3>1. EligibleSteer(s, run) \in SUBSET Delivery
      BY <1>4, EligibleAreQueued DEF Sched
    <3> QED BY <1>1, <1>4, <2>2, <3>1, FailedQuiet DEF Advances
  <2>3. CASE ~Blocks(run) /\ run.work # "unavailable"
    BY <1>1, <1>2, <1>3, <1>4, <1>5, <2>3, FrozenAdvances
  <2> QED BY <2>1, <2>2, <2>3
<1>7. Advances(sched, sched', run')
  BY <1>2, <1>3, <1>6, QuietThenAdvances
<1>8. Sound(sched', run') /\ SafeDispatch(sched', run')
  BY <1>2, <1>5, <1>7, AdvanceIsSound
<1>9. Left
  BY <1>1, <1>8, HeadType DEF Left
<1> QED BY <1>9, ClosureRecorded DEF BoundaryInLane

\* A requested drain.
LEMMA DrainInLaneStep ==
  ASSUME IInv, DrainInLane
  PROVE  Left /\ Recorded
<1>1. Left
  BY DrainStep, InvariantIsBase DEF DrainInLane, Head1
<1> QED BY <1>1, ClosureRecorded DEF DrainInLane

\* An abandoned boundary returns.
LEMMA ReturnAbandonedStep ==
  ASSUME IInv, ReturnAbandoned
  PROVE  Left /\ Recorded
BY SkipIsSound, ClosureRecorded DEF ReturnAbandoned, Head1
-----------------------------------------------------------------------------
(* The native Runtime. *)

\* The place of a batch is no scheduling.
LEMMA PlaceQuiet ==
  ASSUME NEW s \in Sched, NEW b \in DOMAIN s.batch,
         NEW x \in {"submitted", "queued", "committed", "dropped", "cancelled"}
  PROVE  Quiet(s, [s EXCEPT !.batch[b].place = x])
<1> DEFINE q == [s.batch EXCEPT ![b] = [s.batch[b] EXCEPT !.place = x]]
<1>1. /\ s.batch \in Seq(Batch) /\ DOMAIN s.batch = 1..Len(s.batch)
      /\ \A c \in 1..Len(s.batch) : s.batch[c] \in Batch
  BY DEF Sched
<1>2. /\ [s.batch[b] EXCEPT !.place = x] \in Batch
      /\ [s.batch[b] EXCEPT !.place = x].msgs = s.batch[b].msgs
      /\ [s.batch[b] EXCEPT !.place = x].committed = s.batch[b].committed
  BY <1>1 DEF Batch
<1>3. /\ q \in Seq(Batch) /\ Len(q) = Len(s.batch)
      /\ \A c \in 1..Len(q) : q[c].msgs = s.batch[c].msgs /\ q[c].committed = s.batch[c].committed
  BY <1>1, <1>2
<1>4. [s EXCEPT !.batch[b].place = x] = [s EXCEPT !.batch = q]
  OBVIOUS
<1> HIDE DEF q
<1> QED BY <1>3, <1>4, BatchesQuiet

\* Nor is its completion.
LEMMA CompletionQuiet ==
  ASSUME NEW s \in Sched, NEW b \in DOMAIN s.batch
  PROVE  Quiet(s, [s EXCEPT !.batch[b].comp = "done"])
<1> DEFINE q == [s.batch EXCEPT ![b] = [s.batch[b] EXCEPT !.comp = "done"]]
<1>1. /\ s.batch \in Seq(Batch) /\ DOMAIN s.batch = 1..Len(s.batch)
      /\ \A c \in 1..Len(s.batch) : s.batch[c] \in Batch
  BY DEF Sched
<1>2. /\ [s.batch[b] EXCEPT !.comp = "done"] \in Batch
      /\ [s.batch[b] EXCEPT !.comp = "done"].msgs = s.batch[b].msgs
      /\ [s.batch[b] EXCEPT !.comp = "done"].committed = s.batch[b].committed
  BY <1>1 DEF Batch
<1>3. /\ q \in Seq(Batch) /\ Len(q) = Len(s.batch)
      /\ \A c \in 1..Len(q) : q[c].msgs = s.batch[c].msgs /\ q[c].committed = s.batch[c].committed
  BY <1>1, <1>2
<1>4. [s EXCEPT !.batch[b].comp = "done"] = [s EXCEPT !.batch = q]
  OBVIOUS
<1> HIDE DEF q
<1> QED BY <1>3, <1>4, BatchesQuiet

\* A step of the Runtime does not touch the lane's closure.
LEMMA NativeStep ==
  ASSUME IInv, Quiet(sched, sched'), run' \in Run, run'.phase = run.phase,
         run'.phase = "dormant" => run'.stop = "none", lane' \in Seq(Task), UNCHANGED busy
  PROVE  Left
BY QuietStep DEF IInv, TypeOK

\* A commit adds proof and takes none away.
LEMMA CommitsStep ==
  ASSUME IInv, NEW b \in DOMAIN sched.batch, Commits(b),
         UNCHANGED <<retrieved, withdrawn, answered, joins, spent>>
  PROVE  Quiet(sched, sched') /\ Recorded
<1>1. Quiet(sched, sched')
  BY PlaceQuiet, InvariantIsBase DEF Commits
<1>2. copies \in [Delivery -> Nat]
  BY DEF IInv, TypeOK
<1>3. copies' \in [Delivery -> Nat] /\ \A m \in Delivery : copies[m] > 0 => copies'[m] > 0
  <2>1. copies' = [m \in Delivery |-> copies[m] + IF m \in sched.batch[b].msgs THEN 1 ELSE 0]
    BY DEF Commits
  <2>2. \A m \in Delivery : /\ copies'[m] \in Nat
                            /\ copies[m] > 0 => copies'[m] > 0
    BY <1>2, <2>1
  <2> QED BY <2>1, <2>2
<1>4. Recorded
  BY <1>3 DEF IInv, TypeOK, Recorded, Proven
<1> QED BY <1>1, <1>4

\* A turn starts and commits its prompt.
LEMMA StartTurnStep ==
  ASSUME IInv, NEW b \in DOMAIN sched.batch, StartTurn(b)
  PROVE  Left /\ Recorded
<1>1. Quiet(sched, sched') /\ Recorded
  BY CommitsStep DEF StartTurn
<1>2. run' \in Run /\ run'.phase = run.phase /\ run.phase = "live"
  BY InvariantIsBase DEF StartTurn, Live, Run, TurnPhase
<1> QED BY <1>1, <1>2, NativeStep, InvariantIsBase DEF StartTurn

\* A turn commits what it takes from the queue.
LEMMA TakeInputStep ==
  ASSUME IInv, NEW b \in DOMAIN sched.batch, TakeInput(b)
  PROVE  Left /\ Recorded
<1>1. Quiet(sched, sched') /\ Recorded
  BY CommitsStep DEF TakeInput
<1>2. run' \in Run /\ run'.phase = run.phase /\ run.phase = "live"
  BY InvariantIsBase DEF TakeInput, Live, Run, TurnPhase
<1> QED BY <1>1, <1>2, NativeStep, InvariantIsBase DEF TakeInput

\* A dispatch is queued behind a turn.
LEMMA EnterQueueStep ==
  ASSUME IInv, NEW b \in DOMAIN sched.batch, EnterQueue(b)
  PROVE  Left /\ Recorded
<1>1. Quiet(sched, sched')
  BY PlaceQuiet, InvariantIsBase DEF EnterQueue
<1> QED BY <1>1, NativeStep, ClosureRecorded, InvariantIsBase DEF EnterQueue, IInv

\* A completion resolves.
LEMMA CompletionResolvesStep ==
  ASSUME IInv, NEW b \in DOMAIN sched.batch, CompletionResolves(b)
  PROVE  Left /\ Recorded
<1>1. Quiet(sched, sched')
  BY CompletionQuiet, InvariantIsBase DEF CompletionResolves
<1> QED BY <1>1, NativeStep, ClosureRecorded, InvariantIsBase DEF CompletionResolves, IInv

\* A rejection is a task.
LEMMA RejectedType ==
  ASSUME IInv, NEW b \in DOMAIN sched.batch
  PROVE  Rejected(b, sched.batch[b].run) \in Task
<1>1. DOMAIN sched.batch = 1..Len(sched.batch) /\ sched.batch[b] \in Batch
  BY InvariantIsBase DEF Sched
<1>2. b \in Nat /\ sched.batch[b].run \in Nat
  BY <1>1 DEF Batch
<1> QED BY <1>2 DEF Rejected, NewTask, Task, TaskKind, Verdict, NoIds

\* The Runtime gives up one dispatch.
LEMMA OneRejected ==
  ASSUME IInv, NEW b \in Uncommitted, NEW place \in {"dropped", "cancelled"},
         sched' = Rejects(sched, {b}, place),
         lane' = Append(lane, Rejected(b, sched.batch[b].run)),
         UNCHANGED <<run, busy>>
  PROVE  Left
<1>1. b \in DOMAIN sched.batch /\ {b} \in SUBSET (1..Len(sched.batch))
  BY IncompleteType DEF Uncommitted, Incomplete
<1>2. Quiet(sched, sched')
  BY <1>1, RejectsQuiet, InvariantIsBase
<1>3. Rejected(b, sched.batch[b].run) \in Task
  BY <1>1, RejectedType
<1>4. lane' \in Seq(Task)
  <2> HIDE DEF Task
  <2> QED BY <1>3, InvariantIsBase
<1> QED BY <1>2, <1>4, NativeStep, InvariantIsBase DEF IInv

\* A stop cancels a dispatch.
LEMMA CancelDeliveryStep ==
  ASSUME IInv, NEW b \in DOMAIN sched.batch, CancelDelivery(b)
  PROVE  Left /\ Recorded
BY OneRejected, ClosureRecorded DEF CancelDelivery

\* Preparation rejects a dispatch.
LEMMA RejectDeliveryStep ==
  ASSUME IInv, NEW b \in DOMAIN sched.batch, RejectDelivery(b)
  PROVE  Left /\ Recorded
BY OneRejected, ClosureRecorded DEF RejectDelivery

\* The steps of a turn.
LEMMA ContinueTurnStep ==
  ASSUME IInv, ContinueTurn
  PROVE  Left /\ Recorded
<1>1. run' \in Run /\ run'.phase = run.phase /\ run.phase = "live"
  BY InvariantIsBase DEF ContinueTurn, Live, Run, TurnPhase
<1> QED BY <1>1, Idle, NativeStep, ClosureRecorded, InvariantIsBase DEF ContinueTurn

\* A turn reaches its safe boundary.
LEMMA ReachBoundaryStep ==
  ASSUME IInv, ReachBoundary
  PROVE  Left /\ Recorded
<1>1. run' \in Run /\ run'.phase = run.phase /\ run.phase = "live"
  BY InvariantIsBase DEF ReachBoundary, Live, Run, TurnPhase
<1>2. NewTask("boundary") \in Task
  BY DEF NewTask, Task, TaskKind, Verdict, NoIds
<1>3. lane' \in Seq(Task)
  <2> HIDE DEF Task
  <2> QED BY <1>2, InvariantIsBase DEF ReachBoundary
<1> QED BY <1>1, <1>3, Idle, NativeStep, ClosureRecorded DEF ReachBoundary

\* A turn waits.
LEMMA BeginWaitStep ==
  ASSUME IInv, BeginWait
  PROVE  Left /\ Recorded
<1>1. run' \in Run /\ run'.phase = run.phase /\ run.phase = "live"
  BY InvariantIsBase DEF BeginWait, Live, Run
<1>2. NewTask("drain") \in Task
  BY DEF NewTask, Task, TaskKind, Verdict, NoIds
<1>3. lane' \in Seq(Task)
  <2> HIDE DEF Task
  <2> QED BY <1>2, InvariantIsBase DEF BeginWait
<1> QED BY <1>1, <1>3, Idle, NativeStep, ClosureRecorded DEF BeginWait

\* A Wait ends.
LEMMA CompleteWaitStep ==
  ASSUME IInv, CompleteWait
  PROVE  Left /\ Recorded
<1>1. run' \in Run /\ run'.phase = run.phase /\ run'.stop = run.stop
  BY InvariantIsBase DEF CompleteWait, Run
<1> QED BY <1>1, Idle, NativeStep, ClosureRecorded, InvariantIsBase DEF CompleteWait, IInv

\* An Answer is retrieved, which is proof.
LEMMA RetrieveAnswerStep ==
  ASSUME IInv, NEW m \in Answer, RetrieveAnswer(m)
  PROVE  Left /\ Recorded
<1>1. Left
  BY LaneGrows, InvariantIsBase DEF RetrieveAnswer
<1>2. m \in Message
  BY KindAssumption
<1>3. Recorded
  BY <1>2 DEF RetrieveAnswer, IInv, TypeOK, Recorded, Proven
<1> QED BY <1>1, <1>3

\* A Request is answered.
LEMMA AnswerRequestStep ==
  ASSUME IInv, NEW q \in Request, AnswerRequest(q)
  PROVE  Left /\ Recorded
<1>1. Left
  BY LaneGrows, InvariantIsBase DEF AnswerRequest
<1>2. Recorded
  BY DEF AnswerRequest, IInv, TypeOK, Recorded, Proven
<1> QED BY <1>1, <1>2

\* The end of a turn, recorded or reported.
LEMMA RunSettlesType ==
  ASSUME IInv, Live, NEW outcome \in {"completed", "error", "aborted"}, RunSettles(outcome)
  PROVE  run' \in Run /\ run'.phase = "live" /\ lane' \in Seq(Task)
<1>1. run \in Run /\ run.phase = "live" /\ lane \in Seq(Task)
  BY InvariantIsBase DEF Live
<1> DEFINE over == [run EXCEPT !.work = "settled", !.wait = FALSE]
           v == IF run.failed THEN "failed" ELSE "settled"
<1>2. over \in Run /\ over.phase = "live"
  BY <1>1 DEF Run
<1>3. \/ run' = over
      \/ run' = [over EXCEPT !.ended = outcome, !.settledEarly = TRUE]
      \/ run' = [over EXCEPT !.stop = "suspension", !.hold = run.holds + 1, !.holds = @ + 1]
  BY DEF RunSettles
<1>4. run.holds + 1 \in Nat /\ over.holds = run.holds
  BY <1>1 DEF Run
<1>5. run' \in Run /\ run'.phase = "live"
  <2> DEFINE n == run.holds + 1
  <2>1. n \in Nat /\ n = over.holds + 1
    BY <1>4
  <2> HIDE DEF over
  <2>2. CASE run' = over
    BY <1>2, <2>2
  <2>3. CASE run' = [over EXCEPT !.ended = outcome, !.settledEarly = TRUE]
    BY <1>2, <2>3 DEF Run
  <2>4. CASE run' = [over EXCEPT !.stop = "suspension", !.hold = n, !.holds = @ + 1]
    <3>1. run' = [over EXCEPT !.stop = "suspension", !.hold = n, !.holds = n]
      BY <2>1, <2>4
    <3> HIDE DEF n
    <3> QED BY <1>2, <2>1, <3>1 DEF Run
  <2> QED BY <1>3, <2>2, <2>3, <2>4
<1>6. lane' \in Seq(Task)
  <2>1. Settled(run.seq, v) \in Task
    BY <1>1, SettledType DEF Verdict
  <2>2. lane' = lane \/ lane' = Append(lane, Settled(run.seq, v))
    BY DEF RunSettles
  <2> HIDE DEF Task, v
  <2> QED BY <1>1, <2>1, <2>2
<1> QED BY <1>5, <1>6

\* A turn completes.
LEMMA CompleteTurnStep ==
  ASSUME IInv, CompleteTurn
  PROVE  Left /\ Recorded
<1>1. run' \in Run /\ run'.phase = "live" /\ lane' \in Seq(Task) /\ run.phase = "live"
  BY RunSettlesType DEF CompleteTurn, Live
<1> QED BY <1>1, Idle, NativeStep, ClosureRecorded DEF CompleteTurn

\* A turn is aborted.
LEMMA AbortTurnStep ==
  ASSUME IInv, AbortTurn
  PROVE  Left /\ Recorded
<1>1. run' \in Run /\ run'.phase = "live" /\ lane' \in Seq(Task) /\ run.phase = "live"
  BY RunSettlesType DEF AbortTurn, Live
<1> QED BY <1>1, Idle, NativeStep, ClosureRecorded DEF AbortTurn

\* A replacement turn settles.
LEMMA PreparationSettlesStep ==
  ASSUME IInv, PreparationSettles
  PROVE  Left /\ Recorded
<1>1. run' \in Run /\ run'.phase = "live" /\ lane' \in Seq(Task) /\ run.phase = "live"
  BY RunSettlesType DEF PreparationSettles, Live
<1> QED BY <1>1, Idle, NativeStep, ClosureRecorded DEF PreparationSettles

\* A turn fails and drops what is queued behind it.
LEMMA FailTurnStep ==
  ASSUME IInv, FailTurn
  PROVE  Left /\ Recorded
<1>1. run' \in Run /\ run'.phase = "live" /\ lane' \in Seq(Task) /\ run.phase = "live"
  BY RunSettlesType DEF FailTurn, Live
<1> DEFINE q == [b \in DOMAIN sched.batch |->
                   IF sched.batch[b].place = "queued"
                   THEN [sched.batch[b] EXCEPT !.place = "dropped"] ELSE sched.batch[b]]
<1>2. /\ sched \in Sched /\ DOMAIN sched.batch = 1..Len(sched.batch) /\ Len(sched.batch) \in Nat
      /\ \A b \in 1..Len(sched.batch) : sched.batch[b] \in Batch
  BY InvariantIsBase DEF Sched
<1>3. \A b \in 1..Len(sched.batch) :
        /\ q[b] \in Batch /\ q[b].msgs = sched.batch[b].msgs
        /\ q[b].committed = sched.batch[b].committed
  BY <1>2 DEF Batch
<1>4. q = [b \in 1..Len(sched.batch) |-> q[b]]
  BY <1>2
<1>5. sched' = [sched EXCEPT !.batch = q]
  BY DEF FailTurn
<1> HIDE DEF q
<1>6. q \in Seq(Batch) /\ Len(q) = Len(sched.batch)
  BY <1>2, <1>3, <1>4, FunctionIsSeq
<1>7. Quiet(sched, sched')
  BY <1>2, <1>3, <1>5, <1>6, BatchesQuiet
<1>8. Left
  BY <1>1, <1>7, NativeStep DEF FailTurn
<1> QED BY <1>8, ClosureRecorded DEF FailTurn

\* The rejections of a transport's end are a finite sequence of tasks.
LEMMA RejectedTasksType ==
  ASSUME IInv, NEW f \in Ascending(Incomplete)
  PROVE  RejectedTasks(f) \in Seq(Task)
<1> DEFINE n == Cardinality(Incomplete)
<1>1. n \in Nat
  <2>1. Len(sched.batch) \in Nat
    BY InvariantIsBase DEF Sched
  <2>2. IsFiniteSet(1..Len(sched.batch))
    BY <2>1, FS_Interval
  <2>3. IsFiniteSet(Incomplete)
    BY <2>2, IncompleteType, FS_Subset
  <2> QED BY <2>3, FS_CardinalityType
<1>2. f \in [1..n -> Incomplete]
  BY DEF Ascending
<1> HIDE DEF n
<1>3. \A i \in 1..n : f[i] \in DOMAIN sched.batch
  BY <1>2 DEF Incomplete
<1>4. \A i \in 1..n : Rejected(f[i], sched.batch[f[i]].run) \in Task
  BY <1>3, RejectedType
<1>5. RejectedTasks(f) = [i \in 1..n |-> Rejected(f[i], sched.batch[f[i]].run)]
  BY <1>2 DEF RejectedTasks
<1> HIDE DEF Task
<1>6. \A i \in 1..n : RejectedTasks(f)[i] \in Task
  BY <1>4, <1>5
<1>7. RejectedTasks(f) = [i \in 1..n |-> RejectedTasks(f)[i]]
  BY <1>5
<1> QED BY <1>1, <1>6, <1>7, FunctionIsSeq

\* The transport ends and rejects every open dispatch.
LEMMA EndTransportStep ==
  ASSUME IInv, EndTransport
  PROVE  Left /\ Recorded
<1> DEFINE early == run.isolated = "begun"
           fails == ~early /\ ~Stopping /\ run.stop # "suspension"
           v == IF run'.failed THEN "failed" ELSE "settled"
<1>1. run \in Run /\ run.phase = "live" /\ lane \in Seq(Task) /\ sched \in Sched
  BY InvariantIsBase DEF EndTransport, Live
<1>2. Quiet(sched, sched')
  BY <1>1, IncompleteType, RejectsQuiet DEF EndTransport
<1>3. run' \in Run /\ run'.phase = "live"
  <2> DEFINE failed == (run.failed \/ fails)
             ended == IF early THEN "error" ELSE run.ended
             soon == (run.isolated = "begun")
  <2>1. run' = [run EXCEPT !.work = "unavailable", !.wait = FALSE, !.failed = failed,
                           !.ended = ended, !.settledEarly = soon]
    BY DEF EndTransport
  <2>2. failed \in BOOLEAN /\ soon \in BOOLEAN
        /\ ended \in {"none", "completed", "error", "aborted"}
    BY <1>1 DEF Run
  <2> HIDE DEF failed, ended, soon
  <2> QED BY ZenonT(60), <1>1, <2>1, <2>2 DEF Run
<1>4. lane' \in Seq(Task)
  <2>1. PICK f \in Ascending(Incomplete) :
          lane' = lane \o RejectedTasks(f) \o (IF early THEN <<>> ELSE <<Settled(run.seq, v)>>)
    BY DEF EndTransport
  <2>2. RejectedTasks(f) \in Seq(Task)
    BY RejectedTasksType
  <2>3. Settled(run.seq, v) \in Task
    BY <1>1, SettledType DEF Verdict
  <2> HIDE DEF early, v, Task
  <2>4. (IF early THEN <<>> ELSE <<Settled(run.seq, v)>>) \in Seq(Task)
    BY <2>3
  <2> QED BY <1>1, <2>1, <2>2, <2>4
<1>5. Left
  BY <1>1, <1>2, <1>3, <1>4, NativeStep DEF EndTransport
<1> QED BY <1>5, ClosureRecorded DEF EndTransport

-----------------------------------------------------------------------------
(* Theorems *)

\* Every closure of the lane keeps the invariant.
LEMMA LaneStep ==
  ASSUME IInv, InLane
  PROVE  Left /\ Recorded
BY AdmitAgainStep, AdmitFullStep, AdmitStep, AdmitUnavailableStep, AdmitResumeStep,
   CommitResumeStep, FailResumeStep, InterruptStep, FinishInterruptStep, AbortStep,
   FinishEndStep, SettledInLaneStep, ReconcileInLaneStep, RejectedInLaneStep,
   FinishAwaitStep, BoundaryInLaneStep, DrainInLaneStep, EvaluateReleaseStep,
   ReturnAbandonedStep DEF InLane

\* So does every event of the Runtime.
LEMMA RuntimeStep ==
  ASSUME IInv, Native
  PROVE  Left /\ Recorded
BY StartTurnStep, EnterQueueStep, TakeInputStep, CancelDeliveryStep, CompletionResolvesStep,
   RejectDeliveryStep, ContinueTurnStep, ReachBoundaryStep, BeginWaitStep, CompleteWaitStep,
   CompleteTurnStep, FailTurnStep, AbortTurnStep, PreparationSettlesStep, EndTransportStep,
   RetrieveAnswerStep, AnswerRequestStep DEF Native

\* So does every operation of others.
LEMMA OthersStep ==
  ASSUME IInv, Others
  PROVE  Left /\ Recorded
BY ArriveStep, ControlStep, ControlResumeStep DEF Others

\* The inductive step, with what it says of a dispatch.
LEMMA StepKeepsInvariant ==
  ASSUME IInv, [Next]_vars
  PROVE  IInv' /\ SafeDispatch(sched', run')
<1>1. CASE Next
  <2>1. Left /\ Recorded
    BY <1>1, LaneStep, RuntimeStep, OthersStep, JoinSettlesStep DEF Next
  <2> QED BY <2>1, LeftKeepsInvariant
<1>2. CASE UNCHANGED vars
  <2>1. Left
    BY <1>2, LaneGrows, InvariantIsBase DEF vars
  <2>2. Recorded
    BY <1>2, ClosureRecorded DEF vars, transcript
  <2> QED BY <2>1, <2>2, LeftKeepsInvariant
<1> QED BY <1>1, <1>2

\* The initial states satisfy the invariant.
LEMMA InitialInvariant ==
  ASSUME Init
  PROVE  IInv
<1>1. sched \in Sched
  BY DEF Init, Sched, NoIds
<1>2. run \in Run
  BY DEF Init, Run
<1>3. copies \in [Delivery -> Nat] /\ spent \in [arrivals : Nat, controls : Nat, faults : Nat]
  BY DEF Init
<1>4. TypeOK
  BY <1>1, <1>2, <1>3 DEF Init, TypeOK
<1>5. /\ \A k \in Slot : sched.slot[k] = 0
      /\ Len(sched.batch) = 0 /\ sched.reserved = None /\ sched.pending = {}
  BY DEF Init, NoIds
<1>6. ~HasPendingScheduling(sched) /\ Consistent(sched)
  BY <1>1, <1>5, PendingScheduling DEF Consistent
<1> QED BY <1>4, <1>6 DEF Init, IInv, ScheduledWorkRetainsItsRun

\* The inductive invariant holds in every reachable state.
THEOREM InvariantHolds == Spec => []IInv
<1>1. Init => IInv
  BY InitialInvariant
<1>2. IInv /\ [Next]_vars => IInv'
  BY StepKeepsInvariant
<1> QED BY <1>1, <1>2, PTL DEF Spec

\* Every variable keeps its type.
THEOREM TypeCorrect == Spec => []TypeOK
<1>1. IInv => TypeOK
  BY DEF IInv
<1> QED BY <1>1, InvariantHolds, PTL

\* Scheduled work exists only with a live Run which it retains, so that no evaluation
\* of a release and no end of a Run can leave it without a recipient.
THEOREM ScheduledWorkRetained == Spec => []ScheduledWorkRetainsItsRun
<1>1. IInv => ScheduledWorkRetainsItsRun
  BY DEF IInv
<1> QED BY <1>1, InvariantHolds, PTL

\* No step hands a Request that is withdrawn to the Runtime.
THEOREM WithdrawnNeverDispatched == Spec => WithdrawnIsNotDispatched
<1>1. IInv /\ [Next]_vars => [Dispatches => NewBatch.msgs \cap withdrawn = {}]_vars
  <2> SUFFICES ASSUME IInv, [Next]_vars, Dispatches
               PROVE  NewBatch.msgs \cap withdrawn = {}
    OBVIOUS
  <2>1. SafeDispatch(sched', run')
    BY StepKeepsInvariant
  <2>2. \/ NewBatch.msgs \subseteq Resume
        \/ NewBatch.msgs \cap withdrawn = {}
    BY <2>1 DEF SafeDispatch, Dispatches, NewBatch
  <2>3. Resume \cap withdrawn = {}
    BY InvariantIsBase, KindAssumption
  <2> QED BY <2>2, <2>3
<1> QED BY <1>1, InvariantHolds, PTL DEF Spec, WithdrawnIsNotDispatched

\* No step hands a Run that is held, suspended or resuming anything but a Resume.
THEOREM HeldTakesOnlyResume == Spec => HeldTakesOnlyItsResume
<1>1. IInv /\ [Next]_vars =>
        [Dispatches /\ (run'.stop # "none" \/ run'.isolated # "none") => NewBatch.msgs \subseteq Resume]_vars
  <2> SUFFICES ASSUME IInv, [Next]_vars, Dispatches, run'.stop # "none" \/ run'.isolated # "none"
               PROVE  NewBatch.msgs \subseteq Resume
    OBVIOUS
  <2>1. SafeDispatch(sched', run')
    BY StepKeepsInvariant
  <2> QED BY <2>1 DEF SafeDispatch, Dispatches, NewBatch, Blocks
<1> QED BY <1>1, InvariantHolds, PTL DEF Spec, HeldTakesOnlyItsResume
=============================================================================
